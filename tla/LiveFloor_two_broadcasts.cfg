SPECIFICATION Spec
CONSTANTS
    e1 = e1  e2 = e2  s1 = s1  s2 = s2  v1 = v1  v2 = v2  a1 = a1  None = None
    Exhibition = {e1, e2}
    Stall = {s1, s2}
    Vendor = {v1}
    Admin = {a1}
    ExhibitionOf <- Apart
    LifecycleOp = {"start", "pause", "resume"}
    PatchStatus = {}
    StallOp = {"assign"}
    MaxSessions = 2
INVARIANT VendorLiveOnce
