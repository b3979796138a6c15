SPECIFICATION Spec
CONSTANTS
    p1 = p1  c1 = c1  c2 = c2  None = None
    Product = {p1}
    Call = {c1, c2}
    MaxQuantity = 2
    MaxId = 2
INVARIANTS TypeOK OneCart PageAgrees
SYMMETRY Alike
