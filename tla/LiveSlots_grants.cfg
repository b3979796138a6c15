SPECIFICATION Spec
CONSTANTS
    t1 = t1  a1 = a1  p1 = p1  p2 = p2  None = None
    Tab = {t1}
    Admin = {a1}
    Plan = {p1, p2}
    FreePlan = {p2}
    Window <- Windows
    MaxRows = 2
INVARIANTS TypeOK SlotsDisjoint OneActive GrantedIsSettled OnePendingPerPlan
