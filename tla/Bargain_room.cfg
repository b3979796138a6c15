SPECIFICATION Spec
CONSTANTS
    c1 = c1  c2 = c2  t1 = t1  t2 = t2  p1 = p1  None = None
    Customer = {c1, c2}
    Desk = {t1}
    Product = {p1}
    Price = {1, 2, 3}
    Terms <- NarrowTerms
    Interrupted = FALSE
    MaxBargains = 1
INVARIANTS TypeOK PricesInRange DealsAtSharedPrice AcceptanceSettles AcceptedOffersReachPrice
SYMMETRY Symmetric
