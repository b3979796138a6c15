SPECIFICATION FairSpec
CONSTANTS
    c1 = c1  c2 = c2  t1 = t1  t2 = t2  p1 = p1  None = None
    Customer = {c1}
    Desk = {t1}
    Product = {p1}
    Price = {1}
    Terms <- PlainTerms
    Interrupted = TRUE
    MaxBargains = 2
PROPERTY ExpiredBargainsClose
