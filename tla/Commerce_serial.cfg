SPECIFICATION Spec
CONSTANTS
    c1 = c1  c2 = c2  v1 = v1  v2 = v2  p1 = p1  p2 = p2
    d1 = d1  d2 = d2  o1 = o1  o2 = o2  None = None
    Customer = {c1}
    Vendor = {v1, v2}
    Product = {p1, p2}
    Deal = {d1}
    Order = {o1, o2}
    VendorOf <- TwoVendorOf
    InitialTag <- MCTag
    TagInput <- NewTags
    Rate <- TwoRate
    Agreed = {17}
    Quantity = {1}
    StockInput = {1}
    VendorOp = {"update", "delete"}
    Suspendable = {v1}
    Payload <- TwoProductPayloads
    InitialStock <- MCStock
    MaxInCart = 1
    MaxBasket = 2
    SerialRequests = TRUE
INVARIANT MoneyConserved
PROPERTY LedgerSpec
SYMMETRY Symmetric
