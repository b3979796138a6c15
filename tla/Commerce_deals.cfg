SPECIFICATION Spec
CONSTANTS
    c1 = c1  c2 = c2  v1 = v1  v2 = v2  p1 = p1  p2 = p2
    d1 = d1  d2 = d2  o1 = o1  o2 = o2  None = None
    Customer = {c1, c2}
    Vendor = {v1}
    Product = {p1}
    Deal = {d1, d2}
    Order = {o1, o2}
    VendorOf <- MCVendorOf
    InitialTag <- MCTag
    TagInput <- NoTags
    Rate <- MCRate
    Agreed = {9, 17}
    Quantity = {1}
    StockInput = {1}
    VendorOp = {}
    Suspendable = {}
    Payload <- OneLinePayloads
    InitialStock <- MCStock
    MaxInCart = 2
    MaxBasket = 2
    SerialRequests = FALSE
INVARIANTS TypeOK  UsedDealsAreSettled  
           CartDealsAreOwn 
  
SYMMETRY Symmetric
