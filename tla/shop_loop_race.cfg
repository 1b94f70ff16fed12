SPECIFICATION Spec
CONSTANTS
    Orders = {o1}
    Cards = {c1, c2}
    Goods = {g1}
    Coupons = {}
    AutoGoods = {g1}
    Stocked = {c1}
    LoopStock = {}
    Legacy = {}
    InitStock = 0
    InitUses = 0
    MaxAmount = 2
    Desks = {}
    OwnerTasks = {"cards"}
    StaleForms = FALSE
    MaxStock = 0
    MaxUses = 0
    NoOrder = NoOrder
    NoCoupon = NoCoupon
    o1 = o1
    c1 = c1
    c2 = c2
    g1 = g1
INVARIANTS LoopOrdersAreSingle
