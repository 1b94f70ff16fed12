SPECIFICATION FairSpec
CONSTANTS
    Orders = {o1, o2, o3}
    Cards = {}
    Goods = {g1}
    Coupons = {}
    AutoGoods = {}
    Stocked = {}
    LoopStock = {}
    Legacy = {o3}
    InitStock = 2
    InitUses = 0
    MaxAmount = 2
    Desks = {d1}
    OwnerTasks = {"orders"}
    StaleForms = TRUE
    MaxStock = 3
    MaxUses = 0
    NoOrder = NoOrder
    NoCoupon = NoCoupon
    o1 = o1
    o2 = o2
    o3 = o3
    g1 = g1
    d1 = d1
INVARIANTS StockConserved
PROPERTIES UnpaidEnds PaymentsRecorded
