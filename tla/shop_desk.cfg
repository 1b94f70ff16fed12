SPECIFICATION Spec
CONSTANTS
    Orders = {o1, o2}
    Cards = {c1, c2}
    Goods = {g1}
    Coupons = {}
    AutoGoods = {g1}
    Stocked = {c1}
    LoopStock = {}
    Legacy = {}
    InitStock = 0
    InitUses = 1
    MaxAmount = 2
    Desks = {d1}
    OwnerTasks = {"orders", "cards"}
    StaleForms = FALSE
    MaxStock = 0
    MaxUses = 0
    NoOrder = NoOrder
    NoCoupon = NoCoupon
    o1 = o1
    o2 = o2
    c1 = c1
    c2 = c2
    g1 = g1
    d1 = d1
SYMMETRY RowSymmetry
INVARIANTS ReservationsExact NoCardSoldTwice OnlyPaidOrdersProgress DeliveredTextKept
PROPERTIES ImplementsShopService InTimeNeverShort
