SPECIFICATION Spec
CONSTANTS
    Orders = {o1, o2}
    Cards = {}
    Goods = {g1}
    Coupons = {k1}
    AutoGoods = {}
    Stocked = {}
    LoopStock = {}
    Legacy = {}
    InitStock = 2
    InitUses = 1
    MaxAmount = 2
    Desks = {}
    OwnerTasks = {"coupons", "goods"}
    StaleForms = FALSE
    MaxStock = 3
    MaxUses = 1
    NoOrder = NoOrder
    NoCoupon = NoCoupon
    o1 = o1
    o2 = o2
    g1 = g1
    k1 = k1
SYMMETRY RowSymmetry
INVARIANTS TypeOK CouponUsesConserved SalesCountedOnce
