SPECIFICATION Spec
CONSTANTS
    Txs = {t1, t2}
    Orders = {o1, o2}
    Cards = {c1, c2}
    Goods = {g1, g2}
    Coupons = {k1}
    CardedGoods = g1
    CardGoods <- MCCardGoods
    Amount = 2
    Email = Email
    Source = Source
    None = None
    t1 = t1
    t2 = t2
    o1 = o1
    o2 = o2
    c1 = c1
    c2 = c2
    g1 = g1
    g2 = g2
    k1 = k1
SYMMETRY LockSymmetry
INVARIANTS NoDeadlock PassesOverEditsOnly
