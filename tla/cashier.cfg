SPECIFICATION CashierFairSpec
CONSTANTS
    Callers = {c1, c2}
    Tabs = {t1, t2}
    Amounts = {x, y}
    NoAmount = NoAmount
    NoEntry = NoEntry
    c1 = c1
    c2 = c2
    t1 = t1
    t2 = t2
    x = x
    y = y
CHECK_DEADLOCK FALSE
INVARIANTS TypeOK SingleFlight QuotesAgree SettledByTheQuote
PROPERTIES NotHammered EveryCallReturns EveryPageComes
