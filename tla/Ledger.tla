------------------------------- MODULE Ledger -------------------------------
(***************************************************************************)
(* The money and stock ledger of the shop: the tables orders, carmis       *)
(* (cards), goods and coupons, and the transactions of internal/store that *)
(* move an order through its life: CreateOrder, settle (Complete and       *)
(* Redeliver) and ExpireDue.                                               *)
(*                                                                         *)
(* Grain of atomicity.  A transaction is one step from its first row lock  *)
(* to its commit: every row it writes is locked before it is read, and the *)
(* goods row (FOR NO KEY UPDATE) serialises all writers of one goods.      *)
(* Reads made outside such a lock are steps of their own: CreateOrder      *)
(* reads goods and cards before it locks the goods row (BeginCheckout,     *)
(* PlaceOrder), ExpireDue lists the overdue orders before the transactions *)
(* that expire them (ListDue, ExpireOne).                                  *)
(*                                                                         *)
(* One variable per column that matters, as a function over row ids.       *)
(* Which of several equally eligible cards a query takes (ORDER BY id) is  *)
(* left open; that an order's own reservations come first is not.          *)
(***************************************************************************)
EXTENDS Integers, FiniteSets

CONSTANTS
    Orders,      \* order rows that may ever be written
    Cards,       \* card rows
    Goods,
    Coupons,
    NoOrder,     \* reserved_order_id IS NULL
    NoCoupon,    \* coupon_id = 0
    MaxAmount,   \* goods.buy_limit_num, the largest amount of one order
    AutoGoods,   \* goods that start as type 1
    Stocked,     \* cards already imported at the start
    LoopStock,   \* those of them that are loop cards
    Legacy,      \* 异常 orders carried over from the old shop (stock_owed = false)
    InitStock,   \* in_stock of a manual goods at the start
    InitUses     \* ret of a coupon at the start

ASSUME LedgerAssumption ==
    /\ IsFiniteSet(Orders) /\ IsFiniteSet(Cards)
    /\ NoOrder \notin Orders /\ NoCoupon \notin Coupons
    /\ MaxAmount \in Nat \ {0}
    /\ AutoGoods \subseteq Goods
    /\ LoopStock \subseteq Stocked /\ Stocked \subseteq Cards
    /\ Legacy \subseteq Orders
    /\ InitStock \in Nat /\ InitUses \in Nat

VARIABLES
    \* orders
    status, placed, retBack, owed, trade, info, due,
    \* carmis; rowLock is a back-office statement in flight on the row
    cstatus, cgoods, loop, gone, resv, rowLock,
    \* goods
    gtype, gopen, gdropped, inStock, sales,
    \* coupons
    ret, usable, dropped,
    \* what the buyer really paid, as the gateway will report it
    paid,
    \* the list of the ExpireDue run in progress
    sweep,
    \* history: settled orders, cards sold to each order, coupon uses and
    \* units the owner has put up
    booked, soldTo, granted, supply

orderVars  == <<status, placed, retBack, owed, trade, info, due>>
cardVars   == <<cstatus, cgoods, loop, gone, resv, rowLock>>
goodsVars  == <<gtype, gopen, gdropped, inStock, sales>>
couponVars == <<ret, usable, dropped>>
ghostVars  == <<booked, soldTo, granted, supply>>
ledgerVars == <<orderVars, cardVars, goodsVars, couponVars, ghostVars, paid, sweep>>

-----------------------------------------------------------------------------
\* orders.status.  Blank: no row yet.  Checking: a checkout transaction that
\* has read the goods and holds no lock yet, so still no row.
Blank == 0
Checking == 7
Unpaid == 1
Pending == 2
Processing == 3
Done == 4
Failed == 5
Short == 6      \* 异常: paid while stock was short
Expired == -1

Statuses == {Blank, Checking, Unpaid, Pending, Processing, Done, Failed, Short, Expired}

AutoType == 1       \* goods.type and orders.type
ManualType == 2

Unsold == 1     \* carmis.status; 0: the row does not exist yet
Sold == 2

NoteShort == "short"    \* the 库存不足 note in orders.info
NoteInput == "input"    \* the buyer's answers to the goods' extra fields

NoPlacement == [gid |-> NoOrder, typ |-> 0, amt |-> 0, coupon |-> NoCoupon]
Placements == [gid: Goods, typ: {AutoType, ManualType}, amt: 1..MaxAmount, coupon: Coupons \cup {NoCoupon}]

Written(o) == status[o] \notin {Blank, Checking}
Reserved(o) == {c \in Cards : resv[c] = o}
OnShelf(g) == {c \in Cards : cstatus[c] = Unsold /\ ~gone[c] /\ cgoods[c] = g}
FreeCards(g) == {c \in OnShelf(g) : resv[c] = NoOrder /\ rowLock[c] = "free"}

LedgerTypeOK ==
    /\ status \in [Orders -> Statuses]
    /\ placed \in [Orders -> Placements \cup {NoPlacement}]
    /\ retBack \in [Orders -> 0..2]
    /\ owed \in [Orders -> BOOLEAN] /\ due \in [Orders -> BOOLEAN]
    /\ trade \in [Orders -> {"none", "gateway", "manual"}]
    /\ info \in [Orders -> SUBSET (Cards \cup {NoteShort, NoteInput})]
    /\ cstatus \in [Cards -> 0..2] /\ cgoods \in [Cards -> Goods]
    /\ loop \in [Cards -> BOOLEAN] /\ gone \in [Cards -> BOOLEAN]
    /\ resv \in [Cards -> Orders \cup {NoOrder}]
    /\ rowLock \in [Cards -> {"free", "edit", "refused"}]
    /\ gtype \in [Goods -> {AutoType, ManualType}] /\ gopen \in [Goods -> BOOLEAN]
    /\ gdropped \in [Goods -> BOOLEAN]
    /\ inStock \in [Goods -> Nat] /\ sales \in [Goods -> Nat]
    /\ ret \in [Coupons -> Nat]
    /\ usable \in [Coupons -> BOOLEAN] /\ dropped \in [Coupons -> BOOLEAN]
    /\ paid \in [Orders -> {"none", "other", "exact"}]
    /\ sweep \in SUBSET Orders
    /\ booked \in SUBSET Orders
    /\ soldTo \in [Orders -> SUBSET Cards]
    /\ granted \in [Coupons -> Nat] /\ supply \in [Goods -> Nat]

\* A legacy order was paid in the old shop and sits in 异常, its stock taken
\* long ago; all other order rows are yet to be written.
LedgerInit ==
    /\ status = [o \in Orders |-> IF o \in Legacy THEN Short ELSE Blank]
    /\ placed \in {p \in [Orders -> {[gid |-> g, typ |-> ManualType, amt |-> 1, coupon |-> NoCoupon] : g \in Goods}
                                     \cup {NoPlacement}] :
                   \A o \in Orders : o \in Legacy <=> p[o] # NoPlacement}
    /\ retBack = [o \in Orders |-> 0]
    /\ owed = [o \in Orders |-> FALSE] /\ due = [o \in Orders |-> FALSE]
    /\ trade = [o \in Orders |-> IF o \in Legacy THEN "gateway" ELSE "none"]
    /\ info = [o \in Orders |-> {}]
    /\ cstatus = [c \in Cards |-> IF c \in Stocked THEN Unsold ELSE 0]
    /\ cgoods \in [Cards -> AutoGoods]
    /\ loop = [c \in Cards |-> c \in LoopStock] /\ gone = [c \in Cards |-> FALSE]
    /\ resv = [c \in Cards |-> NoOrder] /\ rowLock = [c \in Cards |-> "free"]
    /\ gtype = [g \in Goods |-> IF g \in AutoGoods THEN AutoType ELSE ManualType]
    /\ gopen = [g \in Goods |-> TRUE] /\ gdropped = [g \in Goods |-> FALSE]
    /\ inStock = [g \in Goods |-> IF g \in AutoGoods THEN 0 ELSE InitStock]
    /\ sales = [g \in Goods |-> 0]
    /\ ret = [k \in Coupons |-> InitUses]
    /\ usable = [k \in Coupons |-> TRUE] /\ dropped = [k \in Coupons |-> FALSE]
    /\ paid = [o \in Orders |-> IF o \in Legacy THEN "exact" ELSE "none"]
    /\ sweep = {}
    /\ booked = {} /\ soldTo = [o \in Orders |-> {}]
    /\ granted = ret
    /\ supply = [g \in Goods |-> inStock[g] + Cardinality({o \in Legacy : placed[o].gid = g})]

-----------------------------------------------------------------------------
(* CreateOrder.  The reads before the goods lock: the goods is on the      *)
(* shelf, the amount is within the limit, and a goods with loop cards      *)
(* sells one at a time.                                                    *)
BeginCheckout(o, g, n, k) ==
    /\ status[o] = Blank
    /\ gopen[g] /\ ~gdropped[g]
    /\ n > 1 => ~\E c \in OnShelf(g) : loop[c]
    /\ status' = [status EXCEPT ![o] = Checking]
    /\ placed' = [placed EXCEPT ![o] = [gid |-> g, typ |-> gtype[g], amt |-> n, coupon |-> k]]
    /\ UNCHANGED <<retBack, owed, trade, info, due, cardVars, goodsVars, couponVars, ghostVars, paid, sweep>>

\* Mutant: a coupon with no use left is taken all the same.
MutTakeCouponUseUnchecked(k) ==
    \/ k = NoCoupon /\ UNCHANGED ret
    \/ k \in Coupons /\ usable[k] /\ ~dropped[k] /\ ret' = [ret EXCEPT ![k] = @ - 1]

\* The coupon row is locked and one use taken, if the order has a coupon.
TakeCouponUse(k) ==
    \/ k = NoCoupon /\ UNCHANGED ret
    \/ /\ k \in Coupons
       /\ usable[k] /\ ~dropped[k] /\ ret[k] > 0
       /\ ret' = [ret EXCEPT ![k] = @ - 1]

\* The rest of the transaction, from the goods lock to the commit.
PlaceOrder(o) ==
    LET p == placed[o] IN
    /\ status[o] = Checking
    /\ TakeCouponUse(p.coupon)
    /\ \/ /\ p.typ = AutoType
          /\ \E P \in SUBSET FreeCards(p.gid) :
                /\ Cardinality(P) = p.amt
                /\ resv' = [c \in Cards |-> IF c \in P THEN o ELSE resv[c]]
          /\ info' = info
          /\ UNCHANGED inStock
       \/ /\ p.typ = ManualType
          /\ inStock[p.gid] >= p.amt
          /\ inStock' = [inStock EXCEPT ![p.gid] = @ - p.amt]
          /\ info' = [info EXCEPT ![o] = {NoteInput}]
          /\ UNCHANGED resv
    /\ status' = [status EXCEPT ![o] = Unpaid]
    /\ UNCHANGED <<placed, retBack, owed, trade, due, cstatus, cgoods, loop, gone, rowLock,
                   gtype, gopen, gdropped, sales, usable, dropped, ghostVars, paid, sweep>>

\* Any refusal (库存不足, a bad coupon, nothing left to pay) or failure rolls
\* the transaction back and no row is left.
RefuseCheckout(o) ==
    /\ status[o] = Checking
    /\ status' = [status EXCEPT ![o] = Blank]
    /\ placed' = [placed EXCEPT ![o] = NoPlacement]
    /\ UNCHANGED <<retBack, owed, trade, info, due, cardVars, goodsVars, couponVars, ghostVars, paid, sweep>>

-----------------------------------------------------------------------------
(* settle, the one path of Complete (a gateway's notice or a wallet poll)  *)
(* and Redeliver (the owner, after restocking).  A notice whose amount is  *)
(* not the order's, or on an order already settled, changes nothing.       *)

\* Mutant: the query takes only unreserved cards.
MutPickableUnreserved(o) == {c \in OnShelf(placed[o].gid) : resv[c] = NoOrder /\ rowLock[c] = "free"}

\* The cards the query may lock: unsold ones of the goods, reserved for this
\* order or for nobody, that no other transaction holds (SKIP LOCKED).
Pickable(o) == {c \in OnShelf(placed[o].gid) : resv[c] \in {o, NoOrder} /\ rowLock[c] = "free"}

\* The order's own reservations come first.
Picks(o) == {P \in SUBSET Pickable(o) :
                /\ Cardinality(P) = placed[o].amt
                /\ P \subseteq Reserved(o) \/ Pickable(o) \cap Reserved(o) \subseteq P}

\* A use that expiry handed back is taken again; if that is impossible the
\* order is marked 2 and the take is never retried.
Retakable(o) == LET k == placed[o].coupon IN k \in Coupons /\ ret[k] > 0 /\ ~dropped[k]

\* Mutant: an impossible retake is recorded as taken.
MutRetakeCouponUnmarked(o) ==
    IF placed[o].coupon # NoCoupon /\ retBack[o] = 1
    THEN /\ retBack' = [retBack EXCEPT ![o] = 0]
         /\ ret' = IF Retakable(o) THEN [ret EXCEPT ![placed[o].coupon] = @ - 1] ELSE ret
    ELSE UNCHANGED <<retBack, ret>>

RetakeCoupon(o) ==
    IF placed[o].coupon # NoCoupon /\ retBack[o] = 1
    THEN /\ retBack' = [retBack EXCEPT ![o] = IF Retakable(o) THEN 0 ELSE 2]
         /\ ret' = IF Retakable(o) THEN [ret EXCEPT ![placed[o].coupon] = @ - 1] ELSE ret
    ELSE UNCHANGED <<retBack, ret>>

BookSale(o) ==
    /\ sales' = [sales EXCEPT ![placed[o].gid] = @ + placed[o].amt]
    /\ booked' = booked \cup {o}

\* Auto delivery: the picked cards are sold (loop cards stay), their text is
\* written into the order, and whatever the order still reserved is released.
DeliverCards(o, tradeNo) ==
    /\ placed[o].typ = AutoType
    /\ \E P \in Picks(o) :
          LET sold == {c \in P : ~loop[c]} IN
          /\ cstatus' = [c \in Cards |-> IF c \in sold THEN Sold ELSE cstatus[c]]
          /\ resv' = [c \in Cards |->
                         IF \/ c \in P
                            \/ resv[c] = o /\ cgoods[c] = placed[o].gid /\ cstatus[c] = Unsold
                         THEN NoOrder ELSE resv[c]]
          /\ info' = [info EXCEPT ![o] = P]
          /\ soldTo' = [soldTo EXCEPT ![o] = @ \cup sold]
    /\ status' = [status EXCEPT ![o] = Done]
    /\ trade' = [trade EXCEPT ![o] = tradeNo]
    /\ RetakeCoupon(o)
    /\ BookSale(o)
    /\ UNCHANGED <<placed, owed, due, cgoods, loop, gone, rowLock, gtype, gopen, gdropped, inStock,
                   usable, dropped, granted, supply, paid, sweep>>

\* Manual goods: the stock was taken at checkout and is taken again only if
\* the order had expired meanwhile.
TakeManual(o) ==
    LET p == placed[o] IN
    /\ p.typ = ManualType
    /\ IF status[o] = Expired
       THEN /\ inStock[p.gid] >= p.amt
            /\ inStock' = [inStock EXCEPT ![p.gid] = @ - p.amt]
       ELSE UNCHANGED inStock
    /\ status' = [status EXCEPT ![o] = Pending]
    /\ trade' = [trade EXCEPT ![o] = "gateway"]
    /\ RetakeCoupon(o)
    /\ BookSale(o)
    /\ UNCHANGED <<placed, owed, info, due, cardVars, gtype, gopen, gdropped, usable, dropped,
                   soldTo, granted, supply, paid, sweep>>

\* settleShort: the payment is recorded, the order waits in 异常.
SettleShort(o) ==
    /\ \/ placed[o].typ = AutoType /\ Cardinality(Pickable(o)) < placed[o].amt
       \/ /\ placed[o].typ = ManualType /\ status[o] = Expired
          /\ inStock[placed[o].gid] < placed[o].amt
    /\ status' = [status EXCEPT ![o] = Short]
    /\ info' = [info EXCEPT ![o] = {NoteShort} \cup (IF placed[o].typ = ManualType THEN @ ELSE {})]
    /\ trade' = [trade EXCEPT ![o] = "gateway"]
    /\ owed' = [owed EXCEPT ![o] = placed[o].typ = ManualType]
    /\ RetakeCoupon(o)
    /\ UNCHANGED <<placed, due, cardVars, goodsVars, usable, dropped, ghostVars, paid, sweep>>

\* Mutants: late payments are not settled; a repeated notice is.
MutPayableInTime(o) == status[o] \in {Unpaid, Short}
MutPayableAgain(o) == status[o] \in {Unpaid, Expired, Short, Pending}

Payable(o) == status[o] \in {Unpaid, Expired, Short} /\ ~(placed[o].typ = ManualType /\ status[o] = Short)

Complete(o) ==
    /\ paid[o] = "exact"
    /\ Payable(o)
    /\ \/ DeliverCards(o, "gateway")
       \/ TakeManual(o)
       \/ SettleShort(o)

\* Still short: the transaction is rolled back and nothing changes.
Redeliver(o) ==
    /\ status[o] = Short
    /\ DeliverCards(o, IF trade[o] = "none" THEN "manual" ELSE trade[o])

-----------------------------------------------------------------------------
(* ExpireDue, run by the background tick.                                  *)
\* Mutant: the comparison with the cutoff is the wrong way round.
MutOverdueInverted == {o \in Orders : status[o] = Unpaid /\ retBack[o] = 0 /\ ~due[o]}
Overdue == {o \in Orders : status[o] = Unpaid /\ retBack[o] = 0 /\ due[o]}

ListDue ==
    /\ sweep = {} /\ Overdue # {}
    /\ sweep' = Overdue
    /\ UNCHANGED <<orderVars, cardVars, goodsVars, couponVars, ghostVars, paid>>

\* Mutant: the list is trusted and the status not checked again.
MutExpirableAsListed(o) == o \in sweep
Expirable(o) == status[o] = Unpaid

\* expireOne: UPDATE ... WHERE id AND status=1, then everything the order
\* held goes back.
ExpireOne(o) ==
    LET p == placed[o] IN
    /\ o \in sweep
    /\ sweep' = sweep \ {o}
    /\ IF Expirable(o)
       THEN /\ status' = [status EXCEPT ![o] = Expired]
            /\ retBack' = [retBack EXCEPT ![o] = 1]
            /\ ret' = IF p.coupon = NoCoupon THEN ret ELSE [ret EXCEPT ![p.coupon] = @ + 1]
            /\ resv' = [c \in Cards |-> IF resv[c] = o /\ cgoods[c] = p.gid THEN NoOrder ELSE resv[c]]
            /\ inStock' = IF p.typ = ManualType THEN [inStock EXCEPT ![p.gid] = @ + p.amt] ELSE inStock
       ELSE UNCHANGED <<status, retBack, ret, resv, inStock>>
    /\ UNCHANGED <<placed, owed, trade, info, due, cstatus, cgoods, loop, gone, rowLock,
                   gtype, gopen, gdropped, sales, usable, dropped, ghostVars, paid>>

\* An error on one row, or the end of the tick, drops the rest of the list.
SweepFails ==
    /\ sweep # {}
    /\ sweep' = {}
    /\ UNCHANGED <<orderVars, cardVars, goodsVars, couponVars, ghostVars, paid>>

-----------------------------------------------------------------------------
(* The environment: an unpaid order gets older than order_expire_time; a   *)
(* buyer pays, in time or late, the right amount or another one.           *)
GrowOld(o) ==
    /\ status[o] = Unpaid /\ ~due[o]
    /\ due' = [due EXCEPT ![o] = TRUE]
    /\ UNCHANGED <<status, placed, retBack, owed, trade, info, cardVars, goodsVars, couponVars,
                   ghostVars, paid, sweep>>

BuyerPays(o, amount) ==
    /\ status[o] \in {Unpaid, Expired}
    /\ paid[o] # "exact"
    /\ paid' = [paid EXCEPT ![o] = amount]
    /\ UNCHANGED <<orderVars, cardVars, goodsVars, couponVars, ghostVars, sweep>>

LedgerNext ==
    \/ \E o \in Orders :
          \/ \E g \in Goods, n \in 1..MaxAmount, k \in Coupons \cup {NoCoupon} : BeginCheckout(o, g, n, k)
          \/ PlaceOrder(o)
          \/ RefuseCheckout(o)
          \/ Complete(o)
          \/ Redeliver(o)
          \/ ExpireOne(o)
          \/ GrowOld(o)
          \/ \E amount \in {"other", "exact"} : BuyerPays(o, amount)
    \/ ListDue
    \/ SweepFails
=============================================================================
