----------------------------- MODULE BackOffice -----------------------------
(***************************************************************************)
(* The owner's side of the ledger (internal/admin) and the whole shop:     *)
(* what the back office may do to orders, cards, goods and coupons while   *)
(* checkouts, payments and expiry run, and a restart of the process.       *)
(*                                                                         *)
(* An order is edited in three steps: the page is shown, the posted form   *)
(* is checked against a fresh read of the row (loadOrder), and the         *)
(* transaction writes it if the status is still the one just read.  The    *)
(* owner posts the 订单详情 text as the page showed it.  A goods page posts *)
(* the stock and sales numbers it showed.  A card edit is one UPDATE: it   *)
(* locks the row, decides, and commits a moment later; meanwhile SKIP      *)
(* LOCKED passes over the card.                                            *)
(***************************************************************************)
EXTENDS Ledger

CONSTANTS
    Desks,          \* back-office sessions editing orders
    OwnerTasks,     \* the pages the owner uses in this instance
    StaleForms,     \* whether a page may be posted after its row changed
    MaxStock,       \* bound on the units ever put up for one goods
    MaxUses         \* bound on the uses the owner types into a coupon

ASSUME BackOfficeAssumption ==
    /\ OwnerTasks \subseteq {"orders", "cards", "goods", "coupons"}
    /\ StaleForms \in BOOLEAN
    /\ MaxStock \in Nat /\ MaxUses \in Nat

VARIABLES
    desk,       \* the order form of each session
    page        \* the goods form: what the page showed, or NoPage

deskVars == <<desk, page>>
vars == <<ledgerVars, deskVars>>

Idle == [stage |-> "idle", order |-> NoOrder, info |-> {}, prev |-> Blank, to |-> Blank, take |-> FALSE]
Forms == {Idle} \cup [stage: {"page", "posted"}, order: Orders,
                      info: SUBSET (Cards \cup {NoteShort, NoteInput}),
                      prev: Statuses, to: Statuses, take: BOOLEAN]

NoPage == [stock |-> -1, sales |-> -1]
Pages == [stock: Nat, sales: Nat]

TypeOK ==
    /\ LedgerTypeOK
    /\ desk \in [Desks -> Forms]
    /\ page \in [Goods -> Pages \cup {NoPage}]

Init ==
    /\ LedgerInit
    /\ desk = [d \in Desks |-> Idle]
    /\ page = [g \in Goods |-> NoPage]

-----------------------------------------------------------------------------
(* Orders: orderDetail, orderSave.                                         *)
ShowOrder(d, o) ==
    /\ "orders" \in OwnerTasks
    /\ desk[d].stage = "idle" /\ Written(o)
    /\ desk' = [desk EXCEPT ![d] = [Idle EXCEPT !.stage = "page", !.order = o, !.info = info[o]]]
    /\ UNCHANGED <<ledgerVars, page>>

\* Mutant: any manual order in 异常 is taken to owe its stock.
MutOwesLegacy(o) == placed[o].typ = ManualType /\ status[o] = Short

\* Only a manual order the payment path parked in 异常 still owes its stock.
Owes(o) == placed[o].typ = ManualType /\ status[o] = Short /\ owed[o]

Progress == {Pending, Processing, Done, Failed, Short}

\* Mutant: the owner may move an order nobody paid.
MutMayMoveUnpaid(o, to) == to = status[o] \/ (to \in Progress /\ status[o] # Done)

\* The status changes the form accepts, for the row as just read.
MayMove(o, to) ==
    LET from == status[o] IN
    /\ ~(placed[o].typ = ManualType /\ to = Short /\ from # Short)
    /\ ~(Owes(o) /\ to = Failed)
    /\ \/ to = from
       \/ /\ to \in Progress
          /\ \/ from \in {Pending, Processing}
             \/ from \in {Failed, Short} /\ trade[o] # "none"

\* An order moved on takes the stock it owes, and loses the note of it.
TakesStock(o, to) == Owes(o) /\ to \in {Pending, Processing, Done}

PostOrder(d, to) ==
    LET o == desk[d].order IN
    /\ desk[d].stage = "page"
    /\ StaleForms \/ desk[d].info = info[o]
    /\ MayMove(o, to)
    /\ desk' = [desk EXCEPT ![d].stage = "posted", ![d].prev = status[o], ![d].to = to,
                            ![d].take = TakesStock(o, to)]
    /\ UNCHANGED <<ledgerVars, page>>

\* Mutant: leaving 异常 keeps the reservations.
MutReleasesNot(o, from, to) ==
    placed[o].typ = AutoType /\ from # to /\ from \in {Pending, Processing} /\ to \in {Done, Failed}

\* An auto order's claim on cards ends when it leaves 异常 or is settled by hand.
ReleasesReservations(o, from, to) ==
    /\ placed[o].typ = AutoType /\ from # to
    /\ \/ from = Short
       \/ from \in {Pending, Processing} /\ to \in {Done, Failed}

\* UPDATE ... WHERE id AND status = the one loadOrder read.
\* Mutant: the WHERE clause has the id only.
MutStillAsReadAlways(d) == TRUE
StillAsRead(d) == status[desk[d].order] = desk[d].prev

SaveOrder(d) ==
    LET f == desk[d]
        o == f.order
        g == placed[o].gid
    IN
    /\ f.stage = "posted"
    /\ StillAsRead(d)
    /\ status' = [status EXCEPT ![o] = f.to]
    /\ info' = [info EXCEPT ![o] = IF f.take THEN f.info \ {NoteShort} ELSE f.info]
    /\ IF f.take
       THEN /\ inStock[g] >= placed[o].amt
            /\ inStock' = [inStock EXCEPT ![g] = @ - placed[o].amt]
            /\ owed' = [owed EXCEPT ![o] = FALSE]
       ELSE UNCHANGED <<inStock, owed>>
    /\ resv' = [c \in Cards |->
                   IF ReleasesReservations(o, f.prev, f.to) /\ resv[c] = o /\ cstatus[c] = Unsold
                   THEN NoOrder ELSE resv[c]]
    /\ desk' = [desk EXCEPT ![d] = Idle]
    /\ UNCHANGED <<placed, retBack, trade, due, cstatus, cgoods, loop, gone, rowLock,
                   gtype, gopen, gdropped, sales, couponVars, ghostVars, paid, sweep, page>>

\* A refused or failed request, or a page nobody posts.
LeaveOrder(d) ==
    /\ desk[d].stage # "idle"
    /\ desk' = [desk EXCEPT ![d] = Idle]
    /\ UNCHANGED <<ledgerVars, page>>

-----------------------------------------------------------------------------
(* Cards: carmisImport, carmiSave, and markDeleted on carmis.              *)
\* Both forms check the goods (type 1, not deleted) before they write; where
\* the owner edits goods too, it may have changed since.
TakesCards(g) == "goods" \in OwnerTasks \/ gtype[g] = AutoType

ImportCard(c, g, l) ==
    /\ "cards" \in OwnerTasks
    /\ cstatus[c] = 0 /\ TakesCards(g)
    /\ cstatus' = [cstatus EXCEPT ![c] = Unsold]
    /\ cgoods' = [cgoods EXCEPT ![c] = g]
    /\ loop' = [loop EXCEPT ![c] = l]
    /\ UNCHANGED <<orderVars, gone, resv, rowLock, goodsVars, couponVars, ghostVars, paid, sweep, deskVars>>

\* Mutant: the statement does not check that the card is unsold.
MutLockCardSold(c) ==
    /\ "cards" \in OwnerTasks
    /\ rowLock[c] = "free" /\ cstatus[c] # 0
    /\ rowLock' = [rowLock EXCEPT ![c] = IF resv[c] = NoOrder THEN "edit" ELSE "refused"]
    /\ UNCHANGED <<orderVars, cstatus, cgoods, loop, gone, resv, goodsVars, couponVars,
                   ghostVars, paid, sweep, deskVars>>

\* The statement has the row lock and has (re)checked its WHERE clause: the
\* card is unsold and reserved for nobody.  A statement that saw the card
\* free but waited for a checkout to commit finds it reserved: it holds the
\* lock for an instant and changes nothing.
LockCard(c) ==
    /\ "cards" \in OwnerTasks
    /\ rowLock[c] = "free" /\ cstatus[c] = Unsold
    /\ rowLock' = [rowLock EXCEPT ![c] = IF resv[c] = NoOrder THEN "edit" ELSE "refused"]
    /\ UNCHANGED <<orderVars, cstatus, cgoods, loop, gone, resv, goodsVars, couponVars,
                   ghostVars, paid, sweep, deskVars>>

EditCard(c, g, l, s) ==
    /\ rowLock[c] = "edit" /\ ~gone[c] /\ TakesCards(g)
    /\ cgoods' = [cgoods EXCEPT ![c] = g]
    /\ loop' = [loop EXCEPT ![c] = l]
    /\ cstatus' = [cstatus EXCEPT ![c] = s]
    /\ rowLock' = [rowLock EXCEPT ![c] = "free"]
    /\ UNCHANGED <<orderVars, gone, resv, goodsVars, couponVars, ghostVars, paid, sweep, deskVars>>

DeleteOrRestoreCard(c) ==
    /\ rowLock[c] = "edit"
    /\ gone' = [gone EXCEPT ![c] = ~@]
    /\ rowLock' = [rowLock EXCEPT ![c] = "free"]
    /\ UNCHANGED <<orderVars, cstatus, cgoods, loop, resv, goodsVars, couponVars, ghostVars,
                   paid, sweep, deskVars>>

UnlockCard(c) ==
    /\ rowLock[c] # "free"
    /\ rowLock' = [rowLock EXCEPT ![c] = "free"]
    /\ UNCHANGED <<orderVars, cstatus, cgoods, loop, gone, resv, goodsVars, couponVars,
                   ghostVars, paid, sweep, deskVars>>

-----------------------------------------------------------------------------
(* Goods: goodsEdit shows the row, goodsSave writes every field back.  The *)
(* owner changes the stock by delta from the number shown.                 *)
ShowGoods(g) ==
    /\ "goods" \in OwnerTasks
    /\ page[g] = NoPage /\ ~gdropped[g]
    /\ page' = [page EXCEPT ![g] = [stock |-> inStock[g], sales |-> sales[g]]]
    /\ UNCHANGED <<ledgerVars, desk>>

SaveGoods(g, delta, open, typ) ==
    /\ page[g] # NoPage /\ ~gdropped[g]
    /\ StaleForms \/ page[g] = [stock |-> inStock[g], sales |-> sales[g]]
    /\ page[g].stock + delta >= 0
    /\ supply[g] + delta \in 0..MaxStock
    /\ inStock' = [inStock EXCEPT ![g] = page[g].stock + delta]
    /\ supply' = [supply EXCEPT ![g] = @ + delta]
    /\ sales' = [sales EXCEPT ![g] = page[g].sales]
    /\ gopen' = [gopen EXCEPT ![g] = open]
    /\ gtype' = [gtype EXCEPT ![g] = typ]
    /\ page' = [page EXCEPT ![g] = NoPage]
    /\ UNCHANGED <<orderVars, cardVars, gdropped, couponVars, booked, soldTo, granted, paid, sweep, desk>>

DeleteOrRestoreGoods(g) ==
    /\ "goods" \in OwnerTasks
    /\ gdropped' = [gdropped EXCEPT ![g] = ~@]
    /\ UNCHANGED <<orderVars, cardVars, gtype, gopen, inStock, sales, couponVars, ghostVars,
                   paid, sweep, deskVars>>

LeaveGoods(g) ==
    /\ page[g] # NoPage
    /\ page' = [page EXCEPT ![g] = NoPage]
    /\ UNCHANGED <<ledgerVars, desk>>

-----------------------------------------------------------------------------
(* Coupons: couponSave types a new number of remaining uses, markDeleted   *)
(* deletes and restores.                                                   *)
UsesHeld(k) == {o \in Orders : Written(o) /\ placed[o].coupon = k /\ retBack[o] = 0}

SaveCoupon(k, n, on) ==
    /\ "coupons" \in OwnerTasks
    /\ ~dropped[k]
    /\ ret' = [ret EXCEPT ![k] = n]
    /\ usable' = [usable EXCEPT ![k] = on]
    /\ granted' = [granted EXCEPT ![k] = n + Cardinality(UsesHeld(k))]
    /\ UNCHANGED <<orderVars, cardVars, goodsVars, dropped, booked, soldTo, supply, paid, sweep, deskVars>>

DeleteOrRestoreCoupon(k) ==
    /\ "coupons" \in OwnerTasks
    /\ dropped' = [dropped EXCEPT ![k] = ~@]
    /\ UNCHANGED <<orderVars, cardVars, goodsVars, ret, usable, ghostVars, paid, sweep, deskVars>>

-----------------------------------------------------------------------------
\* The process dies and comes back: PostgreSQL rolls back every open
\* transaction, requests and the tick's list are lost; pages stay open in
\* the owner's browser.
Restart ==
    /\ status' = [o \in Orders |-> IF status[o] = Checking THEN Blank ELSE status[o]]
    /\ placed' = [o \in Orders |-> IF status[o] = Checking THEN NoPlacement ELSE placed[o]]
    /\ rowLock' = [c \in Cards |-> "free"]
    /\ sweep' = {}
    /\ desk' = [d \in Desks |-> IF desk[d].stage = "posted" THEN Idle ELSE desk[d]]
    /\ UNCHANGED <<retBack, owed, trade, info, due, cstatus, cgoods, loop, gone, resv,
                   goodsVars, couponVars, ghostVars, paid, page>>

OrdersPage(d) ==
    \/ \E o \in Orders : ShowOrder(d, o)
    \/ \E to \in Statuses \ {Blank, Checking} : PostOrder(d, to)
    \/ SaveOrder(d)
    \/ LeaveOrder(d)

CardsPage(c) ==
    \/ \E g \in Goods, l \in BOOLEAN : ImportCard(c, g, l)
    \/ LockCard(c)
    \/ \E g \in Goods, l \in BOOLEAN, s \in {Unsold, Sold} : EditCard(c, g, l, s)
    \/ DeleteOrRestoreCard(c)
    \/ UnlockCard(c)

GoodsPage(g) ==
    \/ ShowGoods(g)
    \/ \E delta \in {-1, 0, 1}, open \in BOOLEAN, typ \in {AutoType, ManualType} : SaveGoods(g, delta, open, typ)
    \/ DeleteOrRestoreGoods(g)
    \/ LeaveGoods(g)

CouponsPage(k) ==
    \/ \E n \in 0..MaxUses, on \in BOOLEAN : SaveCoupon(k, n, on)
    \/ DeleteOrRestoreCoupon(k)

OwnerNext ==
    \/ \E d \in Desks : OrdersPage(d)
    \/ \E c \in Cards : CardsPage(c)
    \/ \E g \in Goods : GoodsPage(g)
    \/ \E k \in Coupons : CouponsPage(k)

Next ==
    \/ LedgerNext /\ UNCHANGED deskVars
    \/ OwnerNext
    \/ Restart

Spec == Init /\ [][Next]_vars

\* A gateway repeats its notice until it is answered with success, and an
\* answer other than success is all it gets before Complete has committed.
GatewayRepeats == \A o \in Orders : WF_vars(Complete(o) /\ UNCHANGED deskVars)

\* Time passes, the tick runs every 30 seconds and a row's failure is not
\* permanent (so a run reaches each listed row again and again until it
\* succeeds).  Nothing is assumed of buyers and of the owner.
Fairness ==
    /\ GatewayRepeats
    /\ WF_vars(ListDue /\ UNCHANGED deskVars)
    /\ \A o \in Orders :
          /\ WF_vars(GrowOld(o) /\ UNCHANGED deskVars)
          /\ SF_vars(ExpireOne(o) /\ UNCHANGED deskVars)

FairSpec == Spec /\ Fairness

-----------------------------------------------------------------------------
(* What the ledger promises.                                               *)

\* A card is never promised twice, nor to an order that has no claim on it:
\* a reserved card is unsold, on the shelf of the order's own goods, and its
\* order is unpaid or waiting in 异常; an unpaid auto order holds exactly the
\* cards it bought (CreateOrder, settle, ExpireDue, releasesReservations,
\* carmiSave's WHERE clause).
ReservationValid(c) ==
    resv[c] # NoOrder =>
        LET o == resv[c] IN
        /\ cstatus[c] = Unsold /\ ~gone[c] /\ rowLock[c] # "edit"
        /\ placed[o].typ = AutoType /\ cgoods[c] = placed[o].gid
        /\ status[o] \in {Unpaid, Short}

ReservationFull(o) ==
    status[o] = Unpaid /\ placed[o].typ = AutoType => Cardinality(Reserved(o)) = placed[o].amt

ReservationsExact ==
    /\ \A c \in Cards : ReservationValid(c)
    /\ \A o \in Orders : ReservationFull(o)

\* A card sold to one buyer is never sold to another, whatever notices,
\* redeliveries and edits interleave; and it stays marked sold.
NoCardSoldTwice ==
    /\ \A o1, o2 \in Orders : o1 # o2 => soldTo[o1] \cap soldTo[o2] = {}
    /\ \A o \in Orders : \A c \in soldTo[o] : cstatus[c] = Sold /\ status[o] = Done

\* Coupon uses are conserved: what is left plus what orders hold is what the
\* owner granted, through late payments, deletions and repeated notices.
CouponUsesConserved ==
    \A k \in Coupons : ret[k] + Cardinality(UsesHeld(k)) = granted[k]

\* The units of a set of orders, one element for each unit bought.
Units(S) == {u \in S \X (1..MaxAmount) : u[2] <= placed[u[1]].amt}

HoldsStock(o) ==
    /\ Written(o) /\ placed[o].typ = ManualType
    /\ status[o] # Expired
    /\ ~(status[o] = Short /\ owed[o])

\* Manual stock is conserved: every unit the owner put up is in stock or
\* held by exactly one order, and never taken twice for one order.
StockConserved ==
    \A g \in Goods :
        inStock[g] + Cardinality(Units({o \in Orders : HoldsStock(o) /\ placed[o].gid = g})) = supply[g]

\* Each settled order counts once in sales_volume, however often it is
\* notified, redelivered or moved by the owner.
SalesCountedOnce ==
    \A g \in Goods : sales[g] = Cardinality(Units({o \in booked : placed[o].gid = g}))

\* Goods leave only against the exact amount: an order past 待支付/过期 was
\* paid in full, and one the buyer never paid is not moved on by anybody.
OnlyPaidOrdersProgress ==
    \A o \in Orders : status[o] \in Progress => paid[o] = "exact" /\ trade[o] # "none"

\* A recorded payment is never undone: expiry, a checkout's rollback or an
\* owner's stale save cannot take a paid order back.
PaymentNeverUndone ==
    [][\A o \in Orders : trade[o] # "none" => trade'[o] # "none" /\ status'[o] \in Progress]_vars

\* A payment in time is short of stock only if, at that very moment, another
\* transaction holds one of the cards reserved for it.
InTimeNeverShort ==
    [][\A o \in Orders : status[o] = Unpaid /\ status'[o] = Short =>
          \E c \in Reserved(o) : rowLock[c] # "free"]_vars

\* The rows as the promise sees them.
Stage == [s \in Statuses |->
    CASE s \in {Blank, Checking} -> "none"
      [] s = Unpaid -> "open"
      [] s = Expired -> "expired"
      [] s = Done -> "done"
      [] OTHER -> "paid"]

Service == INSTANCE ShopService WITH
    stage <- [o \in Orders |-> Stage[status[o]]],
    promised <- [o \in Orders |-> Reserved(o)],
    given <- soldTo

\* Checkouts, notices, redeliveries, the sweep, the owner's forms and restarts
\* together are the shop its buyers are promised: each of their steps is one of
\* ShopService or changes nothing there.
ImplementsShopService == Service!Spec

\* No order holds its stock for ever: it is settled or it expires.
UnpaidEnds == \A o \in Orders : status[o] = Unpaid ~> status[o] # Unpaid

\* Money that arrived, in time or late, is recorded on its order.
PaymentsRecorded == \A o \in Orders : paid[o] = "exact" ~> trade[o] # "none"

\* What was delivered can still be read in the order (原文写入订单详情).
DeliveredTextKept ==
    \A o \in Orders : status[o] = Done => soldTo[o] \subseteq info[o]

\* A goods with loop cards sells one at a time.
LoopOrdersAreSingle ==
    \A c \in Cards : resv[c] # NoOrder /\ loop[c] => placed[resv[c]].amt = 1
=============================================================================
