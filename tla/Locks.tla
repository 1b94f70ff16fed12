-------------------------------- MODULE Locks --------------------------------
(***************************************************************************)
(* The row locks under Ledger: every transaction of the shop as the        *)
(* sequence of row locks its statements take, one lock per step.  Ledger   *)
(* treats a transaction as one step; this module checks what entitles it   *)
(* to: transactions never deadlock, and SKIP LOCKED passes over a card     *)
(* only because the back office is editing it.                             *)
(*                                                                         *)
(* Lock modes are PostgreSQL's: share is FOR KEY SHARE, taken on goods by  *)
(* the foreign keys of carmis and coupons_goods; write is FOR NO KEY       *)
(* UPDATE, taken by an UPDATE; exclusive is FOR UPDATE.  An UPDATE of      *)
(* several cards locks them in any order.  Of the data only the part that  *)
(* decides which rows a statement touches is kept.                         *)
(***************************************************************************)
EXTENDS Integers, Sequences, FiniteSets

CONSTANTS
    Txs,            \* database connections
    Orders, Cards, Goods, Coupons,
    CardGoods,      \* carmis.goods_id
    Amount,         \* orders.buy_amount
    Email, Source,  \* the two advisory-lock keys of unpaidQuota
    None            \* no row, no order, no coupon

Tables == <<Orders, Cards, Goods, Coupons, {Email}, {Source}>>
Rows == Orders \cup Cards \cup Goods \cup Coupons \cup {Email, Source}

ASSUME LocksAssumption ==
    /\ IsFiniteSet(Txs) /\ IsFiniteSet(Rows)
    /\ CardGoods \in [Cards -> Goods] /\ Amount \in Nat \ {0}
    /\ None \notin Rows
    /\ \A m, n \in DOMAIN Tables : m # n => Tables[m] \cap Tables[n] = {}

VARIABLES
    ord,        \* an order's stage, goods and coupon
    owner,      \* carmis.reserved_order_id
    sold,       \* cards no longer unsold
    tx,         \* what each connection runs, how far, and the cards it picked
    want,       \* the row whose lock it waits for
    held        \* locks: <<connection, row, mode>>

vars == <<ord, owner, sold, tx, want, held>>

Stages == {"blank", "unpaid", "expired", "short", "closed"}

Idle == [kind |-> "idle", order |-> None, goods |-> None, coupon |-> None, card |-> None, at |-> 0, got |-> {}]

Job(kind, o, g, k, c) == [kind |-> kind, order |-> o, goods |-> g, coupon |-> k, card |-> c, at |-> 1, got |-> {}]

\* Goods are sold by the card if there are cards of them, else by hand.
ShelfOf(g) == {c \in Cards : CardGoods[c] = g}
AutoOrder(o) == ord[o].goods # None /\ ShelfOf(ord[o].goods) # {}

-----------------------------------------------------------------------------
(* What each transaction locks, in the order of its statements.            *)

\* Mutants: expiry gives the coupon back before it locks the goods; a
\* checkout takes its cards before.
MutExpireCouponFirst == <<"order", "coupon", "goods", "own">>
MutCheckoutGoodsLate == <<"email", "source", "free", "goods", "coupon">>

CheckoutLocks == <<"email", "source", "goods", "free", "coupon">>
SettleLocks == <<"order", "goods", "coupon", "free", "own">>
ExpireLocks == <<"order", "goods", "coupon", "own">>
CouponSaveLocks == <<"shareGoods", "coupon", "shareGoods">>

Program(kind) ==
    CASE kind = "checkout" -> CheckoutLocks
      [] kind = "settle" -> SettleLocks
      [] kind = "expire" -> ExpireLocks
      [] kind = "saveTake" -> <<"order", "goods">>
      [] kind = "saveRelease" -> <<"order", "own">>
      [] kind = "stamp" -> <<"order">>
      [] kind = "couponSave" -> CouponSaveLocks
      [] kind = "goodsSave" -> <<"goods">>
      [] kind = "import" -> <<"shareGoods">>
      [] kind = "cardEdit" -> <<"card", "shareGoods">>

Mode(step) ==
    CASE step = "shareGoods" -> "share"
      [] step \in {"order", "free", "card"} -> "exclusive"
      [] OTHER -> "write"

Conflict(m1, m2) == {m1, m2} \notin {{"share"}, {"share", "write"}}

Holders(r) == {h \in held : h[2] = r}
Holds(t, r) == \E h \in Holders(r) : h[1] = t

\* The transactions t waits for: those holding the row in a conflicting mode.
Blockers(t, r, m) == {h[1] : h \in {x \in Holders(r) : x[1] # t /\ Conflict(x[3], m)}}

\* A late payment takes the coupon use again; an order in time does not.
TakesCoupon(t) == tx[t].kind # "settle" \/ ord[tx[t].order].stage = "expired"

Needs(t, step) ==
    LET w == tx[t] IN
    CASE step = "email" -> {Email}
      [] step = "source" -> {Source}
      [] step = "order" -> {w.order}
      [] step \in {"goods", "shareGoods"} -> {w.goods}
      [] step = "coupon" -> IF TakesCoupon(t) THEN {w.coupon} \ {None} ELSE {}
      [] step = "own" -> {c \in Cards : owner[c] = w.order /\ c \notin sold}
      [] step = "card" -> {w.card}
      [] OTHER -> {}

Missing(t, step) == {r \in Needs(t, step) : ~Holds(t, r)}

\* The statement it has come to: the first card query or statement with rows
\* still to lock; past the end if there is none.
Now(t) ==
    LET P == Program(tx[t].kind)
        ahead == {n \in tx[t].at..Len(P) : P[n] = "free" \/ Missing(t, P[n]) # {}}
    IN CHOOSE n \in ahead \cup {Len(P) + 1} : \A m \in ahead : n <= m
Statement(t) == (Program(tx[t].kind) \o <<"commit">>)[Now(t)]

\* The rows the card query sees, locked or not.
Eligible(t) ==
    {c \in ShelfOf(tx[t].goods) \ sold :
        owner[c] = None \/ (tx[t].kind = "settle" /\ owner[c] = tx[t].order)}

Running(t) == tx[t].kind # "idle"

\* The order or card, once locked, is not as the transaction expected: it
\* ends without touching anything else.
Moot(t) ==
    /\ Running(t)
    /\ Holds(t, tx[t].order) \/ Holds(t, tx[t].card)
    /\ \/ /\ tx[t].kind = "settle"
          /\ ord[tx[t].order].stage \notin {"unpaid", "expired"} \cup (IF AutoOrder(tx[t].order) THEN {"short"} ELSE {})
       \/ tx[t].kind = "expire" /\ ord[tx[t].order].stage # "unpaid"
       \/ tx[t].kind \in {"saveTake", "saveRelease"} /\ ord[tx[t].order].stage # "short"
       \/ tx[t].kind = "cardEdit" /\ (owner[tx[t].card] # None \/ tx[t].card \in sold)

-----------------------------------------------------------------------------
Init ==
    /\ ord = [o \in Orders |-> [stage |-> "blank", goods |-> None, coupon |-> None]]
    /\ owner = [c \in Cards |-> None]
    /\ sold = {}
    /\ tx = [t \in Txs |-> Idle]
    /\ want = [t \in Txs |-> None]
    /\ held = {}

-----------------------------------------------------------------------------
(* One connection: begin, ask for a lock, get it, run the card query, end. *)

Fresh == {o \in Orders : ord[o].stage = "blank" /\ \A t \in Txs : tx[t].order # o}

\* The transactions that may begin.  The order number of a checkout is fresh;
\* the goods and coupon of an order are those of its row.  A checkout whose
\* email and source nobody else uses starts after the locks on its keys.
Jobs ==
    {[Job("checkout", o, g, k, None) EXCEPT !.at = n] :
        n \in {1, 3}, o \in Fresh, g \in Goods, k \in Coupons \cup {None}}
    \cup {Job(kind, o, ord[o].goods, ord[o].coupon, None) :
             kind \in {"settle", "expire", "stamp"}, o \in {x \in Orders : ord[x].stage # "blank"}}
    \cup {Job(IF AutoOrder(o) THEN "saveRelease" ELSE "saveTake", o, ord[o].goods, None, None) :
             o \in {x \in Orders : ord[x].stage = "short"}}
    \cup {Job("couponSave", None, g, k, None) : g \in Goods, k \in Coupons}
    \cup {Job("goodsSave", None, g, None, None) : g \in Goods}
    \cup {Job("import", None, g, None, None) : g \in {CardGoods[c] : c \in Cards}}
    \cup {Job("cardEdit", None, CardGoods[c], None, c) : c \in Cards}

Begin(t, job) ==
    /\ ~Running(t)
    /\ tx' = [tx EXCEPT ![t] = job]
    /\ UNCHANGED <<ord, owner, sold, want, held>>

At(t, step) == Running(t) /\ ~Moot(t) /\ Statement(t) = step

\* A statement reaches a row: it locks it, or queues for it.
Reach(t) ==
    /\ Running(t) /\ ~Moot(t)
    /\ want[t] = None
    /\ LET step == Statement(t) IN
       \E r \in Missing(t, step) :
          IF Blockers(t, r, Mode(step)) = {}
          THEN held' = held \cup {<<t, r, Mode(step)>>} /\ UNCHANGED want
          ELSE want' = [want EXCEPT ![t] = r] /\ UNCHANGED held
    /\ UNCHANGED <<ord, owner, sold, tx>>

\* A queued lock is granted.  A card that changed while its UPDATE waited
\* drops out of the statement's WHERE clause, locked all the same.
Grant(t) ==
    /\ want[t] # None
    /\ Blockers(t, want[t], Mode(Statement(t))) = {}
    /\ held' = held \cup {<<t, want[t], Mode(Statement(t))>>}
    /\ want' = [want EXCEPT ![t] = None]
    /\ UNCHANGED <<ord, owner, sold, tx>>

\* FOR UPDATE SKIP LOCKED LIMIT Amount: cards nobody has locked, the order's
\* own before free ones.  A checkout that finds too few is refused; a payment
\* goes on, with the few it found locked and none of them taken.
Pickable(t) == {c \in Eligible(t) : Blockers(t, c, "exclusive") = {}}
Full(P) == Cardinality(P) = Amount

PickCards(t) ==
    /\ At(t, "free")
    /\ \E P \in SUBSET Pickable(t) :
          /\ Full(P) \/ (P = Pickable(t) /\ Cardinality(P) < Amount)
          /\ Full(P) \/ tx[t].kind = "settle" \/ ShelfOf(tx[t].goods) = {}
          /\ (\E c \in P : owner[c] = None) => {c \in Pickable(t) : owner[c] # None} \subseteq P
          /\ tx' = [tx EXCEPT ![t].at = Now(t) + 1, ![t].got = IF Full(P) THEN P ELSE {}]
          /\ held' = held \cup {<<t, c, "exclusive">> : c \in P}
    /\ UNCHANGED <<ord, owner, sold, want>>

Release(t) ==
    /\ tx' = [tx EXCEPT ![t] = Idle]
    /\ want' = [want EXCEPT ![t] = None]
    /\ held' = {h \in held : h[1] # t}

\* The stages a committed transaction may leave its order in.  A late payment
\* of goods sold by hand may find too little stock.
StagesAfter(t) ==
    LET w == tx[t] IN
    CASE w.kind = "checkout" -> {"unpaid"}
      [] w.kind = "settle" /\ AutoOrder(w.order) -> {IF w.got = {} THEN "short" ELSE "closed"}
      [] w.kind = "settle" /\ ~AutoOrder(w.order) ->
            {"closed"} \cup (IF ord[w.order].stage = "expired" THEN {"short"} ELSE {})
      [] w.kind = "expire" -> {"expired"}
      [] w.kind \in {"saveTake", "saveRelease"} -> {"closed"}
      [] w.kind = "stamp" -> {ord[w.order].stage}

\* What the order reserved is released by all but a short payment and a stamp.
Commit(t) ==
    LET w == tx[t] IN
    /\ At(t, "commit")
    /\ IF w.order = None THEN UNCHANGED <<ord, owner>> ELSE
       \E stage \in StagesAfter(t) :
          /\ ord' = [ord EXCEPT ![w.order] =
                        [stage |-> stage, goods |-> w.goods,
                         coupon |-> IF w.kind = "checkout" THEN w.coupon ELSE @.coupon]]
          /\ owner' = [c \in Cards |->
                          IF w.kind = "checkout" /\ c \in w.got THEN w.order
                          ELSE IF owner[c] = w.order /\ w.kind # "stamp" /\ stage # "short" THEN None
                          ELSE owner[c]]
    /\ sold' = IF w.kind = "settle" THEN sold \cup w.got ELSE sold
    /\ Release(t)

\* An error, a context that ended, a refusal, a row not as expected.
Rollback(t) ==
    /\ Running(t)
    /\ Release(t)
    /\ UNCHANGED <<ord, owner, sold>>

\* What ends a transaction that cannot go on: it found a row not as expected
\* or no card to sell.
GiveUp(t) ==
    /\ Moot(t) \/ (At(t, "free") /\ tx[t].kind = "checkout" /\ Cardinality(Pickable(t)) < Amount)
    /\ Rollback(t)

Proceed(t) ==
    \/ Reach(t)
    \/ PickCards(t)
    \/ Commit(t)
    \/ GiveUp(t)

Next ==
    \E t \in Txs :
        \/ \E job \in Jobs : Begin(t, job)
        \/ Proceed(t)
        \/ Grant(t)
        \/ Rollback(t)

Spec == Init /\ [][Next]_vars

-----------------------------------------------------------------------------
\* No set of transactions waits in a circle, so PostgreSQL never has to kill
\* one (40P01): the lock order of settle's comment holds for every program,
\* the back office's included.
WaitsFor(t, u) == want[t] # None /\ u \in Blockers(t, want[t], Mode(Statement(t)))

NoDeadlock == \A S \in (SUBSET Txs) \ {{}} : \E t \in S : \A u \in S : ~WaitsFor(t, u)

\* When a checkout or a payment queries the cards of its goods, the only cards
\* SKIP LOCKED can hide from it are those a back-office edit holds: no
\* payment, expiry or checkout makes another one short.
PassesOverEditsOnly ==
    \A t \in Txs : At(t, "free") =>
        \A c \in Eligible(t) : \A u \in Blockers(t, c, "exclusive") : tx[u].kind = "cardEdit"
=============================================================================
