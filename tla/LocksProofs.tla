----------------------------- MODULE LocksProofs -----------------------------
(***************************************************************************)
(* Proofs about Locks, for any number of connections and rows: no          *)
(* transactions wait in a circle, and SKIP LOCKED passes over the cards of *)
(* a back-office edit only.                                                *)
(*                                                                         *)
(* The order of the tables is not enough for the first: a checkout locks   *)
(* its cards before its coupon, a settlement its coupon before its cards.  *)
(* What saves it is whose cards they are (Carries): a checkout picks cards *)
(* nobody has reserved, and nobody but the picker waits for such a card    *)
(* while it holds another row.                                             *)
(***************************************************************************)
EXTENDS Locks, TLAPS

OrderKinds == {"settle", "expire", "saveTake", "saveRelease", "stamp"}
Sharers == {"couponSave", "import", "cardEdit"}
Kinds == OrderKinds \cup Sharers \cup {"checkout", "goodsSave"}
Modes == {"share", "write", "exclusive"}

Steps == {"email", "source", "order", "goods", "shareGoods", "free", "coupon", "own", "card"}

LEMMA TablesApart ==
  /\ Orders \cap Cards = {} /\ Orders \cap Goods = {} /\ Orders \cap Coupons = {}
  /\ Cards \cap Goods = {} /\ Cards \cap Coupons = {} /\ Goods \cap Coupons = {}
  /\ Email \notin Orders \cup Cards \cup Goods \cup Coupons
  /\ Source \notin Orders \cup Cards \cup Goods \cup Coupons
  /\ Email # Source
  /\ None \notin Orders \cup Cards \cup Goods \cup Coupons \cup {Email, Source}
<1>1. DOMAIN Tables = 1..6
  BY DEF Tables
<1>2. ASSUME NEW m \in 1..6, NEW n \in 1..6, m # n PROVE Tables[m] \cap Tables[n] = {}
  BY <1>1, <1>2, LocksAssumption
<1>3. /\ Tables[1] = Orders /\ Tables[2] = Cards /\ Tables[3] = Goods
      /\ Tables[4] = Coupons /\ Tables[5] = {Email} /\ Tables[6] = {Source}
  BY DEF Tables
<1>4. /\ Tables[1] \cap Tables[2] = {} /\ Tables[1] \cap Tables[3] = {}
      /\ Tables[1] \cap Tables[4] = {} /\ Tables[1] \cap Tables[5] = {}
      /\ Tables[1] \cap Tables[6] = {} /\ Tables[2] \cap Tables[3] = {}
      /\ Tables[2] \cap Tables[4] = {} /\ Tables[2] \cap Tables[5] = {}
      /\ Tables[2] \cap Tables[6] = {} /\ Tables[3] \cap Tables[4] = {}
      /\ Tables[3] \cap Tables[5] = {} /\ Tables[3] \cap Tables[6] = {}
      /\ Tables[4] \cap Tables[5] = {} /\ Tables[4] \cap Tables[6] = {}
      /\ Tables[5] \cap Tables[6] = {}
  BY <1>2
<1>5. None \notin Orders \cup Cards \cup Goods \cup Coupons \cup {Email, Source}
  BY LocksAssumption DEF Rows
<1> QED BY <1>3, <1>4, <1>5

-----------------------------------------------------------------------------
(* What a transaction holds, and where its program stands.                 *)

RowsOf(t) == {r \in Rows : Holds(t, r)}

Jobs0 == [kind: Kinds \cup {"idle"}, order: Orders \cup {None}, goods: Goods \cup {None},
          coupon: Coupons \cup {None}, card: Cards \cup {None}, at: {0, 1, 3, 5}, got: SUBSET Cards]

TypeOK ==
    /\ ord \in [Orders -> [stage: Stages, goods: Goods \cup {None}, coupon: Coupons \cup {None}]]
    /\ owner \in [Cards -> Orders \cup {None}]
    /\ sold \subseteq Cards
    /\ tx \in [Txs -> Jobs0]
    /\ want \in [Txs -> Rows \cup {None}]
    /\ held \subseteq Txs \X Rows \X Modes

\* The fields of a job are those of its kind.
TxFits(t) ==
    LET w == tx[t] IN
    /\ Running(t) => w.kind \in Kinds /\ w.goods \in Goods /\ w.at \in {1, 3, 5}
    /\ w.kind = "checkout" => w.order \in Orders /\ ord[w.order].stage = "blank"
    /\ w.kind \in OrderKinds => w.order \in Orders /\ ord[w.order].stage # "blank"
    /\ w.kind \notin OrderKinds \cup {"checkout"} => w.order = None
    /\ w.kind = "couponSave" => w.coupon \in Coupons
    /\ w.kind = "cardEdit" => w.card \in Cards
    /\ w.at = 3 => w.kind = "checkout"
    /\ w.at = 5 => w.kind \in {"checkout", "settle"}

Placed == \A o \in Orders : ord[o].stage # "blank" => ord[o].goods \in Goods

CheckoutsApart ==
    \A t, u \in Txs :
        tx[t].kind = "checkout" /\ tx[u].kind = "checkout" /\ tx[t].order = tx[u].order => t = u

\* The locks a settlement and an expiry have when they come to their cards.
PastCoupon(t) ==
    LET w == tx[t] IN
    /\ w.goods \in RowsOf(t)
    /\ w.kind \in OrderKinds => w.order \in RowsOf(t)
    /\ w.kind \in OrderKinds /\ TakesCoupon(t) /\ w.coupon # None => w.coupon \in RowsOf(t)

\* The cards a transaction holds.
Carries(t, c) ==
    LET w == tx[t] IN
    \/ w.kind = "cardEdit" /\ c = w.card
    \/ w.kind \in {"checkout", "settle"} /\ w.at = 5 /\ owner[c] = None /\ CardGoods[c] = w.goods
    \/ /\ w.kind \in {"settle", "expire", "saveRelease"} /\ owner[c] = w.order
       /\ w.order \in RowsOf(t)
       /\ w.kind = "settle" => w.at = 5
       /\ w.kind = "expire" => PastCoupon(t)

\* A lock was taken by the statement whose turn it was.
InOrder(t, r) ==
    LET w == tx[t] IN
    /\ r \in Orders => w.kind \in OrderKinds /\ r = w.order
    /\ r = Email => w.kind = "checkout"
    /\ r = Source => w.kind = "checkout" /\ Email \in RowsOf(t)
    /\ r \in Goods => /\ r = w.goods
                      /\ w.kind = "checkout" /\ w.at = 1 => Source \in RowsOf(t)
                      /\ w.kind \in OrderKinds => w.order \in RowsOf(t)
                      /\ w.kind = "cardEdit" => w.card \in RowsOf(t)
    /\ r \in Coupons => /\ r = w.coupon /\ w.goods \in RowsOf(t)
                        /\ w.kind \in {"checkout", "settle", "expire", "couponSave"}
                        /\ w.kind = "checkout" => w.at = 5
    /\ r \in Cards => Carries(t, r)

HoldsInOrder(t) ==
    LET w == tx[t] IN
    /\ RowsOf(t) # {} => Running(t)
    /\ w.at = 5 => PastCoupon(t)
    /\ w.got \subseteq RowsOf(t) /\ (w.got # {} => w.at = 5)
    /\ \A r \in RowsOf(t) : InOrder(t, r)

ModesFit ==
    \A h \in held :
        /\ h[2] \in Orders => h[3] = "exclusive"
        /\ h[2] \in Cards => h[3] \in {"write", "exclusive"}
        /\ h[2] \in Coupons \cup {Email, Source} => h[3] = "write"
        /\ h[2] \in Goods => h[3] = (IF tx[h[1]].kind \in Sharers THEN "share" ELSE "write")

Exclusion == \A g, h \in held : g[2] = h[2] /\ g[1] # h[1] => ~Conflict(g[3], h[3])

-----------------------------------------------------------------------------
(* Which statement it has come to.                                         *)

Prog(t) == Program(tx[t].kind)
Ahead(t) == {n \in tx[t].at..Len(Prog(t)) : Prog(t)[n] = "free" \/ Missing(t, Prog(t)[n]) # {}}

AllPrograms ==
    {<<"email", "source", "goods", "free", "coupon">>,
     <<"order", "goods", "coupon", "free", "own">>,
     <<"order", "goods", "coupon", "own">>,
     <<"order", "goods">>,
     <<"order", "own">>,
     <<"order">>,
     <<"shareGoods", "coupon", "shareGoods">>,
     <<"goods">>,
     <<"shareGoods">>,
     <<"card", "shareGoods">>}

LEMMA ProgramsAreShort ==
  ASSUME NEW P \in AllPrograms
  PROVE  P \in Seq(Steps) /\ Len(P) \in 1..5
<1>1. CASE P = <<"email", "source", "goods", "free", "coupon">>
  BY <1>1 DEF Steps
<1>2. CASE P = <<"order", "goods", "coupon", "free", "own">>
  BY <1>2 DEF Steps
<1>3. CASE P = <<"order", "goods", "coupon", "own">>
  BY <1>3 DEF Steps
<1>4. CASE P = <<"order", "goods">>
  BY <1>4 DEF Steps
<1>5. CASE P = <<"order", "own">>
  BY <1>5 DEF Steps
<1>6. CASE P = <<"order">>
  BY <1>6 DEF Steps
<1>7. CASE P = <<"shareGoods", "coupon", "shareGoods">>
  BY <1>7 DEF Steps
<1>8. CASE P = <<"goods">>
  BY <1>8 DEF Steps
<1>9. CASE P = <<"shareGoods">>
  BY <1>9 DEF Steps
<1>10. CASE P = <<"card", "shareGoods">>
  BY <1>10 DEF Steps
<1> QED BY <1>1, <1>2, <1>3, <1>4, <1>5, <1>6, <1>7, <1>8, <1>9, <1>10 DEF AllPrograms

\* The program of each kind, spelled out.
LEMMA Programs ==
  ASSUME NEW t \in Txs, tx[t].kind \in Kinds
  PROVE  /\ Prog(t) \in Seq(Steps) /\ Len(Prog(t)) \in 1..5
         /\ tx[t].kind = "checkout" => Prog(t) = <<"email", "source", "goods", "free", "coupon">>
         /\ tx[t].kind = "settle" => Prog(t) = <<"order", "goods", "coupon", "free", "own">>
         /\ tx[t].kind = "expire" => Prog(t) = <<"order", "goods", "coupon", "own">>
         /\ tx[t].kind = "saveTake" => Prog(t) = <<"order", "goods">>
         /\ tx[t].kind = "saveRelease" => Prog(t) = <<"order", "own">>
         /\ tx[t].kind = "stamp" => Prog(t) = <<"order">>
         /\ tx[t].kind = "couponSave" => Prog(t) = <<"shareGoods", "coupon", "shareGoods">>
         /\ tx[t].kind = "goodsSave" => Prog(t) = <<"goods">>
         /\ tx[t].kind = "import" => Prog(t) = <<"shareGoods">>
         /\ tx[t].kind = "cardEdit" => Prog(t) = <<"card", "shareGoods">>
<1> DEFINE P == Prog(t)
<1>1. tx[t].kind = "checkout" => P = <<"email", "source", "goods", "free", "coupon">>
  BY DEF Prog, Program, CheckoutLocks
<1>2. tx[t].kind = "settle" => P = <<"order", "goods", "coupon", "free", "own">>
  BY DEF Prog, Program, SettleLocks
<1>3. tx[t].kind = "expire" => P = <<"order", "goods", "coupon", "own">>
  BY DEF Prog, Program, ExpireLocks
<1>4. tx[t].kind = "saveTake" => P = <<"order", "goods">>
  BY DEF Prog, Program
<1>5. tx[t].kind = "saveRelease" => P = <<"order", "own">>
  BY DEF Prog, Program
<1>6. tx[t].kind = "stamp" => P = <<"order">>
  BY DEF Prog, Program
<1>7. tx[t].kind = "couponSave" => P = <<"shareGoods", "coupon", "shareGoods">>
  BY DEF Prog, Program, CouponSaveLocks
<1>8. tx[t].kind = "goodsSave" => P = <<"goods">>
  BY DEF Prog, Program
<1>9. tx[t].kind = "import" => P = <<"shareGoods">>
  BY DEF Prog, Program
<1>10. tx[t].kind = "cardEdit" => P = <<"card", "shareGoods">>
  BY DEF Prog, Program
<1>11. P \in AllPrograms
  BY <1>1, <1>2, <1>3, <1>4, <1>5, <1>6, <1>7, <1>8, <1>9, <1>10
     DEF Kinds, OrderKinds, Sharers, AllPrograms
<1>12. P \in Seq(Steps) /\ Len(P) \in 1..5
  BY <1>11, ProgramsAreShort
<1> QED BY <1>1, <1>2, <1>3, <1>4, <1>5, <1>6, <1>7, <1>8, <1>9, <1>10, <1>12

LEMMA NowExists ==
  ASSUME NEW t \in Txs, tx[t].kind \in Kinds, tx[t].at \in {1, 3, 5}
  PROVE  /\ Now(t) \in Ahead(t) \cup {Len(Prog(t)) + 1}
         /\ \A m \in Ahead(t) : Now(t) <= m
<1> DEFINE L == Len(Prog(t))
           A == Ahead(t)
           Least(n) == \A m \in A : n <= m
<1>1. L \in 1..5
  BY Programs
<1>2. A \subseteq 1..5
  BY <1>1 DEF Ahead
<1>3. \E n \in A \cup {L + 1} : Least(n)
  <2>1. CASE 1 \in A
    BY <1>2, <2>1
  <2>2. CASE 1 \notin A /\ 2 \in A
    BY <1>2, <2>2
  <2>3. CASE 1 \notin A /\ 2 \notin A /\ 3 \in A
    BY <1>2, <2>3
  <2>4. CASE 1 \notin A /\ 2 \notin A /\ 3 \notin A /\ 4 \in A
    BY <1>2, <2>4
  <2>5. CASE 1 \notin A /\ 2 \notin A /\ 3 \notin A /\ 4 \notin A /\ 5 \in A
    BY <1>2, <2>5
  <2>6. CASE A = {}
    BY <2>6
  <2> QED BY <1>2, <2>1, <2>2, <2>3, <2>4, <2>5, <2>6
<1>4. Now(t) = CHOOSE n \in A \cup {L + 1} : Least(n)
  BY DEF Now, Ahead, Prog
<1>5. Now(t) \in A \cup {L + 1} /\ Least(Now(t))
  BY <1>3, <1>4
<1> QED BY <1>5

LEMMA NowIs ==
  ASSUME NEW t \in Txs, tx[t].kind \in Kinds, tx[t].at \in {1, 3, 5},
         NEW n \in Ahead(t), \A m \in Ahead(t) : n <= m
  PROVE  Now(t) = n
<1>1. Len(Prog(t)) \in 1..5
  BY Programs
<1>2. n \in 1..5 /\ n <= Len(Prog(t))
  BY <1>1 DEF Ahead
<1>3. Now(t) \in Ahead(t) \cup {Len(Prog(t)) + 1} /\ Now(t) <= n
  BY NowExists
<1>4. Now(t) \in Ahead(t)
  BY <1>1, <1>2, <1>3
<1>5. n <= Now(t) /\ Now(t) \in 1..5
  BY <1>1, <1>4 DEF Ahead
<1> QED BY <1>2, <1>3, <1>5

LEMMA StatementIs ==
  ASSUME NEW t \in Txs, tx[t].kind \in Kinds, tx[t].at \in {1, 3, 5}
  PROVE  /\ Now(t) \in 1..6
         /\ Now(t) <= Len(Prog(t)) => Statement(t) = Prog(t)[Now(t)]
         /\ Now(t) > Len(Prog(t)) => Statement(t) = "commit"
<1>1. Prog(t) \in Seq(Steps) /\ Len(Prog(t)) \in 1..5
  BY Programs
<1>2. Now(t) \in 1..6 /\ Now(t) <= Len(Prog(t)) + 1
  BY <1>1, NowExists DEF Ahead
<1>3. Statement(t) = (Prog(t) \o <<"commit">>)[Now(t)]
  BY DEF Statement, Prog
<1>4. CASE Now(t) <= Len(Prog(t))
  BY <1>1, <1>2, <1>3, <1>4
<1>5. CASE Now(t) > Len(Prog(t))
  <2>1. Now(t) = Len(Prog(t)) + 1
    BY <1>1, <1>2, <1>5
  <2>2. (Prog(t) \o <<"commit">>)[Len(Prog(t)) + 1] = "commit"
    BY <1>1
  <2> QED BY <1>1, <1>2, <1>3, <1>5, <2>1, <2>2
<1> QED BY <1>1, <1>2, <1>4, <1>5

-----------------------------------------------------------------------------
(* What the statements ask for.                                            *)

\* t has come to this step, and r is a row the step has yet to lock.
Asks(t, r, step) ==
    LET w == tx[t] IN
    /\ Running(t) /\ r \in Rows \ RowsOf(t)
    /\ \/ step = "order" /\ w.kind \in OrderKinds /\ w.at = 1 /\ r = w.order
       \/ step = "email" /\ w.kind = "checkout" /\ w.at = 1 /\ r = Email
       \/ step = "source" /\ w.kind = "checkout" /\ w.at = 1 /\ r = Source /\ Email \in RowsOf(t)
       \/ /\ step = "goods" /\ r = w.goods
          /\ \/ w.kind = "checkout" /\ w.at = 3
             \/ w.kind = "checkout" /\ w.at = 1 /\ Email \in RowsOf(t) /\ Source \in RowsOf(t)
             \/ w.kind \in {"settle", "expire", "saveTake"} /\ w.at = 1 /\ w.order \in RowsOf(t)
             \/ w.kind = "goodsSave" /\ w.at = 1
       \/ /\ step = "shareGoods" /\ r = w.goods /\ w.at = 1
          /\ w.kind \in {"couponSave", "import"} \/ (w.kind = "cardEdit" /\ w.card \in RowsOf(t))
       \/ /\ step = "coupon" /\ r = w.coupon /\ w.goods \in RowsOf(t)
          /\ \/ w.kind = "checkout" /\ w.at = 5
             \/ w.kind \in {"settle", "expire"} /\ w.at = 1 /\ w.order \in RowsOf(t) /\ TakesCoupon(t)
             \/ w.kind = "couponSave" /\ w.at = 1
       \/ /\ step = "own" /\ r \in Cards \ sold /\ owner[r] = w.order
          /\ \/ w.kind = "settle" /\ w.at = 5
             \/ w.kind = "expire" /\ w.at = 1 /\ PastCoupon(t)
             \/ w.kind = "saveRelease" /\ w.at = 1 /\ w.order \in RowsOf(t)
       \/ step = "card" /\ w.kind = "cardEdit" /\ w.at = 1 /\ r = w.card

LEMMA MissingIs ==
  ASSUME TypeOK, NEW t \in Txs, TxFits(t), Running(t), NEW r
  PROVE  /\ r \in Missing(t, "email") <=> r = Email /\ r \notin RowsOf(t)
         /\ r \in Missing(t, "source") <=> r = Source /\ r \notin RowsOf(t)
         /\ tx[t].kind \in OrderKinds =>
               (r \in Missing(t, "order") <=> r = tx[t].order /\ r \notin RowsOf(t))
         /\ r \in Missing(t, "goods") <=> r = tx[t].goods /\ r \notin RowsOf(t)
         /\ r \in Missing(t, "shareGoods") <=> r = tx[t].goods /\ r \notin RowsOf(t)
         /\ r \in Missing(t, "coupon") <=>
               r = tx[t].coupon /\ r # None /\ TakesCoupon(t) /\ r \notin RowsOf(t)
         /\ r \in Missing(t, "own") <=>
               r \in Cards \ sold /\ owner[r] = tx[t].order /\ r \notin RowsOf(t)
         /\ tx[t].kind = "cardEdit" =>
               (r \in Missing(t, "card") <=> r = tx[t].card /\ r \notin RowsOf(t))
         /\ Missing(t, "free") = {}
<1>1. /\ tx[t].goods \in Goods /\ tx[t].coupon \in Coupons \cup {None}
      /\ tx[t].kind \in OrderKinds => tx[t].order \in Orders
      /\ tx[t].kind = "cardEdit" => tx[t].card \in Cards
  BY DEF TypeOK, TxFits, Jobs0
<1>2. \A x \in Rows : x \in RowsOf(t) <=> Holds(t, x)
  BY DEF RowsOf
<1>3. /\ Needs(t, "email") = {Email} /\ Needs(t, "source") = {Source}
      /\ Needs(t, "order") = {tx[t].order}
      /\ Needs(t, "goods") = {tx[t].goods} /\ Needs(t, "shareGoods") = {tx[t].goods}
      /\ Needs(t, "own") = {c \in Cards : owner[c] = tx[t].order /\ c \notin sold}
      /\ Needs(t, "card") = {tx[t].card} /\ Needs(t, "free") = {}
  BY DEF Needs
<1>4. \A x : x \in Needs(t, "coupon") <=> x = tx[t].coupon /\ x # None /\ TakesCoupon(t)
  BY DEF Needs
<1> HIDE DEF Needs
<1>5. \A step : r \in Missing(t, step) <=> r \in Needs(t, step) /\ ~Holds(t, r)
  BY DEF Missing
<1>6. \A step : Missing(t, step) \subseteq Needs(t, step)
  BY DEF Missing
<1>7. Missing(t, "free") = {}
  BY <1>3, <1>6
<1>8. /\ r \in Missing(t, "email") <=> r = Email /\ r \notin RowsOf(t)
      /\ r \in Missing(t, "source") <=> r = Source /\ r \notin RowsOf(t)
  BY <1>2, <1>3, <1>5 DEF Rows
<1>9. /\ tx[t].kind \in OrderKinds =>
               (r \in Missing(t, "order") <=> r = tx[t].order /\ r \notin RowsOf(t))
      /\ r \in Missing(t, "goods") <=> r = tx[t].goods /\ r \notin RowsOf(t)
      /\ r \in Missing(t, "shareGoods") <=> r = tx[t].goods /\ r \notin RowsOf(t)
      /\ tx[t].kind = "cardEdit" =>
               (r \in Missing(t, "card") <=> r = tx[t].card /\ r \notin RowsOf(t))
  BY <1>1, <1>2, <1>3, <1>5 DEF Rows
<1>10. r \in Missing(t, "coupon") <=>
               r = tx[t].coupon /\ r # None /\ TakesCoupon(t) /\ r \notin RowsOf(t)
  BY <1>1, <1>2, <1>4, <1>5 DEF Rows
<1>11. r \in Missing(t, "own") <=>
               r \in Cards \ sold /\ owner[r] = tx[t].order /\ r \notin RowsOf(t)
  BY <1>2, <1>3, <1>5 DEF Rows
<1> QED BY <1>7, <1>8, <1>9, <1>10, <1>11

LEMMA StepAt ==
  ASSUME NEW t \in Txs, tx[t].kind \in Kinds, tx[t].at \in {1, 3, 5},
         NEW n \in 1..5, tx[t].at <= n, n <= Len(Prog(t)),
         Prog(t)[n] = "free" \/ Missing(t, Prog(t)[n]) # {},
         \A m \in 1..5 : tx[t].at <= m /\ m < n =>
             Prog(t)[m] # "free" /\ Missing(t, Prog(t)[m]) = {}
  PROVE  Statement(t) = Prog(t)[n]
<1>1. Len(Prog(t)) \in 1..5
  BY Programs
<1>2. n \in Ahead(t)
  BY <1>1 DEF Ahead
<1>3. ASSUME NEW m \in Ahead(t) PROVE n <= m
  <2>1. m \in 1..5 /\ tx[t].at <= m
    BY <1>1 DEF Ahead
  <2>2. Prog(t)[m] = "free" \/ Missing(t, Prog(t)[m]) # {}
    BY DEF Ahead
  <2>3. ~(m < n)
    BY <2>1, <2>2
  <2> QED BY <2>1, <2>3
<1>4. Now(t) = n
  BY <1>2, <1>3, NowIs
<1> QED BY <1>4, StatementIs

\* Who asks for a row has come to the statement that locks it.
LEMMA AskedInTurn ==
  ASSUME TypeOK, NEW t \in Txs, TxFits(t), HoldsInOrder(t), NEW r, NEW step, Asks(t, r, step)
  PROVE  Statement(t) = step /\ r \in Missing(t, step)
<1> DEFINE w == tx[t]
           P == Prog(t)
           Quiet(s) == Missing(t, s) = {}
<1>1. w.kind \in Kinds /\ w.at \in {1, 3, 5} /\ r \in Rows /\ r \notin RowsOf(t) /\ r # None
  BY TablesApart DEF Asks, TxFits, Rows
<1>2. /\ Email \in RowsOf(t) => Quiet("email")
      /\ Source \in RowsOf(t) => Quiet("source")
      /\ w.kind \in OrderKinds /\ w.order \in RowsOf(t) => Quiet("order")
      /\ w.goods \in RowsOf(t) => Quiet("goods") /\ Quiet("shareGoods")
      /\ ~TakesCoupon(t) \/ w.coupon = None \/ w.coupon \in RowsOf(t) => Quiet("coupon")
      /\ w.kind = "cardEdit" /\ w.card \in RowsOf(t) => Quiet("card")
  <2>1. Running(t)
    BY DEF Asks
  <2> QED BY <2>1, MissingIs
<1>3. Running(t)
  BY DEF Asks
<1>4. ASSUME NEW s, s = step, NEW n \in 1..5, w.at <= n, n <= Len(P), P[n] = s,
             r \in Missing(t, s),
             \A m \in 1..5 : w.at <= m /\ m < n => P[m] # "free" /\ Quiet(P[m])
      PROVE  Statement(t) = step /\ r \in Missing(t, step)
  BY <1>1, <1>4, StepAt
<1> HIDE DEF P, Quiet
<1>5. CASE step = "order" /\ w.kind \in OrderKinds /\ w.at = 1 /\ r = w.order
  <2>1. P[1] = "order" /\ Len(P) \in 1..5
    BY <1>1, <1>5, Programs DEF P, OrderKinds
  <2> QED BY <1>1, <1>3, <1>4, <1>5, <2>1, MissingIs
<1>6. CASE step = "email" /\ w.kind = "checkout" /\ w.at = 1 /\ r = Email
  <2>1. P[1] = "email" /\ Len(P) = 5
    BY <1>1, <1>6, Programs DEF P
  <2> QED BY <1>1, <1>3, <1>4, <1>6, <2>1, MissingIs
<1>7. CASE step = "source" /\ w.kind = "checkout" /\ w.at = 1 /\ r = Source /\ Email \in RowsOf(t)
  <2>1. P[1] = "email" /\ P[2] = "source" /\ Len(P) = 5
    BY <1>1, <1>7, Programs DEF P
  <2> QED BY <1>1, <1>2, <1>3, <1>4, <1>7, <2>1, MissingIs
<1>8. CASE step = "goods" /\ r = w.goods /\ w.kind = "checkout"
            /\ (w.at = 3 \/ (w.at = 1 /\ Email \in RowsOf(t) /\ Source \in RowsOf(t)))
  <2>1. P[1] = "email" /\ P[2] = "source" /\ P[3] = "goods" /\ Len(P) = 5
    BY <1>1, <1>8, Programs DEF P
  <2> QED BY <1>1, <1>2, <1>3, <1>4, <1>8, <2>1, MissingIs
<1>9. CASE step = "goods" /\ r = w.goods /\ w.at = 1 /\ w.order \in RowsOf(t)
            /\ w.kind \in {"settle", "expire", "saveTake"}
  <2>1. P[1] = "order" /\ P[2] = "goods" /\ 2 <= Len(P)
    BY <1>1, <1>9, Programs DEF P
  <2> QED BY <1>1, <1>2, <1>3, <1>4, <1>9, <2>1, MissingIs DEF OrderKinds
<1>10. CASE step = "goods" /\ r = w.goods /\ w.kind = "goodsSave" /\ w.at = 1
  <2>1. P[1] = "goods" /\ Len(P) = 1
    BY <1>1, <1>10, Programs DEF P
  <2> QED BY <1>1, <1>3, <1>4, <1>10, <2>1, MissingIs
<1>11. CASE step = "shareGoods" /\ r = w.goods /\ w.at = 1 /\ w.kind \in {"couponSave", "import"}
  <2>1. P[1] = "shareGoods" /\ 1 <= Len(P)
    BY <1>1, <1>11, Programs DEF P
  <2> QED BY <1>1, <1>3, <1>4, <1>11, <2>1, MissingIs
<1>12. CASE step = "shareGoods" /\ r = w.goods /\ w.at = 1 /\ w.kind = "cardEdit" /\ w.card \in RowsOf(t)
  <2>1. P[1] = "card" /\ P[2] = "shareGoods" /\ Len(P) = 2
    BY <1>1, <1>12, Programs DEF P
  <2> QED BY <1>1, <1>2, <1>3, <1>4, <1>12, <2>1, MissingIs
<1>13. CASE step = "coupon" /\ r = w.coupon /\ w.goods \in RowsOf(t) /\ w.kind = "checkout" /\ w.at = 5
  <2>1. P[5] = "coupon" /\ Len(P) = 5 /\ TakesCoupon(t)
    BY <1>1, <1>13, Programs DEF P, TakesCoupon
  <2> QED BY <1>1, <1>3, <1>4, <1>13, <2>1, MissingIs
<1>14. CASE step = "coupon" /\ r = w.coupon /\ w.goods \in RowsOf(t) /\ TakesCoupon(t)
             /\ w.kind \in {"settle", "expire"} /\ w.at = 1 /\ w.order \in RowsOf(t)
  <2>1. P[1] = "order" /\ P[2] = "goods" /\ P[3] = "coupon" /\ 3 <= Len(P)
    BY <1>1, <1>14, Programs DEF P
  <2> QED BY <1>1, <1>2, <1>3, <1>4, <1>14, <2>1, MissingIs DEF OrderKinds
<1>15. CASE step = "coupon" /\ r = w.coupon /\ w.goods \in RowsOf(t) /\ w.kind = "couponSave" /\ w.at = 1
  <2>1. P[1] = "shareGoods" /\ P[2] = "coupon" /\ Len(P) = 3 /\ TakesCoupon(t)
    BY <1>1, <1>15, Programs DEF P, TakesCoupon
  <2> QED BY <1>1, <1>2, <1>3, <1>4, <1>15, <2>1, MissingIs
<1>16. CASE step = "own" /\ r \in Cards \ sold /\ owner[r] = w.order /\ w.kind = "settle" /\ w.at = 5
  <2>1. P[5] = "own" /\ Len(P) = 5
    BY <1>1, <1>16, Programs DEF P
  <2> QED BY <1>1, <1>3, <1>4, <1>16, <2>1, MissingIs
<1>17. CASE step = "own" /\ r \in Cards \ sold /\ owner[r] = w.order /\ w.kind = "expire" /\ w.at = 1
             /\ PastCoupon(t)
  <2>1. P[1] = "order" /\ P[2] = "goods" /\ P[3] = "coupon" /\ P[4] = "own" /\ Len(P) = 4
    BY <1>1, <1>17, Programs DEF P
  <2>2. Quiet("order") /\ Quiet("goods") /\ Quiet("coupon")
    BY <1>2, <1>17 DEF PastCoupon, OrderKinds
  <2> QED BY <1>1, <1>3, <1>4, <1>17, <2>1, <2>2, MissingIs
<1>18. CASE step = "own" /\ r \in Cards \ sold /\ owner[r] = w.order /\ w.kind = "saveRelease" /\ w.at = 1
             /\ w.order \in RowsOf(t)
  <2>1. P[1] = "order" /\ P[2] = "own" /\ Len(P) = 2
    BY <1>1, <1>18, Programs DEF P
  <2> QED BY <1>1, <1>2, <1>3, <1>4, <1>18, <2>1, MissingIs DEF OrderKinds
<1>19. CASE step = "card" /\ w.kind = "cardEdit" /\ w.at = 1 /\ r = w.card
  <2>1. P[1] = "card" /\ Len(P) = 2
    BY <1>1, <1>19, Programs DEF P
  <2> QED BY <1>1, <1>3, <1>4, <1>19, <2>1, MissingIs
<1> QED
  BY <1>5, <1>6, <1>7, <1>8, <1>9, <1>10, <1>11, <1>12, <1>13, <1>14, <1>15, <1>16, <1>17, <1>18, <1>19
     DEF Asks

\* The statements before it have all their rows, and no card query is among them.
LEMMA Passed ==
  ASSUME NEW t \in Txs, tx[t].kind \in Kinds, tx[t].at \in {1, 3, 5}
  PROVE  /\ Now(t) \in 1..6 /\ Now(t) <= Len(Prog(t)) + 1
         /\ Now(t) <= Len(Prog(t)) => tx[t].at <= Now(t)
         /\ \A m \in 1..5 : tx[t].at <= m /\ m < Now(t) =>
                Prog(t)[m] # "free" /\ Missing(t, Prog(t)[m]) = {}
<1>1. Len(Prog(t)) \in 1..5
  BY Programs
<1>2. /\ Now(t) \in Ahead(t) \cup {Len(Prog(t)) + 1}
      /\ \A m \in Ahead(t) : Now(t) <= m
  BY NowExists
<1>3. /\ Now(t) \in 1..6 /\ Now(t) <= Len(Prog(t)) + 1
      /\ Now(t) <= Len(Prog(t)) => tx[t].at <= Now(t)
  BY <1>1, <1>2 DEF Ahead
<1>4. ASSUME NEW m \in 1..5, tx[t].at <= m, m < Now(t)
      PROVE  Prog(t)[m] # "free" /\ Missing(t, Prog(t)[m]) = {}
  <2>1. m \notin Ahead(t)
    BY <1>2, <1>3, <1>4
  <2>2. m \in tx[t].at..Len(Prog(t))
    BY <1>1, <1>3, <1>4
  <2> QED BY <2>1, <2>2 DEF Ahead
<1> QED BY <1>3, <1>4

\* A statement with rows to lock asks for them in its turn.
LEMMA InTurnAsks ==
  ASSUME TypeOK, NEW t \in Txs, TxFits(t), HoldsInOrder(t), Running(t),
         NEW r, r \in Missing(t, Statement(t))
  PROVE  Asks(t, r, Statement(t))
<1> DEFINE w == tx[t]
           P == Prog(t)
           n == Now(t)
           s == Statement(t)
           Quiet(q) == Missing(t, q) = {}
<1>1. w.kind \in Kinds /\ w.at \in {1, 3, 5} /\ w.goods \in Goods
  BY DEF TxFits
<1>2. /\ n \in 1..6 /\ n <= Len(P) + 1 /\ (n <= Len(P) => w.at <= n)
      /\ \A m \in 1..5 : w.at <= m /\ m < n => P[m] # "free" /\ Quiet(P[m])
  BY <1>1, Passed
<1>3. (n <= Len(P) => s = P[n]) /\ (n > Len(P) => s = "commit")
  BY <1>1, StatementIs
<1>4. Missing(t, "commit") = {}
  BY DEF Missing, Needs
<1>5. n <= Len(P)
  <2>1. Len(P) \in 1..5
    BY <1>1, Programs
  <2> QED BY <1>2, <1>3, <1>4, <2>1
<1>6. /\ s = "email" => r = Email /\ r \notin RowsOf(t)
      /\ s = "source" => r = Source /\ r \notin RowsOf(t)
      /\ s = "order" /\ w.kind \in OrderKinds => r = w.order /\ r \notin RowsOf(t)
      /\ s \in {"goods", "shareGoods"} => r = w.goods /\ r \notin RowsOf(t)
      /\ s = "coupon" => r = w.coupon /\ r # None /\ TakesCoupon(t) /\ r \notin RowsOf(t)
      /\ s = "own" => r \in Cards \ sold /\ owner[r] = w.order /\ r \notin RowsOf(t)
      /\ s = "card" /\ w.kind = "cardEdit" => r = w.card /\ r \notin RowsOf(t)
      /\ s # "free"
  BY MissingIs
<1>7. /\ Quiet("email") => Email \in RowsOf(t)
      /\ Quiet("source") => Source \in RowsOf(t)
      /\ w.kind \in OrderKinds /\ Quiet("order") => w.order \in RowsOf(t)
      /\ Quiet("goods") => w.goods \in RowsOf(t)
      /\ Quiet("shareGoods") => w.goods \in RowsOf(t)
      /\ Quiet("coupon") /\ TakesCoupon(t) /\ w.coupon # None => w.coupon \in RowsOf(t)
      /\ w.kind = "cardEdit" /\ Quiet("card") => w.card \in RowsOf(t)
  BY MissingIs
<1>8. /\ w.coupon \in Coupons \cup {None} /\ Email \in Rows /\ Source \in Rows
      /\ w.kind \in OrderKinds => w.order \in Orders
      /\ w.kind = "cardEdit" => w.card \in Cards
      /\ w.at = 3 => w.kind = "checkout"
      /\ w.at = 5 => w.kind \in {"checkout", "settle"} /\ w.goods \in RowsOf(t)
  BY DEF TypeOK, TxFits, Jobs0, Rows, HoldsInOrder, PastCoupon
<1>9. Goods \subseteq Rows /\ Orders \subseteq Rows /\ Cards \subseteq Rows /\ Coupons \subseteq Rows
  BY DEF Rows
<1> HIDE DEF P, n, s, Quiet
<1>10. CASE w.kind = "checkout"
  <2>1. P[1] = "email" /\ P[2] = "source" /\ P[3] = "goods" /\ P[4] = "free" /\ P[5] = "coupon" /\ Len(P) = 5
    BY <1>1, <1>10, Programs DEF P
  <2> QED BY <1>1, <1>2, <1>3, <1>5, <1>6, <1>7, <1>8, <1>9, <1>10, <2>1 DEF Asks, s
<1>11. CASE w.kind = "settle"
  <2>1. P[1] = "order" /\ P[2] = "goods" /\ P[3] = "coupon" /\ P[4] = "free" /\ P[5] = "own" /\ Len(P) = 5
    BY <1>1, <1>11, Programs DEF P
  <2> QED BY <1>1, <1>2, <1>3, <1>5, <1>6, <1>7, <1>8, <1>9, <1>11, <2>1 DEF Asks, s, OrderKinds
<1>12. CASE w.kind = "expire"
  <2>1. P[1] = "order" /\ P[2] = "goods" /\ P[3] = "coupon" /\ P[4] = "own" /\ Len(P) = 4
    BY <1>1, <1>12, Programs DEF P
  <2> QED BY <1>1, <1>2, <1>3, <1>5, <1>6, <1>7, <1>8, <1>9, <1>12, <2>1 DEF Asks, s, OrderKinds, PastCoupon
<1>13. CASE w.kind = "saveTake"
  <2>1. P[1] = "order" /\ P[2] = "goods" /\ Len(P) = 2
    BY <1>1, <1>13, Programs DEF P
  <2> QED BY <1>1, <1>2, <1>3, <1>5, <1>6, <1>7, <1>8, <1>9, <1>13, <2>1 DEF Asks, s, OrderKinds
<1>14. CASE w.kind = "saveRelease"
  <2>1. P[1] = "order" /\ P[2] = "own" /\ Len(P) = 2
    BY <1>1, <1>14, Programs DEF P
  <2> QED BY <1>1, <1>2, <1>3, <1>5, <1>6, <1>7, <1>8, <1>9, <1>14, <2>1 DEF Asks, s, OrderKinds
<1>15. CASE w.kind = "stamp"
  <2>1. P[1] = "order" /\ Len(P) = 1
    BY <1>1, <1>15, Programs DEF P
  <2> QED BY <1>1, <1>2, <1>3, <1>5, <1>6, <1>8, <1>9, <1>15, <2>1 DEF Asks, s, OrderKinds
<1>16. CASE w.kind = "couponSave"
  <2>1. P[1] = "shareGoods" /\ P[2] = "coupon" /\ P[3] = "shareGoods" /\ Len(P) = 3
    BY <1>1, <1>16, Programs DEF P
  <2> QED BY <1>1, <1>2, <1>3, <1>5, <1>6, <1>7, <1>8, <1>9, <1>16, <2>1 DEF Asks, s
<1>17. CASE w.kind = "goodsSave"
  <2>1. P[1] = "goods" /\ Len(P) = 1
    BY <1>1, <1>17, Programs DEF P
  <2> QED BY <1>1, <1>2, <1>3, <1>5, <1>6, <1>8, <1>9, <1>17, <2>1 DEF Asks, s
<1>18. CASE w.kind = "import"
  <2>1. P[1] = "shareGoods" /\ Len(P) = 1
    BY <1>1, <1>18, Programs DEF P
  <2> QED BY <1>1, <1>2, <1>3, <1>5, <1>6, <1>8, <1>9, <1>18, <2>1 DEF Asks, s
<1>19. CASE w.kind = "cardEdit"
  <2>1. P[1] = "card" /\ P[2] = "shareGoods" /\ Len(P) = 2
    BY <1>1, <1>19, Programs DEF P
  <2> QED BY <1>1, <1>2, <1>3, <1>5, <1>6, <1>7, <1>8, <1>9, <1>19, <2>1 DEF Asks, s
<1> QED BY <1>1, <1>10, <1>11, <1>12, <1>13, <1>14, <1>15, <1>16, <1>17, <1>18, <1>19
        DEF Kinds, OrderKinds, Sharers

\* A card query comes after the goods and, in a settlement, the coupon.
LEMMA QueriesAfterGoods ==
  ASSUME TypeOK, NEW t \in Txs, TxFits(t), At(t, "free")
  PROVE  /\ tx[t].kind \in {"checkout", "settle"} /\ tx[t].at \in {1, 3}
         /\ PastCoupon(t) /\ Now(t) = 4
<1> DEFINE w == tx[t]
           P == Prog(t)
           n == Now(t)
           Quiet(q) == Missing(t, q) = {}
<1>1. w.kind \in Kinds /\ w.at \in {1, 3, 5} /\ Running(t) /\ Statement(t) = "free"
  BY DEF TxFits, At
<1>2. /\ n \in 1..6 /\ n <= Len(P) + 1 /\ (n <= Len(P) => w.at <= n)
      /\ \A m \in 1..5 : w.at <= m /\ m < n => P[m] # "free" /\ Quiet(P[m])
  BY <1>1, Passed
<1>3. n <= Len(P) /\ P[n] = "free"
  <2>1. Len(P) \in 1..5
    BY <1>1, Programs
  <2> QED BY <1>1, <1>2, <2>1, StatementIs
<1>4. /\ w.kind \in OrderKinds /\ Quiet("order") => w.order \in RowsOf(t)
      /\ Quiet("goods") => w.goods \in RowsOf(t)
      /\ Quiet("coupon") /\ TakesCoupon(t) /\ w.coupon # None => w.coupon \in RowsOf(t)
  BY <1>1, MissingIs
<1>5. w.at = 3 => w.kind = "checkout"
  BY DEF TxFits
<1> HIDE DEF P, n, Quiet
<1>6. CASE w.kind = "checkout"
  <2>1. P[1] = "email" /\ P[2] = "source" /\ P[3] = "goods" /\ P[4] = "free" /\ P[5] = "coupon" /\ Len(P) = 5
    BY <1>1, <1>6, Programs DEF P
  <2> QED BY <1>1, <1>2, <1>3, <1>4, <1>6, <2>1 DEF PastCoupon, OrderKinds, n
<1>7. CASE w.kind = "settle"
  <2>1. P[1] = "order" /\ P[2] = "goods" /\ P[3] = "coupon" /\ P[4] = "free" /\ P[5] = "own" /\ Len(P) = 5
    BY <1>1, <1>7, Programs DEF P
  <2> QED BY <1>1, <1>2, <1>3, <1>4, <1>5, <1>7, <2>1 DEF PastCoupon, OrderKinds, n
<1>8. w.kind \in {"checkout", "settle"}
  <2>1. CASE w.kind = "expire"
    <3>1. P[1] = "order" /\ P[2] = "goods" /\ P[3] = "coupon" /\ P[4] = "own" /\ Len(P) = 4
      BY <1>1, <2>1, Programs DEF P
    <3> QED BY <1>2, <1>3, <3>1
  <2>2. CASE w.kind = "saveTake"
    <3>1. P[1] = "order" /\ P[2] = "goods" /\ Len(P) = 2
      BY <1>1, <2>2, Programs DEF P
    <3> QED BY <1>2, <1>3, <3>1
  <2>3. CASE w.kind = "saveRelease"
    <3>1. P[1] = "order" /\ P[2] = "own" /\ Len(P) = 2
      BY <1>1, <2>3, Programs DEF P
    <3> QED BY <1>2, <1>3, <3>1
  <2>4. CASE w.kind = "stamp"
    <3>1. P[1] = "order" /\ Len(P) = 1
      BY <1>1, <2>4, Programs DEF P
    <3> QED BY <1>2, <1>3, <3>1
  <2>5. CASE w.kind = "couponSave"
    <3>1. P[1] = "shareGoods" /\ P[2] = "coupon" /\ P[3] = "shareGoods" /\ Len(P) = 3
      BY <1>1, <2>5, Programs DEF P
    <3> QED BY <1>2, <1>3, <3>1
  <2>6. CASE w.kind = "goodsSave"
    <3>1. P[1] = "goods" /\ Len(P) = 1
      BY <1>1, <2>6, Programs DEF P
    <3> QED BY <1>2, <1>3, <3>1
  <2>7. CASE w.kind = "import"
    <3>1. P[1] = "shareGoods" /\ Len(P) = 1
      BY <1>1, <2>7, Programs DEF P
    <3> QED BY <1>2, <1>3, <3>1
  <2>8. CASE w.kind = "cardEdit"
    <3>1. P[1] = "card" /\ P[2] = "shareGoods" /\ Len(P) = 2
      BY <1>1, <2>8, Programs DEF P
    <3> QED BY <1>2, <1>3, <3>1
  <2> QED BY <1>1, <2>1, <2>2, <2>3, <2>4, <2>5, <2>6, <2>7, <2>8 DEF Kinds, OrderKinds, Sharers
<1> QED BY <1>6, <1>7, <1>8

\* What changes an order holds its lock.
LEMMA CommitsUnderLock ==
  ASSUME TypeOK, NEW t \in Txs, TxFits(t), HoldsInOrder(t), At(t, "commit"),
         tx[t].kind \in OrderKinds
  PROVE  tx[t].order \in RowsOf(t)
<1> DEFINE w == tx[t]
           P == Prog(t)
           n == Now(t)
<1>1. w.kind \in Kinds /\ w.at \in {1, 3, 5} /\ Running(t) /\ Statement(t) = "commit"
  BY DEF TxFits, At
<1>2. w.at = 5 => w.order \in RowsOf(t)
  BY DEF HoldsInOrder, PastCoupon
<1>3. w.at # 3
  BY DEF TxFits, OrderKinds
<1>4. P[1] = "order" /\ Len(P) \in 1..5 /\ P \in Seq(Steps)
  BY <1>1, Programs DEF OrderKinds
<1>5. n \in 1..6 /\ \A m \in 1..5 : w.at <= m /\ m < n => Missing(t, P[m]) = {}
  BY <1>1, Passed
<1>6. n > 1
  <2>1. n <= Len(P) => P[n] = "commit"
    BY <1>1, StatementIs
  <2>2. n = 1 => P[1] = "commit"
    BY <1>4, <2>1
  <2> QED BY <1>4, <1>5, <2>2
<1>7. CASE w.at = 1
  <2>1. Missing(t, "order") = {}
    BY <1>4, <1>5, <1>6, <1>7
  <2> QED BY <1>1, <2>1, MissingIs
<1> QED BY <1>1, <1>2, <1>3, <1>7

-----------------------------------------------------------------------------
(* The invariant.                                                          *)

\* Who waits, waits for a row it has come to; a lock by share never waits.
WaitsInTurn(t) == want[t] # None => \E step \in Steps \ {"shareGoods"} : Asks(t, want[t], step)

Fits(t) == TxFits(t) /\ HoldsInOrder(t) /\ WaitsInTurn(t)

Inv ==
    /\ TypeOK /\ Placed /\ CheckoutsApart
    /\ \A t \in Txs : Fits(t)
    /\ ModesFit /\ Exclusion

LEMMA HeldRows ==
  ASSUME TypeOK, NEW t \in Txs, NEW r
  PROVE  r \in RowsOf(t) <=> \E m \in Modes : <<t, r, m>> \in held
<1>1. ASSUME r \in RowsOf(t) PROVE \E m \in Modes : <<t, r, m>> \in held
  <2>1. PICK h \in held : h[2] = r /\ h[1] = t
    BY <1>1 DEF RowsOf, Holds, Holders
  <2>2. h \in Txs \X Rows \X Modes
    BY <2>1 DEF TypeOK
  <2>3. h = <<t, r, h[3]>> /\ h[3] \in Modes
    BY <2>1, <2>2
  <2> QED BY <2>1, <2>3
<1>2. ASSUME NEW m \in Modes, <<t, r, m>> \in held PROVE r \in RowsOf(t)
  <2>1. <<t, r, m>> \in Holders(r) /\ r \in Rows
    BY <1>2 DEF Holders, TypeOK
  <2> QED BY <2>1 DEF RowsOf, Holds
<1> QED BY <1>1, <1>2

\* An order's or a card's lock has one holder.
LEMMA OneHolder ==
  ASSUME Inv, NEW t \in Txs, NEW u \in Txs, NEW r \in Orders \cup Cards,
         r \in RowsOf(t), r \in RowsOf(u)
  PROVE  t = u
<1>1. PICK m \in Modes : <<t, r, m>> \in held
  BY HeldRows DEF Inv
<1>2. PICK n \in Modes : <<u, r, n>> \in held
  BY HeldRows DEF Inv
<1>3. m \in {"write", "exclusive"} /\ n \in {"write", "exclusive"}
  BY <1>1, <1>2 DEF Inv, ModesFit
<1>4. Conflict(m, n)
  BY <1>3 DEF Conflict
<1>5. t # u => ~Conflict(m, n)
  BY <1>1, <1>2 DEF Inv, Exclusion
<1> QED BY <1>4, <1>5

\* So has a goods row locked for writing.
LEMMA OneWriter ==
  ASSUME Inv, NEW t \in Txs, NEW u \in Txs, NEW g \in Goods,
         g \in RowsOf(t), g \in RowsOf(u), tx[t].kind \notin Sharers, tx[u].kind \notin Sharers
  PROVE  t = u
<1>1. PICK m \in Modes : <<t, g, m>> \in held
  BY HeldRows DEF Inv
<1>2. PICK n \in Modes : <<u, g, n>> \in held
  BY HeldRows DEF Inv
<1>3. m = "write" /\ n = "write"
  BY <1>1, <1>2 DEF Inv, ModesFit
<1>4. Conflict(m, n)
  BY <1>3 DEF Conflict
<1>5. t # u => ~Conflict(m, n)
  BY <1>1, <1>2 DEF Inv, Exclusion
<1> QED BY <1>4, <1>5

\* A transaction is where it was while no one changes what it has locked.
LEMMA Undisturbed ==
  ASSUME Inv, NEW u \in Txs, tx'[u] = tx[u], want'[u] = want[u], RowsOf(u)' = RowsOf(u),
         tx[u].kind = "checkout" => ord'[tx[u].order].stage = "blank",
         tx[u].kind \in OrderKinds => ord'[tx[u].order].stage # "blank",
         tx[u].order \in RowsOf(u) => ord'[tx[u].order] = ord[tx[u].order],
         \A c \in Cards : c \in RowsOf(u) /\ tx[u].kind # "cardEdit" => owner'[c] = owner[c],
         \A c \in Cards : tx[u].order \in RowsOf(u) /\ owner[c] = tx[u].order =>
                              owner'[c] = owner[c] /\ (c \in sold' => c \in sold)
  PROVE  Fits(u)'
<1> DEFINE w == tx[u]
<1>1. TxFits(u) /\ HoldsInOrder(u) /\ WaitsInTurn(u)
  BY DEF Inv, Fits
<1>2. TxFits(u)'
  BY <1>1 DEF TxFits, Running
<1>3. w.order \in RowsOf(u) => (TakesCoupon(u)' <=> TakesCoupon(u))
  BY DEF TakesCoupon
<1>4. w.kind \in OrderKinds \/ w.kind # "settle"
  BY DEF OrderKinds
<1>5. PastCoupon(u) => PastCoupon(u)'
  BY <1>3 DEF PastCoupon
<1>6. ASSUME NEW c \in Cards, c \in RowsOf(u), Carries(u, c) PROVE Carries(u, c)'
  BY <1>5, <1>6 DEF Carries
<1>7. HoldsInOrder(u)'
  <2>1. ASSUME NEW r \in RowsOf(u) PROVE InOrder(u, r)'
    BY <1>1, <1>6, <2>1 DEF HoldsInOrder, InOrder
  <2> QED BY <1>1, <1>5, <2>1 DEF HoldsInOrder, Running
<1>8. ASSUME NEW r, NEW step, Asks(u, r, step) PROVE Asks(u, r, step)'
  <2>1. w.kind = "settle" /\ w.at = 5 => w.order \in RowsOf(u)
    BY <1>1 DEF HoldsInOrder, PastCoupon, OrderKinds
  <2>2. w.kind = "expire" /\ PastCoupon(u) => w.order \in RowsOf(u)
    BY DEF PastCoupon, OrderKinds
  <2>3. TakesCoupon(u) /\ w.order \in RowsOf(u) => TakesCoupon(u)'
    BY <1>3
  <2> QED BY <1>5, <1>8, <2>1, <2>2, <2>3 DEF Asks, Running
<1>9. WaitsInTurn(u)'
  BY <1>1, <1>8 DEF WaitsInTurn
<1> QED BY <1>2, <1>7, <1>9 DEF Fits

-----------------------------------------------------------------------------
(* Taking locks and giving them up.                                        *)

LEMMA RowsGained ==
  ASSUME NEW t \in Txs, NEW P \in SUBSET Rows, NEW m \in Modes,
         held' = held \cup {<<t, c, m>> : c \in P}
  PROVE  /\ RowsOf(t)' = RowsOf(t) \cup P
         /\ \A u \in Txs \ {t} : RowsOf(u)' = RowsOf(u)
<1>1. ASSUME NEW u \in Txs, NEW r
      PROVE  r \in RowsOf(u)' <=> r \in RowsOf(u) \/ (u = t /\ r \in P)
  <2>1. Holds(u, r)' <=> \E h \in held' : h[2] = r /\ h[1] = u
    BY DEF Holds, Holders
  <2>2. Holds(u, r) <=> \E h \in held : h[2] = r /\ h[1] = u
    BY DEF Holds, Holders
  <2>3. (\E h \in {<<t, c, m>> : c \in P} : h[2] = r /\ h[1] = u) <=> u = t /\ r \in P
    <3>1. \A c : <<t, c, m>>[1] = t /\ <<t, c, m>>[2] = c
      OBVIOUS
    <3>2. ASSUME u = t, r \in P PROVE \E h \in {<<t, c, m>> : c \in P} : h[2] = r /\ h[1] = u
      <4>1. <<t, r, m>> \in {<<t, c, m>> : c \in P}
        BY <3>2
      <4> QED BY <3>1, <3>2, <4>1
    <3>3. ASSUME NEW c \in P, <<t, c, m>>[2] = r, <<t, c, m>>[1] = u PROVE u = t /\ r \in P
      BY <3>1, <3>3
    <3> QED BY <3>2, <3>3
  <2>4. Holds(u, r)' <=> Holds(u, r) \/ (u = t /\ r \in P)
    BY <2>1, <2>2, <2>3
  <2> QED BY <2>4 DEF RowsOf
<1>2. \A r : r \in RowsOf(t)' <=> r \in RowsOf(t) \cup P
  BY <1>1
<1>3. RowsOf(t)' = RowsOf(t) \cup P
  BY <1>2, Zenon
<1>4. ASSUME NEW u \in Txs \ {t} PROVE RowsOf(u)' = RowsOf(u)
  <2>1. \A r : r \in RowsOf(u)' <=> r \in RowsOf(u)
    BY <1>1
  <2> QED BY <2>1, Zenon
<1> QED BY <1>3, <1>4

LEMMA RowsDropped ==
  ASSUME NEW t \in Txs, held' = {h \in held : h[1] # t}
  PROVE  /\ RowsOf(t)' = {}
         /\ \A u \in Txs \ {t} : RowsOf(u)' = RowsOf(u)
<1>1. ASSUME NEW u \in Txs, NEW r
      PROVE  r \in RowsOf(u)' <=> r \in RowsOf(u) /\ u # t
  <2>1. Holds(u, r)' <=> Holds(u, r) /\ u # t
    BY DEF Holds, Holders
  <2> QED BY <2>1 DEF RowsOf
<1>2. RowsOf(t)' = {}
  <2>1. \A r : r \notin RowsOf(t)'
    BY <1>1
  <2> QED BY <2>1
<1>3. ASSUME NEW u \in Txs \ {t} PROVE RowsOf(u)' = RowsOf(u)
  <2>1. \A r : r \in RowsOf(u)' <=> r \in RowsOf(u)
    BY <1>1
  <2> QED BY <2>1, Zenon
<1> QED BY <1>2, <1>3

LEMMA SameRows ==
  ASSUME UNCHANGED held
  PROVE  \A u \in Txs : RowsOf(u)' = RowsOf(u)
BY DEF RowsOf, Holds, Holders

\* A lock is granted when nobody holds the row in a conflicting mode.
LEMMA LocksGained ==
  ASSUME Inv, NEW t \in Txs, NEW P \in SUBSET Rows, NEW m \in Modes,
         held' = held \cup {<<t, c, m>> : c \in P},
         \A u \in Txs : tx'[u].kind = tx[u].kind,
         \A c \in P : /\ Blockers(t, c, m) = {}
                      /\ c \in Orders => m = "exclusive"
                      /\ c \in Cards => m \in {"write", "exclusive"}
                      /\ c \in Coupons \cup {Email, Source} => m = "write"
                      /\ c \in Goods => m = (IF tx[t].kind \in Sharers THEN "share" ELSE "write")
  PROVE  held' \subseteq Txs \X Rows \X Modes /\ ModesFit' /\ Exclusion'
<1> DEFINE N == {<<t, c, m>> : c \in P}
<1>1. held' = held \cup N /\ held \subseteq Txs \X Rows \X Modes
  BY DEF Inv, TypeOK
<1>2. \A h \in N : h[1] = t /\ h[2] \in P /\ h[3] = m /\ h \in Txs \X Rows \X Modes
  OBVIOUS
<1>3. ModesFit'
  <2>1. \A h \in held : h[1] \in Txs
    BY <1>1
  <2>2. ASSUME NEW h \in held'
        PROVE  /\ h[2] \in Orders => h[3] = "exclusive"
               /\ h[2] \in Cards => h[3] \in {"write", "exclusive"}
               /\ h[2] \in Coupons \cup {Email, Source} => h[3] = "write"
               /\ h[2] \in Goods => h[3] = (IF tx'[h[1]].kind \in Sharers THEN "share" ELSE "write")
    <3>1. CASE h \in held
      BY <2>1, <3>1 DEF Inv, ModesFit
    <3>2. CASE h \in N
      BY <1>2, <3>2
    <3> QED BY <1>1, <3>1, <3>2
  <2> QED BY <2>2 DEF ModesFit
<1>4. Exclusion'
  <2>1. \A h \in held : \A c \in P : h[2] = c /\ h[1] # t => ~Conflict(h[3], m)
    BY DEF Blockers, Holders
  <2>2. \A h \in held : \A c \in P : h[2] = c /\ h[1] # t => ~Conflict(m, h[3])
    BY <2>1 DEF Conflict
  <2>3. ASSUME NEW g \in held', NEW h \in held', g[2] = h[2], g[1] # h[1]
        PROVE  ~Conflict(g[3], h[3])
    <3>1. CASE g \in held /\ h \in held
      BY <2>3, <3>1 DEF Inv, Exclusion
    <3>2. CASE g \in held /\ h \in N
      BY <1>2, <2>1, <2>3, <3>2
    <3>3. CASE g \in N /\ h \in held
      BY <1>2, <2>2, <2>3, <3>3
    <3>4. CASE g \in N /\ h \in N
      BY <1>2, <2>3, <3>4
    <3> QED BY <1>1, <3>1, <3>2, <3>3, <3>4
  <2> QED BY <2>3 DEF Exclusion
<1> QED BY <1>1, <1>2, <1>3, <1>4

LEMMA LocksDropped ==
  ASSUME Inv, NEW t \in Txs, held' = {h \in held : h[1] # t},
         \A u \in Txs \ {t} : tx'[u].kind = tx[u].kind
  PROVE  held' \subseteq Txs \X Rows \X Modes /\ ModesFit' /\ Exclusion'
<1>1. held \subseteq Txs \X Rows \X Modes /\ held' \subseteq held
  BY DEF Inv, TypeOK
<1>2. \A h \in held' : h[1] \in Txs \ {t} /\ h \in held
  BY <1>1
<1>3. ModesFit'
  BY <1>2 DEF Inv, ModesFit
<1>4. Exclusion'
  BY <1>1 DEF Inv, Exclusion
<1> QED BY <1>1, <1>3, <1>4

-----------------------------------------------------------------------------
(* One step of a transaction.                                              *)

\* Reach and Grant: it gets the lock it asks for.
LEMMA TakesLock ==
  ASSUME Inv, NEW t \in Txs, NEW r, NEW step \in Steps, Asks(t, r, step),
         Blockers(t, r, Mode(step)) = {},
         held' = held \cup {<<t, r, Mode(step)>>},
         UNCHANGED <<ord, owner, sold, tx>>,
         want' \in [Txs -> Rows \cup {None}], want'[t] = None,
         \A u \in Txs \ {t} : want'[u] = want[u]
  PROVE  Inv'
<1> DEFINE w == tx[t]
           m == Mode(step)
<1>1. TypeOK /\ TxFits(t) /\ HoldsInOrder(t)
  BY DEF Inv, Fits
<1>2. /\ w.goods \in Goods /\ w.coupon \in Coupons \cup {None} /\ r \in Rows /\ Running(t)
      /\ w.kind \in OrderKinds => w.order \in Orders
      /\ w.kind = "cardEdit" => w.card \in Cards
  BY <1>1 DEF TypeOK, TxFits, Jobs0, Asks
<1>3. /\ step = "order" => r \in Orders /\ m = "exclusive"
      /\ step = "email" => r = Email /\ m = "write"
      /\ step = "source" => r = Source /\ m = "write"
      /\ step = "goods" => r \in Goods /\ m = "write" /\ w.kind \notin Sharers
      /\ step = "shareGoods" => r \in Goods /\ m = "share" /\ w.kind \in Sharers
      /\ step = "coupon" => r \in Coupons /\ m = "write"
      /\ step = "own" => r \in Cards /\ m = "write"
      /\ step = "card" => r \in Cards /\ m = "exclusive"
      /\ step # "free"
  BY <1>2, TablesApart DEF Asks, Mode, Sharers, Rows
<1> HIDE DEF m
<1>4. held' = held \cup {<<t, c, m>> : c \in {r}}
  BY DEF m
<1>5. /\ RowsOf(t)' = RowsOf(t) \cup {r}
      /\ \A u \in Txs \ {t} : RowsOf(u)' = RowsOf(u)
  <2> DEFINE P == {r}
  <2>1. P \in SUBSET Rows /\ m \in Modes /\ held' = held \cup {<<t, c, m>> : c \in P}
    BY <1>2, <1>3, <1>4 DEF Modes, Steps
  <2> HIDE DEF P
  <2>2. RowsOf(t)' = RowsOf(t) \cup P /\ \A u \in Txs \ {t} : RowsOf(u)' = RowsOf(u)
    BY <2>1, RowsGained
  <2> QED BY <2>2 DEF P
<1>6. held' \subseteq Txs \X Rows \X Modes /\ ModesFit' /\ Exclusion'
  <2>1. m \in Modes /\ Blockers(t, r, m) = {}
    BY <1>3 DEF Modes, Steps, m
  <2>2. /\ r \in Orders => m = "exclusive"
        /\ r \in Cards => m \in {"write", "exclusive"}
        /\ r \in Coupons \cup {Email, Source} => m = "write"
        /\ r \in Goods => m = (IF tx[t].kind \in Sharers THEN "share" ELSE "write")
    BY <1>3, TablesApart DEF Steps
  <2> DEFINE P == {r}
  <2>3. P \in SUBSET Rows /\ held' = held \cup {<<t, c, m>> : c \in P}
    BY <1>2, <1>4
  <2>4. \A c \in P : /\ Blockers(t, c, m) = {}
                     /\ c \in Orders => m = "exclusive"
                     /\ c \in Cards => m \in {"write", "exclusive"}
                     /\ c \in Coupons \cup {Email, Source} => m = "write"
                     /\ c \in Goods => m = (IF tx[t].kind \in Sharers THEN "share" ELSE "write")
    BY <2>1, <2>2
  <2> HIDE DEF P
  <2> QED BY <2>1, <2>3, <2>4, LocksGained
<1>7. ASSUME NEW u \in Txs \ {t} PROVE Fits(u)'
  <2>1. TxFits(u)
    BY DEF Inv, Fits
  <2> QED BY <1>5, <2>1, Undisturbed DEF TxFits
<1>8. Fits(t)'
  <2>1. TxFits(t)' /\ WaitsInTurn(t)'
    BY <1>1 DEF TxFits, WaitsInTurn, Running
  <2>2. PastCoupon(t) => PastCoupon(t)'
    BY <1>5 DEF PastCoupon, TakesCoupon
  <2>3. ASSUME NEW c, Carries(t, c) PROVE Carries(t, c)'
    BY <1>5, <2>2, <2>3 DEF Carries
  <2>4. ASSUME NEW x \in RowsOf(t) PROVE InOrder(t, x)'
    <3>1. InOrder(t, x)
      BY <1>1 DEF HoldsInOrder
    <3> QED BY <1>5, <2>3, <3>1 DEF InOrder
  <2>5. InOrder(t, r)'
    <3>1. CASE step \in {"order", "email", "source"}
      BY <1>2, <1>3, <1>5, <3>1, TablesApart DEF Asks, InOrder
    <3>2. CASE step \in {"goods", "shareGoods"}
      BY <1>2, <1>3, <1>5, <3>2, TablesApart DEF Asks, InOrder, OrderKinds
    <3>3. CASE step = "coupon"
      BY <1>2, <1>3, <1>5, <3>3, TablesApart DEF Asks, InOrder
    <3>4. CASE step = "own"
      <4>1. w.kind \in {"settle", "expire", "saveRelease"} /\ owner[r] = w.order
            /\ (w.kind = "settle" => w.at = 5) /\ (w.kind = "expire" => PastCoupon(t))
            /\ (w.kind = "saveRelease" => w.order \in RowsOf(t))
        BY <3>4 DEF Asks
      <4>2. w.order \in RowsOf(t)
        BY <1>1, <4>1 DEF HoldsInOrder, PastCoupon, OrderKinds
      <4>3. Carries(t, r)
        BY <4>1, <4>2 DEF Carries
      <4> QED BY <1>3, <2>3, <3>4, <4>3, TablesApart DEF InOrder
    <3>5. CASE step = "card"
      <4>1. Carries(t, r)
        BY <3>5 DEF Asks, Carries
      <4> QED BY <1>3, <2>3, <3>5, <4>1, TablesApart DEF InOrder
    <3> QED BY <1>3, <3>1, <3>2, <3>3, <3>4, <3>5 DEF Steps
  <2>6. HoldsInOrder(t)'
    BY <1>1, <1>2, <1>5, <2>2, <2>4, <2>5 DEF HoldsInOrder, Running
  <2> QED BY <2>1, <2>6 DEF Fits
<1>9. TypeOK' /\ Placed' /\ CheckoutsApart'
  BY <1>6 DEF Inv, TypeOK, Placed, CheckoutsApart
<1> QED BY <1>6, <1>7, <1>8, <1>9 DEF Inv

LEMMA AskedSteps ==
  ASSUME NEW t, NEW r, NEW step, Asks(t, r, step)
  PROVE  step \in Steps \ {"free"}
BY DEF Asks, Steps

\* Nobody waits for a goods row to share it: a writer lets it pass.
LEMMA SharersPass ==
  ASSUME Inv, NEW t \in Txs, NEW r \in Goods
  PROVE  Blockers(t, r, Mode("shareGoods")) = {}
<1>1. ASSUME NEW h \in held, h[2] = r PROVE ~Conflict(h[3], "share")
  <2>1. h[3] \in {"share", "write"}
    BY <1>1 DEF Inv, ModesFit
  <2>2. {"write", "share"} = {"share", "write"} /\ {"share", "share"} = {"share"}
    OBVIOUS
  <2> QED BY <2>1, <2>2 DEF Conflict
<1>2. Mode("shareGoods") = "share"
  BY DEF Mode
<1> QED BY <1>1, <1>2 DEF Blockers, Holders

\* Reach: it queues for the row.
LEMMA Queues ==
  ASSUME Inv, NEW t \in Txs, Running(t), NEW r, r \in Missing(t, Statement(t)),
         Blockers(t, r, Mode(Statement(t))) # {},
         want' = [want EXCEPT ![t] = r], UNCHANGED <<ord, owner, sold, tx, held>>
  PROVE  Inv'
<1> DEFINE step == Statement(t)
<1>1. Asks(t, r, step)
  BY InTurnAsks DEF Inv, Fits
<1>2. step \in Steps \ {"free"} /\ r \in Rows /\ r # None
  BY <1>1, AskedSteps, TablesApart DEF Asks, Rows
<1>3. step # "shareGoods"
  <2>1. step = "shareGoods" => r \in Goods
    BY <1>1 DEF Asks, Inv, Fits, TxFits
  <2> QED BY <2>1, SharersPass
<1> HIDE DEF step
<1>4. PICK s \in Steps \ {"shareGoods"} : Asks(t, r, s)
  BY <1>1, <1>2, <1>3
<1>5. \A u \in Txs : RowsOf(u)' = RowsOf(u)
  BY SameRows
<1>6. ASSUME NEW u \in Txs \ {t} PROVE Fits(u)'
  <2>1. TxFits(u) /\ want'[u] = want[u]
    BY DEF Inv, Fits, TypeOK
  <2> QED BY <1>5, <2>1, Undisturbed DEF TxFits
<1>7. Fits(t)'
  <2>1. TxFits(t) /\ HoldsInOrder(t) /\ want'[t] = r
    BY DEF Inv, Fits, TypeOK
  <2>2. TxFits(t)'
    BY <2>1 DEF TxFits, Running
  <2>3. PastCoupon(t) => PastCoupon(t)'
    BY <1>5 DEF PastCoupon, TakesCoupon
  <2>4. HoldsInOrder(t)'
    BY <1>5, <2>1, <2>3 DEF HoldsInOrder, InOrder, Carries, PastCoupon, TakesCoupon, Running
  <2>5. Asks(t, r, s)'
    BY <1>5, <1>4, <2>3 DEF Asks, TakesCoupon, Running, Rows
  <2>6. WaitsInTurn(t)'
    BY <2>1, <2>5 DEF WaitsInTurn
  <2> QED BY <2>2, <2>4, <2>6 DEF Fits
<1>8. TypeOK' /\ Placed' /\ CheckoutsApart' /\ ModesFit' /\ Exclusion'
  BY <1>2 DEF Inv, TypeOK, Placed, CheckoutsApart, ModesFit, Exclusion
<1> QED BY <1>6, <1>7, <1>8 DEF Inv

\* FOR UPDATE SKIP LOCKED: it takes cards nobody else has.
LEMMA Picks ==
  ASSUME Inv, NEW t \in Txs, PickCards(t)
  PROVE  Inv'
<1> DEFINE w == tx[t]
<1>1. TypeOK /\ TxFits(t) /\ HoldsInOrder(t) /\ WaitsInTurn(t) /\ At(t, "free")
  BY DEF Inv, Fits, PickCards
<1>2. w.kind \in {"checkout", "settle"} /\ w.at \in {1, 3} /\ PastCoupon(t) /\ Now(t) = 4
  BY <1>1, QueriesAfterGoods
<1>3. PICK P \in SUBSET Pickable(t) :
         /\ tx' = [tx EXCEPT ![t].at = Now(t) + 1, ![t].got = IF Full(P) THEN P ELSE {}]
         /\ held' = held \cup {<<t, c, "exclusive">> : c \in P}
  BY DEF PickCards
<1>4. UNCHANGED <<ord, owner, sold, want>>
  BY DEF PickCards
<1>5. /\ tx'[t].at = 5 /\ tx'[t].got \in {P, {}}
      /\ tx'[t].kind = w.kind /\ tx'[t].order = w.order /\ tx'[t].goods = w.goods
      /\ tx'[t].coupon = w.coupon /\ tx'[t].card = w.card
      /\ \A u \in Txs \ {t} : tx'[u] = tx[u]
  BY <1>1, <1>2, <1>3 DEF TypeOK, Jobs0
<1>6. P \subseteq Cards /\ P \in SUBSET Rows
  BY <1>3 DEF Pickable, Eligible, ShelfOf, Rows
<1>7. ASSUME NEW c \in P
      PROVE  /\ Blockers(t, c, "exclusive") = {}
             /\ (owner[c] = None /\ CardGoods[c] = w.goods) \/ (w.kind = "settle" /\ owner[c] = w.order)
  BY <1>3 DEF Pickable, Eligible, ShelfOf
<1>8. tx' \in [Txs -> Jobs0]
  <2>1. Now(t) + 1 = 5
    BY <1>2
  <2>2. tx'[t] = [w EXCEPT !.at = 5, !.got = IF Full(P) THEN P ELSE {}]
    BY <1>1, <1>3, <2>1 DEF TypeOK
  <2>3. tx[t] \in Jobs0 /\ (IF Full(P) THEN P ELSE {}) \in SUBSET Cards
    BY <1>1, <1>6 DEF TypeOK
  <2>4. tx'[t] \in Jobs0
    BY <2>2, <2>3 DEF Jobs0
  <2> QED BY <1>1, <1>3, <1>5, <2>4 DEF TypeOK
<1>9. /\ RowsOf(t)' = RowsOf(t) \cup P
      /\ \A u \in Txs \ {t} : RowsOf(u)' = RowsOf(u)
  BY <1>3, <1>6, RowsGained DEF Modes
<1>10. held' \subseteq Txs \X Rows \X Modes /\ ModesFit' /\ Exclusion'
  <2>1. \A u \in Txs : tx'[u].kind = tx[u].kind
    BY <1>5
  <2>2. \A c \in P : /\ Blockers(t, c, "exclusive") = {}
                     /\ c \in Cards
                     /\ c \notin Orders \cup Coupons \cup Goods \cup {Email, Source}
    BY <1>6, <1>7, TablesApart
  <2>3. "exclusive" \in Modes
    BY DEF Modes
  <2> QED BY <1>3, <1>6, <2>1, <2>2, <2>3, LocksGained
<1>11. ASSUME NEW u \in Txs \ {t} PROVE Fits(u)'
  <2>1. TxFits(u) /\ want'[u] = want[u] /\ tx'[u] = tx[u]
    BY <1>4, <1>5 DEF Inv, Fits
  <2> QED BY <1>4, <1>9, <2>1, Undisturbed DEF TxFits
<1>12. Fits(t)'
  <2>1. want[t] = None
    <3>1. \A step : Asks(t, want[t], step) => Statement(t) = step /\ step # "free"
      BY <1>1, AskedInTurn, AskedSteps
    <3> QED BY <1>1, <3>1 DEF At, WaitsInTurn
  <2>2. TxFits(t)'
    BY <1>1, <1>2, <1>4, <1>5 DEF TxFits, Running, OrderKinds
  <2>3. PastCoupon(t)'
    BY <1>2, <1>4, <1>5, <1>9 DEF PastCoupon, TakesCoupon
  <2>4. ASSUME NEW x \in RowsOf(t) PROVE InOrder(t, x)'
    <3>1. InOrder(t, x)
      BY <1>1 DEF HoldsInOrder
    <3>2. x \notin Cards
      <4>1. ~Carries(t, x)
        BY <1>2 DEF Carries
      <4> QED BY <3>1, <4>1 DEF InOrder
    <3> QED BY <1>2, <1>5, <1>9, <3>1, <3>2 DEF InOrder
  <2>5. ASSUME NEW c \in P PROVE InOrder(t, c)'
    <3>1. w.kind = "settle" => w.order \in RowsOf(t)
      BY <1>2 DEF PastCoupon, OrderKinds
    <3>2. Carries(t, c)'
      BY <1>2, <1>4, <1>5, <1>7, <1>9, <3>1 DEF Carries
    <3> QED BY <1>6, <3>2, TablesApart DEF InOrder
  <2>6. HoldsInOrder(t)'
    BY <1>1, <1>5, <1>9, <2>3, <2>4, <2>5 DEF HoldsInOrder, Running, At
  <2> QED BY <1>4, <2>1, <2>2, <2>6 DEF Fits, WaitsInTurn
<1>13. TypeOK' /\ Placed' /\ CheckoutsApart'
  <2>1. TypeOK'
    BY <1>1, <1>4, <1>8, <1>10 DEF TypeOK
  <2>2. \A u \in Txs : tx'[u].kind = tx[u].kind /\ tx'[u].order = tx[u].order
    BY <1>5
  <2> QED BY <1>4, <2>1, <2>2 DEF Inv, Placed, CheckoutsApart
<1> QED BY <1>10, <1>11, <1>12, <1>13 DEF Inv

\* A transaction that ends gives up every lock.
LEMMA Releases ==
  ASSUME Inv, NEW t \in Txs, Release(t), \A u \in Txs \ {t} : Fits(u)'
  PROVE  /\ \A u \in Txs : Fits(u)'
         /\ CheckoutsApart' /\ ModesFit' /\ Exclusion'
         /\ tx' \in [Txs -> Jobs0] /\ want' \in [Txs -> Rows \cup {None}]
         /\ held' \subseteq Txs \X Rows \X Modes
<1>1. /\ TypeOK /\ tx'[t] = Idle /\ want'[t] = None /\ held' = {h \in held : h[1] # t}
      /\ \A u \in Txs \ {t} : tx'[u] = tx[u] /\ want'[u] = want[u]
  BY DEF Release, Inv, TypeOK
<1>2. RowsOf(t)' = {} /\ \A u \in Txs \ {t} : RowsOf(u)' = RowsOf(u)
  BY <1>1, RowsDropped
<1>3. held' \subseteq Txs \X Rows \X Modes /\ ModesFit' /\ Exclusion'
  BY <1>1, LocksDropped
<1>4. Fits(t)'
  <2>1. TxFits(t)'
    BY <1>1 DEF TxFits, Running, Idle, OrderKinds
  <2>2. HoldsInOrder(t)'
    BY <1>1, <1>2 DEF HoldsInOrder, Idle
  <2>3. WaitsInTurn(t)'
    BY <1>1 DEF WaitsInTurn
  <2> QED BY <2>1, <2>2, <2>3 DEF Fits
<1>5. tx' \in [Txs -> Jobs0] /\ want' \in [Txs -> Rows \cup {None}]
  <2>1. Idle \in Jobs0
    BY DEF Idle, Jobs0
  <2> QED BY <1>1, <2>1 DEF TypeOK, Release
<1>6. CheckoutsApart'
  <2>1. tx'[t].kind # "checkout"
    BY <1>1 DEF Idle
  <2> QED BY <1>1, <2>1 DEF Inv, CheckoutsApart
<1> QED BY <1>3, <1>4, <1>5, <1>6

LEMMA RollsBack ==
  ASSUME Inv, NEW t \in Txs, Rollback(t)
  PROVE  Inv'
<1>1. Release(t) /\ UNCHANGED <<ord, owner, sold>>
  BY DEF Rollback
<1>2. ASSUME NEW u \in Txs \ {t} PROVE Fits(u)'
  <2>1. TxFits(u) /\ tx'[u] = tx[u] /\ want'[u] = want[u] /\ held' = {h \in held : h[1] # t}
    BY <1>1 DEF Inv, Fits, TypeOK, Release
  <2>2. RowsOf(u)' = RowsOf(u)
    BY <2>1, RowsDropped
  <2> QED BY <1>1, <2>1, <2>2, Undisturbed DEF TxFits
<1>3. TypeOK' /\ Placed'
  BY <1>1, <1>2, Releases DEF Inv, TypeOK, Placed
<1> QED BY <1>1, <1>2, <1>3, Releases DEF Inv

LEMMA StagesOf ==
  ASSUME Inv, NEW t \in Txs, Running(t), tx[t].order # None
  PROVE  StagesAfter(t) \subseteq Stages \ {"blank"}
<1> DEFINE w == tx[t]
<1>1. w.kind \in OrderKinds \cup {"checkout"} /\ w.order \in Orders
  BY DEF Inv, Fits, TxFits
<1>2. w.kind \in OrderKinds => ord[w.order].stage \in Stages \ {"blank"}
  BY <1>1 DEF Inv, Fits, TxFits, TypeOK
<1> QED BY <1>1, <1>2 DEF StagesAfter, OrderKinds, Stages

\* A commit changes nothing that another transaction has locked.
LEMMA Commits ==
  ASSUME Inv, NEW t \in Txs, Commit(t)
  PROVE  Inv'
<1> DEFINE w == tx[t]
<1>1. TypeOK /\ TxFits(t) /\ HoldsInOrder(t) /\ At(t, "commit") /\ Running(t) /\ Release(t)
  BY DEF Inv, Fits, Commit, At
<1>2. /\ w.order # None => w.order \in Orders /\ w.kind \in OrderKinds \cup {"checkout"}
      /\ w.order = None => UNCHANGED <<ord, owner, sold>>
      /\ w.got \subseteq RowsOf(t) /\ w.got \subseteq Cards
  <2>1. w.order # None => w.order \in Orders /\ w.kind \in OrderKinds \cup {"checkout"}
    BY <1>1 DEF TxFits, TypeOK, Jobs0
  <2>2. w.kind = "settle" => w.order # None
    BY <1>1, TablesApart DEF TxFits, OrderKinds
  <2>3. w.order = None => UNCHANGED <<ord, owner, sold>>
    BY <2>2 DEF Commit
  <2>4. w.got \subseteq RowsOf(t) /\ w.got \subseteq Cards
    BY <1>1 DEF HoldsInOrder, TypeOK, Jobs0
  <2> QED BY <2>1, <2>3, <2>4
<1>3. ASSUME w.order # None
      PROVE  \E stage \in Stages \ {"blank"} :
               /\ ord' = [ord EXCEPT ![w.order] =
                            [stage |-> stage, goods |-> w.goods,
                             coupon |-> IF w.kind = "checkout" THEN w.coupon ELSE @.coupon]]
               /\ owner' = [c \in Cards |->
                              IF w.kind = "checkout" /\ c \in w.got THEN w.order
                              ELSE IF owner[c] = w.order /\ w.kind # "stamp" /\ stage # "short" THEN None
                              ELSE owner[c]]
  BY <1>1, <1>3, StagesOf DEF Commit
<1>4. sold' = IF w.kind = "settle" THEN sold \cup w.got ELSE sold
  BY DEF Commit
<1>5. w.kind \in OrderKinds => w.order \in RowsOf(t)
  BY <1>1, CommitsUnderLock
\* What it does to the tables.
<1>6. ASSUME NEW o \in Orders
      PROVE  /\ o # w.order => ord'[o] = ord[o]
             /\ o = w.order => ord'[o].stage # "blank"
  <2>1. CASE w.order = None
    BY <1>2, <2>1, TablesApart
  <2>2. CASE w.order # None
    <3>1. PICK stage \in Stages \ {"blank"} :
             ord' = [ord EXCEPT ![w.order] =
                       [stage |-> stage, goods |-> w.goods,
                        coupon |-> IF w.kind = "checkout" THEN w.coupon ELSE @.coupon]]
      BY <1>3, <2>2
    <3> QED BY <1>1, <1>2, <2>2, <3>1 DEF TypeOK
  <2> QED BY <2>1, <2>2
<1>7. ASSUME NEW c \in Cards
      PROVE  owner'[c] = owner[c] \/ (w.order # None /\ ((w.kind = "checkout" /\ c \in w.got) \/ owner[c] = w.order))
  <2>1. CASE w.order = None
    BY <1>2, <2>1
  <2>2. CASE w.order # None
    BY <1>3, <2>2
  <2> QED BY <2>1, <2>2
<1>8. ASSUME NEW c \in w.got
      PROVE  /\ w.kind = "checkout" => owner[c] = None
             /\ w.kind = "settle" => owner[c] \in {None, w.order}
  <2>1. Carries(t, c)
    BY <1>1, <1>2 DEF HoldsInOrder, InOrder
  <2> QED BY <2>1 DEF Carries
<1>9. ASSUME NEW u \in Txs \ {t} PROVE Fits(u)'
  <2> DEFINE v == tx[u]
  <2>1. TxFits(u) /\ HoldsInOrder(u) /\ v.order \in Orders \cup {None}
    BY <1>1 DEF Inv, Fits, TypeOK, Jobs0
  <2>2. tx'[u] = v /\ want'[u] = want[u] /\ held' = {h \in held : h[1] # t}
    BY <1>1 DEF TypeOK, Release
  <2>3. RowsOf(u)' = RowsOf(u)
    BY <2>2, RowsDropped
  <2>4. v.kind = "checkout" => v.order \in Orders /\ ord'[v.order].stage = "blank"
    <3>1. v.kind = "checkout" => v.order \in Orders /\ ord[v.order].stage = "blank"
      BY <2>1 DEF TxFits
    <3>2. v.kind = "checkout" => v.order # w.order
      <4> SUFFICES ASSUME v.kind = "checkout", v.order = w.order PROVE FALSE
        OBVIOUS
      <4>1. w.order # None /\ w.kind \in OrderKinds \cup {"checkout"}
        BY <1>2, <3>1, TablesApart
      <4>2. w.kind # "checkout"
        BY DEF Inv, CheckoutsApart
      <4>3. w.kind \notin OrderKinds
        BY <1>1, <3>1 DEF TxFits
      <4> QED BY <4>1, <4>2, <4>3
    <3> QED BY <1>6, <3>1, <3>2
  <2>5. v.kind \in OrderKinds => v.order \in Orders /\ ord'[v.order].stage # "blank"
    BY <1>6, <2>1 DEF TxFits
  <2>6. v.order \in RowsOf(u) => v.order \in Orders /\ v.order # w.order
    <3> SUFFICES ASSUME v.order \in RowsOf(u) PROVE v.order \in Orders /\ v.order # w.order
      OBVIOUS
    <3>1. v.order \in Orders
      <4>1. RowsOf(u) \subseteq Rows /\ None \notin Rows
        BY LocksAssumption DEF RowsOf
      <4> QED BY <2>1, <4>1
    <3>2. v.kind \in OrderKinds
      BY <2>1, <3>1 DEF HoldsInOrder, InOrder
    <3>3. ord[v.order].stage # "blank"
      BY <2>1, <3>2 DEF TxFits
    <3>4. ASSUME v.order = w.order PROVE FALSE
      <4>1. w.kind \in OrderKinds
        BY <1>1, <1>2, <3>1, <3>3, <3>4, TablesApart DEF TxFits
      <4>2. w.order \in RowsOf(t)
        BY <1>5, <4>1
      <4> QED BY <3>1, <3>4, <4>2, OneHolder
    <3> QED BY <3>1, <3>4
  <2>7. v.order \in RowsOf(u) => ord'[v.order] = ord[v.order]
    BY <1>6, <2>6
  <2>8. ASSUME NEW c \in Cards, c \in RowsOf(u), v.kind # "cardEdit" PROVE owner'[c] = owner[c]
    <3>1. c \notin w.got
      BY <1>2, <2>8, OneHolder
    <3>2. Carries(u, c)
      BY <2>1, <2>8 DEF HoldsInOrder, InOrder
    <3>3. owner[c] = None \/ (owner[c] = v.order /\ v.order \in RowsOf(u))
      BY <2>8, <3>2 DEF Carries
    <3>4. w.order # None => owner[c] # w.order
      BY <2>6, <3>3
    <3> QED BY <1>7, <3>1, <3>4
  <2>9. ASSUME NEW c \in Cards, v.order \in RowsOf(u), owner[c] = v.order
        PROVE  owner'[c] = owner[c] /\ (c \in sold' => c \in sold)
    <3>1. owner[c] # w.order /\ owner[c] # None
      BY <2>6, <2>9, TablesApart
    <3>2. c \in w.got => w.kind \notin {"checkout", "settle"}
      BY <1>8, <3>1
    <3> QED BY <1>4, <1>7, <3>1, <3>2
  <2> QED BY <2>2, <2>3, <2>4, <2>5, <2>7, <2>8, <2>9, Undisturbed
<1>10. /\ ord' \in [Orders -> [stage: Stages, goods: Goods \cup {None}, coupon: Coupons \cup {None}]]
       /\ Placed'
  <2>1. CASE w.order = None
    BY <1>1, <1>2, <2>1 DEF Inv, TypeOK, Placed
  <2>2. CASE w.order # None
    <3>1. PICK stage \in Stages \ {"blank"} :
             ord' = [ord EXCEPT ![w.order] =
                       [stage |-> stage, goods |-> w.goods,
                        coupon |-> IF w.kind = "checkout" THEN w.coupon ELSE @.coupon]]
      BY <1>3, <2>2
    <3>2. w.order \in Orders /\ w.goods \in Goods /\ w.coupon \in Coupons \cup {None}
      BY <1>1, <1>2, <2>2 DEF TypeOK, TxFits, Jobs0
    <3>3. ord[w.order].coupon \in Coupons \cup {None}
      BY <1>1, <3>2 DEF TypeOK
    <3> QED BY <1>1, <3>1, <3>2, <3>3 DEF Inv, TypeOK, Placed
  <2> QED BY <2>1, <2>2
<1>11. owner' \in [Cards -> Orders \cup {None}] /\ sold' \subseteq Cards
  <2>1. owner' \in [Cards -> Orders \cup {None}]
    <3>1. CASE w.order = None
      BY <1>1, <1>2, <3>1 DEF TypeOK
    <3>2. CASE w.order # None
      BY <1>1, <1>2, <1>3, <3>2 DEF TypeOK
    <3> QED BY <3>1, <3>2
  <2> QED BY <1>1, <1>2, <1>4, <2>1 DEF TypeOK
<1>12. TypeOK'
  BY <1>1, <1>9, <1>10, <1>11, Releases DEF TypeOK
<1> QED BY <1>1, <1>9, <1>10, <1>12, Releases DEF Inv

\* The jobs a connection may begin.
LEMMA JobsFit ==
  ASSUME Inv, NEW job \in Jobs
  PROVE  /\ job \in Jobs0 /\ job.kind \in Kinds /\ job.goods \in Goods
         /\ job.at \in {1, 3} /\ job.got = {}
         /\ job.at = 3 => job.kind = "checkout"
         /\ job.kind = "checkout" => job.order \in Fresh
         /\ job.kind \in OrderKinds => job.order \in Orders /\ ord[job.order].stage # "blank"
         /\ job.kind \notin OrderKinds \cup {"checkout"} => job.order = None
         /\ job.kind = "couponSave" => job.coupon \in Coupons
         /\ job.kind = "cardEdit" => job.card \in Cards
<1>1. TypeOK /\ Placed /\ Fresh \subseteq Orders
  BY DEF Inv, Fresh
<1>2. \A c \in Cards : CardGoods[c] \in Goods
  BY LocksAssumption
<1>3. ASSUME NEW o \in Orders, ord[o].stage # "blank"
      PROVE  ord[o].goods \in Goods /\ ord[o].coupon \in Coupons \cup {None}
  BY <1>1, <1>3 DEF TypeOK, Placed
<1> USE DEF Kinds, OrderKinds, Sharers, Jobs0
<1>4. ASSUME NEW n \in {1, 3}, NEW o \in Fresh, NEW g \in Goods, NEW k \in Coupons \cup {None},
             job = [Job("checkout", o, g, k, None) EXCEPT !.at = n]
      PROVE  job = [kind |-> "checkout", order |-> o, goods |-> g, coupon |-> k, card |-> None,
                    at |-> n, got |-> {}]
  BY <1>4 DEF Job
<1>5. CASE job \in {[Job("checkout", o, g, k, None) EXCEPT !.at = n] :
                        n \in {1, 3}, o \in Fresh, g \in Goods, k \in Coupons \cup {None}}
  BY <1>1, <1>4, <1>5
<1>6. CASE job \in {Job(kind, o, ord[o].goods, ord[o].coupon, None) :
                        kind \in {"settle", "expire", "stamp"}, o \in {x \in Orders : ord[x].stage # "blank"}}
  BY <1>3, <1>6 DEF Job
<1>7. CASE job \in {Job(IF AutoOrder(o) THEN "saveRelease" ELSE "saveTake", o, ord[o].goods, None, None) :
                        o \in {x \in Orders : ord[x].stage = "short"}}
  BY <1>3, <1>7 DEF Job
<1>8. CASE job \in {Job("couponSave", None, g, k, None) : g \in Goods, k \in Coupons}
  BY <1>8 DEF Job
<1>9. CASE job \in {Job("goodsSave", None, g, None, None) : g \in Goods}
  BY <1>9 DEF Job
<1>10. CASE job \in {Job("import", None, g, None, None) : g \in {CardGoods[c] : c \in Cards}}
  BY <1>2, <1>10 DEF Job
<1>11. CASE job \in {Job("cardEdit", None, CardGoods[c], None, c) : c \in Cards}
  BY <1>2, <1>11 DEF Job
<1> QED BY <1>5, <1>6, <1>7, <1>8, <1>9, <1>10, <1>11 DEF Jobs

LEMMA Begins ==
  ASSUME Inv, NEW t \in Txs, NEW job \in Jobs, Begin(t, job)
  PROVE  Inv'
<1>1. /\ TypeOK /\ ~Running(t) /\ HoldsInOrder(t) /\ WaitsInTurn(t) /\ tx'[t] = job
      /\ \A u \in Txs \ {t} : tx'[u] = tx[u]
      /\ UNCHANGED <<ord, owner, sold, want, held>>
  BY DEF Inv, Fits, Begin, TypeOK
<1>2. \A u \in Txs : RowsOf(u)' = RowsOf(u)
  BY <1>1, SameRows
<1>3. RowsOf(t) = {} /\ want[t] = None
  BY <1>1 DEF HoldsInOrder, WaitsInTurn, Asks
<1>4. ASSUME NEW u \in Txs \ {t} PROVE Fits(u)'
  <2>1. TxFits(u) /\ tx'[u] = tx[u] /\ want'[u] = want[u]
    BY <1>1 DEF Inv, Fits
  <2> QED BY <1>1, <1>2, <2>1, Undisturbed DEF TxFits
<1>5. Fits(t)'
  <2>1. TxFits(t)'
    BY <1>1, JobsFit DEF TxFits, Running, Fresh, OrderKinds
  <2>2. HoldsInOrder(t)'
    <3>1. RowsOf(t)' = {} /\ tx'[t].at # 5 /\ tx'[t].got = {}
      BY <1>1, <1>2, <1>3, JobsFit
    <3> QED BY <3>1 DEF HoldsInOrder
  <2>3. WaitsInTurn(t)'
    BY <1>1, <1>3 DEF WaitsInTurn
  <2> QED BY <2>1, <2>2, <2>3 DEF Fits
<1>6. TypeOK' /\ Placed'
  BY <1>1, JobsFit DEF Begin, TypeOK, Inv, Placed
<1>7. CheckoutsApart'
  <2>1. job.kind = "checkout" => \A u \in Txs : tx[u].order # job.order
    BY JobsFit DEF Fresh
  <2> QED BY <1>1, <2>1 DEF Inv, CheckoutsApart
<1>8. ModesFit' /\ Exclusion'
  <2>1. ASSUME NEW h \in held PROVE h[1] \in Txs \ {t}
    <3>1. h \in Txs \X Rows \X Modes
      BY <1>1 DEF TypeOK
    <3>2. h = <<h[1], h[2], h[3]>> /\ h[1] \in Txs /\ h[3] \in Modes
      BY <3>1
    <3>3. h[2] \in RowsOf(h[1])
      BY <1>1, <3>2, HeldRows
    <3> QED BY <1>3, <3>2, <3>3
  <2> QED BY <1>1, <2>1 DEF Inv, ModesFit, Exclusion
<1> QED BY <1>4, <1>5, <1>6, <1>7, <1>8 DEF Inv

LEMMA Reaches ==
  ASSUME Inv, NEW t \in Txs, Reach(t)
  PROVE  Inv'
<1>1. /\ Running(t) /\ want[t] = None /\ TypeOK /\ TxFits(t) /\ HoldsInOrder(t)
      /\ UNCHANGED <<ord, owner, sold, tx>>
  BY DEF Reach, Inv, Fits
<1>2. PICK r \in Missing(t, Statement(t)) :
         IF Blockers(t, r, Mode(Statement(t))) = {}
         THEN held' = held \cup {<<t, r, Mode(Statement(t))>>} /\ UNCHANGED want
         ELSE want' = [want EXCEPT ![t] = r] /\ UNCHANGED held
  BY DEF Reach
<1>3. PICK step : step = Statement(t)
  OBVIOUS
<1>4. Asks(t, r, step)
  BY <1>1, <1>2, <1>3, InTurnAsks
<1>5. step \in Steps
  BY <1>4, AskedSteps
<1>6. CASE Blockers(t, r, Mode(Statement(t))) = {}
  BY <1>1, <1>2, <1>3, <1>4, <1>5, <1>6, TakesLock DEF TypeOK
<1>7. CASE Blockers(t, r, Mode(Statement(t))) # {}
  BY <1>1, <1>2, <1>7, Queues
<1> QED BY <1>6, <1>7

LEMMA Grants ==
  ASSUME Inv, NEW t \in Txs, Grant(t)
  PROVE  Inv'
<1>1. TypeOK /\ TxFits(t) /\ HoldsInOrder(t) /\ WaitsInTurn(t) /\ want[t] # None
  BY DEF Inv, Fits, Grant
<1>2. PICK r : r = want[t]
  OBVIOUS
<1>3. PICK step \in Steps : Asks(t, r, step)
  BY <1>1, <1>2 DEF WaitsInTurn
<1>4. Statement(t) = step
  BY <1>1, <1>3, AskedInTurn
<1>5. /\ Blockers(t, r, Mode(step)) = {} /\ held' = held \cup {<<t, r, Mode(step)>>}
      /\ want' = [want EXCEPT ![t] = None] /\ UNCHANGED <<ord, owner, sold, tx>>
  BY <1>2, <1>4 DEF Grant
<1>6. /\ want' \in [Txs -> Rows \cup {None}] /\ want'[t] = None
      /\ \A u \in Txs \ {t} : want'[u] = want[u]
  BY <1>1, <1>5 DEF TypeOK
<1> QED BY <1>3, <1>5, <1>6, TakesLock

LEMMA InvInit == Init => Inv
<1> SUFFICES ASSUME Init PROVE Inv
  OBVIOUS
<1>1. TypeOK
  BY DEF Init, TypeOK, Idle, Jobs0, Stages
<1>2. ASSUME NEW t \in Txs PROVE Fits(t)
  <2>1. tx[t] = Idle /\ want[t] = None /\ RowsOf(t) = {}
    BY DEF Init, RowsOf, Holds, Holders
  <2>2. TxFits(t)
    BY <2>1 DEF TxFits, Running, Idle, OrderKinds
  <2>3. HoldsInOrder(t) /\ WaitsInTurn(t)
    BY <2>1 DEF HoldsInOrder, WaitsInTurn, Idle
  <2> QED BY <2>2, <2>3 DEF Fits
<1>3. Placed /\ CheckoutsApart /\ ModesFit /\ Exclusion
  BY DEF Init, Placed, CheckoutsApart, ModesFit, Exclusion, Idle
<1> QED BY <1>1, <1>2, <1>3 DEF Inv

LEMMA InvStep == Inv /\ [Next]_vars => Inv'
<1> SUFFICES ASSUME Inv, [Next]_vars PROVE Inv'
  OBVIOUS
<1>1. CASE UNCHANGED vars
  <2>1. \A u \in Txs : RowsOf(u)' = RowsOf(u)
    BY <1>1, SameRows DEF vars
  <2>2. ASSUME NEW u \in Txs PROVE Fits(u)'
    <3>1. TxFits(u)
      BY DEF Inv, Fits
    <3> QED BY <1>1, <2>1, <3>1, Undisturbed DEF TxFits, vars
  <2>3. (TypeOK /\ Placed /\ CheckoutsApart /\ ModesFit /\ Exclusion)'
    BY <1>1 DEF Inv, TypeOK, Placed, CheckoutsApart, ModesFit, Exclusion, vars
  <2> QED BY <2>2, <2>3 DEF Inv
<1>2. ASSUME NEW t \in Txs, Rollback(t) PROVE Inv'
  BY <1>2, RollsBack
<1>3. ASSUME NEW t \in Txs, Proceed(t) PROVE Inv'
  BY <1>2, <1>3, Reaches, Picks, Commits DEF Proceed, GiveUp
<1>4. ASSUME NEW t \in Txs, Grant(t) PROVE Inv'
  BY <1>4, Grants
<1>5. ASSUME NEW t \in Txs, NEW job \in Jobs, Begin(t, job) PROVE Inv'
  BY <1>5, Begins
<1> QED BY <1>1, <1>2, <1>3, <1>4, <1>5 DEF Next

-----------------------------------------------------------------------------
(* No circle.                                                              *)

\* How far a transaction has come, by the row it waits for.
Level(t) ==
    IF want[t] = None THEN 5
    ELSE IF want[t] \in Orders \cup {Email} \/ tx[t].kind = "cardEdit" THEN 0
    ELSE IF want[t] = Source THEN 1
    ELSE IF want[t] \in Goods THEN 2
    ELSE IF want[t] \in Coupons THEN 3
    ELSE 4

\* What it can have locked by then.
LEMMA LevelsHold ==
  ASSUME Inv, NEW t \in Txs
  PROVE  /\ Level(t) \in 0..5
         /\ Level(t) = 0 => RowsOf(t) = {}
         /\ Level(t) = 1 => RowsOf(t) \subseteq {Email}
         /\ Level(t) = 2 => RowsOf(t) \cap (Goods \cup Coupons \cup Cards) = {}
         /\ Level(t) = 3 => /\ RowsOf(t) \cap Coupons = {}
                            /\ \A c \in RowsOf(t) \cap Cards : owner[c] = None
         /\ Level(t) = 4 => /\ want[t] \in Cards /\ owner[want[t]] = tx[t].order
                            /\ tx[t].order \in RowsOf(t) /\ tx[t].order \in Orders
                            /\ tx[t].kind \in {"settle", "expire", "saveRelease"}
<1> DEFINE w == tx[t]
<1>1. TypeOK /\ TxFits(t) /\ HoldsInOrder(t) /\ WaitsInTurn(t) /\ \A r \in RowsOf(t) : InOrder(t, r)
  BY DEF Inv, Fits, HoldsInOrder
<1>2. RowsOf(t) \subseteq Rows
  BY DEF RowsOf
<1>3. Level(t) \in 0..5
  BY DEF Level
<1>4. CASE want[t] = None
  BY <1>3, <1>4 DEF Level
<1>5. CASE want[t] # None
  <2>1. PICK step \in Steps \ {"shareGoods"} : Asks(t, want[t], step)
    BY <1>1, <1>5 DEF WaitsInTurn
  <2>2. /\ w.goods \in Goods /\ w.coupon \in Coupons \cup {None} /\ want[t] \in Rows
        /\ w.kind \in OrderKinds => w.order \in Orders
        /\ w.kind = "cardEdit" => w.card \in Cards
        /\ want[t] \notin RowsOf(t)
    BY <1>1, <2>1 DEF TypeOK, TxFits, Jobs0, Asks
  <2>3. /\ \A c \in RowsOf(t) \cap Cards : Carries(t, c)
        /\ \A r \in RowsOf(t) \cap Orders : w.kind \in OrderKinds /\ r = w.order
        /\ Email \in RowsOf(t) => w.kind = "checkout"
        /\ Source \in RowsOf(t) => w.kind = "checkout" /\ Email \in RowsOf(t)
        /\ \A r \in RowsOf(t) \cap Goods : /\ r = w.goods
                                           /\ w.kind = "checkout" /\ w.at = 1 => Source \in RowsOf(t)
                                           /\ w.kind \in OrderKinds => w.order \in RowsOf(t)
                                           /\ w.kind = "cardEdit" => w.card \in RowsOf(t)
        /\ \A r \in RowsOf(t) \cap Coupons : /\ r = w.coupon /\ w.goods \in RowsOf(t)
                                             /\ w.kind \in {"checkout", "settle", "expire", "couponSave"}
                                             /\ w.kind = "checkout" => w.at = 5
    BY <1>1, TablesApart DEF InOrder
  <2>4. \A r \in RowsOf(t) : r \in Orders \cup Cards \cup Goods \cup Coupons \/ r = Email \/ r = Source
    BY <1>2 DEF Rows
  <2>5. CASE step = "order"
    <3>1. w.kind \in OrderKinds /\ w.at = 1 /\ want[t] = w.order /\ w.order \in Orders
      BY <2>1, <2>2, <2>5 DEF Asks
    <3>2. RowsOf(t) = {}
      <4>1. RowsOf(t) \cap Cards = {}
        BY <2>2, <2>3, <3>1 DEF Carries, OrderKinds
      <4> QED BY <2>2, <2>3, <2>4, <3>1, <4>1 DEF OrderKinds
    <3> QED BY <1>5, <3>1, <3>2 DEF Level
  <2>6. CASE step \in {"email", "source"}
    <3>1. w.kind = "checkout" /\ w.at = 1 /\ want[t] \in {Email, Source}
          /\ (step = "email" => want[t] = Email) /\ (step = "source" => want[t] = Source)
      BY <2>1, <2>6 DEF Asks
    <3>2. RowsOf(t) \cap Cards = {}
      BY <2>3, <3>1 DEF Carries
    <3>3. RowsOf(t) \subseteq {Email} /\ (want[t] = Email => RowsOf(t) = {})
      BY <2>2, <2>3, <2>4, <3>1, <3>2 DEF OrderKinds
    <3> QED BY <1>5, <3>1, <3>3, TablesApart DEF Level
  <2>7. CASE step = "goods"
    <3>1. want[t] = w.goods /\ want[t] \in Goods /\ w.goods \notin RowsOf(t) /\ w.at # 5
          /\ w.kind \in {"checkout", "settle", "expire", "saveTake", "goodsSave"}
      BY <2>1, <2>2, <2>7 DEF Asks
    <3>2. RowsOf(t) \cap (Goods \cup Coupons) = {}
      BY <2>3, <3>1
    <3>3. RowsOf(t) \cap Cards = {}
      BY <2>3, <3>1 DEF Carries, PastCoupon
    <3> QED BY <1>5, <3>1, <3>2, <3>3, TablesApart DEF Level
  <2>8. CASE step = "coupon"
    <3>1. want[t] = w.coupon /\ want[t] \in Coupons /\ w.coupon \notin RowsOf(t)
          /\ (w.kind \in {"settle", "expire"} => w.at = 1 /\ TakesCoupon(t))
          /\ w.kind \in {"checkout", "settle", "expire", "couponSave"}
      BY <1>5, <2>1, <2>2, <2>8 DEF Asks
    <3>2. RowsOf(t) \cap Coupons = {}
      BY <2>3, <3>1
    <3>3. \A c \in RowsOf(t) \cap Cards : owner[c] = None
      BY <1>5, <2>3, <3>1 DEF Carries, PastCoupon, OrderKinds
    <3> QED BY <1>5, <3>1, <3>2, <3>3, TablesApart DEF Level
  <2>9. CASE step = "own"
    <3>1. want[t] \in Cards /\ owner[want[t]] = w.order /\ w.kind \in {"settle", "expire", "saveRelease"}
          /\ (w.kind = "settle" => w.at = 5) /\ (w.kind = "expire" => PastCoupon(t))
          /\ (w.kind = "saveRelease" => w.order \in RowsOf(t))
      BY <2>1, <2>9 DEF Asks
    <3>2. w.order \in RowsOf(t) /\ w.order \in Orders
      BY <1>1, <2>2, <3>1 DEF HoldsInOrder, PastCoupon, OrderKinds
    <3>3. Level(t) = 4
      BY <1>5, <3>1, TablesApart DEF Level
    <3> QED BY <3>1, <3>2, <3>3
  <2>10. CASE step = "card"
    <3>1. w.kind = "cardEdit" /\ want[t] = w.card /\ w.card \notin RowsOf(t) /\ w.at = 1
      BY <2>1, <2>2, <2>10 DEF Asks
    <3>2. RowsOf(t) = {}
      BY <2>2, <2>3, <2>4, <3>1 DEF Carries, OrderKinds
    <3> QED BY <1>5, <3>1, <3>2 DEF Level
  <2> QED BY <2>1, <2>5, <2>6, <2>7, <2>8, <2>9, <2>10, AskedSteps DEF Steps
<1> QED BY <1>4, <1>5

\* Who is waited for has come further.
LEMMA WaitsUpward ==
  ASSUME Inv, NEW t \in Txs, NEW u \in Txs, WaitsFor(t, u)
  PROVE  Level(u) > Level(t)
<1>1. want[t] # None /\ want[t] \in RowsOf(u) /\ t # u
  <2>1. PICK h \in Holders(want[t]) : h[1] = u /\ u # t
    BY DEF WaitsFor, Blockers
  <2>2. want[t] \in Rows
    BY DEF WaitsFor, Inv, TypeOK
  <2> QED BY <2>1, <2>2 DEF WaitsFor, RowsOf, Holds
<1>2. Level(t) \in 0..5 /\ Level(u) \in 0..5
  BY LevelsHold
<1>3. Level(u) # 0
  BY <1>1, LevelsHold
<1>4. CASE Level(t) = 0
  BY <1>2, <1>3, <1>4
<1>5. CASE Level(t) = 1
  <2>1. want[t] = Source
    BY <1>1, <1>5 DEF Level
  <2>2. Level(u) # 1
    BY <1>1, <2>1, LevelsHold, TablesApart
  <2> QED BY <1>2, <1>3, <1>5, <2>2
<1>6. CASE Level(t) = 2
  <2>1. want[t] \in Goods
    BY <1>1, <1>6 DEF Level
  <2>2. Level(u) # 1 /\ Level(u) # 2
    BY <1>1, <2>1, LevelsHold, TablesApart
  <2> QED BY <1>2, <1>3, <1>6, <2>2
<1>7. CASE Level(t) = 3
  <2>1. want[t] \in Coupons
    BY <1>1, <1>7 DEF Level
  <2>2. Level(u) # 1 /\ Level(u) # 2 /\ Level(u) # 3
    BY <1>1, <2>1, LevelsHold, TablesApart
  <2> QED BY <1>2, <1>3, <1>7, <2>2
<1>8. CASE Level(t) = 4
  <2> DEFINE c == want[t]
  <2>1. /\ c \in Cards /\ owner[c] = tx[t].order /\ tx[t].order \in RowsOf(t)
        /\ tx[t].order \in Orders /\ owner[c] # None
    BY <1>8, LevelsHold, TablesApart
  <2>2. Level(u) # 1 /\ Level(u) # 2 /\ Level(u) # 3
    BY <1>1, <2>1, LevelsHold, TablesApart
  <2>3. ASSUME Level(u) = 4 PROVE FALSE
    <3>1. tx[u].kind # "cardEdit"
      BY <2>3, LevelsHold
    <3>2. Carries(u, c)
      BY <1>1, <2>1 DEF Inv, Fits, HoldsInOrder, InOrder
    <3>3. tx[u].order = owner[c] /\ tx[u].order \in RowsOf(u)
      BY <2>1, <3>1, <3>2 DEF Carries
    <3> QED BY <1>1, <2>1, <3>3, OneHolder
  <2> QED BY <1>2, <1>3, <1>8, <2>2, <2>3
<1>9. CASE Level(t) = 5
  BY <1>1, <1>9 DEF Level
<1> QED BY <1>2, <1>4, <1>5, <1>6, <1>7, <1>8, <1>9

LEMMA NoCircle == Inv => NoDeadlock
<1> SUFFICES ASSUME Inv, NEW S \in (SUBSET Txs) \ {{}} PROVE \E t \in S : \A u \in S : ~WaitsFor(t, u)
  BY DEF NoDeadlock
<1>1. \A t \in S : Level(t) \in 0..5
  BY LevelsHold
<1>2. \E t \in S : \A u \in S : Level(u) <= Level(t)
  <2> DEFINE Reached(n) == \E t \in S : Level(t) = n
             Top == \E t \in S : \A u \in S : Level(u) <= Level(t)
  <2>1. Reached(5) => Top
    BY <1>1
  <2>2. ~Reached(5) /\ Reached(4) => Top
    BY <1>1
  <2>3. ~Reached(5) /\ ~Reached(4) /\ Reached(3) => Top
    BY <1>1
  <2>4. ~Reached(5) /\ ~Reached(4) /\ ~Reached(3) /\ Reached(2) => Top
    BY <1>1
  <2>5. ~Reached(5) /\ ~Reached(4) /\ ~Reached(3) /\ ~Reached(2) /\ Reached(1) => Top
    BY <1>1
  <2>6. ~Reached(5) /\ ~Reached(4) /\ ~Reached(3) /\ ~Reached(2) /\ ~Reached(1) => Top
    <3> SUFFICES ASSUME ~Reached(5), ~Reached(4), ~Reached(3), ~Reached(2), ~Reached(1) PROVE Top
      OBVIOUS
    <3>1. \A t \in S : Level(t) = 0
      BY <1>1
    <3>2. PICK t \in S : TRUE
      OBVIOUS
    <3> QED BY <3>1, <3>2
  <2> HIDE DEF Reached
  <2> QED BY <2>1, <2>2, <2>3, <2>4, <2>5, <2>6
<1>3. PICK t \in S : \A u \in S : Level(u) <= Level(t)
  BY <1>2
<1>4. ASSUME NEW u \in S, WaitsFor(t, u) PROVE FALSE
  <2>1. Level(u) > Level(t) /\ Level(u) <= Level(t)
    BY <1>3, <1>4, WaitsUpward
  <2> QED BY <1>1, <2>1
<1> QED BY <1>4

\* The lock order of CreateOrder, settle, expireOne and the back office's
\* saves: however many transactions run, no set of them waits in a circle.
THEOREM NoDeadlockEver == Spec => []NoDeadlock
<1> QED BY InvInit, InvStep, NoCircle, PTL DEF Spec

\* SKIP LOCKED in CreateOrder and settle: of the cards a transaction might
\* take, those it passes over are being edited by the back office, however
\* many checkouts, payments and expiries run beside it.
THEOREM OnlyEditsPassedOver == Spec => []PassesOverEditsOnly
<1>1. Inv => PassesOverEditsOnly
  <2> SUFFICES ASSUME Inv, NEW t \in Txs, At(t, "free"), NEW c \in Eligible(t),
                      NEW u \in Blockers(t, c, "exclusive")
               PROVE  tx[u].kind = "cardEdit"
    BY DEF PassesOverEditsOnly
  <2>1. /\ tx[t].kind \in {"checkout", "settle"} /\ tx[t].goods \in RowsOf(t) /\ tx[t].goods \in Goods
        /\ tx[t].kind = "settle" => tx[t].order \in RowsOf(t) /\ tx[t].order \in Orders
    <3>1. PastCoupon(t) /\ tx[t].kind \in {"checkout", "settle"} /\ TxFits(t) /\ Running(t)
      BY QueriesAfterGoods DEF Inv, Fits, At
    <3> QED BY <3>1 DEF PastCoupon, TxFits, OrderKinds
  <2>2. /\ c \in Cards /\ CardGoods[c] = tx[t].goods
        /\ owner[c] = None \/ (tx[t].kind = "settle" /\ owner[c] = tx[t].order)
    BY DEF Eligible, ShelfOf
  <2>3. u \in Txs /\ u # t /\ c \in RowsOf(u)
    <3>1. PICK h \in Holders(c) : h[1] = u /\ u # t
      BY DEF Blockers
    <3>2. h \in Txs \X Rows \X Modes
      BY <3>1 DEF Holders, Inv, TypeOK
    <3>3. u \in Txs /\ c \in Rows
      BY <2>2, <3>1, <3>2 DEF Rows
    <3> QED BY <3>1, <3>3 DEF RowsOf, Holds
  <2>4. Carries(u, c) /\ TxFits(u) /\ HoldsInOrder(u)
    BY <2>2, <2>3 DEF Inv, Fits, HoldsInOrder, InOrder
  <2>5. CASE tx[u].kind \in {"checkout", "settle"} /\ tx[u].at = 5 /\ owner[c] = None
               /\ CardGoods[c] = tx[u].goods
    <3>1. tx[u].goods \in RowsOf(u)
      BY <2>4, <2>5 DEF HoldsInOrder, PastCoupon
    <3> QED BY <2>1, <2>2, <2>3, <2>5, <3>1, OneWriter DEF Sharers
  <2>6. CASE owner[c] = tx[u].order /\ tx[u].order \in RowsOf(u)
    <3>1. owner[c] # None
      <4>1. RowsOf(u) \subseteq Rows
        BY DEF RowsOf
      <4> QED BY <2>6, <4>1, LocksAssumption
    <3> QED BY <2>1, <2>2, <2>3, <2>6, <3>1, OneHolder
  <2> QED BY <2>4, <2>5, <2>6 DEF Carries
<1> QED BY <1>1, InvInit, InvStep, PTL DEF Spec
=============================================================================
