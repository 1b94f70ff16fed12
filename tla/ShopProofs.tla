------------------------------ MODULE ShopProofs ------------------------------
(***************************************************************************)
(* Proofs about the shop: the ledger with the checkouts, payments and      *)
(* expiries of the storefront and the forms of the back office.            *)
(*                                                                         *)
(*   Part 1   type correctness and exact reservations                      *)
(*   Part 2   how one step may move one order, and from it that only paid  *)
(*            orders progress, that a recorded payment is never undone,    *)
(*            that no card is sold twice, and that a payment in time is    *)
(*            short of stock only because of a row lock                    *)
(*   Part 3   that coupon uses, sales_volume, the stock of manual goods    *)
(*            and the text of delivered orders come out right however      *)
(*            payments, expiry, edits and restarts interleave              *)
(*   Part 4   that all of this is the shop of ShopService: one step for    *)
(*            each move of an order, and none of them taken back           *)
(***************************************************************************)
EXTENDS BackOffice, FiniteSetTheorems, TLAPS

USE DEF Blank, Checking, Unpaid, Pending, Processing, Done, Failed, Short, Expired,
        AutoType, ManualType, Unsold, Sold, NoteShort, NoteInput

-----------------------------------------------------------------------------
(* Part 1.  Type correctness.                                              *)

LEMMA TypeInit == Init => TypeOK
<1> SUFFICES ASSUME Init PROVE TypeOK
  OBVIOUS
<1>1. \A g \in Goods : Cardinality({o \in Legacy : placed[o].gid = g}) \in Nat
  <2> TAKE g \in Goods
  <2>1. IsFiniteSet({o \in Legacy : placed[o].gid = g})
    BY LedgerAssumption, FS_Subset
  <2> QED BY <2>1, FS_CardinalityType
<1>2. inStock \in [Goods -> Nat]
  BY LedgerAssumption DEF Init, LedgerInit
<1>3. supply \in [Goods -> Nat]
  BY <1>1, <1>2 DEF Init, LedgerInit
<1>4. ret \in [Coupons -> Nat] /\ granted \in [Coupons -> Nat]
  BY LedgerAssumption DEF Init, LedgerInit
<1>5. placed \in [Orders -> Placements \cup {NoPlacement}]
  BY LedgerAssumption DEF Init, LedgerInit, Placements
<1>6. cgoods \in [Cards -> Goods]
  BY LedgerAssumption DEF Init, LedgerInit
<1>7. /\ desk \in [Desks -> Forms] /\ page \in [Goods -> Pages \cup {NoPage}]
  BY DEF Init, Idle, Forms, Statuses
<1>8. /\ status \in [Orders -> Statuses]
      /\ retBack \in [Orders -> 0..2]
      /\ owed \in [Orders -> BOOLEAN] /\ due \in [Orders -> BOOLEAN]
      /\ trade \in [Orders -> {"none", "gateway", "manual"}]
      /\ info \in [Orders -> SUBSET (Cards \cup {NoteShort, NoteInput})]
      /\ cstatus \in [Cards -> 0..2]
      /\ loop \in [Cards -> BOOLEAN] /\ gone \in [Cards -> BOOLEAN]
      /\ resv \in [Cards -> Orders \cup {NoOrder}]
      /\ rowLock \in [Cards -> {"free", "edit", "refused"}]
      /\ gtype \in [Goods -> {AutoType, ManualType}] /\ gopen \in [Goods -> BOOLEAN]
      /\ gdropped \in [Goods -> BOOLEAN]
      /\ sales \in [Goods -> Nat]
      /\ usable \in [Coupons -> BOOLEAN] /\ dropped \in [Coupons -> BOOLEAN]
      /\ paid \in [Orders -> {"none", "other", "exact"}]
      /\ sweep \in SUBSET Orders /\ booked \in SUBSET Orders
      /\ soldTo \in [Orders -> SUBSET Cards]
  BY DEF Init, LedgerInit, Statuses
<1> QED BY <1>2, <1>3, <1>4, <1>5, <1>6, <1>7, <1>8 DEF TypeOK, LedgerTypeOK

LEMMA RetakeType ==
  ASSUME TypeOK, NEW o \in Orders, RetakeCoupon(o)
  PROVE  retBack' \in [Orders -> 0..2] /\ ret' \in [Coupons -> Nat]
<1>1. retBack \in [Orders -> 0..2] /\ ret \in [Coupons -> Nat]
  BY DEF TypeOK, LedgerTypeOK
<1>2. CASE placed[o].coupon # NoCoupon /\ retBack[o] = 1
  <2>1. CASE Retakable(o)
    <3>1. retBack' = [retBack EXCEPT ![o] = 0] /\ ret' = [ret EXCEPT ![placed[o].coupon] = @ - 1]
      BY <1>2, <2>1 DEF RetakeCoupon
    <3>2. placed[o].coupon \in Coupons /\ ret[placed[o].coupon] \in Nat /\ ret[placed[o].coupon] > 0
      BY <1>1, <2>1 DEF Retakable
    <3> QED BY <1>1, <3>1, <3>2
  <2>2. CASE ~Retakable(o)
    <3>1. retBack' = [retBack EXCEPT ![o] = 2] /\ ret' = ret
      BY <1>2, <2>2 DEF RetakeCoupon
    <3> QED BY <1>1, <3>1
  <2> QED BY <2>1, <2>2
<1>3. CASE ~(placed[o].coupon # NoCoupon /\ retBack[o] = 1)
  BY <1>1, <1>3 DEF RetakeCoupon
<1> QED BY <1>2, <1>3

LEMMA TypeStep == TypeOK /\ [Next]_vars => TypeOK'
<1> SUFFICES ASSUME TypeOK, [Next]_vars PROVE TypeOK'
  OBVIOUS
<1> USE DEF TypeOK, LedgerTypeOK, orderVars, cardVars, goodsVars, couponVars, ghostVars,
            ledgerVars, deskVars
<1>1. ASSUME NEW o \in Orders, NEW g \in Goods, NEW n \in 1..MaxAmount, NEW k \in Coupons \cup {NoCoupon},
          BeginCheckout(o, g, n, k) /\ UNCHANGED deskVars
     PROVE  TypeOK'
  BY <1>1 DEF BeginCheckout, Placements, Statuses
<1>2. ASSUME NEW o \in Orders,
          PlaceOrder(o) /\ UNCHANGED deskVars
     PROVE  TypeOK'
  <2>1. placed[o] \in Placements
    BY <1>2 DEF PlaceOrder, Placements, NoPlacement
  <2>2. ret' \in [Coupons -> Nat]
    BY <1>2, <2>1 DEF PlaceOrder, TakeCouponUse
  <2>3. inStock' \in [Goods -> Nat]
    <3>1. CASE placed[o].typ = AutoType
      BY <1>2, <3>1 DEF PlaceOrder
    <3>2. CASE placed[o].typ = ManualType
      BY <1>2, <2>1, <3>2 DEF PlaceOrder, Placements
    <3> QED BY <1>2, <3>1, <3>2 DEF PlaceOrder
  <2>4. resv' \in [Cards -> Orders \cup {NoOrder}] /\ info' \in [Orders -> SUBSET (Cards \cup {NoteShort, NoteInput})]
    <3>1. CASE placed[o].typ = AutoType
      <4>1. resv \in [Cards -> Orders \cup {NoOrder}] /\ info \in [Orders -> SUBSET (Cards \cup {NoteShort, NoteInput})]
        OBVIOUS
      <4> HIDE DEF TypeOK, LedgerTypeOK
      <4>2. PICK P \in SUBSET FreeCards(placed[o].gid) :
               resv' = [c \in Cards |-> IF c \in P THEN o ELSE resv[c]]
        BY <1>2, <3>1 DEF PlaceOrder, AutoType, ManualType
      <4>3. info' = info
        BY <1>2, <3>1 DEF PlaceOrder, AutoType, ManualType
      <4> QED BY <4>1, <4>2, <4>3
    <3>2. CASE placed[o].typ = ManualType
      <4>1. resv' = resv /\ info' = [info EXCEPT ![o] = {NoteInput}]
        BY <1>2, <3>2 DEF PlaceOrder
      <4> QED BY <4>1
    <3> QED BY <1>2, <3>1, <3>2 DEF PlaceOrder
  <2> QED BY <1>2, <2>2, <2>3, <2>4 DEF PlaceOrder, Statuses
<1>3. ASSUME NEW o \in Orders,
          RefuseCheckout(o) /\ UNCHANGED deskVars
     PROVE  TypeOK'
  BY <1>3 DEF RefuseCheckout, Statuses
<1>4. ASSUME NEW o \in Orders,
          TakeManual(o) /\ UNCHANGED deskVars
     PROVE  TypeOK'
  <2>1. placed[o] \in Placements
    BY <1>4 DEF TakeManual, NoPlacement
  <2>2. inStock' \in [Goods -> Nat]
    <3>1. placed[o].gid \in Goods /\ placed[o].amt \in Nat /\ inStock \in [Goods -> Nat]
      BY <2>1, LedgerAssumption DEF Placements
    <3>2. CASE status[o] = Expired
      <4>1. /\ inStock[placed[o].gid] >= placed[o].amt
            /\ inStock' = [inStock EXCEPT ![placed[o].gid] = @ - placed[o].amt]
        BY <1>4, <3>2 DEF TakeManual
      <4> HIDE DEF TypeOK, LedgerTypeOK
      <4> QED BY <3>1, <4>1
    <3>3. CASE status[o] # Expired
      BY <1>4, <3>1, <3>3 DEF TakeManual
    <3> QED BY <3>2, <3>3
  <2>3. sales' \in [Goods -> Nat] /\ booked' \in SUBSET Orders
    BY <1>4, <2>1 DEF TakeManual, BookSale, Placements
  <2>4. retBack' \in [Orders -> 0..2] /\ ret' \in [Coupons -> Nat]
    BY <1>4, RetakeType DEF TakeManual
  <2>5. /\ status' \in [Orders -> Statuses]
        /\ trade' \in [Orders -> {"none", "gateway", "manual"}]
    BY <1>4 DEF TakeManual, Statuses
  <2> QED BY <1>4, <2>2, <2>3, <2>4, <2>5 DEF TakeManual
<1>5. ASSUME NEW o \in Orders,
          SettleShort(o) /\ UNCHANGED deskVars
     PROVE  TypeOK'
  BY <1>5, RetakeType DEF SettleShort, Statuses
<1>6. ASSUME NEW o \in Orders, NEW t \in {"gateway", "manual"},
          DeliverCards(o, t) /\ UNCHANGED deskVars
     PROVE  TypeOK'
  <2>1. placed[o] \in Placements
    BY <1>6 DEF DeliverCards, NoPlacement
  <2>2. sales' \in [Goods -> Nat] /\ booked' \in SUBSET Orders
    BY <1>6, <2>1 DEF DeliverCards, BookSale, Placements
  <2>3. retBack' \in [Orders -> 0..2] /\ ret' \in [Coupons -> Nat]
    BY <1>6, RetakeType DEF DeliverCards
  <2>4. /\ cstatus' \in [Cards -> 0..2] /\ resv' \in [Cards -> Orders \cup {NoOrder}]
        /\ info' \in [Orders -> SUBSET (Cards \cup {NoteShort, NoteInput})]
        /\ soldTo' \in [Orders -> SUBSET Cards]
    <3>1. PICK P \in Picks(o) :
             LET sold == {c \in P : ~loop[c]} IN
             /\ cstatus' = [c \in Cards |-> IF c \in sold THEN Sold ELSE cstatus[c]]
             /\ resv' = [c \in Cards |->
                           IF \/ c \in P
                              \/ resv[c] = o /\ cgoods[c] = placed[o].gid /\ cstatus[c] = Unsold
                           THEN NoOrder ELSE resv[c]]
             /\ info' = [info EXCEPT ![o] = P]
             /\ soldTo' = [soldTo EXCEPT ![o] = @ \cup sold]
      BY <1>6 DEF DeliverCards
    <3>2. P \subseteq Cards
      BY DEF Picks, Pickable, OnShelf
    <3> QED BY <3>1, <3>2
  <2> QED BY <1>6, <2>2, <2>3, <2>4 DEF DeliverCards, Statuses
<1>7. ASSUME NEW o \in Orders,
          ExpireOne(o) /\ UNCHANGED deskVars
     PROVE  TypeOK'
  <2>1. CASE status[o] = Unpaid
    <3>1. ret' \in [Coupons -> Nat]
      BY <1>7, <2>1 DEF ExpireOne, Expirable
    <3>2. inStock' \in [Goods -> Nat]
      <4>1. placed[o].amt \in Nat
        BY DEF Placements, NoPlacement
      <4> QED BY <1>7, <2>1, <4>1 DEF ExpireOne, Expirable
    <3>3. resv' \in [Cards -> Orders \cup {NoOrder}]
      BY <1>7, <2>1 DEF ExpireOne, Expirable
    <3>4. status' \in [Orders -> Statuses] /\ retBack' \in [Orders -> 0..2] /\ sweep' \in SUBSET Orders
      <4>1. /\ status' = [status EXCEPT ![o] = Expired] /\ retBack' = [retBack EXCEPT ![o] = 1]
            /\ sweep' = sweep \ {o}
        BY <1>7, <2>1 DEF ExpireOne, Expirable
      <4>2. Expired \in Statuses
        BY DEF Statuses
      <4> QED BY <4>1, <4>2
    <3> QED BY <1>7, <2>1, <3>1, <3>2, <3>3, <3>4 DEF ExpireOne, Expirable
  <2>2. CASE status[o] # Unpaid
    BY <1>7, <2>2 DEF ExpireOne, Expirable
  <2> QED BY <2>1, <2>2
<1>8. ASSUME NEW o \in Orders,
          GrowOld(o) /\ UNCHANGED deskVars
     PROVE  TypeOK'
  BY <1>8 DEF GrowOld
<1>9. ASSUME NEW o \in Orders, NEW amount \in {"other", "exact"},
          BuyerPays(o, amount) /\ UNCHANGED deskVars
     PROVE  TypeOK'
  BY <1>9 DEF BuyerPays
<1>10. CASE ListDue /\ UNCHANGED deskVars
  BY <1>10 DEF ListDue, Overdue
<1>11. CASE SweepFails /\ UNCHANGED deskVars
  BY <1>11 DEF SweepFails
<1>12. ASSUME NEW d \in Desks, NEW o \in Orders,
          ShowOrder(d, o)
     PROVE  TypeOK'
  <2>1. [Idle EXCEPT !.stage = "page", !.order = o, !.info = info[o]] \in Forms
    BY DEF Idle, Forms, Statuses
  <2> QED BY <1>12, <2>1 DEF ShowOrder
<1>13. ASSUME NEW d \in Desks, NEW to \in Statuses,
          PostOrder(d, to)
     PROVE  TypeOK'
  <2>1. desk[d].order \in Orders
    BY <1>13 DEF PostOrder, Idle, Forms
  <2>2. desk[d] \in [stage: {"page", "posted"}, order: Orders,
                      info: SUBSET (Cards \cup {NoteShort, NoteInput}),
                      prev: Statuses, to: Statuses, take: BOOLEAN]
    BY <1>13 DEF PostOrder, Idle, Forms
  <2>3. \A b \in BOOLEAN :
          [desk[d] EXCEPT !.stage = "posted", !.prev = status[desk[d].order], !.to = to, !.take = b] \in Forms
    BY <2>1, <2>2 DEF Forms
  <2>4. desk' \in [Desks -> Forms]
    BY <1>13, <2>1, <2>3 DEF PostOrder, TakesStock, Owes
  <2> QED BY <1>13, <2>4 DEF PostOrder
<1>14. ASSUME NEW d \in Desks,
          SaveOrder(d)
     PROVE  TypeOK'
  <2> DEFINE f == desk[d]
  <2>1. /\ f.order \in Orders /\ f.to \in Statuses /\ Idle \in Forms
        /\ f.info \in SUBSET (Cards \cup {NoteShort, NoteInput})
    BY <1>14 DEF SaveOrder, StillAsRead, Idle, Forms
  <2>2. status' \in [Orders -> Statuses] /\ desk' \in [Desks -> Forms]
    BY <1>14, <2>1 DEF SaveOrder, StillAsRead
  <2>3. info' \in [Orders -> SUBSET (Cards \cup {NoteShort, NoteInput})]
    BY <1>14, <2>1 DEF SaveOrder, StillAsRead
  <2>4. inStock' \in [Goods -> Nat] /\ owed' \in [Orders -> BOOLEAN]
    <3>1. placed[f.order].amt \in Nat
      BY <2>1 DEF Placements, NoPlacement
    <3>2. CASE f.take
      <4> DEFINE g == placed[f.order].gid
      <4>1. inStock[g] >= placed[f.order].amt /\ inStock' = [inStock EXCEPT ![g] = @ - placed[f.order].amt]
        BY <1>14, <3>2 DEF SaveOrder, StillAsRead
      <4>2. inStock' \in [Goods -> Nat]
        <5>1. CASE g \in Goods
          <6>1. inStock[g] - placed[f.order].amt \in Nat
            BY <3>1, <4>1, <5>1
          <6> QED BY <4>1, <6>1
        <5>2. CASE g \notin Goods
          BY <4>1, <5>2
        <5> QED BY <5>1, <5>2
      <4> QED BY <1>14, <3>2, <4>2 DEF SaveOrder, StillAsRead
    <3>3. CASE ~f.take
      BY <1>14, <2>1, <3>3 DEF SaveOrder, StillAsRead
    <3> QED BY <3>2, <3>3
  <2>5. resv' \in [Cards -> Orders \cup {NoOrder}]
    BY <1>14 DEF SaveOrder, StillAsRead
  <2> QED BY <1>14, <2>2, <2>3, <2>4, <2>5 DEF SaveOrder, StillAsRead
<1>15. ASSUME NEW d \in Desks,
          LeaveOrder(d)
     PROVE  TypeOK'
  BY <1>15 DEF LeaveOrder, Idle, Forms, Statuses
<1>16. ASSUME NEW c \in Cards, NEW g \in Goods, NEW l \in BOOLEAN,
          ImportCard(c, g, l)
     PROVE  TypeOK'
  BY <1>16 DEF ImportCard
<1>17. ASSUME NEW c \in Cards,
          LockCard(c)
     PROVE  TypeOK'
  BY <1>17 DEF LockCard
<1>18. ASSUME NEW c \in Cards, NEW g \in Goods, NEW l \in BOOLEAN, NEW s \in {Unsold, Sold},
          EditCard(c, g, l, s)
     PROVE  TypeOK'
  BY <1>18 DEF EditCard
<1>19. ASSUME NEW c \in Cards,
          DeleteOrRestoreCard(c)
     PROVE  TypeOK'
  BY <1>19 DEF DeleteOrRestoreCard
<1>20. ASSUME NEW c \in Cards,
          UnlockCard(c)
     PROVE  TypeOK'
  BY <1>20 DEF UnlockCard
<1>21. ASSUME NEW g \in Goods,
          ShowGoods(g)
     PROVE  TypeOK'
  BY <1>21 DEF ShowGoods, Pages
<1>22. ASSUME NEW g \in Goods, NEW delta \in {-1, 0, 1}, NEW open \in BOOLEAN, NEW typ \in {AutoType, ManualType},
          SaveGoods(g, delta, open, typ)
     PROVE  TypeOK'
  BY <1>22 DEF SaveGoods, Pages, NoPage
<1>23. ASSUME NEW g \in Goods,
          LeaveGoods(g)
     PROVE  TypeOK'
  BY <1>23 DEF LeaveGoods
<1>32. ASSUME NEW g \in Goods,
          DeleteOrRestoreGoods(g)
     PROVE  TypeOK'
  BY <1>32 DEF DeleteOrRestoreGoods
<1>24. ASSUME NEW k \in Coupons, NEW n \in 0..MaxUses, NEW on \in BOOLEAN,
          SaveCoupon(k, n, on)
     PROVE  TypeOK'
  <2>1. IsFiniteSet(UsesHeld(k))
    BY LedgerAssumption, FS_Subset DEF UsesHeld
  <2>2. n + Cardinality(UsesHeld(k)) \in Nat
    BY <2>1, FS_CardinalityType
  <2> QED BY <1>24, <2>2 DEF SaveCoupon
<1>25. ASSUME NEW k \in Coupons,
          DeleteOrRestoreCoupon(k)
     PROVE  TypeOK'
  BY <1>25 DEF DeleteOrRestoreCoupon
<1>26. CASE Restart
  BY <1>26 DEF Restart, Idle, Forms, Statuses
<1>27. CASE UNCHANGED vars
  BY <1>27 DEF vars
<1>28. ASSUME NEW o \in Orders, Complete(o) /\ UNCHANGED deskVars
      PROVE  TypeOK'
  BY <1>4, <1>5, <1>6, <1>28 DEF Complete
<1>29. ASSUME NEW o \in Orders, Redeliver(o) /\ UNCHANGED deskVars
      PROVE  TypeOK'
  <2>1. (IF trade[o] = "none" THEN "manual" ELSE trade[o]) \in {"gateway", "manual"}
    OBVIOUS
  <2> QED BY <1>6, <1>29, <2>1 DEF Redeliver
<1>30. CASE LedgerNext /\ UNCHANGED deskVars
  <2> HIDE DEF TypeOK, LedgerTypeOK
  <2>1. ASSUME NEW o \in Orders, NEW g \in Goods, NEW n \in 1..MaxAmount, NEW k \in Coupons \cup {NoCoupon},
               BeginCheckout(o, g, n, k)
        PROVE  TypeOK'
    BY <1>1, <1>30, <2>1
  <2>2. ASSUME NEW o \in Orders, PlaceOrder(o) \/ RefuseCheckout(o) PROVE TypeOK'
    BY <1>2, <1>3, <1>30, <2>2
  <2>3. ASSUME NEW o \in Orders, Complete(o) \/ Redeliver(o) PROVE TypeOK'
    BY <1>28, <1>29, <1>30, <2>3
  <2>4. ASSUME NEW o \in Orders, ExpireOne(o) \/ GrowOld(o) PROVE TypeOK'
    BY <1>7, <1>8, <1>30, <2>4
  <2>5. ASSUME NEW o \in Orders, NEW amount \in {"other", "exact"}, BuyerPays(o, amount)
        PROVE  TypeOK'
    BY <1>9, <1>30, <2>5
  <2>6. CASE ListDue \/ SweepFails
    BY <1>10, <1>11, <1>30, <2>6
  <2> QED BY <1>30, <2>1, <2>2, <2>3, <2>4, <2>5, <2>6 DEF LedgerNext
<1>31. CASE OwnerNext
  <2> HIDE DEF TypeOK, LedgerTypeOK
  <2>1. ASSUME NEW d \in Desks, OrdersPage(d) PROVE TypeOK'
    BY <1>12, <1>13, <1>14, <1>15, <2>1 DEF OrdersPage
  <2>2. ASSUME NEW c \in Cards, CardsPage(c) PROVE TypeOK'
    BY <1>16, <1>17, <1>18, <1>19, <1>20, <2>2 DEF CardsPage
  <2>3. ASSUME NEW g \in Goods, GoodsPage(g) PROVE TypeOK'
    BY <1>21, <1>22, <1>23, <1>32, <2>3 DEF GoodsPage
  <2>4. ASSUME NEW k \in Coupons, CouponsPage(k) PROVE TypeOK'
    BY <1>24, <1>25, <2>4 DEF CouponsPage
  <2> QED BY <1>31, <2>1, <2>2, <2>3, <2>4 DEF OwnerNext
<1> QED BY <1>26, <1>27, <1>30, <1>31 DEF Next

\* Every reachable state is well typed: no counter of the ledger (in_stock,
\* ret, sales_volume) ever goes below zero, every row a transaction leaves is
\* one the schema and the handlers allow.
THEOREM TypeCorrect == Spec => []TypeOK
<1>1. Init => TypeOK
  BY TypeInit
<1>2. TypeOK /\ [Next]_vars => TypeOK'
  BY TypeStep
<1> QED BY <1>1, <1>2, PTL DEF Spec

-----------------------------------------------------------------------------
(* Reservations.  Besides ReservationsExact the induction needs to know    *)
(* that a posted order form only makes a move that orderSave allows: a     *)
(* save that moved an unpaid order, or moved one out of 异常 without        *)
(* releasing its cards, would leave stray reservations behind.             *)

FormHonest(d) ==
    desk[d].stage = "posted" =>
        \/ desk[d].to = desk[d].prev
        \/ desk[d].prev \in Progress \ {Done} /\ desk[d].to \in Progress

FormsHonest == \A d \in Desks : FormHonest(d)

LEMMA FormsHonestInit == Init => FormsHonest
BY DEF Init, FormsHonest, FormHonest, Idle

LEMMA FormsHonestStep == TypeOK /\ FormsHonest /\ [Next]_vars => FormsHonest'
<1> SUFFICES ASSUME TypeOK, FormsHonest, [Next]_vars, NEW e \in Desks
             PROVE  FormHonest(e)'
  BY DEF FormsHonest
<1>1. FormHonest(e)
  BY DEF FormsHonest
<1>2. CASE UNCHANGED desk
  BY <1>1, <1>2 DEF FormHonest
<1>3. ASSUME NEW d \in Desks, NEW o \in Orders, ShowOrder(d, o)
      PROVE  FormHonest(e)'
  BY <1>1, <1>3 DEF ShowOrder, FormHonest, TypeOK, Idle
<1>4. ASSUME NEW d \in Desks, NEW to \in Statuses, PostOrder(d, to)
      PROVE  FormHonest(e)'
  <2>1. CASE e # d
    BY <1>1, <1>4, <2>1 DEF PostOrder, FormHonest, TypeOK
  <2>2. CASE e = d
    BY <1>4, <2>2 DEF PostOrder, MayMove, FormHonest, TypeOK, Progress
  <2> QED BY <2>1, <2>2
<1>5. ASSUME NEW d \in Desks, SaveOrder(d) \/ LeaveOrder(d)
      PROVE  FormHonest(e)'
  BY <1>1, <1>5 DEF SaveOrder, StillAsRead, LeaveOrder, FormHonest, TypeOK, Idle
<1>6. CASE Restart
  BY <1>1, <1>6 DEF Restart, FormHonest, Idle
<1>7. CASE OwnerNext
  <2>1. ASSUME NEW d \in Desks, OrdersPage(d) PROVE FormHonest(e)'
    BY <1>3, <1>4, <1>5, <2>1 DEF OrdersPage
  <2>2. ASSUME NEW c \in Cards, CardsPage(c) PROVE UNCHANGED desk
    BY <2>2 DEF CardsPage, ImportCard, LockCard, EditCard, DeleteOrRestoreCard, UnlockCard, deskVars
  <2>3. ASSUME NEW g \in Goods, GoodsPage(g) PROVE UNCHANGED desk
    BY <2>3 DEF GoodsPage, ShowGoods, SaveGoods, DeleteOrRestoreGoods, LeaveGoods, deskVars
  <2>4. ASSUME NEW k \in Coupons, CouponsPage(k) PROVE UNCHANGED desk
    BY <2>4 DEF CouponsPage, SaveCoupon, DeleteOrRestoreCoupon, deskVars
  <2> QED BY <1>2, <1>7, <2>1, <2>2, <2>3, <2>4 DEF OwnerNext
<1> QED BY <1>2, <1>6, <1>7 DEF Next, vars, deskVars

\* What a reservation depends on.
resvVars == <<resv, cstatus, gone, rowLock, cgoods, placed, status>>

LEMMA ReservationsFrame ==
  ASSUME ReservationsExact, UNCHANGED resvVars
  PROVE  ReservationsExact'
BY DEF ReservationsExact, ReservationValid, ReservationFull, Reserved, resvVars

\* A step that takes no reservation away from the unpaid, and only moves
\* orders that hold none, keeps them all.
LEMMA ReservationsKept ==
  ASSUME TypeOK, ReservationsExact,
         UNCHANGED <<resv, cstatus, gone, rowLock, cgoods>>,
         \A q \in Orders : \/ status'[q] = status[q] /\ placed'[q] = placed[q]
                           \/ status[q] \notin {Unpaid, Short} /\ status'[q] # Unpaid
  PROVE  ReservationsExact'
<1>1. ASSUME NEW c \in Cards PROVE ReservationValid(c)'
  <2>1. ReservationValid(c)
    BY DEF ReservationsExact
  <2>2. resv[c] # NoOrder => resv[c] \in Orders
    BY DEF TypeOK, LedgerTypeOK
  <2> QED BY <2>1, <2>2 DEF ReservationValid
<1>2. ASSUME NEW q \in Orders PROVE ReservationFull(q)'
  <2>1. ReservationFull(q)
    BY DEF ReservationsExact
  <2> QED BY <2>1 DEF ReservationFull, Reserved
<1> QED BY <1>1, <1>2 DEF ReservationsExact

LEMMA ReservationsPlace ==
  ASSUME TypeOK, ReservationsExact, NEW o \in Orders, PlaceOrder(o)
  PROVE  ReservationsExact'
<1> DEFINE p == placed[o]
<1>1. \A c \in Cards : resv[c] # o
  BY LedgerAssumption DEF ReservationsExact, ReservationValid, PlaceOrder
<1>2. CASE p.typ = AutoType
  <2>1. PICK P \in SUBSET FreeCards(p.gid) :
              /\ Cardinality(P) = p.amt
              /\ resv' = [c \in Cards |-> IF c \in P THEN o ELSE resv[c]]
    BY <1>2 DEF PlaceOrder
  <2>2. UNCHANGED <<cstatus, gone, rowLock, cgoods, placed>> /\ status' = [status EXCEPT ![o] = Unpaid]
    BY DEF PlaceOrder
  <2>3. ASSUME NEW c \in Cards PROVE ReservationValid(c)'
    <3>1. ReservationValid(c)
      BY DEF ReservationsExact
    <3>2. CASE c \in P
      BY <1>2, <2>1, <2>2, <3>2 DEF ReservationValid, FreeCards, OnShelf, TypeOK, LedgerTypeOK
    <3>3. CASE c \notin P
      BY <1>1, <2>1, <2>2, <3>1, <3>3 DEF ReservationValid, TypeOK, LedgerTypeOK
    <3> QED BY <3>2, <3>3
  <2>4. ASSUME NEW q \in Orders PROVE ReservationFull(q)'
    <3>1. CASE q = o
      <4>1. Reserved(o)' = P
        BY <1>1, <2>1 DEF Reserved, FreeCards, OnShelf
      <4> QED BY <2>1, <2>2, <3>1, <4>1 DEF ReservationFull
    <3>2. CASE q # o
      <4>1. Reserved(q)' = Reserved(q)
        BY <2>1, <3>2, LedgerAssumption DEF Reserved, FreeCards, OnShelf
      <4>2. ReservationFull(q)
        BY DEF ReservationsExact
      <4> QED BY <2>2, <3>2, <4>1, <4>2 DEF ReservationFull, TypeOK, LedgerTypeOK
    <3> QED BY <3>1, <3>2
  <2> QED BY <2>3, <2>4 DEF ReservationsExact
<1>3. CASE p.typ = ManualType
  <2>1. UNCHANGED <<resv, cstatus, gone, rowLock, cgoods, placed>> /\ status' = [status EXCEPT ![o] = Unpaid]
    BY <1>3 DEF PlaceOrder
  <2>2. ASSUME NEW c \in Cards PROVE ReservationValid(c)'
    <3>1. ReservationValid(c) /\ resv[c] # o
      BY <1>1 DEF ReservationsExact
    <3> QED BY <2>1, <3>1 DEF ReservationValid, TypeOK, LedgerTypeOK
  <2>3. ASSUME NEW q \in Orders PROVE ReservationFull(q)'
    <3>1. ReservationFull(q)
      BY DEF ReservationsExact
    <3> QED BY <1>3, <2>1, <3>1 DEF ReservationFull, Reserved, TypeOK, LedgerTypeOK
  <2> QED BY <2>2, <2>3 DEF ReservationsExact
<1> QED BY <1>2, <1>3 DEF PlaceOrder

\* An order that gives back every card it held and is no longer unpaid.
LEMMA ReservationsReleased ==
  ASSUME TypeOK, ReservationsExact, NEW o \in Orders,
         UNCHANGED <<gone, rowLock, cgoods, placed>>,
         \A q \in Orders \ {o} : status'[q] = status[q],
         status'[o] # Unpaid,
         \A c \in Cards : /\ resv'[c] \in {resv[c], NoOrder}
                          /\ resv[c] = o => resv'[c] = NoOrder
                          /\ resv[c] \notin {o, NoOrder} => resv'[c] = resv[c] /\ cstatus'[c] = cstatus[c]
  PROVE  ReservationsExact'
<1>1. ASSUME NEW c \in Cards PROVE ReservationValid(c)'
  <2>1. ReservationValid(c)
    BY DEF ReservationsExact
  <2>2. resv[c] \in Orders \cup {NoOrder}
    BY DEF TypeOK, LedgerTypeOK
  <2> QED BY <2>1, <2>2 DEF ReservationValid
<1>2. ASSUME NEW q \in Orders PROVE ReservationFull(q)'
  <2>1. CASE q = o
    BY <2>1 DEF ReservationFull
  <2>2. CASE q # o
    <3>1. Reserved(q)' = Reserved(q)
      BY <2>2, LedgerAssumption DEF Reserved
    <3>2. ReservationFull(q)
      BY DEF ReservationsExact
    <3> QED BY <2>2, <3>1, <3>2 DEF ReservationFull
  <2> QED BY <2>1, <2>2
<1> QED BY <1>1, <1>2 DEF ReservationsExact

LEMMA ReservationsDeliver ==
  ASSUME TypeOK, ReservationsExact, NEW o \in Orders, NEW t, DeliverCards(o, t)
  PROVE  ReservationsExact'
<1>1. PICK P \in Picks(o) :
        LET sold == {c \in P : ~loop[c]} IN
        /\ cstatus' = [c \in Cards |-> IF c \in sold THEN Sold ELSE cstatus[c]]
        /\ resv' = [c \in Cards |->
                       IF \/ c \in P
                          \/ resv[c] = o /\ cgoods[c] = placed[o].gid /\ cstatus[c] = Unsold
                       THEN NoOrder ELSE resv[c]]
  BY DEF DeliverCards
<1>2. \A c \in P : resv[c] \in {o, NoOrder}
  BY DEF Picks, Pickable
<1>3. ASSUME NEW c \in Cards
      PROVE  /\ resv'[c] \in {resv[c], NoOrder}
             /\ resv[c] = o => resv'[c] = NoOrder
             /\ resv[c] \notin {o, NoOrder} => resv'[c] = resv[c] /\ cstatus'[c] = cstatus[c]
  <2>1. ReservationValid(c)
    BY DEF ReservationsExact
  <2> QED BY <1>1, <1>2, <2>1, LedgerAssumption DEF ReservationValid
<1>4. UNCHANGED <<gone, rowLock, cgoods, placed>> /\ status' = [status EXCEPT ![o] = Done]
  BY DEF DeliverCards
<1> QED BY <1>3, <1>4, ReservationsReleased DEF TypeOK, LedgerTypeOK

LEMMA ReservationsTakeManual ==
  ASSUME TypeOK, ReservationsExact, NEW o \in Orders, TakeManual(o)
  PROVE  ReservationsExact'
<1>1. \A c \in Cards : resv[c] # o
  BY LedgerAssumption DEF ReservationsExact, ReservationValid, TakeManual
<1>2. /\ UNCHANGED <<resv, cstatus, gone, rowLock, cgoods, placed>>
      /\ status' = [status EXCEPT ![o] = Pending]
  BY DEF TakeManual, cardVars
<1> QED BY <1>1, <1>2, ReservationsReleased DEF TypeOK, LedgerTypeOK

\* An order that goes to 异常 keeps what it still reserves.
LEMMA ReservationsShort ==
  ASSUME TypeOK, ReservationsExact, NEW o \in Orders, SettleShort(o)
  PROVE  ReservationsExact'
<1>1. /\ UNCHANGED <<resv, cstatus, gone, rowLock, cgoods, placed>>
      /\ status' = [status EXCEPT ![o] = Short]
  BY DEF SettleShort, cardVars
<1>2. ASSUME NEW c \in Cards PROVE ReservationValid(c)'
  <2>1. ReservationValid(c)
    BY DEF ReservationsExact
  <2> QED BY <1>1, <2>1 DEF ReservationValid, TypeOK, LedgerTypeOK
<1>3. ASSUME NEW q \in Orders PROVE ReservationFull(q)'
  <2>1. ReservationFull(q)
    BY DEF ReservationsExact
  <2> QED BY <1>1, <2>1 DEF ReservationFull, Reserved, TypeOK, LedgerTypeOK
<1> QED BY <1>2, <1>3 DEF ReservationsExact

LEMMA ReservationsExpire ==
  ASSUME TypeOK, ReservationsExact, NEW o \in Orders, ExpireOne(o)
  PROVE  ReservationsExact'
<1>1. CASE status[o] = Unpaid
  <2>1. /\ UNCHANGED <<cstatus, gone, rowLock, cgoods, placed>>
        /\ status' = [status EXCEPT ![o] = Expired]
        /\ resv' = [c \in Cards |-> IF resv[c] = o /\ cgoods[c] = placed[o].gid THEN NoOrder ELSE resv[c]]
    BY <1>1 DEF ExpireOne, Expirable
  <2>2. ASSUME NEW c \in Cards
        PROVE  /\ resv'[c] \in {resv[c], NoOrder}
               /\ resv[c] = o => resv'[c] = NoOrder
               /\ resv[c] \notin {o, NoOrder} => resv'[c] = resv[c] /\ cstatus'[c] = cstatus[c]
    <3>1. ReservationValid(c)
      BY DEF ReservationsExact
    <3> QED BY <2>1, <3>1, LedgerAssumption DEF ReservationValid
  <2> QED BY <2>1, <2>2, ReservationsReleased DEF TypeOK, LedgerTypeOK
<1>2. CASE status[o] # Unpaid
  BY <1>2, ReservationsFrame DEF ExpireOne, Expirable, resvVars
<1> QED BY <1>1, <1>2

LEMMA ReservationsSave ==
  ASSUME TypeOK, ReservationsExact, FormsHonest, NEW d \in Desks, SaveOrder(d)
  PROVE  ReservationsExact'
<1> DEFINE f == desk[d]
           o == f.order
<1>1. o \in Orders
  BY DEF SaveOrder, StillAsRead, TypeOK, Forms, Idle
<1>2. /\ UNCHANGED <<cstatus, gone, rowLock, cgoods, placed>>
      /\ status[o] = f.prev /\ status' = [status EXCEPT ![o] = f.to]
      /\ resv' = [c \in Cards |->
                     IF ReleasesReservations(o, f.prev, f.to) /\ resv[c] = o /\ cstatus[c] = Unsold
                     THEN NoOrder ELSE resv[c]]
  BY DEF SaveOrder, StillAsRead
<1>3. \/ f.to = f.prev
      \/ f.prev \in Progress \ {Done} /\ f.to \in Progress
  BY Zenon DEF FormsHonest, FormHonest, SaveOrder, StillAsRead
<1>4. CASE f.to = f.prev
  <2>1. status' = status /\ resv' = resv
    BY <1>1, <1>2, <1>4 DEF ReleasesReservations, TypeOK, LedgerTypeOK
  <2> QED BY <1>2, <2>1, ReservationsFrame DEF resvVars
<1>5. CASE f.to # f.prev
  <2>1. ASSUME NEW c \in Cards
        PROVE  /\ resv'[c] \in {resv[c], NoOrder}
               /\ resv[c] = o => resv'[c] = NoOrder
               /\ resv[c] \notin {o, NoOrder} => resv'[c] = resv[c] /\ cstatus'[c] = cstatus[c]
    <3>1. ReservationValid(c)
      BY DEF ReservationsExact
    <3> QED BY <1>1, <1>2, <1>3, <1>5, <3>1, LedgerAssumption DEF ReservationValid, ReleasesReservations, Progress
  <2>2. status'[o] # Unpaid /\ \A q \in Orders \ {o} : status'[q] = status[q]
    BY <1>1, <1>2, <1>3, <1>5 DEF Progress, TypeOK, LedgerTypeOK
  <2> QED BY <1>1, <1>2, <2>1, <2>2, ReservationsReleased
<1> QED BY <1>4, <1>5

\* The back office touches only cards that nobody reserved.
LEMMA ReservationsCards ==
  ASSUME TypeOK, ReservationsExact, NEW c \in Cards, CardsPage(c)
  PROVE  ReservationsExact'
<1>1. UNCHANGED <<resv, placed, status>>
  BY DEF CardsPage, ImportCard, LockCard, EditCard, DeleteOrRestoreCard, UnlockCard, orderVars
<1>2. ASSUME NEW e \in Cards, e # c
      PROVE  UNCHANGED <<cstatus[e], gone[e], rowLock[e], cgoods[e]>>
  BY <1>2 DEF CardsPage, ImportCard, LockCard, EditCard, DeleteOrRestoreCard, UnlockCard, TypeOK, LedgerTypeOK
<1>3. ReservationValid(c)'
  <2>1. ReservationValid(c)
    BY DEF ReservationsExact
  <2>2. CASE resv[c] = NoOrder
    BY <1>1, <2>2 DEF ReservationValid
  <2>3. CASE resv[c] # NoOrder
    BY <1>1, <2>1, <2>3 DEF ReservationValid, CardsPage, ImportCard, LockCard, EditCard,
       DeleteOrRestoreCard, UnlockCard, TypeOK, LedgerTypeOK
  <2> QED BY <2>2, <2>3
<1>4. ASSUME NEW e \in Cards PROVE ReservationValid(e)'
  <2>1. ReservationValid(e)
    BY DEF ReservationsExact
  <2> QED BY <1>1, <1>2, <1>3, <2>1 DEF ReservationValid
<1> QED BY <1>1, <1>4 DEF ReservationsExact, ReservationFull, Reserved

LEMMA ReservationsStep ==
  TypeOK /\ FormsHonest /\ ReservationsExact /\ [Next]_vars => ReservationsExact'
<1> SUFFICES ASSUME TypeOK, FormsHonest, ReservationsExact, [Next]_vars
             PROVE  ReservationsExact'
  OBVIOUS
<1>1. ASSUME NEW o \in Orders, NEW g \in Goods, NEW n \in 1..MaxAmount, NEW k \in Coupons \cup {NoCoupon},
             BeginCheckout(o, g, n, k)
      PROVE  ReservationsExact'
  BY <1>1, ReservationsKept DEF BeginCheckout, cardVars, TypeOK, LedgerTypeOK
<1>2. ASSUME NEW o \in Orders, RefuseCheckout(o)
      PROVE  ReservationsExact'
  BY <1>2, ReservationsKept DEF RefuseCheckout, cardVars, TypeOK, LedgerTypeOK
<1>3. ASSUME NEW o \in Orders, Complete(o) \/ Redeliver(o)
      PROVE  ReservationsExact'
  BY <1>3, ReservationsDeliver, ReservationsTakeManual, ReservationsShort DEF Complete, Redeliver
<1>4. CASE UNCHANGED resvVars
  BY <1>4, ReservationsFrame
<1>5. CASE LedgerNext
  <2>1. ASSUME NEW o \in Orders, GrowOld(o) \/ \E amount \in {"other", "exact"} : BuyerPays(o, amount)
        PROVE  UNCHANGED resvVars
    BY <2>1 DEF GrowOld, BuyerPays, resvVars, orderVars, cardVars
  <2>2. ASSUME ListDue \/ SweepFails
        PROVE  UNCHANGED resvVars
    BY <2>2 DEF ListDue, SweepFails, resvVars, orderVars, cardVars
  <2> QED BY <1>1, <1>2, <1>3, <1>4, <1>5, <2>1, <2>2, ReservationsPlace, ReservationsExpire DEF LedgerNext
<1>6. CASE OwnerNext
  <2>1. ASSUME NEW d \in Desks, OrdersPage(d), ~SaveOrder(d)
        PROVE  UNCHANGED resvVars
    BY <2>1 DEF OrdersPage, ShowOrder, PostOrder, LeaveOrder, resvVars, ledgerVars, orderVars, cardVars
  <2>2. ASSUME NEW g \in Goods, GoodsPage(g)
        PROVE  UNCHANGED resvVars
    BY <2>2 DEF GoodsPage, ShowGoods, SaveGoods, DeleteOrRestoreGoods, LeaveGoods, resvVars, ledgerVars, orderVars, cardVars
  <2>3. ASSUME NEW k \in Coupons, CouponsPage(k)
        PROVE  UNCHANGED resvVars
    BY <2>3 DEF CouponsPage, SaveCoupon, DeleteOrRestoreCoupon, resvVars, orderVars, cardVars
  <2> QED BY <1>4, <1>6, <2>1, <2>2, <2>3, ReservationsSave, ReservationsCards DEF OwnerNext
<1>7. CASE Restart
  <2>1. /\ UNCHANGED <<resv, cstatus, gone, cgoods>>
        /\ rowLock' = [c \in Cards |-> "free"]
        /\ \A q \in Orders : \/ status'[q] = status[q] /\ placed'[q] = placed[q]
                             \/ status[q] = Checking /\ status'[q] = Blank
    BY <1>7 DEF Restart
  <2>2. ASSUME NEW c \in Cards PROVE ReservationValid(c)'
    <3>1. ReservationValid(c) /\ (resv[c] # NoOrder => resv[c] \in Orders)
      BY DEF ReservationsExact, TypeOK, LedgerTypeOK
    <3> QED BY <2>1, <3>1 DEF ReservationValid
  <2>3. ASSUME NEW q \in Orders PROVE ReservationFull(q)'
    BY <2>1 DEF ReservationsExact, ReservationFull, Reserved
  <2> QED BY <2>2, <2>3 DEF ReservationsExact
<1>8. CASE UNCHANGED vars
  BY <1>4, <1>8 DEF vars, ledgerVars, orderVars, cardVars, resvVars
<1> QED BY <1>5, <1>6, <1>7, <1>8 DEF Next

LEMMA ReservationsInit == Init => ReservationsExact
BY LedgerAssumption DEF Init, LedgerInit, ReservationsExact, ReservationValid, ReservationFull

\* In every reachable state a reserved card is an unsold card on the shelf of
\* its order's goods, its order is unpaid or in 异常, and an unpaid order
\* holds exactly the cards it bought.
THEOREM ReservationsAlwaysExact == Spec => []ReservationsExact
<1>1. Init => TypeOK /\ FormsHonest /\ ReservationsExact
  BY TypeInit, FormsHonestInit, ReservationsInit
<1>2. TypeOK /\ FormsHonest /\ ReservationsExact /\ [Next]_vars
      => (TypeOK /\ FormsHonest /\ ReservationsExact)'
  BY TypeStep, FormsHonestStep, ReservationsStep
<1> QED BY <1>1, <1>2, PTL DEF Spec

-----------------------------------------------------------------------------
(* Part 2.  Every step treats each order in one of four ways.              *)

Rests(o) ==
    /\ status'[o] = status[o] /\ trade'[o] = trade[o]
    /\ paid[o] = "exact" => paid'[o] = "exact"

WaitsForPayment(o) ==
    /\ status[o] \notin Progress /\ status'[o] \notin Progress
    /\ trade'[o] = trade[o] /\ paid'[o] = paid[o]

Settles(o) ==
    /\ status[o] \in {Unpaid, Expired, Short} /\ status'[o] \in Progress
    /\ paid[o] = "exact" \/ status[o] = Short
    /\ trade'[o] # "none" /\ paid'[o] = paid[o]

IsMoved(o) ==
    /\ status[o] \in Progress \ {Done} /\ status'[o] \in Progress
    /\ trade'[o] = trade[o] /\ paid'[o] = paid[o]

Moves(o) == Rests(o) \/ WaitsForPayment(o) \/ Settles(o) \/ IsMoved(o)

\* A step that changes one order only leaves the others at rest.
LEMMA OthersRest ==
  ASSUME TypeOK, NEW o \in Orders, NEW q \in Orders, q # o, UNCHANGED paid,
         \E s : status' = [status EXCEPT ![o] = s],
         trade' = trade \/ \E t : trade' = [trade EXCEPT ![o] = t]
  PROVE  Rests(q)
BY DEF Rests, TypeOK, LedgerTypeOK

LEMMA SettlementMoves ==
  ASSUME TypeOK, NEW o \in Orders, NEW q \in Orders, Complete(o) \/ Redeliver(o)
  PROVE  Moves(q)
<1>1. /\ UNCHANGED paid
      /\ \E s \in {Done, Pending, Short} : status' = [status EXCEPT ![o] = s]
      /\ \E t : t # "none" /\ trade' = [trade EXCEPT ![o] = t]
  <2>1. CASE \E t \in {"gateway", IF trade[o] = "none" THEN "manual" ELSE trade[o]} : DeliverCards(o, t)
    BY <2>1 DEF DeliverCards
  <2>2. CASE TakeManual(o)
    BY <2>2 DEF TakeManual
  <2>3. CASE SettleShort(o)
    BY <2>3 DEF SettleShort
  <2> QED BY <2>1, <2>2, <2>3 DEF Complete, Redeliver
<1>2. /\ status[o] \in {Unpaid, Expired, Short}
      /\ paid[o] = "exact" \/ status[o] = Short
  BY DEF Complete, Redeliver, Payable
<1>3. CASE q = o
  BY <1>1, <1>2, <1>3 DEF Moves, Settles, Progress, TypeOK, LedgerTypeOK
<1>4. CASE q # o
  BY <1>1, <1>4, OthersRest DEF Moves
<1> QED BY <1>3, <1>4

LEMMA CheckoutMoves ==
  ASSUME TypeOK, NEW o \in Orders, NEW q \in Orders,
         \/ \E g \in Goods, n \in 1..MaxAmount, k \in Coupons \cup {NoCoupon} : BeginCheckout(o, g, n, k)
         \/ PlaceOrder(o) \/ RefuseCheckout(o) \/ ExpireOne(o)
  PROVE  Moves(q)
<1>1. UNCHANGED <<trade, paid>>
  BY DEF BeginCheckout, PlaceOrder, RefuseCheckout, ExpireOne
<1>2. \/ UNCHANGED status
      \/ /\ status[o] \in {Blank, Checking, Unpaid}
         /\ \E s \in {Blank, Checking, Unpaid, Expired} : status' = [status EXCEPT ![o] = s]
  BY DEF BeginCheckout, PlaceOrder, RefuseCheckout, ExpireOne, Expirable
<1>3. CASE UNCHANGED status
  BY <1>1, <1>3 DEF Moves, Rests
<1>4. CASE status' # status /\ q = o
  BY <1>1, <1>2, <1>4 DEF Moves, WaitsForPayment, Progress, TypeOK, LedgerTypeOK
<1>5. CASE status' # status /\ q # o
  BY <1>1, <1>2, <1>5, OthersRest DEF Moves
<1> QED BY <1>3, <1>4, <1>5

LEMMA DeskMoves ==
  ASSUME TypeOK, FormsHonest, NEW d \in Desks, NEW q \in Orders, SaveOrder(d)
  PROVE  Moves(q)
<1> DEFINE o == desk[d].order
<1>1. o \in Orders
  BY DEF SaveOrder, TypeOK, Forms, Idle
<1>2. /\ UNCHANGED <<trade, paid>>
      /\ status[o] = desk[d].prev /\ status' = [status EXCEPT ![o] = desk[d].to]
  BY DEF SaveOrder, StillAsRead
<1>3. \/ desk[d].to = desk[d].prev
      \/ desk[d].prev \in Progress \ {Done} /\ desk[d].to \in Progress
  BY Zenon DEF FormsHonest, FormHonest, SaveOrder
<1>4. CASE q # o
  BY <1>1, <1>2, <1>4, OthersRest DEF Moves
<1>5. CASE q = o
  BY <1>1, <1>2, <1>3, <1>5 DEF Moves, Rests, IsMoved, TypeOK, LedgerTypeOK
<1> QED BY <1>4, <1>5

LEMMA EveryStepMoves ==
  ASSUME TypeOK, FormsHonest, [Next]_vars, NEW q \in Orders
  PROVE  Moves(q)
<1>1. CASE UNCHANGED <<status, trade, paid>>
  BY <1>1 DEF Moves, Rests
<1>2. CASE LedgerNext
  <2>1. ASSUME NEW o \in Orders, NEW amount \in {"other", "exact"}, BuyerPays(o, amount)
        PROVE  Moves(q)
    BY <2>1 DEF BuyerPays, Moves, Rests, orderVars, TypeOK, LedgerTypeOK
  <2>2. ASSUME NEW o \in Orders, GrowOld(o)
        PROVE  Moves(q)
    BY <1>1, <2>2 DEF GrowOld
  <2>3. ASSUME ListDue \/ SweepFails
        PROVE  Moves(q)
    BY <1>1, <2>3 DEF ListDue, SweepFails, orderVars
  <2> QED BY <1>2, <2>1, <2>2, <2>3, SettlementMoves, CheckoutMoves DEF LedgerNext
<1>3. CASE OwnerNext
  <2>1. ASSUME NEW d \in Desks, OrdersPage(d), ~SaveOrder(d)
        PROVE  UNCHANGED <<status, trade, paid>>
    BY <2>1 DEF OrdersPage, ShowOrder, PostOrder, LeaveOrder, ledgerVars, orderVars
  <2>2. ASSUME NEW c \in Cards, CardsPage(c)
        PROVE  UNCHANGED <<status, trade, paid>>
    BY <2>2 DEF CardsPage, ImportCard, LockCard, EditCard, DeleteOrRestoreCard, UnlockCard, orderVars
  <2>3. ASSUME NEW g \in Goods, GoodsPage(g)
        PROVE  UNCHANGED <<status, trade, paid>>
    BY <2>3 DEF GoodsPage, ShowGoods, SaveGoods, DeleteOrRestoreGoods, LeaveGoods, ledgerVars, orderVars
  <2>4. ASSUME NEW k \in Coupons, CouponsPage(k)
        PROVE  UNCHANGED <<status, trade, paid>>
    BY <2>4 DEF CouponsPage, SaveCoupon, DeleteOrRestoreCoupon, orderVars
  <2> QED BY <1>1, <1>3, <2>1, <2>2, <2>3, <2>4, DeskMoves DEF OwnerNext
<1>4. CASE Restart
  BY <1>4 DEF Restart, Moves, Rests, WaitsForPayment, Progress, TypeOK, LedgerTypeOK
<1>5. CASE UNCHANGED vars
  BY <1>1, <1>5 DEF vars, ledgerVars, orderVars
<1> QED BY <1>2, <1>3, <1>4, <1>5 DEF Next

-----------------------------------------------------------------------------
(* Payments.                                                               *)

\* The converse half of OnlyPaidOrdersProgress: an order whose payment is on
\* record is past the waiting states.
RecordedMeansProgress == \A o \in Orders : trade[o] # "none" => status[o] \in Progress

LEMMA PaymentStep ==
  TypeOK /\ FormsHonest /\ OnlyPaidOrdersProgress /\ RecordedMeansProgress /\ [Next]_vars
  => (OnlyPaidOrdersProgress /\ RecordedMeansProgress)'
<1> SUFFICES ASSUME TypeOK, FormsHonest, OnlyPaidOrdersProgress, RecordedMeansProgress, [Next]_vars,
                    NEW o \in Orders
             PROVE  /\ status'[o] \in Progress => paid'[o] = "exact" /\ trade'[o] # "none"
                    /\ trade'[o] # "none" => status'[o] \in Progress
  BY DEF OnlyPaidOrdersProgress, RecordedMeansProgress
<1>1. Moves(o)
  BY EveryStepMoves
<1> QED BY <1>1 DEF Moves, Rests, WaitsForPayment, Settles, IsMoved, OnlyPaidOrdersProgress,
           RecordedMeansProgress, Progress

LEMMA PaymentInit == Init => OnlyPaidOrdersProgress /\ RecordedMeansProgress
BY LedgerAssumption DEF Init, LedgerInit, OnlyPaidOrdersProgress, RecordedMeansProgress, Progress

\* settle, orderSave and ExpireDue together: an order past the waiting states
\* has been paid its exact amount, whatever the owner and the buyers do.
THEOREM OnlyPaidAlwaysProgress == Spec => []OnlyPaidOrdersProgress
<1>1. Init => TypeOK /\ FormsHonest /\ OnlyPaidOrdersProgress /\ RecordedMeansProgress
  BY TypeInit, FormsHonestInit, PaymentInit
<1>2. TypeOK /\ FormsHonest /\ OnlyPaidOrdersProgress /\ RecordedMeansProgress /\ [Next]_vars
      => (TypeOK /\ FormsHonest /\ OnlyPaidOrdersProgress /\ RecordedMeansProgress)'
  BY TypeStep, FormsHonestStep, PaymentStep
<1> QED BY <1>1, <1>2, PTL DEF Spec

\* No step, of the sweep, a checkout or a stale form, takes an order whose
\* payment is on record back to waiting, or erases the record.
THEOREM PaymentIsNeverUndone == Spec => PaymentNeverUndone
<1>1. Init => TypeOK /\ FormsHonest /\ OnlyPaidOrdersProgress /\ RecordedMeansProgress
  BY TypeInit, FormsHonestInit, PaymentInit
<1>2. TypeOK /\ FormsHonest /\ OnlyPaidOrdersProgress /\ RecordedMeansProgress /\ [Next]_vars
      => (TypeOK /\ FormsHonest /\ OnlyPaidOrdersProgress /\ RecordedMeansProgress)'
  BY TypeStep, FormsHonestStep, PaymentStep
<1>3. TypeOK /\ FormsHonest /\ RecordedMeansProgress /\ [Next]_vars
      => [\A o \in Orders : trade[o] # "none" => trade'[o] # "none" /\ status'[o] \in Progress]_vars
  <2> SUFFICES ASSUME TypeOK, FormsHonest, RecordedMeansProgress, [Next]_vars,
                      NEW o \in Orders, trade[o] # "none"
               PROVE  trade'[o] # "none" /\ status'[o] \in Progress
    OBVIOUS
  <2>1. Moves(o)
    BY EveryStepMoves
  <2> QED BY <2>1 DEF Moves, Rests, WaitsForPayment, Settles, IsMoved, RecordedMeansProgress
<1> QED BY <1>1, <1>2, <1>3, PTL DEF Spec, PaymentNeverUndone

-----------------------------------------------------------------------------
(* A payment in time finds its cards.                                      *)

\* Only a payment itself parks an unpaid order in 异常.
LEMMA OnlySettleShorts ==
  ASSUME TypeOK, FormsHonest, [Next]_vars, NEW o \in Orders,
         status[o] = Unpaid, status'[o] = Short
  PROVE  SettleShort(o)
<1>1. status' # status
  OBVIOUS
<1>2. CASE LedgerNext
  <2>1. ASSUME NEW q \in Orders, Complete(q) \/ Redeliver(q)
        PROVE  SettleShort(o)
    <3>1. CASE \E t : DeliverCards(q, t)
      BY <3>1 DEF DeliverCards, TypeOK, LedgerTypeOK
    <3>2. CASE TakeManual(q)
      BY <3>2 DEF TakeManual, TypeOK, LedgerTypeOK
    <3>3. CASE SettleShort(q)
      <4>1. status' = [status EXCEPT ![q] = Short]
        BY <3>3 DEF SettleShort
      <4>2. q = o
        BY <4>1 DEF TypeOK, LedgerTypeOK
      <4> QED BY <3>3, <4>2
    <3> QED BY <2>1, <3>1, <3>2, <3>3 DEF Complete, Redeliver
  <2>2. ASSUME NEW q \in Orders,
               \/ \E g \in Goods, n \in 1..MaxAmount, k \in Coupons \cup {NoCoupon} : BeginCheckout(q, g, n, k)
               \/ PlaceOrder(q) \/ RefuseCheckout(q) \/ ExpireOne(q)
               \/ GrowOld(q) \/ \E amount \in {"other", "exact"} : BuyerPays(q, amount)
        PROVE  FALSE
    <3>1. status \in [Orders -> Statuses]
      BY DEF TypeOK, LedgerTypeOK
    <3>2. (status' = [status EXCEPT ![q] = status'[q]] /\ status'[q] # Short) \/ UNCHANGED status
      <4>1. CASE \/ \E g \in Goods, n \in 1..MaxAmount, k \in Coupons \cup {NoCoupon} : BeginCheckout(q, g, n, k)
                 \/ PlaceOrder(q)
        BY <3>1, <4>1 DEF BeginCheckout, PlaceOrder
      <4>2. CASE RefuseCheckout(q) \/ ExpireOne(q)
        BY <3>1, <4>2 DEF RefuseCheckout, ExpireOne
      <4>3. CASE GrowOld(q) \/ \E amount \in {"other", "exact"} : BuyerPays(q, amount)
        BY <4>3 DEF GrowOld, BuyerPays, orderVars
      <4> QED BY <2>2, <4>1, <4>2, <4>3
    <3> QED BY <1>1, <3>1, <3>2
  <2>3. ASSUME ListDue \/ SweepFails
        PROVE  FALSE
    BY <1>1, <2>3 DEF ListDue, SweepFails, orderVars
  <2> QED BY <1>2, <2>1, <2>2, <2>3 DEF LedgerNext
<1>3. CASE OwnerNext
  <2>1. ASSUME NEW d \in Desks, SaveOrder(d)
        PROVE  FALSE
    <3>1. /\ desk[d].order \in Orders
          /\ status[desk[d].order] = desk[d].prev
          /\ status' = [status EXCEPT ![desk[d].order] = desk[d].to]
      BY <2>1 DEF SaveOrder, StillAsRead, TypeOK, Forms, Idle
    <3>2. \/ desk[d].to = desk[d].prev
          \/ desk[d].prev \in Progress \ {Done} /\ desk[d].to \in Progress
      BY <2>1, Zenon DEF FormsHonest, FormHonest, SaveOrder
    <3> QED BY <3>1, <3>2 DEF Progress, TypeOK, LedgerTypeOK
  <2>2. ASSUME NEW d \in Desks, OrdersPage(d), ~SaveOrder(d)
        PROVE  UNCHANGED status
    BY <2>2 DEF OrdersPage, ShowOrder, PostOrder, LeaveOrder, ledgerVars, orderVars
  <2>3. ASSUME NEW c \in Cards, CardsPage(c)
        PROVE  UNCHANGED status
    BY <2>3 DEF CardsPage, ImportCard, LockCard, EditCard, DeleteOrRestoreCard, UnlockCard, orderVars
  <2>4. ASSUME NEW g \in Goods, GoodsPage(g)
        PROVE  UNCHANGED status
    BY <2>4 DEF GoodsPage, ShowGoods, SaveGoods, DeleteOrRestoreGoods, LeaveGoods, ledgerVars, orderVars
  <2>5. ASSUME NEW k \in Coupons, CouponsPage(k)
        PROVE  UNCHANGED status
    BY <2>5 DEF CouponsPage, SaveCoupon, DeleteOrRestoreCoupon, orderVars
  <2> QED BY <1>1, <1>3, <2>1, <2>2, <2>3, <2>4, <2>5 DEF OwnerNext
<1>4. CASE Restart
  BY <1>4 DEF Restart
<1>5. CASE UNCHANGED vars
  BY <1>1, <1>5 DEF vars, ledgerVars, orderVars
<1> QED BY <1>2, <1>3, <1>4, <1>5 DEF Next

\* A reserved card that nobody holds locked can be delivered to its order.
LEMMA ReservedIsPickable ==
  ASSUME ReservationsExact, NEW o \in Orders, \A c \in Reserved(o) : rowLock[c] = "free"
  PROVE  Reserved(o) \subseteq Pickable(o)
<1> SUFFICES ASSUME NEW c \in Reserved(o) PROVE c \in Pickable(o)
  OBVIOUS
<1>1. c \in Cards /\ resv[c] = o
  BY DEF Reserved
<1>2. ReservationValid(c)
  BY <1>1 DEF ReservationsExact
<1>3. resv[c] # NoOrder
  BY <1>1, LedgerAssumption
<1> QED BY <1>1, <1>2, <1>3 DEF ReservationValid, Pickable, OnShelf

\* What checkout reserved is there when the buyer pays: a payment in time is
\* put in 异常 only while another transaction holds one of its cards locked,
\* which SKIP LOCKED passes over.
THEOREM InTimeIsNeverShort == Spec => InTimeNeverShort
<1>1. Init => TypeOK /\ FormsHonest /\ ReservationsExact
  BY TypeInit, FormsHonestInit, ReservationsInit
<1>2. TypeOK /\ FormsHonest /\ ReservationsExact /\ [Next]_vars
      => (TypeOK /\ FormsHonest /\ ReservationsExact)'
  BY TypeStep, FormsHonestStep, ReservationsStep
<1>3. TypeOK /\ FormsHonest /\ ReservationsExact /\ [Next]_vars
      => [\A o \in Orders : status[o] = Unpaid /\ status'[o] = Short =>
             \E c \in Reserved(o) : rowLock[c] # "free"]_vars
  <2> SUFFICES ASSUME TypeOK, FormsHonest, ReservationsExact, [Next]_vars,
                      NEW o \in Orders, status[o] = Unpaid, status'[o] = Short,
                      \A c \in Reserved(o) : rowLock[c] = "free"
               PROVE  FALSE
    OBVIOUS
  <2>1. SettleShort(o)
    BY OnlySettleShorts
  <2>2. placed[o].typ = AutoType /\ Cardinality(Pickable(o)) < placed[o].amt
    BY <2>1 DEF SettleShort
  <2>3. Cardinality(Reserved(o)) = placed[o].amt
    BY <2>2 DEF ReservationsExact, ReservationFull
  <2>4. IsFiniteSet(Pickable(o)) /\ Pickable(o) \subseteq Cards
    BY LedgerAssumption, FS_Subset DEF Pickable, OnShelf
  <2>5. Cardinality(Reserved(o)) <= Cardinality(Pickable(o))
    BY <2>4, ReservedIsPickable, FS_Subset
  <2>6. Cardinality(Reserved(o)) \in Nat /\ Cardinality(Pickable(o)) \in Nat
    BY <2>4, ReservedIsPickable, FS_Subset, FS_CardinalityType
  <2> QED BY <2>2, <2>3, <2>5, <2>6
<1> QED BY <1>1, <1>2, <1>3, PTL DEF Spec, InTimeNeverShort

-----------------------------------------------------------------------------
(* Cards sold.  A back-office statement only ever holds unsold cards, so   *)
(* no edit brings a sold card back on the shelf.                           *)

RowLocksHonest == \A c \in Cards : rowLock[c] = "edit" => cstatus[c] = Unsold

CardsSafe == RowLocksHonest /\ NoCardSoldTwice

LEMMA CardsFrame ==
  ASSUME CardsSafe, UNCHANGED <<rowLock, cstatus, soldTo>>,
         \A o \in Orders : status[o] = Done => status'[o] = Done
  PROVE  CardsSafe'
BY DEF CardsSafe, RowLocksHonest, NoCardSoldTwice

LEMMA DeliverySafe ==
  ASSUME TypeOK, CardsSafe, NEW o \in Orders, status[o] # Done, NEW t, DeliverCards(o, t)
  PROVE  CardsSafe'
<1> USE DEF TypeOK, LedgerTypeOK
<1>1. PICK P \in Picks(o) :
         /\ cstatus' = [c \in Cards |-> IF c \in {x \in P : ~loop[x]} THEN Sold ELSE cstatus[c]]
         /\ soldTo' = [soldTo EXCEPT ![o] = @ \cup {x \in P : ~loop[x]}]
  BY DEF DeliverCards
<1>2. \A c \in P : c \in Cards /\ cstatus[c] = Unsold /\ rowLock[c] = "free"
  BY DEF Picks, Pickable, OnShelf
<1>3. UNCHANGED rowLock /\ status' = [status EXCEPT ![o] = Done]
  BY DEF DeliverCards
<1>4. soldTo[o] = {}
  BY DEF CardsSafe, NoCardSoldTwice
<1>5. RowLocksHonest'
  BY <1>1, <1>2, <1>3 DEF CardsSafe, RowLocksHonest
<1>6. \A q \in Orders : \A c \in soldTo[q] : c \in Cards /\ cstatus[c] = Sold /\ status[q] = Done
  BY DEF CardsSafe, NoCardSoldTwice
<1>7. \A q \in Orders \ {o} : soldTo'[q] = soldTo[q] /\ soldTo[q] \cap P = {}
  BY <1>1, <1>2, <1>6
<1>8. soldTo'[o] = {x \in P : ~loop[x]}
  BY <1>1, <1>4
<1>9. \A q \in Orders : \A c \in soldTo'[q] : cstatus'[c] = Sold /\ status'[q] = Done
  BY <1>1, <1>2, <1>3, <1>6, <1>7, <1>8
<1>10. \A o1, o2 \in Orders : o1 # o2 => soldTo[o1] \cap soldTo[o2] = {}
  BY DEF CardsSafe, NoCardSoldTwice
<1>11. ASSUME NEW o1 \in Orders, NEW o2 \in Orders, o1 # o2
       PROVE  soldTo'[o1] \cap soldTo'[o2] = {}
  <2>1. CASE o1 = o
    BY <1>7, <1>8, <1>11, <2>1
  <2>2. CASE o2 = o
    BY <1>7, <1>8, <1>11, <2>2
  <2>3. CASE o1 # o /\ o2 # o
    BY <1>7, <1>10, <1>11, <2>3
  <2> QED BY <2>1, <2>2, <2>3
<1> QED BY <1>5, <1>9, <1>11 DEF CardsSafe, NoCardSoldTwice

LEMMA CardsPageSafe ==
  ASSUME TypeOK, CardsSafe, NEW c \in Cards, CardsPage(c)
  PROVE  CardsSafe'
<1> USE DEF TypeOK, LedgerTypeOK
<1>1. UNCHANGED <<soldTo, status>>
  BY DEF CardsPage, ImportCard, LockCard, EditCard, DeleteOrRestoreCard, UnlockCard, orderVars, ghostVars
<1> DEFINE Kept == /\ \A x \in Cards \ {c} : cstatus'[x] = cstatus[x] /\ rowLock'[x] = rowLock[x]
                   /\ cstatus[c] = Sold => cstatus'[c] = Sold
                   /\ rowLock'[c] = "edit" => cstatus'[c] = Unsold
<1>2. Kept
  <2>1. rowLock[c] = "edit" => cstatus[c] = Unsold
    BY DEF CardsSafe, RowLocksHonest
  <2>2. ASSUME NEW g \in Goods, NEW l \in BOOLEAN, ImportCard(c, g, l)
        PROVE  Kept
    BY <2>2 DEF ImportCard
  <2>3. CASE LockCard(c)
    BY <2>3 DEF LockCard
  <2>4. ASSUME NEW g \in Goods, NEW l \in BOOLEAN, NEW s \in {Unsold, Sold}, EditCard(c, g, l, s)
        PROVE  Kept
    BY <2>1, <2>4 DEF EditCard
  <2>5. CASE DeleteOrRestoreCard(c) \/ UnlockCard(c)
    BY <2>5 DEF DeleteOrRestoreCard, UnlockCard
  <2> QED BY <2>2, <2>3, <2>4, <2>5 DEF CardsPage
<1>3. \A o \in Orders : soldTo[o] \subseteq Cards
  OBVIOUS
<1> QED BY <1>1, <1>2, <1>3 DEF CardsSafe, RowLocksHonest, NoCardSoldTwice

LEMMA CardsStep == TypeOK /\ FormsHonest /\ CardsSafe /\ [Next]_vars => CardsSafe'
<1> SUFFICES ASSUME TypeOK, FormsHonest, CardsSafe, [Next]_vars PROVE CardsSafe'
  OBVIOUS
<1>1. \A o \in Orders : status[o] = Done => status'[o] = Done
  BY EveryStepMoves DEF Moves, Rests, WaitsForPayment, Settles, IsMoved, Progress
<1>2. CASE UNCHANGED <<rowLock, cstatus, soldTo>>
  BY <1>1, <1>2, CardsFrame
<1>3. CASE LedgerNext
  <2>1. ASSUME NEW o \in Orders, Complete(o) \/ Redeliver(o)
        PROVE  CardsSafe'
    <3>1. status[o] # Done
      BY <2>1 DEF Complete, Payable, Redeliver
    <3>2. ASSUME TakeManual(o) \/ SettleShort(o)
          PROVE  UNCHANGED <<rowLock, cstatus, soldTo>>
      BY <3>2 DEF TakeManual, SettleShort, cardVars, ghostVars
    <3> QED BY <1>2, <2>1, <3>1, <3>2, DeliverySafe DEF Complete, Redeliver
  <2>2. ASSUME NEW o \in Orders,
               \/ \E g \in Goods, n \in 1..MaxAmount, k \in Coupons \cup {NoCoupon} : BeginCheckout(o, g, n, k)
               \/ PlaceOrder(o) \/ RefuseCheckout(o) \/ ExpireOne(o)
               \/ GrowOld(o) \/ \E amount \in {"other", "exact"} : BuyerPays(o, amount)
        PROVE  UNCHANGED <<rowLock, cstatus, soldTo>>
    BY <2>2 DEF BeginCheckout, PlaceOrder, RefuseCheckout, ExpireOne, GrowOld, BuyerPays, cardVars, ghostVars
  <2>3. ASSUME ListDue \/ SweepFails
        PROVE  UNCHANGED <<rowLock, cstatus, soldTo>>
    BY <2>3 DEF ListDue, SweepFails, cardVars, ghostVars
  <2> QED BY <1>2, <1>3, <2>1, <2>2, <2>3 DEF LedgerNext
<1>4. CASE OwnerNext
  <2>1. ASSUME NEW d \in Desks, OrdersPage(d)
        PROVE  UNCHANGED <<rowLock, cstatus, soldTo>>
    BY <2>1 DEF OrdersPage, ShowOrder, PostOrder, SaveOrder, LeaveOrder, ledgerVars, cardVars, ghostVars
  <2>2. ASSUME NEW g \in Goods, GoodsPage(g)
        PROVE  UNCHANGED <<rowLock, cstatus, soldTo>>
    BY <2>2 DEF GoodsPage, ShowGoods, SaveGoods, DeleteOrRestoreGoods, LeaveGoods, ledgerVars, cardVars, ghostVars
  <2>3. ASSUME NEW k \in Coupons, CouponsPage(k)
        PROVE  UNCHANGED <<rowLock, cstatus, soldTo>>
    BY <2>3 DEF CouponsPage, SaveCoupon, DeleteOrRestoreCoupon, cardVars, ghostVars
  <2> QED BY <1>2, <1>4, <2>1, <2>2, <2>3, CardsPageSafe DEF OwnerNext
<1>5. CASE Restart
  BY <1>1, <1>5 DEF Restart, CardsSafe, RowLocksHonest, NoCardSoldTwice, ghostVars
<1>6. CASE UNCHANGED vars
  BY <1>2, <1>6 DEF vars, ledgerVars, cardVars, ghostVars
<1> QED BY <1>3, <1>4, <1>5, <1>6 DEF Next

\* settle, orderSave and the card pages together: a card sold to one buyer is
\* never sold to another, and stays sold with its order completed.
THEOREM NoCardIsSoldTwice == Spec => []NoCardSoldTwice
<1>1. Init => TypeOK /\ FormsHonest /\ CardsSafe
  BY TypeInit, FormsHonestInit DEF Init, LedgerInit, CardsSafe, RowLocksHonest, NoCardSoldTwice
<1>2. TypeOK /\ FormsHonest /\ CardsSafe /\ [Next]_vars => (TypeOK /\ FormsHonest /\ CardsSafe)'
  BY TypeStep, FormsHonestStep, CardsStep
<1>3. CardsSafe => NoCardSoldTwice
  BY DEF CardsSafe
<1> QED BY <1>1, <1>2, <1>3, PTL DEF Spec

-----------------------------------------------------------------------------
(* Part 3.  Counting units.                                                *)

\* Units for a given table of placements.

UnitsAt(S, p) == {u \in S \X (1..MaxAmount) : u[2] <= p[u[1]].amt}

LEMMA FinitelyManyUnits ==
  ASSUME NEW S, IsFiniteSet(S), NEW p
  PROVE  IsFiniteSet(UnitsAt(S, p)) /\ Cardinality(UnitsAt(S, p)) \in Nat
<1>1. IsFiniteSet(1..MaxAmount)
  BY LedgerAssumption, FS_Interval
<1>2. IsFiniteSet(S \X (1..MaxAmount))
  BY <1>1, FS_Product
<1>3. UnitsAt(S, p) \in SUBSET (S \X (1..MaxAmount))
  BY DEF UnitsAt
<1> QED BY <1>2, <1>3, FS_Subset, FS_CardinalityType

\* The units of one order.
LEMMA UnitsOfOne ==
  ASSUME NEW o, NEW n \in 1..MaxAmount
  PROVE  LET B == {o} \X (1..n) IN IsFiniteSet(B) /\ Cardinality(B) = n
<1>1. IsFiniteSet({o}) /\ Cardinality({o}) = 1
  BY FS_Singleton
<1>2. n \in Nat /\ n > 0
  BY LedgerAssumption
<1>3. IsFiniteSet(1..n) /\ Cardinality(1..n) = n
  BY <1>2, FS_Interval
<1>4. /\ IsFiniteSet({o} \X (1..n))
      /\ Cardinality({o} \X (1..n)) = Cardinality({o}) * Cardinality(1..n)
  BY <1>1, <1>3, FS_Product, Zenon
<1>5. Cardinality({o}) * Cardinality(1..n) = n
  BY <1>1, <1>2, <1>3
<1> QED BY <1>4, <1>5

\* One order more counts for the amount it bought.
LEMMA OneOrderMore ==
  ASSUME NEW S, IsFiniteSet(S), NEW o, o \notin S, NEW p, p[o].amt \in 1..MaxAmount
  PROVE  Cardinality(UnitsAt(S \cup {o}, p)) = Cardinality(UnitsAt(S, p)) + p[o].amt
<1> DEFINE n == p[o].amt
           B == {o} \X (1..n)
           U == UnitsAt(S, p)
<1>1. IsFiniteSet(U) /\ Cardinality(U) \in Nat
  BY FinitelyManyUnits
<1>2. IsFiniteSet(B) /\ Cardinality(B) = n
  BY UnitsOfOne
<1>3. UnitsAt(S \cup {o}, p) = U \cup B
  <2>1. ASSUME NEW u \in UnitsAt(S \cup {o}, p) PROVE u \in U \cup B
    BY <2>1, LedgerAssumption DEF UnitsAt
  <2>2. ASSUME NEW u \in U PROVE u \in UnitsAt(S \cup {o}, p)
    BY <2>2 DEF UnitsAt
  <2>3. ASSUME NEW u \in B PROVE u \in UnitsAt(S \cup {o}, p)
    BY <2>3, LedgerAssumption DEF UnitsAt
  <2> QED BY <2>1, <2>2, <2>3
<1>4. U \cap B = {}
  BY DEF UnitsAt
<1>5. Cardinality(U \cup B) = Cardinality(U) + Cardinality(B) - Cardinality(U \cap B)
  BY <1>1, <1>2, FS_Union
<1>6. Cardinality(U \cap B) = 0
  BY <1>4, FS_EmptySet
<1>7. n \in Nat
  OBVIOUS
<1> HIDE DEF n, B, U
<1>8. Cardinality(U \cup B) = Cardinality(U) + n
  BY <1>1, <1>2, <1>5, <1>6, <1>7
<1> QED BY <1>3, <1>8 DEF n, U

\* Orders of one unit each count as many units as orders.
LEMMA SingleUnits ==
  ASSUME NEW S, IsFiniteSet(S), NEW p, \A o \in S : p[o].amt = 1
  PROVE  Cardinality(UnitsAt(S, p)) = Cardinality(S)
<1> DEFINE f == [o \in S |-> <<o, 1>>]
<1>1. 1 \in 1..MaxAmount
  BY LedgerAssumption
<1>2. \A o \in S : f[o] \in UnitsAt(S, p)
  BY <1>1 DEF UnitsAt
<1>3. \A u \in UnitsAt(S, p) : \E o \in S : f[o] = u
  <2> SUFFICES ASSUME NEW u \in UnitsAt(S, p) PROVE \E o \in S : f[o] = u
    OBVIOUS
  <2>1. /\ u \in S \X (1..MaxAmount) /\ u[1] \in S
        /\ u[2] \in 1..MaxAmount /\ u[2] <= 1
    BY DEF UnitsAt
  <2>2. u[2] = 1
    BY <2>1, LedgerAssumption
  <2>3. u = <<u[1], 1>>
    BY <2>1, <2>2
  <2> QED BY <2>1, <2>3
<1>4. f \in Bijection(S, UnitsAt(S, p))
  <2>1. f \in [S -> UnitsAt(S, p)]
    BY <1>2
  <2>2. \A a, b \in S : f[a] = f[b] => a = b
    OBVIOUS
  <2> QED BY <1>3, <2>1, <2>2 DEF Bijection, Injection, Surjection, IsInjective
<1>5. ExistsBijection(S, UnitsAt(S, p))
  BY <1>4 DEF ExistsBijection
<1> QED BY <1>5, FS_Bijection

-----------------------------------------------------------------------------
(* Coupon uses.  A use held by an order is counted while nothing was       *)
(* handed back, so the induction needs to know that nothing is handed back *)
(* before the order expires.                                               *)

NothingBackYet == \A o \in Orders : status[o] \in {Blank, Checking, Unpaid} => retBack[o] = 0

UsesSafe == NothingBackYet /\ CouponUsesConserved

HoldsUse(o, k) == Written(o) /\ placed[o].coupon = k /\ retBack[o] = 0

LEMMA FinitelyManyUses ==
  ASSUME NEW k
  PROVE  /\ UsesHeld(k) = {o \in Orders : HoldsUse(o, k)}
         /\ IsFiniteSet(UsesHeld(k)) /\ Cardinality(UsesHeld(k)) \in Nat
<1>1. UsesHeld(k) = {o \in Orders : HoldsUse(o, k)}
  BY DEF UsesHeld, HoldsUse
<1>2. UsesHeld(k) \in SUBSET Orders
  BY DEF UsesHeld
<1> QED BY <1>1, <1>2, LedgerAssumption, FS_Subset, FS_CardinalityType

\* A step that leaves every use where it is.
LEMMA UsesFrame ==
  ASSUME UsesSafe, UNCHANGED <<ret, granted>>,
         \A q \in Orders : \A k \in Coupons : HoldsUse(q, k)' <=> HoldsUse(q, k),
         NothingBackYet'
  PROVE  UsesSafe'
<1>1. ASSUME NEW k \in Coupons PROVE UsesHeld(k)' = UsesHeld(k)
  BY DEF UsesHeld, HoldsUse
<1> QED BY <1>1 DEF UsesSafe, CouponUsesConserved

\* An order takes one use of its coupon.
LEMMA UseTaken ==
  ASSUME TypeOK, UsesSafe, NEW o \in Orders, NEW j \in Coupons, UNCHANGED granted,
         ret[j] > 0, ret' = [ret EXCEPT ![j] = @ - 1],
         \A q \in Orders \ {o} : \A k \in Coupons : HoldsUse(q, k)' <=> HoldsUse(q, k),
         \A k \in Coupons : HoldsUse(o, k)' <=> k = j,
         \A k \in Coupons : ~HoldsUse(o, k),
         NothingBackYet'
  PROVE  UsesSafe'
<1> SUFFICES ASSUME NEW k \in Coupons
             PROVE  ret'[k] + Cardinality(UsesHeld(k)') = granted[k]
  BY DEF UsesSafe, CouponUsesConserved
<1>1. ret[k] + Cardinality(UsesHeld(k)) = granted[k]
  BY DEF UsesSafe, CouponUsesConserved
<1>2. ret \in [Coupons -> Nat] /\ granted \in [Coupons -> Nat]
  BY DEF TypeOK, LedgerTypeOK
<1>3. IsFiniteSet(UsesHeld(k)) /\ Cardinality(UsesHeld(k)) \in Nat
  BY FinitelyManyUses
<1>4. CASE k = j
  <2>1. UsesHeld(k)' = UsesHeld(k) \cup {o} /\ o \notin UsesHeld(k)
    BY <1>4 DEF UsesHeld, HoldsUse
  <2>2. Cardinality(UsesHeld(k)') = Cardinality(UsesHeld(k)) + 1
    BY <1>3, <2>1, FS_AddElement
  <2>3. ret'[k] = ret[k] - 1
    BY <1>2, <1>4
  <2> QED BY <1>1, <1>2, <1>3, <2>2, <2>3
<1>5. CASE k # j
  <2>1. UsesHeld(k)' = UsesHeld(k)
    BY <1>5 DEF UsesHeld, HoldsUse
  <2> QED BY <1>1, <1>2, <1>5, <2>1
<1> QED BY <1>4, <1>5

\* An order gives its use back.
LEMMA UseReturned ==
  ASSUME TypeOK, UsesSafe, NEW o \in Orders, NEW j \in Coupons, UNCHANGED granted,
         ret' = [ret EXCEPT ![j] = @ + 1],
         \A q \in Orders \ {o} : \A k \in Coupons : HoldsUse(q, k)' <=> HoldsUse(q, k),
         \A k \in Coupons : HoldsUse(o, k) <=> k = j,
         \A k \in Coupons : ~HoldsUse(o, k)',
         NothingBackYet'
  PROVE  UsesSafe'
<1> SUFFICES ASSUME NEW k \in Coupons
             PROVE  ret'[k] + Cardinality(UsesHeld(k)') = granted[k]
  BY DEF UsesSafe, CouponUsesConserved
<1>1. ret[k] + Cardinality(UsesHeld(k)) = granted[k]
  BY DEF UsesSafe, CouponUsesConserved
<1>2. ret \in [Coupons -> Nat] /\ granted \in [Coupons -> Nat]
  BY DEF TypeOK, LedgerTypeOK
<1>3. IsFiniteSet(UsesHeld(k)) /\ Cardinality(UsesHeld(k)) \in Nat
  BY FinitelyManyUses
<1>4. CASE k = j
  <2>1. UsesHeld(k)' = UsesHeld(k) \ {o} /\ o \in UsesHeld(k)
    BY <1>4 DEF UsesHeld, HoldsUse
  <2>2. Cardinality(UsesHeld(k)') = Cardinality(UsesHeld(k)) - 1
    BY <1>3, <2>1, FS_RemoveElement
  <2>3. ret'[k] = ret[k] + 1
    BY <1>2, <1>4
  <2> QED BY <1>1, <1>2, <1>3, <2>2, <2>3
<1>5. CASE k # j
  <2>1. UsesHeld(k)' = UsesHeld(k)
    BY <1>5 DEF UsesHeld, HoldsUse
  <2> QED BY <1>1, <1>2, <1>5, <2>1
<1> QED BY <1>4, <1>5

LEMMA PlacedCoupon ==
  ASSUME TypeOK, NEW o \in Orders
  PROVE  placed[o].coupon \in Coupons \cup {NoCoupon}
BY DEF TypeOK, LedgerTypeOK, Placements, NoPlacement

LEMMA UsesPlace ==
  ASSUME TypeOK, UsesSafe, NEW o \in Orders, PlaceOrder(o)
  PROVE  UsesSafe'
<1>1. /\ status[o] = Checking /\ status' = [status EXCEPT ![o] = Unpaid]
      /\ UNCHANGED <<placed, retBack, granted>> /\ TakeCouponUse(placed[o].coupon)
  BY DEF PlaceOrder, ghostVars
<1>2. retBack[o] = 0
  BY <1>1 DEF UsesSafe, NothingBackYet
<1>3. \A q \in Orders \ {o} : status'[q] = status[q]
  BY <1>1 DEF TypeOK, LedgerTypeOK
<1>4. status'[o] = Unpaid
  BY <1>1 DEF TypeOK, LedgerTypeOK
<1>5. NothingBackYet'
  BY <1>1, <1>2, <1>3 DEF UsesSafe, NothingBackYet
<1>6. \A q \in Orders \ {o} : \A k \in Coupons : HoldsUse(q, k)' <=> HoldsUse(q, k)
  BY <1>1, <1>3 DEF HoldsUse, Written
<1>7. \A k \in Coupons : ~HoldsUse(o, k)
  BY <1>1 DEF HoldsUse, Written
<1>8. \A k \in Coupons : HoldsUse(o, k)' <=> k = placed[o].coupon
  BY <1>1, <1>2, <1>4 DEF HoldsUse, Written
<1>9. CASE placed[o].coupon = NoCoupon
  <2>1. UNCHANGED ret
    BY <1>1, <1>9, LedgerAssumption DEF TakeCouponUse
  <2>2. \A k \in Coupons : HoldsUse(o, k)' <=> HoldsUse(o, k)
    BY <1>7, <1>8, <1>9, LedgerAssumption
  <2> QED BY <1>1, <1>5, <1>6, <2>1, <2>2, UsesFrame
<1>10. CASE placed[o].coupon # NoCoupon
  <2>1. /\ placed[o].coupon \in Coupons /\ ret[placed[o].coupon] > 0
        /\ ret' = [ret EXCEPT ![placed[o].coupon] = @ - 1]
    BY <1>1, <1>10 DEF TakeCouponUse
  <2> QED BY <1>1, <1>5, <1>6, <1>7, <1>8, <2>1, UseTaken
<1> QED BY <1>9, <1>10

\* A settlement takes back the use that expiry returned, or gives it up.
LEMMA UsesSettle ==
  ASSUME TypeOK, UsesSafe, NEW o \in Orders, RetakeCoupon(o), UNCHANGED <<placed, granted>>,
         Written(o), NEW s \in {Done, Pending, Short}, status' = [status EXCEPT ![o] = s]
  PROVE  UsesSafe'
<1> DEFINE j == placed[o].coupon
<1>1. status'[o] = s /\ \A q \in Orders \ {o} : status'[q] = status[q]
  BY DEF TypeOK, LedgerTypeOK
<1>2. \A q \in Orders \ {o} : retBack'[q] = retBack[q]
  BY DEF RetakeCoupon, TypeOK, LedgerTypeOK
<1>3. NothingBackYet'
  BY <1>1, <1>2 DEF UsesSafe, NothingBackYet
<1>4. \A q \in Orders \ {o} : \A k \in Coupons : HoldsUse(q, k)' <=> HoldsUse(q, k)
  BY <1>1, <1>2 DEF HoldsUse, Written
<1>5. CASE j # NoCoupon /\ retBack[o] = 1 /\ Retakable(o)
  <2>1. /\ j \in Coupons /\ ret[j] > 0 /\ ret' = [ret EXCEPT ![j] = @ - 1]
        /\ retBack'[o] = 0
    BY <1>5 DEF RetakeCoupon, Retakable, TypeOK, LedgerTypeOK
  <2>2. \A k \in Coupons : (HoldsUse(o, k)' <=> k = j) /\ ~HoldsUse(o, k)
    BY <1>1, <1>5, <2>1 DEF HoldsUse, Written
  <2> QED BY <1>3, <1>4, <2>1, <2>2, UseTaken
<1>6. CASE ~(j # NoCoupon /\ retBack[o] = 1 /\ Retakable(o))
  <2>1. ret' = ret /\ (retBack'[o] = 0 <=> retBack[o] = 0)
    BY <1>6 DEF RetakeCoupon, TypeOK, LedgerTypeOK
  <2>2. \A k \in Coupons : HoldsUse(o, k)' <=> HoldsUse(o, k)
    BY <1>1, <2>1 DEF HoldsUse, Written
  <2> QED BY <1>3, <1>4, <2>1, <2>2, UsesFrame
<1> QED BY <1>5, <1>6

LEMMA UsesExpire ==
  ASSUME TypeOK, UsesSafe, NEW o \in Orders, ExpireOne(o)
  PROVE  UsesSafe'
<1> DEFINE j == placed[o].coupon
<1>1. UNCHANGED <<placed, granted>>
  BY DEF ExpireOne, ghostVars
<1>2. CASE status[o] # Unpaid
  <2>1. UNCHANGED <<status, retBack, ret>>
    BY <1>2 DEF ExpireOne, Expirable
  <2> QED BY <1>1, <2>1, UsesFrame DEF HoldsUse, Written, UsesSafe, NothingBackYet
<1>3. CASE status[o] = Unpaid
  <2>1. /\ status' = [status EXCEPT ![o] = Expired] /\ retBack' = [retBack EXCEPT ![o] = 1]
        /\ ret' = IF j = NoCoupon THEN ret ELSE [ret EXCEPT ![j] = @ + 1]
    BY <1>3 DEF ExpireOne, Expirable
  <2>2. /\ status'[o] = Expired /\ retBack'[o] = 1
        /\ \A q \in Orders \ {o} : status'[q] = status[q] /\ retBack'[q] = retBack[q]
    BY <2>1 DEF TypeOK, LedgerTypeOK
  <2>3. retBack[o] = 0
    BY <1>3 DEF UsesSafe, NothingBackYet
  <2>4. NothingBackYet'
    BY <2>2 DEF UsesSafe, NothingBackYet
  <2>5. \A q \in Orders \ {o} : \A k \in Coupons : HoldsUse(q, k)' <=> HoldsUse(q, k)
    BY <1>1, <2>2 DEF HoldsUse, Written
  <2>6. \A k \in Coupons : ~HoldsUse(o, k)' /\ (HoldsUse(o, k) <=> k = j)
    BY <1>3, <2>2, <2>3 DEF HoldsUse, Written
  <2>7. CASE j = NoCoupon
    <3>1. ret' = ret /\ \A k \in Coupons : HoldsUse(o, k)' <=> HoldsUse(o, k)
      BY <2>1, <2>6, <2>7, LedgerAssumption
    <3> QED BY <1>1, <2>4, <2>5, <3>1, UsesFrame
  <2>8. CASE j # NoCoupon
    <3>1. j \in Coupons /\ ret' = [ret EXCEPT ![j] = @ + 1]
      BY <2>1, <2>8, PlacedCoupon
    <3> QED BY <1>1, <2>4, <2>5, <2>6, <3>1, UseReturned
  <2> QED BY <2>7, <2>8
<1> QED BY <1>2, <1>3

\* A step that neither writes a new order nor returns a written one to its
\* buyer's cart moves no use.
LEMMA UsesUnmoved ==
  ASSUME UsesSafe, UNCHANGED <<ret, granted, retBack>>,
         \A q \in Orders : \/ status'[q] = status[q] /\ placed'[q] = placed[q]
                           \/ status[q] \in {Blank, Checking} /\ status'[q] \in {Blank, Checking}
                           \/ /\ status[q] \in Progress /\ status'[q] \in Progress
                              /\ placed'[q] = placed[q]
  PROVE  UsesSafe'
<1>1. NothingBackYet'
  BY DEF UsesSafe, NothingBackYet, Progress
<1>2. \A q \in Orders : \A k \in Coupons : HoldsUse(q, k)' <=> HoldsUse(q, k)
  BY DEF HoldsUse, Written, Progress
<1> QED BY <1>1, <1>2, UsesFrame

LEMMA UsesSaveOrder ==
  ASSUME TypeOK, FormsHonest, UsesSafe, NEW d \in Desks, SaveOrder(d)
  PROVE  UsesSafe'
<1> DEFINE o == desk[d].order
<1>1. o \in Orders
  BY DEF SaveOrder, TypeOK, Forms, Idle
<1>2. /\ UNCHANGED <<placed, retBack, ret, granted>>
      /\ status[o] = desk[d].prev /\ status' = [status EXCEPT ![o] = desk[d].to]
  BY DEF SaveOrder, StillAsRead, couponVars, ghostVars
<1>3. \/ desk[d].to = desk[d].prev
      \/ desk[d].prev \in Progress \ {Done} /\ desk[d].to \in Progress
  BY Zenon DEF FormsHonest, FormHonest, SaveOrder
<1>4. ASSUME NEW q \in Orders
      PROVE  \/ status'[q] = status[q]
             \/ status[q] \in Progress /\ status'[q] \in Progress
  BY <1>1, <1>2, <1>3 DEF TypeOK, LedgerTypeOK
<1> QED BY <1>2, <1>4, UsesUnmoved

\* The owner types a new number of remaining uses.
LEMMA UsesSaveCoupon ==
  ASSUME TypeOK, UsesSafe, NEW j \in Coupons, NEW n \in 0..MaxUses, NEW on \in BOOLEAN,
         SaveCoupon(j, n, on)
  PROVE  UsesSafe'
<1>1. /\ UNCHANGED <<status, placed, retBack>>
      /\ ret' = [ret EXCEPT ![j] = n]
      /\ granted' = [granted EXCEPT ![j] = n + Cardinality(UsesHeld(j))]
  BY DEF SaveCoupon, orderVars
<1>2. ASSUME NEW k \in Coupons PROVE UsesHeld(k)' = UsesHeld(k)
  BY <1>1 DEF UsesHeld, Written
<1>3. ASSUME NEW k \in Coupons PROVE ret'[k] + Cardinality(UsesHeld(k)) = granted'[k]
  BY <1>1 DEF UsesSafe, CouponUsesConserved, TypeOK, LedgerTypeOK
<1> QED BY <1>1, <1>2, <1>3 DEF UsesSafe, NothingBackYet, CouponUsesConserved

LEMMA UsesStep == TypeOK /\ FormsHonest /\ UsesSafe /\ [Next]_vars => UsesSafe'
<1> SUFFICES ASSUME TypeOK, FormsHonest, UsesSafe, [Next]_vars PROVE UsesSafe'
  OBVIOUS
<1>1. CASE UNCHANGED <<status, placed, retBack, ret, granted>>
  BY <1>1, UsesUnmoved
<1>2. ASSUME NEW o \in Orders,
             \/ \E g \in Goods, n \in 1..MaxAmount, k \in Coupons \cup {NoCoupon} : BeginCheckout(o, g, n, k)
             \/ RefuseCheckout(o)
      PROVE  UsesSafe'
  <2>1. UNCHANGED <<ret, granted, retBack>>
    BY <1>2 DEF BeginCheckout, RefuseCheckout, couponVars, ghostVars
  <2>2. /\ status[o] \in {Blank, Checking}
        /\ \E s \in {Blank, Checking} : status' = [status EXCEPT ![o] = s]
        /\ \E p : placed' = [placed EXCEPT ![o] = p]
    BY <1>2 DEF BeginCheckout, RefuseCheckout
  <2>3. ASSUME NEW q \in Orders
        PROVE  \/ status'[q] = status[q] /\ placed'[q] = placed[q]
               \/ status[q] \in {Blank, Checking} /\ status'[q] \in {Blank, Checking}
    BY <2>2 DEF TypeOK, LedgerTypeOK
  <2> QED BY <2>1, <2>3, UsesUnmoved
<1>3. ASSUME NEW o \in Orders, Complete(o) \/ Redeliver(o)
      PROVE  UsesSafe'
  <2>1. Written(o)
    BY <1>3 DEF Complete, Redeliver, Payable, Written
  <2>2. /\ RetakeCoupon(o) /\ UNCHANGED <<placed, granted>>
        /\ \E s \in {Done, Pending, Short} : status' = [status EXCEPT ![o] = s]
    <3>1. CASE \E t : DeliverCards(o, t)
      BY <3>1 DEF DeliverCards
    <3>2. CASE TakeManual(o)
      BY <3>2 DEF TakeManual
    <3>3. CASE SettleShort(o)
      BY <3>3 DEF SettleShort, ghostVars
    <3> QED BY <1>3, <3>1, <3>2, <3>3 DEF Complete, Redeliver
  <2> QED BY <2>1, <2>2, UsesSettle
<1>4. CASE LedgerNext
  <2>1. ASSUME NEW o \in Orders, GrowOld(o) \/ \E amount \in {"other", "exact"} : BuyerPays(o, amount)
        PROVE  UNCHANGED <<status, placed, retBack, ret, granted>>
    BY <2>1 DEF GrowOld, BuyerPays, orderVars, couponVars, ghostVars
  <2>2. ASSUME ListDue \/ SweepFails
        PROVE  UNCHANGED <<status, placed, retBack, ret, granted>>
    BY <2>2 DEF ListDue, SweepFails, orderVars, couponVars, ghostVars
  <2> QED BY <1>1, <1>2, <1>3, <1>4, <2>1, <2>2, UsesPlace, UsesExpire DEF LedgerNext
<1>5. CASE OwnerNext
  <2>1. ASSUME NEW d \in Desks, OrdersPage(d), ~SaveOrder(d)
        PROVE  UNCHANGED <<status, placed, retBack, ret, granted>>
    BY <2>1 DEF OrdersPage, ShowOrder, PostOrder, LeaveOrder, ledgerVars, orderVars, couponVars, ghostVars
  <2>2. ASSUME NEW c \in Cards, CardsPage(c)
        PROVE  UNCHANGED <<status, placed, retBack, ret, granted>>
    BY <2>2 DEF CardsPage, ImportCard, LockCard, EditCard, DeleteOrRestoreCard, UnlockCard,
       orderVars, couponVars, ghostVars
  <2>3. ASSUME NEW g \in Goods, GoodsPage(g)
        PROVE  UNCHANGED <<status, placed, retBack, ret, granted>>
    BY <2>3 DEF GoodsPage, ShowGoods, SaveGoods, DeleteOrRestoreGoods, LeaveGoods,
       ledgerVars, orderVars, couponVars, ghostVars
  <2>4. ASSUME NEW k \in Coupons, DeleteOrRestoreCoupon(k)
        PROVE  UNCHANGED <<status, placed, retBack, ret, granted>>
    BY <2>4 DEF DeleteOrRestoreCoupon, orderVars, ghostVars
  <2> QED BY <1>1, <1>5, <2>1, <2>2, <2>3, <2>4, UsesSaveOrder, UsesSaveCoupon DEF OwnerNext, CouponsPage
<1>6. CASE Restart
  <2>1. /\ UNCHANGED <<ret, granted, retBack>>
        /\ \A q \in Orders : \/ status'[q] = status[q] /\ placed'[q] = placed[q]
                             \/ status[q] \in {Blank, Checking} /\ status'[q] \in {Blank, Checking}
    BY <1>6 DEF Restart, couponVars, ghostVars
  <2> QED BY <2>1, UsesUnmoved
<1>7. CASE UNCHANGED vars
  BY <1>1, <1>7 DEF vars, ledgerVars, orderVars, couponVars, ghostVars
<1> QED BY <1>4, <1>5, <1>6, <1>7 DEF Next

LEMMA UsesInit == Init => UsesSafe
<1> SUFFICES ASSUME Init PROVE UsesSafe
  OBVIOUS
<1>1. ASSUME NEW k \in Coupons PROVE UsesHeld(k) = {}
  <2>1. ASSUME NEW o \in Orders, Written(o), placed[o].coupon = k PROVE FALSE
    <3>1. o \in Legacy /\ placed[o] # NoPlacement
      BY <2>1 DEF Init, LedgerInit, Written
    <3>2. placed[o].coupon = NoCoupon
      BY <3>1 DEF Init, LedgerInit
    <3> QED BY <2>1, <3>2, LedgerAssumption
  <2> QED BY <2>1 DEF UsesHeld
<1>2. ASSUME NEW k \in Coupons PROVE ret[k] + 0 = granted[k]
  BY LedgerAssumption DEF Init, LedgerInit
<1>3. CouponUsesConserved
  BY <1>1, <1>2, FS_EmptySet DEF CouponUsesConserved
<1> QED BY <1>3 DEF UsesSafe, NothingBackYet, Init, LedgerInit

\* CreateOrder, settle, expireOne and couponSave together: what is left of a
\* coupon plus what orders hold of it is always what the owner granted. A
\* late payment takes its use again at most once, and a use it cannot take
\* again is given up for good.
THEOREM CouponUsesAreConserved == Spec => []CouponUsesConserved
<1>1. Init => TypeOK /\ FormsHonest /\ UsesSafe
  BY TypeInit, FormsHonestInit, UsesInit
<1>2. TypeOK /\ FormsHonest /\ UsesSafe /\ [Next]_vars => (TypeOK /\ FormsHonest /\ UsesSafe)'
  BY TypeStep, FormsHonestStep, UsesStep
<1>3. UsesSafe => CouponUsesConserved
  BY DEF UsesSafe
<1> QED BY <1>1, <1>2, <1>3, PTL DEF Spec

-----------------------------------------------------------------------------
(* Orders that have been written, and the forms about them.                *)

\* What an order bought never changes once its row is written.
LEMMA PlacementKept ==
  ASSUME TypeOK, FormsHonest, [Next]_vars, NEW o \in Orders, Written(o)
  PROVE  placed'[o] = placed[o] /\ Written(o)'
<1>1. CASE UNCHANGED <<status, placed>>
  BY <1>1 DEF Written
<1>2. CASE LedgerNext
  <2>1. ASSUME NEW q \in Orders,
               \/ \E g \in Goods, n \in 1..MaxAmount, k \in Coupons \cup {NoCoupon} : BeginCheckout(q, g, n, k)
               \/ RefuseCheckout(q)
        PROVE  placed'[o] = placed[o] /\ status'[o] = status[o]
    <3>1. /\ status[q] \in {Blank, Checking}
          /\ \E s : status' = [status EXCEPT ![q] = s]
          /\ \E p : placed' = [placed EXCEPT ![q] = p]
      BY <2>1 DEF BeginCheckout, RefuseCheckout
    <3> QED BY <3>1 DEF Written, TypeOK, LedgerTypeOK
  <2>2. ASSUME NEW q \in Orders,
               PlaceOrder(q) \/ Complete(q) \/ Redeliver(q) \/ ExpireOne(q)
        PROVE  placed'[o] = placed[o] /\ Written(o)'
    <3>1. CASE PlaceOrder(q) \/ ExpireOne(q)
      <4>1. /\ UNCHANGED placed
            /\ \E s \in {Unpaid, Expired} : status' = [status EXCEPT ![q] = s] \/ UNCHANGED status
        BY <3>1 DEF PlaceOrder, ExpireOne
      <4> QED BY <4>1 DEF Written, TypeOK, LedgerTypeOK
    <3>2. CASE Complete(q) \/ Redeliver(q)
      <4>1. UNCHANGED placed /\ \E s \in {Done, Pending, Short} : status' = [status EXCEPT ![q] = s]
        BY <3>2 DEF Complete, Redeliver, DeliverCards, TakeManual, SettleShort
      <4> QED BY <4>1 DEF Written, TypeOK, LedgerTypeOK
    <3> QED BY <2>2, <3>1, <3>2
  <2>3. ASSUME NEW q \in Orders, GrowOld(q) \/ \E amount \in {"other", "exact"} : BuyerPays(q, amount)
        PROVE  UNCHANGED <<status, placed>>
    BY <2>3 DEF GrowOld, BuyerPays, orderVars
  <2>4. ASSUME ListDue \/ SweepFails
        PROVE  UNCHANGED <<status, placed>>
    BY <2>4 DEF ListDue, SweepFails, orderVars
  <2> QED BY <1>1, <1>2, <2>1, <2>2, <2>3, <2>4 DEF LedgerNext, Written
<1>3. CASE OwnerNext
  <2>1. ASSUME NEW d \in Desks, SaveOrder(d)
        PROVE  placed'[o] = placed[o] /\ Written(o)'
    <3>1. /\ UNCHANGED placed /\ desk[d].order \in Orders
          /\ status[desk[d].order] = desk[d].prev
          /\ status' = [status EXCEPT ![desk[d].order] = desk[d].to]
      BY <2>1 DEF SaveOrder, StillAsRead, TypeOK, Forms, Idle
    <3>2. \/ desk[d].to = desk[d].prev
          \/ desk[d].prev \in Progress \ {Done} /\ desk[d].to \in Progress
      BY <2>1, Zenon DEF FormsHonest, FormHonest, SaveOrder
    <3> QED BY <3>1, <3>2 DEF Written, Progress, TypeOK, LedgerTypeOK
  <2>2. ASSUME NEW d \in Desks, OrdersPage(d), ~SaveOrder(d)
        PROVE  UNCHANGED <<status, placed>>
    BY <2>2 DEF OrdersPage, ShowOrder, PostOrder, LeaveOrder, ledgerVars, orderVars
  <2>3. ASSUME NEW c \in Cards, CardsPage(c)
        PROVE  UNCHANGED <<status, placed>>
    BY <2>3 DEF CardsPage, ImportCard, LockCard, EditCard, DeleteOrRestoreCard, UnlockCard, orderVars
  <2>4. ASSUME NEW g \in Goods, GoodsPage(g)
        PROVE  UNCHANGED <<status, placed>>
    BY <2>4 DEF GoodsPage, ShowGoods, SaveGoods, DeleteOrRestoreGoods, LeaveGoods, ledgerVars, orderVars
  <2>5. ASSUME NEW k \in Coupons, CouponsPage(k)
        PROVE  UNCHANGED <<status, placed>>
    BY <2>5 DEF CouponsPage, SaveCoupon, DeleteOrRestoreCoupon, orderVars
  <2> QED BY <1>1, <1>3, <2>1, <2>2, <2>3, <2>4, <2>5 DEF OwnerNext
<1>4. CASE Restart
  BY <1>4 DEF Restart, Written
<1>5. CASE UNCHANGED vars
  BY <1>1, <1>5 DEF vars, ledgerVars, orderVars
<1> QED BY <1>2, <1>3, <1>4, <1>5 DEF Next

\* A form about a manual order: it is never moved into 异常, and a form that
\* was read in 异常 takes the stock exactly if the order still owes it.
FormFits(d) ==
    LET f == desk[d] IN
    /\ f.stage # "idle" => f.order \in Orders /\ Written(f.order)
    /\ f.stage = "posted" =>
          /\ f.take => /\ placed[f.order].typ = ManualType
                       /\ f.prev = Short /\ f.to \in {Pending, Processing, Done}
          /\ placed[f.order].typ = ManualType =>
                /\ f.to = Short => f.prev = Short
                /\ f.prev = Short =>
                      /\ status[f.order] \in Progress
                      /\ status[f.order] = Short => /\ f.take => owed[f.order]
                                                    /\ owed[f.order] => f.take \/ f.to = Short

FormsFit == \A d \in Desks : FormFits(d)

\* A manual order that was settled stays settled, and does not return to 异常.
LEMMA ManualStaysMoved ==
  ASSUME TypeOK, FormsHonest, FormsFit, [Next]_vars,
         NEW o \in Orders, placed[o].typ = ManualType, status[o] \in Progress
  PROVE  /\ status'[o] \in Progress
         /\ status'[o] = Short => status[o] = Short /\ owed'[o] = owed[o]
<1>1. status'[o] \in Progress
  BY EveryStepMoves DEF Moves, Rests, WaitsForPayment, Settles, IsMoved
<1>2. CASE status'[o] = status[o] /\ owed'[o] = owed[o]
  BY <1>1, <1>2
<1>3. CASE LedgerNext
  <2>1. ASSUME NEW q \in Orders, Complete(q) \/ Redeliver(q)
        PROVE  status'[o] = status[o] /\ owed'[o] = owed[o]
    <3>1. q # o
      BY <2>1 DEF Complete, Payable, Redeliver, DeliverCards, Progress
    <3>2. /\ \E s : status' = [status EXCEPT ![q] = s]
          /\ UNCHANGED owed \/ \E b : owed' = [owed EXCEPT ![q] = b]
      BY <2>1 DEF Complete, Redeliver, DeliverCards, TakeManual, SettleShort
    <3> QED BY <3>1, <3>2 DEF TypeOK, LedgerTypeOK
  <2>2. ASSUME NEW q \in Orders,
               \/ \E g \in Goods, n \in 1..MaxAmount, k \in Coupons \cup {NoCoupon} : BeginCheckout(q, g, n, k)
               \/ PlaceOrder(q) \/ RefuseCheckout(q) \/ ExpireOne(q)
        PROVE  status'[o] = status[o] /\ owed'[o] = owed[o]
    <3>1. /\ UNCHANGED owed
          /\ \/ UNCHANGED status
             \/ status[q] \in {Blank, Checking, Unpaid} /\ \E s : status' = [status EXCEPT ![q] = s]
      BY <2>2 DEF BeginCheckout, PlaceOrder, RefuseCheckout, ExpireOne, Expirable
    <3> QED BY <3>1 DEF Progress, TypeOK, LedgerTypeOK
  <2>3. ASSUME NEW q \in Orders, GrowOld(q) \/ \E amount \in {"other", "exact"} : BuyerPays(q, amount)
        PROVE  UNCHANGED <<status, owed>>
    BY <2>3 DEF GrowOld, BuyerPays, orderVars
  <2>4. ASSUME ListDue \/ SweepFails
        PROVE  UNCHANGED <<status, owed>>
    BY <2>4 DEF ListDue, SweepFails, orderVars
  <2> QED BY <1>2, <1>3, <2>1, <2>2, <2>3, <2>4 DEF LedgerNext
<1>4. CASE OwnerNext
  <2>1. ASSUME NEW d \in Desks, SaveOrder(d), status'[o] = Short
        PROVE  status[o] = Short /\ owed'[o] = owed[o]
    <3>1. /\ desk[d].stage = "posted" /\ desk[d].order \in Orders
          /\ status[desk[d].order] = desk[d].prev
          /\ status' = [status EXCEPT ![desk[d].order] = desk[d].to]
          /\ IF desk[d].take THEN owed' = [owed EXCEPT ![desk[d].order] = FALSE] ELSE UNCHANGED owed
      BY <2>1 DEF SaveOrder, StillAsRead, TypeOK, Forms, Idle
    <3>2. CASE desk[d].order = o
      <4>1. desk[d].to = Short
        BY <2>1, <3>1, <3>2 DEF TypeOK, LedgerTypeOK
      <4>2. desk[d].prev = Short /\ ~desk[d].take
        BY <3>1, <3>2, <4>1 DEF FormsFit, FormFits
      <4> QED BY <3>1, <3>2, <4>2
    <3>3. CASE desk[d].order # o
      BY <2>1, <3>1, <3>3 DEF TypeOK, LedgerTypeOK
    <3> QED BY <3>2, <3>3
  <2>2. ASSUME NEW d \in Desks, OrdersPage(d), ~SaveOrder(d)
        PROVE  UNCHANGED <<status, owed>>
    BY <2>2 DEF OrdersPage, ShowOrder, PostOrder, LeaveOrder, ledgerVars, orderVars
  <2>3. ASSUME NEW c \in Cards, CardsPage(c)
        PROVE  UNCHANGED <<status, owed>>
    BY <2>3 DEF CardsPage, ImportCard, LockCard, EditCard, DeleteOrRestoreCard, UnlockCard, orderVars
  <2>4. ASSUME NEW g \in Goods, GoodsPage(g)
        PROVE  UNCHANGED <<status, owed>>
    BY <2>4 DEF GoodsPage, ShowGoods, SaveGoods, DeleteOrRestoreGoods, LeaveGoods, ledgerVars, orderVars
  <2>5. ASSUME NEW k \in Coupons, CouponsPage(k)
        PROVE  UNCHANGED <<status, owed>>
    BY <2>5 DEF CouponsPage, SaveCoupon, DeleteOrRestoreCoupon, orderVars
  <2> QED BY <1>1, <1>2, <1>4, <2>1, <2>2, <2>3, <2>4, <2>5 DEF OwnerNext
<1>5. CASE Restart
  BY <1>2, <1>5 DEF Restart, Progress
<1>6. CASE UNCHANGED vars
  BY <1>2, <1>6 DEF vars, ledgerVars, orderVars
<1> QED BY <1>3, <1>4, <1>5, <1>6 DEF Next

LEMMA DeskChanges ==
  ASSUME TypeOK, [Next]_vars, NEW e \in Desks
  PROVE  \/ desk'[e] = desk[e] \/ desk'[e] = Idle
         \/ \E o \in Orders : ShowOrder(e, o)
         \/ \E to \in Statuses : PostOrder(e, to)
<1>1. CASE UNCHANGED desk
  BY <1>1
<1>2. CASE OwnerNext
  <2>1. ASSUME NEW d \in Desks, OrdersPage(d), d # e
        PROVE  desk'[e] = desk[e]
    BY <2>1 DEF OrdersPage, ShowOrder, PostOrder, SaveOrder, LeaveOrder, TypeOK
  <2>2. ASSUME OrdersPage(e), ~\E o \in Orders : ShowOrder(e, o), ~\E to \in Statuses : PostOrder(e, to)
        PROVE  desk'[e] = Idle
    BY <2>2 DEF OrdersPage, SaveOrder, LeaveOrder, TypeOK
  <2>3. ASSUME NEW c \in Cards, CardsPage(c) PROVE UNCHANGED desk
    BY <2>3 DEF CardsPage, ImportCard, LockCard, EditCard, DeleteOrRestoreCard, UnlockCard, deskVars
  <2>4. ASSUME NEW g \in Goods, GoodsPage(g) PROVE UNCHANGED desk
    BY <2>4 DEF GoodsPage, ShowGoods, SaveGoods, DeleteOrRestoreGoods, LeaveGoods, deskVars
  <2>5. ASSUME NEW k \in Coupons, CouponsPage(k) PROVE UNCHANGED desk
    BY <2>5 DEF CouponsPage, SaveCoupon, DeleteOrRestoreCoupon, deskVars
  <2> QED BY <1>1, <1>2, <2>1, <2>2, <2>3, <2>4, <2>5 DEF OwnerNext
<1>3. CASE Restart
  BY <1>3 DEF Restart
<1> QED BY <1>1, <1>2, <1>3 DEF Next, vars, deskVars

LEMMA FormsFitStep == TypeOK /\ FormsHonest /\ FormsFit /\ [Next]_vars => FormsFit'
<1> SUFFICES ASSUME TypeOK, FormsHonest, FormsFit, [Next]_vars, NEW e \in Desks
             PROVE  FormFits(e)'
  BY DEF FormsFit
<1>1. FormFits(e)
  BY DEF FormsFit
<1>2. CASE desk'[e] = desk[e]
  <2>1. CASE desk[e].stage = "idle"
    BY <1>2, <2>1 DEF FormFits
  <2>2. CASE desk[e].stage # "idle"
    <3>1. PICK o \in Orders : o = desk[e].order /\ Written(o)
      BY <1>1, <2>2 DEF FormFits
    <3>2. placed'[o] = placed[o] /\ Written(o)'
      BY <3>1, PlacementKept
    <3>3. ASSUME placed[o].typ = ManualType, status[o] \in Progress
          PROVE  /\ status'[o] \in Progress
                 /\ status'[o] = Short => status[o] = Short /\ owed'[o] = owed[o]
      BY <3>3, ManualStaysMoved
    <3>4. desk'[e].order = o
      BY <1>2, <3>1
    <3> QED BY <1>1, <1>2, <2>2, <3>1, <3>2, <3>3, <3>4 DEF FormFits, Written
  <2> QED BY <2>1, <2>2
<1>3. CASE desk'[e] = Idle
  BY <1>3 DEF FormFits, Idle
<1>4. ASSUME NEW o \in Orders, ShowOrder(e, o) PROVE FormFits(e)'
  <2>1. desk'[e] = [Idle EXCEPT !.stage = "page", !.order = o, !.info = info[o]]
    BY <1>4 DEF ShowOrder, TypeOK
  <2>2. desk'[e].stage = "page" /\ desk'[e].order = o
    BY <2>1 DEF Idle
  <2>3. Written(o)'
    BY <1>4 DEF ShowOrder, Written, ledgerVars, orderVars
  <2> QED BY <2>2, <2>3 DEF FormFits
<1>5. ASSUME NEW to \in Statuses, PostOrder(e, to) PROVE FormFits(e)'
  <2>1. PICK o \in Orders : o = desk[e].order /\ Written(o)
    BY <1>1, <1>5 DEF PostOrder, FormFits
  <2>2. /\ MayMove(o, to) /\ desk[e].stage = "page"
        /\ UNCHANGED <<status, placed, owed>>
    BY <1>5, <2>1 DEF PostOrder, ledgerVars, orderVars
  <2>3. desk'[e] = [desk[e] EXCEPT !.stage = "posted", !.prev = status[o], !.to = to,
                                   !.take = TakesStock(o, to)]
    BY <1>5, <2>1 DEF PostOrder, TypeOK
  <2>4. desk[e] \in [stage: {"page", "posted"}, order: Orders,
                     info: SUBSET (Cards \cup {NoteShort, NoteInput}),
                     prev: Statuses, to: Statuses, take: BOOLEAN]
    BY <2>2 DEF TypeOK, Forms, Idle
  <2>5. /\ desk'[e].stage = "posted" /\ desk'[e].order = o /\ desk'[e].prev = status[o]
        /\ desk'[e].to = to /\ desk'[e].take = TakesStock(o, to)
    BY <2>1, <2>3, <2>4
  <2>6. TakesStock(o, to) => placed[o].typ = ManualType /\ status[o] = Short /\ to \in {Pending, Processing, Done}
    BY DEF TakesStock, Owes
  <2>7. placed[o].typ = ManualType /\ to = Short => status[o] = Short
    BY <2>2 DEF MayMove
  <2>8. ASSUME placed[o].typ = ManualType, status[o] = Short
        PROVE  /\ TakesStock(o, to) => owed[o]
               /\ owed[o] => TakesStock(o, to) \/ to = Short
    BY <2>2, <2>8 DEF MayMove, TakesStock, Owes, Progress
  <2>9. Short \in Progress /\ status'[o] = status[o] /\ placed'[o] = placed[o] /\ owed'[o] = owed[o]
    BY <2>2 DEF Progress
  <2> QED BY <2>1, <2>5, <2>6, <2>7, <2>8, <2>9 DEF FormFits, Written
<1> QED BY <1>2, <1>3, <1>4, <1>5, DeskChanges

LEMMA FormsFitInit == Init => FormsFit
BY DEF Init, FormsFit, FormFits, Idle

-----------------------------------------------------------------------------
(* Goods pages.  goodsSave writes back the stock and the sales its page    *)
(* showed, so a page posted after its row changed loses an update (the     *)
(* README says more); what follows holds where no such page is posted.     *)

FreshPages == ~StaleForms \/ "goods" \notin OwnerTasks

PagesHonest == "goods" \notin OwnerTasks => \A g \in Goods : page[g] = NoPage

LEMMA PagesHonestInit == Init => PagesHonest
BY DEF Init, PagesHonest

LEMMA PagesHonestStep == TypeOK /\ PagesHonest /\ [Next]_vars => PagesHonest'
<1> SUFFICES ASSUME TypeOK, PagesHonest, [Next]_vars, "goods" \notin OwnerTasks, NEW h \in Goods
             PROVE  page'[h] = NoPage
  BY DEF PagesHonest
<1>1. page[h] = NoPage
  BY DEF PagesHonest
<1>2. CASE UNCHANGED page
  BY <1>1, <1>2
<1>3. CASE OwnerNext
  <2>1. ASSUME NEW g \in Goods, GoodsPage(g) PROVE page'[h] = NoPage
    BY <1>1, <2>1 DEF GoodsPage, ShowGoods, SaveGoods, DeleteOrRestoreGoods, LeaveGoods, deskVars, TypeOK
  <2>2. ASSUME NEW d \in Desks, OrdersPage(d) PROVE UNCHANGED page
    BY <2>2 DEF OrdersPage, ShowOrder, PostOrder, SaveOrder, LeaveOrder
  <2>3. ASSUME NEW c \in Cards, CardsPage(c) PROVE UNCHANGED page
    BY <2>3 DEF CardsPage, ImportCard, LockCard, EditCard, DeleteOrRestoreCard, UnlockCard, deskVars
  <2>4. ASSUME NEW k \in Coupons, CouponsPage(k) PROVE UNCHANGED page
    BY <2>4 DEF CouponsPage, SaveCoupon, DeleteOrRestoreCoupon, deskVars
  <2> QED BY <1>2, <1>3, <2>1, <2>2, <2>3, <2>4 DEF OwnerNext
<1>4. CASE Restart
  BY <1>2, <1>4 DEF Restart
<1> QED BY <1>2, <1>3, <1>4 DEF Next, vars, deskVars

\* A goods page that is saved shows the row as it is.
LEMMA PageShowsRow ==
  ASSUME FreshPages, TypeOK, PagesHonest, NEW g \in Goods, NEW delta, NEW open, NEW typ,
         SaveGoods(g, delta, open, typ)
  PROVE  page[g].stock = inStock[g] /\ page[g].sales = sales[g]
<1>1. "goods" \in OwnerTasks
  BY DEF SaveGoods, PagesHonest
<1>2. page[g] = [stock |-> inStock[g], sales |-> sales[g]]
  BY <1>1 DEF FreshPages, SaveGoods
<1> QED BY <1>2

-----------------------------------------------------------------------------
(* Sales.  No order is booked twice because a booked order is never again  *)
(* in a status that settle accepts: an auto order is done, a manual one    *)
(* never returns to 异常.                                                   *)

BookedFits ==
    \A o \in booked :
        \/ placed[o].typ = AutoType /\ status[o] = Done
        \/ placed[o].typ = ManualType /\ status[o] \in Progress \ {Short}

SoldOf(g) == {o \in booked : placed[o].gid = g}

\* Only what is asked about the orders counted matters.
LEMMA SameUnits ==
  ASSUME NEW S, NEW p, NEW q, \A o \in S : p[o] = q[o]
  PROVE  UnitsAt(S, p) = UnitsAt(S, q)
BY DEF UnitsAt

LEMMA BookedFitsStep ==
  TypeOK /\ FormsHonest /\ FormsFit /\ BookedFits /\ [Next]_vars
  => /\ BookedFits'
     /\ \A o \in booked : Written(o) /\ placed'[o] = placed[o]
<1> SUFFICES ASSUME TypeOK, FormsHonest, FormsFit, BookedFits, [Next]_vars
             PROVE  /\ BookedFits'
                    /\ \A o \in booked : Written(o) /\ placed'[o] = placed[o]
  OBVIOUS
<1>1. booked \subseteq Orders
  BY DEF TypeOK, LedgerTypeOK
<1>2. ASSUME NEW o \in booked PROVE Written(o) /\ placed'[o] = placed[o]
  <2>1. Written(o)
    BY DEF BookedFits, Written, Progress
  <2> QED BY <1>1, <2>1, PlacementKept
<1>3. ASSUME NEW o \in booked
      PROVE  \/ placed'[o].typ = AutoType /\ status'[o] = Done
             \/ placed'[o].typ = ManualType /\ status'[o] \in Progress \ {Short}
  <2>1. CASE placed[o].typ = AutoType /\ status[o] = Done
    BY <1>1, <1>2, <2>1, EveryStepMoves DEF Moves, Rests, WaitsForPayment, Settles, IsMoved, Progress
  <2>2. CASE placed[o].typ = ManualType /\ status[o] \in Progress \ {Short}
    BY <1>1, <1>2, <2>2, ManualStaysMoved
  <2> QED BY <2>1, <2>2 DEF BookedFits
<1>4. CASE UNCHANGED booked
  BY <1>2, <1>3, <1>4 DEF BookedFits
<1>5. ASSUME NEW o \in Orders, Complete(o) \/ Redeliver(o)
      PROVE  BookedFits'
  <2>1. CASE UNCHANGED booked
    BY <1>4, <2>1
  <2>2. CASE booked' # booked
    <3>1. /\ booked' = booked \cup {o}
          /\ \/ placed'[o].typ = AutoType /\ status'[o] = Done
             \/ placed'[o].typ = ManualType /\ status'[o] = Pending
      <4>1. CASE \E t : DeliverCards(o, t)
        BY <4>1 DEF DeliverCards, BookSale, TypeOK, LedgerTypeOK
      <4>2. CASE TakeManual(o)
        BY <4>2 DEF TakeManual, BookSale, TypeOK, LedgerTypeOK
      <4>3. CASE SettleShort(o)
        BY <2>2, <4>3 DEF SettleShort, ghostVars
      <4> QED BY <1>5, <4>1, <4>2, <4>3 DEF Complete, Redeliver
    <3> QED BY <1>3, <3>1 DEF BookedFits, Progress
  <2> QED BY <2>1, <2>2
<1>6. CASE LedgerNext
  <2>1. ASSUME NEW o \in Orders,
               \/ \E g \in Goods, n \in 1..MaxAmount, k \in Coupons \cup {NoCoupon} : BeginCheckout(o, g, n, k)
               \/ PlaceOrder(o) \/ RefuseCheckout(o) \/ ExpireOne(o)
               \/ GrowOld(o) \/ \E amount \in {"other", "exact"} : BuyerPays(o, amount)
        PROVE  UNCHANGED booked
    BY <2>1 DEF BeginCheckout, PlaceOrder, RefuseCheckout, ExpireOne, GrowOld, BuyerPays, ghostVars
  <2>2. ASSUME ListDue \/ SweepFails PROVE UNCHANGED booked
    BY <2>2 DEF ListDue, SweepFails, ghostVars
  <2> QED BY <1>2, <1>4, <1>5, <1>6, <2>1, <2>2 DEF LedgerNext
<1>7. CASE OwnerNext
  <2>1. ASSUME NEW d \in Desks, OrdersPage(d) PROVE UNCHANGED booked
    BY <2>1 DEF OrdersPage, ShowOrder, PostOrder, SaveOrder, LeaveOrder, ledgerVars, ghostVars
  <2>2. ASSUME NEW c \in Cards, CardsPage(c) PROVE UNCHANGED booked
    BY <2>2 DEF CardsPage, ImportCard, LockCard, EditCard, DeleteOrRestoreCard, UnlockCard, ghostVars
  <2>3. ASSUME NEW g \in Goods, GoodsPage(g) PROVE UNCHANGED booked
    BY <2>3 DEF GoodsPage, ShowGoods, SaveGoods, DeleteOrRestoreGoods, LeaveGoods, ledgerVars, ghostVars
  <2>4. ASSUME NEW k \in Coupons, CouponsPage(k) PROVE UNCHANGED booked
    BY <2>4 DEF CouponsPage, SaveCoupon, DeleteOrRestoreCoupon, ghostVars
  <2> QED BY <1>4, <1>7, <2>1, <2>2, <2>3, <2>4 DEF OwnerNext
<1>8. CASE Restart \/ UNCHANGED vars
  BY <1>4, <1>8 DEF Restart, vars, ledgerVars, ghostVars
<1> QED BY <1>2, <1>6, <1>7, <1>8 DEF Next

LEMMA SalesFrame ==
  ASSUME SalesCountedOnce, UNCHANGED <<sales, booked>>, \A o \in booked : placed'[o] = placed[o]
  PROVE  SalesCountedOnce'
<1> SUFFICES ASSUME NEW g \in Goods
             PROVE  sales[g] = Cardinality(UnitsAt(SoldOf(g)', placed'))
  BY DEF SalesCountedOnce, Units, UnitsAt, SoldOf
<1>1. sales[g] = Cardinality(UnitsAt(SoldOf(g), placed))
  BY DEF SalesCountedOnce, Units, UnitsAt, SoldOf
<1>2. SoldOf(g)' = SoldOf(g)
  BY DEF SoldOf
<1>3. UnitsAt(SoldOf(g), placed') = UnitsAt(SoldOf(g), placed)
  BY SameUnits DEF SoldOf
<1> QED BY <1>1, <1>2, <1>3

LEMMA SaleBooked ==
  ASSUME TypeOK, SalesCountedOnce, NEW o \in Orders \ booked, placed[o] \in Placements,
         BookSale(o), UNCHANGED placed
  PROVE  SalesCountedOnce'
<1> SUFFICES ASSUME NEW g \in Goods
             PROVE  sales'[g] = Cardinality(UnitsAt(SoldOf(g)', placed))
  BY DEF SalesCountedOnce, Units, UnitsAt, SoldOf
<1>1. sales[g] = Cardinality(UnitsAt(SoldOf(g), placed))
  BY DEF SalesCountedOnce, Units, UnitsAt, SoldOf
<1>2. /\ sales' = [sales EXCEPT ![placed[o].gid] = @ + placed[o].amt]
      /\ booked' = booked \cup {o} /\ sales \in [Goods -> Nat]
      /\ placed[o].gid \in Goods /\ placed[o].amt \in 1..MaxAmount
  BY DEF BookSale, TypeOK, LedgerTypeOK, Placements
<1>3. IsFiniteSet(SoldOf(g)) /\ o \notin SoldOf(g)
  <2>1. SoldOf(g) \in SUBSET Orders
    BY DEF SoldOf, TypeOK, LedgerTypeOK
  <2> QED BY <2>1, LedgerAssumption, FS_Subset DEF SoldOf
<1>4. CASE g = placed[o].gid
  <2>1. SoldOf(g)' = SoldOf(g) \cup {o}
    BY <1>2, <1>4 DEF SoldOf
  <2>2. Cardinality(UnitsAt(SoldOf(g) \cup {o}, placed)) = Cardinality(UnitsAt(SoldOf(g), placed)) + placed[o].amt
    BY <1>2, <1>3, OneOrderMore
  <2>3. sales'[g] = sales[g] + placed[o].amt
    BY <1>2, <1>4
  <2> QED BY <1>1, <2>1, <2>2, <2>3
<1>5. CASE g # placed[o].gid
  <2>1. SoldOf(g)' = SoldOf(g) /\ sales'[g] = sales[g]
    BY <1>2, <1>5 DEF SoldOf
  <2> QED BY <1>1, <2>1
<1> QED BY <1>4, <1>5

LEMMA SalesStep ==
  ASSUME FreshPages
  PROVE  /\ TypeOK /\ FormsHonest /\ FormsFit /\ PagesHonest /\ BookedFits /\ SalesCountedOnce
         /\ [Next]_vars
         => SalesCountedOnce'
<1> SUFFICES ASSUME TypeOK, FormsHonest, FormsFit, PagesHonest, BookedFits, SalesCountedOnce, [Next]_vars
             PROVE  SalesCountedOnce'
  OBVIOUS
<1>1. \A o \in booked : Written(o) /\ placed'[o] = placed[o]
  BY BookedFitsStep
<1>2. CASE UNCHANGED <<sales, booked>>
  BY <1>1, <1>2, SalesFrame
<1>3. ASSUME NEW o \in Orders, Complete(o) \/ Redeliver(o)
      PROVE  SalesCountedOnce'
  <2>1. CASE SettleShort(o)
    BY <1>2, <2>1 DEF SettleShort, goodsVars, ghostVars
  <2>2. CASE TakeManual(o) \/ \E t : DeliverCards(o, t)
    <3>1. BookSale(o) /\ UNCHANGED placed /\ placed[o].typ \in {AutoType, ManualType}
      BY <2>2 DEF TakeManual, DeliverCards
    <3>2. placed[o] \in Placements
      BY <3>1 DEF TypeOK, LedgerTypeOK, NoPlacement
    <3>3. o \notin booked
      BY <1>3 DEF BookedFits, Complete, Payable, Redeliver, DeliverCards, Progress
    <3> QED BY <3>1, <3>2, <3>3, SaleBooked
  <2> QED BY <1>3, <2>1, <2>2 DEF Complete, Redeliver
<1>4. CASE LedgerNext
  <2>1. ASSUME NEW o \in Orders,
               \/ \E g \in Goods, n \in 1..MaxAmount, k \in Coupons \cup {NoCoupon} : BeginCheckout(o, g, n, k)
               \/ PlaceOrder(o) \/ RefuseCheckout(o) \/ ExpireOne(o)
               \/ GrowOld(o) \/ \E amount \in {"other", "exact"} : BuyerPays(o, amount)
        PROVE  UNCHANGED <<sales, booked>>
    BY <2>1 DEF BeginCheckout, PlaceOrder, RefuseCheckout, ExpireOne, GrowOld, BuyerPays, goodsVars, ghostVars
  <2>2. ASSUME ListDue \/ SweepFails PROVE UNCHANGED <<sales, booked>>
    BY <2>2 DEF ListDue, SweepFails, goodsVars, ghostVars
  <2> QED BY <1>2, <1>3, <1>4, <2>1, <2>2 DEF LedgerNext
<1>5. CASE OwnerNext
  <2>1. ASSUME NEW d \in Desks, OrdersPage(d) PROVE UNCHANGED <<sales, booked>>
    BY <2>1 DEF OrdersPage, ShowOrder, PostOrder, SaveOrder, LeaveOrder, ledgerVars, goodsVars, ghostVars
  <2>2. ASSUME NEW c \in Cards, CardsPage(c) PROVE UNCHANGED <<sales, booked>>
    BY <2>2 DEF CardsPage, ImportCard, LockCard, EditCard, DeleteOrRestoreCard, UnlockCard, goodsVars, ghostVars
  <2>3. ASSUME NEW g \in Goods, GoodsPage(g) PROVE UNCHANGED <<sales, booked>>
    <3>1. ASSUME NEW delta, NEW open, NEW typ, SaveGoods(g, delta, open, typ)
          PROVE  UNCHANGED <<sales, booked>>
      BY <3>1, PageShowsRow DEF SaveGoods, TypeOK, LedgerTypeOK
    <3> QED BY <2>3, <3>1 DEF GoodsPage, ShowGoods, DeleteOrRestoreGoods, LeaveGoods, ledgerVars, goodsVars, ghostVars
  <2>4. ASSUME NEW k \in Coupons, CouponsPage(k) PROVE UNCHANGED <<sales, booked>>
    BY <2>4 DEF CouponsPage, SaveCoupon, DeleteOrRestoreCoupon, goodsVars, ghostVars
  <2> QED BY <1>2, <1>5, <2>1, <2>2, <2>3, <2>4 DEF OwnerNext
<1>6. CASE Restart \/ UNCHANGED vars
  BY <1>2, <1>6 DEF Restart, vars, ledgerVars, goodsVars, ghostVars
<1> QED BY <1>4, <1>5, <1>6 DEF Next

LEMMA SalesInit == Init => BookedFits /\ SalesCountedOnce
<1> SUFFICES ASSUME Init PROVE BookedFits /\ SalesCountedOnce
  OBVIOUS
<1>1. booked = {} /\ \A g \in Goods : sales[g] = 0
  BY DEF Init, LedgerInit
<1>2. ASSUME NEW g \in Goods PROVE Units({o \in booked : placed[o].gid = g}) = {}
  BY <1>1 DEF Units
<1> QED BY <1>1, <1>2, FS_EmptySet DEF BookedFits, SalesCountedOnce

\* settle, orderSave and goodsSave together: sales_volume counts the units of
\* each settled order once, however often its payment is notified or the
\* owner redelivers or moves it, as long as no goods page is posted stale.
THEOREM SalesAreCountedOnce ==
  ASSUME FreshPages
  PROVE  Spec => []SalesCountedOnce
<1> DEFINE IInv == TypeOK /\ FormsHonest /\ FormsFit /\ PagesHonest /\ BookedFits /\ SalesCountedOnce
<1>1. Init => IInv
  BY TypeInit, FormsHonestInit, FormsFitInit, PagesHonestInit, SalesInit
<1>2. IInv /\ [Next]_vars => IInv'
  <2>1. IInv /\ [Next]_vars => SalesCountedOnce'
    BY SalesStep
  <2> QED BY <2>1, TypeStep, FormsHonestStep, FormsFitStep, PagesHonestStep, BookedFitsStep
<1>3. IInv => SalesCountedOnce
  OBVIOUS
<1> QED BY <1>1, <1>2, <1>3, PTL DEF Spec

-----------------------------------------------------------------------------
(* Stock of manual goods.                                                  *)

HeldOf(g) == {o \in Orders : HoldsStock(o) /\ placed[o].gid = g}

UnitsHeld(g) == Cardinality(UnitsAt(HeldOf(g), placed))

LEMMA StockBalance ==
  /\ StockConserved <=> \A g \in Goods : inStock[g] + UnitsHeld(g) = supply[g]
  /\ StockConserved' <=> \A g \in Goods : inStock'[g] + UnitsHeld(g)' = supply'[g]
BY DEF StockConserved, Units, UnitsAt, HeldOf, UnitsHeld

LEMMA HeldType ==
  ASSUME NEW g
  PROVE  IsFiniteSet(HeldOf(g)) /\ UnitsHeld(g) \in Nat
<1>1. HeldOf(g) \in SUBSET Orders
  BY DEF HeldOf
<1>2. IsFiniteSet(HeldOf(g))
  BY <1>1, LedgerAssumption, FS_Subset
<1> QED BY <1>2, FinitelyManyUnits DEF UnitsHeld

LEMMA HeldSame ==
  ASSUME \A q \in Orders : /\ HoldsStock(q)' <=> HoldsStock(q)
                           /\ HoldsStock(q) => placed'[q] = placed[q],
         NEW g
  PROVE  UnitsHeld(g)' = UnitsHeld(g)
<1>1. HeldOf(g)' = HeldOf(g)
  BY DEF HeldOf
<1>2. UnitsAt(HeldOf(g), placed') = UnitsAt(HeldOf(g), placed)
  BY SameUnits DEF HeldOf
<1>3. UnitsHeld(g)' = Cardinality(UnitsAt(HeldOf(g)', placed'))
  BY DEF UnitsHeld, UnitsAt
<1> QED BY <1>1, <1>2, <1>3 DEF UnitsHeld

LEMMA StockFrame ==
  ASSUME StockConserved, UNCHANGED <<inStock, supply>>,
         \A q \in Orders : /\ HoldsStock(q)' <=> HoldsStock(q)
                           /\ HoldsStock(q) => placed'[q] = placed[q]
  PROVE  StockConserved'
BY StockBalance, HeldSame

\* One order more holds stock, all others as before.
LEMMA HeldMore ==
  ASSUME NEW o \in Orders, UNCHANGED placed, placed[o].amt \in 1..MaxAmount,
         \A q \in Orders \ {o} : HoldsStock(q)' <=> HoldsStock(q),
         ~HoldsStock(o), HoldsStock(o)', NEW g
  PROVE  UnitsHeld(g)' = IF g = placed[o].gid THEN UnitsHeld(g) + placed[o].amt ELSE UnitsHeld(g)
<1>1. UnitsHeld(g)' = Cardinality(UnitsAt(HeldOf(g)', placed))
  BY DEF UnitsHeld, UnitsAt
<1>2. CASE g = placed[o].gid
  <2>1. HeldOf(g)' = HeldOf(g) \cup {o} /\ o \notin HeldOf(g)
    BY <1>2 DEF HeldOf
  <2>2. IsFiniteSet(HeldOf(g))
    BY HeldType
  <2>3. Cardinality(UnitsAt(HeldOf(g) \cup {o}, placed)) = UnitsHeld(g) + placed[o].amt
    BY <2>1, <2>2, OneOrderMore DEF UnitsHeld
  <2> QED BY <1>1, <1>2, <2>1, <2>3
<1>3. CASE g # placed[o].gid
  <2>1. HeldOf(g)' = HeldOf(g)
    BY <1>3 DEF HeldOf
  <2> QED BY <1>1, <1>3, <2>1 DEF UnitsHeld
<1> QED BY <1>2, <1>3

\* One order fewer.
LEMMA HeldLess ==
  ASSUME NEW o \in Orders, UNCHANGED placed, placed[o].amt \in 1..MaxAmount,
         \A q \in Orders \ {o} : HoldsStock(q)' <=> HoldsStock(q),
         HoldsStock(o), ~HoldsStock(o)', NEW g
  PROVE  UnitsHeld(g) = IF g = placed[o].gid THEN UnitsHeld(g)' + placed[o].amt ELSE UnitsHeld(g)'
<1>1. UnitsHeld(g)' = Cardinality(UnitsAt(HeldOf(g)', placed))
  BY DEF UnitsHeld, UnitsAt
<1>2. CASE g = placed[o].gid
  <2>1. HeldOf(g) = HeldOf(g)' \cup {o} /\ o \notin HeldOf(g)'
    BY <1>2 DEF HeldOf
  <2>2. IsFiniteSet(HeldOf(g)')
    BY <2>1, HeldType, FS_Subset
  <2>3. Cardinality(UnitsAt(HeldOf(g)' \cup {o}, placed))
        = Cardinality(UnitsAt(HeldOf(g)', placed)) + placed[o].amt
    BY <2>1, <2>2, OneOrderMore
  <2> QED BY <1>1, <1>2, <2>1, <2>3 DEF UnitsHeld
<1>3. CASE g # placed[o].gid
  <2>1. HeldOf(g)' = HeldOf(g)
    BY <1>3 DEF HeldOf
  <2> QED BY <1>1, <1>3, <2>1 DEF UnitsHeld
<1> QED BY <1>2, <1>3

LEMMA ManualPlacement ==
  ASSUME TypeOK, NEW o \in Orders, placed[o].typ = ManualType
  PROVE  placed[o].gid \in Goods /\ placed[o].amt \in 1..MaxAmount /\ placed[o].amt \in Nat
<1>1. placed[o] \in Placements
  BY DEF TypeOK, LedgerTypeOK, NoPlacement
<1> QED BY <1>1, LedgerAssumption DEF Placements

\* An order takes the units it holds out of in_stock.
LEMMA StockTaken ==
  ASSUME TypeOK, StockConserved, NEW o \in Orders, placed[o].typ = ManualType,
         UNCHANGED <<placed, supply>>,
         inStock' = [inStock EXCEPT ![placed[o].gid] = @ - placed[o].amt],
         \A q \in Orders \ {o} : HoldsStock(q)' <=> HoldsStock(q),
         ~HoldsStock(o), HoldsStock(o)'
  PROVE  StockConserved'
<1> SUFFICES ASSUME NEW g \in Goods
             PROVE  inStock'[g] + UnitsHeld(g)' = supply[g]
  BY StockBalance
<1>1. inStock[g] + UnitsHeld(g) = supply[g]
  BY StockBalance
<1>2. /\ placed[o].gid \in Goods /\ placed[o].amt \in 1..MaxAmount /\ placed[o].amt \in Nat
      /\ inStock \in [Goods -> Nat] /\ UnitsHeld(g) \in Nat
  BY ManualPlacement, HeldType DEF TypeOK, LedgerTypeOK
<1>3. UnitsHeld(g)' = IF g = placed[o].gid THEN UnitsHeld(g) + placed[o].amt ELSE UnitsHeld(g)
  BY <1>2, HeldMore
<1>4. inStock'[g] = IF g = placed[o].gid THEN inStock[g] - placed[o].amt ELSE inStock[g]
  BY <1>2
<1> QED BY <1>1, <1>2, <1>3, <1>4

\* An order puts them back.
LEMMA StockReturned ==
  ASSUME TypeOK, StockConserved, NEW o \in Orders, placed[o].typ = ManualType,
         UNCHANGED <<placed, supply>>,
         inStock' = [inStock EXCEPT ![placed[o].gid] = @ + placed[o].amt],
         \A q \in Orders \ {o} : HoldsStock(q)' <=> HoldsStock(q),
         HoldsStock(o), ~HoldsStock(o)'
  PROVE  StockConserved'
<1> SUFFICES ASSUME NEW g \in Goods
             PROVE  inStock'[g] + UnitsHeld(g)' = supply[g]
  BY StockBalance
<1>1. inStock[g] + UnitsHeld(g) = supply[g]
  BY StockBalance
<1>2. /\ placed[o].gid \in Goods /\ placed[o].amt \in 1..MaxAmount /\ placed[o].amt \in Nat
      /\ inStock \in [Goods -> Nat] /\ UnitsHeld(g) \in Nat
  BY ManualPlacement, HeldType DEF TypeOK, LedgerTypeOK
<1>3. UnitsHeld(g) = IF g = placed[o].gid THEN UnitsHeld(g)' + placed[o].amt ELSE UnitsHeld(g)'
  BY <1>2, HeldLess
<1>4. inStock'[g] = IF g = placed[o].gid THEN inStock[g] + placed[o].amt ELSE inStock[g]
  BY <1>2
<1>5. UnitsHeld(g)' \in Nat
  <2>1. IsFiniteSet(HeldOf(g)')
    <3>1. HeldOf(g)' \in SUBSET Orders
      BY DEF HeldOf
    <3> QED BY <3>1, LedgerAssumption, FS_Subset
  <2>2. UnitsHeld(g)' = Cardinality(UnitsAt(HeldOf(g)', placed))
    BY DEF UnitsHeld, UnitsAt
  <2> QED BY <2>1, <2>2, FinitelyManyUnits
<1> QED BY <1>1, <1>2, <1>3, <1>4, <1>5

\* What a step that changes one order does to the others.
LEMMA OthersHold ==
  ASSUME TypeOK, NEW o \in Orders, UNCHANGED placed,
         UNCHANGED status \/ \E s : status' = [status EXCEPT ![o] = s],
         UNCHANGED owed \/ \E b : owed' = [owed EXCEPT ![o] = b]
  PROVE  \A q \in Orders \ {o} : HoldsStock(q)' <=> HoldsStock(q)
BY DEF HoldsStock, Written, TypeOK, LedgerTypeOK

LEMMA StockPlace ==
  ASSUME TypeOK, StockConserved, NEW o \in Orders, PlaceOrder(o)
  PROVE  StockConserved'
<1>1. /\ status[o] = Checking /\ status' = [status EXCEPT ![o] = Unpaid]
      /\ UNCHANGED <<placed, owed, supply>>
  BY DEF PlaceOrder, ghostVars
<1>2. status'[o] = Unpaid
  BY <1>1 DEF TypeOK, LedgerTypeOK
<1>3. \A q \in Orders \ {o} : HoldsStock(q)' <=> HoldsStock(q)
  BY <1>1, OthersHold
<1>4. ~HoldsStock(o)
  BY <1>1 DEF HoldsStock, Written
<1>5. CASE placed[o].typ = AutoType
  <2>1. UNCHANGED inStock
    BY <1>5 DEF PlaceOrder
  <2>2. ~HoldsStock(o)'
    BY <1>1, <1>5 DEF HoldsStock
  <2> QED BY <1>1, <1>3, <1>4, <2>1, <2>2, StockFrame
<1>6. CASE placed[o].typ = ManualType
  <2>1. inStock' = [inStock EXCEPT ![placed[o].gid] = @ - placed[o].amt]
    BY <1>6 DEF PlaceOrder
  <2>2. HoldsStock(o)'
    BY <1>1, <1>2, <1>6 DEF HoldsStock, Written
  <2> QED BY <1>1, <1>3, <1>4, <1>6, <2>1, <2>2, StockTaken
<1> QED BY <1>5, <1>6 DEF PlaceOrder

LEMMA StockSettle ==
  ASSUME TypeOK, StockConserved, NEW o \in Orders, Complete(o) \/ Redeliver(o)
  PROVE  StockConserved'
<1>1. CASE \E t : DeliverCards(o, t)
  <2>1. /\ UNCHANGED <<placed, owed, inStock, supply>> /\ placed[o].typ = AutoType
        /\ status' = [status EXCEPT ![o] = Done]
    BY <1>1 DEF DeliverCards
  <2>2. \A q \in Orders \ {o} : HoldsStock(q)' <=> HoldsStock(q)
    BY <2>1, OthersHold
  <2>3. ~HoldsStock(o) /\ ~HoldsStock(o)'
    BY <2>1 DEF HoldsStock
  <2> QED BY <2>1, <2>2, <2>3, StockFrame
<1>2. CASE Payable(o) /\ TakeManual(o)
  <2>1. /\ UNCHANGED <<placed, owed, supply>> /\ placed[o].typ = ManualType
        /\ status[o] \in {Unpaid, Expired} /\ status' = [status EXCEPT ![o] = Pending]
    BY <1>2 DEF TakeManual, Payable
  <2>2. \A q \in Orders \ {o} : HoldsStock(q)' <=> HoldsStock(q)
    BY <2>1, OthersHold
  <2>3. HoldsStock(o)'
    <3>1. status'[o] = Pending
      BY <2>1 DEF TypeOK, LedgerTypeOK
    <3> QED BY <2>1, <3>1 DEF HoldsStock, Written
  <2>4. CASE status[o] = Expired
    <3>1. inStock' = [inStock EXCEPT ![placed[o].gid] = @ - placed[o].amt] /\ ~HoldsStock(o)
      BY <1>2, <2>4 DEF TakeManual, HoldsStock
    <3> QED BY <2>1, <2>2, <2>3, <3>1, StockTaken
  <2>5. CASE status[o] = Unpaid
    <3>1. UNCHANGED inStock /\ HoldsStock(o)
      BY <1>2, <2>1, <2>5 DEF TakeManual, HoldsStock, Written
    <3> QED BY <2>1, <2>2, <2>3, <3>1, StockFrame
  <2> QED BY <2>1, <2>4, <2>5
<1>3. CASE Payable(o) /\ SettleShort(o)
  <2>1. /\ UNCHANGED <<placed, inStock, supply>>
        /\ status' = [status EXCEPT ![o] = Short]
        /\ owed' = [owed EXCEPT ![o] = placed[o].typ = ManualType]
        /\ placed[o].typ = ManualType => status[o] = Expired
    BY <1>3 DEF SettleShort, goodsVars, ghostVars
  <2>2. \A q \in Orders \ {o} : HoldsStock(q)' <=> HoldsStock(q)
    BY <2>1, OthersHold
  <2>3. status'[o] = Short /\ (owed'[o] <=> placed[o].typ = ManualType)
    BY <2>1 DEF TypeOK, LedgerTypeOK
  <2>4. ~HoldsStock(o) /\ ~HoldsStock(o)'
    BY <2>1, <2>3 DEF HoldsStock
  <2> QED BY <2>1, <2>2, <2>4, StockFrame
<1> QED BY <1>1, <1>2, <1>3 DEF Complete, Redeliver

LEMMA StockExpire ==
  ASSUME TypeOK, StockConserved, NEW o \in Orders, ExpireOne(o)
  PROVE  StockConserved'
<1>1. UNCHANGED <<placed, owed, supply>>
  BY DEF ExpireOne, ghostVars
<1>2. CASE status[o] # Unpaid
  <2>1. UNCHANGED <<status, inStock>>
    BY <1>2 DEF ExpireOne, Expirable
  <2> QED BY <1>1, <2>1, StockFrame DEF HoldsStock, Written
<1>3. CASE status[o] = Unpaid
  <2>1. /\ status' = [status EXCEPT ![o] = Expired]
        /\ inStock' = IF placed[o].typ = ManualType
                      THEN [inStock EXCEPT ![placed[o].gid] = @ + placed[o].amt] ELSE inStock
    BY <1>3 DEF ExpireOne, Expirable
  <2>2. \A q \in Orders \ {o} : HoldsStock(q)' <=> HoldsStock(q)
    BY <1>1, <2>1, OthersHold
  <2>3. status'[o] = Expired
    BY <2>1 DEF TypeOK, LedgerTypeOK
  <2>4. ~HoldsStock(o)' /\ (HoldsStock(o) <=> placed[o].typ = ManualType)
    BY <1>3, <2>3 DEF HoldsStock, Written
  <2>5. CASE placed[o].typ = ManualType
    BY <1>1, <2>1, <2>2, <2>4, <2>5, StockReturned
  <2>6. CASE placed[o].typ # ManualType
    BY <1>1, <2>1, <2>2, <2>4, <2>6, StockFrame
  <2> QED BY <2>5, <2>6
<1> QED BY <1>2, <1>3

\* The owner's form takes what the order owes, once, and nothing otherwise.
LEMMA StockSave ==
  ASSUME TypeOK, FormsHonest, FormsFit, StockConserved, NEW d \in Desks, SaveOrder(d)
  PROVE  StockConserved'
<1>1. PICK o \in Orders : o = desk[d].order
  BY DEF SaveOrder, TypeOK, Forms, Idle
<1> DEFINE from == desk[d].prev
           to == desk[d].to
           take == desk[d].take
<1>2. /\ status[o] = from /\ status' = [status EXCEPT ![o] = to]
      /\ IF take
         THEN /\ inStock' = [inStock EXCEPT ![placed[o].gid] = @ - placed[o].amt]
              /\ owed' = [owed EXCEPT ![o] = FALSE]
         ELSE UNCHANGED <<inStock, owed>>
      /\ UNCHANGED <<placed, supply>>
  BY <1>1 DEF SaveOrder, StillAsRead, ghostVars
<1>3. /\ to = from \/ (from \in Progress \ {Done} /\ to \in Progress)
      /\ take => placed[o].typ = ManualType /\ from = Short /\ to \in {Pending, Processing, Done}
      /\ placed[o].typ = ManualType =>
            /\ to = Short => from = Short
            /\ from = Short => /\ take => owed[o]
                               /\ owed[o] => take \/ to = Short
  BY <1>1, <1>2 DEF FormsHonest, FormHonest, FormsFit, FormFits, SaveOrder
<1>4. \A q \in Orders \ {o} : HoldsStock(q)' <=> HoldsStock(q)
  BY <1>2, OthersHold
<1>5. status'[o] = to
  BY <1>2 DEF TypeOK, LedgerTypeOK
<1>6. CASE take
  <2>1. ~HoldsStock(o)
    BY <1>2, <1>3, <1>6 DEF HoldsStock
  <2>2. HoldsStock(o)'
    BY <1>2, <1>3, <1>5, <1>6 DEF HoldsStock, Written
  <2> QED BY <1>2, <1>3, <1>4, <1>6, <2>1, <2>2, StockTaken
<1>7. CASE ~take
  <2>1. HoldsStock(o)' <=> HoldsStock(o)
    BY <1>2, <1>3, <1>5, <1>7 DEF HoldsStock, Written, Progress
  <2> QED BY <1>2, <1>4, <1>7, <2>1, StockFrame
<1> QED BY <1>6, <1>7

\* goodsSave changes the stock by what the owner adds or takes off the shelf.
LEMMA StockSaveGoods ==
  ASSUME FreshPages, TypeOK, PagesHonest, StockConserved, NEW g \in Goods, NEW delta \in {-1, 0, 1},
         NEW open, NEW typ, SaveGoods(g, delta, open, typ)
  PROVE  StockConserved'
<1>1. /\ inStock' = [inStock EXCEPT ![g] = inStock[g] + delta]
      /\ supply' = [supply EXCEPT ![g] = @ + delta]
      /\ UNCHANGED <<status, placed, owed>>
  BY PageShowsRow DEF SaveGoods, orderVars
<1> SUFFICES ASSUME NEW h \in Goods
             PROVE  inStock'[h] + UnitsHeld(h)' = supply'[h]
  BY StockBalance
<1>2. inStock[h] + UnitsHeld(h) = supply[h]
  BY StockBalance
<1>3. UnitsHeld(h)' = UnitsHeld(h)
  BY <1>1, HeldSame DEF HoldsStock, Written
<1>4. inStock \in [Goods -> Nat] /\ supply \in [Goods -> Nat] /\ UnitsHeld(h) \in Nat
  BY HeldType DEF TypeOK, LedgerTypeOK
<1> QED BY <1>1, <1>2, <1>3, <1>4

LEMMA StockStep ==
  ASSUME FreshPages
  PROVE  /\ TypeOK /\ FormsHonest /\ FormsFit /\ PagesHonest /\ StockConserved /\ [Next]_vars
         => StockConserved'
<1> SUFFICES ASSUME TypeOK, FormsHonest, FormsFit, PagesHonest, StockConserved, [Next]_vars
             PROVE  StockConserved'
  OBVIOUS
<1>1. CASE UNCHANGED <<status, placed, owed, inStock, supply>>
  BY <1>1, StockFrame DEF HoldsStock, Written
<1>2. ASSUME NEW o \in Orders,
             \/ \E g \in Goods, n \in 1..MaxAmount, k \in Coupons \cup {NoCoupon} : BeginCheckout(o, g, n, k)
             \/ RefuseCheckout(o)
      PROVE  StockConserved'
  <2>1. /\ UNCHANGED <<owed, inStock, supply>> /\ status[o] \in {Blank, Checking}
        /\ \E s \in {Blank, Checking} : status' = [status EXCEPT ![o] = s]
        /\ \E p : placed' = [placed EXCEPT ![o] = p]
    BY <1>2 DEF BeginCheckout, RefuseCheckout, goodsVars, ghostVars
  <2>2. \A q \in Orders \ {o} : status'[q] = status[q] /\ placed'[q] = placed[q]
    BY <2>1 DEF TypeOK, LedgerTypeOK
  <2>3. status'[o] \in {Blank, Checking}
    BY <2>1 DEF TypeOK, LedgerTypeOK
  <2>4. ~HoldsStock(o) /\ ~HoldsStock(o)'
    BY <2>1, <2>3 DEF HoldsStock, Written
  <2>5. \A q \in Orders \ {o} : HoldsStock(q)' <=> HoldsStock(q)
    BY <2>1, <2>2 DEF HoldsStock, Written
  <2> QED BY <2>1, <2>2, <2>4, <2>5, StockFrame
<1>3. CASE LedgerNext
  <2>1. ASSUME NEW o \in Orders, GrowOld(o) \/ \E amount \in {"other", "exact"} : BuyerPays(o, amount)
        PROVE  UNCHANGED <<status, placed, owed, inStock, supply>>
    BY <2>1 DEF GrowOld, BuyerPays, orderVars, goodsVars, ghostVars
  <2>2. ASSUME ListDue \/ SweepFails
        PROVE  UNCHANGED <<status, placed, owed, inStock, supply>>
    BY <2>2 DEF ListDue, SweepFails, orderVars, goodsVars, ghostVars
  <2> QED BY <1>1, <1>2, <1>3, <2>1, <2>2, StockPlace, StockSettle, StockExpire DEF LedgerNext
<1>4. CASE OwnerNext
  <2>1. ASSUME NEW d \in Desks, OrdersPage(d), ~SaveOrder(d)
        PROVE  UNCHANGED <<status, placed, owed, inStock, supply>>
    BY <2>1 DEF OrdersPage, ShowOrder, PostOrder, LeaveOrder, ledgerVars, orderVars, goodsVars, ghostVars
  <2>2. ASSUME NEW c \in Cards, CardsPage(c)
        PROVE  UNCHANGED <<status, placed, owed, inStock, supply>>
    BY <2>2 DEF CardsPage, ImportCard, LockCard, EditCard, DeleteOrRestoreCard, UnlockCard,
       orderVars, goodsVars, ghostVars
  <2>3. ASSUME NEW g \in Goods, GoodsPage(g),
               ~\E delta \in {-1, 0, 1}, open \in BOOLEAN, typ \in {AutoType, ManualType} :
                   SaveGoods(g, delta, open, typ)
        PROVE  UNCHANGED <<status, placed, owed, inStock, supply>>
    BY <2>3 DEF GoodsPage, ShowGoods, DeleteOrRestoreGoods, LeaveGoods, ledgerVars, orderVars,
       goodsVars, ghostVars
  <2>4. ASSUME NEW k \in Coupons, CouponsPage(k)
        PROVE  UNCHANGED <<status, placed, owed, inStock, supply>>
    BY <2>4 DEF CouponsPage, SaveCoupon, DeleteOrRestoreCoupon, orderVars, goodsVars, ghostVars
  <2> QED BY <1>1, <1>4, <2>1, <2>2, <2>3, <2>4, StockSave, StockSaveGoods DEF OwnerNext
<1>5. CASE Restart
  <2>1. /\ UNCHANGED <<owed, inStock, supply>>
        /\ \A q \in Orders : \/ status'[q] = status[q] /\ placed'[q] = placed[q]
                             \/ status[q] = Checking /\ status'[q] = Blank
    BY <1>5 DEF Restart, goodsVars, ghostVars
  <2>2. \A q \in Orders : /\ HoldsStock(q)' <=> HoldsStock(q)
                          /\ HoldsStock(q) => placed'[q] = placed[q]
    BY <2>1 DEF HoldsStock, Written
  <2> QED BY <2>1, <2>2, StockFrame
<1>6. CASE UNCHANGED vars
  BY <1>1, <1>6 DEF vars, ledgerVars, orderVars, goodsVars, ghostVars
<1> QED BY <1>3, <1>4, <1>5, <1>6 DEF Next

\* The legacy orders hold one unit each, which their goods were put up with.
LEMMA StockInit == Init => StockConserved
<1> SUFFICES ASSUME Init, NEW g \in Goods
             PROVE  inStock[g] + UnitsHeld(g) = supply[g]
  BY StockBalance
<1>1. ASSUME NEW o \in Orders PROVE HoldsStock(o) <=> o \in Legacy
  BY LedgerAssumption DEF Init, LedgerInit, HoldsStock, Written, NoPlacement
<1>2. HeldOf(g) = {o \in Legacy : placed[o].gid = g}
  BY <1>1, LedgerAssumption DEF HeldOf
<1>3. \A o \in Legacy : placed[o].amt = 1
  BY LedgerAssumption DEF Init, LedgerInit
<1>4. IsFiniteSet(HeldOf(g))
  BY HeldType
<1>5. UnitsHeld(g) = Cardinality(HeldOf(g))
  BY <1>2, <1>3, <1>4, SingleUnits DEF UnitsHeld
<1>6. supply[g] = inStock[g] + Cardinality({o \in Legacy : placed[o].gid = g})
  BY DEF Init, LedgerInit
<1> QED BY <1>2, <1>5, <1>6

\* CreateOrder, settle, expireOne, orderSave and goodsSave together: every
\* unit of manual stock the owner put up is in stock or held by exactly one
\* order. Late payments, the 异常 orders that owe their stock, legacy ones that
\* do not, and two sessions editing one order never take it twice or lose it,
\* as long as no goods page is posted stale.
THEOREM StockIsConserved ==
  ASSUME FreshPages
  PROVE  Spec => []StockConserved
<1> DEFINE IInv == TypeOK /\ FormsHonest /\ FormsFit /\ PagesHonest /\ StockConserved
<1>1. Init => IInv
  BY TypeInit, FormsHonestInit, FormsFitInit, PagesHonestInit, StockInit
<1>2. IInv /\ [Next]_vars => IInv'
  <2>1. IInv /\ [Next]_vars => StockConserved'
    BY StockStep
  <2> QED BY <2>1, TypeStep, FormsHonestStep, FormsFitStep, PagesHonestStep
<1>3. IInv => StockConserved
  OBVIOUS
<1> QED BY <1>1, <1>2, <1>3, PTL DEF Spec

-----------------------------------------------------------------------------
(* The delivered text.  A form can only save a completed order if it was   *)
(* posted when the order was already completed, so with its text in it.    *)

FormKeepsText(d) ==
    desk[d].stage = "posted" /\ desk[d].prev = Done =>
        status[desk[d].order] = Done /\ soldTo[desk[d].order] \subseteq desk[d].info

TextSafe == DeliveredTextKept /\ \A d \in Desks : FormKeepsText(d)

\* Nothing is sold to an order before it is completed, nor after.
LEMMA SoldOnce ==
  ASSUME TypeOK, FormsHonest, CardsSafe, [Next]_vars, NEW q \in Orders
  PROVE  /\ status[q] # Done => soldTo[q] = {}
         /\ status[q] = Done => status'[q] = Done /\ soldTo'[q] = soldTo[q]
<1>1. status[q] # Done => soldTo[q] = {}
  BY DEF CardsSafe, NoCardSoldTwice
<1>2. status[q] = Done => status'[q] = Done
  BY EveryStepMoves DEF Moves, Rests, WaitsForPayment, Settles, IsMoved, Progress
<1>3. CASE UNCHANGED soldTo
  BY <1>1, <1>2, <1>3
<1>4. ASSUME NEW o \in Orders, Complete(o) \/ Redeliver(o), status[q] = Done
      PROVE  soldTo'[q] = soldTo[q]
  <2>1. status[o] # Done
    BY <1>4 DEF Complete, Payable, Redeliver
  <2>2. UNCHANGED soldTo \/ \E S : soldTo' = [soldTo EXCEPT ![o] = S]
    <3>1. CASE \E t : DeliverCards(o, t)
      BY <3>1 DEF DeliverCards
    <3>2. CASE TakeManual(o) \/ SettleShort(o)
      BY <3>2 DEF TakeManual, SettleShort, ghostVars
    <3> QED BY <1>4, <3>1, <3>2 DEF Complete, Redeliver
  <2> QED BY <1>4, <2>1, <2>2 DEF TypeOK, LedgerTypeOK
<1>5. CASE LedgerNext
  <2>1. ASSUME NEW o \in Orders,
               \/ \E g \in Goods, n \in 1..MaxAmount, k \in Coupons \cup {NoCoupon} : BeginCheckout(o, g, n, k)
               \/ PlaceOrder(o) \/ RefuseCheckout(o) \/ ExpireOne(o)
               \/ GrowOld(o) \/ \E amount \in {"other", "exact"} : BuyerPays(o, amount)
        PROVE  UNCHANGED soldTo
    BY <2>1 DEF BeginCheckout, PlaceOrder, RefuseCheckout, ExpireOne, GrowOld, BuyerPays, ghostVars
  <2>2. ASSUME ListDue \/ SweepFails PROVE UNCHANGED soldTo
    BY <2>2 DEF ListDue, SweepFails, ghostVars
  <2> QED BY <1>1, <1>2, <1>3, <1>4, <1>5, <2>1, <2>2 DEF LedgerNext
<1>6. CASE OwnerNext
  <2>1. ASSUME NEW d \in Desks, OrdersPage(d) PROVE UNCHANGED soldTo
    BY <2>1 DEF OrdersPage, ShowOrder, PostOrder, SaveOrder, LeaveOrder, ledgerVars, ghostVars
  <2>2. ASSUME NEW c \in Cards, CardsPage(c) PROVE UNCHANGED soldTo
    BY <2>2 DEF CardsPage, ImportCard, LockCard, EditCard, DeleteOrRestoreCard, UnlockCard, ghostVars
  <2>3. ASSUME NEW g \in Goods, GoodsPage(g) PROVE UNCHANGED soldTo
    BY <2>3 DEF GoodsPage, ShowGoods, SaveGoods, DeleteOrRestoreGoods, LeaveGoods, ledgerVars, ghostVars
  <2>4. ASSUME NEW k \in Coupons, CouponsPage(k) PROVE UNCHANGED soldTo
    BY <2>4 DEF CouponsPage, SaveCoupon, DeleteOrRestoreCoupon, ghostVars
  <2> QED BY <1>3, <1>6, <2>1, <2>2, <2>3, <2>4 DEF OwnerNext
<1>7. CASE Restart \/ UNCHANGED vars
  BY <1>3, <1>7 DEF Restart, vars, ledgerVars, ghostVars
<1> QED BY <1>5, <1>6, <1>7 DEF Next

LEMMA TextStep ==
  TypeOK /\ FormsHonest /\ FormsFit /\ CardsSafe /\ TextSafe /\ [Next]_vars => DeliveredTextKept'
<1> SUFFICES ASSUME TypeOK, FormsHonest, FormsFit, CardsSafe, TextSafe, [Next]_vars
             PROVE  DeliveredTextKept'
  OBVIOUS
<1> DEFINE Kept(q) == status'[q] = Done => soldTo'[q] \subseteq info'[q]
<1>1. ASSUME NEW q \in Orders, status'[q] = status[q], soldTo'[q] = soldTo[q], info'[q] = info[q]
      PROVE  Kept(q)
  BY <1>1 DEF TextSafe, DeliveredTextKept
<1>2. CASE UNCHANGED <<status, soldTo, info>>
  BY <1>1, <1>2 DEF DeliveredTextKept
<1>3. ASSUME NEW o \in Orders, Complete(o) \/ Redeliver(o), NEW q \in Orders
      PROVE  Kept(q)
  <2>1. CASE \E t : DeliverCards(o, t)
    <3>1. PICK P \in Picks(o) :
             /\ info' = [info EXCEPT ![o] = P]
             /\ soldTo' = [soldTo EXCEPT ![o] = @ \cup {c \in P : ~loop[c]}]
      BY <2>1 DEF DeliverCards
    <3>2. status[o] # Done /\ status' = [status EXCEPT ![o] = Done]
      BY <1>3, <2>1 DEF Complete, Payable, Redeliver, DeliverCards
    <3>3. CASE q = o
      <4>1. soldTo[o] = {}
        BY <3>2, SoldOnce
      <4>2. soldTo'[o] \subseteq info'[o]
        BY <3>1, <4>1 DEF TypeOK, LedgerTypeOK
      <4> QED BY <3>3, <4>2
    <3>4. CASE q # o
      BY <1>1, <3>1, <3>2, <3>4 DEF TypeOK, LedgerTypeOK
    <3> QED BY <3>3, <3>4
  <2>2. CASE TakeManual(o) \/ SettleShort(o)
    <3>1. /\ UNCHANGED soldTo /\ \E s \in {Pending, Short} : status' = [status EXCEPT ![o] = s]
          /\ UNCHANGED info \/ \E t : info' = [info EXCEPT ![o] = t]
      BY <2>2 DEF TakeManual, SettleShort, ghostVars
    <3> QED BY <1>1, <3>1 DEF TypeOK, LedgerTypeOK
  <2> QED BY <1>3, <2>1, <2>2 DEF Complete, Redeliver
<1>4. ASSUME NEW o \in Orders, NEW q \in Orders,
             \/ \E g \in Goods, n \in 1..MaxAmount, k \in Coupons \cup {NoCoupon} : BeginCheckout(o, g, n, k)
             \/ PlaceOrder(o) \/ RefuseCheckout(o) \/ ExpireOne(o)
      PROVE  Kept(q)
  <2>1. UNCHANGED soldTo
    BY <1>4 DEF BeginCheckout, PlaceOrder, RefuseCheckout, ExpireOne, ghostVars
  <2>2. \/ UNCHANGED <<status, info>>
        \/ /\ \E s \in {Blank, Checking, Unpaid, Expired} : status' = [status EXCEPT ![o] = s]
           /\ UNCHANGED info \/ \E t : info' = [info EXCEPT ![o] = t]
    BY <1>4 DEF BeginCheckout, PlaceOrder, RefuseCheckout, ExpireOne
  <2> QED BY <1>1, <2>1, <2>2 DEF TypeOK, LedgerTypeOK
<1>5. CASE LedgerNext
  <2>1. ASSUME NEW o \in Orders, GrowOld(o) \/ \E amount \in {"other", "exact"} : BuyerPays(o, amount)
        PROVE  UNCHANGED <<status, soldTo, info>>
    BY <2>1 DEF GrowOld, BuyerPays, orderVars, ghostVars
  <2>2. ASSUME ListDue \/ SweepFails PROVE UNCHANGED <<status, soldTo, info>>
    BY <2>2 DEF ListDue, SweepFails, orderVars, ghostVars
  <2> QED BY <1>2, <1>3, <1>4, <1>5, <2>1, <2>2 DEF LedgerNext, DeliveredTextKept
<1>6. ASSUME NEW d \in Desks, SaveOrder(d), NEW q \in Orders
      PROVE  Kept(q)
  <2> DEFINE f == desk[d]
  <2>1. /\ f.order \in Orders /\ f.stage = "posted" /\ status[f.order] = f.prev
        /\ status' = [status EXCEPT ![f.order] = f.to] /\ UNCHANGED soldTo
        /\ info' = [info EXCEPT ![f.order] = IF f.take THEN f.info \ {NoteShort} ELSE f.info]
    BY <1>6 DEF SaveOrder, StillAsRead, TypeOK, Forms, Idle, ghostVars
  <2>2. CASE q # f.order
    BY <1>1, <2>1, <2>2 DEF TypeOK, LedgerTypeOK
  <2>3. CASE q = f.order /\ status[q] # Done
    <3>1. soldTo'[q] = {}
      BY <2>1, <2>3, SoldOnce
    <3> QED BY <3>1
  <2>4. CASE q = f.order /\ status[q] = Done
    <3>1. ~f.take
      <4>1. f.take => f.prev = Short
        BY <2>1 DEF FormsFit, FormFits
      <4> QED BY <2>1, <2>4, <4>1
    <3>2. soldTo[q] \subseteq f.info
      BY <2>1, <2>4 DEF TextSafe, FormKeepsText
    <3>3. info'[q] = f.info
      BY <2>1, <2>4, <3>1 DEF TypeOK, LedgerTypeOK
    <3> QED BY <2>1, <3>2, <3>3
  <2> QED BY <2>2, <2>3, <2>4
<1>7. CASE OwnerNext
  <2>1. ASSUME NEW d \in Desks, OrdersPage(d), ~SaveOrder(d)
        PROVE  UNCHANGED <<status, soldTo, info>>
    BY <2>1 DEF OrdersPage, ShowOrder, PostOrder, LeaveOrder, ledgerVars, orderVars, ghostVars
  <2>2. ASSUME NEW c \in Cards, CardsPage(c)
        PROVE  UNCHANGED <<status, soldTo, info>>
    BY <2>2 DEF CardsPage, ImportCard, LockCard, EditCard, DeleteOrRestoreCard, UnlockCard, orderVars, ghostVars
  <2>3. ASSUME NEW g \in Goods, GoodsPage(g)
        PROVE  UNCHANGED <<status, soldTo, info>>
    BY <2>3 DEF GoodsPage, ShowGoods, SaveGoods, DeleteOrRestoreGoods, LeaveGoods,
       ledgerVars, orderVars, ghostVars
  <2>4. ASSUME NEW k \in Coupons, CouponsPage(k)
        PROVE  UNCHANGED <<status, soldTo, info>>
    BY <2>4 DEF CouponsPage, SaveCoupon, DeleteOrRestoreCoupon, orderVars, ghostVars
  <2> QED BY <1>2, <1>6, <1>7, <2>1, <2>2, <2>3, <2>4 DEF OwnerNext, DeliveredTextKept
<1>8. CASE Restart
  BY <1>8 DEF Restart, ghostVars, TextSafe, DeliveredTextKept
<1>9. CASE UNCHANGED vars
  BY <1>2, <1>9 DEF vars, ledgerVars, orderVars, ghostVars
<1> QED BY <1>5, <1>7, <1>8, <1>9 DEF Next

LEMMA FormKeepsTextStep ==
  ASSUME ~StaleForms
  PROVE  /\ TypeOK /\ FormsHonest /\ FormsFit /\ CardsSafe /\ TextSafe /\ [Next]_vars
         => \A d \in Desks : FormKeepsText(d)'
<1> SUFFICES ASSUME TypeOK, FormsHonest, FormsFit, CardsSafe, TextSafe, [Next]_vars, NEW e \in Desks
             PROVE  FormKeepsText(e)'
  OBVIOUS
<1>1. CASE desk'[e] = desk[e]
  <2>1. SUFFICES ASSUME desk[e].stage = "posted", desk[e].prev = Done
                 PROVE  status'[desk[e].order] = Done /\ soldTo'[desk[e].order] \subseteq desk[e].info
    BY <1>1 DEF FormKeepsText
  <2>2. PICK o \in Orders : o = desk[e].order
    BY <2>1 DEF FormsFit, FormFits
  <2>3. status[o] = Done /\ soldTo[o] \subseteq desk[e].info
    BY <2>1, <2>2 DEF TextSafe, FormKeepsText
  <2> QED BY <2>2, <2>3, SoldOnce
<1>2. CASE desk'[e] = Idle
  BY <1>2 DEF FormKeepsText, Idle
<1>3. ASSUME NEW o \in Orders, ShowOrder(e, o) PROVE FormKeepsText(e)'
  <2>1. desk'[e].stage = "page"
    BY <1>3 DEF ShowOrder, TypeOK, Idle
  <2> QED BY <2>1 DEF FormKeepsText
<1>4. ASSUME NEW to \in Statuses, PostOrder(e, to) PROVE FormKeepsText(e)'
  <2>1. PICK o \in Orders : o = desk[e].order
    BY <1>4 DEF PostOrder, FormsFit, FormFits
  <2>2. /\ desk[e].stage = "page" /\ desk[e].info = info[o]
        /\ UNCHANGED <<status, soldTo>>
    BY <1>4, <2>1 DEF PostOrder, ledgerVars, orderVars, ghostVars
  <2>3. desk'[e] = [desk[e] EXCEPT !.stage = "posted", !.prev = status[o], !.to = to,
                                   !.take = TakesStock(o, to)]
    BY <1>4, <2>1 DEF PostOrder, TypeOK
  <2>4. desk[e] \in [stage: {"page", "posted"}, order: Orders,
                     info: SUBSET (Cards \cup {NoteShort, NoteInput}),
                     prev: Statuses, to: Statuses, take: BOOLEAN]
    BY <2>2 DEF TypeOK, Forms, Idle
  <2>5. desk'[e].order = o /\ desk'[e].prev = status[o] /\ desk'[e].info = info[o]
    BY <2>1, <2>2, <2>3, <2>4
  <2>6. status[o] = Done => soldTo[o] \subseteq info[o]
    BY DEF TextSafe, DeliveredTextKept
  <2> QED BY <2>2, <2>5, <2>6 DEF FormKeepsText
<1> QED BY <1>1, <1>2, <1>3, <1>4, DeskChanges

\* settle and orderSave together: a completed order's text keeps every card
\* sold to it, through redeliveries and edits, as long as no order page is
\* posted after its row changed (the text is written back as it was shown).
THEOREM DeliveredTextIsKept ==
  ASSUME ~StaleForms
  PROVE  Spec => []DeliveredTextKept
<1> DEFINE IInv == TypeOK /\ FormsHonest /\ FormsFit /\ CardsSafe /\ TextSafe
<1>1. Init => IInv
  BY TypeInit, FormsHonestInit, FormsFitInit
     DEF Init, LedgerInit, CardsSafe, RowLocksHonest, NoCardSoldTwice, TextSafe, DeliveredTextKept,
         FormKeepsText, Idle
<1>2. IInv /\ [Next]_vars => IInv'
  <2>1. IInv /\ [Next]_vars => TextSafe'
    BY TextStep, FormKeepsTextStep DEF TextSafe
  <2> QED BY <2>1, TypeStep, FormsHonestStep, FormsFitStep, CardsStep
<1>3. IInv => DeliveredTextKept
  BY DEF TextSafe
<1> QED BY <1>1, <1>2, <1>3, PTL DEF Spec

-----------------------------------------------------------------------------
(* Part 4.  The shop as one promise.  Each step of the ledger and the back *)
(* office is one of ShopService or changes nothing there.                  *)

\* All of the earlier parts that a step's meaning depends on.
ServiceInv ==
    /\ TypeOK /\ FormsHonest /\ ReservationsExact
    /\ OnlyPaidOrdersProgress /\ RecordedMeansProgress /\ CardsSafe

Stages == [o \in Orders |-> Stage[status[o]]]
Promised == [o \in Orders |-> Reserved(o)]

\* What the promise does not see.
Unseen == UNCHANGED <<Stages, paid, Promised, soldTo>>

\* What each status means to the promise.
LEMMA StageOf ==
  ASSUME NEW s \in Statuses
  PROVE  /\ s \in {Blank, Checking} => Stage[s] = "none"
         /\ s = Unpaid => Stage[s] = "open"
         /\ s = Expired => Stage[s] = "expired"
         /\ s = Done => Stage[s] = "done"
         /\ s \in Progress \ {Done} => Stage[s] = "paid"
<1>1. Stage[s] = CASE s \in {Blank, Checking} -> "none"
                   [] s = Unpaid -> "open"
                   [] s = Expired -> "expired"
                   [] s = Done -> "done"
                   [] OTHER -> "paid"
  BY DEF Stage
<1> QED BY <1>1 DEF Progress, Statuses

\* A step that writes one status moves one stage; one within a stage moves none.
LEMMA StagesChange ==
  ASSUME TypeOK, NEW o \in Orders, NEW s \in Statuses, status' = [status EXCEPT ![o] = s]
  PROVE  Stages' = [Stages EXCEPT ![o] = Stage[s]]
BY DEF Stages, TypeOK, LedgerTypeOK

LEMMA StagesKept ==
  ASSUME TypeOK, \A q \in Orders : Stage[status'[q]] = Stage[status[q]]
  PROVE  Stages' = Stages
BY DEF Stages

\* The same of the cards set aside.
LEMMA PromisedChange ==
  ASSUME NEW o \in Orders, NEW S, Reserved(o)' = S,
         \A q \in Orders \ {o} : Reserved(q)' = Reserved(q)
  PROVE  Promised' = [Promised EXCEPT ![o] = S]
BY DEF Promised

LEMMA PromisedKept == ASSUME UNCHANGED resv PROVE Promised' = Promised
BY DEF Promised, Reserved

\* A card on the shelf has been given to nobody.
LEMMA OnShelfIsFree ==
  ASSUME TypeOK, CardsSafe, NEW o \in Orders, NEW S \in SUBSET Cards,
         \A c \in S : cstatus[c] = Unsold /\ resv[c] \in {o, NoOrder}
  PROVE  Service!FreeFor(o, S)
<1>1. \A q \in Orders \ {o} : Promised[q] \cap S = {}
  BY LedgerAssumption DEF Promised, Reserved
<1>2. \A q \in Orders : soldTo[q] \cap S = {}
  BY DEF CardsSafe, NoCardSoldTwice
<1> QED BY <1>1, <1>2 DEF Service!FreeFor, Promised

\* CreateOrder sets its cards aside.
LEMMA PlaceServes ==
  ASSUME ServiceInv, NEW o \in Orders, PlaceOrder(o)
  PROVE  Service!Next
<1> USE DEF ServiceInv
<1>1. UNCHANGED <<paid, soldTo>> /\ status[o] = Checking /\ status' = [status EXCEPT ![o] = Unpaid]
  BY DEF PlaceOrder, ghostVars
<1>2. Stages[o] = "none" /\ Stages' = [Stages EXCEPT ![o] = "open"]
  <2>1. Stages' = [Stages EXCEPT ![o] = Stage[Unpaid]]
    BY <1>1, StagesChange DEF Statuses
  <2>2. Stage[Checking] = "none" /\ Stage[Unpaid] = "open"
    BY StageOf DEF Statuses
  <2> QED BY <1>1, <2>1, <2>2 DEF Stages
<1>3. \A c \in Cards : resv[c] # o
  BY LedgerAssumption DEF ReservationsExact, ReservationValid, PlaceOrder
<1>4. \E S \in SUBSET Cards : Service!FreeFor(o, S) /\ Promised' = [Promised EXCEPT ![o] = S]
  <2>1. PICK S \in SUBSET Cards :
              /\ \A c \in S : cstatus[c] = Unsold /\ resv[c] = NoOrder
              /\ \A c \in Cards : resv'[c] = IF c \in S THEN o ELSE resv[c]
    <3>1. CASE placed[o].typ = AutoType
      <4>1. PICK P \in SUBSET FreeCards(placed[o].gid) : resv' = [c \in Cards |-> IF c \in P THEN o ELSE resv[c]]
        BY <3>1 DEF PlaceOrder
      <4> QED BY <4>1 DEF FreeCards, OnShelf
    <3>2. CASE placed[o].typ = ManualType
      <4> WITNESS {} \in SUBSET Cards
      <4> QED BY <3>2 DEF PlaceOrder
    <3> QED BY <3>1, <3>2 DEF PlaceOrder
  <2>2. Service!FreeFor(o, S)
    BY <2>1, OnShelfIsFree
  <2>3. Reserved(o)' = S
    BY <1>3, <2>1 DEF Reserved
  <2>4. \A q \in Orders \ {o} : Reserved(q)' = Reserved(q)
    BY <2>1, LedgerAssumption DEF Reserved
  <2> QED BY <2>2, <2>3, <2>4, PromisedChange
<1>5. Service!Place(o)
  BY <1>1, <1>2, <1>4 DEF Service!Place, Stages, Promised
<1> QED BY <1>5 DEF Service!Next

\* The buyer's payment is the same in both.
LEMMA PayServes ==
  ASSUME ServiceInv, NEW o \in Orders, NEW amount \in {"other", "exact"}, BuyerPays(o, amount)
  PROVE  Service!Next
<1> USE DEF ServiceInv
<1>1. /\ UNCHANGED <<status, resv, soldTo>> /\ status[o] \in {Unpaid, Expired} /\ paid[o] # "exact"
      /\ paid' = [paid EXCEPT ![o] = amount]
  BY DEF BuyerPays, orderVars, cardVars, ghostVars
<1>2. Stages[o] \in {"open", "expired"} /\ UNCHANGED <<Stages, Promised>>
  <2>1. Stage[Unpaid] = "open" /\ Stage[Expired] = "expired"
    BY StageOf DEF Statuses
  <2> QED BY <1>1, <2>1, PromisedKept DEF Stages
<1>3. Service!Pay(o)
  BY <1>1, <1>2 DEF Service!Pay, Stages, Promised
<1> QED BY <1>3 DEF Service!Next

\* expireOne hands every card back, or finds the order settled.
LEMMA ExpireServes ==
  ASSUME ServiceInv, NEW o \in Orders, ExpireOne(o)
  PROVE  Service!Next \/ Unseen
<1> USE DEF ServiceInv
<1>1. CASE status[o] # Unpaid
  <2>1. UNCHANGED <<status, resv, paid, soldTo>>
    BY <1>1 DEF ExpireOne, Expirable, ghostVars
  <2> QED BY <2>1, PromisedKept DEF Stages, Unseen
<1>2. CASE status[o] = Unpaid
  <2>1. /\ UNCHANGED <<paid, soldTo>> /\ status' = [status EXCEPT ![o] = Expired]
        /\ resv' = [c \in Cards |-> IF resv[c] = o /\ cgoods[c] = placed[o].gid THEN NoOrder ELSE resv[c]]
    BY <1>2 DEF ExpireOne, Expirable, ghostVars
  <2>2. Stages[o] = "open" /\ Stages' = [Stages EXCEPT ![o] = "expired"]
    <3>1. Stages' = [Stages EXCEPT ![o] = Stage[Expired]]
      BY <2>1, StagesChange DEF Statuses
    <3>2. Stage[Unpaid] = "open" /\ Stage[Expired] = "expired"
      BY StageOf DEF Statuses
    <3> QED BY <1>2, <3>1, <3>2 DEF Stages
  <2>3. \A c \in Cards : resv[c] = o => cgoods[c] = placed[o].gid
    BY LedgerAssumption DEF ReservationsExact, ReservationValid
  <2>4. Promised' = [Promised EXCEPT ![o] = {}]
    <3>1. Reserved(o)' = {}
      BY <2>1, <2>3, LedgerAssumption DEF Reserved
    <3>2. \A q \in Orders \ {o} : Reserved(q)' = Reserved(q)
      BY <2>1, LedgerAssumption DEF Reserved
    <3> QED BY <3>1, <3>2, PromisedChange
  <2>5. Service!Expire(o)
    BY <2>1, <2>2, <2>4 DEF Service!Expire, Stages, Promised
  <2> QED BY <2>5 DEF Service!Next
<1> QED BY <1>1, <1>2

\* settle hands over what it picked and lets go of the rest.
LEMMA DeliverServes ==
  ASSUME ServiceInv, NEW o \in Orders, status[o] \in {Unpaid, Expired, Short}, paid[o] = "exact",
         NEW t, DeliverCards(o, t)
  PROVE  Service!Next
<1> USE DEF ServiceInv
<1>1. PICK P \in Picks(o) :
         /\ resv' = [c \in Cards |->
                        IF \/ c \in P
                           \/ resv[c] = o /\ cgoods[c] = placed[o].gid /\ cstatus[c] = Unsold
                        THEN NoOrder ELSE resv[c]]
         /\ soldTo' = [soldTo EXCEPT ![o] = @ \cup {c \in P : ~loop[c]}]
  BY DEF DeliverCards
<1>2. UNCHANGED paid /\ status' = [status EXCEPT ![o] = Done]
  BY DEF DeliverCards
<1>3. \A c \in P : c \in Cards /\ cstatus[c] = Unsold /\ resv[c] \in {o, NoOrder}
  BY DEF Picks, Pickable, OnShelf
<1>4. Stages[o] \in {"open", "expired", "paid"} /\ Stages' = [Stages EXCEPT ![o] = "done"]
  <2>1. Stages' = [Stages EXCEPT ![o] = Stage[Done]]
    BY <1>2, StagesChange DEF Statuses
  <2>2. Stage[Unpaid] = "open" /\ Stage[Expired] = "expired" /\ Stage[Short] = "paid" /\ Stage[Done] = "done"
    BY StageOf DEF Statuses, Progress
  <2> QED BY <2>1, <2>2 DEF Stages
<1>5. Promised' = [Promised EXCEPT ![o] = {}]
  <2>1. \A c \in Cards : resv[c] = o => cgoods[c] = placed[o].gid /\ cstatus[c] = Unsold
    BY LedgerAssumption DEF ReservationsExact, ReservationValid
  <2>2. Reserved(o)' = {}
    BY <1>1, <2>1, LedgerAssumption DEF Reserved
  <2>3. \A q \in Orders \ {o} : Reserved(q)' = Reserved(q)
    BY <1>1, <1>3, LedgerAssumption DEF Reserved
  <2> QED BY <2>2, <2>3, PromisedChange
<1>6. \E S \in SUBSET Cards : Service!FreeFor(o, S) /\ soldTo' = [soldTo EXCEPT ![o] = S]
  <2> DEFINE S == {c \in P : ~loop[c]}
  <2>1. S \in SUBSET Cards /\ Service!FreeFor(o, S)
    BY <1>3, OnShelfIsFree
  <2>2. soldTo[o] = {}
    BY DEF CardsSafe, NoCardSoldTwice
  <2>3. soldTo' = [soldTo EXCEPT ![o] = S]
    BY <1>1, <2>2 DEF TypeOK, LedgerTypeOK
  <2> QED BY <2>1, <2>3
<1>7. Service!Deliver(o)
  BY <1>2, <1>4, <1>5, <1>6 DEF Service!Deliver, Stages, Promised
<1> QED BY <1>7 DEF Service!Next

\* settle records a payment that is delivered later.
LEMMA RecordServes ==
  ASSUME ServiceInv, NEW o \in Orders, Payable(o), paid[o] = "exact", TakeManual(o) \/ SettleShort(o)
  PROVE  Service!Next \/ Unseen
<1> USE DEF ServiceInv
<1>1. /\ UNCHANGED <<paid, resv, soldTo>> /\ status[o] \in {Unpaid, Expired, Short}
      /\ \E s \in {Pending, Short} : status' = [status EXCEPT ![o] = s]
  BY DEF TakeManual, SettleShort, Payable, cardVars, ghostVars
<1>2. Stages' = [Stages EXCEPT ![o] = "paid"]
  <2>1. PICK s \in {Pending, Short} : status' = [status EXCEPT ![o] = s]
    BY <1>1
  <2>2. s \in Statuses /\ Stage[s] = "paid"
    BY StageOf DEF Statuses, Progress
  <2> QED BY <2>1, <2>2, StagesChange
<1>3. Stage[Unpaid] = "open" /\ Stage[Expired] = "expired" /\ Stage[Short] = "paid"
  BY StageOf DEF Statuses, Progress
<1>4. UNCHANGED Promised
  BY <1>1, PromisedKept
<1>5. CASE status[o] = Short
  <2>1. UNCHANGED Stages
    BY <1>2, <1>3, <1>5 DEF Stages
  <2> QED BY <1>1, <1>4, <2>1 DEF Unseen
<1>6. CASE status[o] \in {Unpaid, Expired}
  <2>1. Stages[o] \in {"open", "expired"}
    BY <1>3, <1>6 DEF Stages
  <2>2. Service!Record(o)
    BY <1>1, <1>2, <1>4, <2>1 DEF Service!Record, Stages, Promised
  <2> QED BY <2>2 DEF Service!Next
<1> QED BY <1>1, <1>5, <1>6

\* Complete and Redeliver.
LEMMA SettlementServes ==
  ASSUME ServiceInv, NEW o \in Orders, Complete(o) \/ Redeliver(o)
  PROVE  Service!Next \/ Unseen
<1>1. status[o] = Short => paid[o] = "exact"
  BY DEF ServiceInv, OnlyPaidOrdersProgress, Progress
<1>2. CASE Complete(o)
  BY <1>2, DeliverServes, RecordServes DEF Complete, Payable
<1>3. CASE Redeliver(o)
  BY <1>1, <1>3, DeliverServes DEF Redeliver
<1> QED BY <1>2, <1>3

\* orderSave moves a paid order on, and lets go of its cards or keeps them all.
LEMMA SaveServes ==
  ASSUME ServiceInv, NEW d \in Desks, SaveOrder(d)
  PROVE  Service!Next \/ Unseen
<1> USE DEF ServiceInv
<1>1. PICK o \in Orders, from \in Statuses, to \in Statuses :
         o = desk[d].order /\ from = desk[d].prev /\ to = desk[d].to
  BY DEF SaveOrder, TypeOK, Forms, Idle
<1>2. /\ UNCHANGED <<paid, soldTo>>
      /\ status[o] = from /\ status' = [status EXCEPT ![o] = to]
      /\ resv' = [c \in Cards |->
                     IF ReleasesReservations(o, from, to) /\ resv[c] = o /\ cstatus[c] = Unsold
                     THEN NoOrder ELSE resv[c]]
  BY <1>1 DEF SaveOrder, StillAsRead, ghostVars
<1>3. to = from \/ (from \in Progress \ {Done} /\ to \in Progress)
  <2>1. FormHonest(d) /\ desk[d].stage = "posted"
    BY DEF FormsHonest, SaveOrder
  <2> QED BY <1>1, <2>1 DEF FormHonest
<1>4. Stages' = [Stages EXCEPT ![o] = Stage[to]]
  BY <1>1, <1>2, StagesChange
<1>5. CASE to = from
  <2>1. UNCHANGED <<status, resv>>
    BY <1>1, <1>2, <1>5 DEF ReleasesReservations, TypeOK, LedgerTypeOK
  <2> QED BY <1>2, <2>1, PromisedKept DEF Stages, Unseen
<1>6. CASE to # from
  <2>1. /\ Stages[o] = "paid" /\ Stages' \in {Stages, [Stages EXCEPT ![o] = "done"]}
    <3>1. Stage[from] = "paid" /\ Stage[to] \in {"paid", "done"}
      BY <1>3, <1>6, StageOf DEF Progress, Statuses
    <3>2. Stages[o] = "paid"
      BY <1>2, <3>1 DEF Stages
    <3>3. [Stages EXCEPT ![o] = "paid"] = Stages
      BY <3>2 DEF Stages
    <3> QED BY <1>4, <3>1, <3>2, <3>3
  <2>2. \A c \in Cards : resv[c] = o => cstatus[c] = Unsold /\ status[o] = Short
    BY <1>1, <1>2, <1>3, <1>6, LedgerAssumption DEF ReservationsExact, ReservationValid, Progress
  <2>3. \A c \in Cards : resv[c] = o => placed[o].typ = AutoType
    BY <1>1, LedgerAssumption DEF ReservationsExact, ReservationValid
  <2>4. \A c \in Cards : resv'[c] = IF resv[c] = o THEN NoOrder ELSE resv[c]
    BY <1>2, <1>6, <2>2, <2>3 DEF ReleasesReservations
  <2>5. Promised' = [Promised EXCEPT ![o] = {}]
    <3>1. Reserved(o)' = {}
      BY <1>1, <2>4, LedgerAssumption DEF Reserved
    <3>2. \A q \in Orders \ {o} : Reserved(q)' = Reserved(q)
      BY <1>1, <2>4, LedgerAssumption DEF Reserved
    <3> QED BY <1>1, <3>1, <3>2, PromisedChange
  <2>6. Service!Release(o)
    BY <1>2, <2>1, <2>5 DEF Service!Release, Stages, Promised
  <2> QED BY <1>1, <2>6 DEF Service!Next
<1> QED BY <1>5, <1>6

\* Every other step is one between statuses of no stage, or of rows unseen.
LEMMA StepServes == ServiceInv /\ [Next]_vars => [Service!Next]_Service!vars
<1> SUFFICES ASSUME ServiceInv, [Next]_vars PROVE Service!Next \/ Unseen
  BY DEF Unseen, Service!vars, Stages, Promised
<1>1. ASSUME UNCHANGED <<paid, resv, soldTo>>,
             \A q \in Orders : \/ status'[q] = status[q]
                               \/ status[q] \in {Blank, Checking} /\ status'[q] \in {Blank, Checking}
      PROVE  Unseen
  <2>1. \A q \in Orders : Stage[status'[q]] = Stage[status[q]]
    BY <1>1, StageOf DEF Statuses
  <2> QED BY <1>1, <2>1, StagesKept, PromisedKept DEF ServiceInv, Unseen
<1>2. CASE LedgerNext
  <2>1. ASSUME NEW o \in Orders,
               \/ \E g \in Goods, n \in 1..MaxAmount, k \in Coupons \cup {NoCoupon} : BeginCheckout(o, g, n, k)
               \/ RefuseCheckout(o) \/ GrowOld(o)
        PROVE  Unseen
    <3>1. UNCHANGED <<paid, resv, soldTo>>
      BY <2>1 DEF BeginCheckout, RefuseCheckout, GrowOld, cardVars, ghostVars
    <3>2. \/ UNCHANGED status
          \/ /\ status[o] \in {Blank, Checking}
             /\ \E s \in {Blank, Checking} : status' = [status EXCEPT ![o] = s]
      BY <2>1 DEF BeginCheckout, RefuseCheckout, GrowOld
    <3> QED BY <1>1, <3>1, <3>2 DEF ServiceInv, TypeOK, LedgerTypeOK
  <2>2. ASSUME ListDue \/ SweepFails PROVE Unseen
    BY <1>1, <2>2 DEF ListDue, SweepFails, orderVars, cardVars, ghostVars
  <2> QED BY <1>2, <2>1, <2>2, PlaceServes, PayServes, ExpireServes, SettlementServes DEF LedgerNext
<1>3. CASE OwnerNext
  <2>1. ASSUME NEW d \in Desks, OrdersPage(d), ~SaveOrder(d) PROVE Unseen
    BY <1>1, <2>1 DEF OrdersPage, ShowOrder, PostOrder, LeaveOrder, ledgerVars, orderVars, cardVars, ghostVars
  <2>2. ASSUME NEW c \in Cards, CardsPage(c) PROVE Unseen
    BY <1>1, <2>2 DEF CardsPage, ImportCard, LockCard, EditCard, DeleteOrRestoreCard, UnlockCard, orderVars, ghostVars
  <2>3. ASSUME NEW g \in Goods, GoodsPage(g) PROVE Unseen
    BY <1>1, <2>3 DEF GoodsPage, ShowGoods, SaveGoods, DeleteOrRestoreGoods, LeaveGoods, ledgerVars,
       orderVars, cardVars, ghostVars
  <2>4. ASSUME NEW k \in Coupons, CouponsPage(k) PROVE Unseen
    BY <1>1, <2>4 DEF CouponsPage, SaveCoupon, DeleteOrRestoreCoupon, orderVars, cardVars, ghostVars
  <2> QED BY <1>3, <2>1, <2>2, <2>3, <2>4, SaveServes DEF OwnerNext
<1>4. CASE Restart
  BY <1>1, <1>4 DEF Restart, ghostVars
<1>5. CASE UNCHANGED vars
  BY <1>1, <1>5 DEF vars, ledgerVars, orderVars, cardVars, ghostVars
<1> QED BY <1>2, <1>3, <1>4, <1>5 DEF Next

\* Orders carried over from the old shop are paid, the others not there yet.
LEMMA InitServes == Init => Service!Init
<1> SUFFICES ASSUME Init PROVE Service!Init
  OBVIOUS
<1>1. Stage[Blank] = "none" /\ Stage[Short] = "paid"
  BY StageOf DEF Statuses, Progress
<1>2. \A o \in Orders : Stages[o] = IF o \in Legacy THEN "paid" ELSE "none"
  BY <1>1 DEF Init, LedgerInit, Stages
<1>3. Stages \in [Orders -> {"none", "paid"}]
  BY <1>2 DEF Stages
<1>4. paid = [o \in Orders |-> IF Stages[o] = "paid" THEN "exact" ELSE "none"]
  BY <1>2 DEF Init, LedgerInit
<1>5. Promised = [o \in Orders |-> {}]
  BY LedgerAssumption DEF Init, LedgerInit, Promised, Reserved
<1>6. soldTo = [o \in Orders |-> {}]
  BY DEF Init, LedgerInit
<1> QED BY <1>3, <1>4, <1>5, <1>6 DEF Service!Init, Stages, Promised

\* CreateOrder, settle, ExpireDue, orderSave, the card, goods and coupon pages and
\* restarts together: whatever they interleave, a buyer sees the shop of
\* ShopService, in which each of an order's moves is one step and none is undone.
THEOREM ShopIsItsService == Spec => ImplementsShopService
<1>1. Init => ServiceInv
  BY TypeInit, FormsHonestInit, ReservationsInit, PaymentInit
     DEF ServiceInv, Init, LedgerInit, CardsSafe, RowLocksHonest, NoCardSoldTwice
<1>2. ServiceInv /\ [Next]_vars => ServiceInv'
  BY TypeStep, FormsHonestStep, ReservationsStep, PaymentStep, CardsStep DEF ServiceInv
<1> QED BY <1>1, <1>2, InitServes, StepServes, PTL DEF Spec, ImplementsShopService, Service!Spec
=============================================================================
