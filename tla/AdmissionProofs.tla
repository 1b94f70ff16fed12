--------------------------- MODULE AdmissionProofs ---------------------------
(***************************************************************************)
(* Proofs about what stands between a buyer and an order, for any number   *)
(* of checkouts, emails and addresses.                                     *)
(*                                                                         *)
(* The quota of unpaid orders is kept: the locks make the count of a       *)
(* transaction stand until it commits (CountsStand), for whoever could     *)
(* place an order of the same email or address meanwhile holds the same    *)
(* lock.                                                                   *)
(*                                                                         *)
(* The limiter's table never outgrows its bound, and what it lets through  *)
(* in any span of a window is bounded: of the last t steps' requests,      *)
(* every place in the table accounts for a Share (Flood).                  *)
(*                                                                         *)
(* Prices are those of exact arithmetic, for every number and every list   *)
(* of tiers, and amounts survive being written and read as text.           *)
(***************************************************************************)
EXTENDS MCAdmission, SumLemmas

USE QuotaAssumption

-----------------------------------------------------------------------------
LEMMA QuotaTypeInit == QuotaInit => QuotaTypeOK
BY DEF QuotaInit, QuotaTypeOK, Sources, MaxAge

LEMMA QuotaTypeStep == QuotaTypeOK /\ [QuotaNext]_quotaVars => QuotaTypeOK'
<1> SUFFICES ASSUME QuotaTypeOK, [QuotaNext]_quotaVars PROVE QuotaTypeOK'
  OBVIOUS
<1> USE DEF QuotaTypeOK, Sources, MaxAge
<1>1. CASE UNCHANGED quotaVars
  BY <1>1 DEF quotaVars
<1>2. ASSUME NEW t \in Slots, Checkout(t) PROVE QuotaTypeOK'
  BY <1>2 DEF Checkout, LockEmail, LockSource, Count, Place, RollBack, Leave, Clear
<1>3. ASSUME NEW t \in Slots, NEW e \in Emails, NEW a \in Sources, Begin(t, e, a) PROVE QuotaTypeOK'
  BY <1>3 DEF Begin
<1>4. CASE QuotaTick
  BY <1>4 DEF QuotaTick, Older
<1>5. CASE QuotaRestart
  BY <1>5 DEF QuotaRestart
<1> QED BY <1>1, <1>2, <1>3, <1>4, <1>5 DEF QuotaNext

-----------------------------------------------------------------------------
(* Locks and waiting.                                                      *)

LocksExclusive ==
    \A t, p \in Slots : t # p =>
        /\ HoldsEmail(t) /\ HoldsEmail(p) => email[t] # email[p]
        /\ HoldsSource(t) /\ HoldsSource(p) => source[t] # source[p]

WaitsAreShort == \A t \in Slots : UnderWay(t) => age[t] <= MaxWait

LEMMA LocksStep == QuotaTypeOK /\ LocksExclusive /\ [QuotaNext]_quotaVars => LocksExclusive'
<1> SUFFICES ASSUME QuotaTypeOK, LocksExclusive, [QuotaNext]_quotaVars,
                    NEW t \in Slots, NEW p \in Slots, t # p
             PROVE  /\ HoldsEmail(t)' /\ HoldsEmail(p)' => email'[t] # email'[p]
                    /\ HoldsSource(t)' /\ HoldsSource(p)' => source'[t] # source'[p]
  BY DEF LocksExclusive
<1> USE DEF QuotaTypeOK, LocksExclusive, HoldsEmail, HoldsSource, UnderWay
<1>1. CASE UNCHANGED quotaVars
  BY <1>1 DEF quotaVars
<1>2. ASSUME NEW q \in Slots, LockEmail(q) PROVE LocksExclusive'
  BY <1>2 DEF LockEmail
<1>3. ASSUME NEW q \in Slots, LockSource(q) PROVE LocksExclusive'
  BY <1>3 DEF LockSource
<1>4. ASSUME NEW q \in Slots, Count(q) \/ Place(q) \/ RollBack(q) \/ Leave(q) PROVE LocksExclusive'
  BY <1>4 DEF Count, Place, RollBack, Leave, Clear
<1>5. ASSUME NEW q \in Slots, NEW e \in Emails, NEW a \in Sources, Begin(q, e, a) PROVE LocksExclusive'
  BY <1>5 DEF Begin
<1>6. CASE QuotaTick
  BY <1>6 DEF QuotaTick
<1>7. CASE QuotaRestart
  BY <1>7 DEF QuotaRestart
<1> QED BY <1>1, <1>2, <1>3, <1>4, <1>5, <1>6, <1>7 DEF QuotaNext, Checkout

LEMMA WaitsStep == QuotaTypeOK /\ WaitsAreShort /\ [QuotaNext]_quotaVars => WaitsAreShort'
<1> SUFFICES ASSUME QuotaTypeOK, WaitsAreShort, [QuotaNext]_quotaVars PROVE WaitsAreShort'
  OBVIOUS
<1> USE DEF QuotaTypeOK, WaitsAreShort, UnderWay, MaxAge
<1>1. CASE UNCHANGED quotaVars
  BY <1>1 DEF quotaVars
<1>2. ASSUME NEW t \in Slots, Checkout(t) PROVE WaitsAreShort'
  BY <1>2 DEF Checkout, LockEmail, LockSource, Count, Place, RollBack, Leave, Clear
<1>3. ASSUME NEW t \in Slots, NEW e \in Emails, NEW a \in Sources, Begin(t, e, a) PROVE WaitsAreShort'
  BY <1>3 DEF Begin
<1>4. CASE QuotaTick
  BY <1>4 DEF QuotaTick, Older
<1>5. CASE QuotaRestart
  BY <1>5 DEF QuotaRestart
<1> QED BY <1>1, <1>2, <1>3, <1>4, <1>5 DEF QuotaNext
-----------------------------------------------------------------------------
(* Counting.  A step is quiet if it makes no order: whatever is unpaid     *)
(* after it was so before, under the same email and address, and as old.   *)

Quiet ==
    \A p \in Slots : stage'[p] = "unpaid" =>
        stage[p] = "unpaid" /\ email'[p] = email[p] /\ source'[p] = source[p] /\ age'[p] = age[p]

CountsStand == \A t \in Slots : stage[t] = "counted" => WithinQuota(t)

LEMMA SmallerSet ==
  ASSUME NEW T, NEW S \in SUBSET Slots, T \subseteq S
  PROVE  Cardinality(T) \in Nat /\ Cardinality(S) \in Nat /\ Cardinality(T) <= Cardinality(S)
<1>1. IsFiniteSet(S) /\ IsFiniteSet(T)
  BY FS_Subset
<1> QED BY <1>1, FS_Subset, FS_CardinalityType

\* A count that comes out no larger stands as well.
LEMMA CountStandsFor ==
  ASSUME QuotaTypeOK, NEW t \in Slots, WithinQuota(t), source'[t] = source[t],
         ByEmail(t)' \subseteq ByEmail(t),
         source[t] # Unknown => BySource(t)' \subseteq BySource(t)
  PROVE  WithinQuota(t)'
<1>1. /\ ByEmail(t) \in SUBSET Slots /\ BySource(t) \in SUBSET Slots
  BY DEF ByEmail, BySource
<1>2. Cardinality(ByEmail(t)') <= Cardinality(ByEmail(t)) /\ Cardinality(ByEmail(t)') \in Nat
      /\ Cardinality(ByEmail(t)) \in Nat
  BY <1>1, SmallerSet
<1>3. source[t] # Unknown => /\ Cardinality(BySource(t)') <= Cardinality(BySource(t))
                             /\ Cardinality(BySource(t)') \in Nat /\ Cardinality(BySource(t)) \in Nat
  BY <1>1, SmallerSet
<1> QED BY <1>2, <1>3 DEF WithinQuota

LEMMA QuietKeepsCounts ==
  ASSUME QuotaTypeOK, CountsStand, Quiet, NEW t \in Slots, stage[t] = "counted",
         email'[t] = email[t], source'[t] = source[t], age'[t] = age[t]
  PROVE  WithinQuota(t)'
<1>1. /\ ByEmail(t)' \subseteq ByEmail(t)
      /\ BySource(t)' \subseteq BySource(t)
  BY DEF Quiet, ByEmail, BySource, Counts
<1> QED BY <1>1, CountStandsFor DEF CountsStand

LEMMA CountsStep ==
  QuotaTypeOK /\ LocksExclusive /\ WaitsAreShort /\ CountsStand /\ [QuotaNext]_quotaVars => CountsStand'
<1> SUFFICES ASSUME QuotaTypeOK, LocksExclusive, WaitsAreShort, CountsStand, [QuotaNext]_quotaVars,
                    NEW t \in Slots, stage'[t] = "counted"
             PROVE  WithinQuota(t)'
  BY DEF CountsStand
<1>1. CASE UNCHANGED quotaVars
  BY <1>1, QuietKeepsCounts DEF quotaVars, Quiet
<1>2. ASSUME NEW q \in Slots, LockEmail(q) \/ LockSource(q) \/ RollBack(q) \/ Leave(q) PROVE WithinQuota(t)'
  <2>1. Quiet /\ stage[t] = "counted" /\ email'[t] = email[t] /\ source'[t] = source[t] /\ age'[t] = age[t]
    BY <1>2 DEF LockEmail, LockSource, RollBack, Leave, Clear, Quiet, QuotaTypeOK
  <2> QED BY <2>1, QuietKeepsCounts
<1>3. ASSUME NEW q \in Slots, Count(q) PROVE WithinQuota(t)'
  <2>1. Quiet /\ email'[t] = email[t] /\ source'[t] = source[t] /\ age'[t] = age[t]
    BY <1>3 DEF Count, Quiet, QuotaTypeOK
  <2>2. WithinQuota(t)
    BY <1>3 DEF Count, CountsStand, QuotaTypeOK
  <2>3. ByEmail(t)' \subseteq ByEmail(t) /\ BySource(t)' \subseteq BySource(t)
    BY <2>1 DEF Quiet, ByEmail, BySource, Counts
  <2> QED BY <2>1, <2>2, <2>3, CountStandsFor
\* The new order is of another email and another address: its transaction
\* holds the locks of both.
<1>4. ASSUME NEW q \in Slots, Place(q) PROVE WithinQuota(t)'
  <2>1. /\ stage[q] = "counted" /\ stage[t] = "counted" /\ q # t
        /\ UNCHANGED <<email, source, age>>
        /\ \A p \in Slots : p # q => stage'[p] = stage[p]
    BY <1>4 DEF Place, QuotaTypeOK
  <2>2. email[q] # email[t]
    BY <2>1 DEF LocksExclusive, HoldsEmail
  <2>3. source[t] # Unknown => source[q] # source[t]
    BY <2>1 DEF LocksExclusive, HoldsSource
  <2>4. ByEmail(t)' \subseteq ByEmail(t)
    BY <2>1, <2>2 DEF ByEmail, Counts
  <2>5. source[t] # Unknown => BySource(t)' \subseteq BySource(t)
    BY <2>1, <2>3 DEF BySource, Counts
  <2> QED BY <2>1, <2>4, <2>5, CountStandsFor DEF CountsStand
<1>5. ASSUME NEW q \in Slots, NEW e \in Emails, NEW a \in Sources, Begin(q, e, a) PROVE WithinQuota(t)'
  <2>1. Quiet /\ stage[t] = "counted" /\ email'[t] = email[t] /\ source'[t] = source[t] /\ age'[t] = age[t]
    BY <1>5 DEF Begin, Quiet, QuotaTypeOK
  <2> QED BY <2>1, QuietKeepsCounts
\* The transaction grows as old as the orders it counted, or faster.
<1>6. CASE QuotaTick
  <2>1. /\ UNCHANGED <<stage, email, source>>
        /\ age[t] < MaxWait /\ age'[t] = age[t] + 1
    BY <1>6 DEF QuotaTick, UnderWay, Older, QuotaTypeOK, MaxAge
  <2>2. ASSUME NEW p \in Slots, Counts(t, p)' PROVE Counts(t, p)
    <3>1. stage[p] = "unpaid" /\ age'[p] = Older(age[p]) /\ age'[p] - age'[t] < ExpireAge
      BY <1>6, <2>1, <2>2 DEF QuotaTick, Counts
    <3>2. age[p] \in 0..MaxAge /\ age[t] \in 0..MaxAge
      BY DEF QuotaTypeOK
    <3> QED BY <2>1, <3>1, <3>2 DEF Older, MaxAge, Counts
  <2>3. ByEmail(t)' \subseteq ByEmail(t) /\ BySource(t)' \subseteq BySource(t)
    BY <2>1, <2>2 DEF ByEmail, BySource
  <2> QED BY <2>1, <2>3, CountStandsFor DEF CountsStand
<1>7. CASE QuotaRestart
  BY <1>7 DEF QuotaRestart, UnderWay, QuotaTypeOK
<1> QED BY <1>1, <1>2, <1>3, <1>4, <1>5, <1>6, <1>7 DEF QuotaNext, Checkout

-----------------------------------------------------------------------------
(* The quota.                                                              *)

OfEmail(e) == {t \in Slots : Unexpired(t) /\ email[t] = e}
OfAddress(a) == {t \in Slots : Unexpired(t) /\ source[t] = a}

\* A set that only shrinks stays within a bound.
LEMMA WithinAsBefore ==
  ASSUME NEW S \in SUBSET Slots, NEW T, T \subseteq S, NEW n \in Nat, Cardinality(S) <= n
  PROVE  Cardinality(T) <= n
<1>1. Cardinality(T) <= Cardinality(S) /\ Cardinality(T) \in Nat /\ Cardinality(S) \in Nat
  BY SmallerSet
<1> QED BY <1>1

LEMMA FewerKeepQuota ==
  ASSUME QuotaKept,
         \A e \in Emails : OfEmail(e)' \subseteq OfEmail(e),
         \A a \in Addresses : OfAddress(a)' \subseteq OfAddress(a)
  PROVE  QuotaKept'
<1>1. ASSUME NEW e \in Emails PROVE Cardinality(OfEmail(e)') <= MaxUnpaidPerEmail
  <2>1. OfEmail(e) \in SUBSET Slots /\ OfEmail(e)' \subseteq OfEmail(e)
    BY DEF OfEmail
  <2>2. Cardinality(OfEmail(e)) <= MaxUnpaidPerEmail
    BY DEF QuotaKept, EmailQuotaKept, OfEmail
  <2> QED BY <2>1, <2>2, WithinAsBefore, QuotaAssumption
<1>2. ASSUME NEW a \in Addresses PROVE Cardinality(OfAddress(a)') <= MaxUnpaidPerAddress
  <2>1. OfAddress(a) \in SUBSET Slots /\ OfAddress(a)' \subseteq OfAddress(a)
    BY DEF OfAddress
  <2>2. Cardinality(OfAddress(a)) <= MaxUnpaidPerAddress
    BY DEF QuotaKept, AddressQuotaKept, OfAddress
  <2> QED BY <2>1, <2>2, WithinAsBefore, QuotaAssumption
<1> QED BY <1>1, <1>2 DEF QuotaKept, EmailQuotaKept, AddressQuotaKept, OfEmail, OfAddress

\* One order more than a count that was below the quota is within it.
LEMMA OneMore ==
  ASSUME NEW S \in SUBSET Slots, NEW q \in Slots, NEW T, T \subseteq S \cup {q},
         NEW n \in Nat, Cardinality(S) < n
  PROVE  Cardinality(T) <= n
<1>1. IsFiniteSet(S)
  BY FS_Subset, QuotaAssumption
<1>2. /\ Cardinality(S) \in Nat
      /\ Cardinality(S \cup {q}) <= Cardinality(S) + 1
      /\ S \cup {q} \in SUBSET Slots
  <2>1. Cardinality(S) \in Nat
    BY <1>1, FS_CardinalityType
  <2>2. Cardinality(S \cup {q}) = Cardinality(S) \/ Cardinality(S \cup {q}) = Cardinality(S) + 1
    BY <1>1, FS_AddElement
  <2> QED BY <2>1, <2>2
<1>3. Cardinality(T) <= Cardinality(S \cup {q}) /\ Cardinality(T) \in Nat /\ Cardinality(S \cup {q}) \in Nat
  BY <1>2, SmallerSet
<1> QED BY <1>2, <1>3

LEMMA PlaceKeepsQuota ==
  ASSUME QuotaTypeOK, CountsStand, QuotaKept, NEW q \in Slots, Place(q)
  PROVE  QuotaKept'
<1>1. /\ stage[q] = "counted" /\ WithinQuota(q)
      /\ UNCHANGED <<email, source, age>>
      /\ \A p \in Slots : p # q => stage'[p] = stage[p]
  BY DEF Place, CountsStand, QuotaTypeOK
<1>2. age[q] \in Nat /\ \A p \in Slots : age[p] \in Nat
  BY DEF QuotaTypeOK, MaxAge
<1>3. ASSUME NEW e \in Emails PROVE Cardinality(OfEmail(e)') <= MaxUnpaidPerEmail
  <2>1. CASE e = email[q]
    <3>1. OfEmail(e)' \subseteq ByEmail(q) \cup {q}
      BY <1>1, <1>2, <2>1 DEF OfEmail, Unexpired, ByEmail, Counts
    <3>2. ByEmail(q) \in SUBSET Slots /\ Cardinality(ByEmail(q)) < MaxUnpaidPerEmail
      BY <1>1 DEF WithinQuota, ByEmail
    <3> QED BY <3>1, <3>2, OneMore
  <2>2. CASE e # email[q]
    <3>1. OfEmail(e) \in SUBSET Slots /\ OfEmail(e)' \subseteq OfEmail(e)
      BY <1>1, <2>2 DEF OfEmail, Unexpired
    <3>2. Cardinality(OfEmail(e)) <= MaxUnpaidPerEmail
      BY DEF QuotaKept, EmailQuotaKept, OfEmail
    <3> QED BY <3>1, <3>2, WithinAsBefore, QuotaAssumption
  <2> QED BY <2>1, <2>2
<1>4. ASSUME NEW a \in Addresses PROVE Cardinality(OfAddress(a)') <= MaxUnpaidPerAddress
  <2>1. CASE a = source[q]
    <3>1. OfAddress(a)' \subseteq BySource(q) \cup {q}
      BY <1>1, <1>2, <2>1 DEF OfAddress, Unexpired, BySource, Counts
    <3>2. BySource(q) \in SUBSET Slots /\ Cardinality(BySource(q)) < MaxUnpaidPerAddress
      BY <1>1, <2>1 DEF WithinQuota, BySource
    <3> QED BY <3>1, <3>2, OneMore
  <2>2. CASE a # source[q]
    <3>1. OfAddress(a) \in SUBSET Slots /\ OfAddress(a)' \subseteq OfAddress(a)
      BY <1>1, <2>2 DEF OfAddress, Unexpired
    <3>2. Cardinality(OfAddress(a)) <= MaxUnpaidPerAddress
      BY DEF QuotaKept, AddressQuotaKept, OfAddress
    <3> QED BY <3>1, <3>2, WithinAsBefore, QuotaAssumption
  <2> QED BY <2>1, <2>2
<1> QED BY <1>3, <1>4 DEF QuotaKept, EmailQuotaKept, AddressQuotaKept, OfEmail, OfAddress

LEMMA QuotaStep ==
  QuotaTypeOK /\ CountsStand /\ QuotaKept /\ [QuotaNext]_quotaVars => QuotaKept'
<1> SUFFICES ASSUME QuotaTypeOK, CountsStand, QuotaKept, [QuotaNext]_quotaVars PROVE QuotaKept'
  OBVIOUS
<1>1. CASE \E q \in Slots : Place(q)
  BY <1>1, PlaceKeepsQuota
<1>2. CASE QuotaTick
  <2>1. \A p \in Slots : Unexpired(p)' => Unexpired(p)
    BY <1>2 DEF QuotaTick, Unexpired, Older, QuotaTypeOK, MaxAge
  <2> QED BY <1>2, <2>1, FewerKeepQuota DEF QuotaTick, OfEmail, OfAddress
<1>3. CASE Quiet
  BY <1>3, FewerKeepQuota DEF Quiet, OfEmail, OfAddress, Unexpired
<1>4. CASE UNCHANGED quotaVars
  BY <1>3, <1>4 DEF quotaVars, Quiet
<1>5. ASSUME NEW q \in Slots, LockEmail(q) \/ LockSource(q) \/ Count(q) \/ RollBack(q) \/ Leave(q) PROVE QuotaKept'
  BY <1>3, <1>5 DEF LockEmail, LockSource, Count, RollBack, Leave, Clear, Quiet, QuotaTypeOK
<1>6. ASSUME NEW q \in Slots, NEW e \in Emails, NEW a \in Sources, Begin(q, e, a) PROVE QuotaKept'
  BY <1>3, <1>6 DEF Begin, Quiet, QuotaTypeOK
<1>7. CASE QuotaRestart
  BY <1>3, <1>7 DEF QuotaRestart, UnderWay, Quiet, QuotaTypeOK
<1> QED BY <1>1, <1>2, <1>4, <1>5, <1>6, <1>7 DEF QuotaNext, Checkout

-----------------------------------------------------------------------------
QuotaInv == QuotaTypeOK /\ LocksExclusive /\ WaitsAreShort /\ CountsStand /\ QuotaKept

LEMMA QuotaInvInit == QuotaInit => QuotaInv
<1> SUFFICES ASSUME QuotaInit PROVE QuotaInv
  OBVIOUS
<1>1. \A t \in Slots : stage[t] = "free"
  BY DEF QuotaInit
<1>2. LocksExclusive /\ WaitsAreShort /\ CountsStand
  BY <1>1 DEF LocksExclusive, HoldsEmail, HoldsSource, WaitsAreShort, UnderWay, CountsStand
<1>3. (\A e : OfEmail(e) = {}) /\ (\A a : OfAddress(a) = {})
  BY <1>1 DEF OfEmail, OfAddress, Unexpired
<1>4. QuotaKept
  BY <1>3, FS_EmptySet DEF QuotaKept, EmailQuotaKept, AddressQuotaKept, OfEmail, OfAddress
<1> QED BY <1>2, <1>4, QuotaTypeInit DEF QuotaInv

LEMMA QuotaInvStep == QuotaInv /\ [QuotaNext]_quotaVars => QuotaInv'
BY QuotaTypeStep, LocksStep, WaitsStep, CountsStep, QuotaStep DEF QuotaInv

\* To the quota, the requests that pass the limiter or do not, and its
\* memory, are checkouts that begin or do not.
LEMMA AdmissionStep == [Next]_vars => [QuotaNext]_quotaVars
<1> SUFFICES ASSUME [Next]_vars PROVE [QuotaNext]_quotaVars
  OBVIOUS
<1>1. CASE UNCHANGED vars
  BY <1>1 DEF vars
<1>2. CASE Next
  BY <1>2 DEF Next, Request, TooManyRequests, RefusedEarly, Tick, Restart, QuotaNext
<1> QED BY <1>1, <1>2

\* Admission keeps what the checkout's transactions promise: it implements
\* UnpaidQuota (create calls CreateOrder once, after the limiter).
THEOREM AdmissionImplementsQuota == Spec => QuotaSpec
<1>1. Init => QuotaInit
  BY DEF Init
<1> QED BY <1>1, AdmissionStep, PTL DEF Spec, QuotaSpec

\* unpaidQuota: however many checkouts run at once, whenever they were begun
\* and whatever expires, is paid or crashes meanwhile, no email and no known
\* address ever has more unpaid and unexpired orders than its quota.
THEOREM QuotaIsAlwaysKept == Spec => []QuotaKept
<1>1. Init => QuotaInv
  BY QuotaInvInit DEF Init
<1>2. QuotaInv /\ [Next]_vars => QuotaInv'
  BY QuotaInvStep, AdmissionStep
<1>3. QuotaInv => QuotaKept
  BY DEF QuotaInv
<1> QED BY <1>1, <1>2, <1>3, PTL DEF Spec

-----------------------------------------------------------------------------
(* The request limiter's table.                                            *)

RestOK == spill \in Windows /\ swept \in BOOLEAN /\ passed \in [0..Window - 1 -> Nat]

TableOK(h) ==
    /\ IsFiniteSet(DOMAIN h) /\ DOMAIN h \subseteq Clients
    /\ Cardinality(DOMAIN h) <= MaxIPs
    /\ h \in [DOMAIN h -> Windows]

LimitInv == TableOK(hits) /\ RestOK

\* sweep only makes the table smaller.
LEMMA SweptTable ==
  ASSUME TableOK(hits), NEW a
  PROVE  TableOK(Table(a))
<1>1. CASE ~Sweeps(a)
  BY <1>1 DEF Table
<1>2. CASE Sweeps(a)
  <2>1. Table(a) = [k \in Kept(hits) |-> hits[k]] /\ DOMAIN Table(a) = Kept(hits)
    BY <1>2 DEF Table
  <2>2. Kept(hits) \subseteq DOMAIN hits
    BY DEF Kept
  <2>3. IsFiniteSet(Kept(hits)) /\ Cardinality(Kept(hits)) <= Cardinality(DOMAIN hits)
    BY <2>2, FS_Subset DEF TableOK
  <2>4. Cardinality(Kept(hits)) \in Nat /\ Cardinality(DOMAIN hits) \in Nat
    BY <2>3, FS_CardinalityType DEF TableOK
  <2>5. Cardinality(Kept(hits)) <= MaxIPs
    BY <2>3, <2>4, LimitAssumption DEF TableOK
  <2> QED BY <2>1, <2>2, <2>3, <2>5 DEF TableOK
<1> QED BY <1>1, <1>2

LEMMA SpentWindow ==
  ASSUME NEW w \in Windows
  PROVE  Current(w) \in Windows /\ Spend(w) \in Windows /\ Spend(Current(w)) \in Windows
BY LimitAssumption DEF Windows, Current, Opened, Over, Spend

\* allow: whether from its own window or from the shared one.
LEMMA PassesKeepsTable ==
  ASSUME LimitInv, NEW a \in Clients, Passes(a)
  PROVE  LimitInv'
<1> DEFINE T == Table(a)
<1>1. TableOK(T)
  BY SweptTable DEF LimitInv
<1>2. swept' \in BOOLEAN /\ passed' \in [0..Window - 1 -> Nat]
  BY LimitAssumption DEF Passes, LimitInv, RestOK
<1>3. ASSUME PassesByOverflow(a) PROVE LimitInv'
  <2>1. hits' = T /\ spill' = Spend(Current(spill))
    BY <1>3 DEF PassesByOverflow
  <2>2. spill' \in Windows
    BY <2>1, SpentWindow DEF LimitInv, RestOK
  <2> QED BY <1>1, <1>2, <2>1, <2>2 DEF LimitInv, RestOK, TableOK
<1>4. ASSUME PassesByOwn(a) PROVE LimitInv'
  <2> DEFINE D == DOMAIN T \cup {a}
  <2>1. hits' = [k \in D |-> IF k = a THEN Spend(Own(a)) ELSE T[k]] /\ spill' = spill
    BY <1>4 DEF PassesByOwn
  <2>2. Own(a) \in Windows /\ Spend(Own(a)) \in Windows
    <3>1. Opened \in Windows
      BY LimitAssumption DEF Opened, Windows
    <3>2. a \in DOMAIN T => T[a] \in Windows
      BY <1>1 DEF TableOK
    <3>3. Own(a) \in Windows
      BY <3>1, <3>2, SpentWindow DEF Own
    <3> QED BY <3>3, SpentWindow
  <2>3. IsFiniteSet(D) /\ Cardinality(D) <= MaxIPs
    <3>1. CASE a \in DOMAIN T
      <4>1. D = DOMAIN T
        BY <3>1
      <4> QED BY <4>1, <1>1 DEF TableOK
    <3>2. CASE a \notin DOMAIN T
      <4>1. Cardinality(DOMAIN T) \in Nat
        BY <1>1, FS_CardinalityType DEF TableOK
      <4>2. Cardinality(DOMAIN T) < MaxIPs
        BY <1>4, <3>2, <4>1, LimitAssumption DEF PassesByOwn, InTable, Full
      <4>3. IsFiniteSet(D) /\ Cardinality(D) = Cardinality(DOMAIN T) + 1
        BY <1>1, <3>2, FS_AddElement DEF TableOK
      <4> QED BY <4>1, <4>2, <4>3, LimitAssumption
    <3> QED BY <3>1, <3>2
  <2>4. DOMAIN hits' = D
    BY <2>1
  <2>5. \A k \in D : hits'[k] \in Windows
    BY <1>1, <2>1, <2>2 DEF TableOK
  <2>6. hits' \in [D -> Windows]
    BY <2>1, <2>5
  <2>7. D \subseteq Clients
    BY <1>1 DEF TableOK
  <2> QED BY <1>2, <2>1, <2>3, <2>4, <2>6, <2>7 DEF LimitInv, RestOK, TableOK
<1> QED BY <1>3, <1>4 DEF Passes

LEMMA LimitInvInit == LimitInit => LimitInv
<1> SUFFICES ASSUME LimitInit PROVE LimitInv
  OBVIOUS
<1>1. hits = [k \in {} |-> Opened] /\ DOMAIN hits = {}
  BY DEF LimitInit
<1>2. TableOK(hits)
  BY <1>1, FS_EmptySet, LimitAssumption DEF TableOK
<1>3. RestOK
  BY LimitAssumption DEF LimitInit, RestOK, NeverUsed, Windows
<1> QED BY <1>2, <1>3 DEF LimitInv

LEMMA LimitStep == LimitInv /\ [Next]_vars => LimitInv'
<1> SUFFICES ASSUME LimitInv, [Next]_vars PROVE LimitInv'
  OBVIOUS
<1>1. CASE UNCHANGED limitVars
  BY <1>1 DEF limitVars, LimitInv, RestOK, TableOK
<1>2. ASSUME NEW a \in Addresses, Passes(a) PROVE LimitInv'
  BY <1>2, PassesKeepsTable, AdmissionAssumption
<1>3. ASSUME NEW a \in Addresses, Refused(a) PROVE LimitInv'
  <2>1. TableOK(Table(a))
    BY SweptTable DEF LimitInv
  <2>2. hits' = Table(a) /\ swept' \in BOOLEAN /\ UNCHANGED <<spill, passed>>
    BY <1>3 DEF Refused, LimitInv, RestOK
  <2> QED BY <2>1, <2>2 DEF LimitInv, RestOK, TableOK
<1>4. CASE LimitTick
  <2>1. \A w \in Windows : Aged(w) \in Windows
    BY LimitAssumption DEF Windows, Aged, Over
  <2>2. hits' = [k \in DOMAIN hits |-> Aged(hits[k])] /\ spill' = Aged(spill)
    BY <1>4 DEF LimitTick
  <2>3. TableOK(hits)'
    BY <2>1, <2>2 DEF LimitInv, TableOK
  <2>4. spill' \in Windows /\ swept' \in BOOLEAN
    BY <1>4, <2>1, <2>2 DEF LimitTick, LimitInv, RestOK
  <2>5. passed' = [n \in 0..Window - 1 |-> IF n = 0 THEN 0 ELSE passed[n - 1]]
    BY <1>4 DEF LimitTick, LimitInv, RestOK
  <2>6. passed' \in [0..Window - 1 -> Nat]
    <3>1. \A n \in 0..Window - 1 : n # 0 => n - 1 \in 0..Window - 1
      BY LimitAssumption
    <3> QED BY <2>5, <3>1 DEF LimitInv, RestOK
  <2> QED BY <2>3, <2>4, <2>6 DEF LimitInv, RestOK
<1>5. CASE LimitRestart
  <2>1. hits' = [k \in {} |-> Opened] /\ DOMAIN hits' = {}
    BY <1>5 DEF LimitRestart
  <2>2. TableOK(hits)'
    BY <2>1, FS_EmptySet, LimitAssumption DEF TableOK
  <2>3. NeverUsed \in Windows
    BY LimitAssumption DEF NeverUsed, Windows
  <2>4. passed' \in [0..Window - 1 -> Nat]
    BY <1>5 DEF LimitRestart, LimitInv, RestOK
  <2>5. spill' = NeverUsed /\ swept' = FALSE
    BY <1>5 DEF LimitRestart
  <2> QED BY <2>2, <2>3, <2>4, <2>5 DEF LimitInv, RestOK
<1>6. ASSUME NEW t \in Slots, NEW e \in Emails, NEW a \in Sources, Request(t, e, a) PROVE LimitInv'
  BY <1>1, <1>2, <1>6 DEF Request, Sources
<1>7. CASE UNCHANGED vars
  BY <1>1, <1>7 DEF vars
<1> QED BY <1>1, <1>2, <1>3, <1>4, <1>5, <1>6, <1>7
        DEF Next, TooManyRequests, RefusedEarly, Tick, Restart

\* ipLimiter.allow and sweep with unpaidQuota: whoever asks, from however many
\* addresses, the limiter's table never holds more than limiterMaxIPs of them.
THEOREM AdmissionTypeCorrect == Spec => []TypeOK
<1> DEFINE IInv == QuotaTypeOK /\ LimitInv
<1>1. Init => IInv
  BY QuotaTypeInit, LimitInvInit DEF Init
<1>2. IInv /\ [Next]_vars => IInv'
  BY LimitStep, QuotaTypeStep, AdmissionStep
<1>3. IInv => TypeOK
  BY DEF TypeOK, LimitTypeOK, LimitInv, TableOK, RestOK
<1> QED BY <1>1, <1>2, <1>3, PTL DEF Spec

-----------------------------------------------------------------------------
(* The flood.  Of the requests let through within the last t steps, a      *)
(* place in the table accounts for its Share: those of the window it has   *)
(* now, and of the one before it all but the first, which is older than    *)
(* any that still counts.  A place whose window is over, or a free one,    *)
(* has only that to show.                                                  *)

LeftOver(b, t) == IF t <= 1 THEN 0 ELSE b - 1
Share(w, b, t) ==
    IF t = 0 THEN 0
    ELSE IF Over(w) THEN LeftOver(b, t)
    ELSE IF w.age >= t THEN w.count - 1
    ELSE IF w.age = t - 1 THEN w.count
    ELSE w.count + b - 1

CountOK(w, b) == ~Over(w) => w.count \in 1..b
One(t) == IF t = 0 THEN 0 ELSE 1

LEMMA ShareType ==
  ASSUME NEW w \in Windows, NEW b \in Nat \ {0}, NEW t \in 0..Window
  PROVE  Share(w, b, t) \in Int /\ LeftOver(b, t) \in Nat /\ (Over(w) => Share(w, b, t) = LeftOver(b, t))
BY LimitAssumption DEF Share, LeftOver, Windows, Over

\* One more request, in the window as it is found or in a new one.
LEMMA ShareSpent ==
  ASSUME NEW w \in Windows, NEW b \in Nat \ {0}, CountOK(w, b), Current(w).count < b, NEW t \in 0..Window
  PROVE  CountOK(Spend(Current(w)), b) /\ Share(Spend(Current(w)), b, t) = Share(w, b, t) + One(t)
<1>1. CASE Over(w)
  <2>1. Current(w) = Opened /\ Spend(Current(w)) = [age |-> 0, count |-> 1]
    BY <1>1 DEF Current, Spend, Opened
  <2> QED BY <1>1, <2>1, LimitAssumption DEF Share, LeftOver, One, CountOK, Over
<1>2. CASE ~Over(w)
  <2>1. Current(w) = w /\ Spend(w).age = w.age /\ Spend(w).count = w.count + 1 /\ ~Over(Spend(w))
        /\ w.count \in 1..b - 1 /\ w.age \in 0..Window
    BY <1>2 DEF Current, Spend, Windows, Over, CountOK
  <2> QED BY <1>2, <2>1, LimitAssumption DEF Share, One, CountOK
<1> QED BY <1>1, <1>2

LEMMA ShareOpened ==
  ASSUME NEW b \in Nat \ {0}, NEW t \in 0..Window
  PROVE  CountOK(Spend(Opened), b) /\ Share(Spend(Opened), b, t) = LeftOver(b, t) + One(t)
<1>1. Spend(Opened) = [age |-> 0, count |-> 1]
  BY DEF Spend, Opened
<1> QED BY <1>1, LimitAssumption DEF Share, LeftOver, One, CountOK, Over

LEMMA ShareAged ==
  ASSUME NEW w \in Windows, NEW b \in Nat \ {0}, CountOK(w, b), NEW t \in 1..Window
  PROVE  CountOK(Aged(w), b) /\ Share(w, b, t - 1) <= Share(Aged(w), b, t)
<1>1. CASE Over(w)
  <2>1. Aged(w) = w
    BY <1>1 DEF Aged, Windows
  <2> QED BY <1>1, <2>1, LimitAssumption DEF Share, LeftOver, CountOK
<1>2. CASE ~Over(w)
  <2>1. Aged(w).age = w.age + 1 /\ Aged(w).count = w.count /\ w.count \in 1..b /\ w.age \in 0..Window - 1
    BY <1>2, LimitAssumption DEF Aged, Windows, CountOK, Over
  <2>2. CASE Over(Aged(w))
    <3>1. w.age = Window - 1
      BY <2>1, <2>2 DEF Over
    <3> QED BY <1>2, <2>1, <2>2, <3>1, LimitAssumption DEF Share, LeftOver, CountOK
  <2>3. CASE ~Over(Aged(w))
    BY <1>2, <2>1, <2>3, LimitAssumption DEF Share, CountOK
  <2> QED BY <2>2, <2>3
<1> QED BY <1>1, <1>2

\* The shares of the table, its free places included.
Shares(h, t) == [k \in DOMAIN h |-> Share(h[k], Limit, t)]
TableShare(h, t) ==
    SumFunctionOnSet(Shares(h, t), DOMAIN h) + (MaxIPs - Cardinality(DOMAIN h)) * LeftOver(Limit, t)

Flood(p, h, s) == \A t \in 0..Window : Prefix(p, t) <= TableShare(h, t) + Share(s, Overflow, t)
TableCounts(h) == \A k \in DOMAIN h : CountOK(h[k], Limit)

LEMMA SharesType ==
  ASSUME NEW h, TableOK(h), NEW t \in 0..Window
  PROVE  /\ \A k \in DOMAIN h : Shares(h, t)[k] \in Int
         /\ SumFunctionOnSet(Shares(h, t), DOMAIN h) \in Int
         /\ Cardinality(DOMAIN h) \in Nat /\ LeftOver(Limit, t) \in Nat
         /\ (MaxIPs - Cardinality(DOMAIN h)) * LeftOver(Limit, t) \in Nat
         /\ TableShare(h, t) \in Int
<1>1. \A k \in DOMAIN h : Shares(h, t)[k] \in Int
  BY ShareType, LimitAssumption DEF Shares, TableOK
<1>2. SumFunctionOnSet(Shares(h, t), DOMAIN h) \in Int
  BY <1>1, SumType DEF TableOK
<1>3. Cardinality(DOMAIN h) \in Nat /\ MaxIPs - Cardinality(DOMAIN h) \in Nat
  BY FS_CardinalityType, LimitAssumption DEF TableOK
<1>4. LeftOver(Limit, t) \in Nat
  BY LimitAssumption DEF LeftOver
<1>5. \A m, n \in Nat : m * n \in Nat
  OBVIOUS
<1>6. (MaxIPs - Cardinality(DOMAIN h)) * LeftOver(Limit, t) \in Nat
  BY <1>3, <1>4, <1>5
<1> QED BY <1>1, <1>2, <1>3, <1>4, <1>6 DEF TableShare

\* In no time, and in a table not used yet, nothing is owed.
LEMMA ShareOfNothing ==
  ASSUME NEW h, TableOK(h), NEW t \in 0..Window, t = 0 \/ DOMAIN h = {}
  PROVE  TableShare(h, t) >= 0
<1> DEFINE f == Shares(h, t)
           T == DOMAIN h
           r == (MaxIPs - Cardinality(T)) * LeftOver(Limit, t)
<1>1. r \in Nat /\ IsFiniteSet(T)
  BY SharesType DEF TableOK
<1>2. SumFunctionOnSet(f, T) = 0
  <2>1. CASE T = {}
    BY <2>1, SumEmpty
  <2>2. CASE t = 0
    <3>1. \A k \in T : f[k] = 0
      BY <2>2 DEF Shares, Share
    <3>2. PICK n : n = Cardinality(T)
      OBVIOUS
    <3>3. n \in Nat
      BY <1>1, <3>2, FS_CardinalityType
    <3>4. {} \in SUBSET T /\ T \ {} = T /\ \A x \in T : f[x] \in Int
      BY <3>1
    <3> HIDE DEF f, T
    <3>5. SumFunctionOnSet(f, T) = SumFunctionOnSet(f, {}) + Cardinality(T \ {}) * 0
      BY <1>1, <3>1, <3>4, SumRest
    <3>6. SumFunctionOnSet(f, T) = 0 + n * 0
      BY <3>2, <3>4, <3>5, SumEmpty, Zenon
    <3>7. 0 + n * 0 = 0
      BY <3>3
    <3> QED BY <3>6, <3>7
  <2> QED BY <2>1, <2>2
<1>3. TableShare(h, t) = SumFunctionOnSet(f, T) + r
  BY DEF TableShare
<1> HIDE DEF f, T, r
<1> QED BY <1>1, <1>2, <1>3

\* What a sweep drops had left all it counted for.
LEMMA SweptShare ==
  ASSUME NEW h, TableOK(h), NEW t \in 0..Window
  PROVE  TableShare([k \in Kept(h) |-> h[k]], t) = TableShare(h, t)
<1> DEFINE g == [k \in Kept(h) |-> h[k]]
           T == DOMAIN h
           K == Kept(h)
           d == LeftOver(Limit, t)
           f == Shares(h, t)
<1>1. K \in SUBSET T /\ DOMAIN g = K /\ IsFiniteSet(T) /\ IsFiniteSet(K)
  BY FS_Subset DEF Kept, TableOK
<1>2. (\A x \in T : f[x] \in Int) /\ d \in Int
  BY SharesType
<1>3. \A x \in T \ K : f[x] = d
  BY ShareType, LimitAssumption DEF Shares, Kept, TableOK
<1>4. \A x \in K : Shares(g, t)[x] = f[x]
  BY <1>1 DEF Shares
<1>5. Cardinality(T \ K) = Cardinality(T) - Cardinality(K) /\ Cardinality(T) \in Nat /\ Cardinality(K) \in Nat
  <2>1. T \cap K = K
    BY <1>1
  <2> HIDE DEF T, K
  <2>2. Cardinality(T \ K) = Cardinality(T) - Cardinality(T \cap K)
    BY <1>1, FS_Difference
  <2>3. Cardinality(T) \in Nat /\ Cardinality(K) \in Nat
    BY <1>1, FS_CardinalityType
  <2> QED BY <2>1, <2>2, <2>3, Zenon
<1> HIDE DEF g, T, K, d, f
<1>6. SumFunctionOnSet(f, T) = SumFunctionOnSet(f, K) + Cardinality(T \ K) * d
  BY <1>1, <1>2, <1>3, SumRest
<1>7. SumFunctionOnSet(Shares(g, t), K) = SumFunctionOnSet(f, K) /\ SumFunctionOnSet(f, K) \in Int
  <2>1. \A x \in K : f[x] \in Int
    BY <1>1, <1>2
  <2> QED BY <1>1, <1>4, <2>1, SumSame, SumType
<1>8. SumFunctionOnSet(f, K) + (MaxIPs - Cardinality(K)) * d
        = SumFunctionOnSet(f, T) + (MaxIPs - Cardinality(T)) * d
  <2> DEFINE s == SumFunctionOnSet(f, K)
             r == SumFunctionOnSet(f, T)
             k == Cardinality(K)
             n == Cardinality(T)
  <2>1. r = s + (n - k) * d
    BY <1>5, <1>6, Zenon
  <2>2. s \in Int /\ n \in Nat /\ k \in Nat /\ d \in Int /\ MaxIPs \in Nat
    BY <1>2, <1>5, <1>7, LimitAssumption
  <2> HIDE DEF s, r, k, n
  <2>3. (MaxIPs - k) * d = (n - k) * d + (MaxIPs - n) * d
    BY <2>2
  <2>4. (n - k) * d \in Int /\ (MaxIPs - n) * d \in Int
    BY <2>2
  <2>5. s + (MaxIPs - k) * d = r + (MaxIPs - n) * d
    BY <2>1, <2>2, <2>3, <2>4
  <2> QED BY <2>5 DEF s, r, k, n
<1>9. TableShare(g, t) = SumFunctionOnSet(f, K) + (MaxIPs - Cardinality(K)) * d
  BY <1>1, <1>7 DEF TableShare, d
<1>10. TableShare(h, t) = SumFunctionOnSet(f, T) + (MaxIPs - Cardinality(T)) * d
  BY DEF TableShare, f, T, d
<1>11. TableShare(g, t) = TableShare(h, t)
  BY <1>8, <1>9, <1>10
<1> QED BY <1>11 DEF g

\* A request passes by a window of its own, old or new.
LEMMA OwnShare ==
  ASSUME NEW h, TableOK(h), TableCounts(h), NEW a \in Clients, NEW v,
         v = (IF a \in DOMAIN h THEN Current(h[a]) ELSE Opened), v.count < Limit, NEW t \in 0..Window
  PROVE  LET g == [k \in DOMAIN h \cup {a} |-> IF k = a THEN Spend(v) ELSE h[k]]
         IN  TableCounts(g) /\ TableShare(g, t) = TableShare(h, t) + One(t)
<1> DEFINE g == [k \in DOMAIN h \cup {a} |-> IF k = a THEN Spend(v) ELSE h[k]]
           T == DOMAIN h
           d == LeftOver(Limit, t)
           p == Shares(h, t)
           q == Shares(g, t)
           n == Cardinality(T)
<1>1. /\ IsFiniteSet(T) /\ n \in Nat /\ d \in Nat /\ One(t) \in Int /\ Limit \in Nat \ {0} /\ MaxIPs \in Nat
      /\ \A k \in T : p[k] \in Int
      /\ SumFunctionOnSet(p, T) \in Int
  BY SharesType, LimitAssumption DEF TableOK, One
<1>2. DOMAIN g = T \cup {a} /\ g[a] = Spend(v) /\ \A k \in T \ {a} : g[k] = h[k]
  OBVIOUS
<1>3. q[a] = Share(Spend(v), Limit, t) /\ \A k \in T \ {a} : q[k] = p[k]
  BY <1>2 DEF Shares
<1>4. TableShare(h, t) = SumFunctionOnSet(p, T) + (MaxIPs - n) * d
  BY DEF TableShare
<1>5. TableShare(g, t) = SumFunctionOnSet(q, DOMAIN g) + (MaxIPs - Cardinality(DOMAIN g)) * d
  BY DEF TableShare
<1>6. CASE a \in T
  <2>1. h[a] \in Windows /\ CountOK(h[a], Limit) /\ v = Current(h[a])
    BY <1>6 DEF TableOK, TableCounts
  <2>2. CountOK(Spend(v), Limit) /\ Share(Spend(v), Limit, t) = Share(h[a], Limit, t) + One(t)
    BY <1>1, <2>1, ShareSpent
  <2>3. DOMAIN g = T /\ q[a] = p[a] + One(t) /\ \A k \in T : q[k] \in Int
    BY <1>1, <1>2, <1>3, <1>6, <2>2 DEF Shares
  <2>4. TableCounts(g)
    BY <1>2, <2>2, <2>3 DEF TableCounts
  <2> HIDE DEF g, p, q, T, d, n
  <2>5. SumFunctionOnSet(q, T) = SumFunctionOnSet(p, T) + (q[a] - p[a])
    BY <1>1, <1>3, <1>6, <2>3, SumChange
  <2>6. p[a] \in Int /\ q[a] - p[a] = One(t)
    BY <1>1, <1>6, <2>3
  <2>7. Cardinality(DOMAIN g) = n
    BY <2>3 DEF n
  <2>8. (MaxIPs - n) * d \in Int
    BY <1>1
  <2>9. TableShare(g, t) = TableShare(h, t) + One(t)
    BY <1>1, <1>4, <1>5, <2>3, <2>5, <2>6, <2>7, <2>8
  <2> QED BY <2>4, <2>9 DEF g
<1>7. CASE a \notin T
  <2>1. v = Opened
    BY <1>7
  <2>2. CountOK(Spend(v), Limit) /\ Share(Spend(v), Limit, t) = d + One(t)
    BY <1>1, <2>1, ShareOpened
  <2>3. TableCounts(g)
    BY <1>2, <2>2 DEF TableCounts
  <2>4. Cardinality(T \cup {a}) = n + 1
    BY <1>1, <1>7, FS_AddElement
  <2>5. \A k \in T \cup {a} : q[k] \in Int
    BY <1>1, <1>3, <2>2
  <2> HIDE DEF g, p, q, T, d, n
  <2>6. SumFunctionOnSet(q, T \cup {a}) = q[a] + SumFunctionOnSet(q, T)
    BY <1>1, <1>7, <2>5, SumAdd
  <2>7. SumFunctionOnSet(q, T) = SumFunctionOnSet(p, T)
    BY <1>1, <1>3, <1>7, SumSame
  <2>8. (MaxIPs - (n + 1)) * d = (MaxIPs - n) * d - d /\ (MaxIPs - n) * d \in Int
    BY <1>1
  <2>9. TableShare(g, t) = (d + One(t) + SumFunctionOnSet(p, T)) + ((MaxIPs - n) * d - d)
    BY <1>2, <1>3, <1>5, <2>2, <2>4, <2>6, <2>7, <2>8
  <2>10. TableShare(g, t) = TableShare(h, t) + One(t)
    BY <1>1, <1>4, <2>8, <2>9
  <2> QED BY <2>3, <2>10 DEF g
<1> QED BY <1>6, <1>7

\* A step of the clock.
LEMMA TickShare ==
  ASSUME NEW h, TableOK(h), TableCounts(h), NEW t \in 1..Window
  PROVE  LET g == [k \in DOMAIN h |-> Aged(h[k])]
         IN  TableCounts(g) /\ TableShare(h, t - 1) <= TableShare(g, t)
<1> DEFINE g == [k \in DOMAIN h |-> Aged(h[k])]
           T == DOMAIN h
           p == Shares(h, t - 1)
           q == Shares(g, t)
           m == MaxIPs - Cardinality(T)
           c == LeftOver(Limit, t - 1)
           d == LeftOver(Limit, t)
<1>1. t - 1 \in 0..Window /\ t \in 0..Window /\ IsFiniteSet(T) /\ Limit \in Nat \ {0}
  BY LimitAssumption DEF TableOK
<1>2. /\ m \in Nat /\ c \in Nat /\ d \in Nat /\ c <= d
      /\ \A k \in T : p[k] \in Int
      /\ SumFunctionOnSet(p, T) \in Int
  <2>1. m \in Nat
    BY <1>1, FS_CardinalityType, LimitAssumption DEF TableOK
  <2> QED BY <1>1, <2>1, SharesType DEF LeftOver
<1>3. \A k \in T : g[k] = Aged(h[k]) /\ h[k] \in Windows /\ CountOK(h[k], Limit) /\ Aged(h[k]) \in Windows
  <2>1. \A w \in Windows : Aged(w) \in Windows
    BY LimitAssumption DEF Windows, Aged, Over
  <2> QED BY <2>1 DEF TableOK, TableCounts
<1>4. TableCounts(g)
  BY <1>1, <1>3, ShareAged DEF TableCounts
<1>5. \A k \in T : p[k] \in Int /\ q[k] \in Int /\ p[k] <= q[k]
  BY <1>1, <1>2, <1>3, ShareAged, ShareType DEF Shares
<1>6. TableShare(h, t - 1) = SumFunctionOnSet(p, T) + m * c
  BY DEF TableShare
<1>7. TableShare(g, t) = SumFunctionOnSet(q, T) + m * d
  BY DEF TableShare
<1> HIDE DEF g, T, p, q, m, c, d
<1>8. SumFunctionOnSet(p, T) <= SumFunctionOnSet(q, T) /\ SumFunctionOnSet(q, T) \in Int
  BY <1>1, <1>5, SumAtMost, SumType
<1>9. m * c <= m * d /\ m * c \in Int /\ m * d \in Int
  <2>1. m * d = m * c + m * (d - c) /\ m * (d - c) >= 0 /\ m * c \in Int
    <3>1. \A x, y \in Nat : x * y \in Nat
      OBVIOUS
    <3>2. d - c \in Nat
      BY <1>2
    <3> QED BY <1>2, <3>1, <3>2
  <2> QED BY <1>2, <2>1
<1>10. TableShare(h, t - 1) <= TableShare(g, t)
  BY <1>2, <1>6, <1>7, <1>8, <1>9
<1> QED BY <1>4, <1>10 DEF g

FloodInv ==
    /\ TableCounts(hits) /\ CountOK(spill, Overflow)
    /\ Flood(passed, hits, spill)

LEMMA TableFlood ==
  ASSUME LimitInv, FloodInv, NEW a
  PROVE  /\ TableOK(Table(a)) /\ TableCounts(Table(a))
         /\ \A t \in 0..Window : TableShare(Table(a), t) = TableShare(hits, t)
<1>1. TableOK(hits) /\ TableCounts(hits) /\ TableOK(Table(a))
  BY SweptTable DEF LimitInv, FloodInv
<1>2. CASE Sweeps(a)
  <2>1. Table(a) = [k \in Kept(hits) |-> hits[k]]
    BY <1>2 DEF Table
  <2>2. TableCounts(Table(a))
    BY <1>1, <2>1 DEF TableCounts, Kept
  <2> QED BY <1>1, <2>1, <2>2, SweptShare
<1>3. CASE ~Sweeps(a)
  BY <1>1, <1>3 DEF Table
<1> QED BY <1>2, <1>3

LEMMA OneMorePassed ==
  ASSUME NEW p \in [0..Window - 1 -> Nat], NEW q, q = [p EXCEPT ![0] = @ + 1], NEW t \in 0..Window
  PROVE  Prefix(q, t) = Prefix(p, t) + One(t) /\ Prefix(p, t) \in Int
<1>1. 0 \in 0..Window - 1
  BY LimitAssumption
<1>2. /\ t \in Nat /\ 0 \in Nat /\ 1 \in Int
      /\ \A m \in 0..t - 1 : p[m] \in Int
      /\ \A m \in 0..t - 1 : q[m] \in Int
      /\ \A m \in 0..t - 1 : m # 0 => p[m] = q[m]
      /\ 0 < t => q[0] = p[0] + 1
  BY <1>1, LimitAssumption
<1>3. Prefix(q, t) = IF 0 < t THEN Prefix(p, t) + 1 ELSE Prefix(p, t)
  BY ONLY <1>2, PrefixChange, Zenon
<1>4. Prefix(p, t) \in Int
  BY <1>2, PrefixType
<1> QED BY <1>2, <1>3, <1>4 DEF One

LEMMA PassesFlood ==
  ASSUME LimitInv, FloodInv, NEW a \in Clients, Passes(a)
  PROVE  FloodInv'
<1>1. PICK h : h = Table(a)
  OBVIOUS
<1>2. TableOK(h) /\ TableCounts(h) /\ \A t \in 0..Window : TableShare(h, t) = TableShare(hits, t)
  BY <1>1, TableFlood
<1>3. /\ RestOK /\ spill \in Windows /\ CountOK(spill, Overflow)
      /\ \A t \in 0..Window : Prefix(passed, t) <= TableShare(hits, t) + Share(spill, Overflow, t)
  BY DEF LimitInv, FloodInv, RestOK, Flood
<1>4. \A t \in 0..Window : Prefix(passed', t) = Prefix(passed, t) + One(t) /\ Prefix(passed, t) \in Int
  <2>1. passed \in [0..Window - 1 -> Nat] /\ passed' = [passed EXCEPT ![0] = @ + 1]
    BY <1>3 DEF Passes, RestOK
  <2>2. PICK q : q = passed'
    OBVIOUS
  <2>3. \A t \in 0..Window : Prefix(q, t) = Prefix(passed, t) + One(t) /\ Prefix(passed, t) \in Int
    BY <2>1, <2>2, OneMorePassed
  <2> QED BY <2>2, <2>3
<1>5. \A t \in 0..Window : One(t) \in Int /\ TableShare(h, t) \in Int /\ Share(spill, Overflow, t) \in Int
  BY <1>2, <1>3, SharesType, ShareType, LimitAssumption DEF One
<1>6. CASE PassesByOwn(a)
  <2>1. PICK v : v = Own(a)
    OBVIOUS
  <2>2. /\ v = (IF a \in DOMAIN h THEN Current(h[a]) ELSE Opened) /\ v.count < Limit
        /\ spill' = spill /\ hits' = [k \in DOMAIN h \cup {a} |-> IF k = a THEN Spend(v) ELSE h[k]]
    BY <1>1, <1>6, <2>1 DEF PassesByOwn, Own
  <2>3. ASSUME NEW t \in 0..Window PROVE TableCounts(hits') /\ TableShare(hits', t) = TableShare(h, t) + One(t)
    <3>1. LET g == [k \in DOMAIN h \cup {a} |-> IF k = a THEN Spend(v) ELSE h[k]]
          IN  TableCounts(g) /\ TableShare(g, t) = TableShare(h, t) + One(t)
      BY <1>2, <2>2, OwnShare
    <3> QED BY <2>2, <3>1
  <2>4. \A t \in 0..Window : Prefix(passed', t) <= TableShare(hits', t) + Share(spill', Overflow, t)
    BY <1>2, <1>3, <1>4, <1>5, <2>2, <2>3
  <2>5. TableCounts(hits')
    BY <2>3, LimitAssumption
  <2> QED BY <1>3, <2>2, <2>4, <2>5 DEF FloodInv, Flood
<1>7. CASE PassesByOverflow(a)
  <2>1. Current(spill).count < Overflow /\ spill' = Spend(Current(spill)) /\ hits' = h
    BY <1>1, <1>7 DEF PassesByOverflow
  <2>2. \A t \in 0..Window : CountOK(spill', Overflow) /\ Share(spill', Overflow, t) = Share(spill, Overflow, t) + One(t)
    BY <1>3, <2>1, ShareSpent, LimitAssumption
  <2>3. \A t \in 0..Window : Prefix(passed', t) <= TableShare(hits', t) + Share(spill', Overflow, t)
    BY <1>2, <1>3, <1>4, <1>5, <2>1, <2>2
  <2>4. CountOK(spill', Overflow)
    BY <2>2, LimitAssumption
  <2> QED BY <1>2, <2>1, <2>3, <2>4 DEF FloodInv, Flood
<1> QED BY <1>6, <1>7 DEF Passes

LEMMA TickFlood ==
  ASSUME LimitInv, FloodInv, LimitTick
  PROVE  FloodInv'
<1>1. /\ TableOK(hits) /\ TableCounts(hits) /\ spill \in Windows /\ CountOK(spill, Overflow)
      /\ Window \in Nat \ {0} /\ Overflow \in Nat \ {0}
      /\ passed \in [0..Window - 1 -> Nat]
      /\ \A t \in 0..Window : Prefix(passed, t) <= TableShare(hits, t) + Share(spill, Overflow, t)
  BY LimitAssumption DEF LimitInv, FloodInv, RestOK, Flood
<1>2. /\ hits' = [k \in DOMAIN hits |-> Aged(hits[k])] /\ spill' = Aged(spill)
      /\ passed' = [n \in 0..Window - 1 |-> IF n = 0 THEN 0 ELSE passed[n - 1]]
  BY <1>1 DEF LimitTick
<1>3. ASSUME NEW t \in 1..Window
      PROVE  /\ TableCounts(hits') /\ TableShare(hits, t - 1) <= TableShare(hits', t)
             /\ CountOK(spill', Overflow) /\ Share(spill, Overflow, t - 1) <= Share(spill', Overflow, t)
  BY <1>1, <1>2, TickShare, ShareAged
<1>4. 1 \in 1..Window
  BY <1>1
<1>5. TableOK(hits') /\ spill' \in Windows
  <2>1. \A w \in Windows : Aged(w) \in Windows
    BY LimitAssumption DEF Windows, Aged, Over
  <2> QED BY <1>1, <1>2, <2>1 DEF TableOK
<1>6. \A t \in 0..Window : /\ TableShare(hits, t) \in Int /\ TableShare(hits', t) \in Int
                           /\ Share(spill, Overflow, t) \in Int /\ Share(spill', Overflow, t) \in Int
  BY <1>1, <1>5, SharesType, ShareType
<1>7. ASSUME NEW t \in 1..Window PROVE Prefix(passed', t) <= Prefix(passed, t - 1) /\ Prefix(passed', t) \in Int
                                      /\ Prefix(passed, t - 1) \in Int
  <2>1. \A n \in 0..Window - 1 : n # 0 => n - 1 \in 0..Window - 1
    BY <1>1
  <2>2. /\ Window - 1 \in Nat /\ t - 1 \in 0..Window - 1 /\ (t - 1) + 1 = t
        /\ \A m \in 0..Window - 1 : passed[m] \in Int /\ passed'[m] \in Int
        /\ \A m \in 1..Window - 1 : passed'[m] <= passed[m - 1]
        /\ passed'[0] = 0
    BY <1>1, <1>2, <2>1
  <2>3. Prefix(passed', (t - 1) + 1) <= passed'[0] + Prefix(passed, t - 1)
    BY <2>2, PrefixShift
  <2>4. /\ \A m \in 0..t - 1 : passed'[m] \in Int
        /\ \A m \in 0..(t - 1) - 1 : passed[m] \in Int
        /\ t \in Nat /\ t - 1 \in Nat
    BY <2>2
  <2>5. Prefix(passed', t) \in Int /\ Prefix(passed, t - 1) \in Int
    BY <2>4, PrefixType
  <2> QED BY <2>2, <2>3, <2>5
<1>8. ASSUME NEW t \in 0..Window PROVE Prefix(passed', t) <= TableShare(hits', t) + Share(spill', Overflow, t)
  <2>1. CASE t = 0
    <3>1. TableShare(hits', 0) >= 0 /\ TableShare(hits', 0) \in Int
      BY <1>1, <1>5, <1>6, ShareOfNothing
    <3>3. Share(spill', Overflow, 0) = 0
      BY DEF Share
    <3> QED BY <2>1, <3>1, <3>3, PrefixZero
  <2>2. CASE t # 0
    <3>1. t \in 1..Window /\ t - 1 \in 0..Window
      BY <1>1, <2>2
    <3>2. Prefix(passed', t) <= Prefix(passed, t - 1) /\ Prefix(passed', t) \in Int
          /\ Prefix(passed, t - 1) \in Int
      BY <1>7, <3>1
    <3>3. Prefix(passed, t - 1) <= TableShare(hits, t - 1) + Share(spill, Overflow, t - 1)
      BY <1>1, <3>1
    <3>4. /\ TableShare(hits, t - 1) <= TableShare(hits', t)
          /\ Share(spill, Overflow, t - 1) <= Share(spill', Overflow, t)
      BY <1>3, <3>1
    <3>5. /\ TableShare(hits, t - 1) \in Int /\ TableShare(hits', t) \in Int
          /\ Share(spill, Overflow, t - 1) \in Int /\ Share(spill', Overflow, t) \in Int
      BY <1>6, <3>1
    <3> QED BY <3>2, <3>3, <3>4, <3>5
  <2> QED BY <2>1, <2>2
<1> QED BY <1>3, <1>4, <1>8 DEF FloodInv, Flood

\* A refused request, and a start of the process.
LEMMA RefusedFlood ==
  ASSUME LimitInv, FloodInv, NEW a, Refused(a)
  PROVE  FloodInv'
<1>1. PICK h : h = Table(a)
  OBVIOUS
<1>2. TableCounts(h) /\ \A t \in 0..Window : TableShare(h, t) = TableShare(hits, t)
  BY <1>1, TableFlood
<1>3. hits' = h /\ spill' = spill /\ passed' = passed
  BY <1>1 DEF Refused
<1> QED BY <1>2, <1>3 DEF FloodInv, Flood

LEMMA NothingPassed ==
  ASSUME NEW p, \A m \in 0..Window - 1 : p[m] = 0, NEW h, TableOK(h), DOMAIN h = {}
  PROVE  TableCounts(h) /\ CountOK(NeverUsed, Overflow) /\ Flood(p, h, NeverUsed)
<1>1. TableCounts(h) /\ CountOK(NeverUsed, Overflow)
  BY DEF TableCounts, CountOK, NeverUsed, Over
<1>2. ASSUME NEW t \in 0..Window PROVE Prefix(p, t) <= TableShare(h, t) + Share(NeverUsed, Overflow, t)
  <2>1. t \in Nat /\ \A m \in 0..t - 1 : p[m] = 0
    BY LimitAssumption
  <2>2. Prefix(p, t) = 0
    BY <2>1, PrefixNothing
  <2>3. TableShare(h, t) >= 0 /\ TableShare(h, t) \in Int
    BY ShareOfNothing, SharesType
  <2>4. Share(NeverUsed, Overflow, t) \in Nat
    BY LimitAssumption DEF Share, NeverUsed, Over, LeftOver
  <2> QED BY <2>2, <2>3, <2>4
<1> QED BY <1>1, <1>2 DEF Flood

LEMMA FloodInit == LimitInit => FloodInv
<1> SUFFICES ASSUME LimitInit PROVE FloodInv
  OBVIOUS
<1>1. hits = [k \in {} |-> Opened] /\ DOMAIN hits = {} /\ spill = NeverUsed
      /\ \A m \in 0..Window - 1 : passed[m] = 0
  BY DEF LimitInit
<1>2. TableOK(hits)
  BY <1>1, FS_EmptySet, LimitAssumption DEF TableOK
<1> QED BY <1>1, <1>2, NothingPassed DEF FloodInv

LEMMA RestartFlood == LimitInv /\ LimitRestart => FloodInv'
<1> SUFFICES ASSUME LimitInv, LimitRestart PROVE FloodInv'
  OBVIOUS
<1>1. PICK p, h : p = passed' /\ h = hits'
  OBVIOUS
<1>2. h = [k \in {} |-> Opened] /\ DOMAIN h = {} /\ spill' = NeverUsed
      /\ \A m \in 0..Window - 1 : p[m] = 0
  BY <1>1 DEF LimitRestart, LimitInv, RestOK
<1>3. TableOK(h)
  BY <1>2, FS_EmptySet, LimitAssumption DEF TableOK
<1>4. TableCounts(h) /\ CountOK(NeverUsed, Overflow) /\ Flood(p, h, NeverUsed)
  BY <1>2, <1>3, NothingPassed
<1> QED BY <1>1, <1>2, <1>4 DEF FloodInv

LEMMA FloodStep == LimitInv /\ FloodInv /\ [Next]_vars => FloodInv'
<1> SUFFICES ASSUME LimitInv, FloodInv, [Next]_vars PROVE FloodInv'
  OBVIOUS
<1>1. CASE UNCHANGED limitVars
  BY <1>1 DEF limitVars, FloodInv, Flood
<1>2. ASSUME NEW a \in Addresses, Passes(a) PROVE FloodInv'
  BY <1>2, PassesFlood, AdmissionAssumption
<1>3. ASSUME NEW a \in Addresses, Refused(a) PROVE FloodInv'
  BY <1>3, RefusedFlood
<1>4. CASE LimitTick
  BY <1>4, TickFlood
<1>5. CASE LimitRestart
  BY <1>5, RestartFlood
<1>6. ASSUME NEW t \in Slots, NEW e \in Emails, NEW a \in Sources, Request(t, e, a) PROVE FloodInv'
  BY <1>1, <1>2, <1>6 DEF Request, Sources
<1>7. CASE UNCHANGED vars
  BY <1>1, <1>7 DEF vars
<1> QED BY <1>1, <1>2, <1>3, <1>4, <1>5, <1>6, <1>7
        DEF Next, TooManyRequests, RefusedEarly, Tick, Restart

\* What a window accounts for in the time it lasts.
LEMMA ShareAtMost ==
  ASSUME NEW w \in Windows, NEW b \in Nat \ {0}, CountOK(w, b)
  PROVE  Share(w, b, Window) <= LeftOver(b, Window) + b /\ LeftOver(b, Window) + b <= 2 * b - 1
BY LimitAssumption DEF Share, LeftOver, CountOK, Windows, Over

LEMMA TableShareAtMost ==
  ASSUME NEW h, TableOK(h), TableCounts(h)
  PROVE  TableShare(h, Window) <= MaxIPs * (2 * Limit - 1)
<1> DEFINE T == DOMAIN h
           f == Shares(h, Window)
           n == Cardinality(T)
           c == LeftOver(Limit, Window)
           d == c + Limit
           e == 2 * Limit - 1
           s == SumFunctionOnSet(f, T)
<1>1. Window \in 0..Window /\ MaxIPs \in Nat /\ Limit \in Nat \ {0} /\ e \in Nat
  BY LimitAssumption
<1>2. /\ IsFiniteSet(T) /\ n \in Nat /\ n <= MaxIPs /\ c \in Nat /\ d \in Nat /\ d <= e /\ c <= e
      /\ s \in Int
  <2>1. c \in Nat /\ n \in Nat /\ s \in Int
    BY <1>1, SharesType
  <2>2. c = 0 \/ c = Limit - 1
    BY DEF LeftOver
  <2> QED BY <1>1, <2>1, <2>2 DEF TableOK
<1>3. \A k \in T : f[k] \in Int /\ f[k] <= d
  <2>1. ASSUME NEW k \in T PROVE f[k] \in Int /\ f[k] <= d
    <3>1. h[k] \in Windows /\ CountOK(h[k], Limit) /\ f[k] = Share(h[k], Limit, Window)
      BY DEF TableOK, TableCounts, Shares
    <3>2. f[k] \in Int
      BY <1>1, <3>1, ShareType
    <3> QED BY <1>1, <3>1, <3>2, ShareAtMost
  <2> QED BY <2>1
<1>4. TableShare(h, Window) = s + (MaxIPs - n) * c
  BY DEF TableShare
<1> HIDE DEF T, f
<1>5. s <= n * d
  <2> HIDE DEF d
  <2> QED BY <1>2, <1>3, SumWithin
<1> HIDE DEF n, c, d, e, s
<1>6. n * d <= n * e /\ (MaxIPs - n) * c <= (MaxIPs - n) * e
  <2>1. \A x, y, z \in Nat : y <= z => x * y <= x * z
    <3>1. ASSUME NEW x \in Nat, NEW y \in Nat, NEW z \in Nat, y <= z PROVE x * y <= x * z
      <4>1. x * z = x * y + x * (z - y)
        OBVIOUS
      <4>2. z - y \in Nat
        BY <3>1
      <4>3. x * (z - y) \in Nat /\ x * y \in Nat
        BY <4>2
      <4> QED BY <4>1, <4>3
    <3> QED BY <3>1
  <2>2. MaxIPs - n \in Nat
    BY <1>1, <1>2
  <2> QED BY <1>1, <1>2, <2>1, <2>2
<1>7. n * e + (MaxIPs - n) * e = MaxIPs * e
  BY <1>1, <1>2
<1>8. n * d \in Int /\ n * e \in Int /\ (MaxIPs - n) * c \in Int /\ (MaxIPs - n) * e \in Int
  BY <1>1, <1>2
<1>9. TableShare(h, Window) <= MaxIPs * e
  BY <1>2, <1>4, <1>5, <1>6, <1>7, <1>8
<1> QED BY <1>9 DEF e

LEMMA FloodAtWindow == LimitInv /\ FloodInv => FloodBounded
<1> SUFFICES ASSUME LimitInv, FloodInv PROVE FloodBounded
  OBVIOUS
<1>1. Window \in 0..Window /\ Overflow \in Nat \ {0} /\ MaxIPs * (2 * Limit - 1) \in Int
  BY LimitAssumption
<1>2. SumFunction(passed) = Prefix(passed, Window)
  BY DEF SumFunction, SumFunctionOnSet, FoldFunction, Prefix, LimitInv, RestOK
<1>3. Prefix(passed, Window) <= TableShare(hits, Window) + Share(spill, Overflow, Window)
  BY <1>1 DEF FloodInv, Flood
<1>4. TableShare(hits, Window) <= MaxIPs * (2 * Limit - 1) /\ TableShare(hits, Window) \in Int
  BY <1>1, TableShareAtMost, SharesType DEF LimitInv, FloodInv
<1>5. Share(spill, Overflow, Window) <= 2 * Overflow - 1 /\ Share(spill, Overflow, Window) \in Int
  <2>1. spill \in Windows /\ CountOK(spill, Overflow)
    BY DEF LimitInv, RestOK, FloodInv
  <2>2. Share(spill, Overflow, Window) \in Int /\ LeftOver(Overflow, Window) \in Nat
    BY <1>1, <2>1, ShareType
  <2> QED BY <1>1, <2>1, <2>2, ShareAtMost
<1>6. Prefix(passed, Window) \in Int
  <2>1. Window \in Nat /\ \A m \in 0..Window - 1 : passed[m] \in Int
    BY LimitAssumption DEF LimitInv, RestOK
  <2> QED BY <2>1, PrefixType
<1> QED BY <1>1, <1>2, <1>3, <1>4, <1>5, <1>6 DEF FloodBounded

\* ipLimiter.allow with the sweep and the shared budget: of any number of
\* addresses, however they come, leave the table and come again, one process
\* lets no more checkouts through within a limitWindow than the table's places
\* and the overflow are good for.
THEOREM FloodIsBounded == Spec => []FloodBounded
<1> DEFINE IInv == LimitInv /\ FloodInv
<1>1. Init => IInv
  BY LimitInvInit, FloodInit DEF Init
<1>2. IInv /\ [Next]_vars => IInv'
  BY LimitStep, FloodStep
<1>3. IInv => FloodBounded
  BY FloodAtWindow
<1> QED BY <1>1, <1>2, <1>3, PTL DEF Spec

-----------------------------------------------------------------------------
(* Prices.                                                                 *)

\* Machine arithmetic where it does not wrap around.
LEMMA DivTimes ==
  ASSUME NEW u \in Nat \ {0}, NEW m \in Nat
  PROVE  /\ m \div u \in Nat /\ (m \div u) * u \in Nat
         /\ (m \div u) * u <= m /\ m < (m \div u) * u + u
BY Z3

LEMMA ModSmall ==
  ASSUME NEW a \in Nat, NEW b \in Nat, a < b
  PROVE  a % b = a
<1>1. a \div b = 0
  BY DivTimes
<1> QED OBVIOUS

LEMMA WrapExact ==
  ASSUME NEW n \in -IntMax..IntMax
  PROVE  Wrap(n) = n
<1> DEFINE a == n + IntMax + 1
           b == 2 * (IntMax + 1)
<1>1. a \in Nat /\ b \in Nat /\ a < b
  BY PriceAssumption
<1>2. Wrap(n) = (a % b) - IntMax - 1
  BY DEF Wrap
<1> HIDE DEF a, b
<1>3. a % b = a
  BY <1>1, ModSmall
<1>4. Wrap(n) = a - IntMax - 1
  BY <1>2, <1>3
<1> QED BY <1>4, PriceAssumption DEF a

DigitAt(d, i) == IF i <= Len(d.frac) THEN d.frac[i] ELSE 0
CentsOf(d) == d.whole * 100 + 10 * DigitAt(d, 1) + DigitAt(d, 2)

\* Cents that fit an integer do not wrap around.
LEMMA ParseYuanCents ==
  ASSUME NEW d, CentsOf(d) \in 0..IntMax
  PROVE  ParseYuan(d) = IF d.neg THEN -CentsOf(d) ELSE CentsOf(d)
<1>1. ParseYuan(d) = IF d.neg THEN Wrap(-Wrap(CentsOf(d))) ELSE Wrap(CentsOf(d))
  BY DEF ParseYuan, CentsOf, DigitAt
<1>2. PICK c : c = CentsOf(d)
  OBVIOUS
<1>3. c \in -IntMax..IntMax /\ -c \in -IntMax..IntMax
  BY <1>2, PriceAssumption
<1>4. Wrap(c) = c /\ Wrap(-c) = -c
  BY <1>3, WrapExact
<1> QED BY <1>1, <1>2, <1>4

\* ParseYuan after Yuan: every amount but the least integer comes back as it
\* was written.
THEOREM YuanBack == ASSUME NEW c \in -IntMax..IntMax PROVE ParseYuan(Yuan(c)) = c
<1> DEFINE v == IF c < 0 THEN -c ELSE c
           w == v \div 100
           r == v % 100
           x == r \div 10
           y == v % 10
<1>1. v \in 0..IntMax /\ v \in Nat /\ c \in Int
  BY PriceAssumption
<1>2. w \in Nat /\ r \in 0..99 /\ x \in Nat /\ y \in 0..9 /\ v = 100 * w + r /\ r = 10 * x + y
  <2> HIDE DEF v
  <2> QED BY <1>1
<1>3. Yuan(c) = [neg |-> c < 0, whole |-> w, frac |-> <<x, y>>]
  BY DEF Yuan
<1> HIDE DEF w, x, y, r
<1> DEFINE d == [neg |-> c < 0, whole |-> w, frac |-> <<x, y>>]
<1>4. d.neg = (c < 0) /\ d.whole = w /\ DigitAt(d, 1) = x /\ DigitAt(d, 2) = y
  BY DEF DigitAt
<1> HIDE DEF d
<1>5. CentsOf(d) = v
  BY <1>2, <1>4 DEF CentsOf
<1>6. ParseYuan(d) = IF c < 0 THEN -v ELSE v
  <2> HIDE DEF v
  <2> QED BY <1>1, <1>4, <1>5, ParseYuanCents
<1> QED BY <1>1, <1>3, <1>6 DEF d

\* ParseYuan of any text whose cents fit an integer: what is finer than a cent
\* is cut off.
THEOREM ParseCutsOff ==
  ASSUME NEW d, d.whole \in Nat, NEW n \in Nat, d.frac \in [1..n -> 0..9],
         Thousandths(d) \div 10 <= IntMax
  PROVE  ParseYuan(d) = IF d.neg THEN -(Thousandths(d) \div 10) ELSE Thousandths(d) \div 10
<1>1. Thousandths(d) = d.whole * 1000 + DigitAt(d, 1) * 100 + DigitAt(d, 2) * 10 + DigitAt(d, 3)
  BY DEF Thousandths, DigitAt
<1>2. \A i \in {1, 2, 3} : DigitAt(d, i) \in 0..9
  <2>1. Len(d.frac) = n /\ \A i \in 1..n : d.frac[i] \in 0..9
    OBVIOUS
  <2> QED BY <2>1 DEF DigitAt
<1>3. PICK w, x, y, z : w = d.whole /\ x = DigitAt(d, 1) /\ y = DigitAt(d, 2) /\ z = DigitAt(d, 3)
  OBVIOUS
<1>4. w \in Nat /\ x \in 0..9 /\ y \in 0..9 /\ z \in 0..9
  BY <1>2, <1>3
<1>5. (w * 1000 + x * 100 + y * 10 + z) \div 10 = w * 100 + 10 * x + y
  BY <1>4
<1>6. CentsOf(d) = Thousandths(d) \div 10 /\ CentsOf(d) \in 0..IntMax
  <2>1. CentsOf(d) = w * 100 + 10 * x + y
    BY <1>3 DEF CentsOf
  <2>2. w * 100 + 10 * x + y \in Nat
    BY <1>4
  <2>3. CentsOf(d) = Thousandths(d) \div 10
    BY <1>1, <1>3, <1>5, <2>1
  <2> HIDE DEF CentsOf, Thousandths
  <2> QED BY <2>1, <2>2, <2>3, PriceAssumption
<1> QED BY <1>6, ParseYuanCents

LEMMA TextAlwaysRight == TextIsRight
<1>1. \A c \in -IntMax..IntMax : ParseYuan(Yuan(c)) = c
  BY YuanBack
<1>2. ASSUME NEW d \in Decimals, Thousandths(d) \div 10 <= IntMax
      PROVE  ParseYuan(d) = IF d.neg THEN -(Thousandths(d) \div 10) ELSE Thousandths(d) \div 10
  <2>1. d.whole \in Nat /\ d.frac \in UNION {[1..n -> {0, 4, 9}] : n \in 0..3}
    BY DEF Decimals
  <2>2. PICK n \in 0..3 : d.frac \in [1..n -> {0, 4, 9}]
    BY <2>1
  <2>3. d.frac \in [1..n -> 0..9] /\ n \in Nat
    BY <2>2
  <2> QED BY <1>2, <2>1, <2>3, ParseCutsOff
<1> QED BY <1>1, <1>2 DEF TextIsRight

-----------------------------------------------------------------------------
\* mul refuses exactly what does not fit.
LEMMA ProductExact ==
  ASSUME NEW u \in Nat, NEW n \in Nat
  PROVE  /\ Multiplies(u, n) <=> u * n <= MaxCents
         /\ u * n <= MaxCents => Product(u, n) = u * n
<1>1. u * n \in Nat /\ (u = 0 \/ n = 0 => u * n = 0)
  OBVIOUS
<1>2. u * n <= IntMax => Wrap(u * n) = u * n
  BY <1>1, WrapExact, PriceAssumption
<1>3. ASSUME u > 0 PROVE n <= IntMax \div u <=> u * n <= IntMax
  <2>1. PICK q : q = IntMax \div u
    OBVIOUS
  <2>2. q \in Nat /\ q * u <= IntMax /\ IntMax < q * u + u
    BY <1>3, <2>1, DivTimes, PriceAssumption
  <2>3. ASSUME n <= q PROVE u * n <= IntMax
    <3>1. q * u = u * n + (q - n) * u
      BY <2>2
    <3>2. (q - n) * u \in Nat
      <4>1. q - n \in Nat
        BY <2>2, <2>3
      <4> QED BY <4>1
    <3> QED BY <1>1, <2>2, <3>1, <3>2, PriceAssumption
  <2>4. ASSUME n > q PROVE u * n > IntMax
    <3>1. u * n = q * u + u + (n - q - 1) * u /\ q * u \in Nat
      BY <2>2
    <3>2. (n - q - 1) * u \in Nat
      <4>1. n - q - 1 \in Nat
        BY <2>2, <2>4
      <4> QED BY <4>1
    <3> QED BY <1>1, <2>2, <3>1, <3>2, PriceAssumption
  <2> QED BY <1>1, <2>1, <2>2, <2>3, <2>4, PriceAssumption
<1>4. MaxCents <= IntMax /\ MaxCents \in Nat /\ IntMax \in Nat
  BY PriceAssumption
<1>5. PICK m : m = u * n
  OBVIOUS
<1>6. Multiplies(u, n) <=> n = 0 \/ u = 0 \/ (n <= IntMax \div u /\ Wrap(m) <= MaxCents)
  BY <1>5 DEF Multiplies
<1> QED BY <1>1, <1>2, <1>3, <1>4, <1>5, <1>6 DEF Product

-----------------------------------------------------------------------------
(* WholesaleOff goes through the tiers in their order (FoldLeft): the tier *)
(* it ends with is the best of those reached.                              *)

NextBest(tiers, qty, best, i) ==
    IF Reached(tiers[i], qty) /\ Better(tiers[i], best) THEN tiers[i] ELSE best
BestSteps(tiers, qty, T, g) ==
    g = [s \in SUBSET T |-> IF s = {} THEN NoTier ELSE NextBest(tiers, qty, g[s \ {Max(s)}], Max(s))]

LEMMA BestDef ==
  ASSUME NEW tiers, NEW qty
  PROVE  BestTier(tiers, qty) = (CHOOSE g : BestSteps(tiers, qty, DOMAIN tiers, g))[DOMAIN tiers]
BY DEF BestTier, FoldLeft, MapThenFoldSet, BestSteps, NextBest

LEMMA MaxIn ==
  ASSUME NEW n \in Nat, NEW s \in SUBSET (1..n), s # {}
  PROVE  Max(s) \in s
<1> DEFINE HaveMax(k) == \A t \in SUBSET (1..k) : t # {} => \E x \in t : \A y \in t : x >= y
           Good == {k \in 0..n : HaveMax(k)}
<1>1. 0 \in Good
  <2>1. HaveMax(0)
    <3>1. 1..0 = {}
      OBVIOUS
    <3> QED BY <3>1
  <2> HIDE DEF HaveMax
  <2> QED BY <2>1
<1>2. ASSUME NEW k \in 0..n - 1, k \in Good PROVE k + 1 \in Good
  <2>1. ASSUME NEW t \in SUBSET (1..k + 1), t # {} PROVE \E x \in t : \A y \in t : x >= y
    <3>1. CASE k + 1 \in t
      <4>1. \A y \in t : k + 1 >= y
        OBVIOUS
      <4> QED BY <3>1, <4>1
    <3>2. CASE k + 1 \notin t
      <4>1. t \in SUBSET (1..k)
        BY <3>2
      <4> QED BY <1>2, <2>1, <4>1
    <3> QED BY <3>1, <3>2
  <2>2. HaveMax(k + 1)
    BY <2>1
  <2> HIDE DEF HaveMax
  <2> QED BY <2>2
<1>3. \A k \in 0..n : k \in Good
  <2> HIDE DEF Good
  <2> QED BY <1>1, <1>2, NaturalInduction
<1>4. HaveMax(n)
  <2> HIDE DEF HaveMax
  <2> QED BY <1>3
<1>5. \E x \in s : \A y \in s : x >= y
  BY <1>4
<1> QED BY <1>5, Zenon DEF Max

HasMaxima(S) == IsFiniteSet(S) /\ \A s \in SUBSET S : s # {} => Max(s) \in s
PartOf(U, S) == U \in SUBSET S

LEMMA BestStepsAgree ==
  ASSUME NEW tiers, NEW qty, NEW S, HasMaxima(S), NEW g, NEW h,
         BestSteps(tiers, qty, S, g), NEW U, PartOf(U, S), BestSteps(tiers, qty, U, h)
  PROVE  g[U] = h[U]
<1>0. U \in SUBSET S
  BY DEF PartOf
<1> DEFINE Good == {T \in SUBSET U : g[T] = h[T]}
<1>1. IsFiniteSet(U)
  BY <1>0, FS_Subset DEF HasMaxima
<1>2. ASSUME NEW T \in SUBSET U, \A V \in SUBSET T : V # T => V \in Good PROVE T \in Good
  <2>1. g[T] = IF T = {} THEN NoTier ELSE NextBest(tiers, qty, g[T \ {Max(T)}], Max(T))
    BY <1>0 DEF BestSteps
  <2>2. h[T] = IF T = {} THEN NoTier ELSE NextBest(tiers, qty, h[T \ {Max(T)}], Max(T))
    BY DEF BestSteps
  <2>3. T # {} => g[T \ {Max(T)}] = h[T \ {Max(T)}]
    <3>1. T # {} => Max(T) \in T
      BY <1>0 DEF HasMaxima
    <3> QED BY <1>2, <3>1
  <2> QED BY <2>1, <2>2, <2>3
<1>3. \A T \in SUBSET U : T \in Good
  <2> HIDE DEF Good
  <2> QED BY <1>1, <1>2, FiniteInduction
<1> QED BY <1>3

LEMMA BestStepsExist ==
  ASSUME NEW tiers, NEW qty, NEW n \in Nat
  PROVE  \E g : BestSteps(tiers, qty, 1..n, g)
<1> DEFINE S == 1..n
           Good == {T \in SUBSET S : \E g : BestSteps(tiers, qty, T, g)}
<1>1. ASSUME NEW T \in SUBSET S, \A U \in SUBSET T : U # T => U \in Good PROVE T \in Good
  <2> DEFINE Best(U) == (CHOOSE g : BestSteps(tiers, qty, U, g))[U]
             NextOf(s) == IF s = {} THEN NoTier ELSE NextBest(tiers, qty, Best(s \ {Max(s)}), Max(s))
             h == [s \in SUBSET T |-> NextOf(s)]
  <2>1. ASSUME NEW U \in SUBSET T, U # T PROVE Best(U) = NextOf(U)
    <3>1. PICK g : BestSteps(tiers, qty, U, g) /\ Best(U) = g[U]
      <4>1. \E g : BestSteps(tiers, qty, U, g)
        BY <1>1, <2>1
      <4> QED BY <4>1
    <3>2. g[U] = IF U = {} THEN NoTier ELSE NextBest(tiers, qty, g[U \ {Max(U)}], Max(U))
      BY <3>1 DEF BestSteps
    <3>3. CASE U # {}
      <4> DEFINE V == U \ {Max(U)}
      <4>0. Max(U) \in U
        BY <3>3, MaxIn
      <4>1. V \in SUBSET T /\ V # T /\ V \in SUBSET U
        BY <2>1, <4>0
      <4>2. BestSteps(tiers, qty, V, CHOOSE k : BestSteps(tiers, qty, V, k))
        BY <1>1, <4>1
      <4>3. HasMaxima(U)
        <5>1. IsFiniteSet(1..n) /\ U \in SUBSET (1..n)
          BY FS_Interval
        <5> QED BY <5>1, FS_Subset, MaxIn DEF HasMaxima
      <4>4. PICK k : k = CHOOSE j : BestSteps(tiers, qty, V, j)
        OBVIOUS
      <4>5. BestSteps(tiers, qty, V, k) /\ Best(V) = k[V]
        BY <4>2, <4>4
      <4>6. g[V] = k[V]
        <5>1. PartOf(V, U)
          BY <4>1 DEF PartOf
        <5> HIDE DEF V
        <5> QED BY <3>1, <4>3, <4>5, <5>1, BestStepsAgree
      <4> QED BY <3>1, <3>2, <3>3, <4>5, <4>6
    <3> QED BY <3>1, <3>2, <3>3
  <2>2. ASSUME NEW s \in SUBSET T, s # {} PROVE Best(s \ {Max(s)}) = h[s \ {Max(s)}]
    <3> DEFINE V == s \ {Max(s)}
    <3>0. Max(s) \in s
      BY <2>2, MaxIn
    <3>1. V \in SUBSET T /\ V # T
      BY <3>0
    <3> HIDE DEF V, NextOf, Best
    <3>2. Best(V) = NextOf(V) /\ h[V] = NextOf(V)
      BY <3>1, <2>1
    <3> QED BY <3>2 DEF V
  <2>3. ASSUME NEW s \in SUBSET T
        PROVE  h[s] = IF s = {} THEN NoTier ELSE NextBest(tiers, qty, h[s \ {Max(s)}], Max(s))
    <3>1. h[s] = NextOf(s)
      <4> HIDE DEF NextOf
      <4> QED OBVIOUS
    <3> HIDE DEF h, Best
    <3> QED BY <2>2, <3>1
  <2>4. BestSteps(tiers, qty, T, h)
    <3>1. h = [s \in SUBSET T |-> IF s = {} THEN NoTier ELSE NextBest(tiers, qty, h[s \ {Max(s)}], Max(s))]
      <4> HIDE DEF NextOf
      <4>1. h = [s \in SUBSET T |-> h[s]]
        OBVIOUS
      <4> HIDE DEF h
      <4> QED BY <4>1, <2>3
    <3> HIDE DEF h
    <3> QED BY <3>1 DEF BestSteps
  <2> QED BY <2>4
<1>2. IsFiniteSet(S)
  BY FS_Interval
<1>3. \A T \in SUBSET S : T \in Good
  <2> HIDE DEF Good, S
  <2> QED BY <1>1, <1>2, FiniteInduction
<1> QED BY <1>3

TierList == [need: Nat, price: Nat]
ReachedTiers(tiers, qty, T) == {i \in T : Reached(tiers[i], qty)}
NotWorse(b, tier) == tier.need < b.need \/ (tier.need = b.need /\ b.price <= tier.price)
IsBest(b, tiers, qty, T) ==
    \/ b = NoTier /\ ReachedTiers(tiers, qty, T) = {}
    \/ \E i \in ReachedTiers(tiers, qty, T) :
          b = tiers[i] /\ \A j \in ReachedTiers(tiers, qty, T) : NotWorse(b, tiers[j])

LEMMA NextIsBest ==
  ASSUME NEW n \in Nat, NEW tiers \in [1..n -> TierList], NEW qty \in Nat, NEW T \in SUBSET (1..n),
         NEW i \in T, NEW b, IsBest(b, tiers, qty, T \ {i})
  PROVE  IsBest(NextBest(tiers, qty, b, i), tiers, qty, T)
<1> DEFINE R == ReachedTiers(tiers, qty, T)
           Q == ReachedTiers(tiers, qty, T \ {i})
<1>1. Q \subseteq R /\ R \subseteq Q \cup {i} /\ (i \in R <=> Reached(tiers[i], qty)) /\ R \subseteq 1..n
  BY DEF ReachedTiers
<1>2. \A k \in 1..n : tiers[k].need \in Nat /\ tiers[k].price \in Nat
  BY DEF TierList
<1>3. \A k \in R : tiers[k].need > 0
  BY DEF ReachedTiers, Reached
<1>4. IF b = NoTier THEN Q = {} ELSE \E k \in Q : b = tiers[k] /\ \A j \in Q : NotWorse(b, tiers[j])
  <2>1. CASE Q = {}
    BY <2>1 DEF IsBest
  <2>2. CASE Q # {}
    <3>1. PICK k \in Q : b = tiers[k] /\ \A j \in Q : NotWorse(b, tiers[j])
      BY <2>2 DEF IsBest
    <3>2. b.need > 0 /\ NoTier.need = 0
      BY <1>1, <1>3, <3>1 DEF NoTier
    <3>3. b # NoTier
      BY <3>2
    <3> QED BY <3>1, <3>3
  <2> QED BY <2>1, <2>2
<1> HIDE DEF R, Q
<1>5. CASE ~ Reached(tiers[i], qty)
  <2>1. NextBest(tiers, qty, b, i) = b /\ R = Q
    BY <1>1, <1>5 DEF NextBest
  <2> QED BY <2>1 DEF IsBest, R, Q
<1>6. CASE Reached(tiers[i], qty) /\ Better(tiers[i], b)
  <2>1. NextBest(tiers, qty, b, i) = tiers[i] /\ i \in R
    BY <1>1, <1>6 DEF NextBest
  <2>2. ASSUME NEW j \in R PROVE NotWorse(tiers[i], tiers[j])
    <3>1. CASE j = i
      BY <1>1, <1>2, <3>1 DEF NotWorse
    <3>2. CASE j # i
      <4>1. j \in Q /\ b # NoTier
        BY <1>1, <1>4, <3>2
      <4>2. PICK k \in Q : b = tiers[k] /\ NotWorse(b, tiers[j])
        BY <1>4, <4>1
      <4>3. tiers[i].need > b.need \/ (tiers[i].need = b.need /\ tiers[i].price < b.price)
        BY <1>6, <4>1 DEF Better
      <4>4. k \in 1..n /\ j \in 1..n
        BY <1>1
      <4> QED BY <1>2, <4>2, <4>3, <4>4 DEF NotWorse
    <3> QED BY <3>1, <3>2
  <2> QED BY <2>1, <2>2 DEF IsBest, R
<1>7. CASE Reached(tiers[i], qty) /\ ~ Better(tiers[i], b)
  <2>1. NextBest(tiers, qty, b, i) = b /\ b # NoTier
    BY <1>7 DEF NextBest, Better
  <2>2. PICK k \in Q : b = tiers[k] /\ \A j \in Q : NotWorse(b, tiers[j])
    BY <1>4, <2>1
  <2>3. k \in R /\ k \in 1..n
    BY <1>1
  <2>4. NotWorse(b, tiers[i])
    BY <1>2, <1>7, <2>2, <2>3 DEF Better, NotWorse
  <2>5. \A j \in R : NotWorse(b, tiers[j])
    BY <1>1, <2>2, <2>4
  <2> QED BY <2>1, <2>2, <2>3, <2>5 DEF IsBest, R
<1> QED BY <1>5, <1>6, <1>7

LEMMA BestTierIsBest ==
  ASSUME NEW n \in Nat, NEW tiers \in [1..n -> TierList], NEW qty \in Nat
  PROVE  IsBest(BestTier(tiers, qty), tiers, qty, 1..n)
<1> DEFINE S == 1..n
<1>1. PICK g : BestSteps(tiers, qty, S, g) /\ BestTier(tiers, qty) = g[S]
  <2>1. DOMAIN tiers = S
    OBVIOUS
  <2>2. \E g : BestSteps(tiers, qty, S, g)
    BY BestStepsExist
  <2> HIDE DEF S
  <2> QED BY <2>1, <2>2, BestDef
<1> DEFINE Good == {T \in SUBSET S : IsBest(g[T], tiers, qty, T)}
<1>2. ASSUME NEW T \in SUBSET S, \A U \in SUBSET T : U # T => U \in Good PROVE T \in Good
  <2>1. g[T] = IF T = {} THEN NoTier ELSE NextBest(tiers, qty, g[T \ {Max(T)}], Max(T))
    BY <1>1 DEF BestSteps
  <2>2. CASE T = {}
    BY <2>1, <2>2 DEF IsBest, ReachedTiers
  <2>3. CASE T # {}
    <3>1. PICK i, b : i = Max(T) /\ b = g[T \ {i}]
      OBVIOUS
    <3>2. i \in T
      BY <2>3, <3>1, MaxIn
    <3>3. T \ {i} \in Good
      BY <1>2, <3>2
    <3>4. IsBest(b, tiers, qty, T \ {i}) /\ T \in SUBSET (1..n)
      BY <3>1, <3>3
    <3>5. IsBest(NextBest(tiers, qty, b, i), tiers, qty, T)
      BY <3>2, <3>4, NextIsBest
    <3>6. g[T] = NextBest(tiers, qty, b, i)
      BY <2>1, <2>3, <3>1
    <3> QED BY <3>5, <3>6
  <2> QED BY <2>2, <2>3
<1>3. IsFiniteSet(S)
  BY FS_Interval
<1>4. \A T \in SUBSET S : T \in Good
  <2> HIDE DEF Good, S
  <2> QED BY <1>2, <1>3, FiniteInduction
<1> QED BY <1>1, <1>4

\* TierPrice, the reference's price, is that of the best tier.
LEMMA TierPriceIsBest ==
  ASSUME NEW n \in Nat, NEW tiers \in [1..n -> TierList], NEW qty \in Nat, NEW b,
         b = BestTier(tiers, qty)
  PROVE  IF b = NoTier THEN TierPrice(tiers, qty) = {}
         ELSE b.price \in Nat /\ TierPrice(tiers, qty) = {b.price}
<1> DEFINE R == ReachedTiers(tiers, qty, 1..n)
           H == {i \in R : \A j \in R : tiers[j].need <= tiers[i].need}
           L == {i \in H : \A j \in H : tiers[i].price <= tiers[j].price}
<1>1. \A k \in 1..n : tiers[k].need \in Nat /\ tiers[k].price \in Nat
  BY DEF TierList
<1>2. R \subseteq 1..n /\ \A k \in R : tiers[k].need > 0
  BY DEF ReachedTiers, Reached
<1>3. TierPrice(tiers, qty) = {tiers[i].price : i \in L}
  <2>1. {i \in DOMAIN tiers : tiers[i].need \in 1..qty /\ tiers[i].price > 0} = R
    BY <1>1 DEF ReachedTiers, Reached
  <2> QED BY <2>1 DEF TierPrice
<1> HIDE DEF R
<1>4. \/ b = NoTier /\ R = {}
      \/ \E i \in R : b = tiers[i] /\ \A j \in R : NotWorse(b, tiers[j])
  <2>1. IsBest(b, tiers, qty, 1..n)
    BY BestTierIsBest
  <2> QED BY <2>1 DEF IsBest, R
<1>5. CASE b = NoTier /\ R = {}
  BY <1>3, <1>5
<1>6. ASSUME NEW i \in R, b = tiers[i], \A j \in R : NotWorse(b, tiers[j])
      PROVE  b # NoTier /\ b.price \in Nat /\ TierPrice(tiers, qty) = {b.price}
  <2>1. b # NoTier /\ b.price \in Nat
    <3>1. b.need > 0 /\ NoTier.need = 0
      BY <1>2, <1>6 DEF NoTier
    <3> QED BY <1>1, <1>2, <1>6, <3>1
  <2>2. i \in H
    BY <1>1, <1>2, <1>6 DEF NotWorse
  <2>3. \A j \in H : b.price <= tiers[j].price
    BY <1>1, <1>2, <1>6 DEF NotWorse
  <2>4. i \in L
    BY <1>6, <2>2, <2>3
  <2>5. \A j \in L : tiers[j].price = b.price
    <3>1. ASSUME NEW j \in L PROVE tiers[j].price = b.price
      <4>1. j \in H /\ tiers[j].price <= tiers[i].price
        BY <2>2
      <4>2. b.price <= tiers[j].price /\ tiers[j].price \in Nat
        BY <1>1, <1>2, <2>3, <4>1
      <4> QED BY <1>6, <2>1, <4>1, <4>2
    <3> QED BY <3>1
  <2> HIDE DEF H, L
  <2>6. {tiers[j].price : j \in L} = {b.price}
    BY <2>4, <2>5
  <2> QED BY <1>3, <2>1, <2>6
<1> QED BY <1>4, <1>5, <1>6

LEMMA WholesaleExact ==
  ASSUME NEW m \in Nat, NEW tiers \in [1..m -> TierList], NEW unit \in Nat, NEW n \in Nat \ {0},
         unit * n <= MaxCents
  PROVE  WholesaleOff(tiers, n, unit) =
           IF \E p \in TierPrice(tiers, n) : p < unit
           THEN n * (unit - CHOOSE p \in TierPrice(tiers, n) : TRUE) ELSE 0
<1>1. PICK b : b = BestTier(tiers, n)
  OBVIOUS
<1>2. Multiplies(unit, n) /\ Product(unit, n) = unit * n
  BY ProductExact
<1>3. WholesaleOff(tiers, n, unit) =
        IF b # NoTier /\ Multiplies(b.price, n) /\ Product(b.price, n) < unit * n
        THEN unit * n - Product(b.price, n) ELSE 0
  BY <1>1, <1>2 DEF WholesaleOff
<1>4. CASE b = NoTier
  <2>1. TierPrice(tiers, n) = {}
    BY <1>1, <1>4, TierPriceIsBest
  <2> QED BY <1>3, <1>4, <2>1
<1>5. CASE b # NoTier
  <2>1. b.price \in Nat /\ TierPrice(tiers, n) = {b.price}
    BY <1>1, <1>5, TierPriceIsBest
  <2>2. PICK p : p = b.price
    OBVIOUS
  <2>3. (CHOOSE x \in {p} : TRUE) = p
    OBVIOUS
  <2>4. /\ Multiplies(p, n) <=> p * n <= MaxCents
        /\ p * n <= MaxCents => Product(p, n) = p * n
    BY <2>1, <2>2, ProductExact
  <2>5. p * n \in Nat /\ unit * n \in Nat /\ n * (unit - p) = unit * n - p * n
    BY <2>1, <2>2
  <2>6. CASE p < unit
    <3>1. p * n < unit * n
      <4>1. unit - p \in Nat \ {0}
        BY <2>1, <2>2, <2>6
      <4>2. n * (unit - p) \in Nat \ {0}
        BY <4>1
      <4> QED BY <2>5, <4>2
    <3>2. p * n <= MaxCents
      BY <2>5, <3>1, PriceAssumption
    <3>3. WholesaleOff(tiers, n, unit) = n * (unit - p)
      BY <1>3, <1>5, <2>2, <2>4, <2>5, <3>1, <3>2
    <3> QED BY <2>1, <2>2, <2>3, <2>6, <3>3
  <2>7. CASE ~ (p < unit)
    <3>1. ~ (p * n < unit * n)
      <4>1. p - unit \in Nat
        BY <2>1, <2>2, <2>7
      <4>2. n * (p - unit) \in Nat
        BY <4>1
      <4>3. n * (p - unit) = p * n - unit * n
        BY <2>1, <2>2
      <4> QED BY <2>5, <4>2, <4>3
    <3>2. WholesaleOff(tiers, n, unit) = 0
      BY <1>3, <2>2, <2>4, <3>1
    <3> QED BY <2>1, <2>2, <2>7, <3>2
  <2> QED BY <2>6, <2>7
<1> QED BY <1>4, <1>5

\* Quote with WholesaleOff and mul: for every unit price, quantity, coupon and
\* list of tiers the total, what comes off it and what is left are those of
\* exact arithmetic, and what does not fit the column is refused.
THEOREM QuoteExact ==
  ASSUME NEW unit \in Nat, NEW qty \in Int, NEW coupon \in Int,
         NEW m \in Nat, NEW tiers \in [1..m -> TierList]
  PROVE  QuoteIsRight(unit, qty, coupon, tiers)
<1>1. PICK n : n = AtLeastOne(qty)
  OBVIOUS
<1>2. n \in Nat \ {0} /\ n = IF qty < 1 THEN 1 ELSE qty
  BY <1>1 DEF AtLeastOne
<1>3. PICK t, off : t = n * unit /\ off = WholesaleOff(tiers, n, unit)
  OBVIOUS
<1>4. t = unit * n /\ t \in Nat
  BY <1>2, <1>3
<1>5. (Multiplies(unit, n) <=> t <= MaxCents) /\ (t <= MaxCents => Product(unit, n) = t)
  BY <1>2, <1>4, ProductExact
<1>6. t <= MaxCents => off = IF \E p \in TierPrice(tiers, n) : p < unit
                             THEN n * (unit - CHOOSE p \in TierPrice(tiers, n) : TRUE) ELSE 0
  BY <1>2, <1>3, <1>4, WholesaleExact
<1>7. PICK q : q = Quote(unit, qty, coupon, tiers)
  OBVIOUS
<1>8. /\ q.ok <=> t <= MaxCents
      /\ q.ok => /\ q.total = t /\ q.wholesaleOff = off
                 /\ q.actual = NotNegative(t - NotNegative(coupon) - off)
  BY <1>1, <1>3, <1>5, <1>7 DEF Quote
<1>9. q.ok => q.actual = LET rest == t - off - (IF coupon > 0 THEN coupon ELSE 0) IN IF rest > 0 THEN rest ELSE 0
  <2>1. ASSUME q.ok PROVE off \in Int
    <3>1. \A p \in TierPrice(tiers, n) : p \in Int
      BY <1>2, TierPriceIsBest
    <3>2. \A p \in TierPrice(tiers, n) : (CHOOSE x \in TierPrice(tiers, n) : TRUE) \in TierPrice(tiers, n)
      OBVIOUS
    <3> QED BY <1>2, <1>6, <1>8, <2>1, <3>1, <3>2
  <2> QED BY <1>4, <1>8, <2>1 DEF NotNegative
<1> QED BY <1>2, <1>3, <1>6, <1>7, <1>8, <1>9 DEF QuoteIsRight

LEMMA QuotesAlwaysRight == QuotesAreRight
<1>1. ASSUME NEW tiers \in TierLists PROVE \E m \in Nat : tiers \in [1..m -> TierList]
  <2>1. PICK m \in 0..2 : tiers \in [1..m -> Tiers]
    BY DEF TierLists
  <2>2. Tiers \subseteq TierList
    BY DEF Tiers, TierList
  <2>3. tiers \in [1..m -> TierList] /\ m \in Nat
    BY <2>1, <2>2
  <2> QED BY <2>3
<1>2. Units \subseteq Nat /\ Quantities \subseteq Int /\ CouponValues \subseteq Int
  BY PriceAssumption DEF Units, Quantities, CouponValues
<1>3. ASSUME NEW unit \in Units, NEW qty \in Quantities, NEW tiers \in TierLists, NEW coupon \in CouponValues
      PROVE  QuoteIsRight(unit, qty, coupon, tiers)
  <2>1. PICK m \in Nat : tiers \in [1..m -> TierList]
    BY <1>1
  <2>2. unit \in Nat /\ qty \in Int /\ coupon \in Int
    BY <1>2
  <2> QED BY <2>1, <2>2, QuoteExact
<1> QED BY <1>3 DEF QuotesAreRight

\* Quote with WholesaleOff and mul: whatever its quantity, unit price, coupon
\* and tiers, a checkout that comes to be priced gets the price of exact
\* arithmetic, and is refused if that does not fit the column.  QuoteExact says
\* so of every number and every list of tiers.
THEOREM PricesAreAlwaysExact == Spec => []PricesAreExact
<1>1. PricesAreExact
  BY QuotesAlwaysRight DEF PricesAreExact
<1> QED BY <1>1, PTL

\* ParseYuan and Yuan: an amount comes back from the database as it was
\* written, and what is finer than a cent is cut off toward zero.  YuanBack and
\* ParseCutsOff say so of every amount and every text.
THEOREM PricesAlwaysSurviveText == Spec => []PricesSurviveText
<1>1. PricesSurviveText
  BY TextAlwaysRight DEF PricesSurviveText
<1> QED BY <1>1, PTL
=============================================================================
