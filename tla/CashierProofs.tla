----------------------------- MODULE CashierProofs -----------------------------
(***************************************************************************)
(* Proofs about ReceiptThrottle, Cashier and WalletPoll, for any tabs,     *)
(* callers, amounts, orders and shares. The throttle: fetches of one order *)
(* are shared, and an answer is kept for its window; both rest on one      *)
(* fact, that an entry in flight or fresh is the one in the map, unless a  *)
(* delivery forgot it. The cashier: to the throttle it is just callers;    *)
(* every amount shown is the quote; and only a payment of the quote        *)
(* settles the order. Both of the latter rest on the quote being made      *)
(* once: by the UPDATE that keeps what is there, or under the row's lock   *)
(* by the one tab that found none. The poll: a rank in a finite order is a *)
(* bijection onto 1..n; so the quotas fill the list, and an order's place  *)
(* in it tells how many of the other bucket come before.                   *)
(***************************************************************************)
EXTENDS Cashier, WalletPoll, FiniteSetTheorems, FunctionTheorems, TLAPS

-----------------------------------------------------------------------------
(* The throttle.                                                           *)

\* What the map is for: get finds every entry that could still answer.
InTheMap == \A e \in Callers : (Flying(e) \/ Fresh(e)) /\ e \notin forgotten => slot = e

IInv == TypeOK /\ InTheMap

\* An empty map at the start.
LEMMA InitInTheMap == Init => IInv
BY ThrottleAssumption DEF Init, IInv, TypeOK, InTheMap, Flying, Fresh

\* Every step of get, lead, prune and forget keeps the map and its entries.
LEMMA StepInTheMap == IInv /\ [Next]_vars => IInv'
<1> SUFFICES ASSUME IInv, [Next]_vars PROVE IInv'
    OBVIOUS
<1> USE ThrottleAssumption DEF IInv, TypeOK, InTheMap, Flying, Fresh
<1>1. ASSUME NEW c \in Callers, Enter(c) PROVE IInv'
    BY <1>1 DEF Enter
<1>2. ASSUME NEW c \in Callers, AnswerFromCache(c) PROVE IInv'
    BY <1>2 DEF AnswerFromCache, Served, Usable
<1>3. ASSUME NEW c \in Callers, Join(c) PROVE IInv'
    BY <1>3 DEF Join, Joinable
<1>4. ASSUME NEW c \in Callers, Start(c) PROVE IInv'
    BY <1>4 DEF Start, Usable, Joinable
<1>5. ASSUME NEW c \in Callers, Wake(c) PROVE IInv'
    BY <1>5 DEF Wake
<1>6. ASSUME NEW c \in Callers, LeaderReturns(c) PROVE IInv'
    BY <1>6 DEF LeaderReturns, Served
<1>7. ASSUME NEW c \in Callers, GiveUp(c) PROVE IInv'
    BY <1>7 DEF GiveUp
<1>8. ASSUME NEW c \in Callers, Complete(c) PROVE IInv'
    BY <1>8 DEF Complete
<1>9. ASSUME NEW c \in Callers, Forget(c) PROVE IInv'
    BY <1>9 DEF Forget
<1>10. ASSUME NEW c \in Callers, Finish(c) PROVE IInv'
    BY <1>10 DEF Finish, Drop
<1>11. ASSUME NEW c \in Callers, Age(c) PROVE IInv'
    BY <1>11 DEF Age
<1>12. CASE Prune
    BY <1>12 DEF Prune
<1>13. CASE UNCHANGED vars
    BY <1>13 DEF vars
<1> QED
    BY <1>1, <1>2, <1>3, <1>4, <1>5, <1>6, <1>7, <1>8, <1>9, <1>10, <1>11, <1>12, <1>13 DEF Next, Ask

\* The entries of receiptThrottle stay what get and lead take them for; in
\* particular an entry in the map is in flight or kept, never a dropped one.
THEOREM ThrottleTypeCorrect == Spec => []TypeOK
<1>1. IInv => TypeOK
    BY DEF IInv
<1> QED BY <1>1, InitInTheMap, StepInTheMap, PTL DEF Spec

\* Cashier pages and the background pass share one fetch of an order's
\* receipts, however many of them ask at once.
THEOREM FetchesAreShared == Spec => []SingleFlight
<1>1. IInv => SingleFlight
    <2> SUFFICES ASSUME IInv PROVE SingleFlight
        OBVIOUS
    <2> DEFINE Known == {e \in Callers : Flying(e)} \ forgotten
    <2>1. Known \subseteq {slot}
        BY DEF IInv, InTheMap
    <2>2. IsFiniteSet({slot}) /\ Cardinality({slot}) = 1
        BY FS_Singleton
    <2>3. IsFiniteSet(Known) /\ Cardinality(Known) <= Cardinality({slot})
        BY <2>1, <2>2, FS_Subset
    <2> QED BY <2>2, <2>3, FS_CardinalityType DEF SingleFlight
<1> QED BY <1>1, InitInTheMap, StepInTheMap, PTL DEF Spec

\* The wallet is not asked again within the window of an answer, an error
\* included, unless a delivery forgot that answer.
THEOREM WalletIsNotHammered == Spec => NotHammered
<1>1. ASSUME IInv, Next, NEW c \in Callers, entry[c] = "none", entry'[c] = "flying",
             NEW e \in Callers, Fresh(e)
      PROVE  e \in forgotten
    <2> USE ThrottleAssumption DEF IInv, TypeOK
    <2>1. PICK d \in Callers : Start(d)
        BY <1>1 DEF Next, Ask, Enter, AnswerFromCache, Join, Wake, LeaderReturns, GiveUp, Complete,
            Forget, Finish, Flying, Age, Fresh, Prune
    <2>2. slot # e
        BY <1>1, <2>1 DEF Start, Usable
    <2> QED BY <1>1, <2>2 DEF InTheMap
<1>2. IInv /\ [Next]_vars =>
        [\A c \in Callers : entry[c] = "none" /\ entry'[c] = "flying" =>
              \A e \in Callers : Fresh(e) => e \in forgotten]_vars
    BY <1>1
<1> QED BY <1>2, InitInTheMap, StepInTheMap, PTL DEF Spec, NotHammered

-----------------------------------------------------------------------------
(* The cashier as the throttle's callers.                                  *)

USE CashierAssumption

-----------------------------------------------------------------------------
\* Pages do not touch the throttle, and whoever asks through it does what
\* ReceiptThrottle lets a caller do: what is proved there holds here.
LEMMA ThrottleStep == [CashierNext]_cashierVars => [Next]_vars
<1> SUFFICES ASSUME [CashierNext]_cashierVars PROVE [Next]_vars
  OBVIOUS
<1>1. CASE UNCHANGED cashierVars
  BY <1>1 DEF cashierVars
<1>2. ASSUME NEW t \in Tabs, Open(t) \/ Page(t) PROVE UNCHANGED vars
  BY <1>2 DEF Open, Page, Price, LockCldxQuote, LockUSDTRow, CreateInvoice
<1>3. CASE CldxLaunch \/ Pays \/ PassesDeadline \/ Expires
  BY <1>3 DEF CldxLaunch, Pays, PassesDeadline, Expires
<1>4. ASSUME NEW c \in Callers, Throttle(c) PROVE Next
  BY <1>4 DEF Throttle, Asks, Answers, Settles, Next
<1>5. CASE Prune
  BY <1>5 DEF Next
<1> QED BY <1>1, <1>2, <1>3, <1>4, <1>5 DEF CashierNext

\* syncCldxOrder and syncUSDTOrder use the throttle as get, lead and forget
\* mean it: the cashier implements ReceiptThrottle.
THEOREM CashierImplementsThrottle == CashierSpec => Spec
<1>1. CashierInit => Init
  BY DEF CashierInit
<1> QED BY <1>1, ThrottleStep, PTL DEF CashierSpec, Spec

-----------------------------------------------------------------------------
(* The quote.                                                              *)

ChannelsApart ==
    \A t \in Tabs : /\ tab[t].step = "priced" => channel = "cldx"
                    /\ tab[t].step = "priced" => tab[t].amount \in Amounts
                    /\ tab[t].step = "creating" => channel = "usdt" /\ quote = NoAmount

PageInv == CashierTypeOK /\ ChannelsApart /\ QuotesAgree

LEMMA PageInit == CashierInit => PageInv
BY DEF CashierInit, PageInv, CashierTypeOK, ChannelsApart, QuotesAgree, Steps

LEMMA PageStep == PageInv /\ [CashierNext]_cashierVars => PageInv'
<1> SUFFICES ASSUME PageInv, [CashierNext]_cashierVars PROVE PageInv'
  OBVIOUS
<1> USE DEF PageInv, CashierTypeOK, ChannelsApart, QuotesAgree, Steps
<1>1. CASE UNCHANGED pageVars
  BY <1>1 DEF pageVars
<1>2. ASSUME NEW t \in Tabs, Open(t) PROVE PageInv'
  BY <1>2 DEF Open, Goes
<1>3. ASSUME NEW t \in Tabs, Price(t) PROVE PageInv'
  BY <1>3 DEF Price, Goes, Closes
<1>4. ASSUME NEW t \in Tabs, LockCldxQuote(t) PROVE PageInv'
  BY <1>4 DEF LockCldxQuote, First, Shows, Goes, Closes
<1>5. ASSUME NEW t \in Tabs, LockUSDTRow(t) PROVE PageInv'
  BY <1>5 DEF LockUSDTRow, RowFree, Shows, Goes, Closes
<1>6. ASSUME NEW t \in Tabs, CreateInvoice(t) PROVE PageInv'
  <2>1. shown = {} /\ \A u \in Tabs : tab[u].step = "creating" => u = t
    BY <1>6 DEF CreateInvoice
  <2> QED BY <1>6, <2>1 DEF CreateInvoice, Shows, Goes, Closes
<1>7. CASE CldxLaunch
  BY <1>7 DEF CldxLaunch
<1>8. CASE Pays
  BY <1>8 DEF Pays
<1>9. CASE PassesDeadline \/ Expires
  BY <1>9 DEF PassesDeadline, Expires
<1> QED BY <1>1, <1>2, <1>3, <1>4, <1>5, <1>6, <1>7, <1>8, <1>9 DEF CashierNext, Page, cashierVars

\* The page handlers and LockUSDTInvoice: whatever opens, pays and expires, an
\* order has one invoice in the making at most, because the row lock makes the
\* second tab wait and find the first one's.
THEOREM CashierTypeCorrect == CashierSpec => []CashierTypeOK
<1>1. PageInv => CashierTypeOK
  BY DEF PageInv
<1> QED BY <1>1, PageInit, PageStep, PTL DEF CashierSpec

\* LockCldxQuote and LockUSDTInvoice: however many tabs and links are opened
\* at once, every amount ever shown is the one the row holds.
THEOREM QuotesAlwaysAgree == CashierSpec => []QuotesAgree
<1>1. PageInv => QuotesAgree
  BY DEF PageInv
<1> QED BY <1>1, PageInit, PageStep, PTL DEF CashierSpec

-----------------------------------------------------------------------------
(* The settlement.                                                         *)

\* Nothing a settlement acts on is more than the payment of the quote.
PaidMeansMatches ==
    /\ \A c \in Callers : answer[c] = "paid" \/ pc[c] = "settling" => Matches
    /\ settled => Matches

\* What has been paid and quoted stays.
LEMMA MatchStays == PageInv /\ [CashierNext]_cashierVars /\ Matches => Matches'
<1> SUFFICES ASSUME PageInv, [CashierNext]_cashierVars, Matches PROVE UNCHANGED <<quote, paid>>
  BY DEF Matches
<1>1. ASSUME NEW t \in Tabs, Open(t) \/ Price(t) \/ LockUSDTRow(t) PROVE UNCHANGED <<quote, paid>>
  BY <1>1 DEF Open, Price, LockUSDTRow
<1>2. ASSUME NEW t \in Tabs, LockCldxQuote(t) PROVE UNCHANGED <<quote, paid>>
  BY <1>2 DEF LockCldxQuote, First, Matches
<1>3. ASSUME NEW t \in Tabs, CreateInvoice(t) PROVE UNCHANGED <<quote, paid>>
  BY <1>3 DEF CreateInvoice, PageInv, ChannelsApart, Matches
<1>4. CASE CldxLaunch \/ PassesDeadline \/ Expires
  BY <1>4 DEF CldxLaunch, PassesDeadline, Expires
<1>5. CASE Pays
  BY <1>5 DEF Pays, Matches
<1>6. CASE UNCHANGED pageVars
  BY <1>6 DEF pageVars
<1> QED BY <1>1, <1>2, <1>3, <1>4, <1>5, <1>6 DEF CashierNext, Page, cashierVars

LEMMA SettleStep ==
  IInv /\ PageInv /\ PaidMeansMatches /\ [CashierNext]_cashierVars => PaidMeansMatches'
<1> SUFFICES ASSUME IInv, PageInv, PaidMeansMatches, [CashierNext]_cashierVars PROVE PaidMeansMatches'
  OBVIOUS
<1>0. Matches => Matches'
  BY MatchStays
<1> USE DEF PaidMeansMatches, IInv, TypeOK
<1>1. CASE UNCHANGED vars
  BY <1>0, <1>1 DEF vars
<1>2. ASSUME NEW c \in Callers, Asks(c) \/ Join(c) \/ Start(c) \/ Wake(c) \/ GiveUp(c) PROVE PaidMeansMatches'
  BY <1>0, <1>2 DEF Asks, Enter, Join, Start, Wake, GiveUp
<1>3. ASSUME NEW c \in Callers, AnswerFromCache(c) \/ LeaderReturns(c) PROVE PaidMeansMatches'
  BY <1>0, <1>3, ThrottleAssumption DEF AnswerFromCache, LeaderReturns, Served, Usable
<1>4. ASSUME NEW c \in Callers, Settles(c) PROVE PaidMeansMatches'
  BY <1>0, <1>4 DEF Settles, Complete
<1>5. ASSUME NEW c \in Callers, Forget(c) \/ Age(c) PROVE PaidMeansMatches'
  BY <1>0, <1>5 DEF Forget, Age
<1>6. ASSUME NEW c \in Callers, Answers(c) PROVE PaidMeansMatches'
  BY <1>0, <1>6 DEF Answers, Finish
<1>7. CASE Prune
  BY <1>0, <1>7 DEF Prune
<1>8. ASSUME NEW t \in Tabs, Open(t) \/ Page(t) PROVE UNCHANGED vars
  BY <1>8 DEF Open, Page, Price, LockCldxQuote, LockUSDTRow, CreateInvoice
<1>9. CASE CldxLaunch \/ Pays \/ PassesDeadline \/ Expires
  BY <1>1, <1>9 DEF CldxLaunch, Pays, PassesDeadline, Expires
<1> QED BY <1>1, <1>2, <1>3, <1>4, <1>5, <1>6, <1>7, <1>8, <1>9 DEF CashierNext, cashierVars, Throttle, Ask

\* The order is delivered for its quote and nothing else, however many
\* callers settle at once and however old the answer is that they act on.
THEOREM AlwaysSettledByTheQuote == CashierSpec => []SettledByTheQuote
<1>1. CashierInit => IInv /\ PageInv /\ PaidMeansMatches
  <2>1. CashierInit => PaidMeansMatches
    BY DEF CashierInit, Init, PaidMeansMatches
  <2> QED BY <2>1, InitInTheMap, PageInit DEF CashierInit
<1>2. IInv /\ PageInv /\ PaidMeansMatches /\ [CashierNext]_cashierVars => (IInv /\ PageInv /\ PaidMeansMatches)'
  BY ThrottleStep, StepInTheMap, PageStep, SettleStep
<1>3. PaidMeansMatches => SettledByTheQuote
  BY DEF PaidMeansMatches, SettledByTheQuote, Matches
<1> QED BY <1>1, <1>2, <1>3, PTL DEF CashierSpec

-----------------------------------------------------------------------------
(* Ranks.  In a finite set under a strict total order, an element's rank   *)
(* is one more than the number of those before it: the ranks are 1, 2, ... *)
(* without gaps, and the order is theirs.                                  *)

StrictOrder(R, S) ==
    /\ \A a \in S : <<a, a>> \notin R
    /\ \A a, b \in S : a # b => <<a, b>> \in R \/ <<b, a>> \in R
    /\ \A a, b, c \in S : <<a, b>> \in R /\ <<b, c>> \in R => <<a, c>> \in R
RankIn(R, S, o) == Cardinality({p \in S : <<p, o>> \in R}) + 1
RanksBy(r, R, S) ==
    /\ r \in Bijection(S, 1..Cardinality(S))
    /\ \A a, b \in S : <<a, b>> \in R <=> r[a] < r[b]

\* The ranks are a bijection onto 1..|S|: each number is someone's rank.
LEMMA Ranks ==
  ASSUME NEW S, IsFiniteSet(S), NEW R, StrictOrder(R, S), NEW r, r = [o \in S |-> RankIn(R, S, o)]
  PROVE  RanksBy(r, R, S)
<1> DEFINE Prior(o) == {p \in S : <<p, o>> \in R}
           n == Cardinality(S)
<1>1. n \in Nat /\ \A o \in S : Cardinality(Prior(o)) \in Nat /\ r[o] = Cardinality(Prior(o)) + 1
  <2>1. ASSUME NEW o \in S PROVE Cardinality(Prior(o)) \in Nat
    <3>1. IsFiniteSet(Prior(o))
      BY FS_Subset
    <3> QED BY <3>1, FS_CardinalityType
  <2> QED BY <2>1, FS_CardinalityType DEF RankIn
<1>2. ASSUME NEW a \in S, NEW b \in S, <<a, b>> \in R PROVE r[a] < r[b]
  <2>1. Prior(a) \in SUBSET Prior(b) /\ a \in Prior(b) /\ a \notin Prior(a)
    BY <1>2 DEF StrictOrder
  <2>2. IsFiniteSet(Prior(b))
    BY FS_Subset
  <2>3. Cardinality(Prior(a)) <= Cardinality(Prior(b)) /\ Cardinality(Prior(a)) # Cardinality(Prior(b))
    <3> HIDE DEF Prior
    <3> QED BY <2>1, <2>2, FS_Subset
  <2> HIDE DEF Prior
  <2> QED BY <1>1, <2>3
<1>3. \A a, b \in S : r[a] \in Nat /\ (<<a, b>> \in R <=> r[a] < r[b]) /\ (r[a] = r[b] => a = b)
  <2> SUFFICES ASSUME NEW a \in S, NEW b \in S
               PROVE  r[a] \in Nat /\ (<<a, b>> \in R <=> r[a] < r[b]) /\ (r[a] = r[b] => a = b)
    OBVIOUS
  <2> HIDE DEF Prior
  <2>1. r[a] \in Nat /\ r[b] \in Nat
    BY <1>1
  <2>2. (<<a, b>> \in R => r[a] < r[b]) /\ (<<b, a>> \in R => r[b] < r[a])
    BY <1>2
  <2>3. a = b \/ <<a, b>> \in R \/ <<b, a>> \in R
    BY DEF StrictOrder
  <2>4. a = b => <<a, b>> \notin R
    BY DEF StrictOrder
  <2>6. CASE a = b
    BY <2>1, <2>4, <2>6
  <2>7. CASE <<a, b>> \in R
    BY <2>1, <2>2, <2>7
  <2>8. CASE <<b, a>> \in R
    BY <2>1, <2>2, <2>8
  <2> QED BY <2>3, <2>6, <2>7, <2>8
<1>4. \A o \in S : r[o] \in 1..n
  <2> SUFFICES ASSUME NEW o \in S PROVE r[o] \in 1..n
    OBVIOUS
  <2>1. Prior(o) \in SUBSET S /\ o \notin Prior(o)
    BY DEF StrictOrder
  <2>2. Cardinality(Prior(o)) <= n /\ Cardinality(Prior(o)) # n
    <3> HIDE DEF Prior
    <3> QED BY <2>1, FS_Subset
  <2> HIDE DEF Prior, n
  <2> QED BY <1>1, <2>2
<1>5. r \in [S -> 1..n]
  BY <1>4
<1>6. IsFiniteSet(1..n) /\ Cardinality(1..n) = n
  <2> HIDE DEF n
  <2> QED BY <1>1, FS_Interval
<1>7. r \in Injection(S, 1..n)
  <2> HIDE DEF n
  <2> QED BY <1>3, <1>5, Fun_IsInj
<1>8. r \in Surjection(S, 1..n)
  BY <1>6, <1>7, FS_Injection
<1>9. r \in Bijection(S, 1..n)
  BY <1>7, <1>8 DEF Bijection
<1> QED BY <1>3, <1>9 DEF RanksBy

\* So many have a rank of at most q.
LEMMA LowRanks ==
  ASSUME NEW S, IsFiniteSet(S), NEW r \in Bijection(S, 1..Cardinality(S)), NEW q \in Nat
  PROVE  LET T == {o \in S : r[o] <= q}
         IN  /\ IsFiniteSet(T) /\ IsFiniteSet(S \ T)
             /\ Cardinality(T) = LesserOf(q, Cardinality(S))
<1> DEFINE n == Cardinality(S)
           m == LesserOf(q, n)
           T == {o \in S : r[o] <= q}
           g == [o \in T |-> r[o]]
<1>1. n \in Nat /\ m \in Nat /\ m <= n /\ m <= q /\ (m = n \/ m = q)
  BY FS_CardinalityType DEF LesserOf
<1>2. IsFiniteSet(T) /\ IsFiniteSet(S \ T)
  BY FS_Subset
<1>3. /\ r \in [S -> 1..n]
      /\ \A a, b \in S : r[a] = r[b] => a = b
      /\ \A i \in 1..n : \E a \in S : r[a] = i
  BY DEF Bijection, Injection, Surjection, IsInjective
<1>4. g \in [T -> 1..m]
  BY <1>1, <1>3
<1>5. \A a, b \in T : g[a] = g[b] => a = b
  BY <1>3
<1>6. \A i \in 1..m : \E a \in T : g[a] = i
  <2> SUFFICES ASSUME NEW i \in 1..m PROVE \E a \in T : g[a] = i
    OBVIOUS
  <2>1. i \in 1..n /\ i <= q
    BY <1>1
  <2>2. PICK a \in S : r[a] = i
    BY <1>3, <2>1
  <2> QED BY <2>1, <2>2
<1>7. g \in Bijection(T, 1..m)
  <2> HIDE DEF g, m, T
  <2> QED BY <1>4, <1>5, <1>6, Fun_IsBij
<1>8. Cardinality(1..m) = Cardinality(T) /\ Cardinality(1..m) = m
  <2> HIDE DEF m, T
  <2>1. ExistsBijection(T, 1..m)
    BY <1>7 DEF ExistsBijection
  <2> QED BY <1>1, <1>2, <2>1, FS_Bijection, FS_Interval
<1> QED BY <1>2, <1>8

-----------------------------------------------------------------------------
(* The poll set.                                                           *)

\* What of the state the list depends on.
PollInv == bucket \in [Ids -> {"live", "late", "out"}] /\ stamp \in [Ids -> Nat]

Earlier == {e \in Ids \X Ids : Before(e[1], e[2])}

\* A bucket is a finite set, strictly ordered by Before.
LEMMA WaitingType ==
  ASSUME PollInv, NEW b \in {"live", "late"}
  PROVE  /\ Waiting(b) \subseteq Ids /\ IsFiniteSet(Waiting(b)) /\ Cardinality(Waiting(b)) \in Nat
         /\ \A o \in Waiting(b) : bucket[o] = b
<1>1. Waiting(b) \in SUBSET Ids /\ IsFiniteSet(Ids)
  BY PollAssumption, FS_Interval DEF Waiting, Ids
<1>2. IsFiniteSet(Waiting(b)) /\ Cardinality(Waiting(b)) \in Nat
  BY <1>1, FS_Subset, FS_CardinalityType
<1> QED BY <1>1, <1>2 DEF Waiting

\* Each bucket is ranked by its stamps.
RankOf(b) == [o \in Waiting(b) |-> Rank(o)]

LEMMA BucketRanks ==
  ASSUME PollInv, NEW b \in {"live", "late"}
  PROVE  /\ RankOf(b) \in Bijection(Waiting(b), 1..Cardinality(Waiting(b)))
         /\ \A o \in Waiting(b) : Rank(o) \in 1..Cardinality(Waiting(b))
<1> DEFINE S == Waiting(b)
           R == Earlier
           r == RankOf(b)
<1>1. S \subseteq Ids /\ IsFiniteSet(S) /\ \A o \in S : bucket[o] = b
  BY WaitingType
<1>2. StrictOrder(R, S)
  <2>1. \A o, p \in S : <<o, p>> \in R <=> Before(o, p)
    BY <1>1 DEF Earlier
  <2>2. \A o \in S : o \in Int /\ stamp[o] \in Nat
    BY <1>1, PollAssumption DEF PollInv, Ids
  <2> HIDE DEF S, R
  <2> QED BY <2>1, <2>2 DEF StrictOrder, Before
<1>3. r = [o \in S |-> RankIn(R, S, o)]
  <2>1. ASSUME NEW o \in S PROVE Rank(o) = RankIn(R, S, o)
    <3>1. {p \in Waiting(bucket[o]) : Before(p, o)} = {p \in S : <<p, o>> \in R}
      BY <1>1 DEF Earlier
    <3> QED BY <3>1 DEF Rank, RankIn
  <2> HIDE DEF R, S
  <2> QED BY <2>1 DEF RankOf, S
<1>4. RanksBy(r, R, S)
  <2> HIDE DEF S, R, r
  <2> QED BY <1>1, <1>2, <1>3, Ranks
<1>5. r \in Bijection(S, 1..Cardinality(S))
  BY <1>4 DEF RanksBy
<1>6. \A o \in S : r[o] \in 1..Cardinality(S)
  BY <1>5 DEF Bijection, Injection
<1> QED BY <1>5, <1>6 DEF RankOf

\* Of a bucket a tick picks its quota, or all that waits.
PickedOf(b) == {o \in Waiting(b) : Rank(o) <= Quota(b)}

\* A quota is a number, whatever the other bucket leaves.
LEMMA QuotaType ==
  ASSUME PollInv, NEW b \in {"live", "late"}
  PROVE  Quota(b) \in Nat /\ Share(b) \in Nat \ {0} /\ OtherBucket(b) \in {"live", "late"}
<1>1. OtherBucket(b) \in {"live", "late"} /\ Share(b) \in Nat \ {0} /\ Limit \in Nat
  BY PollAssumption DEF OtherBucket, Share, Limit
<1>2. Cardinality(Waiting(OtherBucket(b))) \in Nat /\ Share(OtherBucket(b)) \in Nat
  BY <1>1, WaitingType, PollAssumption DEF Share
<1> QED BY <1>1, <1>2 DEF Quota, LesserOf, GreaterOf

\* So a quota is used up, or the bucket is.
LEMMA LowestOf ==
  ASSUME PollInv, NEW b \in {"live", "late"}, NEW q \in Nat
  PROVE  LET T == {o \in Waiting(b) : Rank(o) <= q}
         IN  IsFiniteSet(T) /\ Cardinality(T) = LesserOf(q, Cardinality(Waiting(b)))
<1> DEFINE S == Waiting(b)
           r == RankOf(b)
<1>1. IsFiniteSet(S) /\ r \in Bijection(S, 1..Cardinality(S))
  BY WaitingType, BucketRanks
<1>2. {o \in S : r[o] <= q} = {o \in S : Rank(o) <= q}
  BY DEF RankOf
<1> HIDE DEF r, S
<1>3. IsFiniteSet({o \in S : r[o] <= q}) /\ Cardinality({o \in S : r[o] <= q}) = LesserOf(q, Cardinality(S))
  BY <1>1, LowRanks
<1> QED BY <1>2, <1>3 DEF S

\* WaitingSNs: the two quotas together are the limit, or everything that waits.
LEMMA PickedSize ==
  ASSUME PollInv
  PROVE  /\ Picked = PickedOf("live") \cup PickedOf("late") /\ IsFiniteSet(Picked)
         /\ PickedOf("live") \cap PickedOf("late") = {}
         /\ Cardinality(Picked) =
              LesserOf(Limit, Cardinality(Waiting("live")) + Cardinality(Waiting("late")))
<1> DEFINE l == Cardinality(Waiting("live"))
           m == Cardinality(Waiting("late"))
           p == PickedOf("live")
           q == PickedOf("late")
<1>1. Picked = p \cup q /\ p \cap q = {}
  BY DEF Picked, PickedOf, Waiting, PollInv
<1>2. /\ IsFiniteSet(p) /\ Cardinality(p) = LesserOf(Quota("live"), l)
      /\ IsFiniteSet(q) /\ Cardinality(q) = LesserOf(Quota("late"), m)
      /\ l \in Nat /\ m \in Nat
  BY QuotaType, LowestOf, WaitingType DEF PickedOf
<1>3. /\ Quota("live") = GreaterOf(LiveShare, Limit - LesserOf(m, LateShare))
      /\ Quota("late") = GreaterOf(LateShare, Limit - LesserOf(l, LiveShare))
  BY DEF Quota, Share, OtherBucket
<1>4. IsFiniteSet(Picked) /\ Cardinality(Picked) = Cardinality(p) + Cardinality(q)
  <2>1. Cardinality(p) \in Nat /\ Cardinality(q) \in Nat
    BY <1>2, FS_CardinalityType
  <2> HIDE DEF p, q
  <2>2. IsFiniteSet(p \cup q) /\ Cardinality(p \cup q) = Cardinality(p) + Cardinality(q) - Cardinality(p \cap q)
    BY <1>2, FS_Union
  <2>3. Cardinality(p \cap q) = 0
    BY <1>1, FS_EmptySet
  <2> QED BY <1>1, <2>1, <2>2, <2>3
<1> HIDE DEF l, m, p, q
<1>5. Cardinality(Picked) = LesserOf(Limit, l + m)
  BY <1>2, <1>3, <1>4, PollAssumption DEF LesserOf, GreaterOf, Limit
<1> QED BY <1>1, <1>4, <1>5 DEF l, m, p, q

\* The list is in the order of ListedBefore.
Listed == {e \in Ids \X Ids : ListedBefore(e[1], e[2])}
\* The list's order, as a relation on what is picked: ListedBefore compares
\* fractions, which a common factor turns into numbers.
PlaceOf == [o \in Picked |-> Place(o)]

PickedOrder(o) == (Rank(o) - 1) * Share(OtherBucket(bucket[o]))

LEMMA ListedByKey ==
  ASSUME PollInv, NEW o \in Picked, NEW p \in Picked
  PROVE  /\ bucket[o] \in {"live", "late"} /\ Rank(o) \in Nat \ {0} /\ PickedOrder(o) \in Int
         /\ ListedBefore(o, p) <=>
              \/ PickedOrder(o) < PickedOrder(p)
              \/ PickedOrder(o) = PickedOrder(p)
                 /\ (IF bucket[o] = bucket[p] THEN Rank(o) < Rank(p) ELSE bucket[o] = "live")
<1>1. \A x \in Picked : bucket[x] \in {"live", "late"} /\ Rank(x) \in Nat \ {0}
  <2> SUFFICES ASSUME NEW x \in Picked PROVE bucket[x] \in {"live", "late"} /\ Rank(x) \in Nat \ {0}
    OBVIOUS
  <2>1. bucket[x] \in {"live", "late"} /\ x \in Waiting(bucket[x])
    BY DEF Picked, PollInv, Waiting
  <2>2. Cardinality(Waiting(bucket[x])) \in Nat /\ Rank(x) \in 1..Cardinality(Waiting(bucket[x]))
    BY <2>1, BucketRanks, WaitingType
  <2> QED BY <2>1, <2>2
<1>2. PICK a, b, s, t : a = Rank(o) - 1 /\ b = Rank(p) - 1 /\ s = Share(bucket[o]) /\ t = Share(bucket[p])
  OBVIOUS
<1>3. a \in Nat /\ b \in Nat /\ s \in Nat \ {0} /\ t \in Nat \ {0}
  BY <1>1, <1>2, QuotaType
<1>4. PickedOrder(o) \in Int
  <2>1. Share(OtherBucket(bucket[o])) \in Nat
    BY <1>1, QuotaType
  <2>2. \A x, y \in Nat : x * y \in Nat
    OBVIOUS
  <2> QED BY <1>2, <1>3, <2>1, <2>2 DEF PickedOrder
<1>5. CASE bucket[o] # bucket[p]
  <2>1. PickedOrder(o) = a * t /\ PickedOrder(p) = b * s
    BY <1>1, <1>2, <1>5 DEF PickedOrder, OtherBucket
  <2>2. ListedBefore(o, p) <=> a * t < b * s \/ (a * t = b * s /\ bucket[o] = "live")
    BY <1>2, <1>5 DEF ListedBefore
  <2> QED BY <1>1, <1>4, <1>5, <2>1, <2>2
<1>6. CASE bucket[o] = bucket[p]
  <2>1. PICK u : u = Share(OtherBucket(bucket[o]))
    OBVIOUS
  <2>2. u \in Nat \ {0}
    BY <1>1, <2>1, QuotaType
  <2>3. PickedOrder(o) = a * u /\ PickedOrder(p) = b * u /\ s = t
    BY <1>2, <1>6, <2>1 DEF PickedOrder
  <2>4. ListedBefore(o, p) <=> a * s < b * s \/ (a * s = b * s /\ a < b)
    BY <1>1, <1>2, <1>6, <2>3 DEF ListedBefore
  <2>5. \A c \in Nat \ {0} : (a * c < b * c <=> a < b) /\ (a * c = b * c <=> a = b)
    <3> SUFFICES ASSUME NEW c \in Nat \ {0} PROVE (a * c < b * c <=> a < b) /\ (a * c = b * c <=> a = b)
      OBVIOUS
    <3>1. ASSUME NEW x \in Nat, NEW y \in Nat, x < y PROVE x * c < y * c
      <4>1. y - x \in Nat \ {0}
        BY <3>1
      <4>2. (y - x) * c \in Nat \ {0}
        BY <4>1
      <4>3. (y - x) * c = y * c - x * c /\ x * c \in Nat /\ y * c \in Nat
        OBVIOUS
      <4> QED BY <4>2, <4>3
    <3>2. a * c \in Nat /\ b * c \in Nat /\ (a < b => a * c < b * c) /\ (b < a => b * c < a * c)
      BY <1>3, <3>1
    <3> QED BY <1>3, <3>2
  <2>6. (ListedBefore(o, p) <=> a < b) /\ (PickedOrder(o) < PickedOrder(p) <=> a < b)
        /\ (PickedOrder(o) = PickedOrder(p) <=> a = b)
    BY <1>3, <2>2, <2>3, <2>4, <2>5
  <2>7. Rank(o) < Rank(p) <=> a < b
    BY <1>1, <1>2
  <2> QED BY <1>1, <1>3, <1>4, <1>6, <2>6, <2>7
<1> QED BY <1>5, <1>6

\* ORDER BY is a strict total order, so an order's place in the list is its rank.
LEMMA ListRanks ==
  ASSUME PollInv
  PROVE  /\ PlaceOf \in Bijection(Picked, 1..Cardinality(Picked))
         /\ \A o, p \in Picked : ListedBefore(o, p) <=> Place(o) < Place(p)
<1> DEFINE S == Picked
           R == Listed
           r == PlaceOf
<1>1. S \subseteq Ids /\ IsFiniteSet(S)
  BY PickedSize DEF Picked
<1>2. \A o, p \in S : <<o, p>> \in R <=> ListedBefore(o, p)
  BY <1>1 DEF Listed
<1>3. \A o, p \in S : bucket[o] = bucket[p] /\ Rank(o) = Rank(p) => o = p
  <2> SUFFICES ASSUME NEW o \in S, NEW p \in S, bucket[o] = bucket[p], Rank(o) = Rank(p) PROVE o = p
    OBVIOUS
  <2>1. PICK b : b = bucket[o]
    OBVIOUS
  <2>2. b \in {"live", "late"} /\ o \in Waiting(b) /\ p \in Waiting(b)
    BY <2>1 DEF Picked, PollInv, Waiting
  <2>3. RankOf(b) \in Bijection(Waiting(b), 1..Cardinality(Waiting(b)))
    BY <2>2, BucketRanks
  <2>4. RankOf(b)[o] = RankOf(b)[p]
    BY <2>2 DEF RankOf
  <2> QED BY <2>2, <2>3, <2>4 DEF Bijection, Injection, IsInjective
<1>4. StrictOrder(R, S)
  <2>1. \A o, p \in S :
          <<o, p>> \in R <=>
              \/ PickedOrder(o) < PickedOrder(p)
              \/ PickedOrder(o) = PickedOrder(p)
                 /\ (IF bucket[o] = bucket[p] THEN Rank(o) < Rank(p) ELSE bucket[o] = "live")
    BY <1>2, ListedByKey
  <2>2. \A o \in S : bucket[o] \in {"live", "late"} /\ Rank(o) \in Nat /\ PickedOrder(o) \in Int
    BY ListedByKey
  <2> HIDE DEF S, R
  <2>3. \A a \in S : <<a, a>> \notin R
    BY <2>1, <2>2
  <2>4. \A a, b \in S : a # b => <<a, b>> \in R \/ <<b, a>> \in R
    BY <1>3, <2>1, <2>2
  <2>5. \A a, b, c \in S : <<a, b>> \in R /\ <<b, c>> \in R => <<a, c>> \in R
    BY <2>1, <2>2
  <2> QED BY <2>3, <2>4, <2>5 DEF StrictOrder
<1>5. r = [o \in S |-> RankIn(R, S, o)]
  <2>1. ASSUME NEW o \in S PROVE Place(o) = RankIn(R, S, o)
    <3>1. {p \in Picked : ListedBefore(p, o)} = {p \in S : <<p, o>> \in R}
      BY <1>2
    <3> QED BY <3>1 DEF Place, RankIn
  <2> HIDE DEF R, S
  <2> QED BY <2>1 DEF PlaceOf, S
<1>6. RanksBy(r, R, S)
  <2> HIDE DEF S, R, r
  <2> QED BY <1>1, <1>4, <1>5, Ranks
<1>7. \A o \in S : r[o] = Place(o)
  BY DEF PlaceOf
<1> HIDE DEF r, R
<1> QED BY <1>2, <1>6, <1>7 DEF RanksBy, r

\* WaitingSNs returns each picked order once, at its place.
LEMMA ListType ==
  ASSUME PollInv
  PROVE  /\ DOMAIN WaitingSNs = 1..Cardinality(Picked) /\ Cardinality(Picked) \in Nat
         /\ Len(WaitingSNs) = Cardinality(Picked) /\ WaitingSNs \in Seq(Picked)
         /\ \A i \in 1..Cardinality(Picked) : WaitingSNs[i] \in Picked /\ Place(WaitingSNs[i]) = i
<1> DEFINE n == Cardinality(Picked)
<1>1. n \in Nat
  BY PickedSize, FS_CardinalityType
<1>2. \A i \in 1..n : \E o \in Picked : Place(o) = i
  <2>1. \A i \in 1..n : \E o \in Picked : PlaceOf[o] = i
    BY ListRanks DEF Bijection, Surjection
  <2> QED BY <2>1 DEF PlaceOf
<1>3. WaitingSNs = [i \in 1..n |-> CHOOSE o \in Picked : Place(o) = i]
  BY DEF WaitingSNs
<1> HIDE DEF n
<1>4. \A i \in 1..n : WaitingSNs[i] \in Picked /\ Place(WaitingSNs[i]) = i
  BY <1>2, <1>3
<1>5. WaitingSNs \in [1..n -> Picked]
  BY <1>3, <1>4
<1>6. WaitingSNs \in Seq(Picked) /\ Len(WaitingSNs) = n
  BY <1>1, <1>5
<1> QED BY <1>1, <1>3, <1>4, <1>6 DEF n

\* The list is as long as the limit and the waiting orders allow.
LEMMA ListAlwaysFull == PollInv => ListIsFull
BY ListType, PickedSize DEF ListIsFull

\* In the first n places, the orders of one bucket.
InFirst(n, b) == {o \in PickedOf(b) : Place(o) <= n}

\* The first n places hold n orders, live and late ones.
LEMMA FirstPlaces ==
  ASSUME PollInv, NEW n \in 1..Cardinality(Picked)
  PROVE  /\ IsFiniteSet(InFirst(n, "live")) /\ IsFiniteSet(InFirst(n, "late"))
         /\ Cardinality(InFirst(n, "live")) \in Nat /\ Cardinality(InFirst(n, "late")) \in Nat
         /\ Cardinality(InFirst(n, "live")) + Cardinality(InFirst(n, "late")) = n
         /\ LateIn(WaitingSNs, n) = Cardinality(InFirst(n, "late"))
<1> DEFINE A == {o \in Picked : PlaceOf[o] <= n}
           V == InFirst(n, "live")
           L == InFirst(n, "late")
           I == {i \in 1..n : bucket[WaitingSNs[i]] = "late"}
<1>1. /\ Cardinality(Picked) \in Nat /\ n \in Nat /\ n <= Cardinality(Picked)
      /\ Picked = PickedOf("live") \cup PickedOf("late")
      /\ PickedOf("live") \cap PickedOf("late") = {} /\ IsFiniteSet(Picked)
  BY PickedSize, ListType
<1>2. IsFiniteSet(A) /\ Cardinality(A) = n
  <2> DEFINE S == Picked
             r == PlaceOf
  <2>1. IsFiniteSet(S) /\ r \in Bijection(S, 1..Cardinality(S)) /\ n \in Nat
    BY <1>1, ListRanks
  <2>2. A = {o \in S : r[o] <= n}
    OBVIOUS
  <2> HIDE DEF A, S, r
  <2>3. IsFiniteSet(A) /\ Cardinality(A) = LesserOf(n, Cardinality(S))
    BY <2>1, <2>2, LowRanks
  <2> USE DEF S
  <2> QED BY <1>1, <2>3 DEF LesserOf
<1>3. A = V \cup L /\ V \cap L = {} /\ V \in SUBSET Picked /\ L \in SUBSET Picked
  BY <1>1 DEF InFirst, PlaceOf
<1>4. IsFiniteSet(V) /\ IsFiniteSet(L) /\ Cardinality(V) \in Nat /\ Cardinality(L) \in Nat
  <2> HIDE DEF V, L
  <2>1. IsFiniteSet(V) /\ IsFiniteSet(L)
    BY <1>1, <1>3, FS_Subset
  <2> QED BY <2>1, FS_CardinalityType
<1>5. Cardinality(V) + Cardinality(L) = n
  <2> HIDE DEF A, V, L
  <2>1. Cardinality(V \cup L) = Cardinality(V) + Cardinality(L) - Cardinality(V \cap L)
    BY <1>4, FS_Union
  <2>2. Cardinality(V \cap L) = 0
    BY <1>3, FS_EmptySet
  <2> QED BY <1>2, <1>3, <1>4, <2>1, <2>2
<1>6. Cardinality(I) = Cardinality(L)
  <2> DEFINE g == [o \in L |-> Place(o)]
  <2>1. \A o \in Picked : /\ Place(o) \in 1..Cardinality(Picked) /\ WaitingSNs[Place(o)] = o
                          /\ \A p \in Picked : Place(o) = Place(p) => o = p
    <3>1. \A o \in Picked : PlaceOf[o] \in 1..Cardinality(Picked)
      BY ListRanks DEF Bijection, Injection
    <3>2. \A o, p \in Picked : PlaceOf[o] = PlaceOf[p] => o = p
      BY ListRanks DEF Bijection, Injection, IsInjective
    <3>3. \A o \in Picked : PlaceOf[o] = Place(o)
      BY DEF PlaceOf
    <3> HIDE DEF PlaceOf
    <3> QED BY <3>1, <3>2, <3>3, ListType
  <2>2. \A o \in L : o \in Picked /\ bucket[o] = "late" /\ Place(o) <= n
    BY <1>3 DEF InFirst, PickedOf, Waiting
  <2>3. g \in [L -> I]
    <3> HIDE DEF L
    <3>1. \A o \in L : Place(o) \in 1..n /\ bucket[WaitingSNs[Place(o)]] = "late"
      BY <1>1, <2>1, <2>2
    <3> QED BY <3>1
  <2>4. \A o, p \in L : g[o] = g[p] => o = p
    BY <2>1, <2>2
  <2>5. \A i \in I : \E o \in L : g[o] = i
    <3> SUFFICES ASSUME NEW i \in 1..n, bucket[WaitingSNs[i]] = "late" PROVE \E o \in L : g[o] = i
      OBVIOUS
    <3>1. i \in 1..Cardinality(Picked) /\ i <= n
      BY <1>1
    <3>2. PICK o : o = WaitingSNs[i]
      OBVIOUS
    <3>3. o \in Picked /\ Place(o) = i /\ bucket[o] = "late"
      BY <3>1, <3>2, ListType
    <3>4. o \in L
      BY <1>1, <3>1, <3>3 DEF InFirst, PickedOf, Waiting
    <3> QED BY <3>3, <3>4
  <2>6. g \in Bijection(L, I)
    <3> HIDE DEF g, L, I
    <3> QED BY <2>3, <2>4, <2>5, Fun_IsBij
  <2> HIDE DEF g, L, I
  <2>7. ExistsBijection(L, I)
    BY <2>6 DEF ExistsBijection
  <2> QED BY <1>4, <2>7, FS_Bijection
<1> QED BY <1>4, <1>5, <1>6 DEF LateIn

\* A late order left out of the first n places, with the rank the next one
\* should have: everything of the live bucket before it has no larger rank.
LEMMA PrefixShared ==
  ASSUME PollInv, NEW n \in 1..Cardinality(Picked),
         LateIn(WaitingSNs, n) # LateIn(WaitingSNs, Cardinality(Picked))
  PROVE  LateIn(WaitingSNs, n) * Limit >= (n - 1) * LateShare
<1> DEFINE V == InFirst(n, "live")
           L == InFirst(n, "late")
           P == PickedOf("late")
           W == Waiting("late")
<1>1. PICK l, v, N1 : l = Cardinality(L) /\ v = Cardinality(V) /\ N1 = Cardinality(Picked)
  OBVIOUS
<1>2. /\ l \in Nat /\ v \in Nat /\ v + l = n /\ LateIn(WaitingSNs, n) = l
      /\ IsFiniteSet(L) /\ IsFiniteSet(V)
  BY <1>1, FirstPlaces
<1>3. \A o \in Picked : Place(o) \in 1..N1
  <2>1. \A o \in Picked : PlaceOf[o] \in 1..Cardinality(Picked)
    BY ListRanks DEF Bijection, Injection
  <2> QED BY <1>1, <2>1 DEF PlaceOf
<1>4. l < Cardinality(P)
  <2>1. InFirst(N1, "late") = P
    <3>1. P \subseteq Picked
      BY PickedSize
    <3> QED BY <1>3, <3>1 DEF InFirst
  <2>2. N1 \in 1..Cardinality(Picked) /\ N1 \in Nat
    BY <1>1, ListType
  <2>3. LateIn(WaitingSNs, N1) = Cardinality(P) /\ IsFiniteSet(P) /\ Cardinality(P) \in Nat
    BY <1>1, <2>1, <2>2, FirstPlaces
  <2>4. L \in SUBSET P
    BY DEF InFirst
  <2>5. l <= Cardinality(P)
    <3> HIDE DEF L, P
    <3> QED BY <1>1, <2>3, <2>4, FS_Subset
  <2> QED BY <1>1, <1>2, <2>3, <2>5
<1>5. PICK q \in P : q \notin L /\ Rank(q) <= l + 1
  <2> DEFINE D == {o \in W : Rank(o) <= l + 1}
  <2>1. IsFiniteSet(D) /\ Cardinality(D) = LesserOf(l + 1, Cardinality(W))
    BY <1>2, LowestOf
  <2>2. Cardinality(P) = LesserOf(Quota("late"), Cardinality(W)) /\ Quota("late") \in Nat /\ Cardinality(W) \in Nat
    BY QuotaType, LowestOf, WaitingType DEF PickedOf
  <2>3. Cardinality(D) = l + 1 /\ l + 1 <= Quota("late")
    <3> HIDE DEF D, P, W
    <3> QED BY <1>2, <1>4, <2>1, <2>2 DEF LesserOf
  <2>4. D \subseteq P
    <3>1. \A o \in W : Rank(o) \in Nat
      BY BucketRanks, WaitingType
    <3> QED BY <1>2, <2>2, <2>3, <3>1 DEF PickedOf
  <2>5. ~ (D \subseteq L)
    <3> HIDE DEF D, L
    <3>1. D \subseteq L => Cardinality(D) <= Cardinality(L)
      BY <1>2, FS_Subset
    <3> QED BY <1>1, <1>2, <2>3, <3>1
  <2> QED BY <2>4, <2>5
<1>6. Rank(q) \in Nat \ {0} /\ q \in Picked /\ bucket[q] = "late" /\ Place(q) > n
  <2>1. q \in Picked /\ q \in W
    BY <1>5, PickedSize DEF PickedOf
  <2>2. Place(q) \in Nat /\ ~ (Place(q) <= n)
    BY <1>3, <1>5, <2>1 DEF InFirst
  <2> QED BY <2>1, <2>2, ListedByKey DEF Waiting
<1>7. CASE v = 0
  <2>1. l = n /\ n \in Nat \ {0} /\ Limit = LiveShare + LateShare
    BY <1>2, <1>7 DEF Limit
  <2>2. n * (LiveShare + LateShare) = (n - 1) * LateShare + (LateShare + n * LiveShare)
    BY <2>1, PollAssumption
  <2>3. n * LiveShare \in Nat /\ LateShare \in Nat /\ (n - 1) * LateShare \in Int
    BY <2>1, PollAssumption
  <2> QED BY <1>2, <2>1, <2>2, <2>3
<1>8. CASE v # 0
  <2>1. PICK p \in V : Rank(p) >= v
    <3>1. IsFiniteSet({o \in Waiting("live") : Rank(o) <= v - 1})
          /\ Cardinality({o \in Waiting("live") : Rank(o) <= v - 1}) = LesserOf(v - 1, Cardinality(Waiting("live")))
      <4>1. v - 1 \in Nat
        BY <1>2, <1>8
      <4> QED BY <4>1, LowestOf
    <3>2. \A o \in Waiting("live") : Rank(o) \in Nat
      BY BucketRanks, WaitingType
    <3>3. V \subseteq Waiting("live")
      BY DEF InFirst, PickedOf
    <3>4. ~ (V \subseteq {o \in Waiting("live") : Rank(o) <= v - 1})
      <4> DEFINE D == {o \in Waiting("live") : Rank(o) <= v - 1}
      <4>1. IsFiniteSet(D) /\ Cardinality(D) <= v - 1
        <5>1. Cardinality(Waiting("live")) \in Nat
          BY WaitingType
        <5> QED BY <1>2, <3>1, <5>1 DEF LesserOf
      <4> HIDE DEF D, V
      <4>2. V \subseteq D => Cardinality(V) <= Cardinality(D)
        BY <4>1, FS_Subset
      <4>3. Cardinality(D) \in Nat
        BY <4>1, FS_CardinalityType
      <4>4. ~ (V \subseteq D)
        BY <1>1, <1>2, <4>1, <4>2, <4>3
      <4> QED BY <4>4 DEF D
    <3> QED BY <1>2, <3>2, <3>3, <3>4
  <2>2. p \in Picked /\ bucket[p] = "live" /\ Place(p) <= n
    BY PickedSize DEF InFirst, PickedOf, Waiting
  <2>3. ListedBefore(p, q)
    <3>1. Place(p) < Place(q)
      BY <1>3, <1>6, <2>2
    <3> QED BY <1>6, <2>2, <3>1, ListRanks
  <2>4. (Rank(p) - 1) * LateShare <= (Rank(q) - 1) * LiveShare
    <3>1. PickedOrder(p) <= PickedOrder(q)
      BY <1>6, <2>2, <2>3, ListedByKey
    <3> QED BY <1>6, <2>2, <3>1 DEF PickedOrder, Share, OtherBucket
  <2>5. PICK a, b : a = Rank(p) - 1 /\ b = Rank(q) - 1
    OBVIOUS
  <2>6. a \in Nat /\ b \in Nat /\ v - 1 <= a /\ b <= l /\ a * LateShare <= b * LiveShare
    <3>1. Rank(p) \in Nat \ {0}
      BY <2>2, ListedByKey
    <3> QED BY <1>2, <1>5, <1>6, <2>1, <2>4, <2>5, <3>1
  <2>7. (v - 1) * LateShare <= a * LateShare /\ b * LiveShare <= l * LiveShare
    <3>1. \A x, y, z \in Nat : x <= y => x * z <= y * z
      <4>1. ASSUME NEW x \in Nat, NEW y \in Nat, NEW z \in Nat, x <= y PROVE x * z <= y * z
        <5>1. y - x \in Nat
          BY <4>1
        <5>2. (y - x) * z \in Nat
          BY <5>1
        <5>3. (y - x) * z = y * z - x * z /\ x * z \in Nat /\ y * z \in Nat
          OBVIOUS
        <5> QED BY <5>2, <5>3
      <4> QED BY <4>1
    <3>2. v - 1 \in Nat
      BY <1>2, <1>8
    <3> QED BY <1>2, <2>6, <3>1, <3>2, PollAssumption
  <2>8. (v - 1) * LateShare + l * LateShare = (n - 1) * LateShare
        /\ l * LiveShare + l * LateShare = l * Limit
    BY <1>2, PollAssumption DEF Limit
  <2>9. /\ (v - 1) * LateShare \in Int /\ l * LateShare \in Int /\ a * LateShare \in Int
        /\ b * LiveShare \in Int /\ l * LiveShare \in Int /\ (n - 1) * LateShare \in Int /\ l * Limit \in Int
    BY <1>2, <2>6, PollAssumption DEF Limit
  <2> QED BY <1>2, <2>6, <2>7, <2>8, <2>9
<1> QED BY <1>7, <1>8

\* A late order is left out, or none is: either way the late share is met.
LEMMA PrefixesAlwaysShared == PollInv => PrefixesAreShared
<1> SUFFICES ASSUME PollInv, NEW n \in 1..Len(WaitingSNs)
             PROVE  \/ LateIn(WaitingSNs, n) = LateIn(WaitingSNs, Len(WaitingSNs))
                    \/ LateIn(WaitingSNs, n) * Limit >= (n - 1) * LateShare
  BY DEF PrefixesAreShared
<1>1. Len(WaitingSNs) = Cardinality(Picked)
  BY ListType
<1> QED BY <1>1, PrefixShared

-----------------------------------------------------------------------------
(* Every step keeps the stamps ranks: at most N of them, whatever moved.   *)

\* Below any stamp are at most N ranks, and below one that is some row's fewer.
LEMMA RankOfStampType ==
  ASSUME NEW s \in [Ids -> Nat], NEW t
  PROVE  /\ RankOfStamp(s, t) \in 1..N+1
         /\ \A o \in Ids : RankOfStamp(s, s[o]) \in 1..N
<1>1. IsFiniteSet(Ids) /\ Cardinality(Ids) = N /\ N \in Nat
  BY PollAssumption, FS_Interval DEF Ids
<1>2. ASSUME NEW u, NEW D \in SUBSET Ids, {q \in Ids : 0 < s[q] /\ s[q] < u} \subseteq D
      PROVE  RankOfStamp(s, u) \in 1..Cardinality(D)+1
  <2> DEFINE Q == {q \in Ids : 0 < s[q] /\ s[q] < u}
             T == {s[p] : p \in Q}
             h == [p \in Q |-> s[p]]
  <2>1. h \in Surjection(Q, T)
    BY DEF Surjection
  <2>2. Q \subseteq D
    BY <1>2
  <2> HIDE DEF Q, T, h
  <2>3. IsFiniteSet(D)
    BY <1>1, FS_Subset
  <2>4. IsFiniteSet(Q) /\ Cardinality(Q) <= Cardinality(D)
    BY <2>2, <2>3, FS_Subset
  <2>5. IsFiniteSet(T) /\ Cardinality(T) <= Cardinality(Q)
    BY <2>1, <2>4, FS_Surjection
  <2>6. Cardinality(T) \in Nat /\ Cardinality(Q) \in Nat /\ Cardinality(D) \in Nat
    BY <2>3, <2>4, <2>5, FS_CardinalityType
  <2>7. Cardinality(T) + 1 \in 1..Cardinality(D)+1
    BY <2>4, <2>5, <2>6
  <2> QED BY <2>7 DEF RankOfStamp, Q, T
<1>3. RankOfStamp(s, t) \in 1..N+1
  BY <1>1, <1>2
<1>4. ASSUME NEW o \in Ids PROVE RankOfStamp(s, s[o]) \in 1..N
  <2> DEFINE D == Ids \ {o}
  <2>1. Cardinality(D) = N - 1 /\ N >= 1
    <3>1. Cardinality(D) = Cardinality(Ids) - 1
      BY <1>1, FS_RemoveElement
    <3>2. N >= 1
      BY <1>1 DEF Ids
    <3> QED BY <1>1, <3>1, <3>2
  <2>2. {q \in Ids : 0 < s[q] /\ s[q] < s[o]} \subseteq D
    <3>1. \A q \in Ids : s[q] \in Nat
      OBVIOUS
    <3> QED BY <3>1
  <2> HIDE DEF D
  <2>3. RankOfStamp(s, s[o]) \in 1..Cardinality(D)+1
    <3>1. D \in SUBSET Ids
      BY DEF D
    <3> QED BY <1>2, <2>2, <3>1
  <2> QED BY <1>1, <2>1, <2>3
<1> QED BY <1>3, <1>4

\* Closing the gaps leaves no more ranks than orders, and one for now.
LEMMA RestampType ==
  ASSUME NEW s \in [Ids -> Nat], Restamp(s)
  PROVE  stamp' \in [Ids -> 0..N] /\ now' \in 1..N+1
<1>1. \A o \in Ids : RankOfStamp(s, s[o]) \in 1..N
  BY RankOfStampType
<1>2. \A o \in Ids : (IF s[o] = 0 THEN 0 ELSE RankOfStamp(s, s[o])) \in 0..N
  BY <1>1, PollAssumption
<1> QED BY <1>2, RankOfStampType DEF Restamp

\* MarkCldxPolled keeps the stamps ranks.
LEMMA MarkPolledType ==
  ASSUME PollTypeOK, NEW o, MarkPolled(o)
  PROVE  stamp' \in [Ids -> 0..N] /\ now' \in 1..N+1
<1>1. [stamp EXCEPT ![o] = now] \in [Ids -> Nat]
  <2>1. stamp \in [Ids -> Nat] /\ now \in Nat
    BY PollAssumption DEF PollTypeOK
  <2> QED BY <2>1
<1> QED BY <1>1, RestampType DEF MarkPolled

\* A tick's list and what it has asked about fit the limit together.
PollIInv == PollTypeOK /\ asked + Len(list) <= Limit

\* At the start nothing is polled and no tick runs.
LEMMA PollStart == PollInit => PollIInv
BY PollAssumption DEF PollInit, PollIInv, PollTypeOK, Ids, Limit

\* The types are all the list depends on.
LEMMA PollTypes == PollIInv => PollInv
BY PollAssumption DEF PollIInv, PollTypeOK, PollInv

\* SyncCldx reads a list of waiting orders that fits the limit.
LEMMA TickStartsStep == ASSUME PollIInv, TickStarts PROVE PollIInv'
<1>1. PollInv
  BY PollTypes
<1>2. WaitingSNs \in Seq(Picked) /\ Len(WaitingSNs) = Cardinality(Picked)
  BY <1>1, ListType
<1>3. Len(WaitingSNs) <= Limit /\ Len(WaitingSNs) \in Nat
  <2>1. \A b \in {"live", "late"} : Cardinality(Waiting(b)) \in Nat
    BY <1>1, WaitingType, FS_CardinalityType
  <2> QED BY <1>1, <1>2, <2>1, ListAlwaysFull, PollAssumption DEF ListIsFull, LesserOf, Limit
<1>4. WaitingSNs \in Seq(0..N)
  <2> DEFINE T == 0..N
  <2>1. Picked \subseteq T
    BY PollAssumption DEF Picked, Ids
  <2> HIDE DEF T
  <2>2. \A i \in 1..Len(WaitingSNs) : WaitingSNs[i] \in T
    BY <1>2, <2>1
  <2>3. WaitingSNs \in Seq(T)
    BY <1>2, <2>2
  <2> QED BY <2>3 DEF T
<1> HIDE DEF WaitingSNs
<1> QED BY <1>3, <1>4, PollAssumption DEF PollIInv, PollTypeOK, TickStarts, Limit

\* A worker that takes the head shortens the list by what it asks.
LEMMA TakeHeadStep ==
  ASSUME PollIInv, TakeHead, stamp' \in [Ids -> 0..N], now' \in 1..N+1
  PROVE  PollIInv'
<1> USE DEF PollIInv, PollTypeOK
<1>1. list \in Seq(0..N) /\ list # <<>> /\ list' = Tail(list) /\ bucket' = bucket /\ asked \in Nat
  BY DEF TakeHead
<1>2. list' \in Seq(0..N) /\ Len(list') = Len(list) - 1 /\ Len(list) \in Nat /\ Len(list') \in Nat
  BY <1>1
<1>3. asked' \in Nat /\ asked' <= asked + 1
  BY <1>1, PollAssumption DEF TakeHead, LesserOf
<1> QED BY <1>1, <1>2, <1>3, PollAssumption DEF Limit

\* An order that leaves takes its slot, its stamp and its place with it.
LEMMA RowLeavesStep == ASSUME PollIInv, NEW o \in Ids, RowLeaves(o) PROVE PollIInv'
<1> USE DEF PollIInv, PollTypeOK
<1>1. stamp' \in [Ids -> 0..N] /\ now' \in 1..N+1
  <2>1. \A p \in Ids : p < N => p + 1 \in Ids
    BY PollAssumption DEF Ids
  <2>2. Without(stamp, o, 0) \in [Ids -> Nat]
    BY <2>1, PollAssumption DEF Without
  <2> QED BY <2>2, RestampType DEF RowLeaves
<1>2. bucket' \in [Ids -> {"live", "late", "out"}]
  <2>1. \A p \in Ids : p < N => p + 1 \in Ids
    BY PollAssumption DEF Ids
  <2> QED BY <2>1 DEF RowLeaves, Without
<1>3. PICK n \in Nat : n = Len(list) /\ DOMAIN list = 1..n
  OBVIOUS
<1>4. list' \in Seq(0..N) /\ Len(list') = n
  <2> DEFINE moved(p) == IF p = o THEN 0 ELSE IF p < o THEN p ELSE p - 1
             T == 0..N
  <2>1. \A p \in T : moved(p) \in T
    BY PollAssumption DEF Ids
  <2>2. \A i \in 1..n : list[i] \in T
    <3>1. list \in Seq(T)
      OBVIOUS
    <3> HIDE DEF T, PollIInv, PollTypeOK
    <3> QED BY <1>3, <3>1
  <2>3. list' = [i \in 1..n |-> moved(list[i])]
    BY <1>3 DEF RowLeaves
  <2>4. \A i \in 1..n : moved(list[i]) \in T
    BY <2>1, <2>2
  <2> HIDE DEF moved, T
  <2>5. list' \in Seq(T) /\ Len(list') = n
    BY <2>3, <2>4
  <2> QED BY <2>5 DEF T
<1>5. asked' = asked
  BY DEF RowLeaves
<1> QED BY <1>1, <1>2, <1>3, <1>4, <1>5

\* Every step of the ticks, the pages and the orders keeps it.
LEMMA PollStep == PollIInv /\ [PollNext]_pollVars => PollIInv'
<1> SUFFICES ASSUME PollIInv, [PollNext]_pollVars PROVE PollIInv'
  OBVIOUS
<1>1. CASE TickStarts
  BY <1>1, TickStartsStep
<1>2. CASE AskHead
  BY <1>2, TakeHeadStep, MarkPolledType DEF AskHead, PollIInv
<1>3. CASE PassHead
  BY <1>3, TakeHeadStep DEF PassHead, PollIInv, PollTypeOK
<1>4. CASE Deadline
  BY <1>4, PollAssumption DEF Deadline, PollIInv, PollTypeOK, Limit
<1>5. CASE SecondPasses
  BY <1>5, PollAssumption DEF SecondPasses, PollIInv, PollTypeOK
<1>6. ASSUME NEW o \in Ids, PagePolls(o) PROVE PollIInv'
  BY <1>6, MarkPolledType DEF PagePolls, PollIInv, PollTypeOK
<1>7. ASSUME NEW o \in Ids, RowQuoted(o) PROVE PollIInv'
  BY <1>7 DEF RowQuoted, PollIInv, PollTypeOK
<1>8. ASSUME NEW o \in Ids, RowExpires(o) PROVE PollIInv'
  BY <1>8 DEF RowExpires, PollIInv, PollTypeOK
<1>9. ASSUME NEW o \in Ids, RowLeaves(o) PROVE PollIInv'
  BY <1>9, RowLeavesStep
<1>10. CASE UNCHANGED pollVars
  BY <1>10 DEF pollVars, PollIInv, PollTypeOK
<1> QED BY <1>1, <1>2, <1>3, <1>4, <1>5, <1>6, <1>7, <1>8, <1>9, <1>10 DEF PollNext

\* Stamps stay ranks of at most N, and a tick never asks more than the limit.
THEOREM PollTypeCorrect == PollSpec => []PollTypeOK
<1>1. PollIInv => PollTypeOK
  BY DEF PollIInv
<1> QED BY PollStart, PollStep, <1>1, PTL DEF PollSpec

\* WaitingSNs never picks more than cldxPollLimit orders and leaves no slot
\* unused while an order waits, whatever the shares, the orders and the stamps.
THEOREM ListIsAlwaysFull == PollSpec => []ListIsFull
BY PollStart, PollStep, PollTypes, ListAlwaysFull, PTL DEF PollSpec

\* WaitingSNs' ORDER BY mixes the buckets in proportion: whatever prefix a tick
\* gets round to before its deadline, late orders have their share of it.
THEOREM PrefixesAreAlwaysShared == PollSpec => []PrefixesAreShared
BY PollStart, PollStep, PollTypes, PrefixesAlwaysShared, PTL DEF PollSpec
=============================================================================
