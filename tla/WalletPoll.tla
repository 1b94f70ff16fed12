------------------------------ MODULE WalletPoll ------------------------------
(***************************************************************************)
(* The background polling of the cldx wallet: which orders a tick asks     *)
(* about, in which order, and how the stamps rotate them (WaitingSNs,      *)
(* MarkCldxPolled, LockCldxQuote of internal/store/cldx.go; SyncCldx,      *)
(* syncCldxOrder of internal/httpx/cldx.go).                               *)
(*                                                                         *)
(* Orders come and go for ever, so the waiting ones are known by their     *)
(* place among the waiting rows in the order of their ids: slot 1 is the   *)
(* oldest row, a newly quoted one takes the first free slot, and one that  *)
(* leaves moves the younger ones down.  cldx_polled_at matters only by     *)
(* order, so stamps are ranks: 0 for a row never polled, then 1, 2, ...    *)
(* with no gap, and now is the rank the present second has or would have.  *)
(***************************************************************************)
EXTENDS Integers, Sequences, FiniteSets

CONSTANTS
    N,              \* how many orders wait at most
    LiveShare,      \* cldxLiveShare
    LateShare,      \* cldxLateShare
    Pages,          \* slots whose order has a cashier page open
    MinPolled       \* orders a tick gets round to before its deadline, at least

Ids == 1..N
Limit == LiveShare + LateShare      \* cldxPollLimit

ASSUME PollAssumption ==
    /\ N \in Nat /\ LiveShare \in Nat \ {0} /\ LateShare \in Nat \ {0}
    /\ MinPolled \in Nat \ {0} /\ Pages \subseteq Ids

VARIABLES
    bucket,     \* "live" (待支付), "late" (过期, in the late window) or "out"
    stamp,
    now,
    list,       \* what is left of the list the running tick has read; 0 for
                \* an order that has left the waiting set since
    asked       \* how many of it are done, counted up to MinPolled

pollVars == <<bucket, stamp, now, list, asked>>

-----------------------------------------------------------------------------
\* The order of a bucket: least recently polled first.
Before(o, p) == stamp[o] < stamp[p] \/ (stamp[o] = stamp[p] /\ o < p)

Waiting(b) == {o \in Ids : bucket[o] = b}
Rank(o) == Cardinality({p \in Waiting(bucket[o]) : Before(p, o)}) + 1

LesserOf(m, n) == IF m < n THEN m ELSE n
GreaterOf(m, n) == IF m < n THEN n ELSE m
Share(b) == IF b = "live" THEN LiveShare ELSE LateShare
OtherBucket(b) == IF b = "live" THEN "late" ELSE "live"

\* A bucket's quota: its share, and what the other bucket does not use.
\* Mutant: nothing is left to the other one.
MutQuotaShare(b) == Share(b)
Quota(b) ==
    GreaterOf(Share(b), Limit - LesserOf(Cardinality(Waiting(OtherBucket(b))), Share(OtherBucket(b))))

Picked == {o \in Ids : bucket[o] # "out" /\ Rank(o) <= Quota(bucket[o])}

\* ORDER BY (rn - 1) / share, bucket, rn.
\* Mutant: the live bucket, then the late one.
MutListedBeforeBuckets(o, p) ==
    IF bucket[o] = bucket[p] THEN Rank(o) < Rank(p) ELSE bucket[o] = "live"
ListedBefore(o, p) ==
    LET x == (Rank(o) - 1) * Share(bucket[p])
        y == (Rank(p) - 1) * Share(bucket[o])
    IN x < y \/ (x = y /\ (IF bucket[o] = bucket[p] THEN Rank(o) < Rank(p) ELSE bucket[o] = "live"))

Place(o) == Cardinality({p \in Picked : ListedBefore(p, o)}) + 1
WaitingSNs == [i \in 1..Cardinality(Picked) |-> CHOOSE o \in Picked : Place(o) = i]

-----------------------------------------------------------------------------
PollTypeOK ==
    /\ bucket \in [Ids -> {"live", "late", "out"}]
    /\ stamp \in [Ids -> 0..N] /\ now \in 1..N+1
    /\ list \in Seq(0..N) /\ Len(list) <= Limit
    /\ asked \in 0..Limit

PollInit ==
    /\ bucket = [o \in Ids |-> "out"]
    /\ stamp = [o \in Ids |-> 0]
    /\ now = 1
    /\ list = <<>>
    /\ asked = 0

\* Stamps become s, with the gaps closed that the changed ones have left.
RankOfStamp(s, t) == Cardinality({s[p] : p \in {q \in Ids : 0 < s[q] /\ s[q] < t}}) + 1
Restamp(s) ==
    /\ stamp' = [o \in Ids |-> IF s[o] = 0 THEN 0 ELSE RankOfStamp(s, s[o])]
    /\ now' = RankOfStamp(s, now)

\* Mutant: the stamp is left out.
MutMarkPolledNot(o) == UNCHANGED <<stamp, now>>
MarkPolled(o) == Restamp([stamp EXCEPT ![o] = now])

\* The second ends in which an order was stamped.
SecondPasses ==
    /\ \E o \in Ids : stamp[o] = now
    /\ now' = now + 1
    /\ UNCHANGED <<bucket, stamp, list, asked>>

TickStarts ==
    /\ list = <<>> /\ Picked # {}
    /\ list' = WaitingSNs
    /\ asked' = 0
    /\ UNCHANGED <<bucket, stamp, now>>

\* A worker takes the head of the list.
TakeHead ==
    /\ list # <<>>
    /\ list' = Tail(list)
    /\ asked' = IF list' = <<>> THEN 0 ELSE LesserOf(asked + 1, MinPolled)
    /\ UNCHANGED bucket

\* The wallet was called for it, and whatever came of the call is stamped.
AskHead == TakeHead /\ Head(list) # 0 /\ MarkPolled(Head(list))

\* It stays unstamped: settled meanwhile, a lookup or the stamp failed, or the
\* answer came from another caller's fetch.
PassHead == TakeHead /\ UNCHANGED <<stamp, now>>

\* The tick's deadline: the rest of the list is dropped.
Deadline ==
    /\ list # <<>> /\ asked >= MinPolled
    /\ list' = <<>>
    /\ asked' = 0
    /\ UNCHANGED <<bucket, stamp, now>>

\* A cashier page polls its own order; only live and late orders are asked.
PagePolls(o) ==
    /\ o \in Pages /\ bucket[o] # "out"
    /\ MarkPolled(o)
    /\ UNCHANGED <<bucket, list, asked>>

\* A page quotes an unpaid order, which waits from then on, never polled.  Ids
\* are taken to grow in the order of the quotes: an order made before those
\* that wait and quoted after them comes before a given one finitely often.
RowQuoted(o) ==
    /\ bucket[o] = "out" /\ \A p \in 1..o-1 : bucket[p] # "out"
    /\ bucket' = [bucket EXCEPT ![o] = "live"]
    /\ UNCHANGED <<stamp, now, list, asked>>

RowExpires(o) ==
    /\ bucket[o] = "live"
    /\ bucket' = [bucket EXCEPT ![o] = "late"]
    /\ UNCHANGED <<stamp, now, list, asked>>

\* An order is settled, or its late window ends.
Without(f, o, none) == [p \in Ids |-> IF p < o THEN f[p] ELSE IF p < N THEN f[p + 1] ELSE none]
RowLeaves(o) ==
    /\ bucket[o] # "out"
    /\ bucket' = Without(bucket, o, "out")
    /\ Restamp(Without(stamp, o, 0))
    /\ list' = [i \in DOMAIN list |->
                    IF list[i] = o THEN 0 ELSE IF list[i] < o THEN list[i] ELSE list[i] - 1]
    /\ UNCHANGED asked

PollNext ==
    \/ TickStarts \/ AskHead \/ PassHead \/ Deadline \/ SecondPasses
    \/ \E o \in Ids : PagePolls(o) \/ RowQuoted(o) \/ RowExpires(o) \/ RowLeaves(o)

PollSpec == PollInit /\ [][PollNext]_pollVars

TickAsks(o) == list # <<>> /\ Head(list) = o /\ AskHead

\* The tick loop runs every 30 seconds, its workers go on, and the seconds pass.
\* What leaves a row unstamped is an error of the database or a page's own
\* fetch of it, so a row the ticks come to again and again is asked about once.
PollFairness ==
    /\ WF_pollVars(TickStarts) /\ WF_pollVars(SecondPasses)
    /\ WF_pollVars(AskHead \/ PassHead)
    /\ \A o \in Ids : SF_pollVars(TickAsks(o))

PollFairSpec == PollSpec /\ PollFairness

-----------------------------------------------------------------------------
\* A tick never asks about more than the limit, and leaves no slot unused
\* while an order waits: a short bucket's share goes to the other.
ListIsFull ==
    LET waiting == Cardinality(Waiting("live")) + Cardinality(Waiting("late")) IN
    Len(WaitingSNs) = LesserOf(Limit, waiting)

\* However early the deadline cuts a tick off, what it got round to holds late
\* orders in their share (past the first place), while there are any.
LateIn(l, n) == Cardinality({i \in 1..n : bucket[l[i]] = "late"})
PrefixesAreShared ==
    LET l == WaitingSNs IN
    \A n \in 1..Len(l) :
        \/ LateIn(l, n) = LateIn(l, Len(l))
        \/ LateIn(l, n) * Limit >= (n - 1) * LateShare

\* The row of slot o is asked about, by a tick or its page.
Asked(o) == TickAsks(o) \/ PagePolls(o)
\* Slot o then holds another row; to one row this happens finitely often.
OlderLeaves(o) == \E p \in 1..o : RowLeaves(p)
\* A row enters the bucket of slot o and comes before it there.
Overtaken(o) ==
    \E p \in Ids : (RowQuoted(p) \/ RowExpires(p)) /\ (bucket[p] = bucket[o] /\ Before(p, o))'

\* A slow wallet or a backlog slows an order down but does not starve it, even
\* if no page asks: an order that stays is asked about a first time however many
\* arrive, and again and again unless new ones for ever enter its own bucket
\* before it.  The other bucket's arrivals never starve it.
NeverStarved ==
    \A o \in Ids :
        \/ []<>(bucket[o] = "out")
        \/ []<><<Asked(o) \/ OlderLeaves(o) \/ (stamp[o] # 0 /\ Overtaken(o))>>_pollVars
=============================================================================
