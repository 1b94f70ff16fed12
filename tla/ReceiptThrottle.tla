--------------------------- MODULE ReceiptThrottle ---------------------------
(***************************************************************************)
(* receiptThrottle (internal/httpx/cldx.go) for one order: cashier pages   *)
(* and the background pass ask the wallet through it, share one fetch, and *)
(* settle the order with the answer (syncCldxOrder, syncUSDTOrder).        *)
(*                                                                         *)
(* A caller is one such request.  It starts at most one fetch, so the      *)
(* entry of a fetch (receiptEntry) is named by the caller that started it. *)
(* The map holds at most one entry of the order: slot.  A caller that      *)
(* waits keeps the entry's channel, not the slot.  Time is kept as the one *)
(* fact the code asks of it, whether an answer is older than the window.   *)
(***************************************************************************)
EXTENDS Integers, FiniteSets

CONSTANTS
    Callers,
    NoEntry

ASSUME ThrottleAssumption == NoEntry \notin Callers

VARIABLES
    slot,       \* t.last[sn]
    entry,      \* what became of the fetch each caller started
    answer,     \* the wallet's answer in the entry: e.item and e.err
    pc,         \* where each caller is
    on,         \* the entry a waiting or leading caller watches
    settled,    \* the order has left 待支付/过期
    forgotten   \* history: entries deleted from the map by forget

vars == <<slot, entry, answer, pc, on, settled, forgotten>>

Flying(e) == entry[e] = "flying"
Fresh(e) == entry[e] = "fresh"          \* answered less than the window ago
Ended(e) == entry[e] \in {"fresh", "stale", "dropped"}

TypeOK ==
    /\ slot \in Callers \cup {NoEntry}
    /\ slot # NoEntry => entry[slot] \in {"flying", "fresh", "stale"}
    /\ entry \in [Callers -> {"none", "flying", "fresh", "stale", "dropped"}]
    /\ answer \in [Callers -> {"none", "paid", "unpaid", "error"}]
    /\ pc \in [Callers -> {"new", "asking", "waiting", "leading", "settling", "forgetting", "gone"}]
    /\ on \in [Callers -> Callers \cup {NoEntry}]
    /\ settled \in BOOLEAN
    /\ forgotten \subseteq Callers

Init ==
    /\ slot = NoEntry
    /\ entry = [c \in Callers |-> "none"] /\ answer = [c \in Callers |-> "none"]
    /\ pc = [c \in Callers |-> "new"] /\ on = [c \in Callers |-> NoEntry]
    /\ settled = FALSE
    /\ forgotten = {}

-----------------------------------------------------------------------------
\* The request has read the order; a settled one is not asked about.
Enter(c) ==
    /\ pc[c] = "new" /\ ~settled
    /\ pc' = [pc EXCEPT ![c] = "asking"]
    /\ UNCHANGED <<slot, entry, answer, on, settled, forgotten>>

Served(c, e) == pc' = [pc EXCEPT ![c] = IF answer[e] = "paid" THEN "settling" ELSE "gone"]

\* Mutant: an entry without an answer yet is not waited for.
MutJoinableNever(e) == FALSE
Joinable(e) == e # NoEntry /\ Flying(e)

\* Mutant: errors are not kept.
MutUsableGood(e) == e # NoEntry /\ Fresh(e) /\ answer[e] # "error"
Usable(e) == e # NoEntry /\ Fresh(e)

\* One round of get's loop under the mutex: the cached answer, or a fetch
\* in flight to wait for, or a fetch of its own.
AnswerFromCache(c) ==
    /\ pc[c] = "asking" /\ Usable(slot)
    /\ Served(c, slot)
    /\ UNCHANGED <<slot, entry, answer, on, settled, forgotten>>

Join(c) ==
    /\ pc[c] = "asking" /\ Joinable(slot)
    /\ pc' = [pc EXCEPT ![c] = "waiting"]
    /\ on' = [on EXCEPT ![c] = slot]
    /\ UNCHANGED <<slot, entry, answer, settled, forgotten>>

Start(c) ==
    /\ pc[c] = "asking" /\ ~Usable(slot) /\ ~Joinable(slot)
    /\ slot' = c
    /\ entry' = [entry EXCEPT ![c] = "flying"]
    /\ pc' = [pc EXCEPT ![c] = "leading"]
    /\ on' = [on EXCEPT ![c] = c]
    /\ UNCHANGED <<answer, settled, forgotten>>

\* lead's deferred bookkeeping.  A panic or a cancellation is dropped; any
\* other answer is kept, if the entry is still the one in the map.
\* Mutant: a dropped entry stays in the map.
MutDropKeeps(e) == slot' = slot
Drop(e) == slot' = IF slot = e THEN NoEntry ELSE slot

Finish(e) ==
    /\ Flying(e)
    /\ \/ /\ \E a \in {"paid", "unpaid", "error"} : answer' = [answer EXCEPT ![e] = a]
          /\ entry' = [entry EXCEPT ![e] = "fresh"]
          /\ UNCHANGED slot
       \/ /\ answer' = [answer EXCEPT ![e] = "error"]
          /\ entry' = [entry EXCEPT ![e] = "dropped"]
          /\ Drop(e)
    /\ UNCHANGED <<pc, on, settled, forgotten>>

\* close(e.done) wakes everyone who watches the entry.
\* Mutant: done is closed only for an answer that is kept.
MutClosedKept(e) == entry[e] \in {"fresh", "stale"}
Closed(e) == Ended(e)

Wake(c) ==
    /\ pc[c] = "waiting" /\ Closed(on[c])
    /\ pc' = [pc EXCEPT ![c] = "asking"]
    /\ on' = [on EXCEPT ![c] = NoEntry]
    /\ UNCHANGED <<slot, entry, answer, settled, forgotten>>

LeaderReturns(c) ==
    /\ pc[c] = "leading" /\ Closed(on[c])
    /\ Served(c, c)
    /\ on' = [on EXCEPT ![c] = NoEntry]
    /\ UNCHANGED <<slot, entry, answer, settled, forgotten>>

\* The caller's context ends; the fetch it started goes on.
GiveUp(c) ==
    /\ pc[c] \in {"asking", "waiting", "leading"}
    /\ pc' = [pc EXCEPT ![c] = "gone"]
    /\ on' = [on EXCEPT ![c] = NoEntry]
    /\ UNCHANGED <<slot, entry, answer, settled, forgotten>>

\* db.Complete commits (or finds the order settled already), or fails.  After an
\* error nothing is forgotten, though the order may have left by it: a short
\* settlement (on cldx), or a commit whose reply was lost.
Complete(c) ==
    /\ pc[c] = "settling"
    /\ settled' \in {settled, TRUE}
    /\ \/ settled' /\ pc' = [pc EXCEPT ![c] = "forgetting"]
       \/ pc' = [pc EXCEPT ![c] = "gone"]
    /\ UNCHANGED <<slot, entry, answer, on, forgotten>>

Forget(c) ==
    /\ pc[c] = "forgetting"
    /\ forgotten' = forgotten \cup ({slot} \ {NoEntry})
    /\ slot' = NoEntry
    /\ pc' = [pc EXCEPT ![c] = "gone"]
    /\ UNCHANGED <<entry, answer, on, settled>>

\* Time: an answer passes out of the window; prune may then delete it.
Age(e) ==
    /\ Fresh(e)
    /\ entry' = [entry EXCEPT ![e] = "stale"]
    /\ UNCHANGED <<slot, answer, pc, on, settled, forgotten>>

Prune ==
    /\ slot # NoEntry /\ entry[slot] = "stale"
    /\ slot' = NoEntry
    /\ UNCHANGED <<entry, answer, pc, on, settled, forgotten>>

Ask(c) == AnswerFromCache(c) \/ Join(c) \/ Start(c)

Next ==
    \/ \E c \in Callers :
          \/ Enter(c) \/ Ask(c) \/ Wake(c) \/ LeaderReturns(c) \/ GiveUp(c)
          \/ Complete(c) \/ Forget(c)
          \/ Finish(c) \/ Age(c)
    \/ Prune

Spec == Init /\ [][Next]_vars

-----------------------------------------------------------------------------
\* However callers, aging, drops and forgets interleave, a second fetch flies
\* beside a first only if a delivery forgot the first one in flight.
SingleFlight == Cardinality({e \in Callers : Flying(e)} \ forgotten) <= 1

\* The wallet is not hammered: no fetch begins within the window of an answer,
\* an error included, unless a delivery forgot that answer.
NotHammered ==
    [][\A c \in Callers : entry[c] = "none" /\ entry'[c] = "flying" =>
          \A e \in Callers : Fresh(e) => e \in forgotten]_vars

\* Nobody waits for ever: whatever the fetch did (a panic, a cancellation, an
\* entry forgotten meanwhile), every caller comes back.
EveryCallReturns == \A c \in Callers : pc[c] # "new" ~> pc[c] = "gone"
=============================================================================
