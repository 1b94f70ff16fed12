---------------------------- MODULE RequestLimit ----------------------------
(***************************************************************************)
(* ipLimiter (internal/httpx/limit.go) of the checkouts: a budget per      *)
(* client address in fixed windows, a table of bounded size, and one       *)
(* budget shared by the addresses that find the table full.                *)
(*                                                                         *)
(* A window is its age and what was spent in it.  An age of Window means   *)
(* that it is over, however long ago.                                      *)
(***************************************************************************)
EXTENDS Integers, FiniteSets, Functions

CONSTANTS
    Clients,    \* client addresses (netx.LimiterKey)
    Limit,      \* orderLimit
    Overflow,   \* orderOverflow
    Window,     \* limitWindow, in steps of the clock
    MaxIPs      \* limiterMaxIPs

ASSUME LimitAssumption ==
    /\ Limit \in Nat \ {0} /\ Overflow \in Nat \ {0}
    /\ Window \in Nat \ {0} /\ MaxIPs \in Nat \ {0}

VARIABLES
    hits,       \* l.hits: the windows of the addresses in the table
    spill,      \* l.spill
    swept,      \* l.lastSweep was less than a second ago
    passed      \* history: requests let through, by age, since the process began

limitVars == <<hits, spill, swept, passed>>

Windows == [age: 0..Window, count: Nat]
Over(w) == w.age = Window
Opened == [age |-> 0, count |-> 0]
NeverUsed == [age |-> Window, count |-> 0]      \* the zero value of spill

\* The table never outgrows its bound.
LimitTypeOK ==
    /\ \E K \in SUBSET Clients : Cardinality(K) <= MaxIPs /\ hits \in [K -> Windows]
    /\ spill \in Windows
    /\ swept \in BOOLEAN
    /\ passed \in [0..Window - 1 -> Nat]

LimitInit ==
    /\ hits = [k \in {} |-> Opened]
    /\ spill = NeverUsed
    /\ swept = FALSE
    /\ passed = [n \in 0..Window - 1 |-> 0]

-----------------------------------------------------------------------------
Full(h) == Cardinality(DOMAIN h) >= MaxIPs

\* sweep: the windows that are over leave the table.
Kept(h) == {k \in DOMAIN h : ~Over(h[k])}

Sweeps(a) == a \notin DOMAIN hits /\ Full(hits) /\ ~swept
Table(a) == IF Sweeps(a) THEN [k \in Kept(hits) |-> hits[k]] ELSE hits

\* The window as the request finds it: one that is over begins anew.
\* Mutant: it begins anew one step too early.
MutCurrentEarly(w) == IF w.age >= Window - 1 THEN Opened ELSE w
Current(w) == IF Over(w) THEN Opened ELSE w
Spend(w) == [w EXCEPT !.count = @ + 1]

\* The window of an address in the table, or of one that finds room in it.
\* Mutant: the sweep is trusted to have made room.
MutInTableSwept(a) == a \in DOMAIN Table(a) \/ ~Full(Table(a)) \/ Sweeps(a)
InTable(a) == a \in DOMAIN Table(a) \/ ~Full(Table(a))
Own(a) == IF a \in DOMAIN Table(a) THEN Current(Table(a)[a]) ELSE Opened

PassesByOwn(a) ==
    /\ InTable(a) /\ Own(a).count < Limit
    /\ hits' = [k \in DOMAIN Table(a) \cup {a} |-> IF k = a THEN Spend(Own(a)) ELSE Table(a)[k]]
    /\ UNCHANGED spill

\* No room: a new address spends from the shared budget.
PassesByOverflow(a) ==
    /\ ~InTable(a) /\ Current(spill).count < Overflow
    /\ spill' = Spend(Current(spill))
    /\ hits' = Table(a)

Passes(a) ==
    /\ PassesByOwn(a) \/ PassesByOverflow(a)
    /\ swept' = (swept \/ Sweeps(a))
    /\ passed' = [passed EXCEPT ![0] = @ + 1]

\* Only the sweep of a refused request leaves a trace.
Refused(a) ==
    /\ IF InTable(a) THEN Own(a).count >= Limit ELSE Current(spill).count >= Overflow
    /\ hits' = Table(a)
    /\ swept' = (swept \/ Sweeps(a))
    /\ UNCHANGED <<spill, passed>>

\* A step of the clock may be longer or shorter than the second between sweeps.
Aged(w) == [w EXCEPT !.age = IF Over(w) THEN @ ELSE @ + 1]

LimitTick ==
    /\ hits' = [k \in DOMAIN hits |-> Aged(hits[k])]
    /\ spill' = Aged(spill)
    /\ swept' \in {swept, FALSE}
    /\ passed' = [n \in DOMAIN passed |-> IF n = 0 THEN 0 ELSE passed[n - 1]]

\* The table is in memory and does not outlive the process.
LimitRestart ==
    /\ hits' = [k \in {} |-> Opened]
    /\ spill' = NeverUsed
    /\ swept' = FALSE
    /\ passed' = [n \in DOMAIN passed |-> 0]

-----------------------------------------------------------------------------
\* Whatever addresses come and go, one process lets a bounded number of
\* checkouts through in any span of a window: a place in the table is good
\* for at most two budgets there, less the request that opened the first.
FloodBounded ==
    SumFunction(passed) <= MaxIPs * (2 * Limit - 1) + 2 * Overflow - 1
=============================================================================
