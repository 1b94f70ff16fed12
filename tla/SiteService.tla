----------------------------- MODULE SiteService -----------------------------
(***************************************************************************)
(* What SiteOK promises to its callers, whatever is cached: a call either  *)
(* fails, or answers with settings that were saved, no older than the last *)
(* save reported when it was begun; and the tick's sweep acts on such an   *)
(* answer only.  Saves are numbered; a save is told of some time after it  *)
(* is committed, or never.                                                 *)
(***************************************************************************)
EXTENDS Integers

CONSTANTS
    Readers,        \* callers
    Sweeper,        \* the one of them that is the tick
    Waiting,        \* a call not answered yet
    Failed          \* an answer that the settings cannot be read

VARIABLES
    table,      \* the save committed last
    told,       \* the latest save reported as saved
    call,       \* a caller's last call: what was reported before it, and its answer
    swept       \* what the last sweep acted on

vars == <<table, told, call, swept>>

Init ==
    /\ table = 0 /\ told = 0
    /\ call = [r \in Readers |-> [asked |-> 0, answer |-> Failed]]
    /\ swept = [site |-> 0, begun |-> 0]

Save ==
    /\ table' = table + 1
    /\ UNCHANGED <<told, call, swept>>

Tell ==
    /\ told' \in told..table
    /\ UNCHANGED <<table, call, swept>>

Answers(r, asked) ==
    \E answer \in (asked..table) \cup {Failed} :
        call' = [call EXCEPT ![r] = [asked |-> asked, answer |-> answer]]

Ask(r) ==
    /\ \/ call' = [call EXCEPT ![r] = [asked |-> told, answer |-> Waiting]]
       \/ Answers(r, told)
    /\ UNCHANGED <<table, told, swept>>

Answer(r) ==
    /\ call[r].answer = Waiting
    /\ Answers(r, call[r].asked)
    /\ UNCHANGED <<table, told, swept>>

Sweep ==
    /\ call[Sweeper].answer \notin {Waiting, Failed}
    /\ swept' = [site |-> call[Sweeper].answer, begun |-> call[Sweeper].asked]
    /\ call' = [call EXCEPT ![Sweeper].answer = Failed]
    /\ UNCHANGED <<table, told>>

\* The process dies, and every call with it.
Restart ==
    /\ call' = [r \in Readers |-> [call[r] EXCEPT !.answer = Failed]]
    /\ UNCHANGED <<table, told, swept>>

Next == Save \/ Tell \/ Sweep \/ Restart \/ \E r \in Readers : Ask(r) \/ Answer(r)

Spec == Init /\ [][Next]_vars
=============================================================================
