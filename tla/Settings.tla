------------------------------ MODULE Settings ------------------------------
(***************************************************************************)
(* settingsSave (internal/admin/system.go) under SiteCache: the rows of    *)
(* the settings table, and the transactions that upsert all of them in the *)
(* order a Go map happens to give, each waiting for the rows another one   *)
(* has written.  It is what entitles SiteCache to number the saves.        *)
(*                                                                         *)
(* The form posts every key of every tab.  A password left blank stands    *)
(* for the one loadSettings read before the transaction began.  Forms that *)
(* applySettings refuses change nothing and are left out.                  *)
(***************************************************************************)
EXTENDS SiteCache, FiniteSets

CONSTANTS
    Keys,           \* settings keys the form posts
    Password,       \* the one whose field is posted blank to keep it
    Installed,      \* the values written by the installation
    NoKey           \* no row waited for

ASSUME SettingsAssumption ==
    /\ Password \in Keys /\ NoKey \notin Keys
    /\ Installed \notin Savers

VARIABLES
    rows,       \* key -> the administrator who typed its value
    save,       \* an administrator's save in progress
    typed,      \* history: who typed the last save, and who the last password
    raced       \* history: the last save had read its password before another save's commit

settingsVars == <<rows, save, typed, raced>>

NoSave == [step |-> "idle", vals |-> [k \in Keys |-> Installed], blank |-> FALSE, wrote |-> {}, next |-> NoKey,
           overtaken |-> FALSE]

SettingsInit ==
    /\ Init
    /\ rows = [k \in Keys |-> Installed]
    /\ save = [s \in Savers |-> NoSave]
    /\ typed = [all |-> Installed, password |-> Installed]
    /\ raced = FALSE

-----------------------------------------------------------------------------
\* applySettings.
\* Mutant: a blank field is a value like any other.
MutPostedBlank(s, blank, old) == [k \in Keys |-> IF k = Password /\ blank THEN Installed ELSE s]
Posted(s, blank, old) == [k \in Keys |-> IF k = Password /\ blank THEN old[k] ELSE s]

\* loadSettings and applySettings, before the transaction.
Submit(s, blank) ==
    /\ save[s].step = "idle" /\ saver[s] = 0
    /\ table + Cardinality({t \in Savers : save[t].step = "open"}) < MaxVersion
    /\ save' = [save EXCEPT ![s] = [step |-> "open", vals |-> Posted(s, blank, rows), blank |-> blank,
                                    wrote |-> {}, next |-> NoKey, overtaken |-> FALSE]]
    /\ UNCHANGED <<vars, rows, typed, raced>>

\* The next key of the map.
Reach(s, k) ==
    /\ save[s].step = "open" /\ save[s].next = NoKey /\ k \in Keys \ save[s].wrote
    /\ save' = [save EXCEPT ![s].next = k]
    /\ UNCHANGED <<vars, rows, typed, raced>>

WaitsFor(s, t) == t # s /\ save[s].next \in save[t].wrote

\* Its upsert, once no other transaction has the row.
Upsert(s) ==
    /\ save[s].next # NoKey /\ ~\E t \in Savers : WaitsFor(s, t)
    /\ save' = [save EXCEPT ![s].wrote = @ \cup {save[s].next}, ![s].next = NoKey]
    /\ UNCHANGED <<vars, rows, typed, raced>>

\* PostgreSQL's deadlock detector ends a transaction that waits in a circle.
Circle(C) == \A s \in C : (\E t \in C : WaitsFor(s, t)) /\ (\E t \in C : WaitsFor(t, s))
Victim(s) ==
    /\ \E C \in SUBSET Savers : s \in C /\ Circle(C)
    /\ save' = [save EXCEPT ![s] = NoSave]
    /\ UNCHANGED <<vars, rows, typed, raced>>

\* A statement fails, or the visitor is gone: rolled back.
\* Mutant: the transaction is left open.
MutRollBackNot(s) ==
    /\ save[s].step = "open"
    /\ save' = [save EXCEPT ![s].step = "idle"]
    /\ UNCHANGED <<vars, rows, typed, raced>>
RollBack(s) ==
    /\ save[s].step = "open"
    /\ save' = [save EXCEPT ![s] = NoSave]
    /\ UNCHANGED <<vars, rows, typed, raced>>

CommitSettings(s) ==
    /\ save[s].step = "open" /\ save[s].next = NoKey /\ save[s].wrote = Keys
    /\ Commit(s)
    /\ rows' = [k \in Keys |-> IF k \in save[s].wrote THEN save[s].vals[k] ELSE rows[k]]
    /\ save' = [t \in Savers |-> IF t = s THEN NoSave
                                 ELSE IF save[t].step = "open" THEN [save[t] EXCEPT !.overtaken = TRUE]
                                 ELSE save[t]]
    /\ typed' = [all |-> s, password |-> IF save[s].blank THEN typed.password ELSE s]
    /\ raced' = (save[s].blank /\ (raced \/ save[s].overtaken))

-----------------------------------------------------------------------------
\* The rest of SiteCache; when the process dies PostgreSQL rolls back.
Elsewhere ==
    /\ \/ \E r \in Readers : Call(r) \/ Load(r) \/ Store(r)
       \/ Expires
       \/ \E s \in Savers : InvalidateSite(s)
       \/ Sweep
    /\ UNCHANGED settingsVars

SettingsRestart ==
    /\ Restart
    /\ save' = [s \in Savers |-> NoSave]
    /\ UNCHANGED <<rows, typed, raced>>

Saves(s) == (\E k \in Keys : Reach(s, k)) \/ Upsert(s) \/ Victim(s) \/ CommitSettings(s)

SettingsNext ==
    \/ \E s \in Savers :
          \/ \E blank \in BOOLEAN : Submit(s, blank)
          \/ Saves(s) \/ RollBack(s)
    \/ Elsewhere
    \/ SettingsRestart

SettingsSpec == SettingsInit /\ [][SettingsNext]_<<vars, settingsVars>>

\* A transaction goes on; a row that is free is given to one that waits.
FairSettingsSpec == SettingsSpec /\ \A s \in Savers : SF_<<vars, settingsVars>>(Saves(s))

-----------------------------------------------------------------------------
\* However two saves' upserts interleave, the table holds what one of them
\* posted, and the password that was typed last: a save that leaves it blank
\* puts another one back only if some save was committed after it had read.
SavesAreWhole ==
    /\ \A k \in Keys \ {Password} : rows[k] = typed.all
    /\ raced \/ rows[Password] = typed.password

\* Saves that lock the rows in opposite orders do not wait for ever.
EverySaveEnds == \A s \in Savers : save[s].step = "open" ~> save[s].step = "idle"
=============================================================================
