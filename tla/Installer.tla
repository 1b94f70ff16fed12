------------------------------ MODULE Installer ------------------------------
(***************************************************************************)
(* The installation of the shop: POST /do-install behind the guard of      *)
(* internal/httpx/server.go, Run and the config file of                    *)
(* internal/install/install.go, and what a start of the process makes of   *)
(* that file and of the database (main, bootChecks of cmd/dufaka/main.go). *)
(*                                                                         *)
(* Any number of requests may be at it at once, each naming a database;    *)
(* any step may fail, and the process may die between any two.  GET        *)
(* /install probes the config file too: a request whose form is refused    *)
(* stands for it.  Every request makes a session key of its own, so a key  *)
(* is named by the request.                                                *)
(***************************************************************************)
EXTENDS Naturals, FiniteSets

CONSTANTS
    Posts,          \* requests to install
    Names,          \* administrators' user names
    Databases,      \* databases the forms may name
    None,           \* no database, no session key
    Absent,         \* there is no config file
    Empty,          \* the config file has no bytes
    Garbled         \* the config file is not JSON

ASSUME InstallerAssumption ==
    /\ None \notin Databases \cup Posts
    /\ Absent # Empty /\ Absent # Garbled /\ Empty # Garbled
    /\ \A d \in Databases, p \in Posts \cup {None} :
          [db |-> d, key |-> p] \notin {Absent, Empty, Garbled}

VARIABLES
    tables,     \* per database, how far schema.sql got: 0 no database, 1 no admin_users
                \* yet, 2 no settings yet, 3 all but the last tables, 4 all
    admins,     \* admin_users: the requests whose administrator is committed
    settled,    \* databases whose settings, channel and mail templates are committed
    config,     \* dufaka.json
    env,        \* DUFAKA_DATABASE_URL as the owner exported it, or None
    proc,       \* the process: up, the database and session key it works with,
                \* and the Installed flag of its handle
    req,        \* the requests: step, form, and what writable() found
    done,       \* history: requests whose page said it is done
    lone,       \* history: requests during which no other one was at it
    late        \* history: requests sent after a lone one was done

diskVars == <<tables, admins, settled, config, env>>
vars == <<tables, admins, settled, config, env, proc, req, done, lone, late>>

ConfigFiles == [db : Databases, key : Posts]
Saved == config \in ConfigFiles

InTx == {"counted", "inserted", "written"}
RunSteps == {"valid", "opened", "making", "counting"} \cup InTx
Steps == {"unsent", "guarded", "probing", "probed", "committed", "saving", "unlinked", "saved", "keyed", "over"}
            \cup RunSteps

Processes == [up : BOOLEAN, db : Databases \cup {None}, key : Posts \cup {None}, seen : BOOLEAN]
Requests == [step : Steps, db : Databases \cup {None}, name : Names \cup {None}, blank : BOOLEAN]

NoForm == [step |-> "unsent", db |-> None, name |-> None, blank |-> FALSE]
Active(p) == req[p].step \notin {"unsent", "over"}
Down == [up |-> FALSE, db |-> None, key |-> None, seen |-> FALSE]

TypeOK ==
    /\ tables \in [Databases -> 0..4]
    /\ admins \in [Databases -> SUBSET Posts]
    /\ settled \in SUBSET Databases
    /\ config \in ConfigFiles \cup {Absent, Empty, Garbled}
    /\ env \in Databases \cup {None}
    /\ proc \in Processes
    /\ req \in [Posts -> Requests]
    /\ done \in SUBSET Posts /\ lone \in SUBSET Posts /\ late \in SUBSET Posts

\* A machine without a shop, with or without a database exported to it.
Init ==
    /\ tables \in [Databases -> {0, 1}]
    /\ admins = [d \in Databases |-> {}]
    /\ settled = {}
    /\ config = Absent
    /\ env \in Databases \cup {None}
    /\ proc = [up |-> TRUE, db |-> env, key |-> None, seen |-> FALSE]
    /\ req = [p \in Posts |-> NoForm]
    /\ done = {} /\ lone = {} /\ late = {}

Go(p, step) == req' = [req EXCEPT ![p].step = step]
At(p, step) == proc.up /\ req[p].step = step
DB(p) == req[p].db

-----------------------------------------------------------------------------
(* The guard and doInstall, up to install.Run.                             *)

\* Installed: a yes is remembered by the handle, an error counts as a no.
Installed(answers) ==
    /\ proc.db # None
    /\ proc.seen \/ (answers /\ tables[proc.db] >= 2 /\ admins[proc.db] # {})
Remember(yes) == proc' = [proc EXCEPT !.seen = @ \/ yes]

\* The guard turns a request away while a database is configured and cannot
\* be seen to be installed; an installed site is left to doInstall.
\* Mutant: an unknown state of the database opens the installation again.
MutLetsThroughAlways(answers) == TRUE
LetsThrough(answers) == Installed(answers) \/ ~Saved

Post(p, d, n, answers) ==
    /\ proc.up /\ req[p] = NoForm
    /\ Remember(Installed(answers))
    /\ req' = [req EXCEPT ![p] = [step |-> IF LetsThrough(answers) THEN "guarded" ELSE "over",
                                  db |-> d, name |-> n, blank |-> FALSE]]
    /\ LET others == {q \in Posts : Active(q)} IN
       lone' = (lone \ others) \cup (IF others = {} THEN {p} ELSE {})
    /\ late' = IF done \cap lone = {} THEN late ELSE late \cup {p}
    /\ UNCHANGED <<diskVars, done>>

\* doInstall asks once more.
Enter(p, answers) ==
    /\ At(p, "guarded")
    /\ Remember(Installed(answers))
    /\ Go(p, IF Installed(answers) THEN "over" ELSE "probing")
    /\ UNCHANGED <<diskVars, done, lone, late>>

\* writable: opens the config file, creating it, and looks at its size ...
Probe(p) ==
    /\ At(p, "probing")
    /\ config' = IF config = Absent THEN Empty ELSE config
    /\ req' = [req EXCEPT ![p].step = "probed", ![p].blank = config' = Empty]
    /\ UNCHANGED <<tables, admins, settled, env, proc, done, lone, late>>

\* ... and removes what it took for its own.  A write in progress goes on in
\* a file that has no name any more.
Unprobe(p) ==
    /\ At(p, "probed")
    /\ config' = IF req[p].blank THEN Absent ELSE config
    /\ req' = [q \in Posts |->
                 IF q = p THEN [req[p] EXCEPT !.step = "valid", !.blank = FALSE]
                 ELSE IF req[p].blank /\ req[q].step = "saving" THEN [req[q] EXCEPT !.step = "unlinked"]
                 ELSE req[q]]
    /\ UNCHANGED <<tables, admins, settled, env, proc, done, lone, late>>

-----------------------------------------------------------------------------
(* install.Run.                                                            *)

EnsureDatabase(p) ==
    /\ At(p, "valid")
    /\ tables' = [tables EXCEPT ![DB(p)] = IF @ = 0 THEN 1 ELSE @]
    /\ Go(p, "opened")
    /\ UNCHANGED <<admins, settled, config, env, proc, done, lone, late>>

\* to_regclass('public.admin_users') decides whether the tables are there.
CheckTables(p) ==
    /\ At(p, "opened")
    /\ Go(p, IF tables[DB(p)] >= 2 THEN "counting" ELSE "making")
    /\ UNCHANGED <<diskVars, proc, done, lone, late>>

\* applySchema, statement by statement; a table another request made is
\* passed over.
ApplySchema(p) ==
    /\ At(p, "making")
    /\ IF tables[DB(p)] < 4
       THEN tables' = [tables EXCEPT ![DB(p)] = @ + 1] /\ UNCHANGED req
       ELSE UNCHANGED tables /\ Go(p, "counting")
    /\ UNCHANGED <<admins, settled, config, env, proc, done, lone, late>>

\* The transaction: are there administrators?
Vacant(d) == admins[d] = {}

CountAdmins(p) ==
    /\ At(p, "counting")
    /\ Go(p, IF Vacant(DB(p)) THEN "counted" ELSE "over")
    /\ UNCHANGED <<diskVars, proc, done, lone, late>>

\* The user name is unique: a name another transaction has inserted is waited
\* for, and one that is committed is an error.
SameName(p, q) == q # p /\ DB(q) = DB(p) /\ req[q].name = req[p].name
NamePending(p) == \E q \in Posts : SameName(p, q) /\ req[q].step \in {"inserted", "written"}
NameTaken(p) == \E q \in admins[DB(p)] : SameName(p, q)

InsertAdmin(p) ==
    /\ At(p, "counted") /\ ~NamePending(p)
    /\ Go(p, IF NameTaken(p) THEN "over" ELSE "inserted")
    /\ UNCHANGED <<diskVars, proc, done, lone, late>>

\* The settings' rows and the seeds: another transaction's are waited for.
\* Without the settings table the statement is an error, and so is the commit.
\* Mutant: the settings are written outside the transaction, and their error
\* is not looked at.
MutHasSettingsAlways(d) == TRUE
HasSettings(d) == tables[d] >= 3

WriteSettings(p) ==
    /\ At(p, "inserted")
    /\ ~\E q \in Posts \ {p} : DB(q) = DB(p) /\ req[q].step = "written"
    /\ Go(p, IF HasSettings(DB(p)) THEN "written" ELSE "over")
    /\ UNCHANGED <<diskVars, proc, done, lone, late>>

Commit(p) ==
    /\ At(p, "written")
    /\ admins' = [admins EXCEPT ![DB(p)] = @ \cup {p}]
    /\ settled' = settled \cup {DB(p)}
    /\ Go(p, "committed")
    /\ UNCHANGED <<tables, config, env, proc, done, lone, late>>

\* SaveConfig cuts the file off, then writes it.  Over another request's
\* longer text a rest of that stays.
OpenConfig(p) ==
    /\ At(p, "committed")
    /\ config' = Empty
    /\ Go(p, "saving")
    /\ UNCHANGED <<tables, admins, settled, env, proc, done, lone, late>>

WriteConfig(p) ==
    /\ At(p, "saving") \/ At(p, "unlinked")
    /\ IF req[p].step = "unlinked" THEN UNCHANGED config
       ELSE config' \in {[db |-> DB(p), key |-> p]} \cup (IF config = Empty THEN {} ELSE {Garbled})
    /\ Go(p, "saved")
    /\ UNCHANGED <<tables, admins, settled, env, proc, done, lone, late>>

-----------------------------------------------------------------------------
(* doInstall again, failures, crashes and starts.                          *)

SetSessionKey(p) ==
    /\ At(p, "saved")
    /\ proc' = [proc EXCEPT !.key = p]
    /\ Go(p, "keyed")
    /\ UNCHANGED <<diskVars, done, lone, late>>

\* store.Open and setDB; the page says it is done.
SetDB(p) ==
    /\ At(p, "keyed")
    /\ proc' = [proc EXCEPT !.db = DB(p), !.seen = FALSE]
    /\ Go(p, "over")
    /\ done' = done \cup {p}
    /\ UNCHANGED <<diskVars, lone, late>>

\* A refused form, an error, the visitor gone, a file that cannot be written:
\* the transaction is rolled back, what is committed or written stays.
Fail(p) ==
    /\ proc.up /\ req[p].step \in RunSteps \cup {"committed", "saving", "unlinked", "keyed"}
    /\ Go(p, "over")
    /\ UNCHANGED <<diskVars, proc, done, lone, late>>

Crash ==
    /\ proc.up
    /\ proc' = Down
    /\ req' = [p \in Posts |-> IF Active(p) THEN [req[p] EXCEPT !.step = "over"] ELSE req[p]]
    /\ UNCHANGED <<diskVars, done, lone, late>>

\* main: the environment goes before the file.  A file that cannot be parsed,
\* and an installed site without a session key, end the start.
\* Mutant: the key is taken only with the database.
MutBootKeyWithDatabase == IF Saved /\ env = None THEN config.key ELSE None
BootKey == IF Saved THEN config.key ELSE None
BootDB == IF env # None THEN env ELSE IF Saved THEN config.db ELSE None

Boot(reachable) ==
    LET sees == reachable /\ BootDB # None /\ tables[BootDB] >= 2 /\ admins[BootDB] # {} IN
    /\ ~proc.up
    /\ config \notin {Empty, Garbled}
    /\ sees => BootKey # None
    /\ proc' = [up |-> TRUE, db |-> BootDB, key |-> BootKey, seen |-> sees]
    /\ UNCHANGED <<diskVars, req, done, lone, late>>

Request(p) ==
    \/ \E d \in Databases, n \in Names, answers \in BOOLEAN : Post(p, d, n, answers)
    \/ \E answers \in BOOLEAN : Enter(p, answers)
    \/ Probe(p) \/ Unprobe(p)
    \/ EnsureDatabase(p) \/ CheckTables(p) \/ ApplySchema(p)
    \/ CountAdmins(p) \/ InsertAdmin(p) \/ WriteSettings(p) \/ Commit(p)
    \/ OpenConfig(p) \/ WriteConfig(p)
    \/ SetSessionKey(p) \/ SetDB(p)
    \/ Fail(p)

Next ==
    \/ \E p \in Posts : Request(p)
    \/ Crash
    \/ \E reachable \in BOOLEAN : Boot(reachable)

Spec == Init /\ [][Next]_vars

-----------------------------------------------------------------------------
\* A site that counts as installed can be used: whatever fails and whoever
\* else is at it, a database with an administrator has the tables the shop
\* works with, its settings, its channel and its templates.
InstalledIsUsable == \A d \in Databases : admins[d] # {} => tables[d] >= 3 /\ d \in settled

\* Two installs at once may both commit, each seeing no administrator, but
\* once one that was alone has said it is done, no request sent later installs
\* anything, whatever the database answers and however often the process dies.
ClosedOnceDone == \A d \in Databases : admins[d] \cap late = {}

\* An install that was alone survives every restart: the process comes up
\* with its database and its session key, unless another database is exported.
RestartsIntoTheSameShop ==
    \A p \in done \cap lone :
        /\ config = [db |-> DB(p), key |-> p]
        /\ proc.up /\ env \in {None, DB(p)} => proc.db = DB(p) /\ proc.key = p
=============================================================================
