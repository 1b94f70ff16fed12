------------------------------ MODULE SiteCache ------------------------------
(***************************************************************************)
(* The parsed site settings every request reads (SiteOK, InvalidateSite,   *)
(* PutSetting of internal/store/store.go), filled from the settings table  *)
(* while administrators save (settingsSave of internal/admin/system.go)    *)
(* and the tick's expiry sweep acts on what it read (runTick of            *)
(* cmd/dufaka/main.go).                                                    *)
(*                                                                         *)
(* The contents of the table are a version number, one more per save.      *)
(* settings are read in one SELECT, so a load sees one version.            *)
(***************************************************************************)
EXTENDS Integers

CONSTANTS
    Readers,        \* goroutines that call SiteOK, one call after another
    Sweeper,        \* the one of them that is the tick
    Savers,         \* administrators
    MaxVersion,     \* bound on the number of saves
    NoSite,         \* the cache is empty or past siteExpires
    Defaults        \* what a failed read returns

ASSUME SiteAssumption ==
    /\ Sweeper \in Readers
    /\ MaxVersion \in Nat
    /\ NoSite \notin Nat /\ Defaults \notin Nat /\ NoSite # Defaults

VARIABLES
    table,      \* the version committed last
    cache,      \* siteCached while siteExpires is ahead, or NoSite
    gen,        \* siteGen
    reader,     \* a reader's step, its gen and the value it holds
    saver,      \* the version a saver has committed and not yet told of, or 0
    told,       \* history: the latest version a save reported as saved
    begun,      \* history: told when the reader's call began
    swept       \* history: what the last sweep acted on, with begun

vars == <<table, cache, gen, reader, saver, told, begun, swept>>

Versions == 0..MaxVersion

Init ==
    /\ table = 0 /\ cache = NoSite /\ gen = 0
    /\ reader = [r \in Readers |-> [step |-> "idle", gen |-> 0, site |-> NoSite]]
    /\ saver = [s \in Savers |-> 0]
    /\ told = 0
    /\ begun = [r \in Readers |-> 0]
    /\ swept = [site |-> 0, begun |-> 0]

Goes(r, step, g, site) == reader' = [reader EXCEPT ![r] = [step |-> step, gen |-> g, site |-> site]]

-----------------------------------------------------------------------------
\* SiteOK under siteMu: the cached value, or a miss that keeps the generation.
Call(r) ==
    /\ reader[r].step \in {"idle", "returned", "failed"}
    /\ IF cache # NoSite THEN Goes(r, "returned", gen, cache) ELSE Goes(r, "loading", gen, NoSite)
    /\ begun' = [begun EXCEPT ![r] = told]
    /\ UNCHANGED <<table, cache, gen, saver, told, swept>>

\* loadSite, without the mutex.
Load(r) ==
    /\ reader[r].step = "loading"
    /\ \/ Goes(r, "loaded", reader[r].gen, table)
       \/ Goes(r, "failed", reader[r].gen, Defaults)
    /\ UNCHANGED <<table, cache, gen, saver, told, begun, swept>>

\* Mutant: the load is stored whatever happened meanwhile.
MutStorableAlways(r) == TRUE
Storable(r) == gen = reader[r].gen

Store(r) ==
    /\ reader[r].step = "loaded"
    /\ cache' = IF Storable(r) THEN reader[r].site ELSE cache
    /\ Goes(r, "returned", reader[r].gen, reader[r].site)
    /\ UNCHANGED <<table, gen, saver, told, begun, swept>>

\* siteCacheTTL passes.
Expires ==
    /\ cache # NoSite
    /\ cache' = NoSite
    /\ UNCHANGED <<table, gen, reader, saver, told, begun, swept>>

-----------------------------------------------------------------------------
\* settingsSave's commit; the reply to a commit may be lost, and a save that
\* saw an error neither invalidates nor reports success.
Commit(s) ==
    /\ saver[s] = 0 /\ table < MaxVersion
    /\ table' = table + 1
    /\ \/ saver' = [saver EXCEPT ![s] = table']
       \/ UNCHANGED saver
    /\ UNCHANGED <<cache, gen, reader, told, begun, swept>>

\* The settingsSaved hook, then the page that says so: InvalidateSite.
\* Mutant: the generation stays.
MutBumpedNot(g) == g
Bumped(g) == g + 1

InvalidateSite(s) ==
    /\ saver[s] # 0
    /\ gen' = Bumped(gen)
    /\ cache' = NoSite
    /\ told' = IF saver[s] > told THEN saver[s] ELSE told
    /\ saver' = [saver EXCEPT ![s] = 0]
    /\ UNCHANGED <<table, reader, begun, swept>>

\* The tick's sweep with order_expire_time of what it read.
\* Mutant: the answer's ok is ignored.
MutTrustedAlways(r) == reader[r].step \in {"returned", "failed"}
Trusted(r) == reader[r].step = "returned"

Sweep ==
    /\ Trusted(Sweeper)
    /\ swept' = [site |-> reader[Sweeper].site, begun |-> begun[Sweeper]]
    /\ Goes(Sweeper, "idle", 0, NoSite)
    /\ UNCHANGED <<table, cache, gen, saver, told, begun>>

\* The process dies and comes back: calls, cache and generation are gone, and
\* a save that was committed but not told of never will be.
Restart ==
    /\ cache' = NoSite /\ gen' = 0
    /\ reader' = [r \in Readers |-> [step |-> "idle", gen |-> 0, site |-> NoSite]]
    /\ saver' = [s \in Savers |-> 0]
    /\ UNCHANGED <<table, told, begun, swept>>

Next ==
    \/ \E r \in Readers : Call(r) \/ Load(r) \/ Store(r)
    \/ Expires
    \/ \E s \in Savers : Commit(s) \/ InvalidateSite(s)
    \/ Sweep
    \/ Restart

Spec == Init /\ [][Next]_vars

-----------------------------------------------------------------------------
\* An administrator's save is never hidden behind a slower load: a call begun
\* after a save was reported gets that save's settings or later ones.
FreshAfterSave ==
    \A r \in Readers : reader[r].step = "returned" => reader[r].site >= begun[r]

\* No order is expired by a guess: every sweep acts on an order_expire_time
\* the table held, no older than the last save reported before the tick.
SweepsBySavedSettings ==
    swept.site \in Versions /\ swept.site >= swept.begun

\* Nothing else is known of the cache outside: whatever loads, expiries,
\* saves and restarts do at the same time, SiteOK is the service its callers
\* are promised.
AnswerOf(r) ==
    CASE reader[r].step \in {"idle", "failed"} -> Defaults
      [] reader[r].step \in {"loading", "loaded"} -> NoSite
      [] reader[r].step = "returned" -> reader[r].site
Service == INSTANCE SiteService WITH
    call <- [r \in Readers |-> [asked |-> begun[r], answer |-> AnswerOf(r)]],
    Waiting <- NoSite, Failed <- Defaults
ImplementsSiteService == Service!Spec
=============================================================================
