------------------------------ MODULE SiteProofs ------------------------------
(***************************************************************************)
(* Proofs about SiteCache, for any readers, savers and number of saves:    *)
(* FreshAfterSave, SweepsBySavedSettings, and that the cache implements    *)
(* SiteService.  They rest on what the generation stands for: a load that  *)
(* finds its generation unchanged began after the last save reported, and  *)
(* read the table after that.                                              *)
(*                                                                         *)
(* And about Settings, for any keys: SavesAreWhole, and that its saves are *)
(* those SiteCache numbers.                                                *)
(***************************************************************************)
EXTENDS Settings, TLAPS

Steps == {"idle", "loading", "loaded", "returned", "failed"}

TypeInv ==
    /\ table \in Versions /\ gen \in Nat /\ told \in Versions
    /\ cache \in Versions \cup {NoSite}
    /\ reader \in [Readers -> [step : Steps, gen : Nat, site : Versions \cup {NoSite, Defaults}]]
    /\ saver \in [Savers -> Versions]
    /\ begun \in [Readers -> Versions]
    /\ swept \in [site : Versions, begun : Versions]

\* Nothing reported is newer than the table.
Reported == told <= table /\ \A s \in Savers : saver[s] <= table

\* The cache holds no less than what is reported.
CacheIsFresh == cache # NoSite => cache >= told /\ cache <= table

\* A call in progress: what was reported when it began still is while its
\* generation is current; what it loaded is no older than that.
CallsAreFresh ==
    \A r \in Readers :
        /\ begun[r] <= told
        /\ reader[r].gen <= gen
        /\ reader[r].step \in {"loading", "loaded"} /\ reader[r].gen = gen => begun[r] = told
        /\ reader[r].step \in {"loaded", "returned"} =>
              reader[r].site \in Versions /\ reader[r].site >= begun[r] /\ reader[r].site <= table

IInv == TypeInv /\ Reported /\ CacheIsFresh /\ CallsAreFresh /\ SweepsBySavedSettings

\* The invariant holds when the process starts with an empty cache.
LEMMA InitIsFresh == Init => IInv
BY SiteAssumption DEF Init, IInv, TypeInv, Steps, Versions, Reported, CacheIsFresh, CallsAreFresh,
    SweepsBySavedSettings

\* Every step of SiteOK, of a save and of the tick keeps it.
LEMMA StepIsFresh == IInv /\ [Next]_vars => IInv'
<1> SUFFICES ASSUME IInv, [Next]_vars PROVE IInv'
    OBVIOUS
<1> USE SiteAssumption DEF IInv, TypeInv, Steps, Versions, Reported, CacheIsFresh, CallsAreFresh,
    SweepsBySavedSettings
<1>1. ASSUME NEW r \in Readers, Call(r) PROVE IInv'
    BY <1>1 DEF Call, Goes
<1>2. ASSUME NEW r \in Readers, Load(r) PROVE IInv'
    <2>1. CASE Goes(r, "loaded", reader[r].gen, table)
        BY <1>2, <2>1 DEF Load, Goes
    <2>2. CASE Goes(r, "failed", reader[r].gen, Defaults)
        BY <1>2, <2>2 DEF Load, Goes
    <2> QED BY <1>2, <2>1, <2>2 DEF Load
<1>3. ASSUME NEW r \in Readers, Store(r) PROVE IInv'
    BY <1>3 DEF Store, Storable, Goes
<1>4. CASE Expires
    BY <1>4 DEF Expires
<1>5. ASSUME NEW s \in Savers, Commit(s) PROVE IInv'
    BY <1>5 DEF Commit
<1>6. ASSUME NEW s \in Savers, InvalidateSite(s) PROVE IInv'
    BY <1>6 DEF InvalidateSite, Bumped
<1>7. CASE Sweep
    BY <1>7 DEF Sweep, Trusted, Goes
<1>8. CASE Restart
    BY <1>8 DEF Restart
<1>9. CASE UNCHANGED vars
    BY <1>9 DEF vars
<1> QED BY <1>1, <1>2, <1>3, <1>4, <1>5, <1>6, <1>7, <1>8, <1>9 DEF Next

\* SiteOK with InvalidateSite: whatever saves, loads and expiries do at the
\* same time, a call begun after a save was reported returns that save's
\* settings or later ones.
THEOREM AlwaysFreshAfterSave == Spec => []FreshAfterSave
<1>1. IInv => FreshAfterSave
    BY DEF IInv, CallsAreFresh, FreshAfterSave
<1> QED BY <1>1, InitIsFresh, StepIsFresh, PTL DEF Spec

\* runTick's expiry sweep: it never runs on the built-in defaults of a failed
\* read, nor on an order_expire_time older than the last save reported before
\* the tick asked.
THEOREM SweepsAlwaysBySavedSettings == Spec => []SweepsBySavedSettings
<1>1. IInv => SweepsBySavedSettings
    BY DEF IInv
<1> QED BY <1>1, InitIsFresh, StepIsFresh, PTL DEF Spec

-----------------------------------------------------------------------------
(* The cache implements the service.                                       *)

Asked(r) == [asked |-> begun[r], answer |-> AnswerOf(r)]
Calls == [r \in Readers |-> Asked(r)]

\* A step of one reader changes its own call only.
LEMMA OneCall ==
    ASSUME NEW r \in Readers, NEW a,
           \A q \in Readers \ {r} : begun'[q] = begun[q] /\ reader'[q] = reader[q],
           Asked(r)' = a
    PROVE  Calls' = [Calls EXCEPT ![r] = a]
<1>1. \A q \in Readers : Asked(q)' = IF q = r THEN a ELSE Asked(q)
    BY DEF Asked, AnswerOf
<1> QED BY <1>1 DEF Calls

\* Every step of SiteOK, a save, the tick or a restart is one of the service,
\* or nothing to its callers.
LEMMA StepServes == IInv /\ [Next]_vars => [Service!Next]_Service!vars
<1> SUFFICES ASSUME IInv, [Next]_vars PROVE Service!Next \/ UNCHANGED <<table, told, Calls, swept>>
    BY DEF Service!vars, Calls, Asked
<1> USE SiteAssumption
<1>t. /\ \A r \in Readers : begun[r] \in Versions /\ begun[r] <= told
      /\ table \in Versions /\ told \in Versions /\ told <= table
    BY DEF IInv, TypeInv, CallsAreFresh, Reported
<1>v. Versions \subseteq Nat
    BY DEF Versions
<1>d. DOMAIN reader = Readers /\ DOMAIN begun = Readers
    BY DEF IInv, TypeInv
<1>g. ASSUME NEW r \in Readers, NEW step, NEW g, NEW site, Goes(r, step, g, site)
      PROVE  /\ reader'[r].step = step /\ reader'[r].site = site
             /\ \A q \in Readers \ {r} : reader'[q] = reader[q]
    BY <1>d, <1>g DEF Goes
<1>1. ASSUME NEW r \in Readers, Call(r) PROVE Service!Next
    <2>1. begun'[r] = told /\ \A q \in Readers \ {r} : begun'[q] = begun[q]
        BY <1>1, <1>d DEF Call
    <2>2. CASE cache # NoSite
        <3>1. Goes(r, "returned", gen, cache) /\ cache \in told..table
            BY <1>1, <1>t, <1>v, <2>2 DEF Call, IInv, TypeInv, CacheIsFresh
        <3>2. Asked(r)' = [asked |-> told, answer |-> cache]
            BY <1>g, <2>1, <3>1 DEF Asked, AnswerOf
        <3>3. Calls' = [Calls EXCEPT ![r] = [asked |-> told, answer |-> cache]]
            BY <1>g, <2>1, <3>1, <3>2, OneCall
        <3>4. UNCHANGED <<table, told, swept>>
            BY <1>1 DEF Call
        <3> QED BY <3>1, <3>3, <3>4 DEF Service!Next, Service!Ask, Service!Answers, Calls, Asked
    <2>3. CASE cache = NoSite
        <3>1. Goes(r, "loading", gen, NoSite)
            BY <1>1, <2>3 DEF Call
        <3>2. Asked(r)' = [asked |-> told, answer |-> NoSite]
            BY <1>g, <2>1, <3>1 DEF Asked, AnswerOf
        <3>3. Calls' = [Calls EXCEPT ![r] = [asked |-> told, answer |-> NoSite]]
            BY <1>g, <2>1, <3>1, <3>2, OneCall
        <3>4. UNCHANGED <<table, told, swept>>
            BY <1>1 DEF Call
        <3> QED BY <3>3, <3>4 DEF Service!Next, Service!Ask, Calls, Asked
    <2> QED BY <2>2, <2>3
<1>2. ASSUME NEW r \in Readers, Load(r) PROVE Service!Next \/ UNCHANGED <<table, told, Calls, swept>>
    <2>1. /\ UNCHANGED <<table, told, swept, begun>>
          /\ Asked(r) = [asked |-> begun[r], answer |-> NoSite]
        BY <1>2 DEF Load, Asked, AnswerOf
    <2>2. CASE Goes(r, "loaded", reader[r].gen, table)
        <3>1. Asked(r)' = [asked |-> begun[r], answer |-> NoSite]
            BY <1>g, <2>1, <2>2 DEF Asked, AnswerOf
        <3>2. Calls' = [Calls EXCEPT ![r] = Asked(r)]
            BY <1>g, <2>1, <2>2, <3>1, OneCall
        <3> QED BY <2>1, <3>2 DEF Calls
    <2>3. CASE Goes(r, "failed", reader[r].gen, Defaults)
        <3>1. Asked(r)' = [asked |-> begun[r], answer |-> Defaults]
            BY <1>g, <2>1, <2>3 DEF Asked, AnswerOf
        <3>2. Calls' = [Calls EXCEPT ![r] = [asked |-> begun[r], answer |-> Defaults]]
            BY <1>g, <2>1, <2>3, <3>1, OneCall
        <3>3. Calls[r] = [asked |-> begun[r], answer |-> NoSite]
            BY <2>1 DEF Calls
        <3> QED BY <2>1, <3>2, <3>3 DEF Service!Next, Service!Answer, Service!Answers, Calls, Asked
    <2> QED BY <1>2, <2>2, <2>3 DEF Load
<1>3. ASSUME NEW r \in Readers, Store(r) PROVE Service!Next
    <2>1. /\ Goes(r, "returned", reader[r].gen, reader[r].site)
          /\ UNCHANGED <<table, told, swept, begun>>
          /\ Asked(r) = [asked |-> begun[r], answer |-> NoSite]
        BY <1>3 DEF Store, Asked, AnswerOf
    <2>2. reader[r].site \in begun[r]..table
        BY <1>3, <1>t, <1>v DEF Store, IInv, CallsAreFresh
    <2>3. Asked(r)' = [asked |-> begun[r], answer |-> reader[r].site]
        BY <1>g, <2>1 DEF Asked, AnswerOf
    <2>4. Calls' = [Calls EXCEPT ![r] = [asked |-> begun[r], answer |-> reader[r].site]]
        BY <1>g, <2>1, <2>3, OneCall
    <2>5. Calls[r] = [asked |-> begun[r], answer |-> NoSite]
        BY <2>1 DEF Calls
    <2> QED BY <2>1, <2>2, <2>4, <2>5 DEF Service!Next, Service!Answer, Service!Answers, Calls, Asked
<1>4. ASSUME UNCHANGED <<table, told, swept, begun, reader>> PROVE UNCHANGED <<table, told, Calls, swept>>
    BY <1>4 DEF Calls, Asked, AnswerOf
<1>5. ASSUME NEW s \in Savers, Commit(s) PROVE Service!Next
    <2>1. table' = table + 1 /\ UNCHANGED <<told, swept, begun, reader>>
        BY <1>5 DEF Commit
    <2> QED BY <2>1 DEF Service!Next, Service!Save, AnswerOf
<1>6. ASSUME NEW s \in Savers, InvalidateSite(s) PROVE Service!Next
    <2>1. saver[s] \in Versions /\ saver[s] <= table
        BY DEF IInv, TypeInv, Reported
    <2>2. (told' = told \/ (told' = saver[s] /\ saver[s] > told)) /\ UNCHANGED <<table, swept, begun, reader>>
        BY <1>6 DEF InvalidateSite
    <2>3. told \in Nat /\ table \in Nat /\ saver[s] \in Nat /\ told <= table
        BY <1>t, <1>v, <2>1
    <2>4. told' \in told..table
        BY <2>1, <2>2, <2>3
    <2> QED BY <2>2, <2>4 DEF Service!Next, Service!Tell, AnswerOf
<1>7. CASE Sweep
    <2>1. /\ reader[Sweeper].step = "returned" /\ reader[Sweeper].site \in Versions /\ Sweeper \in Readers
          /\ Goes(Sweeper, "idle", 0, NoSite) /\ UNCHANGED <<table, told, begun>>
          /\ swept' = [site |-> reader[Sweeper].site, begun |-> begun[Sweeper]]
        BY <1>7 DEF Sweep, Trusted, IInv, CallsAreFresh
    <2>2. Calls[Sweeper] = [asked |-> begun[Sweeper], answer |-> reader[Sweeper].site]
        BY <2>1 DEF Calls, Asked, AnswerOf
    <2>3. Asked(Sweeper)' = [asked |-> begun[Sweeper], answer |-> Defaults]
        BY <1>g, <2>1 DEF Asked, AnswerOf
    <2>4. Calls' = [Calls EXCEPT ![Sweeper] = [asked |-> begun[Sweeper], answer |-> Defaults]]
        BY <1>g, <2>1, <2>3, OneCall
    <2>5. Calls' = [Calls EXCEPT ![Sweeper].answer = Defaults]
        <3>1. [Calls[Sweeper] EXCEPT !.answer = Defaults] = [asked |-> begun[Sweeper], answer |-> Defaults]
            BY <2>2
        <3> QED BY <2>4, <3>1
    <2>6. reader[Sweeper].site \notin {NoSite, Defaults}
        BY <1>v, <2>1
    <2>7. Service!Sweep
        BY <2>1, <2>2, <2>5, <2>6 DEF Service!Sweep, Calls, Asked
    <2> QED BY <2>7 DEF Service!Next
<1>8. CASE Restart
    <2>1. /\ UNCHANGED <<table, told, begun, swept>>
          /\ \A r \in Readers : reader'[r].step = "idle"
        BY <1>8 DEF Restart
    <2>2. \A r \in Readers : Asked(r)' = [Asked(r) EXCEPT !.answer = Defaults]
        BY <2>1 DEF Asked, AnswerOf
    <2>3. Calls' = [r \in Readers |-> [Calls[r] EXCEPT !.answer = Defaults]]
        BY <2>2 DEF Calls
    <2>4. Service!Restart
        BY <2>1, <2>3 DEF Service!Restart, Calls, Asked
    <2> QED BY <2>4 DEF Service!Next
<1> QED BY <1>1, <1>2, <1>3, <1>4, <1>5, <1>6, <1>7, <1>8 DEF Next, Expires, vars

\* SiteOK with its cache, its generation, saves and restarts is the service
\* its callers are promised.
THEOREM CacheImplementsService == Spec => ImplementsSiteService
<1>1. Init => Service!Init
    BY DEF Init, Service!Init, AnswerOf
<1>2. Spec => [][Service!Next]_Service!vars
    BY InitIsFresh, StepIsFresh, StepServes, PTL DEF Spec
<1> QED BY <1>1, <1>2, PTL DEF Spec, Service!Spec, ImplementsSiteService

-----------------------------------------------------------------------------
(* Settings.                                                               *)

\* Every step of the saves' transactions is one of SiteCache or nothing to it.
LEMMA SettingsStepIsSite == [SettingsNext]_<<vars, settingsVars>> => [Next]_vars
<1>1. ASSUME NEW s \in Savers, CommitSettings(s) PROVE Next
    BY <1>1 DEF CommitSettings, Next
<1>2. ASSUME NEW s \in Savers,
             \/ \E blank \in BOOLEAN : Submit(s, blank)
             \/ \E k \in Keys : Reach(s, k)
             \/ Upsert(s) \/ Victim(s) \/ RollBack(s)
      PROVE  UNCHANGED vars
    BY <1>2 DEF Submit, Reach, Upsert, Victim, RollBack
<1>3. Elsewhere \/ SettingsRestart => Next
    BY DEF Elsewhere, SettingsRestart, Next
<1> QED BY <1>1, <1>2, <1>3 DEF SettingsNext, Saves

\* settingsSave's transactions are the saves that SiteCache numbers: what is
\* proved of the cache holds with them.
THEOREM SettingsImplementSiteCache == SettingsSpec => Spec
<1>1. SettingsInit => Init
    BY DEF SettingsInit
<1> QED BY <1>1, SettingsStepIsSite, PTL DEF SettingsSpec, Spec

Values == Savers \cup {Installed}
SaveRecords ==
    [step : {"idle", "open"}, vals : [Keys -> Values], blank : BOOLEAN, wrote : SUBSET Keys,
     next : Keys \cup {NoKey}, overtaken : BOOLEAN]

RowsTypeOK ==
    /\ rows \in [Keys -> Values]
    /\ save \in [Savers -> SaveRecords]
    /\ typed \in [all : Values, password : Values]
    /\ raced \in BOOLEAN

\* What a save in progress will write.
Posting(s) ==
    save[s].step = "open" =>
        /\ \A k \in Keys \ {Password} : save[s].vals[k] = s
        /\ save[s].vals[Password] = s \/ save[s].blank
        /\ save[s].blank /\ ~save[s].overtaken => save[s].vals[Password] = rows[Password]

SavesInv == RowsTypeOK /\ SavesAreWhole /\ \A s \in Savers : Posting(s)

\* A table as the installation wrote it.
LEMMA SavesInit == SettingsInit => SavesInv
<1> SUFFICES ASSUME SettingsInit PROVE SavesInv
    OBVIOUS
<1>1. NoSave \in SaveRecords /\ NoSave.step = "idle"
    BY SettingsAssumption DEF NoSave, SaveRecords, Values
<1>2. RowsTypeOK
    BY <1>1 DEF SettingsInit, RowsTypeOK, Values
<1>3. SavesAreWhole
    BY SettingsAssumption DEF SettingsInit, SavesAreWhole
<1>4. \A s \in Savers : Posting(s)
    BY <1>1 DEF SettingsInit, Posting
<1> QED BY <1>2, <1>3, <1>4 DEF SavesInv

\* Every step of a save keeps it.
LEMMA SavesStep == SavesInv /\ [SettingsNext]_<<vars, settingsVars>> => SavesInv'
<1> SUFFICES ASSUME SavesInv, [SettingsNext]_<<vars, settingsVars>> PROVE SavesInv'
    OBVIOUS
<1> USE SettingsAssumption DEF SavesInv, RowsTypeOK
<1>n. NoSave \in SaveRecords /\ NoSave.step = "idle"
    BY DEF NoSave, SaveRecords, Values
<1>1. ASSUME NEW s \in Savers, NEW v \in SaveRecords, save' = [save EXCEPT ![s] = v],
             UNCHANGED <<rows, typed, raced>>,
             v.step = "open" => /\ \A k \in Keys \ {Password} : v.vals[k] = s
                                /\ v.vals[Password] = s \/ v.blank
                                /\ v.blank /\ ~v.overtaken => v.vals[Password] = rows[Password]
      PROVE  SavesInv'
    <2>1. \A t \in Savers : save'[t] = IF t = s THEN v ELSE save[t]
        BY <1>1
    <2>2. RowsTypeOK'
        BY <1>1
    <2>3. \A t \in Savers : Posting(t)'
        BY <1>1, <2>1 DEF Posting
    <2> QED BY <1>1, <2>2, <2>3 DEF SavesAreWhole
<1>2. ASSUME NEW s \in Savers, NEW blank \in BOOLEAN, Submit(s, blank) PROVE SavesInv'
    <2> DEFINE vals == Posted(s, blank, rows)
               v == [step |-> "open", vals |-> vals, blank |-> blank, wrote |-> {}, next |-> NoKey, overtaken |-> FALSE]
    <2>1. vals \in [Keys -> Values]
        BY DEF Posted, Values
    <2>4. /\ \A k \in Keys \ {Password} : vals[k] = s
          /\ vals[Password] = IF blank THEN rows[Password] ELSE s
        BY DEF Posted
    <2> HIDE DEF vals
    <2>2. v.step = "open" /\ v.vals = vals /\ v.blank = blank /\ ~v.overtaken
        OBVIOUS
    <2>3. v \in SaveRecords
        BY <2>1 DEF SaveRecords
    <2>5. save' = [save EXCEPT ![s] = v] /\ UNCHANGED <<rows, typed, raced>>
        BY <1>2 DEF Submit, vals
    <2> HIDE DEF v
    <2>6. /\ \A k \in Keys \ {Password} : v.vals[k] = s
          /\ v.vals[Password] = s \/ v.blank
          /\ v.blank /\ ~v.overtaken => v.vals[Password] = rows[Password]
        BY <2>2, <2>4
    <2> QED BY <1>1, <2>3, <2>5, <2>6
<1>3. ASSUME NEW s \in Savers, (\E k \in Keys : Reach(s, k)) \/ Upsert(s)
      PROVE  SavesInv'
    <2>1. PICK w \in SUBSET Keys, n \in Keys \cup {NoKey} :
             /\ save' = [save EXCEPT ![s].wrote = w, ![s].next = n]
             /\ UNCHANGED <<rows, typed, raced>>
        <3>1. CASE \E k \in Keys : Reach(s, k)
            <4>1. PICK k \in Keys : Reach(s, k)
                BY <3>1
            <4>2. save[s].wrote \in SUBSET Keys /\ save' = [save EXCEPT ![s].wrote = save[s].wrote, ![s].next = k]
                BY <4>1 DEF Reach, SaveRecords
            <4> QED BY <4>1, <4>2 DEF Reach
        <3>2. CASE Upsert(s)
            <4>1. save[s].wrote \cup {save[s].next} \in SUBSET Keys
                BY <3>2 DEF Upsert, SaveRecords
            <4> QED BY <3>2, <4>1 DEF Upsert
        <3> QED BY <1>3, <3>1, <3>2
    <2>2. save[s] \in SaveRecords /\ Posting(s)
        OBVIOUS
    <2>3. PICK v : v = [save[s] EXCEPT !.wrote = w, !.next = n]
        OBVIOUS
    <2>4. v \in SaveRecords /\ v.step = save[s].step /\ v.vals = save[s].vals /\ v.blank = save[s].blank
          /\ v.overtaken = save[s].overtaken
        BY <2>2, <2>3 DEF SaveRecords
    <2>5. save' = [save EXCEPT ![s] = v]
        BY <2>1, <2>3
    <2>6. v.step = "open" => /\ \A k \in Keys \ {Password} : v.vals[k] = s
                             /\ v.vals[Password] = s \/ v.blank
                             /\ v.blank /\ ~v.overtaken => v.vals[Password] = rows[Password]
        BY <2>2, <2>4 DEF Posting
    <2> QED BY <1>1, <2>1, <2>4, <2>5, <2>6
<1>4. ASSUME NEW s \in Savers, Victim(s) \/ RollBack(s) PROVE SavesInv'
    <2>1. save' = [save EXCEPT ![s] = NoSave] /\ UNCHANGED <<rows, typed, raced>>
        BY <1>4 DEF Victim, RollBack
    <2> QED BY <1>1, <1>n, <2>1
<1>5. ASSUME NEW s \in Savers, CommitSettings(s) PROVE SavesInv'
    <2>1. /\ save[s].step = "open" /\ save[s].wrote = Keys
          /\ typed' = [all |-> s, password |-> IF save[s].blank THEN typed.password ELSE s]
          /\ raced' = (save[s].blank /\ (raced \/ save[s].overtaken))
        BY <1>5 DEF CommitSettings
    <2>2. save[s] \in SaveRecords /\ Posting(s)
        OBVIOUS
    <2>3. rows' = save[s].vals /\ rows' \in [Keys -> Values]
        BY <1>5, <2>1, <2>2 DEF CommitSettings, SaveRecords
    <2>4. \A t \in Savers : save'[t] = IF t = s THEN NoSave
                                      ELSE IF save[t].step = "open" THEN [save[t] EXCEPT !.overtaken = TRUE]
                                      ELSE save[t]
        BY <1>5 DEF CommitSettings
    <2>5. \A t \in Savers : [save[t] EXCEPT !.overtaken = TRUE] \in SaveRecords
        BY DEF SaveRecords
    <2>6. save' \in [Savers -> SaveRecords]
        BY <1>5, <1>n, <2>5 DEF CommitSettings
    <2>7. typed' \in [all : Values, password : Values] /\ raced' \in BOOLEAN
        BY <2>1, <2>2 DEF Values, SaveRecords
    <2>8. SavesAreWhole'
        <3>1. \A k \in Keys \ {Password} : rows'[k] = typed'.all
            BY <2>1, <2>2, <2>3 DEF Posting
        <3>2. raced' \/ rows'[Password] = typed'.password
            BY <2>1, <2>2, <2>3 DEF Posting, SavesAreWhole
        <3> QED BY <3>1, <3>2 DEF SavesAreWhole
    <2>9. ASSUME NEW t \in Savers PROVE Posting(t)'
        <3>1. CASE t = s \/ save[t].step # "open"
            BY <1>n, <2>4, <3>1 DEF Posting
        <3>2. CASE t # s /\ save[t].step = "open"
            <4>1. save'[t] = [save[t] EXCEPT !.overtaken = TRUE] /\ save[t] \in SaveRecords /\ Posting(t)
                BY <2>4, <3>2
            <4>2. save'[t].vals = save[t].vals /\ save'[t].blank = save[t].blank /\ save'[t].overtaken
                BY <4>1 DEF SaveRecords
            <4> QED BY <3>2, <4>1, <4>2 DEF Posting
        <3> QED BY <3>1, <3>2
    <2> QED BY <2>3, <2>6, <2>7, <2>8, <2>9
<1>6. CASE SettingsRestart
    <2>1. save' = [s \in Savers |-> NoSave] /\ UNCHANGED <<rows, typed, raced>>
        BY <1>6 DEF SettingsRestart
    <2> QED BY <1>n, <2>1 DEF SavesAreWhole, Posting
<1>7. CASE UNCHANGED settingsVars
    BY <1>7 DEF settingsVars, SavesAreWhole, Posting
<1> QED BY <1>2, <1>3, <1>4, <1>5, <1>6, <1>7 DEF SettingsNext, Saves, Elsewhere

\* settingsSave: the table is always what one save posted, with the password
\* typed last unless a save that left it blank raced another one, for any
\* number of administrators and keys.
THEOREM SavesAreAlwaysWhole == SettingsSpec => []SavesAreWhole
<1>1. SavesInv => SavesAreWhole
    BY DEF SavesInv
<1> QED BY <1>1, SavesInit, SavesStep, PTL DEF SettingsSpec
=============================================================================
