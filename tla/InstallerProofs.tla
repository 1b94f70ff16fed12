--------------------------- MODULE InstallerProofs ---------------------------
(***************************************************************************)
(* Proofs about Installer, for any requests, names and databases:          *)
(* InstalledIsUsable, ClosedOnceDone and RestartsIntoTheSameShop.          *)
(*                                                                         *)
(* The last two are inductive only with what is known of a lone request on *)
(* its way: nobody else has the config file open, so what it wrote is      *)
(* there when it sets the session key; and once it is done the saved file  *)
(* keeps the guard shut for whoever finds the site not installed, so that  *)
(* nobody gets past doInstall's question again.                            *)
(***************************************************************************)
EXTENDS Installer, TLAPS

\* A request that was sent names a database.
Formed == \A p \in Posts : req[p].step # "unsent" => DB(p) \in Databases

\* A process that is down has no requests.
Quiet == ~proc.up => \A p \in Posts : ~Active(p)

\* A transaction that wrote its settings found the table.
WrittenHasTables == \A p \in Posts : req[p].step = "written" => tables[DB(p)] >= 3

Own(p) == [db |-> DB(p), key |-> p]

\* A request nobody else was at it with: what it has written so far is there.
Unharmed(p) ==
    /\ req[p].step \notin {"unsent", "unlinked"}
    /\ req[p].step = "saving" => config = Empty
    /\ req[p].step \in {"saved", "keyed"} => config = Own(p)
    /\ req[p].step = "keyed" => proc.key = p

Alone(p) == Active(p) => \A q \in Posts \ {p} : ~Active(q)

LoneRun == \A p \in lone : Unharmed(p) /\ Alone(p)

\* doInstall will send away whatever the guard let through.
Refusing == proc.seen /\ proc.db # None

\* Once such a request is done nobody gets past doInstall's question any more,
\* and the process works with what it left.
DoneRun ==
    /\ \A p \in done : req[p].step = "over"
    /\ \A p \in done \cap lone :
          /\ \A q \in Posts : Active(q) => req[q].step = "guarded" /\ Refusing
          /\ config = Own(p)
          /\ proc.up /\ env \in {None, DB(p)} => proc.db = DB(p) /\ proc.key = p

\* A late request is refused by the guard or by doInstall.
LateRun ==
    /\ \A p \in late : req[p].step \in {"guarded", "over"}
    /\ late # {} => done \cap lone # {}
    /\ \A d \in Databases : \A p \in admins[d] : req[p].step # "unsent" /\ p \notin late

IInv == TypeOK /\ Formed /\ Quiet /\ WrittenHasTables /\ InstalledIsUsable /\ LoneRun /\ DoneRun /\ LateRun

-----------------------------------------------------------------------------
(* Types and forms.                                                        *)

\* What Go does to the requests.
LEMMA Going ==
    ASSUME TypeOK, NEW p \in Posts, NEW s \in Steps, Go(p, s)
    PROVE  /\ req' \in [Posts -> Requests]
           /\ req'[p].step = s /\ req'[p].db = req[p].db
           /\ \A q \in Posts \ {p} : req'[q] = req[q]
BY DEF TypeOK, Requests, Go

\* What Unprobe does to them: at most a "saving" becomes "unlinked".
LEMMA Unprobing ==
    ASSUME TypeOK, NEW p \in Posts, Unprobe(p)
    PROVE  /\ req' \in [Posts -> Requests]
           /\ req'[p].step = "valid" /\ req'[p].db = req[p].db
           /\ \A q \in Posts \ {p} : req'[q].db = req[q].db
           /\ \A q \in Posts \ {p} :
                 req'[q].step = req[q].step \/ (req[q].step = "saving" /\ req'[q].step = "unlinked")
<1>1. "valid" \in Steps /\ "unlinked" \in Steps
    BY DEF Steps, RunSteps
<1>2. \A q \in Posts : req'[q] = IF q = p THEN [req[p] EXCEPT !.step = "valid", !.blank = FALSE]
                 ELSE IF req[p].blank /\ req[q].step = "saving" THEN [req[q] EXCEPT !.step = "unlinked"]
                 ELSE req[q]
    BY DEF Unprobe
<1>3. DOMAIN req' = Posts /\ req' = [q \in Posts |-> req'[q]]
    BY DEF Unprobe
<1>4. \A q \in Posts : req[q] \in Requests
    BY DEF TypeOK
<1>5. ASSUME NEW q \in Posts
      PROVE  req'[q] \in Requests
    <2>1. /\ [req[q] EXCEPT !.step = "valid", !.blank = FALSE] \in Requests
          /\ [req[q] EXCEPT !.step = "unlinked"] \in Requests
        BY <1>1, <1>4 DEF Requests
    <2> QED BY <2>1, <1>2, <1>4
<1>6. req'[p].step = "valid" /\ req'[p].db = req[p].db
    BY <1>2, <1>4 DEF Requests
<1>7. ASSUME NEW q \in Posts \ {p}
      PROVE  /\ req'[q].db = req[q].db
             /\ req'[q].step = req[q].step \/ (req[q].step = "saving" /\ req'[q].step = "unlinked")
    BY <1>2, <1>4 DEF Requests
<1> QED BY <1>3, <1>5, <1>6, <1>7

\* Every initial state is well typed.
LEMMA TypeInit == Init => TypeOK /\ Formed
BY DEF Init, TypeOK, Formed, NoForm, Steps, Requests, Processes

\* Every step of a request, a crash and a start keeps the types, and a form
\* that was sent.
LEMMA TypeStep == TypeOK /\ Formed /\ [Next]_vars => TypeOK' /\ Formed'
<1> SUFFICES ASSUME TypeOK, Formed, [Next]_vars PROVE TypeOK' /\ Formed'
    OBVIOUS
<1>s. /\ {"unsent", "guarded", "probing", "probed", "committed", "saving", "saved", "keyed", "over"} \subseteq Steps
      /\ {"valid", "opened", "making", "counting", "counted", "inserted", "written"} \subseteq Steps
    BY DEF Steps, RunSteps, InTx
<1>g. ASSUME NEW p \in Posts, NEW s \in Steps, Go(p, s), req[p].step # "unsent"
      PROVE  req' \in [Posts -> Requests] /\ Formed'
    BY <1>g, Going DEF Formed, DB
<1>p. ASSUME NEW yes \in BOOLEAN, Remember(yes)
      PROVE  proc' \in Processes
    BY <1>p DEF TypeOK, Remember, Processes
<1>i. ASSUME NEW answers \in BOOLEAN
      PROVE  Installed(answers) \in BOOLEAN
    BY DEF Installed, TypeOK, Processes
<1>1. ASSUME NEW p \in Posts, NEW d \in Databases, NEW n \in Names, NEW answers \in BOOLEAN,
             Post(p, d, n, answers)
      PROVE  TypeOK' /\ Formed'
    <2>1. PICK s \in {"guarded", "over"} :
             req' = [req EXCEPT ![p] = [step |-> s, db |-> d, name |-> n, blank |-> FALSE]]
        BY <1>1 DEF Post
    <2>2. req' \in [Posts -> Requests]
        BY <2>1, <1>s DEF TypeOK, Requests
    <2>3. Formed'
        BY <2>1 DEF TypeOK, Formed, DB
    <2>4. proc' \in Processes
        BY <1>1, <1>p, <1>i DEF Post
    <2>5. lone' \in SUBSET Posts /\ late' \in SUBSET Posts
        BY <1>1 DEF Post, TypeOK
    <2> QED BY <1>1, <2>2, <2>3, <2>4, <2>5 DEF Post, TypeOK, diskVars
<1>2. ASSUME NEW p \in Posts, NEW answers \in BOOLEAN, Enter(p, answers)
      PROVE  TypeOK' /\ Formed'
    <2>1. proc' \in Processes
        BY <1>2, <1>p, <1>i DEF Enter
    <2> QED BY <1>2, <1>s, <1>g, <2>1 DEF Enter, At, TypeOK, diskVars
<1>3. ASSUME NEW p \in Posts, Probe(p)
      PROVE  TypeOK' /\ Formed'
    <2>1. config' \in ConfigFiles \cup {Absent, Empty, Garbled}
        BY <1>3 DEF Probe, TypeOK
    <2>2. req[p] \in Requests /\ req[p].step # "unsent" /\ "probed" \in Steps
        BY <1>3, <1>s DEF Probe, At, TypeOK
    <2>3. PICK b \in BOOLEAN : req' = [req EXCEPT ![p].step = "probed", ![p].blank = b]
        BY <1>3 DEF Probe
    <2>4. req' \in [Posts -> Requests] /\ Formed'
        BY <2>2, <2>3 DEF TypeOK, Requests, Formed, DB
    <2> QED BY <1>3, <2>1, <2>4 DEF Probe, TypeOK
<1>4. ASSUME NEW p \in Posts, Unprobe(p)
      PROVE  TypeOK' /\ Formed'
    <2>1. req' \in [Posts -> Requests] /\ Formed'
        BY <1>4, Unprobing DEF Unprobe, At, Formed, DB
    <2>2. config' \in ConfigFiles \cup {Absent, Empty, Garbled}
        BY <1>4 DEF Unprobe, TypeOK
    <2>3. UNCHANGED <<tables, admins, settled, env, proc, done, lone, late>>
        BY <1>4 DEF Unprobe
    <2> QED BY <2>1, <2>2, <2>3 DEF TypeOK
<1>5. ASSUME NEW p \in Posts, EnsureDatabase(p)
      PROVE  TypeOK' /\ Formed'
    <2>1. DB(p) \in Databases
        BY <1>5 DEF EnsureDatabase, At, Formed
    <2>2. (IF tables[DB(p)] = 0 THEN 1 ELSE tables[DB(p)]) \in 0..4
        BY <2>1 DEF TypeOK
    <2>3. PICK n \in 0..4 : tables' = [tables EXCEPT ![DB(p)] = n]
        BY <1>5, <2>2 DEF EnsureDatabase
    <2>4. tables' \in [Databases -> 0..4]
        BY <2>3 DEF TypeOK
    <2> QED BY <1>5, <1>s, <1>g, <2>4 DEF EnsureDatabase, At, TypeOK
<1>6. ASSUME NEW p \in Posts, CheckTables(p) \/ CountAdmins(p) \/ InsertAdmin(p) \/ WriteSettings(p)
      PROVE  TypeOK' /\ Formed'
    <2>1. \E s \in Steps : Go(p, s)
        BY <1>6, <1>s DEF CheckTables, CountAdmins, InsertAdmin, WriteSettings
    <2>2. UNCHANGED <<tables, admins, settled, config, env, proc, done, lone, late>> /\ req[p].step # "unsent"
        BY <1>6 DEF CheckTables, CountAdmins, InsertAdmin, WriteSettings, At, diskVars
    <2> QED BY <1>g, <2>1, <2>2 DEF TypeOK
<1>7. ASSUME NEW p \in Posts, ApplySchema(p)
      PROVE  TypeOK' /\ Formed'
    <2>1. tables' \in [Databases -> 0..4]
        BY <1>7 DEF ApplySchema, TypeOK
    <2>2. req' \in [Posts -> Requests] /\ Formed'
        BY <1>7, <1>s, <1>g DEF ApplySchema, At, TypeOK, Formed, DB
    <2> QED BY <1>7, <2>1, <2>2 DEF ApplySchema, TypeOK
<1>8. ASSUME NEW p \in Posts, Commit(p)
      PROVE  TypeOK' /\ Formed'
    <2>1. DB(p) \in Databases
        BY <1>8 DEF Commit, At, Formed
    <2>2. admins' \in [Databases -> SUBSET Posts] /\ settled' \in SUBSET Databases
        BY <1>8, <2>1 DEF Commit, TypeOK
    <2> QED BY <1>8, <1>s, <1>g, <2>2 DEF Commit, At, TypeOK
<1>9. ASSUME NEW p \in Posts, OpenConfig(p)
      PROVE  TypeOK' /\ Formed'
    BY <1>9, <1>s, <1>g DEF OpenConfig, At, TypeOK
<1>10. ASSUME NEW p \in Posts, WriteConfig(p)
      PROVE  TypeOK' /\ Formed'
    <2>1. req[p].step # "unsent" /\ DB(p) \in Databases
        BY <1>10 DEF WriteConfig, At, Formed
    <2>2. [db |-> DB(p), key |-> p] \in ConfigFiles
        BY <2>1 DEF ConfigFiles
    <2>3. config' \in ConfigFiles \cup {Absent, Empty, Garbled}
        BY <1>10, <2>2 DEF WriteConfig, TypeOK
    <2> QED BY <1>10, <1>s, <1>g, <2>1, <2>3 DEF WriteConfig, TypeOK
<1>11. ASSUME NEW p \in Posts, SetSessionKey(p)
      PROVE  TypeOK' /\ Formed'
    <2>1. proc' \in Processes
        BY <1>11 DEF SetSessionKey, TypeOK, Processes
    <2> QED BY <1>11, <1>s, <1>g, <2>1 DEF SetSessionKey, At, TypeOK, diskVars
<1>12. ASSUME NEW p \in Posts, SetDB(p)
      PROVE  TypeOK' /\ Formed'
    <2>1. DB(p) \in Databases
        BY <1>12 DEF SetDB, At, Formed
    <2>2. proc' \in Processes /\ done' \in SUBSET Posts
        BY <1>12, <2>1 DEF SetDB, TypeOK, Processes
    <2> QED BY <1>12, <1>s, <1>g, <2>2 DEF SetDB, At, TypeOK, diskVars
<1>13. ASSUME NEW p \in Posts, Fail(p)
      PROVE  TypeOK' /\ Formed'
    <2>1. req[p].step # "unsent"
        BY <1>13 DEF Fail, RunSteps, InTx
    <2> QED BY <1>13, <1>s, <1>g, <2>1 DEF Fail, TypeOK, diskVars
<1>14. CASE Crash
    <2>1. Down \in Processes
        BY DEF Down, Processes
    <2>2. \A q \in Posts : req[q] \in Requests
        BY DEF TypeOK
    <2>3. \A q \in Posts : [req[q] EXCEPT !.step = "over"] \in Requests
        BY <2>2, <1>s DEF Requests
    <2>4. req' \in [Posts -> Requests]
        BY <1>14, <2>2, <2>3 DEF Crash
    <2>5. \A q \in Posts : req'[q].db = req[q].db /\ (req'[q].step # "unsent" => req[q].step # "unsent")
        BY <1>14, <2>2 DEF Crash, Active, Requests
    <2> QED BY <1>14, <2>1, <2>4, <2>5 DEF Crash, TypeOK, Formed, DB, diskVars
<1>15. ASSUME NEW reachable \in BOOLEAN, Boot(reachable)
      PROVE  TypeOK' /\ Formed'
    <2>1. Saved => config.db \in Databases /\ config.key \in Posts
        BY DEF Saved, ConfigFiles
    <2>2. BootDB \in Databases \cup {None} /\ BootKey \in Posts \cup {None}
        BY <2>1 DEF BootDB, BootKey, TypeOK
    <2>3. proc' \in Processes
        BY <1>15, <2>2 DEF Boot, Processes
    <2> QED BY <1>15, <2>3 DEF Boot, TypeOK, Formed, DB, diskVars
<1>16. CASE UNCHANGED vars
    BY <1>16 DEF vars, TypeOK, Formed, DB
<1> QED BY <1>1, <1>2, <1>3, <1>4, <1>5, <1>6, <1>7, <1>8, <1>9, <1>10, <1>11, <1>12, <1>13,
           <1>14, <1>15, <1>16 DEF Next, Request

-----------------------------------------------------------------------------
(* What a step does to the others.                                         *)

\* While a request is past the guard the lone ones are over, and none is done.
LEMMA OthersAreOver ==
    ASSUME IInv, NEW p \in Posts, Active(p), req[p].step # "guarded" \/ done \cap lone = {}
    PROVE  /\ \A q \in lone \ {p} : req[q].step = "over"
           /\ done \cap lone = {} /\ late = {} /\ p \notin done
<1>1. lone \subseteq Posts /\ done \subseteq Posts /\ late \subseteq Posts
    BY DEF IInv, TypeOK
<1>2. ASSUME NEW q \in lone \ {p} PROVE req[q].step = "over"
    BY <1>1, <1>2 DEF IInv, LoneRun, Unharmed, Alone, Active
<1>3. done \cap lone = {} /\ p \notin done
    BY DEF IInv, DoneRun, Active
<1> QED BY <1>2, <1>3 DEF IInv, LateRun

\* A step of one request that leaves the history alone: it is enough to look
\* at that request.
LEMMA OneMoves ==
    ASSUME IInv, NEW p \in Posts, Active(p), req[p].step # "guarded" \/ done \cap lone = {}, proc'.up,
           UNCHANGED <<done, lone, late>>,
           req'[p].step # "unsent",
           \A q \in Posts \ {p} :
              req'[q].step = req[q].step \/ (req[q].step = "saving" /\ req'[q].step = "unlinked"),
           \A d \in Databases : admins'[d] \subseteq admins[d] \cup {p},
           p \in lone => Unharmed(p)'
    PROVE  Quiet' /\ LoneRun' /\ DoneRun' /\ LateRun'
<1>1. lone \subseteq Posts /\ done \subseteq Posts
    BY DEF IInv, TypeOK
<1>2. /\ \A q \in lone \ {p} : req[q].step = "over"
      /\ done \cap lone = {} /\ late = {} /\ p \notin done
    BY OthersAreOver
<1>3. \A q \in lone \ {p} : req'[q].step = "over"
    BY <1>1, <1>2
<1>4. Quiet'
    BY DEF Quiet
<1>5. LoneRun'
    <2>1. ASSUME NEW q \in lone \ {p} PROVE (Unharmed(q) /\ Alone(q))'
        BY <1>3 DEF Unharmed, Alone, Active
    <2>2. ASSUME p \in lone PROVE Alone(p)'
        <3>1. \A q \in Posts \ {p} : ~Active(q)
            BY <2>2 DEF IInv, LoneRun, Alone
        <3> QED BY <3>1 DEF Alone, Active
    <2> QED BY <2>1, <2>2 DEF LoneRun
<1>6. DoneRun'
    <2>1. \A q \in done : req'[q].step = "over"
        BY <1>1, <1>2 DEF IInv, DoneRun
    <2> QED BY <1>2, <2>1 DEF DoneRun
<1>7. LateRun'
    <2>1. ASSUME NEW d \in Databases, NEW q \in admins'[d] PROVE req'[q].step # "unsent" /\ q \notin late
        <3>1. q = p \/ q \in admins[d]
            OBVIOUS
        <3>2. q \in admins[d] => q \in Posts /\ req[q].step # "unsent"
            BY DEF IInv, TypeOK, LateRun
        <3> QED BY <1>2, <3>1, <3>2
    <2> QED BY <1>2, <2>1 DEF LateRun
<1> QED BY <1>4, <1>5, <1>6, <1>7

\* Going on to a step that promises nothing about the config file.
LEMMA OneGoes ==
    ASSUME IInv, NEW p \in Posts, NEW s \in Steps, Active(p), Go(p, s), proc'.up,
           req[p].step # "guarded" \/ done \cap lone = {},
           UNCHANGED <<done, lone, late>>,
           s \notin {"unsent", "unlinked"},
           \A d \in Databases : admins'[d] \subseteq admins[d] \cup {p},
           p \in lone => /\ s = "saving" => config' = Empty
                         /\ s \in {"saved", "keyed"} => config' = Own(p)
                         /\ s = "keyed" => proc'.key = p
    PROVE  Quiet' /\ LoneRun' /\ DoneRun' /\ LateRun'
<1>1. /\ req'[p].step = s /\ req'[p].db = req[p].db
      /\ \A q \in Posts \ {p} : req'[q] = req[q]
    BY Going DEF IInv
<1>2. p \in lone => Unharmed(p)'
    BY <1>1 DEF Unharmed, Own, DB
<1> QED BY <1>1, <1>2, OneMoves

\* Tables and settings stay, and transactions that have written theirs are
\* no more.
LEMMA UsableKept ==
    ASSUME IInv, TypeOK', UNCHANGED <<admins, settled>>,
           \A d \in Databases : tables'[d] >= tables[d],
           \A q \in Posts : req'[q].step = "written" => req[q].step = "written" /\ req'[q].db = req[q].db
    PROVE  WrittenHasTables' /\ InstalledIsUsable'
<1>1. \A d \in Databases : tables[d] \in 0..4 /\ tables'[d] \in 0..4
    BY DEF IInv, TypeOK
<1>2. WrittenHasTables'
    BY <1>1 DEF IInv, WrittenHasTables, DB, Formed
<1>3. InstalledIsUsable'
    BY <1>1 DEF IInv, InstalledIsUsable
<1> QED BY <1>2, <1>3

\* The same for a step that leaves the tables alone.
LEMMA UsableGoes ==
    ASSUME IInv, TypeOK', NEW p \in Posts, NEW s \in Steps \ {"written"}, Go(p, s),
           UNCHANGED <<tables, admins, settled>>
    PROVE  WrittenHasTables' /\ InstalledIsUsable'
<1>1. /\ req'[p].step = s
      /\ \A q \in Posts \ {p} : req'[q] = req[q]
    BY Going DEF IInv
<1>2. \A q \in Posts : req'[q].step = "written" => req[q].step = "written" /\ req'[q].db = req[q].db
    BY <1>1
<1>3. \A d \in Databases : tables'[d] >= tables[d]
    BY DEF IInv, TypeOK
<1> QED BY <1>2, <1>3, UsableKept

-----------------------------------------------------------------------------
(* The invariant.                                                          *)

\* A machine without a shop satisfies it.
LEMMA InvInit == Init => IInv
<1> SUFFICES ASSUME Init PROVE IInv
    OBVIOUS
<1>1. TypeOK /\ Formed
    BY TypeInit
<1>2. Quiet /\ WrittenHasTables /\ InstalledIsUsable
    BY DEF Init, NoForm, Quiet, Active, WrittenHasTables, InstalledIsUsable
<1>3. LoneRun /\ DoneRun /\ LateRun
    BY DEF Init, NoForm, LoneRun, DoneRun, LateRun
<1> QED BY <1>1, <1>2, <1>3 DEF IInv

\* A request comes in: while a lone one is done the guard refuses it, or doInstall will.
LEMMA PostKeeps ==
    ASSUME IInv, TypeOK', Formed', NEW p \in Posts, NEW d \in Databases, NEW n \in Names, NEW answers \in BOOLEAN,
           Post(p, d, n, answers)
    PROVE  IInv'
<1>1. PICK s \in {"guarded", "over"} :
        /\ req' = [req EXCEPT ![p] = [step |-> s, db |-> d, name |-> n, blank |-> FALSE]]
        /\ s = "guarded" => LetsThrough(answers)
    BY DEF Post
<1>2. /\ req'[p].step = s /\ req'[p].db = d
      /\ \A q \in Posts \ {p} : req'[q] = req[q]
      /\ req[p].step = "unsent"
    BY <1>1 DEF IInv, TypeOK, Post, NoForm
<1>3. /\ UNCHANGED <<tables, admins, settled, config, env, done>>
      /\ proc.up /\ proc' = [proc EXCEPT !.seen = proc'.seen]
    BY DEF Post, Remember, diskVars
<1>4. proc'.up /\ proc'.db = proc.db /\ proc'.key = proc.key
    BY <1>3 DEF IInv, TypeOK, Processes
<1>5. ASSUME NEW q \in done \cap lone, NEW o \in Posts, Active(o)'
      PROVE  req'[o].step = "guarded" /\ Refusing'
    <2>1. proc'.seen = (proc.seen \/ Installed(answers))
        BY DEF Post, Remember, IInv, TypeOK, Processes
    <2>2. CASE o # p
        <3>1. req'[o] = req[o] /\ Active(o)
            BY <1>2, <1>5, <2>2 DEF Active
        <3> QED BY <1>4, <1>5, <2>1, <3>1 DEF IInv, DoneRun, Refusing
    <2>3. CASE o = p
        <3>1. q \in Posts /\ config = Own(q) /\ req[q].step = "over"
            BY DEF IInv, DoneRun, TypeOK
        <3>2. DB(q) \in Databases
            BY <3>1 DEF IInv, Formed
        <3>3. Saved
            BY <3>1, <3>2 DEF Saved, ConfigFiles, Own
        <3>4. s = "guarded"
            BY <1>2, <1>5, <2>3 DEF Active
        <3>5. Installed(answers) /\ proc.db # None
            BY <1>1, <3>3, <3>4 DEF LetsThrough, Installed
        <3> QED BY <1>2, <1>4, <2>1, <2>3, <3>4, <3>5 DEF Refusing
    <2> QED BY <2>2, <2>3
<1>6. PICK others \in SUBSET Posts :
        /\ others = {q \in Posts : Active(q)}
        /\ lone' = (lone \ others) \cup (IF others = {} THEN {p} ELSE {})
    BY DEF Post
<1>7. p \notin done /\ p \notin others
    BY <1>2, <1>6 DEF IInv, DoneRun, Active
<1>8. done \cap lone' = done \cap lone
    BY <1>6, <1>7 DEF IInv, DoneRun, Active
<1>9. \A q \in Posts \ {p} : Active(q)' = Active(q)
    BY <1>2 DEF Active
<1>10. WrittenHasTables' /\ InstalledIsUsable'
    <2>1. \A q \in Posts : req'[q].step = "written" => req[q].step = "written" /\ req'[q].db = req[q].db
        BY <1>1, <1>2
    <2>2. \A e \in Databases : tables'[e] >= tables[e]
        BY <1>3 DEF IInv, TypeOK
    <2> QED BY <1>3, <2>1, <2>2, UsableKept
<1>11. LoneRun'
    <2>1. ASSUME NEW q \in lone', q # p PROVE Unharmed(q)' /\ Alone(q)'
        <3>1. q \in lone /\ q \in Posts /\ ~Active(q)
            BY <1>6, <2>1 DEF IInv, TypeOK
        <3>2. Unharmed(q)'
            BY <1>2, <1>3, <1>4, <2>1, <3>1 DEF IInv, LoneRun, Unharmed, Own, DB
        <3> QED BY <1>9, <2>1, <3>1, <3>2 DEF Alone
    <2>2. ASSUME p \in lone' PROVE Unharmed(p)' /\ Alone(p)'
        <3>1. others = {} \/ p \in lone
            BY <1>6, <2>2
        <3>2. p \notin lone
            BY <1>2 DEF IInv, LoneRun, Unharmed
        <3> QED BY <1>1, <1>2, <1>6, <1>9, <3>1, <3>2 DEF Unharmed, Alone
    <2> QED BY <2>1, <2>2 DEF LoneRun
<1>12. DoneRun'
    <2>1. \A q \in done : q \in Posts \ {p} /\ req'[q].step = "over"
        BY <1>2, <1>7 DEF IInv, DoneRun, TypeOK
    <2>2. ASSUME NEW q \in done \cap lone
          PROVE  /\ \A o \in Posts : Active(o)' => req'[o].step = "guarded" /\ Refusing'
                 /\ config' = Own(q)'
                 /\ proc'.up /\ env' \in {None, DB(q)'} => proc'.db = DB(q)' /\ proc'.key = q
        <3>1. DB(q)' = DB(q)
            BY <1>2, <2>1 DEF DB
        <3> QED BY <1>3, <1>4, <1>5, <3>1 DEF IInv, DoneRun, Own
    <2> QED BY <1>3, <1>8, <2>1, <2>2 DEF DoneRun
<1>13. LateRun'
    <2>1. late' = IF done \cap lone = {} THEN late ELSE late \cup {p}
        BY DEF Post
    <2>2. \A q \in late' : req'[q].step \in {"guarded", "over"}
        BY <1>2, <2>1 DEF IInv, LateRun, TypeOK
    <2>3. late' # {} => done \cap lone # {}
        BY <2>1 DEF IInv, LateRun
    <2>4. ASSUME NEW e \in Databases, NEW q \in admins[e] PROVE req'[q].step # "unsent" /\ q \notin late'
        BY <1>2, <2>1 DEF IInv, LateRun, TypeOK
    <2> QED BY <1>3, <1>8, <2>2, <2>3, <2>4 DEF LateRun
<1>14. Quiet'
    BY <1>4 DEF Quiet
<1> QED BY <1>10, <1>11, <1>12, <1>13, <1>14 DEF IInv

\* A request goes on to a step that touches neither tables nor the config file.
LEMMA WalkKeeps ==
    ASSUME IInv, TypeOK', Formed', NEW p \in Posts, NEW s \in Steps,
           Active(p), req[p].step # "guarded" \/ done \cap lone = {},
           Go(p, s), s \notin {"unsent", "unlinked", "written", "saving", "saved", "keyed"},
           proc'.up, UNCHANGED <<tables, admins, settled, done, lone, late>>
    PROVE  IInv'
<1>1. Quiet' /\ LoneRun' /\ DoneRun' /\ LateRun'
    BY OneGoes DEF Own
<1>2. WrittenHasTables' /\ InstalledIsUsable'
    BY UsableGoes
<1> QED BY <1>1, <1>2 DEF IInv

\* doInstall asks again, after a lone install is done: it sends the request away.
LEMMA RefusedKeeps ==
    ASSUME IInv, TypeOK', Formed', NEW p \in Posts, NEW answers \in BOOLEAN, Enter(p, answers),
           done \cap lone # {}
    PROVE  IInv'
<1>1. proc.up /\ Active(p) /\ Refusing /\ \A q \in Posts : Active(q) => req[q].step = "guarded"
    BY DEF Enter, At, Active, IInv, DoneRun
<1>2. Installed(answers)
    BY <1>1 DEF Installed, Refusing
<1>3. /\ proc'.up /\ proc'.db = proc.db /\ proc'.key = proc.key /\ Refusing'
      /\ Go(p, "over")
      /\ UNCHANGED <<tables, admins, settled, config, env, done, lone, late>>
    BY <1>1, <1>2 DEF Enter, Remember, diskVars, IInv, TypeOK, Processes, Refusing
<1>4. /\ req'[p].step = "over" /\ req'[p].db = req[p].db
      /\ \A q \in Posts \ {p} : req'[q] = req[q]
    BY <1>3, Going DEF IInv, Steps
<1>5. \A q \in Posts : DB(q)' = DB(q) /\ (Active(q)' => Active(q) /\ q # p)
    BY <1>4 DEF DB, Active
<1>6. Quiet' /\ WrittenHasTables' /\ InstalledIsUsable'
    BY <1>3, <1>4, UsableGoes DEF Quiet, Steps
<1>7. LoneRun'
    <2>1. ASSUME NEW q \in lone PROVE Unharmed(q)' /\ Alone(q)'
        <3>1. q \in Posts /\ Unharmed(q) /\ Alone(q)
            BY DEF IInv, TypeOK, LoneRun
        <3> QED BY <1>3, <1>4, <1>5, <3>1 DEF Unharmed, Alone, Own
    <2> QED BY <1>3, <2>1 DEF LoneRun
<1>8. DoneRun'
    <2>1. \A q \in done : q \in Posts /\ req'[q].step = "over"
        BY <1>4 DEF IInv, DoneRun, TypeOK
    <2>2. ASSUME NEW q \in Posts, Active(q)' PROVE req'[q].step = "guarded"
        <3>1. req'[q] = req[q] /\ Active(q)
            BY <1>4, <1>5, <2>2
        <3> QED BY <1>1, <3>1
    <2>3. ASSUME NEW q \in done \cap lone
          PROVE  /\ config' = Own(q)'
                 /\ proc'.up /\ env' \in {None, DB(q)'} => proc'.db = DB(q)' /\ proc'.key = q
        <3>1. DB(q)' = DB(q)
            BY <1>5, <2>1
        <3> QED BY <1>1, <1>3, <3>1 DEF IInv, DoneRun, Own
    <2> QED BY <1>3, <2>1, <2>2, <2>3 DEF DoneRun
<1>9. LateRun'
    BY <1>3, <1>4 DEF IInv, LateRun, TypeOK
<1> QED BY <1>6, <1>7, <1>8, <1>9 DEF IInv

\* Every step of a request, a crash and a start keeps it.
LEMMA InvStep == IInv /\ [Next]_vars => IInv'
<1> SUFFICES ASSUME IInv, [Next]_vars PROVE IInv'
    OBVIOUS
<1>t. TypeOK' /\ Formed'
    BY TypeStep DEF IInv
<1>s. /\ {"unsent", "guarded", "probing", "probed", "committed", "saving", "saved", "keyed", "over"} \subseteq Steps
      /\ {"valid", "opened", "making", "counting", "counted", "inserted", "written"} \subseteq Steps
    BY DEF Steps, RunSteps, InTx
<1>u. ASSUME NEW yes, proc.up, Remember(yes)
      PROVE  proc'.up
    BY <1>u DEF Remember, IInv, TypeOK, Processes
<1>1. ASSUME NEW p \in Posts, NEW d \in Databases, NEW n \in Names, NEW answers \in BOOLEAN,
             Post(p, d, n, answers)
      PROVE  IInv'
    BY <1>1, <1>t, PostKeeps
<1>2. ASSUME NEW p \in Posts, NEW answers \in BOOLEAN, Enter(p, answers)
      PROVE  IInv'
    <2>1. proc'.up /\ Active(p)
        BY <1>2, <1>u DEF Enter, At, Active
    <2>2. CASE done \cap lone = {}
        BY <1>2, <1>t, <1>s, <2>1, <2>2, WalkKeeps DEF Enter, diskVars
    <2>3. CASE done \cap lone # {}
        BY <1>2, <1>t, <2>1, <2>3, RefusedKeeps
    <2> QED BY <2>2, <2>3
<1>3. ASSUME NEW p \in Posts, Probe(p)
      PROVE  IInv'
    <2>1. req[p] \in Requests
        BY DEF IInv, TypeOK
    <2>2. PICK b \in BOOLEAN : req' = [req EXCEPT ![p].step = "probed", ![p].blank = b]
        BY <1>3 DEF Probe
    <2>3. req'[p].step = "probed" /\ \A q \in Posts \ {p} : req'[q] = req[q]
        BY <2>1, <2>2 DEF IInv, TypeOK, Requests
    <2>4. Active(p) /\ req[p].step # "guarded" /\ proc'.up /\ UNCHANGED <<tables, admins, settled, done, lone, late>>
        BY <1>3 DEF Probe, At, Active
    <2>5. Quiet' /\ LoneRun' /\ DoneRun' /\ LateRun'
        BY <2>3, <2>4, OneMoves DEF Unharmed
    <2>6. WrittenHasTables' /\ InstalledIsUsable'
        <3>1. \A q \in Posts : req'[q].step = "written" => req[q].step = "written" /\ req'[q].db = req[q].db
            BY <2>3
        <3>2. \A d \in Databases : tables'[d] >= tables[d]
            BY <2>4 DEF IInv, TypeOK
        <3> QED BY <1>t, <2>4, <3>1, <3>2, UsableKept
    <2> QED BY <1>t, <2>5, <2>6 DEF IInv
<1>4. ASSUME NEW p \in Posts, Unprobe(p)
      PROVE  IInv'
    <2>1. TypeOK
        BY DEF IInv
    <2>2. /\ req'[p].step = "valid"
          /\ \A q \in Posts \ {p} : req'[q].db = req[q].db
          /\ \A q \in Posts \ {p} :
                req'[q].step = req[q].step \/ (req[q].step = "saving" /\ req'[q].step = "unlinked")
        BY <1>4, <2>1, Unprobing
    <2>3. Active(p) /\ req[p].step # "guarded" /\ proc'.up /\ UNCHANGED <<tables, admins, settled, done, lone, late>>
        BY <1>4 DEF Unprobe, At, Active
    <2>4. Quiet' /\ LoneRun' /\ DoneRun' /\ LateRun'
        BY <2>2, <2>3, OneMoves DEF Unharmed
    <2>5. WrittenHasTables' /\ InstalledIsUsable'
        <3>1. \A q \in Posts : req'[q].step = "written" => req[q].step = "written" /\ req'[q].db = req[q].db
            BY <2>2
        <3>2. \A d \in Databases : tables'[d] >= tables[d]
            BY <2>3 DEF IInv, TypeOK
        <3> QED BY <1>t, <2>3, <3>1, <3>2, UsableKept
    <2> QED BY <1>t, <2>4, <2>5 DEF IInv
<1>5. ASSUME NEW p \in Posts, EnsureDatabase(p) \/ ApplySchema(p)
      PROVE  IInv'
    <2>1. PICK s \in {"opened", "making", "counting"} :
             (Go(p, s) \/ (UNCHANGED req /\ req[p].step = s))
        BY <1>5 DEF EnsureDatabase, ApplySchema, At
    <2>2. /\ req'[p].step = s
          /\ \A q \in Posts \ {p} : req'[q] = req[q]
        BY <2>1, <1>s, Going DEF IInv
    <2>3. Active(p) /\ req[p].step # "guarded" /\ proc'.up /\ UNCHANGED <<admins, settled, done, lone, late>>
        BY <1>5 DEF EnsureDatabase, ApplySchema, At, Active
    <2>4. DB(p) \in Databases
        BY <2>3 DEF IInv, Formed, Active
    <2>5. \A d \in Databases : tables'[d] >= tables[d]
        <3>1. \A d \in Databases : tables[d] \in 0..4
            BY DEF IInv, TypeOK
        <3>2. CASE EnsureDatabase(p)
            <4>1. tables' = [tables EXCEPT ![DB(p)] = IF tables[DB(p)] = 0 THEN 1 ELSE tables[DB(p)]]
                BY <3>2 DEF EnsureDatabase
            <4>2. \A d \in Databases : tables'[d] = IF d = DB(p) /\ tables[d] = 0 THEN 1 ELSE tables[d]
                BY <2>4, <4>1 DEF IInv, TypeOK
            <4> QED BY <3>1, <4>2
        <3>3. CASE ApplySchema(p)
            <4>1. tables' = tables \/ tables' = [tables EXCEPT ![DB(p)] = tables[DB(p)] + 1]
                BY <3>3 DEF ApplySchema
            <4>2. \A d \in Databases : tables'[d] = tables[d] \/ tables'[d] = tables[d] + 1
                BY <2>4, <4>1 DEF IInv, TypeOK
            <4> QED BY <3>1, <4>2
        <3> QED BY <1>5, <3>2, <3>3
    <2>6. Quiet' /\ LoneRun' /\ DoneRun' /\ LateRun'
        BY <2>2, <2>3, OneMoves DEF Unharmed
    <2>7. WrittenHasTables' /\ InstalledIsUsable'
        BY <1>t, <2>2, <2>3, <2>5, UsableKept
    <2> QED BY <1>t, <2>6, <2>7 DEF IInv
<1>6. ASSUME NEW p \in Posts, CheckTables(p) \/ CountAdmins(p) \/ InsertAdmin(p)
      PROVE  IInv'
    <2>1. Active(p) /\ req[p].step # "guarded" /\ proc'.up /\ UNCHANGED <<tables, admins, settled, done, lone, late>>
        BY <1>6 DEF CheckTables, CountAdmins, InsertAdmin, At, Active, diskVars
    <2>2. \E s \in {"counting", "making", "counted", "inserted", "over"} : Go(p, s)
        BY <1>6 DEF CheckTables, CountAdmins, InsertAdmin
    <2> QED BY <1>t, <1>s, <2>1, <2>2, WalkKeeps
<1>7. ASSUME NEW p \in Posts, WriteSettings(p)
      PROVE  IInv'
    <2>1. Active(p) /\ req[p].step # "guarded" /\ proc'.up /\ UNCHANGED <<tables, admins, settled, done, lone, late>>
        BY <1>7 DEF WriteSettings, At, Active, diskVars
    <2>2. CASE ~HasSettings(DB(p))
        BY <1>7, <1>t, <1>s, <2>1, <2>2, WalkKeeps DEF WriteSettings
    <2>3. CASE HasSettings(DB(p))
        <3>1. Go(p, "written")
            BY <1>7, <2>3 DEF WriteSettings
        <3>2. /\ req'[p].step = "written" /\ req'[p].db = req[p].db
              /\ \A q \in Posts \ {p} : req'[q] = req[q]
            BY <1>s, <3>1, Going DEF IInv
        <3>3. Quiet' /\ LoneRun' /\ DoneRun' /\ LateRun'
            BY <1>s, <2>1, <3>1, OneGoes
        <3>4. WrittenHasTables' /\ InstalledIsUsable'
            BY <2>1, <2>3, <3>2 DEF IInv, WrittenHasTables, InstalledIsUsable, HasSettings, DB
        <3> QED BY <1>t, <3>3, <3>4 DEF IInv
    <2> QED BY <2>2, <2>3
<1>8. ASSUME NEW p \in Posts, Commit(p)
      PROVE  IInv'
    <2>1. Active(p) /\ req[p].step # "guarded" /\ proc'.up /\ Go(p, "committed") /\ UNCHANGED <<tables, config, done, lone, late>>
        BY <1>8 DEF Commit, At, Active
    <2>2. DB(p) \in Databases /\ tables[DB(p)] >= 3
        BY <1>8 DEF Commit, At, IInv, Formed, WrittenHasTables
    <2>3. /\ req'[p].step = "committed"
          /\ \A q \in Posts \ {p} : req'[q] = req[q]
        BY <1>s, <2>1, Going DEF IInv
    <2>4. \A d \in Databases : admins'[d] = IF d = DB(p) THEN admins[d] \cup {p} ELSE admins[d]
        BY <1>8 DEF Commit, IInv, TypeOK
    <2>5. Quiet' /\ LoneRun' /\ DoneRun' /\ LateRun'
        BY <1>s, <2>1, <2>4, OneGoes
    <2>6. WrittenHasTables'
        BY <2>1, <2>3 DEF IInv, WrittenHasTables, DB
    <2>7. InstalledIsUsable'
        BY <1>8, <2>1, <2>2, <2>4 DEF Commit, IInv, InstalledIsUsable
    <2> QED BY <1>t, <2>5, <2>6, <2>7 DEF IInv
<1>9. ASSUME NEW p \in Posts, OpenConfig(p)
      PROVE  IInv'
    <2>1. /\ Active(p) /\ req[p].step # "guarded" /\ proc'.up /\ Go(p, "saving") /\ config' = Empty
          /\ UNCHANGED <<tables, admins, settled, done, lone, late>>
        BY <1>9 DEF OpenConfig, At, Active
    <2>2. Quiet' /\ LoneRun' /\ DoneRun' /\ LateRun'
        BY <1>s, <2>1, OneGoes
    <2>3. WrittenHasTables' /\ InstalledIsUsable'
        BY <1>t, <1>s, <2>1, UsableGoes
    <2> QED BY <1>t, <2>2, <2>3 DEF IInv
<1>10. ASSUME NEW p \in Posts, WriteConfig(p)
      PROVE  IInv'
    <2>1. /\ Active(p) /\ req[p].step # "guarded" /\ proc'.up /\ Go(p, "saved")
          /\ UNCHANGED <<tables, admins, settled, done, lone, late>>
        BY <1>10 DEF WriteConfig, At, Active
    <2>2. p \in lone => config' = Own(p)
        <3>1. p \in lone => req[p].step # "unlinked" /\ (req[p].step = "saving" => config = Empty)
            BY DEF IInv, LoneRun, Unharmed
        <3> QED BY <1>10, <3>1 DEF WriteConfig, At, Own
    <2>3. Quiet' /\ LoneRun' /\ DoneRun' /\ LateRun'
        BY <1>s, <2>1, <2>2, OneGoes
    <2>4. WrittenHasTables' /\ InstalledIsUsable'
        BY <1>t, <1>s, <2>1, UsableGoes
    <2> QED BY <1>t, <2>3, <2>4 DEF IInv
<1>11. ASSUME NEW p \in Posts, SetSessionKey(p)
      PROVE  IInv'
    <2>1. /\ Active(p) /\ req[p].step # "guarded" /\ Go(p, "keyed") /\ req[p].step = "saved" /\ proc.up
          /\ UNCHANGED <<tables, admins, settled, config, done, lone, late>>
        BY <1>11 DEF SetSessionKey, At, Active, diskVars
    <2>2. proc'.up /\ proc'.key = p
        BY <1>11, <2>1 DEF SetSessionKey, IInv, TypeOK, Processes
    <2>3. p \in lone => config' = Own(p)
        BY <2>1 DEF IInv, LoneRun, Unharmed
    <2>4. Quiet' /\ LoneRun' /\ DoneRun' /\ LateRun'
        BY <1>s, <2>1, <2>2, <2>3, OneGoes
    <2>5. WrittenHasTables' /\ InstalledIsUsable'
        BY <1>t, <1>s, <2>1, UsableGoes
    <2> QED BY <1>t, <2>4, <2>5 DEF IInv
<1>12. ASSUME NEW p \in Posts, SetDB(p)
      PROVE  IInv'
    <2>1. /\ Active(p) /\ req[p].step # "guarded" /\ Go(p, "over") /\ req[p].step = "keyed" /\ proc.up /\ done' = done \cup {p}
          /\ UNCHANGED <<tables, admins, settled, config, env, lone, late>>
        BY <1>12 DEF SetDB, At, Active, diskVars
    <2>2. proc'.up /\ proc'.db = DB(p) /\ proc'.key = proc.key
        BY <1>12, <2>1 DEF SetDB, IInv, TypeOK, Processes
    <2>3. /\ \A q \in lone \ {p} : req[q].step = "over"
          /\ done \cap lone = {} /\ late = {} /\ p \notin done
        BY <2>1, OthersAreOver
    <2>4. /\ req'[p].step = "over" /\ req'[p].db = req[p].db
          /\ \A q \in Posts \ {p} : req'[q] = req[q]
        BY <1>s, <2>1, Going DEF IInv
    <2>5. Quiet' /\ WrittenHasTables' /\ InstalledIsUsable'
        BY <1>t, <1>s, <2>1, <2>2, UsableGoes DEF Quiet
    <2>6. LoneRun'
        <3>1. \A q \in lone : req'[q].step = "over"
            BY <2>3, <2>4 DEF IInv, TypeOK
        <3> QED BY <2>1, <3>1 DEF LoneRun, Unharmed, Alone, Active
    <2>7. DoneRun'
        <3>1. \A q \in done' : req'[q].step = "over"
            BY <2>1, <2>4 DEF IInv, DoneRun, TypeOK
        <3>2. ASSUME p \in lone
              PROVE  /\ \A o \in Posts : ~Active(o)'
                     /\ config = Own(p) /\ Own(p)' = Own(p) /\ DB(p)' = DB(p)
                     /\ proc'.db = DB(p) /\ proc'.key = p
            <4>1. config = Own(p) /\ proc.key = p /\ \A o \in Posts \ {p} : ~Active(o)
                BY <2>1, <3>2 DEF IInv, LoneRun, Unharmed, Alone
            <4> QED BY <2>2, <2>4, <4>1 DEF Active, Own, DB
        <3>3. done' \cap lone' \subseteq {p}
            BY <2>1, <2>3
        <3> QED BY <2>1, <3>1, <3>2, <3>3 DEF DoneRun
    <2>8. LateRun'
        BY <2>1, <2>3, <2>4 DEF IInv, LateRun, TypeOK
    <2> QED BY <1>t, <2>5, <2>6, <2>7, <2>8 DEF IInv
<1>13. ASSUME NEW p \in Posts, Fail(p)
      PROVE  IInv'
    <2>1. Active(p) /\ req[p].step # "guarded" /\ proc'.up /\ Go(p, "over") /\ UNCHANGED <<tables, admins, settled, done, lone, late>>
        BY <1>13 DEF Fail, Active, RunSteps, InTx, diskVars
    <2> QED BY <1>t, <1>s, <2>1, WalkKeeps
<1>14. CASE Crash
    <2>1. /\ ~proc'.up
          /\ UNCHANGED <<tables, admins, settled, config, env, done, lone, late>>
        BY <1>14 DEF Crash, Down, diskVars
    <2>2. \A q \in Posts : req'[q].db = req[q].db /\ req'[q].step = IF Active(q) THEN "over" ELSE req[q].step
        <3>1. \A q \in Posts : req[q] \in Requests
            BY DEF IInv, TypeOK
        <3>2. \A q \in Posts : req'[q] = IF Active(q) THEN [req[q] EXCEPT !.step = "over"] ELSE req[q]
            BY <1>14 DEF Crash
        <3> QED BY <3>1, <3>2 DEF Requests
    <2>3. \A q \in Posts : ~Active(q)' /\ DB(q)' = DB(q) /\ (req[q].step = "over" => req'[q].step = "over")
        BY <2>2 DEF Active, DB
    <2>4. Quiet'
        BY <2>3 DEF Quiet
    <2>5. WrittenHasTables' /\ InstalledIsUsable'
        <3>1. \A q \in Posts : req'[q].step = "written" => req[q].step = "written" /\ req'[q].db = req[q].db
            BY <2>2
        <3>2. \A d \in Databases : tables'[d] >= tables[d]
            BY <2>1 DEF IInv, TypeOK
        <3> QED BY <1>t, <2>1, <3>1, <3>2, UsableKept
    <2>6. LoneRun'
        <3>1. \A q \in lone : req'[q].step = "over"
            BY <2>2 DEF IInv, LoneRun, Unharmed, Active, TypeOK
        <3> QED BY <2>1, <2>3, <3>1 DEF LoneRun, Unharmed, Alone
    <2>7. DoneRun'
        BY <2>1, <2>3 DEF IInv, DoneRun, TypeOK, Own
    <2>8. LateRun'
        BY <2>1, <2>2 DEF IInv, LateRun, TypeOK, Active
    <2> QED BY <1>t, <2>4, <2>5, <2>6, <2>7, <2>8 DEF IInv
<1>15. ASSUME NEW reachable \in BOOLEAN, Boot(reachable)
      PROVE  IInv'
    <2>1. /\ ~proc.up /\ UNCHANGED <<tables, admins, settled, config, env, req, done, lone, late>>
          /\ proc'.db = BootDB /\ proc'.key = BootKey
        BY <1>15 DEF Boot, diskVars
    <2>2. \A q \in Posts : ~Active(q) /\ ~Active(q)'
        BY <2>1 DEF IInv, Quiet, Active
    <2>3. Quiet'
        BY <2>2 DEF Quiet
    <2>4. WrittenHasTables' /\ InstalledIsUsable'
        BY <2>1 DEF IInv, WrittenHasTables, InstalledIsUsable, DB
    <2>5. LoneRun'
        BY <2>1, <2>2 DEF IInv, LoneRun, Unharmed, Alone, Active, TypeOK
    <2>6. DoneRun'
        <3>1. ASSUME NEW q \in done \cap lone, env \in {None, DB(q)}
              PROVE  BootDB = DB(q) /\ BootKey = q
            <4>1. q \in Posts /\ config = Own(q) /\ req[q].step = "over"
                BY DEF IInv, DoneRun, TypeOK
            <4>2. DB(q) \in Databases /\ Saved
                BY <4>1 DEF IInv, Formed, Saved, ConfigFiles, Own
            <4> QED BY <3>1, <4>1, <4>2, InstallerAssumption DEF BootDB, BootKey, Own
        <3> QED BY <2>1, <2>2, <3>1 DEF IInv, DoneRun, Own, DB
    <2>7. LateRun'
        BY <2>1 DEF IInv, LateRun
    <2> QED BY <1>t, <2>3, <2>4, <2>5, <2>6, <2>7 DEF IInv
<1>16. CASE UNCHANGED vars
    BY <1>16, <1>t DEF vars, IInv, Quiet, WrittenHasTables, InstalledIsUsable, LoneRun, DoneRun, LateRun,
        Unharmed, Alone, Active, Own, DB, Refusing
<1> QED BY <1>1, <1>2, <1>3, <1>4, <1>5, <1>6, <1>7, <1>8, <1>9, <1>10, <1>11, <1>12, <1>13,
           <1>14, <1>15, <1>16 DEF Next, Request

-----------------------------------------------------------------------------
\* Every reachable state satisfies the invariant.
LEMMA Always == Spec => []IInv
BY InvInit, InvStep, PTL DEF Spec

\* doInstall, the process and the files stay well typed.
THEOREM InstallerTypeCorrect == Spec => []TypeOK
<1>1. IInv => TypeOK
    BY DEF IInv
<1> QED BY <1>1, Always, PTL

\* Run commits administrators, settings and seeds together and only where the
\* tables are: whatever fails and whoever else installs at the same time, a
\* site that counts as installed has all it works with.
THEOREM InstalledAlwaysUsable == Spec => []InstalledIsUsable
<1>1. IInv => InstalledIsUsable
    BY DEF IInv
<1> QED BY <1>1, Always, PTL

\* guard closes the installation for good once one that was alone is done:
\* no answer of the database and no restart opens it again.
THEOREM ClosedForGood == Spec => []ClosedOnceDone
<1>1. IInv => ClosedOnceDone
    BY DEF IInv, LateRun, ClosedOnceDone
<1> QED BY <1>1, Always, PTL

\* SaveConfig, and main at every later start: the process comes back with the
\* database and the session key of an install that was alone.
THEOREM AlwaysRestartsIntoTheSameShop == Spec => []RestartsIntoTheSameShop
<1>1. IInv => RestartsIntoTheSameShop
    BY DEF IInv, DoneRun, RestartsIntoTheSameShop, Own
<1> QED BY <1>1, Always, PTL
=============================================================================
