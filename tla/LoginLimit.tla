------------------------------ MODULE LoginLimit ------------------------------
(***************************************************************************)
(* loginLimiter (internal/admin/auth.go) and the sign-ins that use it:     *)
(* each reserves an attempt of its client address before the account is    *)
(* looked up and the password checked, and hands it back, leaves it or     *)
(* clears it afterwards.  Behind a proxy that forwards no address they     *)
(* share one key with a wider budget.                                      *)
(*                                                                         *)
(* An entry is its count, the time since its first attempt, and how long   *)
(* it is still blocked.  An age of Window + 1 means more than Window.  The *)
(* delay of an account with many failures takes time and changes nothing.  *)
(***************************************************************************)
EXTENDS Integers, FiniteSets, Functions

CONSTANTS
    Attempts,       \* requests to sign in, one after another
    Known,          \* client addresses
    Shared,         \* loginUnknownKey
    Users,          \* accounts that exist
    NoUser,         \* a username that does not
    MaxFails,       \* loginMaxFails
    SharedMaxFails, \* loginUnknownMaxFails
    UserMaxFails,   \* loginUserMaxFails
    Window,         \* loginWindow, in steps of the clock
    Block,          \* loginBlock
    MaxKeys         \* loginMaxKeys

ASSUME LoginAssumption ==
    /\ IsFiniteSet(Attempts) /\ IsFiniteSet(Users)
    /\ Shared \notin Known /\ Known \cap Users = {} /\ Shared \notin Users /\ NoUser \notin Users
    /\ MaxFails \in Nat \ {0} /\ SharedMaxFails \in Nat \ {0} /\ UserMaxFails \in Nat \ {0}
    /\ Window \in Nat \ {0} /\ Block \in Nat \ {0} /\ Block >= Window /\ MaxKeys \in Nat \ {0}

VARIABLES
    fails,      \* the limiter's map
    swept,      \* lastFullSweep was less than loginFullSweepGap ago
    attempt,    \* where each request is
    guesses,    \* history: reserved attempts by age, handed-back ones excepted
    strayed,    \* history: a reservation of an older entry was handed back to a newer one
    wrong       \* history: addresses at which a password was found wrong

vars == <<fails, swept, attempt, guesses, strayed, wrong>>

Addresses == Known \cup {Shared}
Budget(k) == IF k = Shared THEN SharedMaxFails ELSE MaxFails

Entries == [count: Nat, age: 0..Window + 1, block: 0..Block]
Blocked(f) == f.block > 0
Expired(f) == ~Blocked(f) /\ (f.count = 0 \/ f.age > Window)

NoGuesses == [n \in 0..Window - 1 |-> 0]
Idle == [step |-> "idle", key |-> Shared, user |-> NoUser, age |-> 0, counted |-> FALSE]

\* Only the accounts' own keys are recorded beyond the map's bound.
TypeOK ==
    /\ \E K \in SUBSET (Addresses \cup Users) :
          /\ fails \in [K -> Entries]
          /\ Cardinality(K) <= MaxKeys + Cardinality(Users)
    /\ swept \in BOOLEAN
    /\ attempt \in [Attempts -> [step: {"idle", "reserved", "checking"}, key: Addresses,
                                 user: Users \cup {NoUser}, age: 0..Window + 1, counted: BOOLEAN]]
    /\ guesses \in [Addresses -> [0..Window - 1 -> Nat]]
    /\ strayed \subseteq Addresses /\ wrong \subseteq Addresses

Init ==
    /\ fails = [k \in {} |-> 0]
    /\ swept = FALSE
    /\ attempt = [t \in Attempts |-> Idle]
    /\ guesses = [k \in Addresses |-> NoGuesses]
    /\ strayed = {} /\ wrong = {}

-----------------------------------------------------------------------------
\* Mutant: a sweep drops whatever is not blocked.
MutLiveBlocked(h) == {k \in DOMAIN h : Blocked(h[k])}
Live(h) == {k \in DOMAIN h : ~Expired(h[k])}

Sweep(h) == [k \in Live(h) |-> h[k]]
Without(h, K) == [k \in DOMAIN h \ K |-> h[k]]
With(h, k, f) == [j \in DOMAIN h \cup {k} |-> IF j = k THEN f ELSE h[j]]

\* Mutant: room is looked for before the sweep only.
MutFullNever(h) == FALSE
Full(h) == Cardinality(DOMAIN h) >= MaxKeys

\* reserveMax up to its decision.  Every so many calls sweep first; an entry
\* of the key that is over goes; a full map is swept, but not all the time.
Found(k, routine) ==
    LET h == IF routine THEN Sweep(fails) ELSE fails
    IN IF k \in DOMAIN h /\ Expired(h[k]) THEN Without(h, {k}) ELSE h
SweepsFull(k, routine) == k \notin DOMAIN Found(k, routine) /\ Full(Found(k, routine)) /\ ~swept
Map(k, routine) == IF SweepsFull(k, routine) THEN Sweep(Found(k, routine)) ELSE Found(k, routine)

\* The attempt is granted: it opens an entry or joins one.
Grants(k, h) ==
    \/ /\ k \notin DOMAIN h /\ ~Full(h)
       /\ fails' = With(h, k, [count |-> 1, age |-> 0, block |-> 0])
    \/ /\ k \in DOMAIN h /\ ~Blocked(h[k]) /\ h[k].count < Budget(k)
       /\ fails' = With(h, k, [h[k] EXCEPT !.count = @ + 1])

\* Mutant: an attempt during the block begins the block anew.
MutRefusesAnew(k, h) ==
    IF k \in DOMAIN h THEN fails' = With(h, k, [count |-> 0, age |-> 0, block |-> Block])
    ELSE Full(h) /\ fails' = h
\* It is refused: the map is full, the address is blocked, or it is from now on.
Refuses(k, h) ==
    \/ (IF k \in DOMAIN h THEN Blocked(h[k]) ELSE Full(h)) /\ fails' = h
    \/ /\ k \in DOMAIN h /\ ~Blocked(h[k]) /\ h[k].count >= Budget(k)
       /\ fails' = With(h, k, [count |-> 0, age |-> 0, block |-> Block])

Reserve(t, k, u) ==
    /\ attempt[t].step = "idle"
    /\ \E routine \in BOOLEAN :
          Grants(k, Map(k, routine)) /\ swept' = (swept \/ SweepsFull(k, routine))
    /\ attempt' = [attempt EXCEPT ![t] =
          [step |-> "reserved", key |-> k, user |-> u, age |-> 0, counted |-> TRUE]]
    /\ guesses' = [guesses EXCEPT ![k][0] = @ + 1]
    /\ UNCHANGED <<strayed, wrong>>

TooManyTries(k) ==
    /\ \E routine \in BOOLEAN :
          Refuses(k, Map(k, routine)) /\ swept' = (swept \/ SweepsFull(k, routine))
    /\ UNCHANGED <<attempt, guesses, strayed, wrong>>

-----------------------------------------------------------------------------
Ends(t) == attempt' = [attempt EXCEPT ![t] = Idle]

\* The guess a request was counted as was none.
NoGuess(t) ==
    LET k == attempt[t].key  n == attempt[t].age IN
    guesses' = IF attempt[t].counted /\ n < Window THEN [guesses EXCEPT ![k][n] = @ - 1] ELSE guesses

\* release.
HandsBack(k) ==
    LET f == [fails[k] EXCEPT !.count = IF @ > 0 THEN @ - 1 ELSE 0]
    IN IF k \notin DOMAIN fails THEN fails
       ELSE IF Expired(f) THEN Without(fails, {k}) ELSE With(fails, k, f)

LookupFails(t) ==
    LET k == attempt[t].key IN
    /\ attempt[t].step = "reserved"
    /\ fails' = HandsBack(k)
    /\ strayed' = IF /\ k \in DOMAIN fails /\ fails[k].count > 0
                     /\ fails[k].age < attempt[t].age \/ ~attempt[t].counted
                  THEN strayed \cup {k} ELSE strayed
    /\ NoGuess(t) /\ Ends(t)
    /\ UNCHANGED <<swept, wrong>>

LooksUp(t) ==
    /\ attempt[t].step = "reserved"
    /\ attempt' = [attempt EXCEPT ![t].step = "checking"]
    /\ UNCHANGED <<fails, swept, guesses, strayed, wrong>>

\* fail: an account's own failures; beyond UserMaxFails they are all the same.
CountsFailure(u) ==
    LET f == IF u \in DOMAIN fails /\ ~Expired(fails[u]) THEN fails[u] ELSE [count |-> 0, age |-> 0, block |-> 0]
    IN With(fails, u, [f EXCEPT !.count = IF @ < UserMaxFails THEN @ + 1 ELSE @])

WrongPassword(t) ==
    /\ attempt[t].step = "checking"
    /\ fails' = IF attempt[t].user = NoUser THEN fails ELSE CountsFailure(attempt[t].user)
    /\ wrong' = wrong \cup {attempt[t].key}
    /\ Ends(t)
    /\ UNCHANGED <<swept, guesses, strayed>>

\* clear: a success forgets the account's failures, and the address's unless
\* it is the shared one.
SignsIn(t) ==
    LET k == attempt[t].key IN
    /\ attempt[t].step = "checking" /\ attempt[t].user # NoUser
    /\ IF k = Shared
       THEN /\ fails' = Without(fails, {attempt[t].user})
            /\ NoGuess(t) /\ Ends(t)
            /\ UNCHANGED <<strayed, wrong>>
       ELSE /\ fails' = Without(fails, {k, attempt[t].user})
            /\ guesses' = [guesses EXCEPT ![k] = NoGuesses]
            /\ attempt' = [p \in Attempts |->
                  IF p = t THEN Idle ELSE IF attempt[p].key = k THEN [attempt[p] EXCEPT !.counted = FALSE]
                  ELSE attempt[p]]
            /\ strayed' = strayed \ {k} /\ wrong' = wrong \ {k}
    /\ UNCHANGED swept

-----------------------------------------------------------------------------
Aged(f) == [f EXCEPT !.age = IF @ > Window THEN @ ELSE @ + 1, !.block = IF @ = 0 THEN 0 ELSE @ - 1]

\* A step of the clock may be longer or shorter than the gap between sweeps.
Tick ==
    /\ fails' = [k \in DOMAIN fails |-> Aged(fails[k])]
    /\ swept' \in {swept, FALSE}
    /\ attempt' = [t \in Attempts |->
          IF attempt[t].step = "idle" \/ attempt[t].age > Window THEN attempt[t]
          ELSE [attempt[t] EXCEPT !.age = @ + 1]]
    /\ guesses' = [k \in Addresses |-> [n \in 0..Window - 1 |-> IF n = 0 THEN 0 ELSE guesses[k][n - 1]]]
    /\ UNCHANGED <<strayed, wrong>>

Next ==
    \/ \E t \in Attempts :
          \/ \E k \in Addresses, u \in Users \cup {NoUser} : Reserve(t, k, u)
          \/ LookupFails(t) \/ LooksUp(t) \/ WrongPassword(t) \/ SignsIn(t)
    \/ \E k \in Addresses : TooManyTries(k)
    \/ Tick

Spec == Init /\ [][Next]_vars

\* Time passes.  Nothing is assumed of those who sign in.
FairSpec == Spec /\ WF_vars(Tick)

-----------------------------------------------------------------------------
\* However many sign-ins run at once, no address gets more guesses at
\* passwords in a span of the window than two budgets, those of two entries,
\* unless it signs in, or the database fails so late that a reservation is
\* handed back to a newer entry (reserve before the password work, release, sweep).
GuessesBounded ==
    \A k \in Addresses \ strayed : SumFunction(guesses[k]) <= 2 * Budget(k)

\* A block ends, whatever is tried meanwhile.
BlocksEnd ==
    \A k \in Addresses :
        (k \in DOMAIN fails /\ Blocked(fails[k])) ~> ~(k \in DOMAIN fails /\ Blocked(fails[k]))

\* "so an outage does not lock anyone out" (release): an address at which no
\* password was found wrong, and none is being looked at, is not blocked.
OutageLocksNobodyOut ==
    \A k \in Known \ wrong :
        k \in DOMAIN fails /\ Blocked(fails[k]) => \E t \in Attempts : attempt[t].step # "idle" /\ attempt[t].key = k
=============================================================================
