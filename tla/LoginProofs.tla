------------------------------ MODULE LoginProofs ------------------------------
(***************************************************************************)
(* Proof that the sign-in limiter bounds guesses at passwords and its own  *)
(* map, for any number of requests, addresses and accounts.                *)
(*                                                                         *)
(* The guesses of an address come from its current entry and the one       *)
(* before it.  An entry never counts fewer attempts than are charged to    *)
(* the time since it was opened, and whatever is older is what the entry   *)
(* before left (LiveEntry); without an entry, or once it is over, only     *)
(* that is left (NoEntry); a block outlasts everything before it           *)
(* (BlockedEntry).  An attempt that has reached the age of the window is   *)
(* no longer a guess but may still be handed back to the entry it opened,  *)
(* so it stays charged until then.                                         *)
(***************************************************************************)
EXTENDS LoginLimit, SumLemmas

USE LoginAssumption

Charges == [0..Window -> Nat]

Lesser(m, n) == IF m < n THEN m ELSE n

NoEntry(c, b) == c[0] = 0 /\ Prefix(c, Window) <= b
LiveEntry(f, c, b) ==
    /\ f.age <= Window
    /\ Prefix(c, f.age + 1) <= f.count
    /\ Prefix(c, Window) <= f.count + b
BlockedEntry(f, c, b) ==
    /\ Prefix(c, Lesser(Block - f.block, Window)) = 0
    /\ Prefix(c, Window) <= 2 * b
EntryOK(f, c, b) ==
    /\ Expired(f) => NoEntry(c, b)
    /\ Blocked(f) => f.count = 0 /\ BlockedEntry(f, c, b)
    /\ ~Expired(f) /\ ~Blocked(f) => LiveEntry(f, c, b)

-----------------------------------------------------------------------------
(* What becomes of an entry and the charges of its address.                *)

LEMMA ChargesSum ==
  ASSUME NEW c \in Charges, NEW n \in 0..Window + 1
  PROVE  Prefix(c, n) \in Nat /\ \A k \in 0..n : Prefix(c, k) \in Nat /\ Prefix(c, k) <= Prefix(c, n)
<1>1. n \in Nat /\ \A m \in 0..n - 1 : c[m] \in Nat
  BY DEF Charges
<1>2. n \in 0..n
  OBVIOUS
<1> QED BY <1>1, <1>2, PrefixGrows

LEMMA NothingCharged ==
  ASSUME NEW c, \A m \in 0..Window : c[m] = 0
  PROVE  Prefix(c, Window) = 0
<1>1. Window \in Nat /\ \A m \in 0..Window - 1 : c[m] = 0
  OBVIOUS
<1> QED BY <1>1, PrefixNothing

LEMMA OneCharge ==
  ASSUME NEW c \in Charges, NEW d \in Charges, NEW i \in 0..Window, NEW e \in Int,
         d[i] = c[i] + e, \A m \in 0..Window : m # i => d[m] = c[m],
         NEW n \in 0..Window + 1
  PROVE  Prefix(d, n) = IF i < n THEN Prefix(c, n) + e ELSE Prefix(c, n)
<1>1. /\ n \in Nat /\ i \in Nat
      /\ \A m \in 0..n - 1 : c[m] \in Int
      /\ \A m \in 0..n - 1 : d[m] \in Int
      /\ \A m \in 0..n - 1 : m # i => c[m] = d[m]
      /\ i < n => d[i] = c[i] + e
  BY DEF Charges
<1> QED BY <1>1, PrefixChange

LEMMA FewerCharges ==
  ASSUME NEW c \in Charges, NEW d \in Charges, \A m \in 0..Window : d[m] <= c[m],
         NEW n \in 0..Window + 1
  PROVE  Prefix(d, n) <= Prefix(c, n) /\ Prefix(d, n) \in Nat /\ Prefix(c, n) \in Nat
<1>1. n \in Nat /\ \A m \in 0..n - 1 : d[m] \in Int /\ c[m] \in Int /\ d[m] <= c[m]
  BY DEF Charges
<1>2. Prefix(d, n) <= Prefix(c, n)
  BY <1>1, PrefixAtMost
<1> QED BY <1>2, ChargesSum

LEMMA FewerChargesKeep ==
  ASSUME NEW c \in Charges, NEW d \in Charges, \A m \in 0..Window : d[m] <= c[m],
         NEW b \in Nat, NEW f \in Entries
  PROVE  /\ NoEntry(c, b) => NoEntry(d, b)
         /\ EntryOK(f, c, b) => EntryOK(f, d, b)
<1>1. \A n \in 0..Window + 1 : Prefix(d, n) <= Prefix(c, n) /\ Prefix(d, n) \in Nat /\ Prefix(c, n) \in Nat
  BY FewerCharges
<1>2. c[0] = 0 => d[0] = 0
  BY DEF Charges
<1>3. NoEntry(c, b) => NoEntry(d, b)
  BY <1>1, <1>2 DEF NoEntry
<1>4. LiveEntry(f, c, b) => LiveEntry(f, d, b)
  <2> SUFFICES ASSUME LiveEntry(f, c, b) PROVE LiveEntry(f, d, b)
    OBVIOUS
  <2>1. f.age + 1 \in 0..Window + 1 /\ Window \in 0..Window + 1 /\ f.count \in Nat
    BY DEF LiveEntry, Entries
  <2> QED BY <1>1, <2>1 DEF LiveEntry
<1>5. BlockedEntry(f, c, b) => BlockedEntry(f, d, b)
  <2>1. Lesser(Block - f.block, Window) \in 0..Window + 1
    BY DEF Lesser, Entries
  <2> QED BY <1>1, <2>1 DEF BlockedEntry
<1> QED BY <1>3, <1>4, <1>5 DEF EntryOK

\* An attempt is granted: it opens an entry, or joins one.
LEMMA GrantKeeps ==
  ASSUME NEW c \in Charges, NEW d \in Charges, d[0] = c[0] + 1, \A m \in 0..Window : m # 0 => d[m] = c[m],
         NEW b \in Nat, NEW f \in Entries
  PROVE  /\ NoEntry(c, b) => EntryOK([count |-> 1, age |-> 0, block |-> 0], d, b)
         /\ LiveEntry(f, c, b) => LiveEntry([f EXCEPT !.count = @ + 1], d, b)
<1>1. \A n \in 1..Window + 1 : Prefix(d, n) = Prefix(c, n) + 1 /\ Prefix(c, n) \in Nat
  BY OneCharge, ChargesSum
<1>2. Window \in 1..Window + 1
  OBVIOUS
<1>3. ASSUME NoEntry(c, b) PROVE LiveEntry([count |-> 1, age |-> 0, block |-> 0], d, b)
  <2>1. Prefix(d, 1) = 1
    <3>1. 0 \in Nat /\ (\A m \in 0..0 : d[m] \in Int) /\ d[0] = 1
      BY <1>3 DEF NoEntry, Charges
    <3>2. Prefix(d, 0 + 1) = Prefix(d, 0) + d[0]
      BY <3>1, PrefixStep
    <3> QED BY <3>1, <3>2, PrefixZero
  <2>2. Prefix(d, Window) <= 1 + b
    BY <1>1, <1>2, <1>3 DEF NoEntry
  <2> QED BY <2>1, <2>2 DEF LiveEntry
<1>4. ASSUME LiveEntry(f, c, b) PROVE LiveEntry([f EXCEPT !.count = @ + 1], d, b)
  <2>1. f.age + 1 \in 1..Window + 1 /\ f.count \in Nat
    BY <1>4 DEF LiveEntry, Entries
  <2>2. [f EXCEPT !.count = @ + 1].age = f.age /\ [f EXCEPT !.count = @ + 1].count = f.count + 1
    BY DEF Entries
  <2> QED BY <1>1, <1>2, <1>4, <2>1, <2>2 DEF LiveEntry
<1>5. ~Expired([count |-> 1, age |-> 0, block |-> 0]) /\ ~Blocked([count |-> 1, age |-> 0, block |-> 0])
  BY DEF Expired, Blocked
<1> QED BY <1>3, <1>4, <1>5 DEF EntryOK

\* The budget is spent: the address is blocked from now on.
LEMMA BlockKeeps ==
  ASSUME NEW c \in Charges, NEW b \in Nat, NEW f \in Entries, f.count <= b, LiveEntry(f, c, b)
  PROVE  EntryOK([count |-> 0, age |-> 0, block |-> Block], c, b)
<1> DEFINE r == [count |-> 0, age |-> 0, block |-> Block]
<1>1. Blocked(r) /\ ~Expired(r) /\ r.count = 0
  BY DEF Blocked, Expired
<1>2. Lesser(Block - r.block, Window) = 0
  BY DEF Lesser
<1>3. Prefix(c, Window) <= 2 * b
  <2>1. Prefix(c, Window) \in Nat /\ f.count \in Nat
    BY ChargesSum DEF Entries
  <2> QED BY <2>1 DEF LiveEntry
<1>4. BlockedEntry(r, c, b)
  BY <1>2, <1>3, PrefixZero DEF BlockedEntry
<1> HIDE DEF r
<1>5. EntryOK(r, c, b)
  BY <1>1, <1>4 DEF EntryOK
<1> QED BY <1>5 DEF r

\* An attempt is handed back to the entry it was counted in.
LEMMA HandBackKeeps ==
  ASSUME NEW c \in Charges, NEW d \in Charges, NEW n \in 0..Window,
         d[n] = c[n] - 1, \A m \in 0..Window : m # n => d[m] = c[m],
         NEW b \in Nat, NEW f \in Entries, LiveEntry(f, c, b), f.count > 0, n <= f.age
  PROVE  /\ LiveEntry([f EXCEPT !.count = @ - 1], d, b)
         /\ f.count = 1 => NoEntry(d, b)
<1> DEFINE a == f.age + 1
<1>1. a \in 1..Window + 1 /\ n < a /\ Window \in 1..Window + 1 /\ f.count \in Nat \ {0}
  BY DEF LiveEntry, Entries
<1>2. Prefix(d, a) = Prefix(c, a) - 1
  <2>1. d[n] = c[n] + (-1) /\ -1 \in Int
    BY DEF Charges
  <2>2. a \in 0..Window + 1
    BY <1>1
  <2> HIDE DEF a
  <2>3. Prefix(d, a) = Prefix(c, a) + (-1) /\ Prefix(c, a) \in Nat
    BY <1>1, <2>1, <2>2, OneCharge, ChargesSum
  <2> QED BY <2>3
<1>3. Prefix(d, a) <= f.count - 1 /\ Prefix(d, a) \in Nat
  <2>1. Prefix(c, a) <= f.count /\ Prefix(c, a) \in Nat /\ Prefix(d, a) \in Nat
    BY <1>1, ChargesSum DEF LiveEntry
  <2> HIDE DEF a
  <2> QED BY <1>1, <1>2, <2>1
<1>4. Prefix(d, Window) <= (f.count - 1) + b
  <2>1. CASE n < Window
    <3>1. d[n] = c[n] + (-1) /\ -1 \in Int /\ Window \in 0..Window + 1
      BY DEF Charges
    <3>2. Prefix(d, Window) = Prefix(c, Window) + (-1) /\ Prefix(c, Window) \in Nat
      BY <2>1, <3>1, OneCharge, ChargesSum
    <3> QED BY <1>1, <3>2 DEF LiveEntry
  <2>2. CASE ~ (n < Window)
    <3>1. a = Window + 1 /\ Window \in 0..a /\ a \in 0..Window + 1
      BY <1>1, <2>2
    <3>2. Prefix(d, Window) \in Nat /\ Prefix(d, Window) <= Prefix(d, a)
      <4> HIDE DEF a
      <4> QED BY <3>1, ChargesSum
    <3> HIDE DEF a
    <3> QED BY <1>1, <1>3, <3>2
  <2> QED BY <2>1, <2>2
<1>5. LiveEntry([f EXCEPT !.count = @ - 1], d, b)
  <2>1. [f EXCEPT !.count = @ - 1].age = f.age /\ [f EXCEPT !.count = @ - 1].count = f.count - 1
    BY DEF Entries
  <2> QED BY <1>1, <1>3, <1>4, <2>1 DEF LiveEntry
<1>6. ASSUME f.count = 1 PROVE NoEntry(d, b)
  <2>1. 1 \in 0..a /\ a \in 0..Window + 1
    BY <1>1
  <2>2. Prefix(d, 1) = 0
    <3> HIDE DEF a
    <3>1. Prefix(d, 1) <= Prefix(d, a) /\ Prefix(d, 1) \in Nat
      BY <2>1, ChargesSum
    <3> QED BY <1>3, <1>6, <3>1
  <2>3. d[0] = 0
    <3>1. 0 \in Nat /\ (\A m \in 0..0 : d[m] \in Int) /\ d[0] \in Nat
      BY DEF Charges
    <3>2. Prefix(d, 0 + 1) = Prefix(d, 0) + d[0]
      BY <3>1, PrefixStep
    <3> QED BY <2>2, <3>1, <3>2, PrefixZero
  <2>4. Prefix(d, Window) <= b
    BY <1>4, <1>6
  <2> QED BY <2>3, <2>4 DEF NoEntry
<1> QED BY <1>5, <1>6

\* A step of the clock.
LEMMA TickKeeps ==
  ASSUME NEW c \in Charges, NEW d \in Charges, d[0] = 0, \A m \in 1..Window : d[m] <= c[m - 1],
         NEW b \in Nat, NEW f \in Entries, f.count <= b
  PROVE  /\ NoEntry(c, b) => NoEntry(d, b)
         /\ EntryOK(f, c, b) => EntryOK(Aged(f), d, b)
<1>1. ASSUME NEW n \in 0..Window PROVE Prefix(d, n + 1) <= Prefix(c, n) /\ Prefix(d, n + 1) \in Nat /\ Prefix(c, n) \in Nat
  <2>1. /\ \A m \in 0..Window : c[m] \in Int /\ d[m] \in Int
        /\ \A m \in 1..Window : d[m] <= c[m - 1]
        /\ Window \in Nat /\ n \in 0..Window + 1 /\ n + 1 \in 0..Window + 1
    BY DEF Charges
  <2>2. Prefix(d, n + 1) <= d[0] + Prefix(c, n)
    BY <2>1, PrefixShift
  <2>3. Prefix(d, n + 1) \in Nat /\ Prefix(c, n) \in Nat
    BY <2>1, ChargesSum
  <2> QED BY <2>2, <2>3
<1>2. Prefix(d, Window) <= Prefix(c, Window - 1)
  BY <1>1, Window - 1 \in 0..Window, (Window - 1) + 1 = Window
<1>3. ASSUME NEW n \in 0..Window + 1, NEW k \in 0..n PROVE Prefix(c, k) <= Prefix(c, n) /\ Prefix(c, k) \in Nat /\ Prefix(c, n) \in Nat
  BY ChargesSum
<1>4. Prefix(d, Window) \in Nat /\ Prefix(d, Window) <= Prefix(c, Window) /\ Prefix(c, Window) \in Nat
      /\ Prefix(c, Window - 1) \in Nat
  <2>1. Window \in 0..Window + 1 /\ Window - 1 \in 0..Window
    OBVIOUS
  <2> QED BY <1>2, <1>3, <2>1, ChargesSum
<1>5. NoEntry(c, b) => NoEntry(d, b)
  BY <1>4 DEF NoEntry
<1>6. ASSUME Expired(f), NoEntry(c, b) PROVE EntryOK(Aged(f), d, b)
  <2>1. Expired(Aged(f)) /\ ~Blocked(Aged(f))
    BY <1>6 DEF Expired, Blocked, Aged, Entries
  <2> QED BY <1>5, <1>6, <2>1 DEF EntryOK
<1>7. ASSUME Blocked(f), f.count = 0, BlockedEntry(f, c, b) PROVE EntryOK(Aged(f), d, b)
  <2> DEFINE e == Block - f.block
             g == Aged(f)
  <2>1. e \in 0..Block - 1 /\ g.block = f.block - 1 /\ g.count = 0
    BY <1>7 DEF Blocked, Aged, Entries
  <2>2. Prefix(d, Lesser(e + 1, Window)) = 0
    <3> DEFINE k == Lesser(e + 1, Window)
    <3>1. k \in 1..Window /\ k - 1 \in 0..Lesser(e, Window) /\ Lesser(e, Window) \in 0..Window + 1 /\ k - 1 \in 0..Window
          /\ (k - 1) + 1 = k
      BY <2>1 DEF Lesser
    <3>2. Prefix(c, Lesser(e, Window)) = 0
      BY <1>7 DEF BlockedEntry
    <3> HIDE DEF k, e
    <3>3. Prefix(c, k - 1) = 0
      BY <1>3, <3>1, <3>2
    <3>4. Prefix(d, k) <= Prefix(c, k - 1) /\ Prefix(d, k) \in Nat
      BY <1>1, <3>1
    <3> QED BY <3>3, <3>4 DEF k
  <2>3. Block - g.block = e + 1
    BY <2>1 DEF Entries
  <2>4. Prefix(d, Window) <= 2 * b
    BY <1>4, <1>7 DEF BlockedEntry
  <2>5. CASE Blocked(g)
    <3>1. BlockedEntry(g, d, b)
      BY <2>2, <2>3, <2>4 DEF BlockedEntry
    <3>2. ~Expired(g)
      BY <2>5 DEF Expired
    <3> QED BY <2>1, <2>5, <3>1, <3>2 DEF EntryOK
  <2>6. CASE ~Blocked(g)
    <3>1. g.block = 0 /\ Expired(g)
      BY <2>1, <2>6 DEF Blocked, Expired, Entries
    <3>2. Lesser(e + 1, Window) = Window
      BY <2>3, <3>1 DEF Lesser
    <3>3. NoEntry(d, b)
      BY <2>2, <3>2 DEF NoEntry
    <3> QED BY <2>6, <3>1, <3>3 DEF EntryOK
  <2> QED BY <2>5, <2>6
<1>8. ASSUME ~Expired(f), ~Blocked(f), LiveEntry(f, c, b) PROVE EntryOK(Aged(f), d, b)
  <2> DEFINE g == Aged(f)
  <2>1. /\ f.age \in 0..Window /\ g.age = f.age + 1 /\ g.count = f.count /\ f.count \in Nat /\ f.count > 0
        /\ ~Blocked(g)
    BY <1>8 DEF LiveEntry, Aged, Entries, Blocked, Expired
  <2>2. Prefix(c, f.age + 1) <= f.count /\ Prefix(c, Window) <= f.count + b
    BY <1>8 DEF LiveEntry
  <2>3. CASE f.age = Window
    <3>1. Expired(g)
      BY <2>1, <2>3 DEF Expired
    <3>2. Prefix(d, Window) <= b
      <4>1. Window + 1 \in 0..Window + 1 /\ Window \in 0..Window + 1
        OBVIOUS
      <4>2. Prefix(c, Window) <= Prefix(c, Window + 1) /\ Prefix(c, Window + 1) \in Nat
        BY <1>3, <4>1
      <4> QED BY <1>4, <2>1, <2>2, <2>3, <4>2
    <3> QED BY <2>1, <3>1, <3>2 DEF EntryOK, NoEntry
  <2>4. CASE f.age # Window
    <3>1. f.age + 1 \in 0..Window
      BY <2>1, <2>4
    <3>2. Prefix(d, (f.age + 1) + 1) <= f.count
      BY <1>1, <2>1, <2>2, <3>1
    <3>3. LiveEntry(g, d, b)
      BY <1>4, <2>1, <2>2, <3>1, <3>2 DEF LiveEntry
    <3>4. ~Expired(g)
      BY <2>1, <3>1 DEF Expired
    <3> QED BY <2>1, <3>3, <3>4 DEF EntryOK
  <2> QED BY <2>1, <2>3, <2>4
<1> QED BY <1>5, <1>6, <1>7, <1>8 DEF EntryOK

-----------------------------------------------------------------------------
(* The map: how large it may be.                                           *)

MapOK(h) ==
    /\ IsFiniteSet(DOMAIN h) /\ DOMAIN h \subseteq Addresses \cup Users
    /\ h \in [DOMAIN h -> Entries]
    /\ Cardinality(DOMAIN h \cap Addresses) <= MaxKeys

\* Entries that leave it, and entries that change.
LEMMA SmallerMap ==
  ASSUME NEW h, MapOK(h), NEW D, D \subseteq DOMAIN h, NEW g \in [D -> Entries]
  PROVE  MapOK(g)
<1>1. IsFiniteSet(D)
  BY FS_Subset DEF MapOK
<1>2. IsFiniteSet(DOMAIN h \cap Addresses) /\ D \cap Addresses \in SUBSET (DOMAIN h \cap Addresses)
  BY FS_Subset DEF MapOK
<1>3. IsFiniteSet(D \cap Addresses) /\ Cardinality(D \cap Addresses) <= Cardinality(DOMAIN h \cap Addresses)
  BY <1>2, FS_Subset
<1>4. Cardinality(D \cap Addresses) \in Nat /\ Cardinality(DOMAIN h \cap Addresses) \in Nat
  BY <1>2, <1>3, FS_CardinalityType
<1> QED BY <1>1, <1>3, <1>4 DEF MapOK

\* An account's own entry, an address that has one, or one that finds room.
LEMMA LargerMap ==
  ASSUME NEW h, MapOK(h), NEW k, NEW f \in Entries,
         \/ k \in Users
         \/ k \in DOMAIN h
         \/ k \in Addresses /\ ~Full(h)
  PROVE  MapOK(With(h, k, f))
<1> DEFINE D == DOMAIN h \cup {k}
<1>1. With(h, k, f) \in [D -> Entries]
  BY DEF With, MapOK
<1>2. IsFiniteSet(D) /\ D \subseteq Addresses \cup Users
  BY FS_AddElement DEF MapOK
<1>3. IsFiniteSet(DOMAIN h \cap Addresses) /\ Cardinality(DOMAIN h \cap Addresses) \in Nat
  BY FS_Subset, FS_CardinalityType DEF MapOK
<1>4. Cardinality(D \cap Addresses) <= MaxKeys
  <2>1. CASE k \in Users \/ k \in DOMAIN h
    <3>1. D \cap Addresses = DOMAIN h \cap Addresses
      BY <2>1 DEF Addresses
    <3> QED BY <3>1 DEF MapOK
  <2>2. CASE k \in Addresses /\ k \notin DOMAIN h /\ ~Full(h)
    <3>1. D \cap Addresses = (DOMAIN h \cap Addresses) \cup {k}
      BY <2>2
    <3>2. Cardinality(D \cap Addresses) = Cardinality(DOMAIN h \cap Addresses) + 1
      BY <1>3, <2>2, <3>1, FS_AddElement
    <3>3. Cardinality(DOMAIN h \cap Addresses) <= Cardinality(DOMAIN h) /\ Cardinality(DOMAIN h) \in Nat
      BY FS_Subset, FS_CardinalityType DEF MapOK
    <3>4. Cardinality(DOMAIN h) < MaxKeys
      BY <2>2, <3>3 DEF Full
    <3> QED BY <1>3, <3>2, <3>3, <3>4
  <2> QED BY <2>1, <2>2
<1> QED BY <1>1, <1>2, <1>4 DEF MapOK

\* reserveMax up to its decision: only entries that are over have left.
Remains(g) ==
    /\ MapOK(g)
    /\ \A j \in DOMAIN g : j \in DOMAIN fails /\ g[j] = fails[j]
    /\ \A j \in DOMAIN fails : ~Expired(fails[j]) => j \in DOMAIN g

LEMMA SweepRemains == ASSUME NEW g, Remains(g) PROVE Remains(Sweep(g))
<1>1. /\ DOMAIN Sweep(g) = Live(g) /\ Live(g) \subseteq DOMAIN g
      /\ Sweep(g) \in [Live(g) -> Entries]
      /\ \A j \in Live(g) : Sweep(g)[j] = g[j]
  BY DEF Sweep, Live, Remains, MapOK
<1>2. MapOK(Sweep(g))
  BY <1>1, SmallerMap DEF Remains
<1> QED BY <1>1, <1>2 DEF Remains, Live

LEMMA Decided ==
  ASSUME MapOK(fails), NEW k, NEW routine \in BOOLEAN
  PROVE  /\ Remains(Map(k, routine))
         /\ k \in DOMAIN Map(k, routine) => ~Expired(Map(k, routine)[k])
<1> DEFINE g1 == IF routine THEN Sweep(fails) ELSE fails
           g2 == Found(k, routine)
<1>1. Remains(g1)
  BY SweepRemains DEF Remains
<1>2. Remains(g2) /\ (k \in DOMAIN g2 => ~Expired(g2[k]))
  <2>1. g2 = IF k \in DOMAIN g1 /\ Expired(g1[k]) THEN Without(g1, {k}) ELSE g1
    BY DEF Found
  <2>2. CASE k \in DOMAIN g1 /\ Expired(g1[k])
    <3>1. /\ DOMAIN Without(g1, {k}) = DOMAIN g1 \ {k}
          /\ Without(g1, {k}) \in [DOMAIN g1 \ {k} -> Entries]
          /\ \A j \in DOMAIN g1 \ {k} : Without(g1, {k})[j] = g1[j]
      <4> HIDE DEF g1
      <4> QED BY <1>1 DEF Without, Remains, MapOK
    <3> HIDE DEF g1
    <3>2. MapOK(Without(g1, {k}))
      BY <1>1, <3>1, SmallerMap DEF Remains
    <3> QED BY <1>1, <2>1, <2>2, <3>1, <3>2 DEF Remains
  <2> HIDE DEF g1, g2
  <2>3. CASE ~ (k \in DOMAIN g1 /\ Expired(g1[k]))
    BY <1>1, <2>1, <2>3
  <2> QED BY <2>2, <2>3
<1>3. CASE SweepsFull(k, routine)
  <2>1. Map(k, routine) = Sweep(g2)
    BY <1>3 DEF Map
  <2>2. k \notin DOMAIN Sweep(g2)
    BY <1>3 DEF SweepsFull, Sweep, Live
  <2> HIDE DEF g2
  <2> QED BY <1>2, <2>1, <2>2, SweepRemains
<1>4. CASE ~SweepsFull(k, routine)
  BY <1>2, <1>4 DEF Map
<1> QED BY <1>3, <1>4

-----------------------------------------------------------------------------
(* What is charged to an address: its guesses, and its attempts that have  *)
(* just reached the age of the window.                                     *)

AttemptStates == [Attempts -> [step: {"idle", "reserved", "checking"}, key: Addresses,
                               user: Users \cup {NoUser}, age: 0..Window + 1, counted: BOOLEAN]]
GuessStates == [Addresses -> [0..Window - 1 -> Nat]]

Open(a, k, n) ==
    {p \in Attempts : a[p].step # "idle" /\ a[p].counted /\ a[p].key = k /\ a[p].age = n}

ChargesOf(g, a, k) ==
    [n \in 0..Window |-> IF n < Window THEN g[k][n] ELSE Cardinality(Open(a, k, n))]

\* Every attempt under way is among the guesses of its age.
Counted(g, a) == \A k \in Addresses, n \in 0..Window - 1 : Cardinality(Open(a, k, n)) <= g[k][n]

\* What the actions make of the requests and of the guesses.
Reserved(a, t, k, u) ==
    [a EXCEPT ![t] = [step |-> "reserved", key |-> k, user |-> u, age |-> 0, counted |-> TRUE]]
Guessed(g, k) == [g EXCEPT ![k][0] = @ + 1]
Ended(a, t) == [a EXCEPT ![t] = Idle]
Unguessed(g, a, t) ==
    LET k == a[t].key  n == a[t].age
    IN IF a[t].counted /\ n < Window THEN [g EXCEPT ![k][n] = @ - 1] ELSE g
Cleared(a, t, k) ==
    [p \in Attempts |-> IF p = t THEN Idle ELSE IF a[p].key = k THEN [a[p] EXCEPT !.counted = FALSE] ELSE a[p]]
NoneGuessed(g, k) == [g EXCEPT ![k] = NoGuesses]
AgedAttempts(a) ==
    [t \in Attempts |-> IF a[t].step = "idle" \/ a[t].age > Window THEN a[t] ELSE [a[t] EXCEPT !.age = @ + 1]]
AgedGuesses(g) ==
    [k \in Addresses |-> [n \in 0..Window - 1 |-> IF n = 0 THEN 0 ELSE g[k][n - 1]]]

LEMMA OpenFinite ==
  ASSUME NEW a, NEW k, NEW n
  PROVE  IsFiniteSet(Open(a, k, n)) /\ Cardinality(Open(a, k, n)) \in Nat
<1>1. Open(a, k, n) \in SUBSET Attempts
  BY DEF Open
<1> QED BY <1>1, FS_Subset, FS_CardinalityType

LEMMA ChargesType ==
  ASSUME NEW g \in GuessStates, NEW a, NEW k \in Addresses
  PROVE  ChargesOf(g, a, k) \in Charges
BY OpenFinite DEF GuessStates, ChargesOf, Charges

LEMMA ReservedCharge ==
  ASSUME NEW g \in GuessStates, NEW a \in AttemptStates, Counted(g, a),
         NEW t \in Attempts, a[t].step = "idle", NEW k \in Addresses, NEW u \in Users \cup {NoUser}
  PROVE  /\ Guessed(g, k) \in GuessStates /\ Reserved(a, t, k, u) \in AttemptStates /\ Counted(Guessed(g, k), Reserved(a, t, k, u))
         /\ ChargesOf(Guessed(g, k), Reserved(a, t, k, u), k)[0] = ChargesOf(g, a, k)[0] + 1
         /\ \A m \in 0..Window : m # 0 => ChargesOf(Guessed(g, k), Reserved(a, t, k, u), k)[m] = ChargesOf(g, a, k)[m]
         /\ \A j \in Addresses \ {k} : ChargesOf(Guessed(g, k), Reserved(a, t, k, u), j) = ChargesOf(g, a, j)
<1> DEFINE g2 == Guessed(g, k)
           a2 == Reserved(a, t, k, u)
<1> USE DEF Guessed, Reserved
<1>1. a2 \in AttemptStates
  BY DEF AttemptStates
<1>2. /\ g2 \in GuessStates /\ g2[k][0] = g[k][0] + 1
      /\ \A m \in 1..Window - 1 : g2[k][m] = g[k][m]
      /\ \A j \in Addresses \ {k} : g2[j] = g[j]
  BY DEF GuessStates
<1>3. Open(a2, k, 0) = Open(a, k, 0) \cup {t} /\ t \notin Open(a, k, 0)
  BY DEF Open, AttemptStates
<1>4. ASSUME NEW j \in Addresses, NEW n \in 0..Window, j # k \/ n # 0 PROVE Open(a2, j, n) = Open(a, j, n)
  BY <1>4 DEF Open, AttemptStates
<1>5. Cardinality(Open(a2, k, 0)) = Cardinality(Open(a, k, 0)) + 1
  BY <1>3, OpenFinite, FS_AddElement
<1> HIDE DEF g2, a2
<1>6. Counted(g2, a2)
  <2> SUFFICES ASSUME NEW j \in Addresses, NEW n \in 0..Window - 1
               PROVE  Cardinality(Open(a2, j, n)) <= g2[j][n]
    BY DEF Counted
  <2>1. Cardinality(Open(a, j, n)) <= g[j][n] /\ g[j][n] \in Nat /\ Cardinality(Open(a, j, n)) \in Nat
    BY OpenFinite DEF Counted, GuessStates
  <2>2. CASE j = k /\ n = 0
    BY <1>2, <1>5, <2>1, <2>2
  <2>3. CASE j # k \/ n # 0
    BY <1>2, <1>4, <2>1, <2>3
  <2> QED BY <2>2, <2>3
<1>7. ChargesOf(g2, a2, k)[0] = ChargesOf(g, a, k)[0] + 1
  BY <1>2 DEF ChargesOf
<1>8. \A m \in 0..Window : m # 0 => ChargesOf(g2, a2, k)[m] = ChargesOf(g, a, k)[m]
  BY <1>2, <1>4 DEF ChargesOf
<1>9. ASSUME NEW j \in Addresses \ {k} PROVE ChargesOf(g2, a2, j) = ChargesOf(g, a, j)
  BY <1>2, <1>4 DEF ChargesOf
<1> QED BY <1>1, <1>2, <1>6, <1>7, <1>8, <1>9 DEF g2, a2

\* A request ends; its guess stands.
LEMMA EndedCharge ==
  ASSUME NEW g \in GuessStates, NEW a \in AttemptStates, Counted(g, a), NEW t \in Attempts
  PROVE  /\ Ended(a, t) \in AttemptStates /\ Counted(g, Ended(a, t))
         /\ \A j \in Addresses, m \in 0..Window : ChargesOf(g, Ended(a, t), j)[m] <= ChargesOf(g, a, j)[m]
<1> DEFINE a2 == Ended(a, t)
<1> USE DEF Ended
<1>1. a2 \in AttemptStates
  BY DEF AttemptStates, Idle, Addresses
<1>2. ASSUME NEW j \in Addresses, NEW n \in 0..Window
      PROVE  /\ Cardinality(Open(a2, j, n)) <= Cardinality(Open(a, j, n))
             /\ Cardinality(Open(a2, j, n)) \in Nat /\ Cardinality(Open(a, j, n)) \in Nat
  <2>1. Open(a2, j, n) \in SUBSET Open(a, j, n)
    BY DEF Open, AttemptStates, Idle
  <2> HIDE DEF a2
  <2> QED BY <2>1, OpenFinite, FS_Subset
<1> HIDE DEF a2
<1>3. Counted(g, a2)
  <2> SUFFICES ASSUME NEW j \in Addresses, NEW n \in 0..Window - 1
               PROVE  Cardinality(Open(a2, j, n)) <= g[j][n]
    BY DEF Counted
  <2>1. Cardinality(Open(a, j, n)) <= g[j][n] /\ g[j][n] \in Nat
    BY DEF Counted, GuessStates
  <2> QED BY <1>2, <2>1
<1>4. ASSUME NEW j \in Addresses, NEW m \in 0..Window PROVE ChargesOf(g, a2, j)[m] <= ChargesOf(g, a, j)[m]
  BY <1>2 DEF ChargesOf, GuessStates
<1> QED BY <1>1, <1>3, <1>4 DEF a2

\* A request ends and was no guess (NoGuess).
LEMMA HandedBackCharge ==
  ASSUME NEW g \in GuessStates, NEW a \in AttemptStates, Counted(g, a),
         NEW t \in Attempts, a[t].step # "idle"
  PROVE  /\ Unguessed(g, a, t) \in GuessStates /\ Ended(a, t) \in AttemptStates /\ Counted(Unguessed(g, a, t), Ended(a, t))
         /\ \A j \in Addresses, m \in 0..Window : ChargesOf(Unguessed(g, a, t), Ended(a, t), j)[m] <= ChargesOf(g, a, j)[m]
         /\ a[t].counted /\ a[t].age <= Window =>
               /\ ChargesOf(Unguessed(g, a, t), Ended(a, t), a[t].key)[a[t].age] = ChargesOf(g, a, a[t].key)[a[t].age] - 1
               /\ \A m \in 0..Window : m # a[t].age => ChargesOf(Unguessed(g, a, t), Ended(a, t), a[t].key)[m] = ChargesOf(g, a, a[t].key)[m]
<1> DEFINE k == a[t].key
           n == a[t].age
           g2 == Unguessed(g, a, t)
           a2 == Ended(a, t)
<1> USE DEF Unguessed, Ended
<1>1. a2 \in AttemptStates /\ k \in Addresses /\ n \in 0..Window + 1 /\ a[t].counted \in BOOLEAN
  BY DEF AttemptStates, Idle, Addresses
<1>2. ASSUME NEW j \in Addresses, NEW m \in 0..Window
      PROVE  Open(a2, j, m) = IF a[t].counted /\ j = k /\ m = n THEN Open(a, j, m) \ {t} ELSE Open(a, j, m)
  BY DEF Open, AttemptStates, Idle
<1>3. a[t].counted => t \in Open(a, k, n)
  BY DEF Open
<1> HIDE DEF a2
<1>4. ASSUME NEW j \in Addresses, NEW m \in 0..Window
      PROVE  /\ Cardinality(Open(a2, j, m)) =
                   IF a[t].counted /\ j = k /\ m = n THEN Cardinality(Open(a, j, m)) - 1 ELSE Cardinality(Open(a, j, m))
             /\ Cardinality(Open(a, j, m)) \in Nat
  <2>1. CASE a[t].counted /\ j = k /\ m = n
    <3> HIDE DEF k, n
    <3> QED BY <1>2, <1>3, <2>1, OpenFinite, FS_RemoveElement
  <2>2. CASE ~ (a[t].counted /\ j = k /\ m = n)
    BY <1>2, <2>2, OpenFinite
  <2> QED BY <2>1, <2>2
<1>5. ASSUME a[t].counted, n < Window PROVE g[k][n] \in Nat \ {0}
  <2>1. n \in 0..Window - 1 /\ Cardinality(Open(a, k, n)) <= g[k][n] /\ g[k][n] \in Nat
    BY <1>1, <1>5 DEF Counted, GuessStates
  <2>2. Cardinality(Open(a, k, n)) # 0
    <3> HIDE DEF k, n
    <3> QED BY <1>3, <1>5, OpenFinite, FS_EmptySet
  <2> HIDE DEF k, n
  <2> QED BY <2>1, <2>2, OpenFinite
<1>6. /\ g2 \in GuessStates
      /\ \A j \in Addresses, m \in 0..Window - 1 :
            g2[j][m] = IF a[t].counted /\ j = k /\ m = n THEN g[j][m] - 1 ELSE g[j][m]
  <2>0. g2 = IF a[t].counted /\ n < Window THEN [g EXCEPT ![k][n] = @ - 1] ELSE g
    OBVIOUS
  <2> HIDE DEF k, n, g2
  <2>1. CASE a[t].counted /\ n < Window
    <3>1. g2 = [g EXCEPT ![k][n] = @ - 1] /\ n \in 0..Window - 1 /\ g[k][n] - 1 \in Nat
      BY <1>1, <1>5, <2>0, <2>1
    <3>2. /\ g2[k] = [g[k] EXCEPT ![n] = g[k][n] - 1] /\ \A j \in Addresses \ {k} : g2[j] = g[j]
          /\ g[k] \in [0..Window - 1 -> Nat]
      BY <1>1, <3>1 DEF GuessStates
    <3>3. g2[k] \in [0..Window - 1 -> Nat] /\ g2[k][n] = g[k][n] - 1 /\ \A m \in 0..Window - 1 : m # n => g2[k][m] = g[k][m]
      BY <3>1, <3>2
    <3>4. g2 \in GuessStates
      BY <1>1, <3>1, <3>2, <3>3 DEF GuessStates
    <3> QED BY <2>1, <3>2, <3>3, <3>4
  <2>2. CASE ~ (a[t].counted /\ n < Window)
    BY <1>1, <2>0, <2>2
  <2> QED BY <2>1, <2>2
<1> HIDE DEF g2, k, n
<1>7. Counted(g2, a2)
  <2> SUFFICES ASSUME NEW j \in Addresses, NEW m \in 0..Window - 1
               PROVE  Cardinality(Open(a2, j, m)) <= g2[j][m]
    BY DEF Counted
  <2>1. Cardinality(Open(a, j, m)) <= g[j][m] /\ g[j][m] \in Nat
    BY DEF Counted, GuessStates
  <2> QED BY <1>4, <1>6, <2>1
<1>8. ASSUME NEW j \in Addresses, NEW m \in 0..Window
      PROVE  /\ ChargesOf(g2, a2, j)[m] =
                   IF a[t].counted /\ j = k /\ m = n THEN ChargesOf(g, a, j)[m] - 1 ELSE ChargesOf(g, a, j)[m]
             /\ ChargesOf(g, a, j)[m] \in Nat
  <2>1. CASE m < Window
    BY <1>6, <2>1 DEF ChargesOf, GuessStates
  <2>2. CASE ~ (m < Window)
    BY <1>4, <2>2 DEF ChargesOf
  <2> QED BY <2>1, <2>2
<1>9. \A j \in Addresses, m \in 0..Window : ChargesOf(g2, a2, j)[m] <= ChargesOf(g, a, j)[m]
  BY <1>8
<1>10. ASSUME a[t].counted, n <= Window
       PROVE  /\ ChargesOf(g2, a2, k)[n] = ChargesOf(g, a, k)[n] - 1
              /\ \A m \in 0..Window : m # n => ChargesOf(g2, a2, k)[m] = ChargesOf(g, a, k)[m]
  BY <1>1, <1>8, <1>10
<1> QED BY <1>1, <1>6, <1>7, <1>9, <1>10 DEF g2, a2, k, n

\* A success forgets the guesses of its address, and who else is under way
\* there no longer counts.
LEMMA ClearedCharge ==
  ASSUME NEW g \in GuessStates, NEW a \in AttemptStates, Counted(g, a),
         NEW t \in Attempts, NEW k \in Addresses, a[t].key = k
  PROVE  /\ NoneGuessed(g, k) \in GuessStates /\ Cleared(a, t, k) \in AttemptStates /\ Counted(NoneGuessed(g, k), Cleared(a, t, k))
         /\ \A m \in 0..Window : ChargesOf(NoneGuessed(g, k), Cleared(a, t, k), k)[m] = 0
         /\ \A j \in Addresses \ {k} : ChargesOf(NoneGuessed(g, k), Cleared(a, t, k), j) = ChargesOf(g, a, j)
<1> DEFINE g2 == NoneGuessed(g, k)
           a2 == Cleared(a, t, k)
<1> USE DEF NoneGuessed, Cleared
<1>1. a2 \in AttemptStates
  <2>1. ASSUME NEW p \in Attempts PROVE [a[p] EXCEPT !.counted = FALSE] \in
          [step: {"idle", "reserved", "checking"}, key: Addresses,
           user: Users \cup {NoUser}, age: 0..Window + 1, counted: BOOLEAN]
    BY DEF AttemptStates
  <2> QED BY <2>1 DEF AttemptStates, Idle, Addresses
<1>2. /\ g2 \in GuessStates /\ \A m \in 0..Window - 1 : g2[k][m] = 0
      /\ \A j \in Addresses \ {k} : g2[j] = g[j]
  BY DEF GuessStates, NoGuesses
<1>3. ASSUME NEW n \in 0..Window PROVE Open(a2, k, n) = {}
  BY DEF Open, AttemptStates, Idle
<1>4. ASSUME NEW j \in Addresses \ {k}, NEW n \in 0..Window PROVE Open(a2, j, n) = Open(a, j, n)
  BY DEF Open, AttemptStates, Idle
<1> HIDE DEF g2, a2
<1>5. Counted(g2, a2)
  <2> SUFFICES ASSUME NEW j \in Addresses, NEW n \in 0..Window - 1
               PROVE  Cardinality(Open(a2, j, n)) <= g2[j][n]
    BY DEF Counted
  <2>1. CASE j = k
    <3>1. Open(a2, k, n) = {} /\ g2[k][n] = 0
      BY <1>2, <1>3
    <3> QED BY <2>1, <3>1, FS_EmptySet
  <2>2. CASE j # k
    BY <1>2, <1>4, <2>2 DEF Counted
  <2> QED BY <2>1, <2>2
<1>6. ASSUME NEW m \in 0..Window PROVE ChargesOf(g2, a2, k)[m] = 0
  BY <1>2, <1>3, FS_EmptySet DEF ChargesOf
<1>7. ASSUME NEW j \in Addresses \ {k} PROVE ChargesOf(g2, a2, j) = ChargesOf(g, a, j)
  BY <1>2, <1>4 DEF ChargesOf
<1> QED BY <1>1, <1>2, <1>5, <1>6, <1>7 DEF g2, a2

LEMMA TickedCharge ==
  ASSUME NEW g \in GuessStates, NEW a \in AttemptStates, Counted(g, a)
  PROVE  /\ AgedGuesses(g) \in GuessStates /\ AgedAttempts(a) \in AttemptStates /\ Counted(AgedGuesses(g), AgedAttempts(a))
         /\ \A k \in Addresses :
               /\ ChargesOf(AgedGuesses(g), AgedAttempts(a), k)[0] = 0
               /\ \A m \in 1..Window : ChargesOf(AgedGuesses(g), AgedAttempts(a), k)[m] <= ChargesOf(g, a, k)[m - 1]
<1> DEFINE g2 == AgedGuesses(g)
           a2 == AgedAttempts(a)
<1> USE DEF AgedGuesses, AgedAttempts
<1>1. a2 \in AttemptStates
  <2>1. ASSUME NEW t \in Attempts, ~ (a[t].age > Window) PROVE [a[t] EXCEPT !.age = @ + 1] \in
          [step: {"idle", "reserved", "checking"}, key: Addresses,
           user: Users \cup {NoUser}, age: 0..Window + 1, counted: BOOLEAN]
    BY <2>1 DEF AttemptStates
  <2> QED BY <2>1 DEF AttemptStates
<1>2. /\ g2 \in GuessStates /\ \A k \in Addresses : g2[k][0] = 0
      /\ \A k \in Addresses, m \in 1..Window - 1 : g2[k][m] = g[k][m - 1]
  <2>1. \A n \in 0..Window - 1 : n # 0 => n - 1 \in 0..Window - 1
    OBVIOUS
  <2> QED BY <2>1 DEF GuessStates
<1>3. ASSUME NEW k \in Addresses PROVE Open(a2, k, 0) = {}
  BY DEF Open, AttemptStates
<1>4. ASSUME NEW k \in Addresses, NEW n \in 1..Window PROVE Open(a2, k, n) \subseteq Open(a, k, n - 1)
  <2> SUFFICES ASSUME NEW t \in Attempts, t \in Open(a2, k, n) PROVE t \in Open(a, k, n - 1)
    BY DEF Open
  <2>1. a[t].age \in 0..Window + 1 /\ a[t].step # "idle" /\ a[t].age <= Window
    BY DEF Open, AttemptStates
  <2>2. a2[t] = [a[t] EXCEPT !.age = @ + 1] /\ a2[t].age = a[t].age + 1
    BY <2>1 DEF AttemptStates
  <2> QED BY <2>1, <2>2 DEF Open, AttemptStates
<1> HIDE DEF g2, a2
<1>5. ASSUME NEW k \in Addresses, NEW n \in 1..Window
      PROVE  /\ Cardinality(Open(a2, k, n)) <= g[k][n - 1] /\ g[k][n - 1] \in Nat
             /\ Cardinality(Open(a2, k, n)) \in Nat
  <2>1. n - 1 \in 0..Window - 1
    OBVIOUS
  <2>2. /\ Cardinality(Open(a2, k, n)) <= Cardinality(Open(a, k, n - 1))
        /\ Cardinality(Open(a2, k, n)) \in Nat /\ Cardinality(Open(a, k, n - 1)) \in Nat
    BY <1>4, OpenFinite, FS_Subset
  <2>3. Cardinality(Open(a, k, n - 1)) <= g[k][n - 1] /\ g[k][n - 1] \in Nat
    BY <2>1 DEF Counted, GuessStates
  <2> QED BY <2>2, <2>3
<1>6. Counted(g2, a2)
  <2> SUFFICES ASSUME NEW k \in Addresses, NEW n \in 0..Window - 1
               PROVE  Cardinality(Open(a2, k, n)) <= g2[k][n]
    BY DEF Counted
  <2>1. CASE n = 0
    <3>1. Open(a2, k, 0) = {} /\ g2[k][0] = 0
      BY <1>2, <1>3
    <3> QED BY <2>1, <3>1, FS_EmptySet
  <2>2. CASE n # 0
    <3>1. n \in 1..Window /\ n \in 1..Window - 1
      BY <2>2
    <3> QED BY <1>2, <1>5, <3>1
  <2> QED BY <2>1, <2>2
<1>7. ASSUME NEW k \in Addresses
      PROVE  /\ ChargesOf(g2, a2, k)[0] = 0
             /\ \A m \in 1..Window : ChargesOf(g2, a2, k)[m] <= ChargesOf(g, a, k)[m - 1]
  <2>1. ChargesOf(g2, a2, k)[0] = 0
    BY <1>2 DEF ChargesOf
  <2>2. ASSUME NEW m \in 1..Window PROVE ChargesOf(g2, a2, k)[m] <= ChargesOf(g, a, k)[m - 1]
    <3>1. ChargesOf(g, a, k)[m - 1] = g[k][m - 1] /\ g[k][m - 1] \in Nat
      BY <1>5 DEF ChargesOf
    <3>2. CASE m < Window
      <4>1. ChargesOf(g2, a2, k)[m] = g[k][m - 1]
        BY <1>2, <3>2 DEF ChargesOf
      <4> QED BY <3>1, <4>1
    <3>3. CASE ~ (m < Window)
      <4>1. m = Window /\ ChargesOf(g2, a2, k)[m] = Cardinality(Open(a2, k, Window))
        BY <3>3 DEF ChargesOf
      <4> QED BY <1>5, <3>1, <4>1
    <3> QED BY <3>2, <3>3
  <2> QED BY <2>1, <2>2
<1> QED BY <1>1, <1>2, <1>6, <1>7 DEF g2, a2

-----------------------------------------------------------------------------
(* The invariant, and the actions one by one.                              *)

RestOK ==
    /\ swept \in BOOLEAN /\ attempt \in AttemptStates /\ guesses \in GuessStates
    /\ strayed \subseteq Addresses /\ wrong \subseteq Addresses

CountsWithin == \A k \in Addresses : k \in DOMAIN fails => fails[k].count <= Budget(k)

KeyOK(k) ==
    IF k \in DOMAIN fails THEN EntryOK(fails[k], ChargesOf(guesses, attempt, k), Budget(k))
    ELSE NoEntry(ChargesOf(guesses, attempt, k), Budget(k))

LoginInv ==
    /\ MapOK(fails) /\ RestOK /\ CountsWithin
    /\ Counted(guesses, attempt)
    /\ \A k \in Addresses \ strayed : KeyOK(k)

LEMMA BudgetType == \A k \in Addresses : Budget(k) \in Nat \ {0}
BY DEF Budget

\* An address whose entry stays, or leaves when it is over, and that is
\* charged no more than before.
LEMMA Unmoved ==
  ASSUME MapOK(fails), RestOK, RestOK', NEW k \in Addresses, KeyOK(k),
         k \in DOMAIN fails' => k \in DOMAIN fails /\ fails'[k] = fails[k],
         k \in DOMAIN fails => Expired(fails[k]) \/ k \in DOMAIN fails',
         \A m \in 0..Window : ChargesOf(guesses', attempt', k)[m] <= ChargesOf(guesses, attempt, k)[m]
  PROVE  KeyOK(k)'
<1> DEFINE c == ChargesOf(guesses, attempt, k)
           d == ChargesOf(guesses', attempt', k)
           b == Budget(k)
<1>1. c \in Charges /\ d \in Charges /\ b \in Nat
  BY ChargesType, BudgetType DEF RestOK
<1>2. k \in DOMAIN fails => fails[k] \in Entries
  BY DEF MapOK
<1>3. \A m \in 0..Window : d[m] <= c[m]
  OBVIOUS
<1>4. [count |-> 0, age |-> 0, block |-> 0] \in Entries
  BY DEF Entries
<1>5. NoEntry(c, b) => NoEntry(d, b)
  <2> HIDE DEF c, d, b
  <2> QED BY <1>1, <1>3, <1>4, FewerChargesKeep
<1>6. k \in DOMAIN fails => (EntryOK(fails[k], c, b) => EntryOK(fails[k], d, b))
  <2> HIDE DEF c, d, b
  <2> QED BY <1>1, <1>2, <1>3, FewerChargesKeep
<1>7. KeyOK(k)' = IF k \in DOMAIN fails' THEN EntryOK(fails'[k], d, b) ELSE NoEntry(d, b)
  BY DEF KeyOK
<1>8. KeyOK(k) = IF k \in DOMAIN fails THEN EntryOK(fails[k], c, b) ELSE NoEntry(c, b)
  BY DEF KeyOK
<1> HIDE DEF c, d, b
<1> QED BY <1>5, <1>6, <1>7, <1>8 DEF EntryOK

LEMMA ReserveKeeps ==
  ASSUME LoginInv, NEW t \in Attempts, NEW k \in Addresses, NEW u \in Users \cup {NoUser}, Reserve(t, k, u)
  PROVE  LoginInv'
<1>1. PICK routine \in BOOLEAN : Grants(k, Map(k, routine)) /\ swept' = (swept \/ SweepsFull(k, routine))
  BY DEF Reserve
<1>2. PICK h : h = Map(k, routine)
  OBVIOUS
<1>3. Remains(h) /\ (k \in DOMAIN h => ~Expired(h[k]))
  BY <1>2, Decided DEF LoginInv
<1>4. Grants(k, h)
  BY <1>1, <1>2
<1>5. RestOK' /\ Counted(guesses', attempt')
      /\ ChargesOf(guesses', attempt', k)[0] = ChargesOf(guesses, attempt, k)[0] + 1
      /\ \A m \in 0..Window : m # 0 => ChargesOf(guesses', attempt', k)[m] = ChargesOf(guesses, attempt, k)[m]
      /\ \A j \in Addresses \ {k} : ChargesOf(guesses', attempt', j) = ChargesOf(guesses, attempt, j)
  <2>1. /\ attempt[t].step = "idle" /\ UNCHANGED <<strayed, wrong>>
        /\ guesses' = Guessed(guesses, k) /\ attempt' = Reserved(attempt, t, k, u)
    BY DEF Reserve, Guessed, Reserved
  <2>2. swept' \in BOOLEAN
    BY <1>1 DEF LoginInv, RestOK, SweepsFull
  <2>3. guesses \in GuessStates /\ attempt \in AttemptStates /\ Counted(guesses, attempt)
    BY DEF LoginInv, RestOK
  <2>4. /\ guesses' \in GuessStates /\ attempt' \in AttemptStates /\ Counted(guesses', attempt')
        /\ ChargesOf(guesses', attempt', k)[0] = ChargesOf(guesses, attempt, k)[0] + 1
        /\ \A m \in 0..Window : m # 0 => ChargesOf(guesses', attempt', k)[m] = ChargesOf(guesses, attempt, k)[m]
        /\ \A j \in Addresses \ {k} : ChargesOf(guesses', attempt', j) = ChargesOf(guesses, attempt, j)
    BY <2>1, <2>3, ReservedCharge
  <2> QED BY <2>1, <2>2, <2>4 DEF LoginInv, RestOK
<1>6. PICK f \in Entries :
        /\ fails' = With(h, k, f) /\ f.count <= Budget(k)
        /\ k \in DOMAIN h \/ ~Full(h)
        /\ k \notin strayed => EntryOK(f, ChargesOf(guesses', attempt', k), Budget(k))
  <2> DEFINE c == ChargesOf(guesses, attempt, k)
             d == ChargesOf(guesses', attempt', k)
             b == Budget(k)
             Fits(f) == /\ fails' = With(h, k, f) /\ f.count <= b
                        /\ k \in DOMAIN h \/ ~Full(h)
                        /\ k \notin strayed => EntryOK(f, d, b)
  <2>1. c \in Charges /\ d \in Charges /\ b \in Nat \ {0}
    BY <1>5, ChargesType, BudgetType DEF RestOK, LoginInv
  <2>2. d[0] = c[0] + 1 /\ \A m \in 0..Window : m # 0 => d[m] = c[m]
    BY <1>5
  <2>3. k \notin strayed => IF k \in DOMAIN fails THEN EntryOK(fails[k], c, b) ELSE NoEntry(c, b)
    BY DEF LoginInv, KeyOK
  <2>4. k \in DOMAIN h => h[k] = fails[k] /\ k \in DOMAIN fails /\ h[k] \in Entries
    BY <1>3 DEF Remains, MapOK
  <2> HIDE DEF c, d, b
  <2>5. ASSUME k \notin DOMAIN h, ~Full(h), fails' = With(h, k, [count |-> 1, age |-> 0, block |-> 0])
        PROVE  \E f \in Entries : Fits(f)
    <3> DEFINE f == [count |-> 1, age |-> 0, block |-> 0]
    <3>1. f \in Entries /\ f.count <= b
      BY <2>1 DEF Entries
    <3>2. k \notin strayed => NoEntry(c, b)
      BY <1>3, <2>3, <2>5 DEF Remains, EntryOK
    <3>3. k \notin strayed => EntryOK(f, d, b)
      BY <2>1, <2>2, <3>1, <3>2, GrantKeeps
    <3>4. fails' = With(h, k, f)
      BY <2>5
    <3> HIDE DEF f
    <3> QED BY <2>5, <3>1, <3>3, <3>4
  <2>6. ASSUME k \in DOMAIN h, ~Blocked(h[k]), h[k].count < b,
               fails' = With(h, k, [h[k] EXCEPT !.count = @ + 1])
        PROVE  \E f \in Entries : Fits(f)
    <3> DEFINE f == [h[k] EXCEPT !.count = @ + 1]
    <3>1. f \in Entries /\ f.count <= b /\ f.count # 0 /\ f.age = h[k].age /\ f.block = h[k].block
      BY <2>1, <2>4, <2>6 DEF Entries
    <3>2. ~Blocked(f) /\ (h[k].age <= Window => ~Expired(f))
      BY <3>1, <2>6, <2>4 DEF Blocked, Expired, Entries
    <3>3. k \notin strayed => LiveEntry(h[k], c, b)
      BY <1>3, <2>3, <2>4, <2>6 DEF EntryOK
    <3>4. k \notin strayed => LiveEntry(f, d, b)
      BY <2>1, <2>2, <2>4, <2>6, <3>3, GrantKeeps
    <3>5. fails' = With(h, k, f)
      BY <2>6
    <3> HIDE DEF f
    <3>6. k \notin strayed => EntryOK(f, d, b)
      BY <3>2, <3>3, <3>4 DEF EntryOK, LiveEntry
    <3> QED BY <2>6, <3>1, <3>5, <3>6
  <2>7. \E f \in Entries : Fits(f)
    BY <1>4, <2>5, <2>6 DEF Grants, b
  <2> QED BY <2>7 DEF d, b
<1>7. DOMAIN fails' = DOMAIN h \cup {k} /\ fails'[k] = f /\ \A j \in DOMAIN h \ {k} : fails'[j] = h[j]
  BY <1>6 DEF With
<1>8. MapOK(fails')
  BY <1>3, <1>6, LargerMap DEF Remains
<1>9. CountsWithin'
  <2>1. \A j \in DOMAIN h : h[j] = fails[j] /\ j \in DOMAIN fails
    BY <1>3 DEF Remains
  <2>2. \A j \in Addresses : j \in DOMAIN fails' => fails'[j].count <= Budget(j)
    BY <1>6, <1>7, <2>1 DEF LoginInv, CountsWithin
  <2> QED BY <2>2 DEF CountsWithin, Budget
<1>10. ASSUME NEW j \in Addresses \ strayed PROVE KeyOK(j)'
  <2>1. CASE j = k
    BY <1>6, <1>7, <2>1 DEF KeyOK, Budget
  <2>2. CASE j # k
    <3>1. KeyOK(j) /\ MapOK(fails) /\ RestOK
      BY DEF LoginInv
    <3>2. /\ j \in DOMAIN fails' => j \in DOMAIN fails /\ fails'[j] = fails[j]
          /\ j \in DOMAIN fails => Expired(fails[j]) \/ j \in DOMAIN fails'
      BY <1>3, <1>7, <2>2 DEF Remains
    <3>3. \A m \in 0..Window : ChargesOf(guesses', attempt', j)[m] <= ChargesOf(guesses, attempt, j)[m]
      <4>1. ChargesOf(guesses', attempt', j) = ChargesOf(guesses, attempt, j)
        BY <1>5, <2>2
      <4>2. ChargesOf(guesses, attempt, j) \in Charges
        BY <3>1, ChargesType DEF RestOK
      <4> QED BY <4>1, <4>2 DEF Charges
    <3> QED BY <1>5, <3>1, <3>2, <3>3, Unmoved
  <2> QED BY <2>1, <2>2
<1>11. strayed' = strayed
  BY DEF Reserve
<1> QED BY <1>5, <1>8, <1>9, <1>10, <1>11 DEF LoginInv

\* An address of which nothing was handed back, and that is charged the same.
LEMMA Uncharged ==
  ASSUME LoginInv, UNCHANGED <<attempt, guesses, strayed, wrong>>, swept' \in BOOLEAN
  PROVE  /\ RestOK' /\ Counted(guesses, attempt)'
         /\ \A j \in Addresses \ strayed, m \in 0..Window :
               ChargesOf(guesses', attempt', j)[m] <= ChargesOf(guesses, attempt, j)[m]
<1>1. RestOK' /\ Counted(guesses, attempt)'
  BY DEF LoginInv, RestOK
<1>2. ASSUME NEW j \in Addresses, NEW m \in 0..Window
      PROVE  ChargesOf(guesses', attempt', j)[m] <= ChargesOf(guesses, attempt, j)[m]
  <2>1. ChargesOf(guesses, attempt, j) \in Charges
    BY ChargesType DEF LoginInv, RestOK
  <2>2. ChargesOf(guesses', attempt', j) = ChargesOf(guesses, attempt, j)
    OBVIOUS
  <2>3. ChargesOf(guesses, attempt, j)[m] \in Nat
    BY <2>1 DEF Charges
  <2> QED BY <2>2, <2>3
<1> QED BY <1>1, <1>2

LEMMA TooManyTriesKeeps == ASSUME LoginInv, NEW k \in Addresses, TooManyTries(k) PROVE LoginInv'
<1>1. PICK routine \in BOOLEAN : Refuses(k, Map(k, routine)) /\ swept' = (swept \/ SweepsFull(k, routine))
  BY DEF TooManyTries
<1>2. PICK h : h = Map(k, routine)
  OBVIOUS
<1>3. Remains(h) /\ (k \in DOMAIN h => ~Expired(h[k]))
  BY <1>2, Decided DEF LoginInv
<1>4. Refuses(k, h)
  BY <1>1, <1>2
<1>5. /\ RestOK' /\ Counted(guesses, attempt)'
      /\ \A j \in Addresses \ strayed, m \in 0..Window :
            ChargesOf(guesses', attempt', j)[m] <= ChargesOf(guesses, attempt, j)[m]
  <2>1. swept' \in BOOLEAN
    BY <1>1 DEF LoginInv, RestOK, SweepsFull
  <2> QED BY <2>1, Uncharged DEF TooManyTries
<1>6. strayed' = strayed /\ attempt' = attempt /\ guesses' = guesses
  BY DEF TooManyTries
<1>7. MapOK(fails) /\ RestOK /\ CountsWithin /\ \A j \in Addresses \ strayed : KeyOK(j)
  BY DEF LoginInv
<1>8. ASSUME NEW j \in Addresses \ strayed,
             j \in DOMAIN fails' => j \in DOMAIN fails /\ fails'[j] = fails[j],
             j \in DOMAIN fails => Expired(fails[j]) \/ j \in DOMAIN fails'
      PROVE  KeyOK(j)'
  BY <1>5, <1>7, <1>8, Unmoved
<1>9. CASE fails' = h
  <2>1. MapOK(fails')
    BY <1>3, <1>9 DEF Remains
  <2>2. \A j \in Addresses :
          /\ j \in DOMAIN fails' => j \in DOMAIN fails /\ fails'[j] = fails[j]
          /\ j \in DOMAIN fails => Expired(fails[j]) \/ j \in DOMAIN fails'
    BY <1>3, <1>9 DEF Remains
  <2>3. CountsWithin'
    BY <1>7, <2>2 DEF CountsWithin, Budget
  <2>4. \A j \in Addresses \ strayed : KeyOK(j)'
    BY <1>8, <2>2
  <2> QED BY <1>5, <1>6, <2>1, <2>3, <2>4 DEF LoginInv
<1>10. CASE k \in DOMAIN h /\ ~Blocked(h[k]) /\ h[k].count >= Budget(k)
            /\ fails' = With(h, k, [count |-> 0, age |-> 0, block |-> Block])
  <2> DEFINE f == [count |-> 0, age |-> 0, block |-> Block]
  <2>1. f \in Entries /\ f.count = 0 /\ fails' = With(h, k, f)
    BY <1>10 DEF Entries
  <2>2. k \notin strayed => EntryOK(f, ChargesOf(guesses, attempt, k), Budget(k))
    <3>1. SUFFICES ASSUME k \notin strayed PROVE EntryOK(f, ChargesOf(guesses, attempt, k), Budget(k))
      OBVIOUS
    <3>2. ChargesOf(guesses, attempt, k) \in Charges /\ Budget(k) \in Nat
      BY <1>7, ChargesType, BudgetType DEF RestOK
    <3>3. h[k] = fails[k] /\ k \in DOMAIN fails /\ h[k] \in Entries
      BY <1>3, <1>10 DEF Remains, MapOK
    <3>4. h[k].count <= Budget(k) /\ LiveEntry(h[k], ChargesOf(guesses, attempt, k), Budget(k))
      BY <1>3, <1>7, <1>10, <3>1, <3>3 DEF CountsWithin, KeyOK, EntryOK
    <3> QED BY <3>2, <3>3, <3>4, BlockKeeps
  <2> HIDE DEF f
  <2>3. DOMAIN fails' = DOMAIN h \cup {k} /\ fails'[k] = f /\ \A j \in DOMAIN h \ {k} : fails'[j] = h[j]
    BY <2>1 DEF With
  <2>4. MapOK(fails')
    BY <1>3, <1>10, <2>1, LargerMap DEF Remains
  <2>5. CountsWithin'
    <3>1. \A j \in DOMAIN h : h[j] = fails[j] /\ j \in DOMAIN fails
      BY <1>3 DEF Remains
    <3>2. \A j \in Addresses : j \in DOMAIN fails' => fails'[j].count <= Budget(j)
      BY <1>7, <2>1, <2>3, <3>1, BudgetType DEF CountsWithin
    <3> QED BY <3>2 DEF CountsWithin, Budget
  <2>6. ASSUME NEW j \in Addresses \ strayed PROVE KeyOK(j)'
    <3>1. CASE j = k
      BY <1>6, <2>2, <2>3, <3>1 DEF KeyOK, Budget
    <3>2. CASE j # k
      <4>1. /\ j \in DOMAIN fails' => j \in DOMAIN fails /\ fails'[j] = fails[j]
            /\ j \in DOMAIN fails => Expired(fails[j]) \/ j \in DOMAIN fails'
        BY <1>3, <2>3, <3>2 DEF Remains
      <4> QED BY <1>8, <4>1
    <3> QED BY <3>1, <3>2
  <2> QED BY <1>5, <1>6, <2>4, <2>5, <2>6 DEF LoginInv
<1> QED BY <1>4, <1>9, <1>10 DEF Refuses

LEMMA LookupFailsKeeps == ASSUME LoginInv, NEW t \in Attempts, LookupFails(t) PROVE LoginInv'
<1>2. PICK k \in Addresses, n \in 0..Window + 1 : k = attempt[t].key /\ n = attempt[t].age
  BY DEF LoginInv, RestOK, AttemptStates
<1> DEFINE f == [fails[k] EXCEPT !.count = IF @ > 0 THEN @ - 1 ELSE 0]
<1>1. /\ attempt[t].step # "idle" /\ UNCHANGED <<swept, wrong>>
      /\ guesses' = Unguessed(guesses, attempt, t) /\ attempt' = Ended(attempt, t)
  BY DEF LookupFails, NoGuess, Ends, Unguessed, Ended
<1>3. /\ strayed \subseteq strayed' /\ strayed' \subseteq Addresses
      /\ k \notin strayed' /\ k \in DOMAIN fails /\ fails[k].count > 0 =>
            attempt[t].counted /\ ~ (fails[k].age < n)
  BY <1>2 DEF LookupFails, LoginInv, RestOK
<1>4. fails' = IF k \notin DOMAIN fails THEN fails
               ELSE IF Expired(f) THEN Without(fails, {k}) ELSE With(fails, k, f)
  BY <1>2 DEF LookupFails, HandsBack
<1>5. MapOK(fails) /\ RestOK /\ CountsWithin /\ Counted(guesses, attempt) /\ \A j \in Addresses \ strayed : KeyOK(j)
  BY DEF LoginInv
<1>6. k \in DOMAIN fails =>
        /\ fails[k] \in Entries /\ f \in Entries
        /\ f.age = fails[k].age /\ f.block = fails[k].block
        /\ f.count = IF fails[k].count > 0 THEN fails[k].count - 1 ELSE 0
  BY <1>5 DEF MapOK, Entries
<1>7. attempt[t].counted \in BOOLEAN /\ guesses \in GuessStates /\ attempt \in AttemptStates
  BY <1>5 DEF RestOK, AttemptStates
<1> HIDE DEF f
<1>8. /\ RestOK' /\ Counted(guesses, attempt)'
      /\ \A j \in Addresses, m \in 0..Window :
            ChargesOf(guesses', attempt', j)[m] <= ChargesOf(guesses, attempt, j)[m]
      /\ attempt[t].counted /\ n <= Window =>
            /\ ChargesOf(guesses', attempt', k)[n] = ChargesOf(guesses, attempt, k)[n] - 1
            /\ \A m \in 0..Window : m # n =>
                  ChargesOf(guesses', attempt', k)[m] = ChargesOf(guesses, attempt, k)[m]
  <2>1. /\ Unguessed(guesses, attempt, t) \in GuessStates /\ Ended(attempt, t) \in AttemptStates
        /\ Counted(Unguessed(guesses, attempt, t), Ended(attempt, t))
    BY <1>1, <1>5, <1>7, HandedBackCharge
  <2>2. RestOK' /\ Counted(guesses', attempt')
    BY <1>1, <1>3, <1>5, <2>1 DEF RestOK
  <2> QED BY <1>1, <1>2, <1>5, <1>7, <2>2, HandedBackCharge
<1>9. /\ DOMAIN fails' \subseteq DOMAIN fails /\ DOMAIN fails \ {k} \subseteq DOMAIN fails'
      /\ \A j \in DOMAIN fails' \ {k} : fails'[j] = fails[j]
      /\ k \in DOMAIN fails' => fails'[k] = f
      /\ k \in DOMAIN fails => (k \in DOMAIN fails' <=> ~Expired(f))
  <2>1. CASE k \notin DOMAIN fails
    BY <1>4, <2>1
  <2>2. CASE k \in DOMAIN fails /\ Expired(f)
    BY <1>4, <2>2 DEF Without
  <2>3. CASE k \in DOMAIN fails /\ ~Expired(f)
    BY <1>4, <2>3 DEF With
  <2> QED BY <2>1, <2>2, <2>3
<1>10. MapOK(fails')
  <2>1. CASE k \notin DOMAIN fails
    BY <1>4, <1>5, <2>1
  <2>2. CASE k \in DOMAIN fails /\ Expired(f)
    <3>1. Without(fails, {k}) \in [DOMAIN fails \ {k} -> Entries]
      BY <1>5 DEF Without, MapOK
    <3>2. MapOK(Without(fails, {k}))
      BY <1>5, <3>1, SmallerMap
    <3> QED BY <1>4, <2>2, <3>2
  <2>3. CASE k \in DOMAIN fails /\ ~Expired(f)
    <3>1. MapOK(With(fails, k, f))
      BY <1>5, <1>6, <2>3, LargerMap
    <3> QED BY <1>4, <2>3, <3>1
  <2> QED BY <2>1, <2>2, <2>3
<1>11. CountsWithin'
  <2>1. ASSUME NEW j \in Addresses, j \in DOMAIN fails' PROVE fails'[j].count <= Budget(j)
    <3>1. j \in DOMAIN fails /\ fails[j].count <= Budget(j) /\ Budget(j) \in Nat
      BY <1>5, <1>9, <2>1, BudgetType DEF CountsWithin
    <3>2. CASE j = k
      <4>1. fails[k].count \in Nat /\ f.count <= fails[k].count
        BY <1>6, <3>1, <3>2 DEF Entries
      <4> QED BY <1>6, <1>9, <2>1, <3>1, <3>2, <4>1 DEF Entries
    <3> QED BY <1>9, <2>1, <3>1, <3>2
  <2> QED BY <2>1 DEF CountsWithin, Budget
<1>12. ASSUME NEW j \in Addresses \ strayed,
              j \in DOMAIN fails' => j \in DOMAIN fails /\ fails'[j] = fails[j],
              j \in DOMAIN fails => Expired(fails[j]) \/ j \in DOMAIN fails'
       PROVE  KeyOK(j)'
  BY <1>5, <1>8, <1>12, Unmoved
<1>13. ASSUME k \notin strayed' PROVE KeyOK(k)'
  <2>1. CASE k \notin DOMAIN fails
    BY <1>2, <1>3, <1>4, <1>12, <1>13, <2>1
  <2>2. CASE k \in DOMAIN fails /\ fails[k].count = 0
    <3>1. f = fails[k]
      BY <1>6, <2>2 DEF Entries
    <3> QED BY <1>2, <1>3, <1>9, <1>12, <1>13, <2>2, <3>1
  <2>3. CASE k \in DOMAIN fails /\ fails[k].count # 0
    <3> DEFINE c == ChargesOf(guesses, attempt, k)
               d == ChargesOf(guesses', attempt', k)
               b == Budget(k)
    <3>1. fails[k].count > 0 /\ attempt[t].counted /\ n <= fails[k].age /\ fails[k].age \in 0..Window + 1
      BY <1>2, <1>3, <1>6, <1>13, <2>3 DEF Entries
    <3>2. EntryOK(fails[k], c, b)
      BY <1>2, <1>3, <1>5, <1>13, <2>3 DEF KeyOK
    <3>3. CASE Expired(fails[k])
      <4>1. Expired(f)
        BY <1>6, <2>3, <3>3 DEF Expired, Blocked
      <4> QED BY <1>2, <1>3, <1>9, <1>12, <1>13, <2>3, <3>3, <4>1
    <3>4. CASE ~Expired(fails[k])
      <4>1. ~Blocked(fails[k]) /\ LiveEntry(fails[k], c, b)
        BY <2>3, <3>2, <3>4 DEF EntryOK
      <4>2. n \in 0..Window
        BY <1>2, <3>1, <4>1 DEF LiveEntry
      <4>3. c \in Charges /\ d \in Charges /\ b \in Nat
        BY <1>2, <1>5, <1>8, ChargesType, BudgetType DEF RestOK
      <4>4. d[n] = c[n] - 1 /\ \A m \in 0..Window : m # n => d[m] = c[m]
        BY <1>8, <3>1, <4>2
      <4> DEFINE r == [fails[k] EXCEPT !.count = @ - 1]
      <4>5. f = r
        BY <1>6, <2>3, <3>1 DEF f, Entries
      <4> HIDE DEF c, d, b
      <4>6. LiveEntry(r, d, b) /\ (fails[k].count = 1 => NoEntry(d, b))
        BY <1>6, <2>3, <3>1, <4>1, <4>2, <4>3, <4>4, HandBackKeeps
      <4>7. LiveEntry(f, d, b)
        BY <4>5, <4>6
      <4>8. ~Blocked(f) /\ (Expired(f) => fails[k].count = 1)
        BY <1>6, <2>3, <3>1, <4>1, <4>7 DEF Blocked, Expired, LiveEntry, Entries
      <4>9. EntryOK(f, d, b) /\ (Expired(f) => NoEntry(d, b))
        BY <4>6, <4>7, <4>8 DEF EntryOK
      <4>10. IF k \in DOMAIN fails' THEN EntryOK(fails'[k], d, b) ELSE NoEntry(d, b)
        BY <1>9, <2>3, <4>9
      <4> QED BY <4>10 DEF KeyOK, Budget, d, b
    <3> QED BY <3>3, <3>4
  <2> QED BY <2>1, <2>2, <2>3
<1>14. ASSUME NEW j \in Addresses \ strayed' PROVE KeyOK(j)'
  <2>1. CASE j = k
    BY <1>13, <2>1
  <2>2. CASE j # k
    BY <1>3, <1>9, <1>12, <2>2
  <2> QED BY <2>1, <2>2
<1> QED BY <1>8, <1>10, <1>11, <1>14 DEF LoginInv

LEMMA LooksUpKeeps == ASSUME LoginInv, NEW t \in Attempts, LooksUp(t) PROVE LoginInv'
<1>1. /\ attempt[t].step = "reserved" /\ attempt' = [attempt EXCEPT ![t].step = "checking"]
      /\ UNCHANGED <<fails, swept, guesses, strayed, wrong>>
  BY DEF LooksUp
<1>2. attempt \in AttemptStates /\ guesses \in GuessStates /\ RestOK
  BY DEF LoginInv, RestOK
<1>3. attempt' \in AttemptStates
  <2>1. [attempt[t] EXCEPT !.step = "checking"] \in
          [step: {"idle", "reserved", "checking"}, key: Addresses,
           user: Users \cup {NoUser}, age: 0..Window + 1, counted: BOOLEAN]
    BY <1>2 DEF AttemptStates
  <2> QED BY <1>1, <1>2, <2>1 DEF AttemptStates
<1>4. RestOK'
  BY <1>1, <1>2, <1>3 DEF RestOK
<1>5. ASSUME NEW k, NEW n PROVE Open(attempt', k, n) = Open(attempt, k, n)
  BY <1>1, <1>2 DEF Open, AttemptStates
<1>6. Counted(guesses', attempt')
  BY <1>1, <1>5 DEF LoginInv, Counted
<1>7. ASSUME NEW k \in Addresses PROVE ChargesOf(guesses', attempt', k) = ChargesOf(guesses, attempt, k)
  BY <1>1, <1>5 DEF ChargesOf
<1>8. MapOK(fails') /\ CountsWithin'
  BY <1>1 DEF LoginInv, CountsWithin, Budget
<1>9. ASSUME NEW k \in Addresses \ strayed PROVE KeyOK(k)'
  BY <1>1, <1>7 DEF LoginInv, KeyOK, Budget
<1> QED BY <1>1, <1>4, <1>6, <1>8, <1>9 DEF LoginInv

\* The accounts' own entries are not the addresses' concern.
LEMMA WrongPasswordKeeps == ASSUME LoginInv, NEW t \in Attempts, WrongPassword(t) PROVE LoginInv'
<1>1. /\ UNCHANGED <<swept, guesses, strayed>> /\ attempt' = Ended(attempt, t)
      /\ wrong' = wrong \cup {attempt[t].key}
  BY DEF WrongPassword, Ends, Ended
<1>2. MapOK(fails) /\ RestOK /\ CountsWithin /\ Counted(guesses, attempt) /\ \A j \in Addresses \ strayed : KeyOK(j)
  BY DEF LoginInv
<1>3. attempt \in AttemptStates /\ guesses \in GuessStates /\ attempt[t].key \in Addresses
      /\ attempt[t].user \in Users \cup {NoUser}
  BY <1>2 DEF RestOK, AttemptStates
<1>4. /\ attempt' \in AttemptStates /\ Counted(guesses', attempt')
      /\ \A j \in Addresses, m \in 0..Window :
            ChargesOf(guesses', attempt', j)[m] <= ChargesOf(guesses, attempt, j)[m]
  BY <1>1, <1>2, <1>3, EndedCharge
<1>5. RestOK'
  BY <1>1, <1>2, <1>3, <1>4 DEF RestOK
<1>6. /\ MapOK(fails')
      /\ \A j \in Addresses : (j \in DOMAIN fails' <=> j \in DOMAIN fails) /\ (j \in DOMAIN fails => fails'[j] = fails[j])
  <2>1. CASE attempt[t].user = NoUser
    BY <1>2, <2>1 DEF WrongPassword
  <2>2. CASE attempt[t].user # NoUser
    <3>1. PICK u \in Users : u = attempt[t].user
      BY <1>3, <2>2
    <3> DEFINE e == IF u \in DOMAIN fails /\ ~Expired(fails[u]) THEN fails[u] ELSE [count |-> 0, age |-> 0, block |-> 0]
               f == [e EXCEPT !.count = IF @ < UserMaxFails THEN @ + 1 ELSE @]
    <3>2. e \in Entries
      BY <1>2 DEF MapOK, Entries
    <3>3. fails' = With(fails, u, f)
      BY <2>2, <3>1 DEF WrongPassword, CountsFailure
    <3> HIDE DEF e
    <3>4. f \in Entries
      BY <3>2 DEF Entries
    <3> HIDE DEF f
    <3>5. MapOK(fails')
      BY <1>2, <3>3, <3>4, LargerMap
    <3>6. u \notin Addresses
      BY DEF Addresses
    <3> QED BY <3>3, <3>5, <3>6 DEF With
  <2> QED BY <2>1, <2>2
<1>7. CountsWithin'
  BY <1>2, <1>6 DEF CountsWithin, Budget
<1>8. ASSUME NEW j \in Addresses \ strayed PROVE KeyOK(j)'
  BY <1>2, <1>4, <1>5, <1>6, Unmoved
<1> QED BY <1>1, <1>4, <1>5, <1>6, <1>7, <1>8 DEF LoginInv

LEMMA SignsInKeeps == ASSUME LoginInv, NEW t \in Attempts, SignsIn(t) PROVE LoginInv'
<1>1. PICK k \in Addresses, u \in Users : k = attempt[t].key /\ u = attempt[t].user
  BY DEF SignsIn, LoginInv, RestOK, AttemptStates
<1>2. MapOK(fails) /\ RestOK /\ CountsWithin /\ Counted(guesses, attempt) /\ \A j \in Addresses \ strayed : KeyOK(j)
  BY DEF LoginInv
<1>3. attempt \in AttemptStates /\ guesses \in GuessStates /\ u \notin Addresses /\ swept' = swept
      /\ attempt[t].step # "idle"
  BY <1>2 DEF RestOK, SignsIn, Addresses
<1>4. ASSUME NEW K \in SUBSET (Addresses \cup Users), fails' = Without(fails, K)
      PROVE  /\ MapOK(fails') /\ CountsWithin'
             /\ DOMAIN fails' = DOMAIN fails \ K /\ \A j \in DOMAIN fails \ K : fails'[j] = fails[j]
  <2>1. Without(fails, K) \in [DOMAIN fails \ K -> Entries]
    BY <1>2 DEF Without, MapOK
  <2>2. MapOK(fails')
    BY <1>2, <1>4, <2>1, SmallerMap
  <2>3. DOMAIN fails' = DOMAIN fails \ K /\ \A j \in DOMAIN fails \ K : fails'[j] = fails[j]
    BY <1>4 DEF Without
  <2>4. CountsWithin'
    BY <1>2, <2>3 DEF CountsWithin, Budget
  <2> QED BY <2>2, <2>3, <2>4
<1>5. CASE k = Shared
  <2>1. /\ fails' = Without(fails, {u}) /\ UNCHANGED <<strayed, wrong>>
        /\ guesses' = Unguessed(guesses, attempt, t) /\ attempt' = Ended(attempt, t)
    BY <1>1, <1>5 DEF SignsIn, NoGuess, Ends, Unguessed, Ended
  <2>2. /\ MapOK(fails') /\ CountsWithin'
        /\ \A j \in Addresses : (j \in DOMAIN fails' <=> j \in DOMAIN fails) /\ (j \in DOMAIN fails => fails'[j] = fails[j])
    <3>1. {u} \in SUBSET (Addresses \cup Users)
      OBVIOUS
    <3>2. /\ MapOK(fails') /\ CountsWithin'
          /\ DOMAIN fails' = DOMAIN fails \ {u} /\ \A j \in DOMAIN fails \ {u} : fails'[j] = fails[j]
      BY <1>4, <2>1, <3>1
    <3> QED BY <1>3, <3>2
  <2>3. /\ guesses' \in GuessStates /\ attempt' \in AttemptStates /\ Counted(guesses', attempt')
        /\ \A j \in Addresses, m \in 0..Window :
              ChargesOf(guesses', attempt', j)[m] <= ChargesOf(guesses, attempt, j)[m]
    BY <1>2, <1>3, <2>1, HandedBackCharge
  <2>4. RestOK'
    BY <1>2, <1>3, <2>1, <2>3 DEF RestOK
  <2>5. ASSUME NEW j \in Addresses \ strayed PROVE KeyOK(j)'
    BY <1>2, <2>2, <2>3, <2>4, Unmoved
  <2> QED BY <2>1, <2>2, <2>3, <2>4, <2>5 DEF LoginInv
<1>6. CASE k # Shared
  <2>1. /\ fails' = Without(fails, {k, u}) /\ strayed' = strayed \ {k} /\ wrong' = wrong \ {k}
        /\ guesses' = NoneGuessed(guesses, k) /\ attempt' = Cleared(attempt, t, k)
    BY <1>1, <1>6 DEF SignsIn, NoneGuessed, Cleared
  <2>2. /\ MapOK(fails') /\ CountsWithin' /\ k \notin DOMAIN fails'
        /\ \A j \in Addresses \ {k} : (j \in DOMAIN fails' <=> j \in DOMAIN fails) /\ (j \in DOMAIN fails => fails'[j] = fails[j])
    <3>1. {k, u} \in SUBSET (Addresses \cup Users)
      OBVIOUS
    <3>2. /\ MapOK(fails') /\ CountsWithin'
          /\ DOMAIN fails' = DOMAIN fails \ {k, u} /\ \A j \in DOMAIN fails \ {k, u} : fails'[j] = fails[j]
      BY <1>4, <2>1, <3>1
    <3> QED BY <1>3, <3>2
  <2>3. /\ guesses' \in GuessStates /\ attempt' \in AttemptStates /\ Counted(guesses', attempt')
        /\ \A m \in 0..Window : ChargesOf(guesses', attempt', k)[m] = 0
        /\ \A j \in Addresses \ {k} : ChargesOf(guesses', attempt', j) = ChargesOf(guesses, attempt, j)
    BY <1>1, <1>2, <1>3, <2>1, ClearedCharge
  <2>4. RestOK'
    BY <1>2, <1>3, <2>1, <2>3 DEF RestOK
  <2>5. KeyOK(k)'
    <3> DEFINE d == ChargesOf(guesses', attempt', k)
    <3>1. \A m \in 0..Window : d[m] = 0
      BY <2>3
    <3> HIDE DEF d
    <3>2. Prefix(d, Window) = 0
      BY <3>1, NothingCharged
    <3>3. NoEntry(d, Budget(k))
      BY <3>1, <3>2, BudgetType DEF NoEntry
    <3> QED BY <2>2, <3>3 DEF KeyOK, Budget, d
  <2>6. ASSUME NEW j \in Addresses \ strayed' PROVE KeyOK(j)'
    <3>1. CASE j = k
      BY <2>5, <3>1
    <3>2. CASE j # k
      <4>1. ChargesOf(guesses, attempt, j) \in Charges /\ ChargesOf(guesses', attempt', j) = ChargesOf(guesses, attempt, j)
        BY <1>3, <2>3, <3>2, ChargesType
      <4>2. \A m \in 0..Window : ChargesOf(guesses', attempt', j)[m] <= ChargesOf(guesses, attempt, j)[m]
        BY <4>1 DEF Charges
      <4>3. j \in Addresses \ strayed /\ KeyOK(j)
        BY <1>2, <2>1, <3>2
      <4> QED BY <1>2, <2>2, <2>4, <3>2, <4>2, <4>3, Unmoved
    <3> QED BY <3>1, <3>2
  <2> QED BY <2>2, <2>3, <2>4, <2>6 DEF LoginInv
<1> QED BY <1>5, <1>6

LEMMA TickKeepsAll == ASSUME LoginInv, Tick PROVE LoginInv'
<1>1. /\ UNCHANGED <<strayed, wrong>> /\ swept' \in BOOLEAN
      /\ fails' = [k \in DOMAIN fails |-> Aged(fails[k])]
      /\ guesses' = AgedGuesses(guesses) /\ attempt' = AgedAttempts(attempt)
  BY DEF Tick, AgedGuesses, AgedAttempts, LoginInv, RestOK
<1>2. MapOK(fails) /\ RestOK /\ CountsWithin /\ Counted(guesses, attempt) /\ \A j \in Addresses \ strayed : KeyOK(j)
  BY DEF LoginInv
<1>3. attempt \in AttemptStates /\ guesses \in GuessStates
  BY <1>2 DEF RestOK
<1>4. /\ guesses' \in GuessStates /\ attempt' \in AttemptStates /\ Counted(guesses', attempt')
      /\ \A k \in Addresses :
            /\ ChargesOf(guesses', attempt', k)[0] = 0
            /\ \A m \in 1..Window : ChargesOf(guesses', attempt', k)[m] <= ChargesOf(guesses, attempt, k)[m - 1]
  BY <1>1, <1>2, <1>3, TickedCharge
<1>5. RestOK'
  BY <1>1, <1>2, <1>4 DEF RestOK
<1>6. ASSUME NEW f \in Entries PROVE Aged(f) \in Entries /\ Aged(f).count = f.count
  <2>1. /\ f.age <= Window => f.age + 1 \in 0..Window + 1
        /\ f.block # 0 => f.block - 1 \in 0..Block
    BY DEF Entries
  <2>2. (IF f.age > Window THEN f.age ELSE f.age + 1) \in 0..Window + 1
        /\ (IF f.block = 0 THEN 0 ELSE f.block - 1) \in 0..Block
    BY <2>1 DEF Entries
  <2> QED BY <2>2 DEF Aged, Entries
<1>7. fails' \in [DOMAIN fails -> Entries] /\ \A k \in DOMAIN fails : fails[k] \in Entries /\ fails'[k] = Aged(fails[k])
  BY <1>1, <1>2, <1>6 DEF MapOK
<1>8. MapOK(fails')
  BY <1>2, <1>7, SmallerMap
<1>9. CountsWithin'
  <2>1. \A k \in Addresses : k \in DOMAIN fails' => fails'[k].count <= Budget(k)
    BY <1>2, <1>6, <1>7 DEF CountsWithin
  <2> QED BY <2>1 DEF CountsWithin, Budget
<1>10. ASSUME NEW k \in Addresses \ strayed PROVE KeyOK(k)'
  <2> DEFINE c == ChargesOf(guesses, attempt, k)
             d == ChargesOf(guesses', attempt', k)
             b == Budget(k)
  <2>1. c \in Charges /\ d \in Charges /\ b \in Nat
    BY <1>3, <1>4, ChargesType, BudgetType
  <2>2. d[0] = 0 /\ \A m \in 1..Window : d[m] <= c[m - 1]
    BY <1>4
  <2>3. IF k \in DOMAIN fails THEN EntryOK(fails[k], c, b) ELSE NoEntry(c, b)
    BY <1>2 DEF KeyOK
  <2>4. [count |-> 0, age |-> 0, block |-> 0] \in Entries /\ [count |-> 0, age |-> 0, block |-> 0].count = 0
    BY DEF Entries
  <2>5. k \in DOMAIN fails => fails[k].count <= b /\ fails[k] \in Entries
    BY <1>2, <1>7 DEF CountsWithin
  <2> HIDE DEF c, d, b
  <2>6. CASE k \in DOMAIN fails
    <3>1. EntryOK(Aged(fails[k]), d, b)
      BY <2>1, <2>2, <2>3, <2>5, <2>6, TickKeeps
    <3> QED BY <1>7, <2>6, <3>1 DEF KeyOK, Budget, d, b
  <2>7. CASE k \notin DOMAIN fails
    <3>1. 0 <= b
      BY <2>1
    <3>2. NoEntry(d, b)
      BY <2>1, <2>2, <2>3, <2>4, <2>7, <3>1, TickKeeps
    <3> QED BY <1>7, <2>7, <3>2 DEF KeyOK, Budget, d, b
  <2> QED BY <2>6, <2>7
<1> QED BY <1>1, <1>4, <1>5, <1>8, <1>9, <1>10 DEF LoginInv

LEMMA LoginInit == ASSUME Init PROVE LoginInv
<1>1. DOMAIN fails = {} /\ fails \in [DOMAIN fails -> Entries]
  BY DEF Init
<1>2. MapOK(fails)
  <2>1. IsFiniteSet(DOMAIN fails) /\ DOMAIN fails \subseteq Addresses \cup Users
    BY <1>1, FS_EmptySet
  <2>2. DOMAIN fails \cap Addresses = {}
    BY <1>1
  <2>3. Cardinality(DOMAIN fails \cap Addresses) <= MaxKeys
    BY <2>2, FS_EmptySet
  <2> QED BY <1>1, <2>1, <2>3 DEF MapOK
<1>0. /\ swept = FALSE /\ attempt = [t \in Attempts |-> Idle] /\ strayed = {} /\ wrong = {}
      /\ guesses = [k \in Addresses |-> NoGuesses]
  BY DEF Init
<1>3. RestOK /\ \A k \in Addresses, m \in 0..Window - 1 : guesses[k][m] = 0
  <2>1. Idle \in [step: {"idle", "reserved", "checking"}, key: Addresses,
                  user: Users \cup {NoUser}, age: 0..Window + 1, counted: BOOLEAN]
    BY DEF Idle, Addresses
  <2>2. attempt \in AttemptStates
    BY <1>0, <2>1 DEF AttemptStates
  <2>3. NoGuesses \in [0..Window - 1 -> Nat] /\ \A m \in 0..Window - 1 : NoGuesses[m] = 0
    BY DEF NoGuesses
  <2>4. guesses \in GuessStates /\ \A k \in Addresses, m \in 0..Window - 1 : guesses[k][m] = 0
    BY <1>0, <2>3 DEF GuessStates
  <2> QED BY <1>0, <2>2, <2>4 DEF RestOK
<1>4. ASSUME NEW k, NEW n PROVE Open(attempt, k, n) = {}
  BY DEF Open, Init, Idle
<1>5. Counted(guesses, attempt)
  BY <1>3, <1>4, FS_EmptySet DEF Counted
<1>6. ASSUME NEW k \in Addresses PROVE KeyOK(k)
  <2> DEFINE c == ChargesOf(guesses, attempt, k)
  <2>1. ASSUME NEW m \in 0..Window PROVE c[m] = 0
    <3>1. CASE m < Window
      BY <1>3, <3>1 DEF ChargesOf
    <3>2. CASE ~ (m < Window)
      BY <1>4, <3>2, FS_EmptySet DEF ChargesOf
    <3> QED BY <3>1, <3>2
  <2> HIDE DEF c
  <2>2. NoEntry(c, Budget(k))
    BY <2>1, NothingCharged, BudgetType DEF NoEntry
  <2> QED BY <1>1, <2>2 DEF KeyOK, c
<1> QED BY <1>1, <1>2, <1>3, <1>5, <1>6 DEF LoginInv, CountsWithin

LEMMA LoginStep == ASSUME LoginInv, [Next]_vars PROVE LoginInv'
<1>1. ASSUME NEW t \in Attempts, NEW k \in Addresses, NEW u \in Users \cup {NoUser}, Reserve(t, k, u) PROVE LoginInv'
  BY <1>1, ReserveKeeps
<1>2. ASSUME NEW k \in Addresses, TooManyTries(k) PROVE LoginInv'
  BY <1>2, TooManyTriesKeeps
<1>3. ASSUME NEW t \in Attempts, LookupFails(t) PROVE LoginInv'
  BY <1>3, LookupFailsKeeps
<1>4. ASSUME NEW t \in Attempts, LooksUp(t) PROVE LoginInv'
  BY <1>4, LooksUpKeeps
<1>5. ASSUME NEW t \in Attempts, WrongPassword(t) PROVE LoginInv'
  BY <1>5, WrongPasswordKeeps
<1>6. ASSUME NEW t \in Attempts, SignsIn(t) PROVE LoginInv'
  BY <1>6, SignsInKeeps
<1>7. CASE Tick
  BY <1>7, TickKeepsAll
<1>8. CASE UNCHANGED vars
  <2>1. MapOK(fails)' /\ RestOK' /\ CountsWithin' /\ Counted(guesses, attempt)'
    BY <1>8 DEF vars, LoginInv, RestOK, CountsWithin, Budget
  <2>2. ASSUME NEW k \in Addresses \ strayed PROVE KeyOK(k)'
    BY <1>8 DEF vars, LoginInv, KeyOK, Budget
  <2> QED BY <1>8, <2>1, <2>2 DEF vars, LoginInv
<1> QED BY <1>1, <1>2, <1>3, <1>4, <1>5, <1>6, <1>7, <1>8 DEF Next

THEOREM LoginInvariant == Spec => []LoginInv
<1>1. Init => LoginInv
  BY LoginInit
<1>2. LoginInv /\ [Next]_vars => LoginInv'
  BY LoginStep
<1> QED BY <1>1, <1>2, PTL DEF Spec

\* The limiter's map stays within its bound, the entries of the accounts
\* excepted, which fail records without asking for room.
THEOREM LoginTypeOK == Spec => []TypeOK
<1>1. LoginInv => TypeOK
  <2> SUFFICES ASSUME LoginInv PROVE TypeOK
    OBVIOUS
  <2> DEFINE K == DOMAIN fails
  <2>1. MapOK(fails) /\ RestOK
    BY DEF LoginInv
  <2>2. IsFiniteSet(K \cap Addresses) /\ IsFiniteSet(K) /\ K \subseteq (K \cap Addresses) \cup Users
    BY <2>1, FS_Subset DEF MapOK
  <2>3. Cardinality((K \cap Addresses) \cup Users) <= Cardinality(K \cap Addresses) + Cardinality(Users)
        /\ IsFiniteSet((K \cap Addresses) \cup Users)
    <3>1. IsFiniteSet((K \cap Addresses) \cup Users)
      BY <2>2, FS_Union
    <3>2. /\ Cardinality((K \cap Addresses) \cup Users) =
                Cardinality(K \cap Addresses) + Cardinality(Users) - Cardinality((K \cap Addresses) \cap Users)
          /\ IsFiniteSet((K \cap Addresses) \cap Users)
      BY <2>2, FS_Union, FS_Intersection
    <3>3. /\ Cardinality((K \cap Addresses) \cap Users) \in Nat /\ Cardinality(K \cap Addresses) \in Nat
          /\ Cardinality(Users) \in Nat
      BY <2>2, <3>2, FS_CardinalityType
    <3> QED BY <3>1, <3>2, <3>3
  <2>4. Cardinality(K) <= Cardinality((K \cap Addresses) \cup Users)
    BY <2>2, <2>3, FS_Subset
  <2>5. Cardinality(K) <= MaxKeys + Cardinality(Users)
    <3>1. /\ Cardinality(K) \in Nat /\ Cardinality(K \cap Addresses) \in Nat /\ Cardinality(Users) \in Nat
          /\ Cardinality((K \cap Addresses) \cup Users) \in Nat
      BY <2>2, <2>3, FS_CardinalityType
    <3>2. Cardinality(K \cap Addresses) <= MaxKeys
      BY <2>1 DEF MapOK
    <3> QED BY <2>3, <2>4, <3>1, <3>2
  <2>6. K \in SUBSET (Addresses \cup Users) /\ fails \in [K -> Entries]
    BY <2>1 DEF MapOK
  <2> HIDE DEF K
  <2> QED BY <2>1, <2>5, <2>6 DEF TypeOK, RestOK, AttemptStates, GuessStates
<1> QED BY <1>1, LoginInvariant, PTL

\* No address gets more guesses at passwords in a span of the window than two
\* budgets, whoever signs in at once and however the clock and the sweeps fall.
THEOREM GuessesAreBounded == Spec => []GuessesBounded
<1>1. LoginInv => GuessesBounded
  <2> SUFFICES ASSUME LoginInv, NEW k \in Addresses \ strayed
               PROVE  SumFunction(guesses[k]) <= 2 * Budget(k)
    BY DEF GuessesBounded
  <2> DEFINE c == ChargesOf(guesses, attempt, k)
             b == Budget(k)
  <2>1. guesses \in GuessStates /\ c \in Charges /\ b \in Nat /\ KeyOK(k) /\ MapOK(fails)
    BY ChargesType, BudgetType DEF LoginInv, RestOK
  <2>2. SumFunction(guesses[k]) = Prefix(c, Window)
    <3>1. DOMAIN guesses[k] = 0..Window - 1 /\ IsFiniteSet(0..Window - 1)
      BY <2>1, FS_Interval DEF GuessStates
    <3>2. \A m \in 0..Window - 1 : guesses[k][m] = c[m]
      BY DEF ChargesOf
    <3>3. SumFunctionOnSet(guesses[k], 0..Window - 1) = SumFunctionOnSet(c, 0..Window - 1)
      <4> HIDE DEF c
      <4> QED BY <3>1, <3>2, SumSame
    <3> QED BY <3>1, <3>3 DEF Prefix, SumFunction
  <2>3. Prefix(c, Window) \in Nat
    BY <2>1, ChargesSum
  <2>4. IF k \in DOMAIN fails THEN EntryOK(fails[k], c, b) /\ fails[k].count <= b /\ fails[k].count \in Nat
        ELSE NoEntry(c, b)
    BY <2>1 DEF KeyOK, LoginInv, CountsWithin, MapOK, Entries
  <2> HIDE DEF c, b
  <2>5. Prefix(c, Window) <= 2 * b
    BY <2>1, <2>3, <2>4 DEF EntryOK, NoEntry, LiveEntry, BlockedEntry
  <2> QED BY <2>2, <2>5 DEF b
<1> QED BY <1>1, LoginInvariant, PTL
=============================================================================
