----------------------------- MODULE UnpaidQuota -----------------------------
(***************************************************************************)
(* The quota of unpaid orders (unpaidQuota of internal/store/store.go) and *)
(* the checkout transaction around it.                                     *)
(*                                                                         *)
(* A slot is one checkout and the order it may become.  A transaction      *)
(* takes the advisory locks of its keys one by one, counts, and commits or *)
(* rolls back.  created_at is now(), which PostgreSQL fixes when the       *)
(* transaction begins, so the age of an order runs from there: the count   *)
(* of a transaction that has waited for its locks is as of its beginning.  *)
(*                                                                         *)
(* An email is its lower-case form; a source is an address block           *)
(* (netx.LimiterKey), or Unknown behind a proxy that forwards none.        *)
(***************************************************************************)
EXTENDS Integers, FiniteSets

CONSTANTS
    Slots,
    Emails,
    Addresses,
    Unknown,
    NoEmail,        \* of a slot not in use
    MaxUnpaidPerEmail,
    MaxUnpaidPerAddress,
    ExpireAge,      \* site.ExpireMin, in steps of the clock
    MaxWait         \* bound: how long a transaction may be under way

ASSUME QuotaAssumption ==
    /\ IsFiniteSet(Slots)
    /\ Unknown \notin Addresses /\ NoEmail \notin Emails
    /\ MaxUnpaidPerEmail \in Nat \ {0} /\ MaxUnpaidPerAddress \in Nat \ {0}
    /\ ExpireAge \in Nat \ {0} /\ MaxWait \in Nat

VARIABLES
    stage,      \* how far each slot has come
    email, source,
    age         \* time since the transaction began: created_at

quotaVars == <<stage, email, source, age>>

Sources == Addresses \cup {Unknown}

\* An age at which an order is overdue for every transaction under way.
MaxAge == ExpireAge + MaxWait

QuotaTypeOK ==
    /\ stage \in [Slots -> {"free", "begun", "email", "both", "counted", "unpaid"}]
    /\ email \in [Slots -> Emails \cup {NoEmail}] /\ source \in [Slots -> Sources]
    /\ age \in [Slots -> 0..MaxAge]

UnderWay(t) == stage[t] \in {"begun", "email", "both", "counted"}

QuotaInit ==
    /\ stage = [t \in Slots |-> "free"]
    /\ email = [t \in Slots |-> NoEmail]
    /\ source = [t \in Slots |-> Unknown]
    /\ age = [t \in Slots |-> 0]

-----------------------------------------------------------------------------
Begin(t, e, a) ==
    /\ stage[t] = "free"
    /\ stage' = [stage EXCEPT ![t] = "begun"]
    /\ email' = [email EXCEPT ![t] = e]
    /\ source' = [source EXCEPT ![t] = a]
    /\ age' = [age EXCEPT ![t] = 0]

\* The keys are sorted, and every email key sorts before every source key.
HoldsEmail(t) == stage[t] \in {"email", "both", "counted"}

\* Mutant: the source's lock is forgotten.
MutHoldsSourceNever(t) == FALSE
HoldsSource(t) == stage[t] \in {"both", "counted"} /\ source[t] # Unknown

LockEmail(t) ==
    /\ stage[t] = "begun"
    /\ ~\E p \in Slots : HoldsEmail(p) /\ email[p] = email[t]
    /\ stage' = [stage EXCEPT ![t] = "email"]
    /\ UNCHANGED <<email, source, age>>

LockSource(t) ==
    /\ stage[t] = "email"
    /\ ~\E p \in Slots : HoldsSource(p) /\ source[p] = source[t]
    /\ stage' = [stage EXCEPT ![t] = "both"]
    /\ UNCHANGED <<email, source, age>>

\* What the count of t takes for unpaid and unexpired: status = 1 AND
\* created_at > now() - expire_min.
Counts(t, p) == stage[p] = "unpaid" /\ age[p] - age[t] < ExpireAge
ByEmail(t) == {p \in Slots : Counts(t, p) /\ email[p] = email[t]}
BySource(t) == {p \in Slots : Counts(t, p) /\ source[p] = source[t]}

WithinQuota(t) ==
    /\ Cardinality(ByEmail(t)) < MaxUnpaidPerEmail
    /\ source[t] # Unknown => Cardinality(BySource(t)) < MaxUnpaidPerAddress

\* The statement runs after the locks are held, and READ COMMITTED shows it
\* everything committed until then.
Count(t) ==
    /\ stage[t] = "both" /\ WithinQuota(t)
    /\ stage' = [stage EXCEPT ![t] = "counted"]
    /\ UNCHANGED <<email, source, age>>

\* The commit releases the locks.
Place(t) ==
    /\ stage[t] = "counted"
    /\ stage' = [stage EXCEPT ![t] = "unpaid"]
    /\ UNCHANGED <<email, source, age>>

\* The slot is of no use any more, and may be another checkout's.
Clear(t) ==
    /\ stage' = [stage EXCEPT ![t] = "free"]
    /\ email' = [email EXCEPT ![t] = NoEmail]
    /\ source' = [source EXCEPT ![t] = Unknown]
    /\ age' = [age EXCEPT ![t] = 0]

\* 未付款订单过多, no stock, a failure, a crash: everything is rolled back.
RollBack(t) ==
    /\ UnderWay(t)
    /\ Clear(t)

\* The order leaves 待支付: it is paid at any time, or expired when overdue.
Leave(t) ==
    /\ stage[t] = "unpaid"
    /\ Clear(t)

\* Time passes; an age of MaxAge or more is all the same to every count.
Older(n) == IF n < MaxAge THEN n + 1 ELSE n

QuotaTick ==
    /\ \A t \in Slots : UnderWay(t) => age[t] < MaxWait
    /\ age' = [t \in Slots |-> IF stage[t] = "free" THEN age[t] ELSE Older(age[t])]
    /\ UNCHANGED <<stage, email, source>>

\* The process dies: PostgreSQL rolls back what is under way.
QuotaRestart ==
    /\ stage' = [t \in Slots |-> IF UnderWay(t) THEN "free" ELSE stage[t]]
    /\ email' = [t \in Slots |-> IF UnderWay(t) THEN NoEmail ELSE email[t]]
    /\ source' = [t \in Slots |-> IF UnderWay(t) THEN Unknown ELSE source[t]]
    /\ age' = [t \in Slots |-> IF UnderWay(t) THEN 0 ELSE age[t]]

Checkout(t) == LockEmail(t) \/ LockSource(t) \/ Count(t) \/ Place(t) \/ RollBack(t) \/ Leave(t)

QuotaNext ==
    \/ \E t \in Slots : Checkout(t) \/ \E e \in Emails, a \in Sources : Begin(t, e, a)
    \/ QuotaTick
    \/ QuotaRestart

QuotaSpec == QuotaInit /\ [][QuotaNext]_quotaVars

-----------------------------------------------------------------------------
\* However checkouts, payments, expiry and the clock interleave, no email and
\* no known address has more unpaid, unexpired orders than its quota.
Unexpired(t) == stage[t] = "unpaid" /\ age[t] < ExpireAge

EmailQuotaKept ==
    \A e \in Emails : Cardinality({t \in Slots : Unexpired(t) /\ email[t] = e}) <= MaxUnpaidPerEmail

AddressQuotaKept ==
    \A a \in Addresses : Cardinality({t \in Slots : Unexpired(t) /\ source[t] = a}) <= MaxUnpaidPerAddress

QuotaKept == EmailQuotaKept /\ AddressQuotaKept
=============================================================================
