----------------------------- MODULE ShopService -----------------------------
(***************************************************************************)
(* What the shop promises to its buyers and its owner, whatever rows,      *)
(* locks, lists and forms it takes: an order is placed, expires, is paid,  *)
(* is delivered or closed in single steps, never takes one of them back,   *)
(* and a card is set aside for one order at most and given to one order    *)
(* for good.  Goods leave and payments count only against the exact        *)
(* amount.  Cards sold again and again (loop cards) are not given away     *)
(* and do not appear.                                                      *)
(***************************************************************************)
CONSTANTS
    Orders,
    Cards

VARIABLES
    stage,      \* "none", "open", "expired", "paid" or "done"
    paid,       \* what the buyer paid: "none", "exact" or "other" (a wrong amount)
    promised,   \* the cards set aside for each order
    given       \* the cards given to each order

vars == <<stage, paid, promised, given>>

\* Nobody else was promised or given any of the cards.
FreeFor(o, S) ==
    /\ \A q \in Orders \ {o} : promised[q] \cap S = {}
    /\ \A q \in Orders : given[q] \cap S = {}

\* Some orders may come from an older shop, paid and not delivered yet.
Init ==
    /\ stage \in [Orders -> {"none", "paid"}]
    /\ paid = [o \in Orders |-> IF stage[o] = "paid" THEN "exact" ELSE "none"]
    /\ promised = [o \in Orders |-> {}]
    /\ given = [o \in Orders |-> {}]

Place(o) ==
    /\ stage[o] = "none"
    /\ stage' = [stage EXCEPT ![o] = "open"]
    /\ \E S \in SUBSET Cards : FreeFor(o, S) /\ promised' = [promised EXCEPT ![o] = S]
    /\ UNCHANGED <<paid, given>>

Pay(o) ==
    /\ stage[o] \in {"open", "expired"} /\ paid[o] # "exact"
    /\ paid' \in {[paid EXCEPT ![o] = amount] : amount \in {"other", "exact"}}
    /\ UNCHANGED <<stage, promised, given>>

\* An expired order is promised nothing, but may still be paid.
Expire(o) ==
    /\ stage[o] = "open"
    /\ stage' = [stage EXCEPT ![o] = "expired"]
    /\ promised' = [promised EXCEPT ![o] = {}]
    /\ UNCHANGED <<paid, given>>

\* The payment is recorded; what is to be delivered by hand, or is short of
\* cards, comes later.
Record(o) ==
    /\ stage[o] \in {"open", "expired"} /\ paid[o] = "exact"
    /\ stage' = [stage EXCEPT ![o] = "paid"]
    /\ UNCHANGED <<paid, promised, given>>

Deliver(o) ==
    /\ stage[o] \in {"open", "expired", "paid"} /\ paid[o] = "exact"
    /\ stage' = [stage EXCEPT ![o] = "done"]
    /\ \E S \in SUBSET Cards : FreeFor(o, S) /\ given' = [given EXCEPT ![o] = S]
    /\ promised' = [promised EXCEPT ![o] = {}]
    /\ UNCHANGED paid

\* The owner settles a paid order by hand: its cards are free for others.
Release(o) ==
    /\ stage[o] = "paid"
    /\ stage' \in {stage, [stage EXCEPT ![o] = "done"]}
    /\ promised' = [promised EXCEPT ![o] = {}]
    /\ UNCHANGED <<paid, given>>

Next == \E o \in Orders : Place(o) \/ Pay(o) \/ Expire(o) \/ Record(o) \/ Deliver(o) \/ Release(o)

Spec == Init /\ [][Next]_vars
=============================================================================
