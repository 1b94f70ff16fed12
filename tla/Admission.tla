------------------------------ MODULE Admission ------------------------------
(***************************************************************************)
(* What stands between a buyer's request and an order: the request budget  *)
(* of the client address (RequestLimit), then the quota of unpaid orders   *)
(* in the checkout's transaction (UnpaidQuota).  Both go by the same       *)
(* address, and by the same clock; the one is in memory, the other in the  *)
(* database.  Prices are computed in between (Price).                      *)
(***************************************************************************)
EXTENDS UnpaidQuota, RequestLimit, Price

ASSUME AdmissionAssumption == Clients = Addresses

vars == <<quotaVars, limitVars>>

TypeOK == QuotaTypeOK /\ LimitTypeOK

Init == QuotaInit /\ LimitInit

\* limitOrders and create: a request whose address is not known is not
\* limited, and counts for its email's quota only.
Request(t, e, a) ==
    /\ Begin(t, e, a)
    /\ IF a = Unknown THEN UNCHANGED limitVars ELSE Passes(a)

\* One that is refused before its transaction begins has spent its budget.
RefusedEarly(a) == Passes(a) /\ UNCHANGED quotaVars

TooManyRequests(a) == Refused(a) /\ UNCHANGED quotaVars

Tick == QuotaTick /\ LimitTick

Restart == QuotaRestart /\ LimitRestart

Next ==
    \/ \E t \in Slots, e \in Emails, a \in Sources : Request(t, e, a)
    \/ \E a \in Addresses : TooManyRequests(a) \/ RefusedEarly(a)
    \/ \E t \in Slots : Checkout(t) /\ UNCHANGED limitVars
    \/ Tick
    \/ Restart

Spec == Init /\ [][Next]_vars
=============================================================================
