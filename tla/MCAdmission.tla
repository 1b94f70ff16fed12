----------------------------- MODULE MCAdmission -----------------------------
(***************************************************************************)
(* Admission for TLC: symmetry of its rows and names, and bounded inputs   *)
(* for the prices.                                                         *)
(***************************************************************************)
EXTENDS Admission, TLC

AdmissionSymmetry == Permutations(Slots) \cup Permutations(Addresses) \cup Permutations(Emails)

Units == 0..(MaxCents + 1)
Quantities == -1..IntMax
CouponValues == {-1, 0, 1, 3, MaxCents}
Tiers == [need: {0, 1, 2, 3}, price: {0, 1, 2, 4}]
TierLists == UNION {[1..n -> Tiers] : n \in 0..2}

\* What a quote must be, in exact arithmetic: of the tiers the quantity
\* reaches, the price of the highest threshold, and of two such the lower one.
TierPrice(tiers, n) ==
    LET reached == {i \in DOMAIN tiers : tiers[i].need \in 1..n /\ tiers[i].price > 0}
        highest == {i \in reached : \A j \in reached : tiers[j].need <= tiers[i].need}
    IN {tiers[i].price : i \in {i \in highest : \A j \in highest : tiers[i].price <= tiers[j].price}}

QuoteIsRight(unit, qty, coupon, tiers) ==
    LET q == Quote(unit, qty, coupon, tiers)
        n == IF qty < 1 THEN 1 ELSE qty
        off == IF \E p \in TierPrice(tiers, n) : p < unit
               THEN n * (unit - CHOOSE p \in TierPrice(tiers, n) : TRUE) ELSE 0
        rest == n * unit - off - (IF coupon > 0 THEN coupon ELSE 0)
    IN /\ q.ok <=> n * unit <= MaxCents
       /\ q.ok => /\ q.total = n * unit /\ q.wholesaleOff = off
                  /\ q.actual = IF rest > 0 THEN rest ELSE 0

QuotesAreRight ==
    \A unit \in Units, qty \in Quantities, tiers \in TierLists :
        (unit <= 4 /\ qty <= 4) \/ tiers = <<>> =>
            \A coupon \in CouponValues : QuoteIsRight(unit, qty, coupon, tiers)

\* A checkout that comes to be priced gets the price of exact arithmetic,
\* whatever its quantity, unit price, coupon and list of tiers; what does not
\* fit the column is refused (Quote, WholesaleOff, mul).
PricesAreExact == (\E t \in Slots : stage[t] = "counted") => QuotesAreRight

Decimals == [neg: BOOLEAN, whole: 0..2, frac: UNION {[1..n -> {0, 4, 9}] : n \in 0..3}]
Thousandths(d) ==
    LET digit(i) == IF i <= Len(d.frac) THEN d.frac[i] ELSE 0
    IN d.whole * 1000 + digit(1) * 100 + digit(2) * 10 + digit(3)

TextIsRight ==
    /\ \A c \in -IntMax..IntMax : ParseYuan(Yuan(c)) = c
    /\ \A d \in {d \in Decimals : Thousandths(d) \div 10 <= IntMax} :
          ParseYuan(d) = IF d.neg THEN -(Thousandths(d) \div 10) ELSE Thousandths(d) \div 10

\* The amounts of an order come back from the database as they were written,
\* and what is finer than a cent is cut off toward zero (ParseYuan, Yuan), of
\* every amount that fits an integer in cents.
PricesSurviveText == (\E t \in Slots : stage[t] = "unpaid") => TextIsRight
=============================================================================
