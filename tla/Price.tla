-------------------------------- MODULE Price --------------------------------
(***************************************************************************)
(* The price of an order (internal/order/price.go), in cents.              *)
(*                                                                         *)
(* Machine integers wrap around at IntMax (2^63 - 1 in the code); an       *)
(* amount is at most MaxCents (9999999999, the width of numeric(10,2)).    *)
(* A decimal is its sign, its whole part and the digits after the point.   *)
(* A wholesale tier is a line "need=price" that parses; others are passed  *)
(* over by the code and do not appear.                                     *)
(***************************************************************************)
EXTENDS Integers, Sequences, SequencesExt

CONSTANTS MaxCents, IntMax

ASSUME PriceAssumption == MaxCents \in Nat /\ IntMax \in Nat /\ 2 * MaxCents <= IntMax

Wrap(n) == ((n + IntMax + 1) % (2 * (IntMax + 1))) - IntMax - 1

\* Mutant: the sign of the whole part decides, so that -0.50 is positive.
MutParseYuanSign(d) ==
    LET digit(i) == IF i <= Len(d.frac) THEN d.frac[i] ELSE 0
        w == IF d.neg THEN -d.whole ELSE d.whole
        f == 10 * digit(1) + digit(2)
    IN Wrap(IF w < 0 THEN w * 100 - f ELSE w * 100 + f)

\* ParseYuan: digits past the second are cut off; a whole part that fits an
\* integer may still wrap around in cents.
ParseYuan(d) ==
    LET digit(i) == IF i <= Len(d.frac) THEN d.frac[i] ELSE 0
        c == Wrap(d.whole * 100 + 10 * digit(1) + digit(2))
    IN IF d.neg THEN Wrap(-c) ELSE c

\* Yuan, of every amount but the least integer, which has no negative.
Yuan(c) ==
    LET v == IF c < 0 THEN -c ELSE c
    IN [neg |-> c < 0, whole |-> v \div 100, frac |-> <<(v % 100) \div 10, v % 10>>]

-----------------------------------------------------------------------------
\* Mutant: the product is looked at after it may have wrapped around.
MutMultipliesWrapped(unit, qty) == qty >= 0 /\ unit >= 0 /\ Wrap(unit * qty) <= MaxCents

\* mul: whether it returns a product, and the product.
Multiplies(unit, qty) ==
    /\ qty >= 0 /\ unit >= 0
    /\ \/ qty = 0 \/ unit = 0
       \/ qty <= IntMax \div unit /\ Wrap(unit * qty) <= MaxCents
Product(unit, qty) == Wrap(unit * qty)

NoTier == [need |-> 0, price |-> 0]
Reached(tier, qty) == tier.need > 0 /\ tier.price > 0 /\ qty >= tier.need

Better(tier, best) ==
    best = NoTier \/ tier.need > best.need \/ (tier.need = best.need /\ tier.price < best.price)

BestTier(tiers, qty) ==
    FoldLeft(LAMBDA best, tier : IF Reached(tier, qty) /\ Better(tier, best) THEN tier ELSE best,
             NoTier, tiers)

WholesaleOff(tiers, qty, unit) ==
    LET best == BestTier(tiers, qty) IN
    IF /\ qty > 0 /\ best # NoTier
       /\ Multiplies(unit, qty) /\ Multiplies(best.price, qty)
       /\ Product(best.price, qty) < Product(unit, qty)
    THEN Product(unit, qty) - Product(best.price, qty)
    ELSE 0

AtLeastOne(qty) == IF qty < 1 THEN 1 ELSE qty
NotNegative(c) == IF c < 0 THEN 0 ELSE c

\* Quote; ok is FALSE where the code returns ErrPrice.
Quote(unit, qty, coupon, tiers) ==
    LET n == AtLeastOne(qty)
        off == WholesaleOff(tiers, n, unit)
    IN IF ~Multiplies(unit, n)
       THEN [ok |-> FALSE, total |-> 0, couponOff |-> 0, wholesaleOff |-> 0, actual |-> 0]
       ELSE [ok |-> TRUE, total |-> Product(unit, n),
             couponOff |-> NotNegative(coupon), wholesaleOff |-> off,
             actual |-> NotNegative(Product(unit, n) - NotNegative(coupon) - off)]
=============================================================================
