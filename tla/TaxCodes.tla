------------------------------ MODULE TaxCodes ------------------------------
(***************************************************************************)
(* KRA's tax categories and the VAT contained in an amount                 *)
(* (backend/internal/fiscal/taxcodes.go).  Amounts are in cents, and far   *)
(* from the width of an int64.                                             *)
(***************************************************************************)
EXTENDS Integers

\* Exempt, standard, zero-rated, seller not registered, reduced.
Categories == {"A", "B", "C", "D", "E"}

RateBP(c) == IF c = "B" THEN 1600 ELSE IF c = "E" THEN 800 ELSE 0

abs64(n) == IF n < 0 THEN -n ELSE n

\* Mutant: the fraction of a cent is dropped.
Truncate(num, den) ==
    LET q == abs64(num) \div den IN IF num < 0 THEN -q ELSE q

\* Ties round away from zero.
roundHalfUp(num, den) ==
    LET q     == abs64(num) \div den
        twice == 2 * (abs64(num) % den)
        mag   == IF twice >= den THEN q + 1 ELSE q
    IN IF num < 0 THEN -mag ELSE mag

LineTax(total, rate) ==
    IF rate = 0 \/ total = 0 THEN 0 ELSE roundHalfUp(total * rate, 10000 + rate)

\* "round_half_even(line_total x rate / (10000 + rate))", docs/data-model.md.
HalfEven(num, den) ==
    LET q     == abs64(num) \div den
        twice == 2 * (abs64(num) % den)
        mag   == IF twice > den \/ (twice = den /\ q % 2 = 1) THEN q + 1 ELSE q
    IN IF num < 0 THEN -mag ELSE mag
=============================================================================
