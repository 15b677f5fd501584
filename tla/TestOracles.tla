----------------------------- MODULE TestOracles -----------------------------
(***************************************************************************)
(* How tests/roundtrip.rs judges a card number: an implementation of the   *)
(* checksum of its own, over the whole number, check digit included, which *)
(* must be a multiple of the radix.                                        *)
(***************************************************************************)
EXTENDS ScalarFunctions

PanDigits(value) == Numerals(value, DIGITS)
IsPan(value) == Len(PanDigits(value)) = PAN_LEN
is_luhn_valid(value) ==
    LET d == PanDigits(value)
        n == Len(d)
        nine == Len(DIGITS) - 1
        Doubled(x) == IF 2 * x > nine THEN 2 * x - nine ELSE 2 * x
        Part(i) == IF (n - i) % 2 = 1 THEN Doubled(d[i]) ELSE d[i]
    IN  Cardinality({u \in (1..n) \X (1..nine) : u[2] <= Part(u[1])}) % (nine + 1) = 0
=============================================================================
