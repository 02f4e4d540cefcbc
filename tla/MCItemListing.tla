---------------------------- MODULE MCItemListing ----------------------------
(* Constants for ItemListing: both decimal contexts cut down to a few digits,  *)
(* keys before, at and behind the key a page ends with.                       *)
EXTENDS ItemListing

MCKey == 1 .. 3
MCPageSizes == {1, 2}

MCMinExponent == -1

Decimal(c, e) == [coef |-> c, exp |-> e]

\* 12.5, 25 written with a fraction, 100 as a power of ten, which is the first
\* to fit the wire context only, and three that fit neither: one digit too many,
\* a leading digit too far up, and a last digit too far down.
MCNumber ==
    { Decimal(125, -1), Decimal(250, -1), Decimal(1, 2),
      Decimal(1000, 0), Decimal(1, 4), Decimal(1, -2) }

=============================================================================
