----------------------------- MODULE ItemNumbers -----------------------------
(***************************************************************************)
(* Numbers in DynamoDB items (app/services/dynamodb_service.py): JSON to   *)
(* Decimal on the way in, Decimal to int or float on the way out.          *)
(*                                                                         *)
(* A number is a coefficient and a power of ten, as a Decimal holds it     *)
(* after Decimal(str(value)).  On the way in boto3's serializer rounds     *)
(* nothing: its context raises when a number does not fit.  On the way out *)
(* `value % 1' is computed in Python's default context, which is narrower. *)
(* A number with a fraction came in as a float, so float() gives it back   *)
(* exactly.  Signs are left out.                                           *)
(***************************************************************************)
EXTENDS Integers, FiniteSets

CONSTANTS
    Number,            \* the numbers clients send
    WirePrecision,     \* digits of boto3's context (38)
    MaxAdjusted,       \* largest power of ten of a leading digit in it (126)
    MinExponent,       \* smallest power of ten of a last digit in it (-165)
    ContextPrecision   \* digits of Python's default context (28)

ASSUME NumberAssumption ==
    /\ Number \subseteq [coef : Nat, exp : Int]
    /\ IsFiniteSet(Number)
    /\ Number # {}

ASSUME PrecisionAssumption ==
    /\ WirePrecision \in Nat \ {0}
    /\ ContextPrecision \in Nat \ {0}
    /\ MaxAdjusted \in Nat
    /\ MinExponent \in Int

\* 10 ^ n, as a function that theorems can be proved about.
PowerOfTen[n \in Nat] == IF n = 0 THEN 1 ELSE 10 * PowerOfTen[n - 1]

\* Digits of a coefficient, and the place of its leading digit.
Digits(n) ==
    IF n < 10 THEN 1
    ELSE CHOOSE d \in 2 .. n : PowerOfTen[d - 1] <= n /\ n < PowerOfTen[d]

LeadingPlace(x) == Digits(x.coef) + x.exp - 1

\* The value, as a whole number of the smallest power of ten in use.
Smallest ==
    CHOOSE e \in {x.exp : x \in Number} \cup {0} :
       e <= 0 /\ \A x \in Number : e <= x.exp

Value(x) == x.coef * PowerOfTen[x.exp - Smallest]

One == PowerOfTen[0 - Smallest]

\* TypeSerializer: the number fits the wire context as it is.  Too many digits
\* are Rounded, too large a number Overflow, and too small a one Underflow or,
\* if it is zero, Clamped.
FitsWire(x) ==
    /\ Digits(x.coef) <= WirePrecision
    /\ LeadingPlace(x) <= MaxAdjusted
    /\ x.exp >= MinExponent

\* `value % 1' is possible: the whole part fits the default context.
HasRemainder(x) == x.coef = 0 \/ LeadingPlace(x) < ContextPrecision

\* value % 1 == 0
IsWhole(x) == x.exp >= 0 \/ x.coef % PowerOfTen[0 - x.exp] = 0

\* Mutant of FromDynamo: every number is made an int.
FromDynamoTruncates(x) == (Value(x) \div One) * One

\* _from_dynamo_value: an int drops the fraction, a float keeps it.
FromDynamo(x) == IF IsWhole(x) THEN (Value(x) \div One) * One ELSE Value(x)

=============================================================================
