---------------------------- MODULE ScalarKernels ----------------------------
(***************************************************************************)
(* The scalar kernels of src/src/primitive.cpp: checked integer arithmetic,*)
(* the comparisons and the arithmetic of Doubles, and the conversion of an *)
(* Int to a Double, at any width.                                          *)
(*                                                                         *)
(* An Int has IntBits bits in two's complement, and every operation of the *)
(* code on Ints wraps, so that a missing check shows up as a wrong result. *)
(* A Double is its bit pattern, a natural number: a sign, ExponentBits and *)
(* FractionBits.  The floating-point unit, under the control word that the *)
(* code sets before each operation, rounds the exact result to nearest,    *)
(* ties to even.  A Bool is 0 or 1.                                        *)
(***************************************************************************)
EXTENDS Integers, Sequences, FiniteSets

CONSTANTS IntBits, ExponentBits, FractionBits

ASSUME WidthsAssumption ==
  /\ IntBits \in Nat \ {0, 1}
  /\ ExponentBits \in Nat \ {0, 1}
  /\ FractionBits \in Nat \ {0}

Modulus == 2^IntBits
MaxInt == 2^(IntBits - 1) - 1
MinInt == -2^(IntBits - 1)

\* What the provers, which do not interpret exponentiation, need of it.
ASSUME PowersAssumption ==
  /\ 2^(IntBits - 1) \in Nat \ {0}
  /\ Modulus = 2 * 2^(IntBits - 1)

Wrap(n) == ((n - MinInt) % Modulus) + MinInt

\* The quotient of C++, which truncates towards zero.
Quotient(left, right) ==
  LET Abs(n) == IF n < 0 THEN -n ELSE n
      magnitude == Abs(left) \div Abs(right)
  IN  IF (left < 0) = (right < 0) THEN magnitude ELSE -magnitude

Remainder(left, right) == left - right * Quotient(left, right)

ScalarValue(type, value) == [type |-> type, value |-> value]
Bool(condition) == ScalarValue("Bool", IF condition THEN 1 ELSE 0)

(***************************************************************************)
(* Doubles.                                                                *)
(***************************************************************************)

FractionSize == 2^FractionBits
SignBit == 2^(ExponentBits + FractionBits)
Infinity == SignBit - FractionSize
CanonicalNaN == Infinity + FractionSize \div 2
Bias == 2^(ExponentBits - 1) - 1
One == Bias * FractionSize

Negated(d) == (d + SignBit) % (2 * SignBit)
Magnitude(d) == d % SignBit
IsNegativeSign(d) == d >= SignBit

IsNaN(d) == Magnitude(d) > Infinity
IsInfinity(d) == Magnitude(d) = Infinity
IsZero(d) == Magnitude(d) = 0

\* binary64_order_key: negative patterns reversed below the positive ones.
OrderKey(d) == IF IsNegativeSign(d) THEN 2 * SignBit - 1 - d ELSE d + SignBit

DoubleEqual(left, right) ==
  /\ ~IsNaN(left) /\ ~IsNaN(right)
  /\ (IsZero(left) /\ IsZero(right)) \/ left = right

DoubleLess(left, right) ==
  /\ ~IsNaN(left) /\ ~IsNaN(right)
  /\ ~(IsZero(left) /\ IsZero(right))
  /\ OrderKey(left) < OrderKey(right)

DoublePositive(d) == ~IsNaN(d) /\ ~IsZero(d) /\ ~IsNegativeSign(d)
DoubleNegative(d) == ~IsNaN(d) /\ ~IsZero(d) /\ IsNegativeSign(d)

\* make_double_value: every NaN becomes the canonical one.
Normalized(d) == IF IsNaN(d) THEN CanonicalNaN ELSE d

\* The magnitude a pattern without sign stands for, in units of the least
\* positive Double (for Infinity, where the next Double would be), and Units,
\* the number of units in 1.
UnitsIn(m) ==
  LET exponent == m \div FractionSize
      fraction == m % FractionSize
  IN  IF exponent = 0 THEN fraction
      ELSE (FractionSize + fraction) * 2^(exponent - 1)

Units == UnitsIn(One)
Exact(d) == IF IsNegativeSign(d) THEN -UnitsIn(Magnitude(d)) ELSE UnitsIn(Magnitude(d))

\* The floating-point unit: the pattern nearest to n / scale units, n >= 0,
\* the even one of two that are equally near.
Nearest(n, scale) ==
  IF n >= UnitsIn(Infinity) * scale THEN Infinity
  ELSE LET below == CHOOSE m \in 0 .. Infinity - 1 :
                      UnitsIn(m) * scale <= n /\ n < UnitsIn(m + 1) * scale
           twice == 2 * n - (UnitsIn(below) + UnitsIn(below + 1)) * scale
       IN  IF twice > 0 \/ (twice = 0 /\ below % 2 = 1) THEN below + 1 ELSE below

Signed(negative, magnitude) == IF negative THEN magnitude + SignBit ELSE magnitude

HardwareSum(left, right) ==
  LET sum == Exact(left) + Exact(right)
  IN  IF IsInfinity(left) THEN left
      ELSE IF IsInfinity(right) THEN right
      ELSE IF sum = 0
           THEN Signed(left = SignBit /\ right = SignBit, 0)
      ELSE Signed(sum < 0, Nearest(IF sum < 0 THEN -sum ELSE sum, 1))

HardwareProduct(left, right) ==
  LET negative == IsNegativeSign(left) /= IsNegativeSign(right)
  IN  Signed(negative,
             IF IsInfinity(left) \/ IsInfinity(right) THEN Infinity
             ELSE Nearest(UnitsIn(Magnitude(left)) * UnitsIn(Magnitude(right)),
                          Units))

Hardware(left, right, operation) ==
  CASE operation = "add" -> HardwareSum(left, right)
    [] operation = "subtract" -> HardwareSum(left, Negated(right))
    [] operation = "multiply" -> HardwareProduct(left, right)

\* strict_binary64_arithmetic: the invalid operations give the canonical NaN
\* before the unit is asked, which on its own would give one of its choosing.
StrictArithmetic(left, right, operation) ==
  LET signs_differ == IsNegativeSign(left) /= IsNegativeSign(right)
      invalid_infinity_arithmetic ==
        /\ IsInfinity(left) /\ IsInfinity(right)
        /\ \/ operation = "add" /\ signs_differ
           \/ operation = "subtract" /\ ~signs_differ
      invalid_infinity_product ==
        /\ operation = "multiply"
        /\ \/ IsInfinity(left) /\ IsZero(right)
           \/ IsZero(left) /\ IsInfinity(right)
  IN  IF \/ IsNaN(left) \/ IsNaN(right)
         \/ invalid_infinity_arithmetic \/ invalid_infinity_product
      THEN CanonicalNaN
      ELSE Normalized(Hardware(left, right, operation))

\* bit_width(n) - 1.
MostSignificant(n) == CHOOSE k \in 0 .. IntBits : 2^k <= n /\ n < 2^(k + 1)

RoundsUp(significand, remainder, halfway) ==
  remainder > halfway \/ (remainder = halfway /\ significand % 2 = 1)

\* int_to_binary64: the significand is shifted to FractionBits + 1 bits, and
\* what was shifted out decides the rounding, which may carry.
IntToBinary64(value) ==
  LET magnitude == IF value < 0 THEN -value ELSE value
      top == MostSignificant(magnitude)
      shift == 2^(top - FractionBits)
      significand ==
        IF top <= FractionBits THEN magnitude * 2^(FractionBits - top)
        ELSE LET kept == magnitude \div shift
             IN  IF RoundsUp(kept, magnitude % shift, shift \div 2)
                 THEN kept + 1 ELSE kept
      carried == significand = 2 * FractionSize
      exponent == Bias + (IF carried THEN top + 1 ELSE top)
  IN  IF value = 0 THEN 0
      ELSE Signed(value < 0,
                  exponent * FractionSize
                    + (IF carried THEN 0 ELSE significand % FractionSize))

\* valid_scalar: a Double is never another NaN than the canonical one.
ValidScalar(scalar) ==
  scalar.type /= "Double" \/ ~IsNaN(scalar.value) \/ scalar.value = CanonicalNaN

\* convert_scalar, of a scalar that conversion_cost accepts.
ConvertScalar(scalar, type) ==
  IF scalar.type = "Int" /\ type = "Double"
  THEN ScalarValue("Double", IntToBinary64(scalar.value))
  ELSE scalar

(***************************************************************************)
(* invoke_scalar_kernel: an overflow check for each integer kernel, then   *)
(* the result.                                                             *)
(***************************************************************************)

\* Mutant: the product of two negative numbers is not checked.
MultiplyOverflows_OneSign(l, r) ==
  \/ l > 0 /\ (IF r > 0 THEN l > Quotient(MaxInt, r) ELSE r < Quotient(MinInt, l))
  \/ l < 0 /\ r > 0 /\ l < Quotient(MinInt, r)

MultiplyOverflows(l, r) ==
  \/ l > 0 /\ (IF r > 0 THEN l > Quotient(MaxInt, r) ELSE r < Quotient(MinInt, l))
  \/ l < 0 /\ (IF r > 0 THEN l < Quotient(MinInt, r)
               ELSE r < 0 /\ r < Quotient(MaxInt, l))

AddOverflows(l, r) ==
  \/ r > 0 /\ l > Wrap(MaxInt - r)
  \/ r < 0 /\ l < Wrap(MinInt - r)

SubtractOverflows(l, r) ==
  \/ r > 0 /\ l < Wrap(MinInt + r)
  \/ r < 0 /\ l > Wrap(MaxInt + r)

IntegerOverflows(implementation, l, r) ==
  CASE implementation = "inc_integer" -> l = MaxInt
    [] implementation \in {"dec_integer", "neg_integer", "abs_integer"} -> l = MinInt
    [] implementation = "add_integer" -> AddOverflows(l, r)
    [] implementation = "sub_integer" -> SubtractOverflows(l, r)
    [] implementation = "mul_integer" -> MultiplyOverflows(l, r)
    [] OTHER -> FALSE

IntKernel(implementation, l, r) ==
  CASE implementation = "inc_integer" -> Wrap(l + 1)
    [] implementation = "dec_integer" -> Wrap(l - 1)
    [] implementation = "neg_integer" -> Wrap(-l)
    [] implementation = "abs_integer" -> IF l < 0 THEN Wrap(-l) ELSE l
    [] implementation = "add_integer" -> Wrap(l + r)
    [] implementation = "sub_integer" -> Wrap(l - r)
    [] implementation = "mul_integer" -> Wrap(l * r)

DoubleKernel(implementation, l, r) ==
  CASE implementation = "inc_double" -> StrictArithmetic(l, One, "add")
    [] implementation = "dec_double" -> StrictArithmetic(l, One, "subtract")
    [] implementation = "neg_double" -> Normalized(Negated(l))
    [] implementation = "abs_double" -> Normalized(Magnitude(l))
    [] implementation = "add_double" -> StrictArithmetic(l, r, "add")
    [] implementation = "sub_double" -> StrictArithmetic(l, r, "subtract")
    [] implementation = "mul_double" -> StrictArithmetic(l, r, "multiply")

BoolKernel(implementation, l, r) ==
  CASE implementation \in {"equals_boolean", "equals_integer"} -> l = r
    [] implementation \in {"not_equals_boolean", "not_equals_integer"} -> l /= r
    [] implementation = "equals_double" -> DoubleEqual(l, r)
    [] implementation = "not_equals_double" -> ~DoubleEqual(l, r)
    [] implementation = "logical_not_boolean" -> l = 0
    [] implementation = "logical_and_boolean" -> l = 1 /\ r = 1
    [] implementation = "logical_or_boolean" -> l = 1 \/ r = 1
    [] implementation = "odd_integer" -> Remainder(l, 2) /= 0
    [] implementation = "even_integer" -> Remainder(l, 2) = 0
    [] implementation = "is_positive_integer" -> l > 0
    [] implementation = "is_negative_integer" -> l < 0
    [] implementation = "is_positive_double" -> DoublePositive(l)
    [] implementation = "is_negative_double" -> DoubleNegative(l)
    [] implementation = "less_than_integer" -> l < r
    [] implementation = "less_than_double" -> DoubleLess(l, r)
    [] implementation = "greater_than_integer" -> l > r
    [] implementation = "greater_than_double" -> DoubleLess(r, l)

IntegerResults == {"inc_integer", "dec_integer", "neg_integer", "abs_integer",
                   "add_integer", "sub_integer", "mul_integer"}
DoubleResults == {"inc_double", "dec_double", "neg_double", "abs_double",
                  "add_double", "sub_double", "mul_double"}

\* The integer an implementation names, without a width.
ExactInteger(implementation, l, r) ==
  CASE implementation = "inc_integer" -> l + 1
    [] implementation = "dec_integer" -> l - 1
    [] implementation = "neg_integer" -> -l
    [] implementation = "abs_integer" -> IF l < 0 THEN -l ELSE l
    [] implementation = "add_integer" -> l + r
    [] implementation = "sub_integer" -> l - r
    [] implementation = "mul_integer" -> l * r

\* The status and value of a kernel; operands past the last are not read.
ScalarKernel(implementation, operands) ==
  LET l == operands[1].value
      r == operands[Len(operands)].value
  IN  IF IntegerOverflows(implementation, l, r)
      THEN [status |-> "domain_error", value |-> ScalarValue("Bool", 0)]
      ELSE [status |-> "success",
            value |->
              IF implementation \in IntegerResults
              THEN ScalarValue("Int", IntKernel(implementation, l, r))
              ELSE IF implementation \in DoubleResults
              THEN ScalarValue("Double", DoubleKernel(implementation, l, r))
              ELSE Bool(BoolKernel(implementation, l, r))]
=============================================================================
