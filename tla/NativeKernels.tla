---------------------------- MODULE NativeKernels ----------------------------
(***************************************************************************)
(* The kernels a generated program carries with it: the C text that        *)
(* src/src/rewrite_c_runtime.cpp writes, from bennu_project to bennu_apply.*)
(* It is a second implementation of ScalarKernels and of the element loop  *)
(* of PrimitiveApplication.  It knows the types of a call only from the    *)
(* implementation the emitter named, by the lists in bennu_result_type and *)
(* bennu_apply, and a failure leaves it with the operands it had in hand.  *)
(***************************************************************************)
EXTENDS ScalarKernels

\* bennu_result_type: two lists, and Int for what is on neither.
NativeResultType(implementation) ==
  IF implementation \in
       {"equals_boolean", "equals_integer", "equals_double",
        "logical_not_boolean", "logical_and_boolean", "logical_or_boolean",
        "not_equals_boolean", "not_equals_integer", "not_equals_double",
        "odd_integer", "even_integer", "is_positive_integer",
        "is_positive_double", "is_negative_integer", "is_negative_double",
        "less_than_integer", "less_than_double", "greater_than_integer",
        "greater_than_double"}
  THEN "Bool"
  ELSE IF implementation \in {"inc_double", "add_double", "dec_double",
                              "neg_double", "abs_double", "sub_double",
                              "mul_double"}
  THEN "Double"
  ELSE "Int"

\* The parameter_type of bennu_apply, likewise.
NativeParameterType(implementation) ==
  IF implementation \in
       {"inc_double", "add_double", "equals_double", "not_equals_double",
        "is_positive_double", "is_negative_double", "less_than_double",
        "greater_than_double", "dec_double", "neg_double", "abs_double",
        "sub_double", "mul_double"}
  THEN "Double"
  ELSE IF implementation \in {"equals_boolean", "logical_not_boolean",
                              "logical_and_boolean", "logical_or_boolean",
                              "not_equals_boolean"}
  THEN "Bool"
  ELSE "Int"

\* The bit scan of bennu_int_to_double.
Scan[n \in 0 .. Modulus] == IF n > 1 THEN 1 + Scan[n \div 2] ELSE 0

NativeIntToDouble(value) ==
  LET magnitude == IF value < 0 THEN -value ELSE value
      top == Scan[magnitude]
      shift == 2^(top - FractionBits)
      half == 2^(top - FractionBits - 1)
      kept == magnitude \div shift
      rounded ==
        IF top <= FractionBits THEN magnitude * 2^(FractionBits - top)
        ELSE IF magnitude % shift > half
                \/ (magnitude % shift = half /\ kept % 2 /= 0)
        THEN kept + 1 ELSE kept
      significand == IF rounded = 2 * FractionSize THEN rounded \div 2 ELSE rounded
      exponent == Bias + top + (IF rounded = 2 * FractionSize THEN 1 ELSE 0)
  IN  IF magnitude = 0 THEN 0
      ELSE (IF value < 0 THEN SignBit ELSE 0)
             + exponent * FractionSize + (significand % FractionSize)

\* Mutant: an Int operand is passed on as its bits.
NativeConvert_AsIs(scalar, type) == ScalarValue(type, scalar.value)

NativeConvert(scalar, type) ==
  IF scalar.type = "Int" /\ type = "Double"
  THEN ScalarValue("Double", NativeIntToDouble(scalar.value))
  ELSE scalar

NativeAddOverflows(l, r) ==
  (r > 0 /\ l > Wrap(MaxInt - r)) \/ (r < 0 /\ l < Wrap(MinInt - r))

NativeSubOverflows(l, r) ==
  (r > 0 /\ l < Wrap(MinInt + r)) \/ (r < 0 /\ l > Wrap(MaxInt + r))

NativeMulOverflows(l, r) ==
  IF l > 0
  THEN IF r > 0 THEN l > Quotient(MaxInt, r) ELSE r < Quotient(MinInt, l)
  ELSE l < 0 /\ (IF r > 0 THEN l < Quotient(MinInt, r)
                 ELSE r < 0 /\ r < Quotient(MaxInt, l))

NativeDoubleEqual(left, right) ==
  IF IsNaN(left) \/ IsNaN(right) THEN FALSE
  ELSE (IsZero(left) /\ IsZero(right)) \/ left = right

NativeDoubleLess(left, right) ==
  IF IsNaN(left) \/ IsNaN(right) \/ (IsZero(left) /\ IsZero(right)) THEN FALSE
  ELSE OrderKey(left) < OrderKey(right)

NativeDoubleArithmetic(left, right, operation) ==
  LET signs_differ == IsNegativeSign(left) /= IsNegativeSign(right)
      invalid ==
        \/ IsNaN(left) \/ IsNaN(right)
        \/ /\ IsInfinity(left) /\ IsInfinity(right)
           /\ (operation = "add" /\ signs_differ)
              \/ (operation = "subtract" /\ ~signs_differ)
        \/ /\ operation = "multiply"
           /\ (IsInfinity(left) /\ IsZero(right)) \/ (IsZero(left) /\ IsInfinity(right))
  IN  IF invalid THEN CanonicalNaN ELSE Normalized(Hardware(left, right, operation))

\* The branches of bennu_kernel that can fail.
NativeKernelFails(implementation, l, r) ==
  \/ implementation = "inc_integer" /\ NativeAddOverflows(l, 1)
  \/ implementation = "add_integer" /\ NativeAddOverflows(l, r)
  \/ implementation = "sub_integer" /\ NativeSubOverflows(l, r)
  \/ implementation = "mul_integer" /\ NativeMulOverflows(l, r)
  \/ implementation \in {"dec_integer", "neg_integer", "abs_integer"} /\ l = MinInt

NativeTruth(implementation, l, r) ==
  CASE implementation \in {"equals_boolean", "equals_integer"} -> l = r
    [] implementation = "equals_double" -> NativeDoubleEqual(l, r)
    [] implementation = "logical_not_boolean" -> l = 0
    [] implementation = "logical_and_boolean" -> l = 1 /\ r = 1
    [] implementation = "logical_or_boolean" -> l = 1 \/ r = 1
    [] implementation \in {"not_equals_boolean", "not_equals_integer"} -> l /= r
    [] implementation = "not_equals_double" -> ~NativeDoubleEqual(l, r)
    [] implementation = "odd_integer" -> Remainder(l, 2) /= 0
    [] implementation = "even_integer" -> Remainder(l, 2) = 0
    [] implementation = "is_positive_integer" -> l > 0
    [] implementation = "is_positive_double" -> DoublePositive(l)
    [] implementation = "is_negative_integer" -> l < 0
    [] implementation = "is_negative_double" -> DoubleNegative(l)
    [] implementation = "less_than_integer" -> l < r
    [] implementation = "less_than_double" -> NativeDoubleLess(l, r)
    [] implementation = "greater_than_integer" -> l > r
    [] implementation = "greater_than_double" -> NativeDoubleLess(r, l)

NativeNumber(implementation, l, r) ==
  CASE implementation = "inc_integer" -> Wrap(l + 1)
    [] implementation = "add_integer" -> Wrap(l + r)
    [] implementation = "dec_integer" -> Wrap(l - 1)
    [] implementation = "neg_integer" -> Wrap(-l)
    [] implementation = "abs_integer" -> IF l < 0 THEN Wrap(-l) ELSE l
    [] implementation = "sub_integer" -> Wrap(l - r)
    [] implementation = "mul_integer" -> Wrap(l * r)
    [] implementation = "inc_double" -> NativeDoubleArithmetic(l, One, "add")
    [] implementation = "add_double" -> NativeDoubleArithmetic(l, r, "add")
    [] implementation = "dec_double" -> NativeDoubleArithmetic(l, One, "subtract")
    [] implementation = "neg_double" -> Normalized(Negated(l))
    [] implementation = "abs_double" -> Normalized(Magnitude(l))
    [] implementation = "sub_double" -> NativeDoubleArithmetic(l, r, "subtract")
    [] implementation = "mul_double" -> NativeDoubleArithmetic(l, r, "multiply")

\* bennu_kernel, where it succeeds.
NativeKernel(implementation, l, r) ==
  LET type == NativeResultType(implementation)
  IN  IF type = "Bool" THEN Bool(NativeTruth(implementation, l, r))
      ELSE ScalarValue(type, NativeNumber(implementation, l, r))

\* bennu_project.
NativeProject(argument, index) ==
  ScalarValue(argument.element,
              argument.values[IF argument.container = "scalar" THEN 1 ELSE index])

\* The count of bennu_apply: that of the last argument that is a vector.
NativeCount(arguments) ==
  LET vectors == {k \in DOMAIN arguments : arguments[k].container = "vector"}
  IN  IF vectors = {} THEN 1
      ELSE Len(arguments[CHOOSE k \in vectors : \A j \in vectors : j <= k].values)

NativeOperands(implementation, arguments, index) ==
  [k \in DOMAIN arguments |->
     NativeConvert(NativeProject(arguments[k], index),
                   NativeParameterType(implementation))]

\* bennu_apply once its result is admitted: the first index whose kernel
\* fails, 0 for none, the operands it failed on, and otherwise the results.
NativeApply(implementation, arguments) ==
  LET Operand(k, index) ==
        NativeOperands(implementation, arguments, index)[k].value
      last == Len(arguments)
      failing == {index \in 1 .. NativeCount(arguments) :
                    NativeKernelFails(implementation, Operand(1, index),
                                      Operand(last, index))}
      first == IF failing = {} THEN 0
               ELSE CHOOSE i \in failing : \A j \in failing : i <= j
  IN  [failed |-> first,
       operands |-> IF first = 0 THEN <<>>
                    ELSE NativeOperands(implementation, arguments, first),
       results |-> IF first /= 0 THEN <<>>
                   ELSE [index \in 1 .. NativeCount(arguments) |->
                           NativeKernel(implementation, Operand(1, index),
                                        Operand(last, index))]]

\* The iota branch of bennu_apply.
NativeIota(bound) ==
  [index \in 1 .. (IF bound > 0 THEN bound ELSE 0) |-> ScalarValue("Int", index)]
=============================================================================
