---------------------- MODULE PrimitiveApplicationProofs ----------------------
(***************************************************************************)
(* Integer arithmetic is checked, at every width of Int.  First the        *)
(* integer kernels of src/src/primitive.cpp and of the C text that         *)
(* src/src/rewrite_c_runtime.cpp writes: their overflow checks refuse      *)
(* exactly the results that are not Ints, no check overflows itself, and   *)
(* both implementations agree.  Then, for every table and every arguments, *)
(* that a call gives its kernel nothing but Ints, whatever is projected    *)
(* from vectors, selected and converted: the first conjunct of             *)
(* KernelsMeetReference as a theorem of PrimitiveApplication.              *)
(***************************************************************************)
EXTENDS PrimitiveApplication, TLAPS, FiniteSetTheorems, WellFoundedInduction

(***************************************************************************)
(* The integer kernels.                                                    *)
(***************************************************************************)

Ints == MinInt .. MaxInt

\* MinInt and MaxInt in terms of one number.
LEMMA Limits ==
  \E h \in Nat \ {0} : MinInt = -h /\ MaxInt = h - 1 /\ Modulus = 2 * h
  <1> DEFINE h == 2^(IntBits - 1)
  <1>1. h \in Nat \ {0}
    BY PowersAssumption
  <1>2. MinInt = -h /\ MaxInt = h - 1 /\ Modulus = 2 * h
    BY PowersAssumption DEF MinInt, MaxInt
  <1> QED BY <1>1, <1>2

\* Wrapping leaves an Int alone.
LEMMA WrapOfInt ==
  ASSUME NEW n \in Ints
  PROVE  Wrap(n) = n
  <1>1. PICK h \in Nat \ {0} : MinInt = -h /\ MaxInt = h - 1 /\ Modulus = 2 * h
    BY Limits
  <1>2. n \in Int /\ n + h >= 0 /\ n + h < 2 * h
    BY <1>1 DEF Ints
  <1>3. (n + h) % (2 * h) = n + h
    BY <1>2
  <1> QED BY <1>1, <1>2, <1>3 DEF Wrap

\* The bounds that the additive checks compare with are Ints themselves.
LEMMA AdditiveBounds ==
  ASSUME NEW r \in Ints
  PROVE  /\ r > 0 => Wrap(MaxInt - r) = MaxInt - r /\ Wrap(MinInt + r) = MinInt + r
         /\ r < 0 => Wrap(MinInt - r) = MinInt - r /\ Wrap(MaxInt + r) = MaxInt + r
  <1>1. PICK h \in Nat \ {0} : MinInt = -h /\ MaxInt = h - 1 /\ Modulus = 2 * h
    BY Limits
  <1>2. ASSUME r > 0 PROVE MaxInt - r \in Ints /\ MinInt + r \in Ints
    BY <1>1, <1>2 DEF Ints
  <1>3. ASSUME r < 0 PROVE MinInt - r \in Ints /\ MaxInt + r \in Ints
    BY <1>1, <1>3 DEF Ints
  <1> QED BY <1>2, <1>3, WrapOfInt

\* The addition of ScalarKernels fails exactly when the sum is not an Int.
THEOREM AdditionIsExact ==
  ASSUME NEW l \in Ints, NEW r \in Ints
  PROVE  AddOverflows(l, r) <=> l + r \notin Ints
  <1>1. PICK h \in Nat \ {0} : MinInt = -h /\ MaxInt = h - 1 /\ Modulus = 2 * h
    BY Limits
  <1>2. AddOverflows(l, r) <=> \/ r > 0 /\ l > MaxInt - r
                               \/ r < 0 /\ l < MinInt - r
    BY AdditiveBounds DEF AddOverflows
  <1> QED BY <1>1, <1>2 DEF Ints

\* Likewise for the subtraction.
THEOREM SubtractionIsExact ==
  ASSUME NEW l \in Ints, NEW r \in Ints
  PROVE  SubtractOverflows(l, r) <=> l - r \notin Ints
  <1>1. PICK h \in Nat \ {0} : MinInt = -h /\ MaxInt = h - 1 /\ Modulus = 2 * h
    BY Limits
  <1>2. SubtractOverflows(l, r) <=> \/ r > 0 /\ l < MinInt + r
                                    \/ r < 0 /\ l > MaxInt + r
    BY AdditiveBounds DEF SubtractOverflows
  <1> QED BY <1>1, <1>2 DEF Ints

\* A product of positive factors exceeds a bound when one factor exceeds the
\* truncated quotient of the bound by the other.
LEMMA DivisionBoundsProduct ==
  ASSUME NEW a \in Nat, NEW b \in Nat \ {0}, NEW m \in Nat
  PROVE  /\ m \div b \in Nat
         /\ a > m \div b <=> a * b > m
  OBVIOUS

\* The four quotients of the multiplication check, by the signs they occur in.
LEMMA CheckedQuotients ==
  ASSUME NEW h \in Nat \ {0}, MinInt = -h, MaxInt = h - 1, NEW n \in Int
  PROVE  /\ n > 0 => /\ Quotient(MaxInt, n) = (h - 1) \div n
                     /\ Quotient(MinInt, n) = -(h \div n)
         /\ n < 0 => Quotient(MaxInt, n) = -((h - 1) \div (-n))
  <1>1. ASSUME n > 0
        PROVE  /\ Quotient(MaxInt, n) = (h - 1) \div n
               /\ Quotient(MinInt, n) = -(h \div n)
    BY <1>1 DEF Quotient
  <1>2. ASSUME n < 0 PROVE Quotient(MaxInt, n) = -((h - 1) \div (-n))
    BY <1>2 DEF Quotient
  <1> QED BY <1>1, <1>2

\* The sign of a product.
LEMMA ProductSigns ==
  ASSUME NEW a \in Int, NEW b \in Int
  PROVE  /\ a * b \in Int
         /\ a > 0 /\ b > 0 => a * b > 0
         /\ a < 0 /\ b < 0 => a * b > 0 /\ (-a) * (-b) = a * b
         /\ a > 0 /\ b < 0 => a * b < 0 /\ a * (-b) = -(a * b)
         /\ a < 0 /\ b > 0 => a * b < 0 /\ (-a) * b = -(a * b)
         /\ a = 0 \/ b = 0 => a * b = 0
  OBVIOUS

\* The multiplication of ScalarKernels fails exactly when the product is not
\* an Int, in each of the branches on the signs of the factors.
THEOREM MultiplicationIsExact ==
  ASSUME NEW l \in Ints, NEW r \in Ints
  PROVE  MultiplyOverflows(l, r) <=> l * r \notin Ints
  <1>1. PICK h \in Nat \ {0} : MinInt = -h /\ MaxInt = h - 1 /\ Modulus = 2 * h
    BY Limits
  <1>2. l \in Int /\ r \in Int /\ l * r \in Int
    BY <1>1 DEF Ints
  <1>3. l * r \notin Ints <=> l * r < -h \/ l * r > h - 1
    BY <1>1, <1>2 DEF Ints
  <1>4. CASE l > 0 /\ r > 0
    <2>1. MultiplyOverflows(l, r) <=> l > (h - 1) \div r
      BY <1>1, <1>2, <1>4, CheckedQuotients DEF MultiplyOverflows
    <2>2. l > (h - 1) \div r <=> l * r > h - 1
      BY <1>2, <1>4, DivisionBoundsProduct
    <2> QED BY <2>1, <2>2, <1>2, <1>3, <1>4, ProductSigns
  <1>5. CASE l > 0 /\ r < 0
    <2>1. MultiplyOverflows(l, r) <=> r < -(h \div l)
      BY <1>1, <1>2, <1>5, CheckedQuotients DEF MultiplyOverflows
    <2>2. h \div l \in Nat /\ (-r > h \div l <=> (-r) * l > h)
      BY <1>2, <1>5, DivisionBoundsProduct
    <2>3. (-r) * l = -(l * r) /\ l * r < 0
      BY <1>2, <1>5
    <2> QED BY <2>1, <2>2, <2>3, <1>2, <1>3
  <1>6. CASE l < 0 /\ r > 0
    <2>1. MultiplyOverflows(l, r) <=> l < -(h \div r)
      BY <1>1, <1>2, <1>6, CheckedQuotients DEF MultiplyOverflows
    <2>2. h \div r \in Nat /\ (-l > h \div r <=> (-l) * r > h)
      BY <1>2, <1>6, DivisionBoundsProduct
    <2>3. (-l) * r = -(l * r) /\ l * r < 0
      BY <1>2, <1>6
    <2> QED BY <2>1, <2>2, <2>3, <1>2, <1>3
  <1>7. CASE l < 0 /\ r < 0
    <2>1. MultiplyOverflows(l, r) <=> r < -((h - 1) \div (-l))
      BY <1>1, <1>2, <1>7, CheckedQuotients DEF MultiplyOverflows
    <2>2. /\ (h - 1) \div (-l) \in Nat
          /\ -r > (h - 1) \div (-l) <=> (-r) * (-l) > h - 1
      BY <1>2, <1>7, DivisionBoundsProduct
    <2>3. (-r) * (-l) = l * r /\ l * r > 0
      BY <1>2, <1>7
    <2> QED BY <2>1, <2>2, <2>3, <1>2, <1>3
  <1>8. CASE l = 0 \/ r = 0
    <2>1. l * r = 0
      BY <1>2, <1>8
    <2>2. CASE l = 0
      BY <2>1, <2>2, <1>3 DEF MultiplyOverflows
    <2>3. CASE l > 0 /\ r = 0
      <3>1. h \div l \in Nat
        BY <1>2, <2>3, DivisionBoundsProduct
      <3>2. Quotient(MinInt, l) = -(h \div l)
        BY <1>1, <1>2, <2>3, CheckedQuotients
      <3> QED BY <3>1, <3>2, <2>1, <2>3, <1>3 DEF MultiplyOverflows
    <2>4. CASE l < 0 /\ r = 0
      BY <2>1, <2>4, <1>3 DEF MultiplyOverflows
    <2> QED BY <2>2, <2>3, <2>4, <1>2, <1>8
  <1> QED BY <1>2, <1>4, <1>5, <1>6, <1>7, <1>8

\* Every Int has its successor, predecessor, opposite and magnitude among the
\* Ints but for the extreme that the check names.
LEMMA UnaryChecks ==
  ASSUME NEW l \in Ints
  PROVE  /\ l = MaxInt <=> l + 1 \notin Ints
         /\ l = MinInt <=> l - 1 \notin Ints
         /\ l = MinInt <=> -l \notin Ints
         /\ l = MinInt <=> (IF l < 0 THEN -l ELSE l) \notin Ints
  <1>1. PICK h \in Nat \ {0} : MinInt = -h /\ MaxInt = h - 1 /\ Modulus = 2 * h
    BY Limits
  <1> QED BY <1>1 DEF Ints

\* invoke_scalar_kernel on integers, whatever their width: it fails when, and
\* only when, the exact result is not an Int, and otherwise returns it.
THEOREM IntegerKernelsAreExact ==
  ASSUME NEW implementation \in IntegerResults,
         NEW l \in Ints, NEW r \in Ints
  PROVE  /\ IntegerOverflows(implementation, l, r)
              <=> ExactInteger(implementation, l, r) \notin Ints
         /\ ~IntegerOverflows(implementation, l, r)
              => IntKernel(implementation, l, r)
                   = ExactInteger(implementation, l, r)
  <1>1. CASE implementation = "inc_integer"
    <2>1. IntegerOverflows(implementation, l, r) <=> l = MaxInt
      BY <1>1 DEF IntegerOverflows
    <2>2. /\ ExactInteger(implementation, l, r) = l + 1
          /\ IntKernel(implementation, l, r) = Wrap(l + 1)
      BY <1>1 DEF ExactInteger, IntKernel
    <2> QED BY <2>1, <2>2, UnaryChecks, WrapOfInt
  <1>2. CASE implementation = "dec_integer"
    <2>1. IntegerOverflows(implementation, l, r) <=> l = MinInt
      BY <1>2 DEF IntegerOverflows
    <2>2. /\ ExactInteger(implementation, l, r) = l - 1
          /\ IntKernel(implementation, l, r) = Wrap(l - 1)
      BY <1>2 DEF ExactInteger, IntKernel
    <2> QED BY <2>1, <2>2, UnaryChecks, WrapOfInt
  <1>3. CASE implementation = "neg_integer"
    <2>1. IntegerOverflows(implementation, l, r) <=> l = MinInt
      BY <1>3 DEF IntegerOverflows
    <2>2. /\ ExactInteger(implementation, l, r) = -l
          /\ IntKernel(implementation, l, r) = Wrap(-l)
      BY <1>3 DEF ExactInteger, IntKernel
    <2> QED BY <2>1, <2>2, UnaryChecks, WrapOfInt
  <1>4. CASE implementation = "abs_integer"
    <2>1. IntegerOverflows(implementation, l, r) <=> l = MinInt
      BY <1>4 DEF IntegerOverflows
    <2>2. /\ ExactInteger(implementation, l, r) = IF l < 0 THEN -l ELSE l
          /\ IntKernel(implementation, l, r) = IF l < 0 THEN Wrap(-l) ELSE l
      BY <1>4 DEF ExactInteger, IntKernel
    <2>3. CASE l < 0
      BY <2>1, <2>2, <2>3, UnaryChecks, WrapOfInt
    <2>4. CASE ~(l < 0)
      BY <2>1, <2>2, <2>4, UnaryChecks
    <2> QED BY <2>3, <2>4
  <1>5. CASE implementation = "add_integer"
    <2>1. IntegerOverflows(implementation, l, r) <=> AddOverflows(l, r)
      BY <1>5 DEF IntegerOverflows
    <2>2. /\ ExactInteger(implementation, l, r) = l + r
          /\ IntKernel(implementation, l, r) = Wrap(l + r)
      BY <1>5 DEF ExactInteger, IntKernel
    <2> QED BY <2>1, <2>2, AdditionIsExact, WrapOfInt
  <1>6. CASE implementation = "sub_integer"
    <2>1. IntegerOverflows(implementation, l, r) <=> SubtractOverflows(l, r)
      BY <1>6 DEF IntegerOverflows
    <2>2. /\ ExactInteger(implementation, l, r) = l - r
          /\ IntKernel(implementation, l, r) = Wrap(l - r)
      BY <1>6 DEF ExactInteger, IntKernel
    <2> QED BY <2>1, <2>2, SubtractionIsExact, WrapOfInt
  <1>7. CASE implementation = "mul_integer"
    <2>1. IntegerOverflows(implementation, l, r) <=> MultiplyOverflows(l, r)
      BY <1>7 DEF IntegerOverflows
    <2>2. /\ ExactInteger(implementation, l, r) = l * r
          /\ IntKernel(implementation, l, r) = Wrap(l * r)
      BY <1>7 DEF ExactInteger, IntKernel
    <2> QED BY <2>1, <2>2, MultiplicationIsExact, WrapOfInt
  <1> QED BY <1>1, <1>2, <1>3, <1>4, <1>5, <1>6, <1>7 DEF IntegerResults

\* The generated program increments by an addition, whose check is made with
\* the constant 1; the interpreter compares with the extreme.
LEMMA IncrementByAddition ==
  ASSUME NEW l \in Ints
  PROVE  NativeAddOverflows(l, 1) <=> l = MaxInt
  <1>1. PICK h \in Nat \ {0} : MinInt = -h /\ MaxInt = h - 1 /\ Modulus = 2 * h
    BY Limits
  <1>2. MaxInt - 1 \in Ints
    BY <1>1 DEF Ints
  <1>3. NativeAddOverflows(l, 1) <=> l > MaxInt - 1
    BY <1>2, WrapOfInt DEF NativeAddOverflows
  <1> QED BY <1>1, <1>3 DEF Ints

\* bennu_kernel of the generated program agrees with invoke_scalar_kernel of
\* the interpreter on every integer call: on whether it fails, and on the
\* result when it does not.
THEOREM NativeIntegersAgree ==
  ASSUME NEW implementation \in IntegerResults,
         NEW l \in Ints, NEW r \in Ints
  PROVE  /\ NativeKernelFails(implementation, l, r)
              <=> IntegerOverflows(implementation, l, r)
         /\ NativeNumber(implementation, l, r) = IntKernel(implementation, l, r)
  <1>1. NativeNumber(implementation, l, r) = IntKernel(implementation, l, r)
    BY DEF NativeNumber, IntKernel, IntegerResults
  <1>2. /\ NativeAddOverflows(l, r) <=> AddOverflows(l, r)
        /\ NativeSubOverflows(l, r) <=> SubtractOverflows(l, r)
    BY DEF NativeAddOverflows, AddOverflows, NativeSubOverflows, SubtractOverflows
  <1>3. NativeMulOverflows(l, r) <=> MultiplyOverflows(l, r)
    <2>1. l \in Int
      BY Limits DEF Ints
    <2> QED BY <2>1 DEF NativeMulOverflows, MultiplyOverflows
  <1>4. NativeKernelFails(implementation, l, r)
          <=> IntegerOverflows(implementation, l, r)
    BY <1>2, <1>3, IncrementByAddition
       DEF NativeKernelFails, IntegerOverflows, IntegerResults
  <1> QED BY <1>1, <1>4

(***************************************************************************)
(* The invariant.                                                          *)
(***************************************************************************)

\* The arguments of a call come from its trial.
ArgumentsGiven ==
  /\ call.trial \in DOMAIN Trials
  /\ call.descriptor \in DOMAIN CalledTable
  /\ Len(call.arguments) \in Nat \ {0}
  /\ call.arguments \in [1 .. Len(call.arguments) -> Trials[call.trial].arguments]

\* The checks have let an elementwise call pass: every parameter accepts its
\* argument, no argument is a tuple, and all vectors are as long as the first.
ArgumentsFit ==
  /\ AcceptsAll(CalledSignature, Elements(call.arguments))
  /\ \A k \in DOMAIN call.arguments : call.arguments[k].container /= "tuple"
  /\ \A k \in VectorsOf(call.arguments) :
       Len(call.arguments[k].values)
         = Len(call.arguments[FirstOf(VectorsOf(call.arguments))].values)

ArithmeticInv ==
  /\ phase \in {"admit", "loop"} =>
       /\ ArgumentsGiven
       /\ Lifted => ArgumentsFit
       /\ ~Lifted => CalledSignature.implementation = "iota_integer"
       /\ outcome = Pending
  /\ phase = "loop" => Lifted /\ \E S : results \in Seq(S)
  /\ phase \in {"idle", "admit"} => results = <<>>
  /\ phase = "idle" => signature = 0
  /\ CheckedArithmetic

(***************************************************************************)
(* The least position, and what the checks establish.                      *)
(***************************************************************************)

LEMMA LeastPosition ==
  ASSUME NEW positions \in SUBSET Nat, positions /= {}
  PROVE  FirstOf(positions) \in positions
  <1>1. \E x \in positions : \A y \in positions : ~(<<y, x>> \in OpToRel(<, Nat))
    BY NatLessThanWellFounded, WFMin, Zenon
  <1>2. PICK x \in positions : \A y \in positions : ~(<<y, x>> \in OpToRel(<, Nat))
    BY <1>1
  <1>3. \A y \in positions : ~(y < x)
    BY <1>2, Zenon DEF OpToRel
  <1>4. \A y \in positions : x <= y
    BY <1>3
  <1> QED BY <1>4 DEF FirstOf

\* A selected signature accepts the element types of the arguments.
LEMMA SelectedAccepts ==
  ASSUME NEW descriptor, NEW entry, NEW implementation, NEW arguments,
         descriptor.lifting /= "none",
         SelectedSignature(descriptor, entry, implementation, arguments) /= 0
  PROVE  AcceptsAll(descriptor.signatures[
                      SelectedSignature(descriptor, entry, implementation, arguments)],
                    Elements(arguments))
  <1>1. CASE entry = "typed"
    BY <1>1 DEF SelectedSignature, TypedSignature
  <1>2. CASE entry /= "typed"
    <2> DEFINE cheapest == Cheapest(descriptor, Elements(arguments))
               s == CHOOSE t \in cheapest : TRUE
    <2>1. SelectedSignature(descriptor, entry, implementation, arguments)
            = IF Cardinality(cheapest) = 1 THEN s ELSE 0
      BY <1>2 DEF SelectedSignature, SelectPrimitiveSignature
    <2>2. cheapest /= {}
      BY <2>1, FS_EmptySet
    <2>3. s \in cheapest
      BY <2>2
    <2> QED BY <2>1, <2>3 DEF Cheapest
  <1> QED BY <1>1, <1>2

\* Vectors without a shape error are as long as the first of them.
LEMMA ShapesAgree ==
  ASSUME NEW n \in Nat, NEW arguments, DOMAIN arguments = 1 .. n,
         ShapeErrorPosition(arguments) = 0
  PROVE  \A k \in VectorsOf(arguments) :
           Len(arguments[k].values)
             = Len(arguments[FirstOf(VectorsOf(arguments))].values)
  <1> DEFINE vectors == VectorsOf(arguments)
             unequal == {k \in vectors :
                           Len(arguments[k].values)
                             /= Len(arguments[FirstOf(vectors)].values)}
  <1>1. unequal \in SUBSET Nat /\ 0 \notin unequal
    BY DEF VectorsOf
  <1>2. ShapeErrorPosition(arguments)
          = IF unequal = {} THEN 0 ELSE FirstOf(unequal)
    BY DEF ShapeErrorPosition
  <1>3. unequal = {}
    BY <1>1, <1>2, LeastPosition
  <1> QED BY <1>3

\* What Checked returns is pending or an error, but never a domain error, and
\* what it lets pass is fit for the element loop.
LEMMA CheckedKinds ==
  ASSUME NEW descriptor, NEW entry, NEW implementation, NEW arguments
  PROVE  \/ Checked(descriptor, entry, implementation, arguments) = Pending
         \/ Checked(descriptor, entry, implementation, arguments).kind /= "none"
  BY DEF Checked, Pending, Returns

LEMMA CheckedFits ==
  ASSUME NEW descriptor, NEW entry, NEW implementation,
         NEW n \in Nat, NEW arguments, DOMAIN arguments = 1 .. n,
         Checked(descriptor, entry, implementation, arguments).kind = "none"
  PROVE  LET selected ==
               SelectedSignature(descriptor, entry, implementation, arguments)
         IN  IF descriptor.lifting = "none"
             THEN descriptor.signatures[selected].implementation = "iota_integer"
             ELSE /\ AcceptsAll(descriptor.signatures[selected], Elements(arguments))
                  /\ \A k \in DOMAIN arguments : arguments[k].container /= "tuple"
                  /\ \A k \in VectorsOf(arguments) :
                       Len(arguments[k].values)
                         = Len(arguments[FirstOf(VectorsOf(arguments))].values)
  <1> DEFINE selected ==
               SelectedSignature(descriptor, entry, implementation, arguments)
  <1>1. /\ {k \in DOMAIN arguments : arguments[k].container = "tuple"} = {}
        /\ selected /= 0
    BY DEF Checked, Returns
  <1>2. CASE descriptor.lifting = "none"
    BY <1>1, <1>2 DEF Checked, Returns
  <1>3. CASE descriptor.lifting /= "none"
    <2>1. ShapeErrorPosition(arguments) = 0
      BY <1>1, <1>3 DEF Checked, Returns
    <2> QED BY <1>1, <1>3, <2>1, SelectedAccepts, ShapesAgree
  <1> QED BY <1>2, <1>3

(***************************************************************************)
(* The operands of an integer kernel.                                      *)
(***************************************************************************)

\* An implementation of integer arithmetic has Int parameters only.
LEMMA IntParameters ==
  ASSUME NEW id, NEW called,
         ImplementationMatches(id, called),
         called.implementation \in IntegerResults
  PROVE  \E m \in Nat : called.parameters \in [1 .. m -> {Scalar("Int")}]
  <1>1. called.implementation /= "iota_integer"
    BY DEF IntegerResults
  <1>2. PICK row \in ImplementationRows :
          /\ row[4] = called.implementation
          /\ called.parameters = [k \in DOMAIN row[2] |-> Scalar(row[2][k])]
    BY <1>1 DEF ImplementationMatches, Signature
  <1>3. row[2] \in {<<"Int">>, <<"Int", "Int">>}
    BY <1>2 DEF ImplementationRows, IntegerResults
  <1>4. CASE row[2] = <<"Int">>
    <2>1. called.parameters \in [1 .. 1 -> {Scalar("Int")}]
      BY <1>2, <1>4
    <2> QED BY <2>1
  <1>5. CASE row[2] = <<"Int", "Int">>
    <2>1. called.parameters \in [1 .. 2 -> {Scalar("Int")}]
      BY <1>2, <1>5
    <2> QED BY <2>1
  <1> QED BY <1>3, <1>4, <1>5

LEMMA CountIsNat ==
  ASSUME ArgumentsGiven, Lifted
  PROVE  Count \in Nat
  <1>1. CASE VectorsOf(call.arguments) = {}
    BY <1>1 DEF Count, VectorResult
  <1>2. CASE VectorsOf(call.arguments) /= {}
    <2> DEFINE first == FirstOf(VectorsOf(call.arguments))
    <2>1. VectorsOf(call.arguments) \in SUBSET Nat
      BY DEF ArgumentsGiven, VectorsOf
    <2>2. first \in DOMAIN call.arguments
      BY <1>2, <2>1, LeastPosition DEF VectorsOf
    <2>3. call.arguments[first] \in Trials[call.trial].arguments
      BY <2>2 DEF ArgumentsGiven
    <2>4. call.arguments[first].values \in Seq(Int)
      BY <2>3, TrialsAssumption DEF ArgumentsGiven
    <2>5. Count = Len(call.arguments[first].values)
      BY <1>2 DEF Count, VectorResult
    <2> QED BY <2>4, <2>5
  <1> QED BY <1>1, <1>2

\* Whatever the containers of the arguments, an element that an integer
\* kernel is given is an Int.
LEMMA OperandsAreInts ==
  ASSUME ArgumentsGiven, ArgumentsFit, Lifted,
         ImplementationMatches(CalledDescriptor.id, CalledSignature),
         CalledSignature.implementation \in IntegerResults,
         NEW index \in Nat \ {0}, index <= Count
  PROVE  /\ Operands(index)[1].value \in Ints
         /\ Operands(index)[Len(Operands(index))].value \in Ints
  <1> DEFINE n == Len(call.arguments)
  <1>1. n \in Nat \ {0} /\ call.arguments \in [1 .. n -> Trials[call.trial].arguments]
    BY DEF ArgumentsGiven
  <1>2. ASSUME NEW k \in 1 .. n PROVE CalledSignature.parameters[k].element = "Int"
    <2>1. PICK m \in Nat : CalledSignature.parameters \in [1 .. m -> {Scalar("Int")}]
      BY IntParameters
    <2>2. Len(CalledSignature.parameters) = m
      BY <2>1
    <2>3. Len(Elements(call.arguments)) = n
      BY <1>1 DEF Elements
    <2>4. m = n
      BY <2>2, <2>3 DEF ArgumentsFit, AcceptsAll
    <2> QED BY <2>1, <2>4 DEF Scalar, ValueType
  <1>3. ASSUME NEW k \in 1 .. n PROVE call.arguments[k].element = "Int"
    <2>1. Accepts(CalledSignature.parameters[k].element, Elements(call.arguments)[k])
      BY <1>1, <1>3 DEF ArgumentsFit, AcceptsAll, Elements
    <2> QED BY <1>1, <1>2, <2>1 DEF Accepts, Elements
  <1>4. ASSUME NEW k \in 1 .. n PROVE Operands(index)[k].value \in Ints
    <2> DEFINE argument == call.arguments[k]
               position == IF argument.container = "scalar" THEN 1 ELSE index
    <2>1. argument \in Trials[call.trial].arguments
      BY <1>1
    <2>2. /\ argument.container \in {"scalar", "vector", "tuple"}
          /\ argument.values \in Seq(Int)
          /\ argument.container = "scalar" => Len(argument.values) = 1
          /\ \A j \in DOMAIN argument.values : argument.values[j] \in Ints
      BY <1>3, <2>1, TrialsAssumption DEF ArgumentsGiven, Ints
    <2>3. position \in DOMAIN argument.values
      <3>1. CASE argument.container = "scalar"
        BY <2>2, <3>1
      <3>2. CASE argument.container = "vector"
        <4>1. k \in VectorsOf(call.arguments)
          BY <1>1, <3>2 DEF VectorsOf
        <4>2. Count = Len(argument.values)
          BY <4>1 DEF Count, VectorResult, ArgumentsFit
        <4> QED BY <2>2, <3>2, <4>2
      <3> QED BY <1>1, <2>2, <3>1, <3>2 DEF ArgumentsFit
    <2>4. Operands(index)[k]
            = ConvertScalar(ScalarValue("Int", argument.values[position]), "Int")
      BY <1>1, <1>2, <1>3 DEF Operands, Project
    <2>5. Operands(index)[k].value = argument.values[position]
      BY <2>4 DEF ConvertScalar, ScalarValue
    <2> QED BY <2>2, <2>3, <2>5
  <1>5. Len(Operands(index)) = n
    BY <1>1 DEF Operands
  <1> QED BY <1>1, <1>4, <1>5

(***************************************************************************)
(* The actions.                                                            *)
(***************************************************************************)

LEMMA SameCall ==
  ASSUME UNCHANGED <<call, signature>>
  PROVE  /\ CalledSignature' = CalledSignature
         /\ (Lifted' <=> Lifted) /\ Count' = Count
         /\ (ArgumentsGiven' <=> ArgumentsGiven)
         /\ (ArgumentsFit' <=> ArgumentsFit)
         /\ \A k : Operands(k)' = Operands(k) /\ ExactAt(k)' = ExactAt(k)
  <1>1. CalledSignature' = CalledSignature /\ CalledDescriptor' = CalledDescriptor
    BY DEF CalledSignature, CalledDescriptor, CalledTable
  <1>2. \A k : Operands(k)' = Operands(k)
    BY <1>1 DEF Operands
  <1>3. \A k : ExactAt(k)' = ExactAt(k)
    BY <1>1, <1>2 DEF ExactAt
  <1>4. Lifted' <=> Lifted
    BY <1>1 DEF Lifted
  <1>5. Count' = Count
    BY <1>4 DEF Count, VectorResult
  <1>6. ArgumentsGiven' <=> ArgumentsGiven
    BY DEF ArgumentsGiven, CalledTable
  <1>7. ArgumentsFit' <=> ArgumentsFit
    BY <1>1 DEF ArgumentsFit
  <1> QED BY <1>1, <1>2, <1>3, <1>4, <1>5, <1>6, <1>7

\* The implementation the lowering chose, and Begin once its call is chosen.
LoweredImplementation(descriptor, arguments) ==
  LET lowered == LoweredSignature(descriptor, arguments)
  IN  IF lowered = 0 THEN "none" ELSE descriptor.signatures[lowered].implementation

Begun(t, entry, d, arguments) ==
  LET descriptor == Trials[t].table[d]
      implementation == LoweredImplementation(descriptor, arguments)
      checked == Checked(descriptor, entry, implementation, arguments)
  IN  /\ call' = [trial |-> t, descriptor |-> d, entry |-> entry,
                  arguments |-> arguments]
      /\ outcome' \in {checked} \cup HostFailures(checked, arguments)
      /\ phase' = IF outcome'.kind = "none" THEN "admit" ELSE "done"
      /\ signature' =
           IF outcome'.kind /= "none" THEN 0
           ELSE SelectedSignature(descriptor, entry, implementation, arguments)

\* A call that the checks refuse has no signature; one they let pass is fit.
LEMMA BeginStep ==
  ASSUME ArithmeticInv, Begin
  PROVE  ArithmeticInv'
  <1>1. phase = "idle" /\ results = <<>> /\ results' = <<>>
    BY DEF Begin, ArithmeticInv
  <1>2. PICK t \in DOMAIN Trials : \E entry \in Trials[t].entries,
                                      count \in 1 .. Trials[t].most :
          \E d \in DOMAIN Trials[t].table,
             arguments \in [1 .. count -> Trials[t].arguments] :
            Begun(t, entry, d, arguments)
    BY DEF Begin, Begun, LoweredImplementation
  <1>3. PICK entry \in Trials[t].entries, count \in 1 .. Trials[t].most :
          \E d \in DOMAIN Trials[t].table,
             arguments \in [1 .. count -> Trials[t].arguments] :
            Begun(t, entry, d, arguments)
    BY <1>2
  <1>4. PICK d \in DOMAIN Trials[t].table,
             arguments \in [1 .. count -> Trials[t].arguments] :
          Begun(t, entry, d, arguments)
    BY <1>3
  <1> DEFINE descriptor == Trials[t].table[d]
             implementation == LoweredImplementation(descriptor, arguments)
             checked == Checked(descriptor, entry, implementation, arguments)
  <1>5. CASE outcome'.kind /= "none"
    BY <1>1, <1>4, <1>5 DEF Begun, ArithmeticInv, CheckedArithmetic
  <1>6. CASE outcome'.kind = "none"
    <2>1. outcome' = checked
      BY <1>4, <1>6 DEF Begun, HostFailures, Returns
    <2>2. outcome' = Pending
      BY <1>6, <2>1, CheckedKinds
    <2>3. /\ phase' = "admit"
          /\ signature' = SelectedSignature(descriptor, entry, implementation, arguments)
          /\ call'.trial = t /\ call'.descriptor = d /\ call'.arguments = arguments
      BY <1>4, <1>6 DEF Begun
    <2>4. count \in Nat \ {0}
      BY TrialsAssumption
    <2>5. Len(arguments) = count /\ DOMAIN arguments = 1 .. count
      BY <2>4
    <2>6. /\ CalledDescriptor' = descriptor
          /\ CalledSignature' = descriptor.signatures[signature']
      BY <2>3 DEF CalledSignature, CalledDescriptor, CalledTable
    <2>7. ArgumentsGiven'
      BY <2>3, <2>4, <2>5 DEF ArgumentsGiven, CalledTable
    <2>8. (Lifted => ArgumentsFit)' /\ (~Lifted => CalledSignature.implementation = "iota_integer")'
      <3>1. descriptor.lifting \in {"none", "elementwise"}
        BY TrialsAssumption
      <3>2. LET selected ==
                  SelectedSignature(descriptor, entry, implementation, arguments)
            IN  IF descriptor.lifting = "none"
                THEN descriptor.signatures[selected].implementation = "iota_integer"
                ELSE /\ AcceptsAll(descriptor.signatures[selected], Elements(arguments))
                     /\ \A k \in DOMAIN arguments : arguments[k].container /= "tuple"
                     /\ \A k \in VectorsOf(arguments) :
                          Len(arguments[k].values)
                            = Len(arguments[FirstOf(VectorsOf(arguments))].values)
        <4>1. checked.kind = "none"
          BY <1>6, <2>1
        <4>2. count \in Nat /\ DOMAIN arguments = 1 .. count
          BY <2>4, <2>5
        <4> HIDE DEF descriptor, implementation
        <4> QED BY <4>1, <4>2, CheckedFits
      <3> QED BY <2>3, <2>6, <3>1, <3>2 DEF Lifted, ArgumentsFit
    <2>9. CheckedArithmetic'
      BY <1>1, <2>2 DEF CheckedArithmetic, Pending, Returns
    <2> QED BY <1>1, <2>2, <2>3, <2>7, <2>8, <2>9 DEF ArithmeticInv
  <1> QED BY <1>5, <1>6

LEMMA AdmitStep ==
  ASSUME ArithmeticInv, Admit
  PROVE  ArithmeticInv'
  <1>1. phase = "admit" /\ results = <<>> /\ outcome = Pending
    BY DEF Admit, ArithmeticInv
  <1>2. UNCHANGED <<call, signature>>
    BY DEF Admit
  <1>3. CASE Lifted /\ phase' = "loop" /\ UNCHANGED <<results, outcome>>
    <2>1. results' \in Seq({})
      BY <1>1, <1>3
    <2>2. CheckedArithmetic'
      BY <1>1, <1>3 DEF CheckedArithmetic, Pending, Returns
    <2> QED BY <1>1, <1>2, <1>3, <2>1, <2>2, SameCall DEF ArithmeticInv
  <1>4. CASE ~Lifted /\ phase' = "done"
    <2>1. CalledSignature'.implementation = "iota_integer"
      BY <1>1, <1>2, <1>4, SameCall DEF ArithmeticInv
    <2> QED BY <1>4, <2>1 DEF ArithmeticInv, CheckedArithmetic, IntegerResults
  <1>5. CASE Finish(Returns("resource", 0, 0, <<>>), <<>>, FALSE)
    BY <1>5 DEF Finish, Returns, ArithmeticInv, CheckedArithmetic
  <1> QED BY <1>3, <1>4, <1>5 DEF Admit, Finish

\* An integer kernel is given Ints, so it stores the exact result or fails
\* because there is none.
LEMMA ElementStep ==
  ASSUME ArithmeticInv, Element
  PROVE  ArithmeticInv'
  <1> DEFINE index == Len(results) + 1
             operands == Operands(index)
             implementation == CalledSignature.implementation
             kernel == ScalarKernel(implementation, operands)
  <1>1. /\ phase = "loop" /\ ArgumentsGiven /\ ArgumentsFit /\ Lifted
        /\ outcome = Pending /\ CheckedArithmetic
        /\ UNCHANGED <<call, signature>>
    BY DEF Element, ArithmeticInv
  <1>2. PICK S : results \in Seq(S)
    BY <1>1 DEF ArithmeticInv
  <1>3. index \in Nat \ {0} /\ index <= Count /\ Len(results) = index - 1
    BY <1>1, <1>2, CountIsNat DEF Element
  <1>4. ASSUME ~InvalidInvocation(operands), implementation \in IntegerResults
        PROVE  IF kernel.status = "domain_error" THEN ExactAt(index) \notin Ints
               ELSE kernel.value.value = ExactAt(index)
    <2>1. ImplementationMatches(CalledDescriptor.id, CalledSignature)
      BY <1>4 DEF InvalidInvocation
    <2>2. operands[1].value \in Ints /\ operands[Len(operands)].value \in Ints
      BY <1>1, <1>3, <1>4, <2>1, OperandsAreInts
    <2> DEFINE l == operands[1].value
               r == operands[Len(operands)].value
    <2>3. /\ IntegerOverflows(implementation, l, r)
               <=> ExactInteger(implementation, l, r) \notin Ints
          /\ ~IntegerOverflows(implementation, l, r)
               => IntKernel(implementation, l, r) = ExactInteger(implementation, l, r)
      BY <1>4, <2>2, IntegerKernelsAreExact
    <2>4. ExactAt(index) = ExactInteger(implementation, l, r)
      BY DEF ExactAt
    <2>5. /\ IntegerOverflows(implementation, l, r) => kernel.status = "domain_error"
          /\ ~IntegerOverflows(implementation, l, r) =>
               /\ kernel.status = "success"
               /\ kernel.value.value = IntKernel(implementation, l, r)
      BY <1>4 DEF ScalarKernel, ScalarValue
    <2> QED BY <2>3, <2>4, <2>5
  <1>5. CASE /\ phase' = "done" /\ results' = results
             /\ outcome'.kind = "domain_error" =>
                  ~InvalidInvocation(operands) /\ kernel.status = "domain_error"
    <2>1. ASSUME signature' /= 0, CalledSignature'.implementation \in IntegerResults
          PROVE  /\ \A k \in DOMAIN results' : results'[k].value = ExactAt(k)'
                 /\ outcome'.kind = "domain_error" =>
                      ExactAt(Len(results) + 1)' \notin MinInt .. MaxInt
      <3>1. signature /= 0 /\ implementation \in IntegerResults
        BY <1>1, <2>1, SameCall
      <3>2. \A k \in DOMAIN results : results[k].value = ExactAt(k)
        BY <1>1, <3>1 DEF CheckedArithmetic
      <3>3. ASSUME outcome'.kind = "domain_error" PROVE ExactAt(index) \notin Ints
        BY <1>4, <1>5, <3>1, <3>3
      <3>4. \A k : ExactAt(k)' = ExactAt(k)
        BY <1>1, SameCall
      <3>5. ExactAt(Len(results) + 1)' = ExactAt(index)
        BY <1>1, <1>5 DEF ExactAt, Operands, CalledSignature, CalledDescriptor, CalledTable
      <3> QED BY <1>5, <3>2, <3>3, <3>4, <3>5 DEF Ints
    <2>2. CheckedArithmetic'
      BY <2>1 DEF CheckedArithmetic
    <2> QED BY <1>5, <2>2 DEF ArithmeticInv
  <1>6. CASE /\ ~InvalidInvocation(operands) /\ kernel.status /= "domain_error"
             /\ results' = Append(results, kernel.value)
             /\ UNCHANGED <<phase, outcome>>
    <2>1. /\ results' \in Seq(S \cup {kernel.value})
          /\ DOMAIN results' = 1 .. index
          /\ results'[index] = kernel.value
          /\ \A k \in 1 .. index - 1 : k \in DOMAIN results /\ results'[k] = results[k]
      <3>1. results \in Seq(S \cup {kernel.value})
        BY <1>2
      <3> QED BY <1>3, <1>6, <3>1
    <2>2. ASSUME signature' /= 0, CalledSignature'.implementation \in IntegerResults,
                 NEW k \in DOMAIN results'
          PROVE  results'[k].value = ExactAt(k)'
      <3>1. signature /= 0 /\ implementation \in IntegerResults
        BY <1>1, <2>2, SameCall
      <3>2. ExactAt(k)' = ExactAt(k)
        BY <1>1, SameCall
      <3>3. CASE k = index
        BY <1>4, <1>6, <2>1, <3>1, <3>2, <3>3
      <3>4. CASE k /= index
        <4>1. k \in 1 .. index - 1
          BY <1>3, <2>1, <2>2, <3>4
        <4> QED BY <1>1, <2>1, <3>1, <3>2, <4>1 DEF CheckedArithmetic
      <3> QED BY <3>3, <3>4
    <2>3. CheckedArithmetic'
      BY <1>1, <1>6, <2>2 DEF CheckedArithmetic, Pending, Returns
    <2> QED BY <1>1, <1>6, <2>1, <2>3, SameCall DEF ArithmeticInv
  <1>7. \/ /\ phase' = "done" /\ results' = results
           /\ outcome'.kind = "domain_error" =>
                ~InvalidInvocation(operands) /\ kernel.status = "domain_error"
        \/ /\ ~InvalidInvocation(operands) /\ kernel.status /= "domain_error"
           /\ results' = Append(results, kernel.value)
           /\ UNCHANGED <<phase, outcome>>
    BY DEF Element, Finish, Returns
  <1> QED BY <1>5, <1>6, <1>7

LEMMA ReturnStep ==
  ASSUME ArithmeticInv, Return
  PROVE  ArithmeticInv'
  <1>1. /\ UNCHANGED <<call, signature, results>>
        /\ phase' = "done" /\ outcome'.kind = "ok"
    BY DEF Return, Finish, Returns
  <1>2. CheckedArithmetic'
    BY <1>1, SameCall DEF ArithmeticInv, CheckedArithmetic
  <1> QED BY <1>1, <1>2 DEF ArithmeticInv

\* Whatever the table, the arguments and the width of Int, every result of an
\* integer primitive is exact, and a call fails for overflow only at an
\* element whose exact result is not an Int.
THEOREM IntegerArithmeticIsChecked == Spec => []CheckedArithmetic
  <1>1. Init => ArithmeticInv
    BY DEF Init, ArithmeticInv, CheckedArithmetic
  <1>2. ArithmeticInv /\ [Next]_vars => ArithmeticInv'
    <2> SUFFICES ASSUME ArithmeticInv, [Next]_vars PROVE ArithmeticInv'
      OBVIOUS
    <2>1. CASE UNCHANGED vars
      <3>1. UNCHANGED <<phase, results, outcome, call, signature>>
        BY <2>1 DEF vars
      <3>2. CheckedArithmetic'
        BY <3>1, SameCall DEF ArithmeticInv, CheckedArithmetic
      <3> QED BY <3>1, <3>2, SameCall DEF ArithmeticInv
    <2> QED BY <2>1, BeginStep, AdmitStep, ElementStep, ReturnStep
            DEF Next, Returned
  <1>3. ArithmeticInv => CheckedArithmetic
    BY DEF ArithmeticInv
  <1> QED BY <1>1, <1>2, <1>3, PTL DEF Spec
=============================================================================
