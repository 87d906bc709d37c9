------------------------- MODULE PrimitiveApplication -------------------------
(***************************************************************************)
(* src/src/application.cpp: one application of a primitive to values, by   *)
(* apply_primitive (the signature follows from the values) or by           *)
(* apply_typed_primitive (the lowering has chosen an implementation).      *)
(*                                                                         *)
(* An argument is a scalar, a vector or a tuple; borrowed says that it is  *)
(* an element of a tuple value, which is then what is validated.  What the *)
(* resources decide is in EvaluationResources: here an admission succeeds, *)
(* and counts its work, or fails.                                          *)
(*                                                                         *)
(*   phase        idle, admit (checked, nothing charged), loop, done       *)
(*   call         the table, descriptor, entry and arguments of the call   *)
(*   signature    the selected signature, by index in the descriptor       *)
(*   results      the kernel results stored so far                         *)
(*   reserved     a result vector is reserved                              *)
(*   work         work units charged                                       *)
(*   outcome      what the call returns: its kind, the argument position   *)
(*                and the element an error names (0 for none), and the     *)
(*                operands of a domain error                               *)
(***************************************************************************)
EXTENDS PrimitiveTable, NativeKernels

CONSTANT Trials  \* a sequence of records: a primitive table, the arguments and
                 \* the number of them (bound) its calls have, and how they
                 \* are made: "value" or "typed"

\* Arguments are values: a scalar has one component, an Int is within range.
ASSUME TrialsAssumption ==
  \A t \in DOMAIN Trials :
    /\ Trials[t].most \in Nat
    /\ \A argument \in Trials[t].arguments :
         /\ argument.container \in {"scalar", "vector", "tuple"}
         /\ argument.values \in Seq(Int)
         /\ argument.container = "scalar" => Len(argument.values) = 1
         /\ argument.element = "Int" =>
              \A k \in DOMAIN argument.values :
                argument.values[k] \in MinInt .. MaxInt
    /\ \A d \in DOMAIN Trials[t].table :
         Trials[t].table[d].lifting \in {"none", "elementwise"}

VARIABLES phase, call, signature, results, reserved, work, outcome

vars == <<phase, call, signature, results, reserved, work, outcome>>

MaximumArity == 2

Argument(container, element, values, borrowed) ==
  [container |-> container, element |-> element, values |-> values,
   borrowed |-> borrowed]

Returns(kind, position, element, operands) ==
  [kind |-> kind, position |-> position, element |-> element,
   operands |-> operands]

Pending == Returns("none", 0, 0, <<>>)
NoCall == [trial |-> 1, descriptor |-> 1, entry |-> "value", arguments |-> <<>>]

CalledTable == Trials[call.trial].table
TableVerdict == ValidatePrimitiveTable(CalledTable)
CalledDescriptor == CalledTable[call.descriptor]
CalledSignature == CalledDescriptor.signatures[signature]

Elements(arguments) == [k \in DOMAIN arguments |-> arguments[k].element]

(***************************************************************************)
(* The checks before anything is charged.                                  *)
(***************************************************************************)

\* type_accepts.
TypeAccepts(descriptor, parameter, argument) ==
  /\ argument.container /= "tuple"
  /\ IF descriptor.lifting = "none"
     THEN parameter = ValueType(argument.container, argument.element)
     ELSE Accepts(parameter.element, argument.element)

\* Some signature of the right arity is still a candidate after k arguments.
PrefixAccepted(descriptor, arguments, k) ==
  \E s \in DOMAIN descriptor.signatures :
    LET parameters == descriptor.signatures[s].parameters
    IN  /\ Len(parameters) = Len(arguments)
        /\ \A j \in 1 .. k : TypeAccepts(descriptor, parameters[j], arguments[j])

\* type_error: the first argument after which no candidate remains, 0 if one
\* remains to the end.
TypeErrorPosition(descriptor, arguments) ==
  LET lost == {k \in DOMAIN arguments :
                 ~PrefixAccepted(descriptor, arguments, k)}
  IN  IF lost = {} THEN 0 ELSE CHOOSE k \in lost : \A j \in lost : k <= j

\* The signature whose container and element types are exactly the arguments'.
MatchesArguments(descriptor, s, arguments) ==
  descriptor.signatures[s].parameters
    = [k \in DOMAIN arguments |->
         ValueType(arguments[k].container, arguments[k].element)]

StructuralSignature(descriptor, arguments) ==
  LET matching == {s \in DOMAIN descriptor.signatures :
                     MatchesArguments(descriptor, s, arguments)}
  IN  IF matching = {} THEN 0
      ELSE CHOOSE s \in matching : \A t \in matching : s <= t

\* The signature by which the lowering types a call of rewrite.cpp whose
\* arguments have these static types, 0 if the program is refused.
LoweredSignature(descriptor, arguments) ==
  IF descriptor.lifting = "none" THEN StructuralSignature(descriptor, arguments)
  ELSE IF \/ Len(arguments) > MaximumArity
          \/ \E k \in DOMAIN arguments : arguments[k].container = "tuple"
  THEN 0
  ELSE SelectPrimitiveSignature(descriptor, Elements(arguments)).index

\* Mutant: a typed call takes its arguments only as they are.
TypedSignature_NoConversion(descriptor, implementation, arguments) ==
  LET named == {s \in DOMAIN descriptor.signatures :
                  descriptor.signatures[s].implementation = implementation}
      s == CHOOSE t \in named : TRUE
  IN  IF Elements(arguments) = [k \in DOMAIN descriptor.signatures[s].parameters |->
                                  descriptor.signatures[s].parameters[k].element]
      THEN s ELSE 0

\* apply_typed_primitive and the checks of its signature: the only signature
\* with the implementation, if it accepts the arguments.
TypedSignature(descriptor, implementation, arguments) ==
  LET named == {s \in DOMAIN descriptor.signatures :
                  descriptor.signatures[s].implementation = implementation}
      s == CHOOSE t \in named : TRUE
  IN  IF descriptor.lifting = "none"
      THEN IF MatchesArguments(descriptor, s, arguments) THEN s ELSE 0
      ELSE IF AcceptsAll(descriptor.signatures[s], Elements(arguments)) THEN s ELSE 0

\* The signature of the call, 0 for a type mismatch.
SelectedSignature(descriptor, entry, implementation, arguments) ==
  IF entry = "typed" THEN TypedSignature(descriptor, implementation, arguments)
  ELSE IF descriptor.lifting = "none"
  THEN StructuralSignature(descriptor, arguments)
  ELSE SelectPrimitiveSignature(descriptor, Elements(arguments)).index

VectorsOf(arguments) ==
  {k \in DOMAIN arguments : arguments[k].container = "vector"}

FirstOf(positions) == CHOOSE k \in positions : \A j \in positions : k <= j

\* The first vector whose length is not that of the first vector, 0 for none.
ShapeErrorPosition(arguments) ==
  LET vectors == VectorsOf(arguments)
      unequal == {k \in vectors :
                    Len(arguments[k].values)
                      /= Len(arguments[FirstOf(vectors)].values)}
  IN  IF unequal = {} THEN 0 ELSE FirstOf(unequal)

\* What the checks return, in their order; "none" lets the call go on.
Checked(descriptor, entry, implementation, arguments) ==
  LET arities == {Len(descriptor.signatures[s].parameters) :
                    s \in DOMAIN descriptor.signatures}
      named == {s \in DOMAIN descriptor.signatures :
                  descriptor.signatures[s].implementation = implementation}
      tuples == {k \in DOMAIN arguments : arguments[k].container = "tuple"}
      selected ==
        SelectedSignature(descriptor, entry, implementation, arguments)
      Refuses(kind, position) == Returns(kind, position, 0, <<>>)
  IN  CASE entry = "typed" /\ Cardinality(named) /= 1
             -> Refuses("invalid_primitive_table", 0)
        [] OTHER ->
           IF Len(arguments) \notin arities THEN Refuses("arity_error", 0)
           ELSE IF Len(arguments) > MaximumArity
           THEN Refuses("invalid_primitive_table", 0)
           ELSE IF tuples /= {} \/ selected = 0
           THEN Refuses("type_mismatch", TypeErrorPosition(descriptor, arguments))
           ELSE IF descriptor.lifting = "none"
           THEN IF /\ descriptor.signatures[selected].implementation = "iota_integer"
                   /\ descriptor.id = "iota" /\ Len(arguments) = 1
                THEN Pending ELSE Refuses("invalid_primitive_table", 0)
           ELSE IF ShapeErrorPosition(arguments) /= 0
           THEN Refuses("shape_mismatch", ShapeErrorPosition(arguments))
           ELSE Pending

\* A value that owns a tuple is validated, and for an error described, with
\* host memory, which may be refused: each argument up to the first that is
\* itself a tuple is validated, and a type mismatch describes them all.
HostFailures(checked, arguments) ==
  LET tuples == {k \in DOMAIN arguments : arguments[k].container = "tuple"}
  IN  {Returns("host_resource", k, 0, <<>>) :
         k \in {j \in DOMAIN arguments :
                  /\ checked.kind \in {"none", "type_mismatch", "shape_mismatch"}
                  /\ arguments[j].container = "tuple" \/ arguments[j].borrowed
                  /\ checked.kind = "type_mismatch" \/ \A t \in tuples : j <= t}}

Begin ==
  /\ phase = "idle"
  /\ \E t \in DOMAIN Trials : \E entry \in Trials[t].entries, count \in 1 .. Trials[t].most :
     \E d \in DOMAIN Trials[t].table, arguments \in [1 .. count -> Trials[t].arguments] :
       LET descriptor == Trials[t].table[d]
           lowered == LoweredSignature(descriptor, arguments)
           implementation ==
             IF lowered = 0 THEN "none"
             ELSE descriptor.signatures[lowered].implementation
           checked == Checked(descriptor, entry, implementation, arguments)
       IN  /\ entry = "typed" => lowered /= 0
           /\ entry = "value" => \A k \in 1 .. count : ~arguments[k].borrowed
           /\ call' = [trial |-> t, descriptor |-> d, entry |-> entry,
                       arguments |-> arguments]
           /\ outcome' \in {checked} \cup HostFailures(checked, arguments)
           /\ phase' = IF outcome'.kind = "none" THEN "admit" ELSE "done"
           /\ signature' =
                IF outcome'.kind /= "none" THEN 0
                ELSE SelectedSignature(descriptor, entry, implementation, arguments)
  /\ UNCHANGED <<results, reserved, work>>

(***************************************************************************)
(* Admission and the element loop.                                         *)
(***************************************************************************)

Lifted == CalledDescriptor.lifting = "elementwise"
VectorResult == ~Lifted \/ VectorsOf(call.arguments) /= {}

\* The number of results: the bound of iota, the length of the first vector,
\* or the one result of scalars.
Count ==
  IF ~Lifted
  THEN LET bound == call.arguments[1].values[1] IN IF bound > 0 THEN bound ELSE 0
  ELSE IF VectorResult
  THEN Len(call.arguments[FirstOf(VectorsOf(call.arguments))].values)
  ELSE 1

Finish(returned, stored, holds) ==
  /\ phase' = "done"
  /\ outcome' = returned
  /\ results' = stored
  /\ reserved' = holds

\* allocate_vector, or charge_work for a scalar result; iota fills its result
\* at once.
Admit ==
  /\ phase = "admit"
  /\ \/ /\ work' = work + (IF VectorResult THEN Count ELSE 1)
        /\ IF Lifted
           THEN /\ phase' = "loop"
                /\ reserved' = VectorResult
                /\ UNCHANGED <<results, outcome>>
           ELSE Finish(Returns("ok", 0, 0, <<>>),
                       [k \in 1 .. Count |-> ScalarValue("Int", k)], TRUE)
     \/ /\ Finish(Returns("resource", 0, 0, <<>>), <<>>, FALSE)
        /\ UNCHANGED work
  /\ UNCHANGED <<call, signature>>

\* project_validated_scalar.
Project(argument, index) ==
  ScalarValue(argument.element,
              argument.values[IF argument.container = "scalar" THEN 1 ELSE index])

Operands(index) ==
  [k \in DOMAIN call.arguments |->
     ConvertScalar(Project(call.arguments[k], index),
                   CalledSignature.parameters[k].element)]

\* What makes invoke_scalar_kernel refuse without an error of its own.
InvalidInvocation(operands) ==
  \/ ~ImplementationMatches(CalledDescriptor.id, CalledSignature)
  \/ \E k \in DOMAIN operands :
       \/ ~ValidScalar(operands[k])
       \/ operands[k].type /= CalledSignature.parameters[k].element

Element ==
  /\ phase = "loop"
  /\ Len(results) < Count
  /\ LET index == Len(results) + 1
         operands == Operands(index)
         kernel == ScalarKernel(CalledSignature.implementation, operands)
         \* The result vector is released first.
         Stops(returned) == Finish(returned, results, FALSE)
     IN  IF \E k \in DOMAIN operands :
              ~Accepts(CalledSignature.parameters[k].element,
                       call.arguments[k].element)
         THEN Stops(Returns("type_mismatch", 0, 0, <<>>))
         ELSE IF InvalidInvocation(operands)
         THEN Stops(Returns("invalid_invocation", 0, 0, <<>>))
         ELSE IF kernel.status = "domain_error"
         THEN Stops(Returns("domain_error", 0, IF VectorResult THEN index ELSE 0,
                            operands))
         ELSE IF VectorResult /\ kernel.value.type /= CalledSignature.result.element
         THEN Stops(Returns("invalid_primitive_table", 0, 0, <<>>))
         ELSE /\ results' = Append(results, kernel.value)
              /\ UNCHANGED <<phase, outcome, reserved>>
  /\ UNCHANGED <<call, signature, work>>

Return ==
  /\ phase = "loop"
  /\ Len(results) = Count
  /\ Finish(Returns("ok", 0, 0, <<>>), results, reserved)
  /\ UNCHANGED <<call, signature, work>>

\* The call has returned.
Returned == phase = "done" /\ UNCHANGED vars

Init ==
  /\ phase = "idle"
  /\ call = NoCall
  /\ signature = 0
  /\ results = <<>>
  /\ reserved = FALSE
  /\ work = 0
  /\ outcome = Pending

Next == Begin \/ Admit \/ Element \/ Return \/ Returned

Spec == Init /\ [][Next]_vars

(***************************************************************************)
(* Properties.                                                             *)
(***************************************************************************)

ExactAt(index) ==
  LET operands == Operands(index)
  IN  ExactInteger(CalledSignature.implementation, operands[1].value,
                   operands[Len(operands)].value)

\* The checks of invoke_scalar_kernel, each made without a wider integer:
\* every result stored is the exact one, and a call fails for overflow at
\* the first element whose exact result does not fit, and at no other.
CheckedArithmetic ==
  signature /= 0 /\ CalledSignature.implementation \in IntegerResults =>
    /\ \A k \in DOMAIN results : results[k].value = ExactAt(k)
    /\ outcome.kind = "domain_error" =>
         ExactAt(Len(results) + 1) \notin MinInt .. MaxInt

\* The same call in a generated program (bennu_apply) ends the same way: the
\* same results, or a failure at the same element with the same operands.
BackendsAgree ==
  outcome.kind \in {"ok", "domain_error"} /\ call.entry = "typed" =>
    IF CalledSignature.implementation = "iota_integer"
    THEN results = NativeIota(call.arguments[1].values[1])
    ELSE LET native == NativeApply(CalledSignature.implementation, call.arguments)
         IN  IF outcome.kind = "ok" THEN native.results = results
             ELSE /\ native.failed = Len(results) + 1
                  /\ native.operands = outcome.operands

\* Every result has the type its signature promises, and no kernel lets a NaN
\* out that is not the canonical one, so that equal results are equal bits and
\* the next primitive accepts them (valid_scalar).
ResultsStayValid ==
  \A k \in DOMAIN results :
    /\ results[k].type = CalledSignature.result.element
    /\ ValidScalar(results[k])

\* int_to_binary64: an Int argument of a Double parameter becomes the Double
\* nearest to it, the even one of two.
ConversionsRoundToNearest ==
  phase = "loop" =>
    \A k \in DOMAIN call.arguments, index \in 1 .. Count :
      LET argument == call.arguments[k]
          n == Project(argument, index).value
      IN  argument.element = "Int" /\ CalledSignature.parameters[k].element = "Double"
            => Operands(index)[k].value
                 = Signed(n < 0, Nearest((IF n < 0 THEN -n ELSE n) * Units, 1))

\* What a comparison of Doubles means: NaN compares to nothing, and the rest
\* by value, whatever the bits.
Compared(implementation, l, r) ==
  LET comparable == ~IsNaN(l) /\ ~IsNaN(r)
  IN  CASE implementation = "equals_double" -> comparable /\ Exact(l) = Exact(r)
        [] implementation = "not_equals_double" -> ~(comparable /\ Exact(l) = Exact(r))
        [] implementation = "less_than_double" -> comparable /\ Exact(l) < Exact(r)
        [] implementation = "greater_than_double" -> comparable /\ Exact(l) > Exact(r)
        [] implementation = "is_positive_double" -> ~IsNaN(l) /\ Exact(l) > 0
        [] implementation = "is_negative_double" -> ~IsNaN(l) /\ Exact(l) < 0

\* The comparisons that work on bit patterns (binary64_order_key) order
\* Doubles by value.
ComparisonsAreNumeric ==
  signature /= 0
  /\ CalledSignature.implementation \in
       {"equals_double", "not_equals_double", "less_than_double",
        "greater_than_double", "is_positive_double", "is_negative_double"} =>
    \A k \in DOMAIN results :
      LET operands == Operands(k)
      IN  results[k] = Bool(Compared(CalledSignature.implementation,
                                     operands[1].value,
                                     operands[Len(operands)].value))

\* The kernels of primitive.cpp compute what the numbers do, however they
\* check, shift and compare bits: integers exact or refused, conversions
\* rounded once, Doubles ordered by value, and no NaN but the canonical one.
KernelsMeetReference ==
  CheckedArithmetic /\ ResultsStayValid /\ ConversionsRoundToNearest /\ ComparisonsAreNumeric

\* A table whose calls can be ambiguous is not accepted, nor is it refused
\* for anything validated later: has_ambiguous_assignment, which tries types,
\* foresees select_primitive_signature, which is given values.
AmbiguityForeseen ==
  phase /= "idle" /\ CalledDescriptor.lifting = "elementwise"
  /\ SelectPrimitiveSignature(CalledDescriptor, Elements(call.arguments)).status
       = "ambiguous" =>
    TableVerdict \notin {"none", "missing_implementation"}

\* validate_primitive_table promises enough: only a call of a table it does
\* not accept is ambiguous, refused for the table's sake, or a type mismatch
\* that names no argument.
AcceptedTablesServe ==
  /\ AmbiguityForeseen
  /\ \/ outcome.kind \in {"invalid_primitive_table", "invalid_invocation"}
     \/ outcome.kind = "type_mismatch" /\ outcome.position = 0
     => TableVerdict /= "none"

\* A call the lowering accepted, of an accepted table, is refused at run time
\* only for its values and for resources, never for its types: lowering and
\* application agree on what a signature takes, as long as the arguments are of
\* the types that lowering counted with (BackendParity has those that are not).
LoweredCallsAreAccepted ==
  /\ phase = "done"
  /\ call.entry = "typed"
  /\ outcome.kind \notin {"ok", "shape_mismatch", "resource", "host_resource",
                         "domain_error"}
  => TableVerdict /= "none"
=============================================================================
