---------------------------- MODULE PrimitiveTable ----------------------------
(***************************************************************************)
(* The primitive table of src/src/primitive.cpp: which descriptors and     *)
(* signatures the language has, what validate_primitive_table accepts, and *)
(* which signature a call selects (select_primitive_signature).            *)
(*                                                                         *)
(* A value type is a container and an element type; a signature has its    *)
(* parameters, its result and the implementation that computes it; a table *)
(* is a sequence of descriptors.  The order of the checks is part of what  *)
(* validation promises, since only the first failure is reported: each     *)
(* check has a rank, and the verdict is the failing check of least rank.   *)
(***************************************************************************)
EXTENDS Integers, Sequences, FiniteSets

ScalarTypes == {"Bool", "Int", "Double"}
ValueType(container, element) == [container |-> container, element |-> element]
Scalar(element) == ValueType("scalar", element)

Signature(parameters, result, implementation) ==
  [parameters |-> parameters, result |-> result,
   implementation |-> implementation]

Descriptor(id, lifting, signatures) ==
  [id |-> id, name |-> id, lifting |-> lifting, signatures |-> signatures]

(***************************************************************************)
(* The production table.                                                   *)
(***************************************************************************)

\* A signature from Bool, Int or Double scalars to a scalar.
Unary(element, result, implementation) ==
  Signature(<<Scalar(element)>>, Scalar(result), implementation)
Binary(element, result, implementation) ==
  Signature(<<Scalar(element), Scalar(element)>>, Scalar(result), implementation)

Elementwise(id, signatures) == Descriptor(id, "elementwise", signatures)

production_descriptors ==
  << Elementwise("inc", <<Unary("Int", "Int", "inc_integer"),
                          Unary("Double", "Double", "inc_double")>>),
     Elementwise("add", <<Binary("Int", "Int", "add_integer"),
                          Binary("Double", "Double", "add_double")>>),
     Elementwise("equals", <<Binary("Bool", "Bool", "equals_boolean"),
                             Binary("Int", "Bool", "equals_integer"),
                             Binary("Double", "Bool", "equals_double")>>),
     Elementwise("not", <<Unary("Bool", "Bool", "logical_not_boolean")>>),
     Descriptor("iota", "none",
                <<Signature(<<Scalar("Int")>>, ValueType("vector", "Int"),
                            "iota_integer")>>),
     Elementwise("and", <<Binary("Bool", "Bool", "logical_and_boolean")>>),
     Elementwise("or", <<Binary("Bool", "Bool", "logical_or_boolean")>>),
     Elementwise("not_equals", <<Binary("Bool", "Bool", "not_equals_boolean"),
                                 Binary("Int", "Bool", "not_equals_integer"),
                                 Binary("Double", "Bool", "not_equals_double")>>),
     Elementwise("odd", <<Unary("Int", "Bool", "odd_integer")>>),
     Elementwise("even", <<Unary("Int", "Bool", "even_integer")>>),
     Elementwise("is_positive", <<Unary("Int", "Bool", "is_positive_integer"),
                                  Unary("Double", "Bool", "is_positive_double")>>),
     Elementwise("is_negative", <<Unary("Int", "Bool", "is_negative_integer"),
                                  Unary("Double", "Bool", "is_negative_double")>>),
     Elementwise("less_than", <<Binary("Int", "Bool", "less_than_integer"),
                                Binary("Double", "Bool", "less_than_double")>>),
     Elementwise("greater_than",
                 <<Binary("Int", "Bool", "greater_than_integer"),
                   Binary("Double", "Bool", "greater_than_double")>>),
     Elementwise("dec", <<Unary("Int", "Int", "dec_integer"),
                          Unary("Double", "Double", "dec_double")>>),
     Elementwise("neg", <<Unary("Int", "Int", "neg_integer"),
                          Unary("Double", "Double", "neg_double")>>),
     Elementwise("abs", <<Unary("Int", "Int", "abs_integer"),
                          Unary("Double", "Double", "abs_double")>>),
     Elementwise("sub", <<Binary("Int", "Int", "sub_integer"),
                          Binary("Double", "Double", "sub_double")>>),
     Elementwise("mul", <<Binary("Int", "Int", "mul_integer"),
                          Binary("Double", "Double", "mul_double")>>) >>

(***************************************************************************)
(* Validation.                                                             *)
(***************************************************************************)

\* same_signature: everything but the implementation.
SameSignature(left, right) ==
  left.parameters = right.parameters /\ left.result = right.result

\* implementation_matches: the switch over the implementation, a row for each
\* case but iota: primitive, parameters, result, implementation.
ImplementationRows ==
  { <<"inc", <<"Int">>, "Int", "inc_integer">>,
    <<"inc", <<"Double">>, "Double", "inc_double">>,
    <<"dec", <<"Int">>, "Int", "dec_integer">>,
    <<"dec", <<"Double">>, "Double", "dec_double">>,
    <<"neg", <<"Int">>, "Int", "neg_integer">>,
    <<"neg", <<"Double">>, "Double", "neg_double">>,
    <<"abs", <<"Int">>, "Int", "abs_integer">>,
    <<"abs", <<"Double">>, "Double", "abs_double">>,
    <<"odd", <<"Int">>, "Bool", "odd_integer">>,
    <<"even", <<"Int">>, "Bool", "even_integer">>,
    <<"is_positive", <<"Int">>, "Bool", "is_positive_integer">>,
    <<"is_positive", <<"Double">>, "Bool", "is_positive_double">>,
    <<"is_negative", <<"Int">>, "Bool", "is_negative_integer">>,
    <<"is_negative", <<"Double">>, "Bool", "is_negative_double">>,
    <<"not", <<"Bool">>, "Bool", "logical_not_boolean">>,
    <<"and", <<"Bool", "Bool">>, "Bool", "logical_and_boolean">>,
    <<"or", <<"Bool", "Bool">>, "Bool", "logical_or_boolean">>,
    <<"add", <<"Int", "Int">>, "Int", "add_integer">>,
    <<"add", <<"Double", "Double">>, "Double", "add_double">>,
    <<"sub", <<"Int", "Int">>, "Int", "sub_integer">>,
    <<"sub", <<"Double", "Double">>, "Double", "sub_double">>,
    <<"mul", <<"Int", "Int">>, "Int", "mul_integer">>,
    <<"mul", <<"Double", "Double">>, "Double", "mul_double">>,
    <<"equals", <<"Bool", "Bool">>, "Bool", "equals_boolean">>,
    <<"equals", <<"Int", "Int">>, "Bool", "equals_integer">>,
    <<"equals", <<"Double", "Double">>, "Bool", "equals_double">>,
    <<"not_equals", <<"Bool", "Bool">>, "Bool", "not_equals_boolean">>,
    <<"not_equals", <<"Int", "Int">>, "Bool", "not_equals_integer">>,
    <<"not_equals", <<"Double", "Double">>, "Bool", "not_equals_double">>,
    <<"less_than", <<"Int", "Int">>, "Bool", "less_than_integer">>,
    <<"less_than", <<"Double", "Double">>, "Bool", "less_than_double">>,
    <<"greater_than", <<"Int", "Int">>, "Bool", "greater_than_integer">>,
    <<"greater_than", <<"Double", "Double">>, "Bool", "greater_than_double">> }

ImplementationMatches(id, signature) ==
  \/ \E row \in ImplementationRows :
       /\ row[1] = id
       /\ row[4] = signature.implementation
       /\ signature.parameters = [k \in DOMAIN row[2] |-> Scalar(row[2][k])]
       /\ signature.result = Scalar(row[3])
  \/ /\ id = "iota"
     /\ signature = Signature(<<Scalar("Int")>>, ValueType("vector", "Int"),
                              "iota_integer")

\* conversion_cost, over all the parameters of a signature: an Int stands for
\* a Double at cost 1, everything else only for itself.
Accepts(parameter, actual) ==
  actual = parameter \/ (actual = "Int" /\ parameter = "Double")

AcceptsAll(signature, actuals) ==
  /\ Len(signature.parameters) = Len(actuals)
  /\ \A k \in DOMAIN actuals : Accepts(signature.parameters[k].element, actuals[k])

Cost(signature, actuals) ==
  Cardinality({k \in DOMAIN actuals :
                 signature.parameters[k].element /= actuals[k]})

\* The accepting signatures of least cost.
Cheapest(descriptor, actuals) ==
  LET accepting == {s \in DOMAIN descriptor.signatures :
                      AcceptsAll(descriptor.signatures[s], actuals)}
  IN  {s \in accepting :
         \A t \in accepting : Cost(descriptor.signatures[s], actuals)
                                <= Cost(descriptor.signatures[t], actuals)}

\* Mutant: only assignments that some signature names are tried.
AmbiguousAssignment_OwnTypes(descriptor, arity) ==
  \E actuals \in {[k \in 1 .. arity |-> descriptor.signatures[s].parameters[k].element] :
                   s \in {t \in DOMAIN descriptor.signatures :
                           Len(descriptor.signatures[t].parameters) = arity}} :
    Cardinality(Cheapest(descriptor, actuals)) > 1

\* has_ambiguous_assignment: every assignment of scalar types is tried.
AmbiguousAssignment(descriptor, arity) ==
  \E actuals \in [1 .. arity -> ScalarTypes] :
    Cardinality(Cheapest(descriptor, actuals)) > 1

\* A failing check: its rank <<descriptor, stage, index, order>> and its error.
Failing(rank, error) == [rank |-> rank, error |-> error]

NameFailures(table, d) ==
  {Failing(<<d, 1, 0, 0>>, "reserved_name") :
     x \in {y \in {d} : table[y].name = "parameters"}}
  \cup {Failing(<<d, 2, p, 1>>, "duplicate_id") :
          p \in {q \in 1 .. d - 1 : table[q].id = table[d].id}}
  \cup {Failing(<<d, 2, p, 2>>, "duplicate_name") :
          p \in {q \in 1 .. d - 1 : table[q].name = table[d].name}}
  \cup {Failing(<<d, 3, 0, 0>>, "missing_signature") :
          x \in {y \in {d} : table[y].signatures = <<>>}}

NonScalar(signature) ==
  \/ signature.result.container /= "scalar"
  \/ \E k \in DOMAIN signature.parameters :
       signature.parameters[k].container /= "scalar"

DuplicateSignature(signatures, s) ==
  \E p \in 1 .. s - 1 : SameSignature(signatures[p], signatures[s])

SignatureFailures(table, d) ==
  LET signatures == table[d].signatures
      elementwise == table[d].lifting = "elementwise"
      Where(stage, order, error, Fails(_)) ==
        {Failing(<<d, stage, s, order>>, error) :
           s \in {t \in DOMAIN signatures : Fails(t)}}
  IN  Where(4, 1, "duplicate_signature",
            LAMBDA s : DuplicateSignature(signatures, s))
      \cup Where(4, 2, "zero_arity",
                 LAMBDA s : signatures[s].parameters = <<>>)
      \cup Where(4, 3, "elementwise_non_scalar_signature",
                 LAMBDA s : elementwise /\ NonScalar(signatures[s]))
      \cup Where(5, 0, "equal_cost_ambiguity",
                 LAMBDA s : elementwise /\ AmbiguousAssignment(table[d],
                                             Len(signatures[s].parameters)))
      \cup Where(6, 0, "missing_implementation",
                 LAMBDA s : ~ImplementationMatches(table[d].id, signatures[s]))

Before(left, right) ==
  \E k \in 1 .. 4 :
    /\ left[k] < right[k]
    /\ \A j \in 1 .. k - 1 : left[j] = right[j]

\* validate_primitive_table: "none", or the error of the first failing check.
ValidatePrimitiveTable(table) ==
  LET failures == UNION {NameFailures(table, d) \cup SignatureFailures(table, d) :
                           d \in DOMAIN table}
  IN  IF table = <<>> THEN "empty_table"
      ELSE IF failures = {} THEN "none"
      ELSE (CHOOSE f \in failures :
              \A g \in failures : g = f \/ Before(f.rank, g.rank)).error

(***************************************************************************)
(* Selection.                                                              *)
(***************************************************************************)

\* select_primitive_signature: the status, and the index of the signature.
SelectPrimitiveSignature(descriptor, actuals) ==
  LET cheapest == Cheapest(descriptor, actuals)
      arities == {Len(descriptor.signatures[s].parameters) :
                    s \in DOMAIN descriptor.signatures}
  IN  [status |-> IF Len(actuals) \notin arities THEN "arity_mismatch"
                  ELSE IF cheapest = {} THEN "type_mismatch"
                  ELSE IF Cardinality(cheapest) > 1 THEN "ambiguous"
                  ELSE "success",
       index |-> IF Cardinality(cheapest) = 1 THEN CHOOSE s \in cheapest : TRUE
                 ELSE 0]
=============================================================================
