---------------------------- MODULE MCPrimitives ----------------------------
(***************************************************************************)
(* Instances of PrimitiveApplication: the production table with every      *)
(* scalar of a small format, with short vectors, and tables other than the *)
(* production one, which validate_primitive_table has to judge.            *)
(***************************************************************************)
EXTENDS PrimitiveApplication

ScalarArgument(element, value) == Argument("scalar", element, <<value>>, FALSE)

\* Every scalar there is: both Bools, every Int, every Double but the NaNs
\* that no value holds.
EveryScalar ==
  {ScalarArgument("Bool", b) : b \in {0, 1}}
  \cup {ScalarArgument("Int", n) : n \in MinInt .. MaxInt}
  \cup {ScalarArgument("Double", d) :
          d \in {x \in 0 .. 2 * SignBit - 1 : ~IsNaN(x) \/ x = CanonicalNaN}}

\* Scalars at the ends of the range, and vectors of up to two of them, of
\* their own and as elements of a tuple.
SmallInts == {MinInt, 1, MaxInt}
ShortVectors(element, values) ==
  {Argument("vector", element, <<>>, FALSE)}
  \cup {Argument("vector", element, <<x, y>>, FALSE) : x \in values, y \in values}

SmallArguments ==
  {ScalarArgument("Bool", 1), ScalarArgument("Double", One),
   Argument("tuple", "Bool", <<>>, FALSE),
   Argument("vector", "Bool", <<1, 0>>, FALSE),
   Argument("vector", "Double", <<One, CanonicalNaN>>, FALSE),
   Argument("vector", "Int", <<1>>, FALSE),
   Argument("scalar", "Int", <<1>>, TRUE)}
  \cup {ScalarArgument("Int", n) : n \in SmallInts}
  \cup ShortVectors("Int", SmallInts)

\* Signatures that are right, wrong, equal but for the implementation, or
\* ambiguous together.
SignaturePool ==
  <<Binary("Int", "Int", "add_integer"),
    Binary("Int", "Int", "add_double"),
    Binary("Double", "Double", "add_double"),
    Binary("Double", "Bool", "add_double"),
    Unary("Int", "Int", "inc_integer"),
    Signature(<<Scalar("Int"), Scalar("Double")>>, Scalar("Double"), "add_double"),
    Signature(<<Scalar("Double"), Scalar("Int")>>, Scalar("Double"), "add_double"),
    Signature(<<Scalar("Int")>>, ValueType("vector", "Int"), "iota_integer"),
    Signature(<<ValueType("vector", "Int")>>, Scalar("Int"), "inc_integer"),
    Signature(<<Scalar("Int"), Scalar("Int"), Scalar("Int")>>, Scalar("Int"),
              "add_integer"),
    Signature(<<>>, Scalar("Int"), "none")>>

\* Every list of none, one or two of them, by its number.
PoolSize == Len(SignaturePool)
SignatureList(n) ==
  LET first == n % (PoolSize + 1)
      second == n \div (PoolSize + 1)
  IN  (IF first = 0 THEN <<>> ELSE <<SignaturePool[first]>>)
        \o (IF second = 0 THEN <<>> ELSE <<SignaturePool[second]>>)
Lists == (PoolSize + 1) * (PoolSize + 1)

\* One descriptor with each list, as the elementwise add or as iota.
SingleTables ==
  [n \in 1 .. 2 * Lists |->
     IF n <= Lists
     THEN <<Elementwise("add", SignatureList(n - 1))>>
     ELSE <<Descriptor("iota", "none", SignatureList(n - Lists - 1))>>]

\* The names: reserved, and the same id or the same name twice.
NamedTables ==
  LET inc == Elementwise("inc", <<Unary("Int", "Int", "inc_integer")>>)
      add == Elementwise("add", <<Binary("Int", "Int", "add_integer")>>)
  IN  <<<<>>, <<inc, add>>, <<inc, inc>>, <<[inc EXCEPT !.name = "parameters"]>>,
        <<inc, [add EXCEPT !.name = "inc"]>>, <<add, [add EXCEPT !.name = "plus"]>>>>

TrialTables == SingleTables \o NamedTables

TypeArguments ==
  {ScalarArgument("Bool", 1), ScalarArgument("Int", 1),
   ScalarArgument("Double", One), Argument("vector", "Int", <<1, 1>>, FALSE)}

Trial(table, arguments, most, entries) ==
  [table |-> table, arguments |-> arguments, most |-> most, entries |-> entries]

ProductionTrials ==
  <<Trial(production_descriptors, EveryScalar, 2, {"typed"}),
    Trial(production_descriptors, SmallArguments, 2, {"value", "typed"})>>

MCTrials ==
  LET tables == TrialTables
      production == Len(ProductionTrials)
  IN  [n \in 1 .. production + Len(tables) |->
         IF n <= production THEN ProductionTrials[n]
         ELSE Trial(tables[n - production], TypeArguments, 3, {"value", "typed"})]
=============================================================================
