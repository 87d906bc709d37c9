------------------------------ MODULE MCBackends ------------------------------
(***************************************************************************)
(* Programs for BackendParity: every program of one or two roots that the  *)
(* parser can build with at most MaxNodes nodes (MixedNodes with scalars), *)
(* every program that is one fan-out of at most FanoutNodes nodes, every   *)
(* program with scalars that is one fan-out of at most IotaNodes nodes or  *)
(* has at most MixedNodes, with every choice of the calls that are iota's, *)
(* and every flat program of at most PreparedNodes nodes whose values may  *)
(* be shared by several consumers, which only prepared inputs contain.     *)
(***************************************************************************)
EXTENDS BackendParity

CONSTANTS
  MixedNodes,     \* bound: programs with scalars and vectors
  MaxNodes,       \* bound: programs with vectors only
  FanoutNodes,    \* bound: programs that are one fan-out
  IotaNodes,      \* bound: fan-outs with scalars, vectors and iota
  PreparedNodes   \* bound: programs with shared values

ASSUME BoundsAssumption ==
  {MixedNodes, MaxNodes, FanoutNodes, IotaNodes, PreparedNodes} \subseteq Nat

\* A fragment is a program without roots; its last node is its root.
Leaf(kind) == [kind |-> <<kind>>, args |-> << <<>> >>, operand |-> <<0>>]

Shift(index, by) == IF index = 0 THEN 0 ELSE index + by

Join(f, g) ==
  LET by == Len(f.kind)
  IN  [kind |-> f.kind \o g.kind,
       args |-> f.args \o [n \in DOMAIN g.args |->
                             [i \in DOMAIN g.args[n] |-> g.args[n][i] + by]],
       operand |-> f.operand \o [n \in DOMAIN g.operand |-> Shift(g.operand[n], by)]]

Empty == [kind |-> <<>>, args |-> <<>>, operand |-> <<>>]

Grow(f, kind, args) ==
  [kind |-> Append(f.kind, kind), args |-> Append(f.args, args),
   operand |-> Append(f.operand, 0)]

\* A fan-out of an operand of k nodes: the placeholders of f after it, and the
\* fan-out itself, name the operand.
CloseFanout(f, k, branches) ==
  [kind |-> Append(f.kind, "fanout"), args |-> Append(f.args, branches),
   operand |-> Append([n \in DOMAIN f.operand |->
                         IF n > k /\ f.kind[n] = "placeholder" THEN k
                         ELSE f.operand[n]], k)]

\* Sequences of fragments, as the joined fragment and the list of their roots.
\* Their leaves are of the given kinds.  A context is "top" (anything) or
\* "inner" (no fan-out: inside one); Paths has a branch's one placeholder
\* below calls only.
RECURSIVE Expressions(_, _, _), Paths(_, _)

Pairs(A, B) ==
  {[f |-> Join(a, b), roots |-> <<Len(a.kind), Len(a.kind) + Len(b.kind)>>] :
     a \in A, b \in B}

Singles(A) == {[f |-> a, roots |-> <<Len(a.kind)>>] : a \in A}

UpToTwo(k, context, leaves) ==
  Singles(Expressions(k, context, leaves))
    \cup UNION {Pairs(Expressions(i, context, leaves), Expressions(k - i, context, leaves)) :
                  i \in 1 .. k - 1}

\* Branch bodies of k nodes: calls with the placeholder on a path of calls.
Paths(k, leaves) ==
  LET below(i) == IF i = 1 THEN {Leaf("placeholder")} ELSE Paths(i, leaves)
      argument == Singles(below(k - 1))
                    \cup UNION {Pairs(below(i), Expressions(k - 1 - i, "inner", leaves))
                                  \cup Pairs(Expressions(k - 1 - i, "inner", leaves), below(i)) :
                                  i \in 1 .. k - 2}
  IN  IF k < 2 THEN {} ELSE {Grow(a.f, "call", a.roots) : a \in argument}

FanoutsOf(k, leaves) ==
  LET over(i) == \* operands of i nodes
        UNION {UNION {
          {CloseFanout(Join(o, b.f), i, [r \in DOMAIN b.roots |-> b.roots[r] + i]) :
             b \in Singles(Paths(k - 1 - i, leaves))
                     \cup UNION {Pairs(Paths(j, leaves), Paths(k - 1 - i - j, leaves)) :
                                   j \in 1 .. k - 2 - i}} :
          o \in Expressions(i, "inner", leaves)}}
  IN  UNION {over(i) : i \in 1 .. k - 3}

Expressions(k, context, leaves) ==
  IF k < 1 THEN {}
  ELSE (IF k = 1 THEN {Leaf(kind) : kind \in leaves}
                       \cup {Grow(Empty, "tuple", <<>>)} ELSE {})
         \cup {Grow(a.f, kind, a.roots) :
                 a \in UpToTwo(k - 1, context, leaves), kind \in {"call", "tuple"}}
         \cup (IF context = "top" THEN FanoutsOf(k, leaves) ELSE {})

WithRoots(f, roots) ==
  [kind |-> f.kind, args |-> f.args, operand |-> f.operand, roots |-> roots,
   iota |-> {}]

\* A program with each choice of the calls that are iota's.
WithIota(p) ==
  {[p EXCEPT !.iota = calls] :
     calls \in SUBSET {n \in NodesOf(p) : p.kind[n] = "call" /\ Len(p.args[n]) = 1}}

\* Programs of one or two root expressions.
RootedPrograms(bound, leaves) ==
  UNION {{WithRoots(a.f, a.roots) : a \in UpToTwo(k, "top", leaves)} : k \in 1 .. bound}

\* Programs that are one fan-out.
FanoutPrograms(bound, leaves) ==
  UNION {{WithRoots(f, <<k>>) : f \in FanoutsOf(k, leaves)} : k \in 1 .. bound}

ParsedPrograms ==
  LET mixed == {"scalar", "vector"}
  IN  {p \in RootedPrograms(MaxNodes, {"vector"})
              \cup FanoutPrograms(FanoutNodes, {"vector"})
              \cup UNION {WithIota(q) : q \in RootedPrograms(MixedNodes, mixed)
                                              \cup FanoutPrograms(IotaNodes, mixed)} :
         CallTypesHold(p)}

\* Flat programs with shared values: no fan-out, any roots.
RECURSIVE Arenas(_)

Arenas(N) ==
  LET earlier == 1 .. N - 1
      lists == {<<>>} \cup {<<i>> : i \in earlier} \cup {<<i, j>> : i, j \in earlier}
  IN  IF N = 0 THEN {Empty}
      ELSE UNION {{Join(f, Leaf("vector"))}
                    \cup {Grow(f, kind, args) : kind \in {"call", "tuple"}, args \in lists} :
                    f \in Arenas(N - 1)}

SharedPrograms ==
  LET roots(N) == {r \in UNION {[1 .. k -> 1 .. N] : k \in 0 .. N} : IsInjective(r)}
  IN  {p \in UNION {{WithRoots(f, r) : f \in Arenas(N), r \in roots(N)} :
                      N \in 1 .. PreparedNodes} :
         InvariantsHold(p) /\ BranchesHold(p) /\ CallTypesHold(p)}

MCPrograms == ParsedPrograms \cup SharedPrograms

=============================================================================
