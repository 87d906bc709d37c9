----------------------------- MODULE FlatProgram -----------------------------
(***************************************************************************)
(* The flat program that both back ends of src/src/rewrite.cpp consume     *)
(* (RewriteProgram and RewriteLoweringProgram): one arena of nodes in      *)
(* postorder, each naming the nodes it uses by index, and the roots.       *)
(* Indices start at 1.                                                     *)
(*                                                                         *)
(*   kind     "scalar" is a scalar literal or a parameter reference, which *)
(*            cannot fail; a prefix call that spreads a tuple is a call    *)
(*            with that tuple as its only argument                         *)
(*   args     a call's arguments, a tuple literal's elements or the roots  *)
(*            of a fan-out's branches                                      *)
(*   operand  of a fan-out, its operand; of a placeholder, the operand of  *)
(*            the fan-out it stands in; 0 for the other nodes              *)
(*   roots    the expressions whose values the program returns             *)
(*   iota     the calls of iota, the one primitive that is not lifted and  *)
(*            whose result has a length known at run time only; every      *)
(*            other primitive returns a vector when an argument is one     *)
(*                                                                         *)
(* The value a node produces is named by the node.  Spans, element types   *)
(* and selected implementations do not decide who owns a value; what is    *)
(* kept of the types is which values are tuples, and of the cardinalities  *)
(* which values are vectors and which calls compare lengths at run time.   *)
(* The lengths themselves are left out.                                    *)
(*                                                                         *)
(* fault is the one operation of the execution that will fail.  It stands  *)
(* for an error value, unequal lengths, a profile limit or an injected     *)
(* allocation failure, which both back ends meet at the same operation.    *)
(* What one back end refuses and the other does not is no fault but a      *)
(* condition of its own, on the cardinalities below.                       *)
(***************************************************************************)
EXTENDS Integers, Sequences, FiniteSets, SequencesExt, FiniteSetsExt

CONSTANT Programs

VARIABLES program, fault

NodeKinds == {"scalar", "vector", "placeholder", "call", "tuple", "fanout"}

\* The nodes of a program are numbered from 1.
NodesOf(p) == DOMAIN p.kind

\* RewriteLoweringNode::kind, the argument, element and branch arenas, and
\* the operand a fan-out or a placeholder names.
Nodes == NodesOf(program)
Kind(n) == program.kind[n]
Args(n) == program.args[n]
Operand(n) == program.operand[n]
Fanouts == {n \in Nodes : Kind(n) = "fanout"}

\* retained_root
RetainedRoot(n) == n \in ToSet(program.roots)

Occurrences(args, n) == Cardinality({i \in DOMAIN args : args[i] = n})

\* The argument, element and branch positions that name node n.
OwnedPositions(p, n) ==
  UNION {{<<m, i>> : i \in {j \in DOMAIN p.args[m] : p.args[m][j] = n}}
           : m \in NodesOf(p)}

\* use_count: positions, fan-outs that borrow n as their operand, and one
\* more for a root.
UseCount(n) ==
  Cardinality(OwnedPositions(program, n))
    + Cardinality({f \in Fanouts : Operand(f) = n})
    + Occurrences(program.roots, n)

\* The slot a call reads for an argument: a placeholder stands for the
\* operand of its fan-out.
OwnerOf(n) == IF Kind(n) = "placeholder" THEN Operand(n) ELSE n

\* The counts after a consumer has used each of its arguments once.
UsesAfter(uses, args) == [n \in Nodes |-> uses[n] - Occurrences(args, n)]

\* A set of nodes in the order of a loop that walks the arena backwards: the
\* i-th has i - 1 larger ones.
Descending(S) ==
  [i \in 1 .. Cardinality(S) |->
     CHOOSE x \in S : Cardinality({y \in S : y > x}) = i - 1]

\* The entries of a sequence at some of its positions, in the order given.
At(seq, positions) == [k \in DOMAIN positions |-> seq[positions[k]]]

\* Mutant: a root is released by its last consumer.
FinalUses_ReleasesRoots(uses, args) ==
  Descending({n \in ToSet(args) : uses[n] = Occurrences(program.roots, n)})

\* The arguments a consumer has used for the last time, in the order both
\* back ends release them: last argument first, a repeated one at its last
\* position, never a root.
FinalUses(uses, args) ==
  LET final == {i \in DOMAIN args :
                  /\ \A j \in DOMAIN args : j > i => args[j] # args[i]
                  /\ uses[args[i]] = 0
                  /\ ~RetainedRoot(args[i])}
  IN  At(args, Descending(final))

\* The fan-outs whose operand was the node before n: their result tables are
\* admitted between the two nodes.
AdmittedBefore(n) == {f \in Fanouts : Operand(f) + 1 = n}

\* The branch position that node n is the root of, as <<fan-out, position>>.
BranchPositions(n) ==
  {e \in OwnedPositions(program, n) : Kind(e[1]) = "fanout"}

(***************************************************************************)
(* What parsing and lowering guarantee of every program they accept.       *)
(***************************************************************************)

\* Three arrays with one entry per node, the roots, and the calls of iota.
IsProgram(p) ==
  /\ p \in [kind : Seq(NodeKinds), args : Seq(Seq(Nat)), operand : Seq(Nat),
           roots : Seq(Nat), iota : SUBSET Nat]
  /\ Len(p.args) = Len(p.kind)
  /\ Len(p.operand) = Len(p.kind)

\* Nodes refer to earlier nodes; tuple elements, branch roots and fan-out
\* operands have no other use; branch roots are in order, after the operand;
\* roots are distinct.
InvariantsHold(p) ==
  /\ IsProgram(p)
  /\ \A n \in NodesOf(p) :
       /\ ToSet(p.args[n]) \subseteq 1 .. n - 1
       /\ p.kind[n] \in {"scalar", "vector", "placeholder"} => p.args[n] = <<>>
       /\ p.kind[n] \in {"fanout", "placeholder"} <=> p.operand[n] # 0
       /\ p.operand[n] \in 0 .. n - 1
       /\ p.kind[n] = "fanout" => \A i \in DOMAIN p.args[n] :
                                     /\ p.args[n][i] > p.operand[n]
                                     /\ \A j \in 1 .. i - 1 :
                                          p.args[n][j] < p.args[n][i]
  /\ ToSet(p.roots) \subseteq NodesOf(p)
  /\ IsInjective(p.roots)
  /\ \A n \in NodesOf(p), m \in NodesOf(p) :
       /\ p.kind[m] \in {"tuple", "fanout"}
       /\ n \in ToSet(p.args[m])
       => /\ Cardinality(OwnedPositions(p, n)) = 1
          /\ n \notin ToSet(p.roots)
  /\ \A f \in {m \in NodesOf(p) : p.kind[m] = "fanout"} :
       /\ OwnedPositions(p, p.operand[f]) = {}
       /\ p.operand[f] \notin ToSet(p.roots)
       /\ \A g \in NodesOf(p) \ {f} :
            p.kind[g] = "fanout" => p.operand[g] # p.operand[f]

\* The root of a branch is a call, and a placeholder stands below calls only,
\* before the end of the fan-out whose operand it stands for.
BranchesHold(p) ==
  /\ \A f \in NodesOf(p) : \A n \in ToSet(p.args[f]) :
       p.kind[f] = "fanout" => p.kind[n] = "call"
  /\ \A n \in NodesOf(p) :
       p.kind[n] = "placeholder" =>
         /\ n \notin ToSet(p.roots)
         /\ OwnedPositions(p, n) # {}
         /\ \E f \in NodesOf(p) :
              /\ p.kind[f] = "fanout" /\ p.operand[f] = p.operand[n]
              /\ \A e \in OwnedPositions(p, n) : e[1] < f /\ p.kind[e[1]] = "call"

\* The cardinality of a node while phase 5 selects the implementations: every
\* call but one of iota still counts as scalar, and a placeholder takes what
\* its operand has then.
Provisional(p, n) ==
  LET owner == IF p.kind[n] = "placeholder" THEN p.operand[n] ELSE n
  IN  CASE p.kind[owner] = "call" -> IF owner \in p.iota THEN "dynamic" ELSE "scalar"
        [] p.kind[owner] = "vector" -> "static"
        [] p.kind[owner] \in {"tuple", "fanout"} -> "tuple"
        [] OTHER -> "scalar"

\* A call takes one or two values that are not tuples, or spreads one tuple
\* of one or two of them; iota takes one that counts as scalar.
CallTypesHold(p) ==
  LET owner(n) == IF p.kind[n] = "placeholder" THEN p.operand[n] ELSE n
      isTuple(n) == Provisional(p, n) = "tuple"
      plain(s, n) == /\ Len(s) \in 1 .. 2
                     /\ \A i \in DOMAIN s : ~isTuple(s[i])
                     /\ n \in p.iota => Len(s) = 1 /\ Provisional(p, s[1]) = "scalar"
  IN  /\ \A n \in NodesOf(p) :
           p.kind[n] = "call" =>
             \/ plain(p.args[n], n)
             \/ /\ Len(p.args[n]) = 1
                /\ isTuple(p.args[n][1])
                /\ plain(p.args[owner(p.args[n][1])], n)
      /\ \A n \in p.iota : n \in NodesOf(p) /\ p.kind[n] = "call"

ASSUME ProgramsAssumption ==
  \A p \in Programs : InvariantsHold(p) /\ BranchesHold(p) /\ CallTypesHold(p)

(***************************************************************************)
(* Vectors, as lowering counts them and as they are.                       *)
(***************************************************************************)

\* A prefix call applied to a tuple takes its elements (spreads_tuple).
Spreads(n) == /\ Kind(n) = "call"
              /\ Len(Args(n)) = 1
              /\ Kind(OwnerOf(Args(n)[1])) \in {"tuple", "fanout"}

SemanticArgs(n) == IF Spreads(n) THEN Args(OwnerOf(Args(n)[1])) ELSE Args(n)

\* RewriteLoweringNode::cardinality after phase 6, which computes those of
\* calls only: a placeholder keeps its provisional one.
Extent[n \in Nodes] ==
  LET arguments == {Extent[a] : a \in ToSet(SemanticArgs(n))}
  IN  CASE Kind(n) # "call" -> Provisional(program, n)
        [] n \in program.iota \/ "dynamic" \in arguments -> "dynamic"
        [] "static" \in arguments -> "static"
        [] OTHER -> "scalar"

\* Whether the value of a node is a vector at run time.
IsVector[n \in Nodes] ==
  CASE Kind(n) = "placeholder" -> IsVector[Operand(n)]
    [] Kind(n) = "call" -> n \in program.iota
                             \/ \E a \in ToSet(SemanticArgs(n)) : IsVector[a]
    [] OTHER -> Kind(n) = "vector"

\* runtime_shape_check: two arguments count as vectors, one of them dynamic.
RuntimeShapeCheck(n) ==
  LET vectors == {i \in DOMAIN SemanticArgs(n) : Extent[SemanticArgs(n)[i]] # "scalar"}
  IN  /\ Kind(n) = "call" /\ n \notin program.iota
      /\ Cardinality(vectors) > 1
      /\ \E i \in vectors : Extent[SemanticArgs(n)[i]] = "dynamic"

\* The arguments of a call that is no spread which its shape check looks at:
\* a dynamic one is compared with a known length, or two with each other.
DynamicArgs(n) == {a \in ToSet(Args(n)) : Extent[a] = "dynamic"}

\* The emitted check looks into the slot of a placeholder, where there is a
\* dummy scalar instead of the operand.
Misled(n) ==
  /\ RuntimeShapeCheck(n) /\ ~Spreads(n)
  /\ \E a \in DynamicArgs(n) : Kind(a) = "placeholder"

\* Two vectors meet whose lengths nothing has compared before the kernels
\* run: one of them comes from an operand that counted as scalar in phase 5.
Unchecked(n) ==
  LET vectors == {i \in DOMAIN SemanticArgs(n) : IsVector[SemanticArgs(n)[i]]}
  IN  /\ Kind(n) = "call" /\ ~RuntimeShapeCheck(n)
      /\ Cardinality(vectors) > 1
      /\ \E i \in vectors : Extent[SemanticArgs(n)[i]] = "scalar"

\* iota was given a vector that counted as scalar in phase 5.
Mistyped(n) ==
  n \in program.iota /\ \E a \in ToSet(SemanticArgs(n)) : IsVector[a]

\* A scalar result after a vector one: publish_preadmitted_tuple gives its
\* node the index of a vector payload, and validate_value refuses the tuple.
IllFormed(f) ==
  /\ Kind(f) = "fanout"
  /\ \E i, j \in DOMAIN Args(f) : /\ i < j
                                  /\ IsVector[Args(f)[i]]
                                  /\ ~IsVector[Args(f)[j]]

\* The vector results of the first i branches of f are more than the table of
\* f was admitted for.
Overfills(f, i) ==
  /\ IsVector[Args(f)[i]]
  /\ Cardinality({j \in 1 .. i : IsVector[Args(f)[j]]})
       > Cardinality({j \in DOMAIN Args(f) : Extent[Args(f)[j]] # "scalar"})

(***************************************************************************)
(* The operations that can fail.                                           *)
(***************************************************************************)

\* "start" is everything refused before the first node (parsing, resolution,
\* lowering, parameters, the resource context), "output" the formatting or
\* printing of the results, "admit" the result table of a fan-out.
Faults(p) ==
  {<<"none", 0>>, <<"start", 0>>, <<"output", 0>>}
    \cup {<<"node", n>> : n \in {m \in NodesOf(p) :
                             p.kind[m] \in {"vector", "call", "tuple"}}}
    \cup {<<"admit", n>> : n \in {m \in NodesOf(p) : p.kind[m] = "fanout"}}

Succeeds(operation) == fault # operation

ProgramInit == program \in Programs /\ fault \in Faults(program)

=============================================================================
