----------------------------- MODULE EmittedProofs -----------------------------
(***************************************************************************)
(* Proofs about the emitted program.  Nothing in the emitted C checks its  *)
(* slots, so the argument is about the code: where each value is made and  *)
(* where it is taken out of its slot, for every flat program, and that the *)
(* one path through the code and the paths that leave it at a failing      *)
(* instruction keep every value in one place.  Then the evaluator and the  *)
(* emitted program are compared: they perform the same releases.           *)
(***************************************************************************)
EXTENDS BackendParity, EvaluatorProofs

(***************************************************************************)
(* The code of a node.                                                     *)
(***************************************************************************)

\* The counts the emitter has when it has written the instructions of node n,
\* and the block it writes for n.
UsesInCode(n) == UsesEmitted(n, [m \in Nodes |-> UsesLeft(m, n)])
Block(n) ==
  NodeCode(n, UsesInCode(n)) \o TransferCode(n) \o UnusedCode(n) \o AdmissionCode(n)

\* An instruction takes a value out of its slot.
Removes(instruction, n) ==
  \/ instruction.op = "release" /\ instruction.node = n
  \/ instruction.op \in {"tuple", "transfer"} /\ n \in ToSet(instruction.from)

(***************************************************************************)
(* The parts of a block: an instruction that makes the value, releases,    *)
(* and at most one instruction that hands the value on.                    *)
(***************************************************************************)

Instructions == [op : Operations, node : Nodes, from : Seq(Nodes), releases : Seq(Nodes)]

\* The values that end in the block of node n, in the order of their releases.
Ended(n) ==
  IF Kind(n) = "call" THEN FinalUses(UsesInCode(n), Args(n))
  ELSE IF Kind(n) = "fanout" THEN <<Operand(n)>> ELSE <<>>

\* The check of lengths that some calls start with, and the line of the
\* instruction that makes a value, which every node but a fan-out has.
Checks(n) == IF Kind(n) = "call" THEN ShapeCheck(n, Ended(n)) ELSE <<>>
First(n) == Len(Checks(n)) + 1
LeadingOp(n) ==
  IF Kind(n) \in {"scalar", "placeholder"} THEN "store"
  ELSE IF Kind(n) = "vector" THEN "literal"
  ELSE IF Kind(n) = "tuple" THEN "tuple" ELSE "apply"
LeadingFrom(n) ==
  IF Kind(n) = "tuple" THEN Args(n)
  ELSE IF Kind(n) = "call" THEN OwnersRead(n) ELSE <<>>
Making(n) == <<Instruction(LeadingOp(n), n, LeadingFrom(n), Ended(n))>>
Leading(n) == IF Kind(n) = "fanout" THEN <<>> ELSE Checks(n) \o Making(n)

Closing(n) == TransferCode(n) \o UnusedCode(n) \o AdmissionCode(n)

LEMMA InstructionFields ==
  ASSUME NEW op, NEW node, NEW from, NEW releases
  PROVE  /\ Instruction(op, node, from, releases).op = op
         /\ Instruction(op, node, from, releases).node = node
         /\ Instruction(op, node, from, releases).from = from
         /\ Instruction(op, node, from, releases).releases = releases
         /\ (op \in Operations /\ node \in Nodes /\ from \in Seq(Nodes)
               /\ releases \in Seq(Nodes))
              => Instruction(op, node, from, releases) \in Instructions
  BY DEF Instruction, Instructions

LEMMA OneElement ==
  ASSUME NEW S, NEW s \in Seq(S), IsInjective(s), NEW x, ToSet(s) = {x}
  PROVE  s = <<x>>
<1>1. Len(s) \in Nat /\ DOMAIN s = 1 .. Len(s) /\ \A i \in 1 .. Len(s) : s[i] = x
  BY LenProperties DEF ToSet
<1>2. Len(s) # 0
  BY <1>1 DEF ToSet
<1>3. ~ 2 <= Len(s)
  BY <1>1 DEF IsInjective
<1>4. Len(s) = 1
  BY <1>1, <1>2, <1>3
<1> QED BY <1>1, <1>4

\* The counts in the block of a node are those after it, for the nodes before.
LEMMA CountsInCode ==
  ASSUME Accepted, NEW n \in Nodes
  PROVE  /\ Kind(n) \in {"call", "tuple"} =>
              UsesInCode(n) = UsesAfter([m \in Nodes |-> UsesLeft(m, n)], Args(n))
         /\ \A m \in Nodes : m # n => UsesInCode(n)[m] = UsesLeft(m, n + 1)
         /\ UsesInCode(n) \in [Nodes -> Nat]
         /\ BranchPositions(n) = {} => UsesInCode(n) = [m \in Nodes |-> UsesLeft(m, n + 1)]
         /\ BranchPositions(n) # {} =>
              [UsesInCode(n) EXCEPT ![n] = @ - 1] = [m \in Nodes |-> UsesLeft(m, n + 1)]
<1> DEFINE uses == [m \in Nodes |-> UsesLeft(m, n)]
           left == [m \in Nodes |-> UsesLeft(m, n + 1)]
<1>1. n \in Int /\ n + 1 \in Int /\ uses \in [Nodes -> Nat] /\ left \in [Nodes -> Nat]
  BY NodesAreNumbers, CountsAreNumbers
<1>2. CASE Kind(n) \in {"call", "tuple"}
  <2>1. UsesInCode(n) = UsesAfter(uses, Args(n))
    BY <1>2 DEF UsesInCode, UsesEmitted
  <2>2. /\ UsesInCode(n) \in [Nodes -> Nat]
        /\ \A m \in Nodes : m # n => UsesInCode(n)[m] = UsesLeft(m, n + 1)
        /\ BranchPositions(n) = {} => UsesInCode(n) = left
        /\ BranchPositions(n) # {} =>
              /\ UsesInCode(n)[n] = 1
              /\ [UsesInCode(n) EXCEPT ![n] = 0] = left
    BY <1>2, <2>1, UsesCounted
  <2>3. BranchPositions(n) # {} =>
          [UsesInCode(n) EXCEPT ![n] = @ - 1] = [UsesInCode(n) EXCEPT ![n] = 0]
    <3>1. BranchPositions(n) # {} => UsesInCode(n)[n] - 1 = 0
      BY <2>2
    <3> QED BY <3>1
  <2> QED BY <2>1, <2>2, <2>3
<1>3. CASE Kind(n) = "fanout"
  <2> DEFINE x == Operand(n)
  <2>1. n \in Fanouts /\ x \in Nodes /\ UsesLeft(x, n) = 1 /\ BranchPositions(n) = {}
    BY <1>3, FanoutFacts, UsesFound, BranchFacts DEF Fanouts
  <2>2. UsesInCode(n) = [m \in Nodes |-> UsesLeft(m, n) - Occurrences(<<x>>, m)]
    BY <1>3 DEF UsesInCode, UsesEmitted, UsesAfter
  <2>3. \A m \in Nodes : Occurrences(<<x>>, m) = IF m = x THEN 1 ELSE 0
    <3>1. \A m \in Nodes : {i \in DOMAIN <<x>> : <<x>>[i] = m} = IF m = x THEN {1} ELSE {}
      OBVIOUS
    <3>2. Cardinality({1}) = 1 /\ Cardinality({}) = 0
      BY FS_Singleton, FS_EmptySet
    <3> QED BY <3>1, <3>2 DEF Occurrences
  <2>4. \A m \in Nodes : UsesLeft(m, n + 1) = IF m = x THEN 0 ELSE UsesLeft(m, n)
    BY <1>3, <2>1, UsesStep
  <2>5. \A m \in Nodes : UsesLeft(m, n) - Occurrences(<<x>>, m) = UsesLeft(m, n + 1)
    <3>1. \A m \in Nodes : UsesLeft(m, n) \in Nat
      BY <1>1
    <3> QED BY <2>1, <2>3, <2>4, <3>1
  <2>6. UsesInCode(n) = left
    BY <2>2, <2>5
  <2> QED BY <1>1, <1>3, <2>1, <2>6
<1>4. CASE Kind(n) \notin {"call", "tuple", "fanout"}
  <2>1. UsesInCode(n) = uses
    BY <1>4 DEF UsesInCode, UsesEmitted
  <2>2. BranchPositions(n) = {}
    BY <1>4, BranchFacts
  <2>3. Args(n) = <<>>
    BY <1>4, Arenas, LeavesUseNothing DEF NodeKinds
  <2>4. \A m \in Nodes : Occurrences(Args(n), m) = 0
    <3>1. \A m \in Nodes : {i \in DOMAIN <<>> : <<>>[i] = m} = {}
      OBVIOUS
    <3> QED BY <2>3, <3>1, FS_EmptySet DEF Occurrences
  <2>5. \A m \in Nodes : UsesLeft(m, n + 1) = UsesLeft(m, n)
    <3>1. \A m \in Nodes : UsesLeft(m, n) \in Nat
      BY <1>1
    <3> QED BY <1>4, <2>2, <2>4, <3>1, UsesStep
  <2>6. UsesInCode(n) = left
    BY <2>1, <2>5
  <2> QED BY <1>1, <1>4, <2>2, <2>6
<1> QED BY <1>2, <1>3, <1>4

\* The values that end in the block of a node are those it uses last, unless
\* a tuple takes them.
LEMMA EndedFacts ==
  ASSUME Accepted, NEW n \in Nodes
  PROVE  /\ Ended(n) \in Seq(Nodes) /\ IsInjective(Ended(n))
         /\ Len(Ended(n)) \in Nat /\ DOMAIN Ended(n) = 1 .. Len(Ended(n))
         /\ \A m \in Nodes : m \in ToSet(Ended(n)) <=>
              /\ Kind(n) # "tuple"
              /\ m < n /\ UsesLeft(m, n) # 0 /\ UsesLeft(m, n + 1) = 0
<1>1. n \in Int /\ Nodes \subseteq Int /\ ~ n < n
  BY NodesAreNumbers
<1>2. \A m \in Nodes : UsesLeft(m, n) \in Nat /\ UsesLeft(m, n + 1) \in Nat
  BY <1>1, CountsAreNumbers
<1>3. CASE Kind(n) = "call"
  <2>1. Args(n) \in Seq(Nodes) /\ \A m \in ToSet(Args(n)) : m \in Nodes /\ m < n
    BY Arenas DEF ToSet
  <2>2. Ended(n) = FinalUses(UsesInCode(n), Args(n))
    BY <1>3 DEF Ended
  <2>3. /\ Ended(n) \in Seq(Nodes) /\ IsInjective(Ended(n))
        /\ ToSet(Ended(n)) =
             {m \in ToSet(Args(n)) : UsesInCode(n)[m] = 0 /\ ~RetainedRoot(m)}
    BY <2>1, <2>2, FinalUsesOnce
  <2>4. ASSUME NEW m \in Nodes
        PROVE  m \in ToSet(Ended(n)) <=>
                 m < n /\ UsesLeft(m, n) # 0 /\ UsesLeft(m, n + 1) = 0
    <3>1. ASSUME m \in ToSet(Ended(n))
          PROVE  m < n /\ UsesLeft(m, n) # 0 /\ UsesLeft(m, n + 1) = 0
      <4>1. m \in ToSet(Args(n)) /\ UsesInCode(n)[m] = 0 /\ m < n
        BY <2>1, <2>3, <3>1
      <4>2. PICK i \in DOMAIN Args(n) : Args(n)[i] = m
        BY <4>1 DEF ToSet
      <4>3. /\ UsesLeft(m, n) >= Occurrences(Args(n), m)
            /\ Occurrences(Args(n), m) > 0
        BY <1>3, <4>2, UsesFound
      <4>4. Occurrences(Args(n), m) \in Nat
        BY PositionsOfNode
      <4>5. UsesLeft(m, n) # 0
        BY <1>2, <4>3, <4>4
      <4>6. UsesInCode(n)[m] = UsesLeft(m, n + 1)
        BY <1>1, <4>1, CountsInCode
      <4> QED BY <4>1, <4>5, <4>6
    <3>2. ASSUME m < n, UsesLeft(m, n) # 0, UsesLeft(m, n + 1) = 0
          PROVE  m \in ToSet(Ended(n))
      <4>1. m # n
        BY <1>1, <3>2
      <4>2. UsesInCode(n)[m] = 0
        BY <3>2, <4>1, CountsInCode
      <4>3. UsesLeft(m, n + 1) = UsesLeft(m, n) - Occurrences(Args(n), m)
        BY <1>3, <4>1, UsesStep
      <4>4. Occurrences(Args(n), m) \in Nat
            /\ (Occurrences(Args(n), m) = 0 <=> m \notin ToSet(Args(n)))
        BY PositionsOfNode
      <4>5. m \in ToSet(Args(n))
        BY <1>2, <3>2, <4>3, <4>4
      <4>6. ~RetainedRoot(m)
        BY <1>1, <3>2, RootInUse DEF RetainedRoot
      <4> QED BY <2>3, <4>2, <4>5, <4>6
    <3> QED BY <3>1, <3>2
  <2> QED BY <1>3, <2>3, <2>4, LenProperties
<1>4. CASE Kind(n) = "fanout"
  <2> DEFINE x == Operand(n)
  <2>1. n \in Fanouts /\ x \in Nodes /\ x < n /\ UsesLeft(x, n) = 1
    BY <1>4, FanoutFacts, UsesFound DEF Fanouts
  <2>2. Ended(n) = <<x>>
    BY <1>4 DEF Ended
  <2>3. Ended(n) \in Seq(Nodes) /\ IsInjective(Ended(n)) /\ ToSet(Ended(n)) = {x}
    BY <2>1, <2>2, Singletons
  <2>4. BranchPositions(n) = {}
    BY <1>4, BranchFacts
  <2>5. \A m \in Nodes : UsesLeft(m, n + 1) = IF m = x THEN 0 ELSE UsesLeft(m, n)
    BY <1>4, <2>4, UsesStep
  <2> QED BY <1>4, <2>1, <2>3, <2>5, LenProperties
<1>5. CASE Kind(n) \notin {"call", "fanout"}
  <2>1. Ended(n) = <<>>
    BY <1>5 DEF Ended
  <2>2. Ended(n) \in Seq(Nodes) /\ IsInjective(Ended(n)) /\ ToSet(Ended(n)) = {}
    BY <2>1, EmptyLog
  <2>3. ASSUME NEW m \in Nodes, Kind(n) # "tuple", m < n, UsesLeft(m, n) # 0
        PROVE  UsesLeft(m, n + 1) # 0
    <3>1. Args(n) = <<>>
      BY <1>5, <2>3, Arenas, LeavesUseNothing DEF NodeKinds
    <3>2. m \notin ToSet(Args(n)) /\ m # n
      BY <1>1, <2>3, <3>1, EmptyLog
    <3>3. Occurrences(Args(n), m) = 0
      BY <3>2, PositionsOfNode
    <3> QED BY <1>2, <1>5, <2>3, <3>2, <3>3, UsesStep
  <2> QED BY <2>2, <2>3, LenProperties
<1> QED BY <1>3, <1>4, <1>5

LEMMA ReleasesFacts ==
  ASSUME NEW nodes \in Seq(Nodes)
  PROVE  /\ Releases(nodes) \in Seq(Instructions)
         /\ Len(Releases(nodes)) = Len(nodes)
         /\ \A i \in DOMAIN nodes :
              Releases(nodes)[i] = Instruction("release", nodes[i], <<>>, <<>>)
<1>1. Len(nodes) \in Nat /\ DOMAIN nodes = 1 .. Len(nodes)
      /\ \A i \in DOMAIN nodes : nodes[i] \in Nodes
  BY LenProperties
<1>2. \A i \in DOMAIN nodes : Instruction("release", nodes[i], <<>>, <<>>) \in Instructions
  BY <1>1, InstructionFields, EmptyLog DEF Operations
<1>3. Releases(nodes) = [i \in 1 .. Len(nodes) |-> Instruction("release", nodes[i], <<>>, <<>>)]
  BY <1>1 DEF Releases
<1> QED BY <1>1, <1>2, <1>3

LEMMA TwoParts ==
  ASSUME NEW S, NEW s \in Seq(S), NEW t \in Seq(S)
  PROVE  /\ s \o t \in Seq(S)
         /\ Len(s) \in Nat /\ Len(t) \in Nat /\ Len(s \o t) = Len(s) + Len(t)
         /\ \A i \in 1 .. Len(s) : (s \o t)[i] = s[i]
         /\ \A j \in 1 .. Len(t) : (s \o t)[Len(s) + j] = t[j]
<1>1. Len(s) \in Nat /\ Len(t) \in Nat
  BY LenProperties
<1>2. /\ s \o t \in Seq(S) /\ Len(s \o t) = Len(s) + Len(t)
      /\ \A i \in 1 .. Len(s) + Len(t) :
           (s \o t)[i] = IF i <= Len(s) THEN s[i] ELSE t[i - Len(s)]
  BY ConcatProperties
<1>3. \A i \in 1 .. Len(s) : i \in 1 .. Len(s) + Len(t) /\ i <= Len(s)
  BY <1>1
<1>4. \A j \in 1 .. Len(t) : /\ Len(s) + j \in 1 .. Len(s) + Len(t)
                            /\ ~ Len(s) + j <= Len(s)
                            /\ (Len(s) + j) - Len(s) = j
  BY <1>1
<1> QED BY <1>1, <1>2, <1>3, <1>4

\* A check of lengths is one instruction, which reads arguments of its call or
\* their owners.
LEMMA ChecksFacts ==
  ASSUME Accepted, NEW n \in Nodes
  PROVE  /\ Checks(n) \in Seq(Instructions)
         /\ First(n) \in {1, 2} /\ Len(Checks(n)) = First(n) - 1
         /\ First(n) = 2 =>
              /\ Kind(n) = "call" /\ RuntimeShapeCheck(n)
              /\ Checks(n)[1].op = "require" /\ Checks(n)[1].node = n
              /\ Checks(n)[1].releases = Ended(n)
              /\ Checks(n)[1] \in Instructions
              /\ \/ Checks(n)[1].from = OwnersRead(n)
                 \/ /\ ~Spreads(n)
                    /\ ToSet(Checks(n)[1].from) = DynamicArgs(n)
<1> DEFINE reads == IF Spreads(n) THEN OwnersRead(n) ELSE Descending(DynamicArgs(n))
<1>1. /\ Ended(n) \in Seq(Nodes) /\ Args(n) \in Seq(Nodes)
      /\ \A i \in DOMAIN Args(n) : Args(n)[i] \in Nodes
      /\ Len(Args(n)) \in Nat /\ DOMAIN Args(n) = 1 .. Len(Args(n))
  BY EndedFacts, Arenas
<1>2. OwnersRead(n) \in Seq(Nodes)
  <2>1. \A m \in Nodes : OwnerOf(m) \in Nodes
    BY PlaceholderFacts DEF OwnerOf
  <2> QED BY <1>1, <2>1 DEF OwnersRead
<1>3. /\ Descending(DynamicArgs(n)) \in Seq(Nodes)
      /\ ToSet(Descending(DynamicArgs(n))) = DynamicArgs(n)
  <2>1. DynamicArgs(n) \subseteq Nodes
    BY <1>1 DEF DynamicArgs, ToSet
  <2>2. IsFiniteSet(DynamicArgs(n)) /\ DynamicArgs(n) \subseteq Int
    BY <2>1, NodesAreNumbers, FS_Subset
  <2> DEFINE some == DynamicArgs(n)
  <2> HIDE DEF some
  <2>3. Descending(some) \in Seq(some) /\ ToSet(Descending(some)) = some
    BY <2>2, DescendingEnumerates DEF some
  <2>4. some \subseteq Nodes
    BY <2>1 DEF some
  <2>5. Descending(some) \in Seq(Nodes)
    BY <2>3, <2>4
  <2> QED BY <2>3, <2>5 DEF some
<1>4. reads \in Seq(Nodes)
  BY <1>2, <1>3
<1>5. \/ reads = OwnersRead(n)
      \/ ~Spreads(n) /\ ToSet(reads) = DynamicArgs(n)
  BY <1>3
<1> DEFINE check == Instruction("require", n, reads, Ended(n))
<1>6. CASE Kind(n) = "call" /\ RuntimeShapeCheck(n)
  <2>1. Checks(n) = <<check>>
    BY <1>6 DEF Checks, ShapeCheck
  <2> HIDE DEF reads
  <2>2. /\ check \in Instructions /\ check.op = "require" /\ check.node = n
        /\ check.releases = Ended(n) /\ check.from = reads
    BY <1>1, <1>4, InstructionFields DEF Operations
  <2> HIDE DEF check
  <2>3. <<check>> \in Seq(Instructions) /\ Len(<<check>>) = 1 /\ <<check>>[1] = check
    BY <2>2, Singletons
  <2>4. First(n) = 2 /\ Len(Checks(n)) = 1
    BY <2>1, <2>3 DEF First
  <2> QED BY <1>5, <1>6, <2>1, <2>2, <2>3, <2>4
<1>7. CASE ~(Kind(n) = "call" /\ RuntimeShapeCheck(n))
  <2>1. Checks(n) = <<>>
    BY <1>7 DEF Checks, ShapeCheck
  <2>2. Len(<<>>) = 0 /\ <<>> \in Seq(Instructions)
    OBVIOUS
  <2>3. First(n) = 1 /\ Len(Checks(n)) = 0
    BY <2>1, <2>2 DEF First
  <2> QED BY <2>1, <2>2, <2>3
<1> QED BY <1>6, <1>7

\* A node's own code: what makes the value, then what ends with it.
LEMMA NodeCodeShape ==
  ASSUME Accepted, NEW n \in Nodes
  PROVE  /\ NodeCode(n, UsesInCode(n)) = Leading(n) \o Releases(Ended(n))
         /\ LeadingOp(n) \in Operations /\ LeadingFrom(n) \in Seq(Nodes)
         /\ Leading(n) \in Seq(Instructions)
<1>1. /\ Ended(n) \in Seq(Nodes) /\ Args(n) \in Seq(Nodes) /\ Kind(n) \in NodeKinds
      /\ \A i \in DOMAIN Args(n) : Args(n)[i] \in Nodes
      /\ Len(Args(n)) \in Nat /\ DOMAIN Args(n) = 1 .. Len(Args(n))
  BY EndedFacts, Arenas
<1>2. LeadingOp(n) \in Operations
  BY DEF LeadingOp, Operations
<1>3. LeadingFrom(n) \in Seq(Nodes)
  <2>1. \A m \in Nodes : OwnerOf(m) \in Nodes
    BY PlaceholderFacts DEF OwnerOf
  <2>2. OwnersRead(n) \in Seq(Nodes)
    BY <1>1, <2>1 DEF OwnersRead
  <2> QED BY <1>1, <2>2, EmptyLog DEF LeadingFrom
<1>4. Leading(n) \in Seq(Instructions) /\ Making(n) \in Seq(Instructions)
  <2>1. Instruction(LeadingOp(n), n, LeadingFrom(n), Ended(n)) \in Instructions
    BY <1>1, <1>2, <1>3, InstructionFields
  <2>2. Making(n) \in Seq(Instructions) /\ Checks(n) \in Seq(Instructions)
    BY <2>1, Singletons, ChecksFacts DEF Making
  <2> QED BY <2>2, EmptyLog, TwoParts DEF Leading
<1>5. Releases(<<>>) = <<>> /\ \A x : <<x>> \o <<>> = <<x>> /\ \A s \in Seq(Instructions) : <<>> \o s = s
  <2>1. Releases(<<>>) = <<>>
    BY DEF Releases
  <2> QED BY <2>1
<1>6. CASE Kind(n) = "fanout"
  <2> DEFINE x == Operand(n)
             uses == UsesInCode(n)
  <2>1. n \in Fanouts /\ x \in Nodes /\ x # n /\ x \notin ToSet(program.roots)
    BY <1>6, FanoutFacts, NodesAreNumbers DEF Fanouts
  <2>2. uses[x] = 0
    <3>1. UsesLeft(x, n + 1) = 0
      BY <1>6, <2>1, UsesStep
    <3> QED BY <2>1, <3>1, CountsInCode
  <2>3. /\ <<x>> \in Seq(Nodes) /\ ToSet(<<x>>) = {x}
    BY <2>1, Singletons
  <2>4. /\ FinalUses(uses, <<x>>) \in Seq(Nodes) /\ IsInjective(FinalUses(uses, <<x>>))
        /\ ToSet(FinalUses(uses, <<x>>)) = {x}
    <3> HIDE DEF x, uses
    <3>1. /\ FinalUses(uses, <<x>>) \in Seq(Nodes) /\ IsInjective(FinalUses(uses, <<x>>))
          /\ ToSet(FinalUses(uses, <<x>>)) =
               {z \in ToSet(<<x>>) : uses[z] = 0 /\ ~RetainedRoot(z)}
      BY <2>3, FinalUsesOnce
    <3>2. uses[x] = 0 /\ ~RetainedRoot(x)
      BY <2>1, <2>2 DEF RetainedRoot
    <3> QED BY <2>3, <3>1, <3>2
  <2>5. FinalUses(uses, <<x>>) = <<x>>
    BY <2>4, OneElement
  <2>6. NodeCode(n, uses) = Releases(<<x>>)
    BY <1>6, <2>5 DEF NodeCode
  <2>7. Releases(<<x>>) \in Seq(Instructions)
    BY <2>3, ReleasesFacts
  <2>8. Leading(n) = <<>> /\ Ended(n) = <<x>>
    BY <1>6 DEF Leading, Ended
  <2> QED BY <1>2, <1>3, <1>4, <1>5, <2>6, <2>7, <2>8
<1>7. CASE Kind(n) = "call"
  <2>1. Leading(n) = ShapeCheck(n, Ended(n)) \o <<Instruction("apply", n, OwnersRead(n), Ended(n))>>
    BY <1>7 DEF Leading, Checks, Making, LeadingOp, LeadingFrom
  <2>2. Ended(n) = FinalUses(UsesInCode(n), Args(n))
    BY <1>7 DEF Ended
  <2>3. NodeCode(n, UsesInCode(n)) = Leading(n) \o Releases(Ended(n))
    BY <1>7, <2>1, <2>2 DEF NodeCode, CallCode
  <2> QED BY <1>2, <1>3, <1>4, <2>3
<1>8. CASE Kind(n) \in {"scalar", "placeholder", "vector", "tuple"}
  <2>1. Ended(n) = <<>>
    BY <1>8 DEF Ended
  <2>4. Checks(n) = <<>> /\ <<>> \o Making(n) = Making(n)
    BY <1>4, <1>8 DEF Checks
  <2>2. NodeCode(n, UsesInCode(n)) = Leading(n)
    BY <1>8, <2>1, <2>4 DEF NodeCode, Leading, Making, LeadingOp, LeadingFrom
  <2>3. Leading(n) \o <<>> = Leading(n)
    BY <1>4
  <2> QED BY <1>2, <1>3, <1>4, <1>5, <2>1, <2>2, <2>3
<1> QED BY <1>1, <1>6, <1>7, <1>8 DEF NodeKinds

\* What is counted for a node that is no branch root is all still to come when
\* it has been made.
LEMMA UsesAfterMade ==
  ASSUME Accepted, NEW n \in Nodes, BranchPositions(n) = {}
  PROVE  UsesLeft(n, n + 1) = UseCount(n)
<1>1. Nodes \subseteq Int /\ n \in Int
  BY NodesAreNumbers
<1>2. \A m \in Nodes : n < m => m >= n + 1
  BY <1>1
<1>3. LaterPositions(n, n + 1) = OwnedPositions(program, n)
  BY <1>2, Positions DEF LaterPositions
<1>4. LaterFanouts(n, n + 1) = {f \in Fanouts : Operand(f) = n}
  BY <1>2, FanoutFacts DEF LaterFanouts
<1> QED BY <1>3, <1>4 DEF UsesLeft, UseCount

\* The operand of a fan-out is neither a branch root nor unused, and belongs to
\* that fan-out only.
LEMMA OperandFacts ==
  ASSUME Accepted, NEW f \in Fanouts
  PROVE  /\ BranchPositions(Operand(f)) = {}
         /\ UseCount(Operand(f)) # 0
         /\ AdmittedBefore(Operand(f) + 1) = {f}
<1>1. Operand(f) \in Nodes /\ f \in Nodes /\ Nodes \subseteq Int /\ Operand(f) + 1 <= f
      /\ \A g \in Fanouts : Operand(g) = Operand(f) => g = f
  BY FanoutFacts, NodesAreNumbers
<1>2. BranchPositions(Operand(f)) = {}
  BY <1>1, BranchFacts
<1>3. UseCount(Operand(f)) # 0
  <2>1. Operand(f) + 1 \in Int
    <3>1. \A m \in Int : m + 1 \in Int
      OBVIOUS
    <3>2. Operand(f) \in Int
      BY <1>1
    <3> QED BY <3>1, <3>2
  <2> QED BY <1>1, <1>2, <2>1, OperandInUse, UsesAfterMade
<1>4. \A g \in Fanouts : Operand(g) + 1 = Operand(f) + 1 => g = f
  <2>1. \A g \in Fanouts : Operand(g) \in Int
    BY <1>1, FanoutFacts
  <2> QED BY <1>1, <2>1
<1> QED BY <1>2, <1>3, <1>4 DEF AdmittedBefore

\* The last instruction of a node hands its value on: to a result table, to
\* nobody, or to the branches of a fan-out.
LEMMA ClosingFacts ==
  ASSUME Accepted, NEW n \in Nodes
  PROVE  /\ Closing(n) \in Seq(Instructions)
         /\ \A e \in BranchPositions(n) :
              Closing(n) = <<Instruction("transfer", e[1], <<n>>, <<>>)>>
         /\ UseCount(n) = 0 => Closing(n) = <<Instruction("release", n, <<>>, <<>>)>>
         /\ \A f \in Fanouts :
              Operand(f) = n => Closing(n) = <<Instruction("fanout", f, <<>>, <<>>)>>
         /\ \/ BranchPositions(n) # {}
            \/ UseCount(n) = 0 /\ BranchPositions(n) = {}
            \/ \E f \in Fanouts : Operand(f) = n
            \/ Closing(n) = <<>>
<1> DEFINE transfer == TransferCode(n)
           unused == UnusedCode(n)
           admission == AdmissionCode(n)
<1>1. n \in Int
  BY NodesAreNumbers
<1>2. UseCount(n) = 0 => BranchPositions(n) = {} /\ ~RetainedRoot(n)
  <2>1. UsesLeft(n, 1) = UseCount(n)
    BY UsesAtStart
  <2>2. UseCount(n) = 0 => ~RetainedRoot(n)
    BY <2>1, RootInUse DEF RetainedRoot
  <2>3. ASSUME NEW e \in BranchPositions(n)
        PROVE  UsesLeft(n, 1) # 0
    <3>1. LaterPositions(n, 1) = {e}
      <4>1. OwnedPositions(program, n) = {e} /\ e[1] \in Nodes
        BY <2>3, BranchFacts DEF Fanouts
      <4>2. e[1] >= 1
        BY <4>1, Arenas
      <4> QED BY <4>1, <4>2 DEF LaterPositions
    <3>2. Cardinality({e}) = 1 /\ ~ n < 1
      <4>1. Cardinality({e}) = 1
        BY FS_Singleton
      <4>2. ~ n < 1
        BY <1>1, Arenas
      <4> QED BY <4>1, <4>2
    <3>3. /\ Cardinality(LaterFanouts(n, 1)) \in Nat
          /\ Occurrences(program.roots, n) \in Nat
      BY CountsAreNumbers
    <3> QED BY <3>1, <3>2, <3>3 DEF UsesLeft
  <2> QED BY <2>1, <2>2, <2>3
<1>3. \A f \in Fanouts : Operand(f) = n => BranchPositions(n) = {} /\ UseCount(n) # 0
  BY OperandFacts
<1>4. BranchPositions(n) = {} => transfer = <<>>
  BY DEF TransferCode
<1>5. UseCount(n) # 0 => unused = <<>>
  BY DEF UnusedCode
<1>6. (\A f \in Fanouts : Operand(f) # n) => admission = <<>>
  <2>1. SUFFICES ASSUME \A f \in Fanouts : Operand(f) # n
                 PROVE  admission = <<>>
    OBVIOUS
  <2>2. AdmittedBefore(n + 1) = {}
    <3>1. \A f \in Fanouts : Operand(f) \in Int
      BY FanoutFacts, NodesAreNumbers
    <3>2. \A f \in Fanouts : Operand(f) + 1 # n + 1
      BY <1>1, <2>1, <3>1
    <3> QED BY <3>2 DEF AdmittedBefore
  <2>3. Descending({}) = <<>>
    <3>1. Cardinality({}) = 0
      BY FS_EmptySet
    <3>2. 1 .. 0 = {}
      OBVIOUS
    <3> QED BY <3>1, <3>2 DEF Descending
  <2>4. Reverse(<<>>) = <<>>
    BY DEF Reverse
  <2> QED BY <2>2, <2>3, <2>4 DEF AdmissionCode
<1>7. ASSUME NEW e \in BranchPositions(n)
      PROVE  transfer = <<Instruction("transfer", e[1], <<n>>, <<>>)>>
             /\ transfer \in Seq(Instructions)
  <2>1. BranchPositions(n) = {e} /\ e[1] \in Nodes
    BY BranchFacts DEF Fanouts
  <2>2. (CHOOSE x \in BranchPositions(n) : TRUE) = e
    BY <2>1
  <2>3. transfer = <<Instruction("transfer", e[1], <<n>>, <<>>)>>
    BY <2>1, <2>2 DEF TransferCode
  <2>4. Instruction("transfer", e[1], <<n>>, <<>>) \in Instructions
    BY <2>1, InstructionFields, Singletons DEF Operations
  <2> QED BY <2>3, <2>4, Singletons
<1>8. ASSUME UseCount(n) = 0
      PROVE  unused = <<Instruction("release", n, <<>>, <<>>)>> /\ unused \in Seq(Instructions)
  <2>1. /\ <<n>> \in Seq(Nodes)
        /\ Len(<<n>>) = 1 /\ DOMAIN <<n>> = {1} /\ <<n>>[1] = n
    OBVIOUS
  <2>2. unused = Releases(<<n>>)
    BY <1>2, <1>8 DEF UnusedCode
  <2>3. /\ Releases(<<n>>) \in Seq(Instructions) /\ Len(Releases(<<n>>)) = 1
        /\ Releases(<<n>>)[1] = Instruction("release", n, <<>>, <<>>)
    BY <2>1, ReleasesFacts
  <2> QED BY <2>2, <2>3
<1>9. ASSUME NEW f \in Fanouts, Operand(f) = n
      PROVE  admission = <<Instruction("fanout", f, <<>>, <<>>)>>
             /\ admission \in Seq(Instructions)
  <2> DEFINE order == Reverse(Descending(AdmittedBefore(n + 1)))
  <2>1. AdmittedBefore(n + 1) = {f} /\ f \in Nodes /\ f \in Int
    BY <1>9, OperandFacts, FanoutFacts, NodesAreNumbers
  <2>2. order = <<f>>
    <3>1. IsFiniteSet({f}) /\ {f} \subseteq Int
      BY <2>1, FS_Singleton
    <3>2. /\ Descending({f}) \in Seq({f}) /\ IsInjective(Descending({f}))
          /\ ToSet(Descending({f})) = {f}
      BY <3>1, DescendingEnumerates
    <3>3. /\ order \in Seq({f}) /\ IsInjective(order) /\ ToSet(order) = {f}
      BY <2>1, <3>2, ReverseProperties
    <3> HIDE DEF order
    <3> QED BY <3>3, OneElement
  <2>3. admission = [i \in DOMAIN <<f>> |-> Instruction("fanout", <<f>>[i], <<>>, <<>>)]
    BY <2>2 DEF AdmissionCode
  <2>4. admission = <<Instruction("fanout", f, <<>>, <<>>)>>
    BY <2>3
  <2>5. Instruction("fanout", f, <<>>, <<>>) \in Instructions
    BY <2>1, InstructionFields, EmptyLog DEF Operations
  <2> QED BY <2>4, <2>5, Singletons
<1>10. Closing(n) = transfer \o unused \o admission
  BY DEF Closing
<1>11. <<>> \in Seq(Instructions) /\ \A s \in Seq(Instructions) : s \o <<>> = s /\ <<>> \o s = s
  OBVIOUS
<1> HIDE DEF transfer, unused, admission
<1>12. CASE BranchPositions(n) # {}
  <2>1. PICK e \in BranchPositions(n) : TRUE
    BY <1>12
  <2>2. unused = <<>> /\ admission = <<>> /\ transfer \in Seq(Instructions)
    BY <1>2, <1>3, <1>5, <1>6, <1>7, <1>12
  <2>3. Closing(n) = transfer
    BY <1>10, <1>11, <2>2
  <2> QED BY <1>2, <1>3, <1>7, <1>12, <2>2, <2>3
<1>13. CASE BranchPositions(n) = {} /\ UseCount(n) = 0
  <2>1. transfer = <<>> /\ admission = <<>> /\ unused \in Seq(Instructions)
    BY <1>3, <1>4, <1>6, <1>8, <1>13
  <2>2. Closing(n) = unused
    BY <1>10, <1>11, <2>1
  <2> QED BY <1>3, <1>8, <1>13, <2>1, <2>2
<1>14. CASE \E f \in Fanouts : Operand(f) = n
  <2>1. PICK f \in Fanouts : Operand(f) = n
    BY <1>14
  <2>2. transfer = <<>> /\ unused = <<>> /\ admission \in Seq(Instructions)
    BY <1>3, <1>4, <1>5, <1>9, <2>1
  <2>3. Closing(n) = admission
    BY <1>10, <1>11, <2>2
  <2> QED BY <1>3, <1>9, <1>14, <2>1, <2>2, <2>3
<1>15. CASE BranchPositions(n) = {} /\ UseCount(n) # 0 /\ \A f \in Fanouts : Operand(f) # n
  <2>1. transfer = <<>> /\ unused = <<>> /\ admission = <<>>
    BY <1>4, <1>5, <1>6, <1>15
  <2>2. Closing(n) = <<>>
    BY <1>10, <1>11, <2>1
  <2> QED BY <1>11, <1>15, <2>2
<1> QED BY <1>12, <1>13, <1>14, <1>15

LEMMA CodePieces ==
  ASSUME Accepted, NEW n \in Nodes
  PROVE  /\ TransferCode(n) \in Seq(Instructions)
         /\ UnusedCode(n) \in Seq(Instructions)
         /\ AdmissionCode(n) \in Seq(Instructions)
<1>1. n \in Int
  BY NodesAreNumbers
<1>2. TransferCode(n) \in Seq(Instructions)
  <2>1. CASE BranchPositions(n) = {}
    BY <2>1, EmptyLog DEF TransferCode
  <2>2. ASSUME NEW e \in BranchPositions(n)
        PROVE  TransferCode(n) \in Seq(Instructions)
    <3>1. BranchPositions(n) = {e} /\ e[1] \in Nodes
      BY <2>2, BranchFacts DEF Fanouts
    <3>2. (CHOOSE x \in BranchPositions(n) : TRUE) = e
      BY <3>1
    <3>3. Instruction("transfer", e[1], <<n>>, <<>>) \in Instructions
      BY <3>1, InstructionFields, Singletons DEF Operations
    <3> QED BY <3>1, <3>2, <3>3, Singletons DEF TransferCode
  <2> QED BY <2>1, <2>2
<1>3. UnusedCode(n) \in Seq(Instructions)
  BY ReleasesFacts, Singletons, EmptyLog DEF UnusedCode
<1>4. AdmissionCode(n) \in Seq(Instructions)
  <2> DEFINE fanouts == AdmittedBefore(n + 1)
             order == Reverse(Descending(fanouts))
  <2>1. fanouts \in SUBSET Nodes
    BY DEF AdmittedBefore, Fanouts
  <2>2. IsFiniteSet(fanouts) /\ fanouts \subseteq Int
    BY <2>1, NodesAreNumbers, FS_Subset
  <2> HIDE DEF fanouts
  <2>3. Descending(fanouts) \in Seq(fanouts)
    BY <2>2, DescendingEnumerates
  <2>4. order \in Seq(fanouts)
    BY <2>3, ReverseProperties
  <2> HIDE DEF order
  <2>5. /\ Len(order) \in Nat /\ DOMAIN order = 1 .. Len(order)
        /\ \A i \in 1 .. Len(order) : order[i] \in Nodes
    BY <2>1, <2>4, LenProperties
  <2>6. \A i \in 1 .. Len(order) : Instruction("fanout", order[i], <<>>, <<>>) \in Instructions
    BY <2>5, InstructionFields, EmptyLog DEF Operations
  <2>7. AdmissionCode(n) =
          [i \in 1 .. Len(order) |-> Instruction("fanout", order[i], <<>>, <<>>)]
    BY <2>5 DEF AdmissionCode, order, fanouts
  <2> QED BY <2>5, <2>6, <2>7
<1> QED BY <1>2, <1>3, <1>4

\* A sequence of three parts, the last of at most one entry.
AtMostOne(c) == c = <<>> \/ \E x : c = <<x>>

PartsOf(w, a, b, c, lw, la, lb) ==
  /\ lw \in Nat /\ la \in Nat /\ lb \in Nat
  /\ \A i \in 1 .. la : i \in 1 .. lw /\ w[i] = a[i]
  /\ \A j \in 1 .. lb : la + j \in 1 .. lw /\ w[la + j] = b[j]
  /\ c = <<>> => lw = la + lb
  /\ c # <<>> => lw = la + lb + 1 /\ w[lw] = c[1]
  /\ \A i \in 1 .. lw : \/ i \in 1 .. la
                        \/ \E j \in 1 .. lb : i = la + j
                        \/ c # <<>> /\ i = lw

HasParts(w, a, b, c) ==
  DOMAIN w = 1 .. Len(w) /\ PartsOf(w, a, b, c, Len(w), Len(a), Len(b))

LEMMA ThreeParts ==
  ASSUME NEW S, NEW a \in Seq(S), NEW b \in Seq(S), NEW c \in Seq(S), AtMostOne(c)
  PROVE  (a \o b) \o c \in Seq(S) /\ HasParts((a \o b) \o c, a, b, c)
<1> DEFINE w == (a \o b) \o c
<1> DEFINE s == a \o b
<1>1. /\ s \in Seq(S)
      /\ Len(a) \in Nat /\ Len(b) \in Nat /\ Len(s) = Len(a) + Len(b)
      /\ \A i \in 1 .. Len(a) : s[i] = a[i]
      /\ \A j \in 1 .. Len(b) : s[Len(a) + j] = b[j]
  BY TwoParts
<1> HIDE DEF s, w
<1>2. w = s \o c
  BY DEF s, w
<1>3. /\ w \in Seq(S)
      /\ Len(s) \in Nat /\ Len(c) \in Nat /\ Len(w) = Len(s) + Len(c)
      /\ \A i \in 1 .. Len(s) : w[i] = s[i]
      /\ \A j \in 1 .. Len(c) : w[Len(s) + j] = c[j]
  <2>1. /\ s \o c \in Seq(S)
        /\ Len(s) \in Nat /\ Len(c) \in Nat /\ Len(s \o c) = Len(s) + Len(c)
        /\ \A i \in 1 .. Len(s) : (s \o c)[i] = s[i]
        /\ \A j \in 1 .. Len(c) : (s \o c)[Len(s) + j] = c[j]
    <3>1. s \in Seq(S)
      BY <1>1
    <3> QED BY <3>1, TwoParts
  <2> QED BY <1>2, <2>1
<1>4. (c = <<>> /\ Len(c) = 0) \/ (c # <<>> /\ Len(c) = 1)
  <2>1. \A x : Len(<<x>>) = 1 /\ <<x>> # <<>>
    OBVIOUS
  <2>2. Len(<<>>) = 0
    OBVIOUS
  <2> QED BY <2>1, <2>2 DEF AtMostOne
<1>5. Len(w) \in Nat /\ DOMAIN w = 1 .. Len(w)
  BY <1>3, LenProperties
<1>6. \A i \in 1 .. Len(a) : i \in 1 .. Len(s) /\ i \in 1 .. Len(w)
  BY <1>1, <1>3
<1>7. \A j \in 1 .. Len(b) : Len(a) + j \in 1 .. Len(s) /\ Len(a) + j \in 1 .. Len(w)
  BY <1>1, <1>3
<1>8. c # <<>> => Len(w) = Len(a) + Len(b) + 1 /\ w[Len(w)] = c[1]
  <2>1. 1 \in 1 .. 1
    OBVIOUS
  <2> QED BY <1>1, <1>3, <1>4, <2>1
<1>9. ASSUME NEW i \in 1 .. Len(w)
      PROVE  \/ i \in 1 .. Len(a)
             \/ \E j \in 1 .. Len(b) : i = Len(a) + j
             \/ c # <<>> /\ i = Len(w)
  <2>1. CASE i > Len(a) /\ i <= Len(a) + Len(b)
    <3>1. i - Len(a) \in 1 .. Len(b) /\ i = Len(a) + (i - Len(a))
      BY <1>1, <2>1
    <3> QED BY <3>1
  <2>2. CASE i <= Len(a)
    BY <1>1, <2>2
  <2>3. CASE i > Len(a) + Len(b)
    <3>1. i \in Int /\ i <= Len(s) + Len(c) /\ Len(s) = Len(a) + Len(b)
      BY <1>1, <1>3
    <3>2. c # <<>> /\ Len(c) = 1
      BY <1>1, <1>3, <1>4, <2>3, <3>1
    <3>3. i = Len(w)
      <4>1. Len(a) \in Nat /\ Len(b) \in Nat /\ Len(w) = Len(s) + Len(c)
        BY <1>1, <1>3
      <4>2. \A x, y \in Nat : \A k \in Int : k > x + y /\ k <= (x + y) + 1 => k = (x + y) + 1
        OBVIOUS
      <4> QED BY <2>3, <3>1, <3>2, <4>1, <4>2
    <3> QED BY <3>2, <3>3
  <2>4. i \in Int
    BY <1>5
  <2> QED BY <1>1, <2>1, <2>2, <2>3, <2>4
<1>10. c = <<>> => Len(w) = Len(a) + Len(b)
  BY <1>1, <1>3, <1>4
<1>11. /\ \A i \in 1 .. Len(a) : i \in 1 .. Len(w) /\ w[i] = a[i]
       /\ \A j \in 1 .. Len(b) : Len(a) + j \in 1 .. Len(w) /\ w[Len(a) + j] = b[j]
  BY <1>1, <1>3, <1>6, <1>7
<1>12. w \in Seq(S) /\ HasParts(w, a, b, c)
  BY <1>1, <1>3, <1>5, <1>8, <1>9, <1>10, <1>11 DEF HasParts, PartsOf
<1> QED BY <1>12 DEF w

\* The first lines of a node's code.
LEMMA LeadingLines ==
  ASSUME Accepted, NEW n \in Nodes, Kind(n) # "fanout"
  PROVE  /\ Len(Leading(n)) = First(n)
         /\ Leading(n)[First(n)] = Instruction(LeadingOp(n), n, LeadingFrom(n), Ended(n))
         /\ First(n) = 2 => Leading(n)[1] = Checks(n)[1]
<1> DEFINE make == Instruction(LeadingOp(n), n, LeadingFrom(n), Ended(n))
           before == Checks(n)
           after == Making(n)
<1>1. Leading(n) = before \o after
  BY DEF Leading
<1>2. after = <<make>> /\ make \in Instructions
  BY NodeCodeShape, EndedFacts, InstructionFields DEF Making
<1> HIDE DEF make
<1>3. after \in Seq(Instructions) /\ Len(after) = 1 /\ after[1] = make
  BY <1>2, Singletons
<1>5. before \in Seq(Instructions)
  BY ChecksFacts
<1>6. after \in Seq(Instructions) /\ Len(after) = 1 /\ after[1] = make
  BY <1>3
<1> HIDE DEF before, after
<1>4. /\ Len(before \o after) = Len(before) + 1
      /\ \A i \in 1 .. Len(before) : (before \o after)[i] = before[i]
      /\ (before \o after)[Len(before) + 1] = make
  <2>1. 1 \in 1 .. 1
    OBVIOUS
  <2>2. /\ before \o after \in Seq(Instructions)
        /\ Len(before) \in Nat /\ Len(after) \in Nat
        /\ Len(before \o after) = Len(before) + Len(after)
        /\ \A i \in 1 .. Len(before) : (before \o after)[i] = before[i]
        /\ \A j \in 1 .. Len(after) : (before \o after)[Len(before) + j] = after[j]
    <3>1. before \in Seq(Instructions) /\ after \in Seq(Instructions)
      BY <1>5, <1>6
    <3> QED BY <3>1, TwoParts
  <2> QED BY <1>6, <2>1, <2>2
<1>7. Len(before) = First(n) - 1 /\ (First(n) = 2 => 1 \in 1 .. Len(before))
      /\ Len(before) + 1 = First(n)
  BY ChecksFacts DEF before
<1> QED BY <1>1, <1>4, <1>7 DEF before, make

\* Its lines, when the first part is empty or ends at line first.
ByLine(w, a, b, c, lw, la, lb, first) ==
  /\ lw >= 1
  /\ la # 0 => first \in 1 .. lw /\ w[first] = a[first] /\ w[1] = a[1]
  /\ \A i \in 1 .. lw :
       \/ la # 0 /\ i = first
       \/ la # 0 /\ i = 1 /\ first = 2
       \/ \E j \in 1 .. lb : i = la + j
       \/ i = lw /\ c # <<>>

LEMMA PartsByLine ==
  ASSUME NEW w, NEW a, NEW b, NEW c, NEW lw, NEW la, NEW lb, NEW first,
         PartsOf(w, a, b, c, lw, la, lb), first \in {1, 2}, la = 0 \/ la = first,
         la # 0 \/ lb # 0
  PROVE  ByLine(w, a, b, c, lw, la, lb, first)
<1>1. lw >= 1
  BY DEF PartsOf
<1>2. la # 0 => first \in 1 .. lw /\ w[first] = a[first] /\ w[1] = a[1]
  <2>1. la # 0 => first \in 1 .. la /\ 1 \in 1 .. la
    OBVIOUS
  <2> QED BY <2>1 DEF PartsOf
<1>3. ASSUME NEW i \in 1 .. lw
      PROVE  \/ la # 0 /\ i = first
             \/ la # 0 /\ i = 1 /\ first = 2
             \/ \E j \in 1 .. lb : i = la + j
             \/ i = lw /\ c # <<>>
  BY DEF PartsOf
<1> QED BY <1>1, <1>2, <1>3 DEF ByLine

\* The block of a node in its parts.
LEMMA BlockParts ==
  ASSUME Accepted, NEW n \in Nodes
  PROVE  /\ Block(n) \in Seq(Instructions)
         /\ HasParts(Block(n), Leading(n), Releases(Ended(n)), Closing(n))
<1> DEFINE lead == Leading(n)
           ends == Releases(Ended(n))
           close == Closing(n)
           start == lead \o ends
           whole == Block(n)
<1>1. /\ NodeCode(n, UsesInCode(n)) = start /\ lead \in Seq(Instructions)
      /\ ends \in Seq(Instructions)
  BY NodeCodeShape, EndedFacts, ReleasesFacts
<1>2. close \in Seq(Instructions) /\ AtMostOne(close)
  BY ClosingFacts DEF AtMostOne
<1>3. whole = start \o close
  <2> DEFINE transfer == TransferCode(n)
             unused == UnusedCode(n)
             admission == AdmissionCode(n)
             middle == transfer \o unused
  <2>1. /\ transfer \in Seq(Instructions) /\ unused \in Seq(Instructions)
        /\ admission \in Seq(Instructions)
    BY CodePieces
  <2>2. start \in Seq(Instructions)
    BY <1>1, TwoParts
  <2>3. whole = ((start \o transfer) \o unused) \o admission
    BY <1>1 DEF Block
  <2>4. close = middle \o admission
    BY DEF Closing
  <2> HIDE DEF start, transfer, unused, admission, close, whole
  <2>5. (start \o transfer) \o unused = start \o middle
    BY <2>1, <2>2, LogsAssociate
  <2>6. middle \in Seq(Instructions)
    BY <2>1, TwoParts
  <2> HIDE DEF middle
  <2>7. (start \o middle) \o admission = start \o (middle \o admission)
    BY <2>1, <2>2, <2>6, LogsAssociate
  <2> QED BY <2>3, <2>4, <2>5, <2>7
<1> HIDE DEF lead, ends, close, start, whole
<1>4. whole = (lead \o ends) \o close
  BY <1>3 DEF start
<1>5. (lead \o ends) \o close \in Seq(Instructions)
      /\ HasParts((lead \o ends) \o close, lead, ends, close)
  BY <1>1, <1>2, ThreeParts
<1>6. whole \in Seq(Instructions) /\ HasParts(whole, lead, ends, close)
  BY <1>4, <1>5
<1> QED BY <1>6 DEF whole, lead, ends, close

\* The block of a node, line by line.
LEMMA BlockLines ==
  ASSUME Accepted, NEW n \in Nodes
  PROVE  /\ Block(n) \in Seq(Instructions)
         /\ Len(Block(n)) \in Nat /\ Len(Block(n)) >= 1
         /\ DOMAIN Block(n) = 1 .. Len(Block(n))
         /\ Len(Leading(n)) = IF Kind(n) = "fanout" THEN 0 ELSE First(n)
         /\ Kind(n) # "fanout" =>
              /\ First(n) \in DOMAIN Block(n)
              /\ Block(n)[First(n)] = Instruction(LeadingOp(n), n, LeadingFrom(n), Ended(n))
         /\ First(n) = 2 => Block(n)[1] = Checks(n)[1]
         /\ \A j \in DOMAIN Ended(n) :
              /\ Len(Leading(n)) + j \in DOMAIN Block(n)
              /\ Block(n)[Len(Leading(n)) + j] = Instruction("release", Ended(n)[j], <<>>, <<>>)
         /\ Closing(n) # <<>> =>
              /\ Len(Block(n)) = Len(Leading(n)) + Len(Ended(n)) + 1
              /\ Block(n)[Len(Block(n))] = Closing(n)[1]
         /\ Closing(n) = <<>> => Len(Block(n)) = Len(Leading(n)) + Len(Ended(n))
         /\ \A i \in DOMAIN Block(n) :
              \/ i = First(n) /\ Kind(n) # "fanout"
              \/ i = 1 /\ First(n) = 2
              \/ \E j \in DOMAIN Ended(n) : i = Len(Leading(n)) + j
              \/ i = Len(Block(n)) /\ Closing(n) # <<>>
<1>1. /\ Len(Releases(Ended(n))) = Len(Ended(n))
      /\ Len(Ended(n)) \in Nat /\ DOMAIN Ended(n) = 1 .. Len(Ended(n))
      /\ \A j \in DOMAIN Ended(n) :
           Releases(Ended(n))[j] = Instruction("release", Ended(n)[j], <<>>, <<>>)
  BY EndedFacts, ReleasesFacts
<1>2. /\ First(n) \in {1, 2}
      /\ First(n) = 2 => Kind(n) # "fanout"
  BY ChecksFacts
<1>3. Len(Leading(n)) = IF Kind(n) = "fanout" THEN 0 ELSE First(n)
  BY LeadingLines DEF Leading
<1>4. Kind(n) = "fanout" => Len(Ended(n)) = 1
  BY DEF Ended
<1>5. /\ Len(Leading(n)) = 0 \/ Len(Leading(n)) = First(n)
      /\ Len(Leading(n)) # 0 \/ Len(Ended(n)) # 0
      /\ Len(Leading(n)) # 0 <=> Kind(n) # "fanout"
  BY <1>2, <1>3, <1>4
<1> DEFINE w == Block(n)
           a == Leading(n)
           b == Releases(Ended(n))
           c == Closing(n)
           lw == Len(Block(n))
           la == Len(Leading(n))
           lb == Len(Ended(n))
<1>6. /\ w \in Seq(Instructions) /\ DOMAIN w = 1 .. lw
      /\ PartsOf(w, a, b, c, lw, la, lb)
  <2>1. /\ w \in Seq(Instructions)
        /\ HasParts(w, a, b, c) /\ Len(b) = lb
    BY <1>1, BlockParts
  <2>2. PartsOf(w, a, b, c, Len(w), Len(a), Len(b)) /\ DOMAIN w = 1 .. Len(w)
    <3> HIDE DEF w, a, b, c, lw, la, lb
    <3>1. HasParts(w, a, b, c)
      BY <2>1
    <3> QED BY <3>1 DEF HasParts
  <2> QED BY <2>1, <2>2
<1>7. ByLine(w, a, b, c, lw, la, lb, First(n))
  BY <1>2, <1>5, <1>6, PartsByLine
<1>8. Kind(n) # "fanout" =>
        /\ a[First(n)] = Instruction(LeadingOp(n), n, LeadingFrom(n), Ended(n))
        /\ First(n) = 2 => a[1] = Checks(n)[1]
  BY LeadingLines
<1>9. DOMAIN Ended(n) = 1 .. lb
      /\ \A j \in 1 .. lb : b[j] = Instruction("release", Ended(n)[j], <<>>, <<>>)
  BY <1>1
<1>10. /\ w \in Seq(Instructions)
       /\ lw \in Nat /\ lw >= 1
       /\ DOMAIN w = 1 .. lw
       /\ Kind(n) # "fanout" =>
            /\ First(n) \in DOMAIN w
            /\ w[First(n)] = Instruction(LeadingOp(n), n, LeadingFrom(n), Ended(n))
       /\ First(n) = 2 => w[1] = Checks(n)[1]
       /\ \A j \in DOMAIN Ended(n) :
            /\ la + j \in DOMAIN w
            /\ w[la + j] = Instruction("release", Ended(n)[j], <<>>, <<>>)
       /\ c # <<>> => lw = la + lb + 1 /\ w[lw] = c[1]
       /\ c = <<>> => lw = la + lb
       /\ \A i \in DOMAIN w :
            \/ i = First(n) /\ Kind(n) # "fanout"
            \/ i = 1 /\ First(n) = 2
            \/ \E j \in DOMAIN Ended(n) : i = la + j
            \/ i = lw /\ c # <<>>
  <2> HIDE DEF w, a, b, c, lw, la, lb
  <2>1. la # 0 <=> Kind(n) # "fanout"
    BY <1>5 DEF la
  <2>2. /\ lw \in Nat /\ lw >= 1
        /\ Kind(n) # "fanout" =>
             /\ First(n) \in 1 .. lw
             /\ w[First(n)] = Instruction(LeadingOp(n), n, LeadingFrom(n), Ended(n))
        /\ First(n) = 2 => w[1] = Checks(n)[1]
    BY <1>2, <1>6, <1>7, <1>8, <2>1 DEF ByLine, PartsOf
  <2>3. \A j \in 1 .. lb :
          /\ la + j \in 1 .. lw
          /\ w[la + j] = Instruction("release", Ended(n)[j], <<>>, <<>>)
    BY <1>6, <1>9 DEF PartsOf
  <2>4. \A i \in 1 .. lw :
          \/ i = First(n) /\ Kind(n) # "fanout"
          \/ i = 1 /\ First(n) = 2
          \/ \E j \in 1 .. lb : i = la + j
          \/ i = lw /\ c # <<>>
    BY <1>7, <2>1 DEF ByLine
  <2>5. /\ c # <<>> => lw = la + lb + 1 /\ w[lw] = c[1]
        /\ c = <<>> => lw = la + lb
    BY <1>6 DEF PartsOf
  <2>6. w \in Seq(Instructions) /\ DOMAIN w = 1 .. lw
    BY <1>6
  <2> QED BY <1>9, <2>2, <2>3, <2>4, <2>5, <2>6
<1> QED BY ONLY <1>3, <1>10, Zenon

Release(n) == Instruction("release", n, <<>>, <<>>)

\* What the lines of a block are.
LEMMA Lines ==
  ASSUME Accepted, NEW n \in Nodes, NEW i \in DOMAIN Block(n)
  PROVE  \/ /\ i = First(n) /\ Kind(n) # "fanout"
            /\ Block(n)[i] = Instruction(LeadingOp(n), n, LeadingFrom(n), Ended(n))
         \/ i = 1 /\ First(n) = 2 /\ Block(n)[i] = Checks(n)[1]
         \/ \E j \in DOMAIN Ended(n) : /\ i = Len(Leading(n)) + j
                                       /\ Block(n)[i] = Release(Ended(n)[j])
         \/ /\ i = Len(Block(n))
            /\ \/ \E e \in BranchPositions(n) :
                    Block(n)[i] = Instruction("transfer", e[1], <<n>>, <<>>)
               \/ /\ UseCount(n) = 0 /\ BranchPositions(n) = {}
                  /\ Block(n)[i] = Release(n)
               \/ \E f \in Fanouts :
                    Operand(f) = n /\ Block(n)[i] = Instruction("fanout", f, <<>>, <<>>)
<1>1. CASE i = First(n) /\ Kind(n) # "fanout"
  BY <1>1, BlockLines
<1>4. CASE i = 1 /\ First(n) = 2
  BY <1>4, BlockLines
<1>2. ASSUME NEW j \in DOMAIN Ended(n), i = Len(Leading(n)) + j
      PROVE  Block(n)[i] = Release(Ended(n)[j])
  BY <1>2, BlockLines DEF Release
<1>3. CASE i = Len(Block(n)) /\ Closing(n) # <<>>
  <2>1. Block(n)[i] = Closing(n)[1]
    BY <1>3, BlockLines
  <2>2. \A x : <<x>>[1] = x
    OBVIOUS
  <2>3. ASSUME NEW e \in BranchPositions(n)
        PROVE  Block(n)[i] = Instruction("transfer", e[1], <<n>>, <<>>)
    BY <2>1, <2>2, ClosingFacts
  <2>4. UseCount(n) = 0 => Block(n)[i] = Release(n)
    BY <2>1, <2>2, ClosingFacts DEF Release
  <2>5. ASSUME NEW f \in Fanouts, Operand(f) = n
        PROVE  Block(n)[i] = Instruction("fanout", f, <<>>, <<>>)
    BY <2>1, <2>2, <2>5, ClosingFacts
  <2> QED BY <1>3, <2>3, <2>4, <2>5, ClosingFacts
<1> QED BY <1>1, <1>2, <1>3, <1>4, BlockLines

\* The line that hands the value on is the last one, after the line that makes
\* it.
LEMMA LastLine ==
  ASSUME Accepted, NEW n \in Nodes
  PROVE  /\ \A e \in BranchPositions(n) :
              /\ Block(n)[Len(Block(n))] = Instruction("transfer", e[1], <<n>>, <<>>)
              /\ Len(Block(n)) > First(n)
         /\ UseCount(n) = 0 => Block(n)[Len(Block(n))] = Release(n)
         /\ \A f \in Fanouts : Operand(f) = n =>
              Block(n)[Len(Block(n))] = Instruction("fanout", f, <<>>, <<>>)
<1>1. \A x : <<x>>[1] = x /\ <<x>> # <<>>
  OBVIOUS
<1>2. ASSUME NEW e \in BranchPositions(n)
      PROVE  /\ Block(n)[Len(Block(n))] = Instruction("transfer", e[1], <<n>>, <<>>)
             /\ Len(Block(n)) > First(n)
  <2>1. Closing(n) = <<Instruction("transfer", e[1], <<n>>, <<>>)>>
    BY ClosingFacts
  <2>2. Kind(n) = "call"
    BY BranchFacts
  <2>3. Len(Block(n)) = First(n) + Len(Ended(n)) + 1 /\ Len(Ended(n)) \in Nat
        /\ First(n) \in {1, 2}
    BY <1>1, <2>1, <2>2, BlockLines, EndedFacts, ChecksFacts
  <2>4. Len(Block(n)) > First(n)
    BY <2>3
  <2> QED BY <1>1, <2>1, <2>4, BlockLines
<1>3. UseCount(n) = 0 => Block(n)[Len(Block(n))] = Release(n)
  BY <1>1, ClosingFacts, BlockLines DEF Release
<1>4. ASSUME NEW f \in Fanouts, Operand(f) = n
      PROVE  Block(n)[Len(Block(n))] = Instruction("fanout", f, <<>>, <<>>)
  <2>1. Closing(n) = <<Instruction("fanout", f, <<>>, <<>>)>>
    BY <1>4, ClosingFacts
  <2> QED BY <1>1, <2>1, BlockLines
<1> QED BY <1>2, <1>3, <1>4

\* A tuple takes what it uses, and ends the lifetime of nothing else.
LEMMA TupleTakes ==
  ASSUME Accepted, NEW n \in Nodes, Kind(n) = "tuple", NEW m \in Nodes
  PROVE  m \in ToSet(Args(n)) <=> m < n /\ UsesLeft(m, n) # 0 /\ UsesLeft(m, n + 1) = 0
<1>1. n \in Int /\ n + 1 \in Int /\ ~ n < n
  BY NodesAreNumbers
<1>2. /\ UsesLeft(m, n) \in Nat /\ UsesLeft(m, n + 1) \in Nat
      /\ Occurrences(Args(n), m) \in Nat
      /\ Occurrences(Args(n), m) = 0 <=> m \notin ToSet(Args(n))
  BY <1>1, CountsAreNumbers, PositionsOfNode
<1>3. m # n => UsesLeft(m, n + 1) = UsesLeft(m, n) - Occurrences(Args(n), m)
  BY UsesStep
<1>4. m \in ToSet(Args(n)) => m < n /\ UsesLeft(m, n) = 1
  BY UsesFound DEF ToSet
<1> QED BY <1>1, <1>2, <1>3, <1>4

\* The line that takes a value out of its slot.
LEMMA RemovingLine ==
  ASSUME Accepted, NEW n \in Nodes, NEW m \in Nodes, NEW i \in DOMAIN Block(n)
  PROVE  Removes(Block(n)[i], m) <=>
           \/ m = n /\ UsesLeft(n, n + 1) = 0 /\ i = Len(Block(n))
           \/ m < n /\ Kind(n) = "tuple" /\ i = 1 /\ m \in ToSet(Args(n))
           \/ /\ m < n /\ Kind(n) # "tuple"
              /\ \E j \in DOMAIN Ended(n) : i = Len(Leading(n)) + j /\ Ended(n)[j] = m
<1> DEFINE last == m = n /\ UsesLeft(n, n + 1) = 0 /\ i = Len(Block(n))
           taken == m < n /\ Kind(n) = "tuple" /\ i = 1 /\ m \in ToSet(Args(n))
           ended == \E j \in DOMAIN Ended(n) : i = Len(Leading(n)) + j /\ Ended(n)[j] = m
<1>1. n \in Int /\ ~ n < n
  BY NodesAreNumbers
<1>2. /\ BranchPositions(n) # {} => UsesLeft(n, n + 1) = 0
      /\ BranchPositions(n) = {} => UsesLeft(n, n + 1) = UseCount(n)
  BY UsesStep, UsesAfterMade
<1>3. /\ \A j \in DOMAIN Ended(n) :
           Ended(n)[j] \in Nodes /\ Ended(n)[j] < n /\ Kind(n) # "tuple"
  BY EndedFacts, ElementOfSeq DEF ToSet
<1>8. Kind(n) = "tuple" => First(n) = 1
  BY ChecksFacts
<1>4. ASSUME Removes(Block(n)[i], m)
      PROVE  last \/ taken \/ (m < n /\ Kind(n) # "tuple" /\ ended)
  <2>6. ASSUME First(n) = 2, Block(n)[i] = Checks(n)[1]
        PROVE  FALSE
    <3>1. Block(n)[i].op = "require"
      BY <2>6, ChecksFacts
    <3> QED BY <1>4, <3>1 DEF Removes
  <2>1. CASE /\ i = First(n) /\ Kind(n) # "fanout"
             /\ Block(n)[i] = Instruction(LeadingOp(n), n, LeadingFrom(n), Ended(n))
    <3>1. LeadingOp(n) \in {"tuple", "transfer", "release"} => Kind(n) = "tuple"
      BY DEF LeadingOp
    <3>2. Kind(n) = "tuple" /\ m \in ToSet(LeadingFrom(n))
      <4>1. Block(n)[i].op = LeadingOp(n) /\ Block(n)[i].from = LeadingFrom(n)
        BY <2>1, InstructionFields
      <4>2. LeadingOp(n) \in {"tuple", "transfer", "release"}
        BY <1>4, <4>1 DEF Removes
      <4>3. LeadingOp(n) = "tuple"
        BY <3>1, <4>2 DEF LeadingOp
      <4> QED BY <1>4, <3>1, <4>1, <4>2, <4>3 DEF Removes
    <3>3. m \in ToSet(Args(n))
      BY <3>2 DEF LeadingFrom
    <3> QED BY <1>8, <2>1, <3>2, <3>3, TupleTakes
  <2>2. ASSUME NEW j \in DOMAIN Ended(n), i = Len(Leading(n)) + j,
               Block(n)[i] = Release(Ended(n)[j])
        PROVE  m < n /\ Kind(n) # "tuple" /\ ended
    <3>1. Ended(n)[j] = m
      BY <1>4, <2>2, InstructionFields DEF Removes, Release
    <3> QED BY <1>3, <2>2, <3>1
  <2>3. ASSUME i = Len(Block(n)), NEW e \in BranchPositions(n),
               Block(n)[i] = Instruction("transfer", e[1], <<n>>, <<>>)
        PROVE  last
    <3>1. m \in ToSet(<<n>>)
      BY <1>4, <2>3, InstructionFields DEF Removes
    <3>2. m = n
      BY <3>1, Singletons
    <3> QED BY <1>2, <2>3, <3>2
  <2>4. ASSUME i = Len(Block(n)), UseCount(n) = 0, BranchPositions(n) = {},
               Block(n)[i] = Release(n)
        PROVE  last
    <3>1. m = n
      BY <1>4, <2>4, InstructionFields DEF Removes, Release
    <3> QED BY <1>2, <2>4, <3>1
  <2>5. ASSUME NEW f \in Fanouts, Block(n)[i] = Instruction("fanout", f, <<>>, <<>>)
        PROVE  FALSE
    BY <1>4, <2>5, InstructionFields DEF Removes
  <2> HIDE DEF last, taken, ended
  <2> QED BY <2>1, <2>2, <2>3, <2>4, <2>5, <2>6, Lines
<1>5. ASSUME last
      PROVE  Removes(Block(n)[i], m)
  <2>1. ASSUME NEW e \in BranchPositions(n)
        PROVE  Removes(Block(n)[i], m)
    <3>1. Block(n)[i] = Instruction("transfer", e[1], <<n>>, <<>>)
      BY <1>5, LastLine
    <3>2. m \in ToSet(<<n>>)
      BY <1>5, Singletons
    <3> QED BY <3>1, <3>2, InstructionFields DEF Removes
  <2>2. CASE BranchPositions(n) = {}
    <3>1. Block(n)[i] = Release(n)
      BY <1>2, <1>5, <2>2, LastLine
    <3> QED BY <1>5, <3>1, InstructionFields DEF Removes, Release
  <2> QED BY <2>1, <2>2
<1>6. ASSUME taken
      PROVE  Removes(Block(n)[i], m)
  <2>1. Block(n)[i] = Instruction("tuple", n, Args(n), Ended(n))
    BY <1>6, <1>8, BlockLines DEF LeadingOp, LeadingFrom
  <2> QED BY <1>6, <2>1, InstructionFields DEF Removes
<1>7. ASSUME ended
      PROVE  Removes(Block(n)[i], m)
  <2>1. PICK j \in DOMAIN Ended(n) : i = Len(Leading(n)) + j /\ Ended(n)[j] = m
    BY <1>7
  <2>2. Block(n)[i] = Release(m)
    BY <2>1, BlockLines DEF Release
  <2> QED BY <2>2, InstructionFields DEF Removes, Release
<1> QED BY <1>4, <1>5, <1>6, <1>7

\* In the block of node n a value is taken out of its slot when the counts say
\* so, and once.
LEMMA Removals ==
  ASSUME Accepted, NEW n \in Nodes, NEW m \in Nodes
  PROVE  /\ (\E i \in DOMAIN Block(n) : Removes(Block(n)[i], m)) <=>
              /\ UsesLeft(m, n + 1) = 0
              /\ m = n \/ (m < n /\ UsesLeft(m, n) # 0)
         /\ \A i, j \in DOMAIN Block(n) :
              Removes(Block(n)[i], m) /\ Removes(Block(n)[j], m) => i = j
<1>1. n \in Int /\ ~ n < n
  BY NodesAreNumbers
<1>2. /\ Len(Block(n)) \in DOMAIN Block(n) /\ 1 \in DOMAIN Block(n)
      /\ \A j \in DOMAIN Ended(n) : Len(Leading(n)) + j \in DOMAIN Block(n)
      /\ Len(Leading(n)) \in Int /\ DOMAIN Ended(n) \subseteq Int
  <2>1. /\ Len(Block(n)) \in Nat /\ Len(Block(n)) >= 1
        /\ DOMAIN Block(n) = 1 .. Len(Block(n))
        /\ \A j \in DOMAIN Ended(n) : Len(Leading(n)) + j \in DOMAIN Block(n)
        /\ Len(Leading(n)) \in Int
    BY BlockLines
  <2>2. DOMAIN Ended(n) \subseteq Int
    BY EndedFacts
  <2> QED BY <2>1, <2>2
<1>3. /\ IsInjective(Ended(n))
      /\ m \in ToSet(Ended(n)) <=> /\ Kind(n) # "tuple"
                                   /\ m < n /\ UsesLeft(m, n) # 0 /\ UsesLeft(m, n + 1) = 0
  BY EndedFacts
<1>4. CASE m = n
  BY <1>1, <1>2, <1>4, RemovingLine
<1>5. CASE m # n /\ Kind(n) = "tuple"
  BY <1>2, <1>5, RemovingLine, TupleTakes
<1>6. CASE m # n /\ Kind(n) # "tuple"
  <2>1. \A i \in DOMAIN Block(n) : Removes(Block(n)[i], m) <=>
          m < n /\ \E j \in DOMAIN Ended(n) : i = Len(Leading(n)) + j /\ Ended(n)[j] = m
    BY <1>6, RemovingLine
  <2>2. (\E i \in DOMAIN Block(n) : Removes(Block(n)[i], m)) <=>
          m < n /\ \E j \in DOMAIN Ended(n) : Ended(n)[j] = m
    BY <1>2, <2>1
  <2>3. m \in ToSet(Ended(n)) <=> \E j \in DOMAIN Ended(n) : Ended(n)[j] = m
    BY DEF ToSet
  <2>4. \A x, y \in DOMAIN Ended(n) : Ended(n)[x] = Ended(n)[y] => x = y
    BY <1>3 DEF IsInjective
  <2> QED BY <1>3, <1>6, <2>1, <2>2, <2>3, <2>4
<1> QED BY <1>4, <1>5, <1>6

(***************************************************************************)
(* The inductive invariant.                                                *)
(***************************************************************************)

\* What has been made, taken out of its slot, or put into a result table,
\* before line l of block b.
MadeAt(n, b, l) ==
  IF Kind(n) = "fanout"
  THEN Operand(n) < b \/ (Operand(n) = b /\ l > Len(Block(b)))
  ELSE n < b \/ (n = b /\ l > First(n))
RemovedAt(n, b, l) ==
  \/ n < b /\ UsesLeft(n, b) = 0
  \/ \E i \in 1 .. l - 1 : Removes(Block(b)[i], n)
PassedAt(n, b, l) == n < b \/ (n = b /\ l > Len(Block(b)))

\* What bennu_release reaches through a table, and what is owned at all.
InCell(n) == \E c \in Nodes : \E i \in 1 .. cleanup_index[c] : table[c][i] = n
Kept(n) == n \in slots \/ InCell(n) \/ n \in ToSet(freed)

\* The cells below the cleanup index are a first part of the elements.
CellsHold ==
  \A c \in Nodes :
    /\ table[c] \in Seq(Nodes \cup {0})
    /\ cleanup_index[c] \in 0 .. Len(Args(c))
    /\ cleanup_index[c] <= Len(table[c])
    /\ cleanup_index[c] # 0 => Kind(c) \in {"tuple", "fanout"}
    /\ \A i \in 1 .. cleanup_index[c] : table[c][i] = Args(c)[i]

\* Slots, cells and the log of releases are apart.
NativeApart ==
  /\ freed \in Seq(Nodes) /\ IsInjective(freed)
  /\ \A n \in Nodes : /\ n \in slots => ~InCell(n) /\ n \notin ToSet(freed)
                      /\ InCell(n) => n \notin ToSet(freed)

\* A tuple's table is there whole or not at all; a result table has a cell for
\* every branch, and visits those of the branches made so far.
CellsAt(b, l) ==
  \A c \in Nodes :
    /\ Kind(c) = "tuple" =>
         cleanup_index[c] = IF MadeAt(c, b, l) THEN Len(Args(c)) ELSE 0
    /\ Kind(c) = "fanout" =>
         /\ \A i \in DOMAIN Args(c) :
              i <= cleanup_index[c] <=> PassedAt(Args(c)[i], b, l)
         /\ MadeAt(c, b, l) => Len(table[c]) = Len(Args(c))

\* At line l of block b: the slots hold what is made and not yet taken, and
\* what is made is owned.
Running(b, l) ==
  /\ \A n \in Nodes : n \in slots <=> MadeAt(n, b, l) /\ ~RemovedAt(n, b, l)
  /\ \A n \in Nodes : Kept(n) <=> MadeAt(n, b, l)
  /\ CellsAt(b, l)

EmittedInv ==
  /\ Accepted
  /\ EmittedTypeOK
  /\ Len(code) \in 0 .. Len(program.kind)
  /\ code = [b \in 1 .. Len(code) |-> Block(b)]
  /\ emit_uses = [n \in Nodes |-> UsesLeft(n, Len(code) + 1)]
  /\ CellsHold
  /\ NativeApart
  /\ IF block \in Nodes THEN line \in DOMAIN Block(block) ELSE line = 1
  /\ native \in {"emitting", "refused"} => block = 1 /\ line = 1
  /\ native \in {"executing", "ok", "failed"} => Len(code) = Len(program.kind)
  /\ native \in {"emitting", "refused", "executing"} => Running(block, line)
  /\ native \in {"ok", "failed"} =>
       slots = {} /\ \A n \in Nodes : n < block => Kept(n)

\* What the cardinalities decide depends on the program only.
LEMMA SameCardinalities ==
  ASSUME UNCHANGED <<program, fault>>
  PROVE  /\ \A n : Spreads(n)' <=> Spreads(n)
         /\ \A n : RuntimeShapeCheck(n)' <=> RuntimeShapeCheck(n)
         /\ \A n : DynamicArgs(n)' = DynamicArgs(n)
         /\ \A n : Misled(n)' <=> Misled(n)
         /\ \A n : Unchecked(n)' <=> Unchecked(n)
         /\ \A n : Mistyped(n)' <=> Mistyped(n)
         /\ \A f : IllFormed(f)' <=> IllFormed(f)
         /\ \A f, i : Overfills(f, i)' <=> Overfills(f, i)
<1>1. \A n : Kind(n)' = Kind(n) /\ Args(n)' = Args(n) /\ OwnerOf(n)' = OwnerOf(n)
  BY DEF Kind, Args, OwnerOf, Operand
<1>2. Extent' = Extent
  BY DEF Extent, SemanticArgs, Spreads, Provisional, Kind, Args, OwnerOf, Nodes, NodesOf,
         Operand, ToSet
<1>3. IsVector' = IsVector
  BY DEF IsVector, SemanticArgs, Spreads, Kind, Args, OwnerOf, Nodes, NodesOf, Operand,
         ToSet
<1>4. \A n : (Spreads(n)' <=> Spreads(n)) /\ SemanticArgs(n)' = SemanticArgs(n)
  BY <1>1 DEF Spreads, SemanticArgs
<1>5. \A n : RuntimeShapeCheck(n)' <=> RuntimeShapeCheck(n)
  BY <1>1, <1>2, <1>4 DEF RuntimeShapeCheck
<1>6. \A n : DynamicArgs(n)' = DynamicArgs(n)
  BY <1>1, <1>2 DEF DynamicArgs
<1>7. \A n : Misled(n)' <=> Misled(n)
  BY <1>1, <1>4, <1>5, <1>6 DEF Misled
<1>8. \A n : Unchecked(n)' <=> Unchecked(n)
  BY <1>1, <1>2, <1>3, <1>4, <1>5 DEF Unchecked
<1>9. \A n : Mistyped(n)' <=> Mistyped(n)
  BY <1>3, <1>4 DEF Mistyped
<1>10. /\ \A f : IllFormed(f)' <=> IllFormed(f)
       /\ \A f, i : Overfills(f, i)' <=> Overfills(f, i)
  BY <1>1, <1>2, <1>3 DEF IllFormed, Overfills
<1> QED BY <1>4, <1>5, <1>6, <1>7, <1>8, <1>9, <1>10

LEMMA SameEmitted ==
  ASSUME UNCHANGED <<program, fault>>
  PROVE  /\ Accepted => Accepted'
         /\ Nodes' = Nodes /\ Fanouts' = Fanouts
         /\ \A n : /\ Kind(n)' = Kind(n) /\ Args(n)' = Args(n) /\ Operand(n)' = Operand(n)
                   /\ Block(n)' = Block(n) /\ First(n)' = First(n)
         /\ \A n, k : UsesLeft(n, k)' = UsesLeft(n, k)
         /\ \A n, b, l : /\ MadeAt(n, b, l)' <=> MadeAt(n, b, l)
                         /\ RemovedAt(n, b, l)' <=> RemovedAt(n, b, l)
                         /\ PassedAt(n, b, l)' <=> PassedAt(n, b, l)
<1>1. /\ Accepted => Accepted'
      /\ Nodes' = Nodes /\ Fanouts' = Fanouts
      /\ \A n : Kind(n)' = Kind(n) /\ Args(n)' = Args(n) /\ Operand(n)' = Operand(n)
      /\ \A n, k : UsesLeft(n, k)' = UsesLeft(n, k)
  BY SameProgram
<1>2. /\ \A n : BranchPositions(n)' = BranchPositions(n) /\ UseCount(n)' = UseCount(n)
      /\ \A n : AdmittedBefore(n)' = AdmittedBefore(n) /\ OwnerOf(n)' = OwnerOf(n)
      /\ \A n : RetainedRoot(n)' <=> RetainedRoot(n)
  BY DEF BranchPositions, UseCount, AdmittedBefore, OwnerOf, RetainedRoot, OwnedPositions,
         Nodes, Fanouts, Kind, Operand, Args
<1>3. \A n : UsesInCode(n)' = UsesInCode(n)
  BY <1>1 DEF UsesInCode, UsesEmitted, UsesAfter
<1>4. \A uses, args : FinalUses(uses, args)' = FinalUses(uses, args)
  BY <1>2 DEF FinalUses
<1>8. /\ \A n : Spreads(n)' <=> Spreads(n)
      /\ \A n : RuntimeShapeCheck(n)' <=> RuntimeShapeCheck(n)
      /\ \A n : DynamicArgs(n)' = DynamicArgs(n)
  BY SameCardinalities
<1>9. \A n, final : ShapeCheck(n, final)' = ShapeCheck(n, final)
  BY <1>1, <1>2, <1>8 DEF ShapeCheck, OwnersRead
<1>5. \A n, uses : NodeCode(n, uses)' = NodeCode(n, uses)
  BY <1>1, <1>2, <1>4, <1>9 DEF NodeCode, CallCode, OwnersRead
<1>10. \A n : First(n)' = First(n)
  <2>1. \A n : Ended(n)' = Ended(n)
    BY <1>1, <1>3, <1>4 DEF Ended
  <2> QED BY <1>1, <1>9, <2>1 DEF First, Checks
<1>6. \A n : /\ TransferCode(n)' = TransferCode(n) /\ UnusedCode(n)' = UnusedCode(n)
             /\ AdmissionCode(n)' = AdmissionCode(n)
  <2>1. \A n : TransferCode(n)' = TransferCode(n)
    BY DEF TransferCode, BranchPositions, OwnedPositions, Kind
  <2>2. \A n : UnusedCode(n)' = UnusedCode(n)
    BY <1>2 DEF UnusedCode
  <2>3. \A n : AdmissionCode(n)' = AdmissionCode(n)
    BY DEF AdmissionCode, AdmittedBefore, Fanouts, Nodes, Kind, Operand
  <2> QED BY <2>1, <2>2, <2>3
<1>7. \A n : Block(n)' = Block(n)
  BY <1>3, <1>5, <1>6 DEF Block
<1> QED BY <1>1, <1>7, <1>10 DEF MadeAt, RemovedAt, PassedAt

\* A block whose value has no use left when it is made has a line after the
\* one that makes it.
LEMMA UnusedHasLine ==
  ASSUME Accepted, NEW n \in Nodes, UsesLeft(n, n + 1) = 0
  PROVE  Len(Block(n)) > First(n)
<1>1. Closing(n) # <<>>
  <2>1. \A x : <<x>> # <<>>
    OBVIOUS
  <2>2. CASE BranchPositions(n) # {}
    <3>1. PICK e \in BranchPositions(n) : TRUE
      BY <2>2
    <3>2. Closing(n) = <<Instruction("transfer", e[1], <<n>>, <<>>)>>
      BY ClosingFacts
    <3> QED BY <2>1, <3>2
  <2>3. CASE BranchPositions(n) = {}
    <3>1. UseCount(n) = 0
      BY <2>3, UsesAfterMade
    <3>2. Closing(n) = <<Instruction("release", n, <<>>, <<>>)>>
      BY <3>1, ClosingFacts
    <3> QED BY <2>1, <3>2
  <2> QED BY <2>2, <2>3
<1>2. /\ Len(Block(n)) = Len(Leading(n)) + Len(Ended(n)) + 1
      /\ Len(Leading(n)) = IF Kind(n) = "fanout" THEN 0 ELSE First(n)
      /\ Len(Ended(n)) \in Nat /\ First(n) \in {1, 2}
      /\ First(n) = 2 => Kind(n) = "call"
  BY <1>1, BlockLines, EndedFacts, ChecksFacts
<1>3. Kind(n) = "fanout" => Len(Ended(n)) = 1 /\ First(n) = 1
  BY <1>2 DEF Ended
<1> QED BY <1>2, <1>3

\* A check of lengths takes nothing out of its slot.
LEMMA ChecksTakeNothing ==
  ASSUME Accepted, NEW n \in Nodes, NEW m, NEW i \in 1 .. First(n) - 1
  PROVE  i = 1 /\ First(n) = 2 /\ ~Removes(Block(n)[i], m)
<1>1. First(n) = 2 /\ i = 1
  BY ChecksFacts
<1>2. Block(n)[i].op = "require"
  BY <1>1, BlockLines, ChecksFacts
<1> QED BY <1>1, <1>2 DEF Removes

\* What line l of block b makes.
MakesAt(b, l, n) ==
  \/ n = b /\ Kind(n) # "fanout" /\ l = First(n)
  \/ n \in Fanouts /\ Operand(n) = b /\ l = Len(Block(b))

LEMMA AtStart ==
  ASSUME Accepted, NEW n \in Nodes
  PROVE  ~MadeAt(n, 1, 1) /\ ~RemovedAt(n, 1, 1) /\ ~PassedAt(n, 1, 1)
<1>1. n \in Int /\ ~ n < 1 /\ ~ 1 > 1
  BY Arenas
<1>2. ASSUME 1 \in Nodes
      PROVE  ~ 1 > Len(Block(1))
  <2>1. Len(Block(1)) \in Nat /\ Len(Block(1)) >= 1
    BY <1>2, BlockLines
  <2> QED BY <2>1
<1>3. Kind(n) = "fanout" => Operand(n) \in Nodes /\ ~ Operand(n) < 1
  <2>1. Kind(n) = "fanout" => Operand(n) \in Nodes
    BY FanoutFacts DEF Fanouts
  <2>2. \A m \in Nodes : ~ m < 1
    BY Arenas
  <2> QED BY <2>1, <2>2
<1>4. 1 .. 1 - 1 = {}
  OBVIOUS
<1>8. ~ 1 > First(n)
  <2>1. First(n) \in {1, 2}
    BY ChecksFacts
  <2> QED BY <2>1
<1>5. ~MadeAt(n, 1, 1)
  BY <1>1, <1>2, <1>3, <1>8 DEF MadeAt
<1>6. ~RemovedAt(n, 1, 1)
  BY <1>1, <1>4 DEF RemovedAt
<1>7. ~PassedAt(n, 1, 1)
  BY <1>1, <1>2 DEF PassedAt
<1> QED BY <1>5, <1>6, <1>7

\* The end of a block is the start of the next.
LEMMA NextBlock ==
  ASSUME Accepted, NEW b \in Nodes, NEW n \in Nodes
  PROVE  /\ MadeAt(n, b + 1, 1) <=> MadeAt(n, b, Len(Block(b)) + 1)
         /\ RemovedAt(n, b + 1, 1) <=> RemovedAt(n, b, Len(Block(b)) + 1)
         /\ PassedAt(n, b + 1, 1) <=> PassedAt(n, b, Len(Block(b)) + 1)
<1> DEFINE l == Len(Block(b)) + 1
<1>1. /\ Nodes \subseteq Int /\ b \in Int /\ n \in Int
      /\ Len(Block(b)) \in Nat /\ Len(Block(b)) >= 1
      /\ DOMAIN Block(b) = 1 .. Len(Block(b))
  BY NodesAreNumbers, BlockLines
<1>2. l > Len(Block(b)) /\ l > 1 /\ ~ 1 > 1 /\ 1 .. 1 - 1 = {} /\ 1 .. l - 1 = DOMAIN Block(b)
  BY <1>1
<1>9. /\ Kind(b) # "fanout" => l > First(b)
      /\ ~ 1 > First(n)
  <2>1. First(n) \in {1, 2} /\ (Kind(b) # "fanout" => First(b) \in DOMAIN Block(b))
    BY ChecksFacts, BlockLines
  <2> QED BY <1>1, <2>1
<1>3. \A m \in Nodes : m < b + 1 <=> m < b \/ m = b
  BY <1>1
<1>4. \A m \in Nodes : ~ 1 > Len(Block(m))
  <2>1. \A m \in Nodes : Len(Block(m)) \in Nat /\ Len(Block(m)) >= 1
    BY BlockLines
  <2> QED BY <2>1
<1>5. Kind(n) = "fanout" => Operand(n) \in Nodes
  BY FanoutFacts DEF Fanouts
<1> HIDE DEF l
<1>6. MadeAt(n, b + 1, 1) <=> MadeAt(n, b, l)
  <2>1. CASE Kind(n) = "fanout"
    BY <1>2, <1>3, <1>4, <1>5, <2>1 DEF MadeAt
  <2>2. CASE Kind(n) # "fanout"
    BY <1>2, <1>3, <1>9, <2>2 DEF MadeAt
  <2> QED BY <2>1, <2>2
<1>7. RemovedAt(n, b + 1, 1) <=> RemovedAt(n, b, l)
  <2>1. RemovedAt(n, b + 1, 1) <=> n < b + 1 /\ UsesLeft(n, b + 1) = 0
    BY <1>2 DEF RemovedAt
  <2>2. RemovedAt(n, b, l) <=> \/ n < b /\ UsesLeft(n, b) = 0
                               \/ \E i \in DOMAIN Block(b) : Removes(Block(b)[i], n)
    BY <1>2 DEF RemovedAt
  <2>3. n < b /\ UsesLeft(n, b) = 0 => UsesLeft(n, b + 1) = 0
    <3>1. n < b => n # b
      BY <1>1
    <3> QED BY <3>1, UsesShrink
  <2> QED BY <1>3, <2>1, <2>2, <2>3, Removals
<1>8. PassedAt(n, b + 1, 1) <=> PassedAt(n, b, l)
  BY <1>2, <1>3, <1>4 DEF PassedAt
<1> QED BY <1>6, <1>7, <1>8 DEF l

\* One line further.
LEMMA NextLine ==
  ASSUME Accepted, NEW b \in Nodes, NEW l \in DOMAIN Block(b), NEW n \in Nodes
  PROVE  /\ MadeAt(n, b, l + 1) <=> MadeAt(n, b, l) \/ MakesAt(b, l, n)
         /\ MakesAt(b, l, n) => ~MadeAt(n, b, l)
         /\ RemovedAt(n, b, l + 1) <=> RemovedAt(n, b, l) \/ Removes(Block(b)[l], n)
         /\ Removes(Block(b)[l], n) => MadeAt(n, b, l) /\ ~RemovedAt(n, b, l)
         /\ PassedAt(n, b, l + 1) <=> PassedAt(n, b, l) \/ (n = b /\ l = Len(Block(b)))
         /\ RemovedAt(n, b, l) => MadeAt(n, b, l)
<1>1. /\ Nodes \subseteq Int /\ b \in Int /\ n \in Int
      /\ Len(Block(b)) \in Nat /\ DOMAIN Block(b) = 1 .. Len(Block(b))
  BY NodesAreNumbers, BlockLines
<1>2. /\ l + 1 > Len(Block(b)) <=> l = Len(Block(b))
      /\ ~ l > Len(Block(b))
      /\ \A i \in 1 .. (l + 1) - 1 : i \in 1 .. l - 1 \/ i = l
      /\ \A i \in 1 .. l - 1 : i \in DOMAIN Block(b) /\ i # l /\ i \in 1 .. (l + 1) - 1
      /\ l \in 1 .. (l + 1) - 1
  BY <1>1
<1>12. /\ First(b) \in {1, 2}
       /\ l + 1 > First(b) <=> l > First(b) \/ l = First(b)
       /\ ~ First(b) > First(b)
  <2>1. First(b) \in {1, 2} /\ l \in Int
    BY <1>1, ChecksFacts
  <2> QED BY <2>1
<1>3. \A m \in Nodes : m < b => m # b
  BY <1>1
<1>4. Kind(n) = "fanout" => n \in Fanouts /\ Operand(n) \in Nodes /\ Operand(n) < n
  BY FanoutFacts DEF Fanouts
<1>5. Kind(n) = "fanout" /\ (n < b \/ n = b) => Operand(n) < b
  <2>1. \A x, y, z \in Int : x < y /\ (y < z \/ y = z) => x < z
    OBVIOUS
  <2>2. Kind(n) = "fanout" => Operand(n) \in Int
    BY <1>1, <1>4
  <2> QED BY <1>1, <1>4, <2>1, <2>2
<1>6. /\ MadeAt(n, b, l + 1) <=> MadeAt(n, b, l) \/ MakesAt(b, l, n)
      /\ MakesAt(b, l, n) => ~MadeAt(n, b, l)
  <2>1. CASE Kind(n) = "fanout"
    BY <1>2, <1>3, <1>4, <2>1 DEF MadeAt, MakesAt
  <2>2. CASE Kind(n) # "fanout"
    BY <1>3, <1>12, <2>2 DEF MadeAt, MakesAt, Fanouts
  <2> QED BY <2>1, <2>2
<1>7. RemovedAt(n, b, l + 1) <=> RemovedAt(n, b, l) \/ Removes(Block(b)[l], n)
  BY <1>2 DEF RemovedAt
<1>8. n < b => MadeAt(n, b, l)
  BY <1>5 DEF MadeAt
<1>9. ASSUME Removes(Block(b)[l], n)
      PROVE  MadeAt(n, b, l) /\ ~RemovedAt(n, b, l)
  <2>1. /\ UsesLeft(n, b + 1) = 0
        /\ n = b \/ (n < b /\ UsesLeft(n, b) # 0)
    BY <1>9, Removals
  <2>2. \A i \in 1 .. l - 1 : ~Removes(Block(b)[i], n)
    BY <1>2, <1>9, Removals
  <2>3. ~RemovedAt(n, b, l)
    BY <1>3, <2>1, <2>2 DEF RemovedAt
  <2>4. n = b => MadeAt(n, b, l)
    <3>1. SUFFICES ASSUME n = b
                   PROVE  MadeAt(n, b, l)
      OBVIOUS
    <3>2. l = Len(Block(b)) /\ Len(Block(b)) > First(b)
      <4>1. ~ n < b
        BY <1>1, <3>1
      <4> QED BY <1>9, <2>1, <3>1, <4>1, RemovingLine, UnusedHasLine
    <3> QED BY <1>5, <3>1, <3>2 DEF MadeAt
  <2> QED BY <1>8, <2>1, <2>3, <2>4
<1>10. PassedAt(n, b, l + 1) <=> PassedAt(n, b, l) \/ (n = b /\ l = Len(Block(b)))
  BY <1>2 DEF PassedAt
<1>11. ASSUME RemovedAt(n, b, l)
       PROVE  MadeAt(n, b, l)
  <2>1. CASE n < b
    BY <1>8, <2>1
  <2>2. ASSUME NEW i \in 1 .. l - 1, Removes(Block(b)[i], n), ~ n < b
        PROVE  MadeAt(n, b, l)
    <3>1. n = b
      BY <1>2, <2>2, Removals
    <3>2. l > First(b)
      <4>1. ~(i \in 1 .. First(b) - 1)
        BY <2>2, ChecksTakeNothing
      <4> QED BY <1>1, <1>12, <2>2, <4>1
    <3> QED BY <1>5, <3>1, <3>2 DEF MadeAt
  <2> QED BY <1>11, <2>1, <2>2 DEF RemovedAt
<1> QED BY <1>6, <1>7, <1>9, <1>10, <1>11

\* What the line of each operation makes and takes.
LEMMA LineByOp ==
  ASSUME Accepted, NEW b \in Nodes, NEW l \in DOMAIN Block(b)
  PROVE  /\ Block(b)[l].op \in {"store", "literal", "apply", "tuple"} =>
              /\ l = First(b) /\ Block(b)[l].node = b /\ Kind(b) # "fanout"
              /\ (Block(b)[l].op = "tuple" <=> Kind(b) = "tuple")
              /\ \A n \in Nodes : MakesAt(b, l, n) <=> n = b
              /\ \A n \in Nodes : Removes(Block(b)[l], n) <=>
                                    Kind(b) = "tuple" /\ n \in ToSet(Args(b))
         /\ Block(b)[l].op = "tuple" => Block(b)[l].from = Args(b)
         /\ Block(b)[l].op = "require" =>
              /\ l = 1 /\ First(b) = 2 /\ l # Len(Block(b))
              /\ Block(b)[l].node = b /\ Kind(b) = "call"
              /\ Block(b)[l].releases = Ended(b)
              /\ \A n \in Nodes : ~Removes(Block(b)[l], n)
              /\ \A n \in Nodes : ~MakesAt(b, l, n)
         /\ Block(b)[l].op = "apply" => Kind(b) = "call" /\ Block(b)[l].releases = Ended(b)
         /\ Block(b)[l].op = "fanout" =>
              /\ Block(b)[l].node \in Fanouts /\ Operand(Block(b)[l].node) = b
              /\ \A n \in Nodes : MakesAt(b, l, n) <=> n = Block(b)[l].node
              /\ \A n \in Nodes : ~Removes(Block(b)[l], n)
         /\ Block(b)[l].op = "transfer" =>
              /\ Block(b)[l].from = <<b>> /\ l = Len(Block(b))
              /\ \E e \in BranchPositions(b) : e[1] = Block(b)[l].node
              /\ \A n \in Nodes : Removes(Block(b)[l], n) <=> n = b
              /\ \A n \in Nodes : ~MakesAt(b, l, n)
         /\ Block(b)[l].op = "release" =>
              /\ Block(b)[l].node \in Nodes
              /\ \A n \in Nodes : Removes(Block(b)[l], n) <=> n = Block(b)[l].node
              /\ \A n \in Nodes : ~MakesAt(b, l, n)
         /\ Block(b)[l].op # "transfer" /\ l = Len(Block(b)) => BranchPositions(b) = {}
         /\ Block(b)[l].releases \in Seq(Nodes) /\ IsInjective(Block(b)[l].releases)
<1> DEFINE I == Block(b)[l]
<1>1. /\ Len(Block(b)) \in Nat /\ DOMAIN Block(b) = 1 .. Len(Block(b))
      /\ l \in Int
      /\ Ended(b) \in Seq(Nodes) /\ IsInjective(Ended(b))
      /\ \A j \in DOMAIN Ended(b) : Ended(b)[j] \in Nodes /\ j \in Nat /\ j >= 1
  BY BlockLines, EndedFacts, ElementOfSeq
<1>2. <<>> \in Seq(Nodes) /\ IsInjective(<<>>)
  BY EmptyLog
<1>3. l = Len(Block(b)) =>
        /\ \A e \in BranchPositions(b) : I.op = "transfer"
        /\ \A f \in Fanouts : Operand(f) = b => I.op = "fanout" /\ I.node = f
  <2>1. ASSUME l = Len(Block(b)), NEW e \in BranchPositions(b)
        PROVE  I.op = "transfer"
    <3>1. I = Instruction("transfer", e[1], <<b>>, <<>>)
      BY <2>1, LastLine
    <3> QED BY <3>1, InstructionFields
  <2>2. ASSUME l = Len(Block(b)), NEW f \in Fanouts, Operand(f) = b
        PROVE  I.op = "fanout" /\ I.node = f
    <3>1. I = Instruction("fanout", f, <<>>, <<>>)
      BY <2>2, LastLine
    <3> QED BY <3>1, InstructionFields
  <2> HIDE DEF I
  <2> QED BY <2>1, <2>2
<1>4. l = First(b) /\ Kind(b) # "fanout" => I.op \in {"store", "literal", "apply", "tuple"}
  <2>1. LeadingOp(b) \in {"store", "literal", "apply", "tuple"}
    BY DEF LeadingOp
  <2> QED BY <2>1, BlockLines, InstructionFields
<1>5. /\ \A n \in Nodes : MakesAt(b, l, n) =>
           \/ I.op \in {"store", "literal", "apply", "tuple"} /\ n = b
           \/ I.op = "fanout" /\ n = I.node
  BY <1>3, <1>4 DEF MakesAt
<1>6. CASE l = First(b) /\ Kind(b) # "fanout"
           /\ I = Instruction(LeadingOp(b), b, LeadingFrom(b), Ended(b))
  <2>1. /\ I.op = LeadingOp(b) /\ I.node = b /\ I.from = LeadingFrom(b)
        /\ I.releases = Ended(b)
    BY <1>6, InstructionFields
  <2>2. /\ LeadingOp(b) \in {"store", "literal", "apply", "tuple"}
        /\ LeadingOp(b) = "tuple" <=> Kind(b) = "tuple"
        /\ Kind(b) = "tuple" => LeadingFrom(b) = Args(b)
        /\ LeadingOp(b) = "apply" => Kind(b) = "call"
    BY <1>6, Arenas DEF LeadingOp, LeadingFrom, NodeKinds
  <2>3. \A n \in Nodes : MakesAt(b, l, n) <=> n = b
    BY <1>5, <1>6, <2>1, <2>2 DEF MakesAt
  <2>4. \A n \in Nodes : Removes(I, n) <=> Kind(b) = "tuple" /\ n \in ToSet(Args(b))
    BY <2>1, <2>2 DEF Removes
  <2>5. l = Len(Block(b)) => BranchPositions(b) = {}
    BY <1>3, <2>1, <2>2
  <2> HIDE DEF I
  <2>6. /\ I.op \in {"store", "literal", "apply", "tuple"}
        /\ I.op = "tuple" => I.from = Args(b)
        /\ I.op = "apply" => Kind(b) = "call" /\ I.releases = Ended(b)
    BY <2>1, <2>2
  <2> QED BY <1>1, <1>6, <2>1, <2>2, <2>3, <2>4, <2>5, <2>6 DEF I
<1>17. CASE l = 1 /\ First(b) = 2 /\ I = Checks(b)[1]
  <2>1. /\ I.op = "require" /\ I.node = b /\ I.releases = Ended(b) /\ Kind(b) = "call"
    BY <1>17, ChecksFacts
  <2>2. \A n \in Nodes : ~Removes(I, n) /\ ~MakesAt(b, l, n)
    BY <1>5, <2>1 DEF Removes
  <2>3. l # Len(Block(b))
    <3>1. First(b) \in DOMAIN Block(b)
      BY <2>1, BlockLines
    <3> QED BY <1>1, <1>17, <3>1
  <2> HIDE DEF I
  <2> QED BY <1>1, <1>17, <2>1, <2>2, <2>3 DEF I
<1>7. ASSUME NEW m \in Nodes, I = Release(m)
      PROVE  /\ I.op = "release" /\ I.node = m /\ I.releases = <<>>
             /\ \A n \in Nodes : Removes(I, n) <=> n = m
             /\ \A n \in Nodes : ~MakesAt(b, l, n)
             /\ l = Len(Block(b)) => BranchPositions(b) = {}
  <2>1. I.op = "release" /\ I.node = m /\ I.releases = <<>>
    BY <1>7, InstructionFields DEF Release
  <2> QED BY <1>3, <1>5, <2>1 DEF Removes
<1>8. ASSUME NEW j \in DOMAIN Ended(b), I = Release(Ended(b)[j])
      PROVE  /\ I.op = "release" /\ I.node \in Nodes /\ I.releases = <<>>
             /\ \A n \in Nodes : Removes(I, n) <=> n = I.node
             /\ \A n \in Nodes : ~MakesAt(b, l, n)
             /\ l = Len(Block(b)) => BranchPositions(b) = {}
  <2>1. PICK m \in Nodes : m = Ended(b)[j]
    BY <1>1
  <2>2. I = Release(m)
    BY <1>8, <2>1
  <2> HIDE DEF I
  <2> QED BY <1>7, <2>2
<1>9. ASSUME l = Len(Block(b)), NEW e \in BranchPositions(b),
             I = Instruction("transfer", e[1], <<b>>, <<>>)
      PROVE  /\ I.op = "transfer" /\ I.node = e[1] /\ I.from = <<b>> /\ I.releases = <<>>
             /\ \A n \in Nodes : Removes(I, n) <=> n = b
             /\ \A n \in Nodes : ~MakesAt(b, l, n)
  <2>1. I.op = "transfer" /\ I.node = e[1] /\ I.from = <<b>> /\ I.releases = <<>>
    BY <1>9, InstructionFields
  <2>2. ToSet(<<b>>) = {b}
    BY Singletons
  <2> QED BY <1>5, <2>1, <2>2 DEF Removes
<1>10. ASSUME l = Len(Block(b)), NEW f \in Fanouts, Operand(f) = b,
              I = Instruction("fanout", f, <<>>, <<>>)
       PROVE  /\ I.op = "fanout" /\ I.node = f /\ I.releases = <<>>
              /\ \A n \in Nodes : MakesAt(b, l, n) <=> n = f
              /\ \A n \in Nodes : ~Removes(I, n)
              /\ BranchPositions(b) = {}
  <2>1. I.op = "fanout" /\ I.node = f /\ I.releases = <<>>
    BY <1>10, InstructionFields
  <2>2. MakesAt(b, l, f)
    BY <1>10 DEF MakesAt
  <2>3. \A n \in Nodes : MakesAt(b, l, n) <=> n = f
    BY <1>5, <2>1, <2>2
  <2> QED BY <1>3, <1>10, <2>1, <2>3 DEF Removes
<1> HIDE DEF I
<1>11. ASSUME l = Len(Block(b)), NEW e \in BranchPositions(b),
              I = Instruction("transfer", e[1], <<b>>, <<>>)
       PROVE  /\ I.op = "transfer" /\ I.from = <<b>> /\ I.releases = <<>>
              /\ \E d \in BranchPositions(b) : d[1] = I.node
              /\ \A n \in Nodes : Removes(I, n) <=> n = b
              /\ \A n \in Nodes : ~MakesAt(b, l, n)
  BY <1>9, <1>11
<1>12. \/ /\ l = First(b) /\ Kind(b) # "fanout"
          /\ I = Instruction(LeadingOp(b), b, LeadingFrom(b), Ended(b))
       \/ l = 1 /\ First(b) = 2 /\ I = Checks(b)[1]
       \/ \E j \in DOMAIN Ended(b) : I = Release(Ended(b)[j])
       \/ /\ l = Len(Block(b))
          /\ \/ \E e \in BranchPositions(b) :
                  I = Instruction("transfer", e[1], <<b>>, <<>>)
             \/ I = Release(b)
             \/ \E f \in Fanouts :
                  Operand(f) = b /\ I = Instruction("fanout", f, <<>>, <<>>)
  BY Lines DEF I
<1>13. CASE /\ I.op = "release" /\ I.node \in Nodes /\ I.releases = <<>>
            /\ (\A n \in Nodes : Removes(I, n) <=> n = I.node)
            /\ (\A n \in Nodes : ~MakesAt(b, l, n))
            /\ (l = Len(Block(b)) => BranchPositions(b) = {})
  BY <1>2, <1>13 DEF I
<1>14. CASE l = Len(Block(b)) /\ \E e \in BranchPositions(b) :
              I = Instruction("transfer", e[1], <<b>>, <<>>)
  BY <1>2, <1>11, <1>14 DEF I
<1>15. CASE l = Len(Block(b)) /\ \E f \in Fanouts :
              Operand(f) = b /\ I = Instruction("fanout", f, <<>>, <<>>)
  BY <1>2, <1>10, <1>15 DEF I
<1>16. CASE \E m \in Nodes : I = Release(m)
  BY <1>7, <1>13, <1>16
<1>18. \/ /\ l = First(b) /\ Kind(b) # "fanout"
          /\ I = Instruction(LeadingOp(b), b, LeadingFrom(b), Ended(b))
       \/ l = 1 /\ First(b) = 2 /\ I = Checks(b)[1]
       \/ \E m \in Nodes : I = Release(m)
       \/ l = Len(Block(b)) /\ \E e \in BranchPositions(b) :
            I = Instruction("transfer", e[1], <<b>>, <<>>)
       \/ l = Len(Block(b)) /\ \E f \in Fanouts :
            Operand(f) = b /\ I = Instruction("fanout", f, <<>>, <<>>)
  <2>1. \A j \in DOMAIN Ended(b) : Ended(b)[j] \in Nodes
    BY <1>1
  <2> QED BY ONLY <1>12, <2>1, b \in Nodes
<1> QED BY ONLY <1>6, <1>14, <1>15, <1>16, <1>17, <1>18

\* Every value an instruction reads or moves has been made and not taken out of
\* its slot.
LEMMA ReadsFound ==
  ASSUME Accepted, NEW b \in Nodes, NEW l \in DOMAIN Block(b),
         NEW m \in ToSet(Block(b)[l].from)
  PROVE  m \in Nodes /\ MadeAt(m, b, l) /\ ~RemovedAt(m, b, l)
<1> DEFINE I == Block(b)[l]
<1>1. /\ Nodes \subseteq Int /\ 1 .. 1 - 1 = {}
      /\ \A x, y, z \in Int : x < y /\ y < z => x < z
  BY NodesAreNumbers
<1>2. ASSUME l = First(b) \/ (l = 1 /\ First(b) = 2),
             m \in Nodes, m < b, UsesLeft(m, b) # 0
      PROVE  MadeAt(m, b, l) /\ ~RemovedAt(m, b, l)
  <2>1. ~RemovedAt(m, b, l)
    <3>1. First(b) \in {1, 2}
      BY ChecksFacts
    <3>2. \A i \in 1 .. l - 1 : i \in 1 .. First(b) - 1
      BY <1>2, <3>1
    <3> QED BY <1>2, <3>2, ChecksTakeNothing DEF RemovedAt
  <2>2. CASE Kind(m) = "fanout"
    <3>1. Operand(m) \in Nodes /\ Operand(m) < m
      BY <1>2, <2>2, FanoutFacts DEF Fanouts
    <3>2. Operand(m) < b
      BY <1>1, <1>2, <3>1
    <3> QED BY <2>1, <2>2, <3>2 DEF MadeAt
  <2>3. CASE Kind(m) # "fanout"
    BY <1>2, <2>1, <2>3 DEF MadeAt
  <2> QED BY <2>2, <2>3
<1>3. ToSet(<<>>) = {}
  BY EmptyLog
<1>8. ASSUME Kind(b) = "call", NEW a \in ToSet(Args(b)), m \in {a, OwnerOf(a)}
      PROVE  m \in Nodes /\ m < b /\ UsesLeft(m, b) # 0
  <2>1. PICK i \in DOMAIN Args(b) : a = Args(b)[i]
    BY <1>8 DEF ToSet
  <2>2. /\ Args(b)[i] \in Nodes /\ Args(b)[i] < b
        /\ UsesLeft(Args(b)[i], b) >= Occurrences(Args(b), Args(b)[i])
        /\ Occurrences(Args(b), Args(b)[i]) > 0
        /\ Kind(Args(b)[i]) = "placeholder" =>
             /\ Operand(Args(b)[i]) \in Nodes /\ Operand(Args(b)[i]) < b
             /\ UsesLeft(Operand(Args(b)[i]), b) # 0
    BY <1>8, UsesFound
  <2>3. UsesLeft(Args(b)[i], b) # 0
    <3>1. Occurrences(Args(b), Args(b)[i]) \in Int /\ UsesLeft(Args(b)[i], b) \in Int
      <4>1. \A x \in Nodes : Occurrences(Args(b), x) \in Nat
        BY PositionsOfNode
      <4>2. \A x \in Nodes : UsesLeft(x, b) \in Nat
        BY <1>1, CountsAreNumbers
      <4> QED BY <2>2, <4>1, <4>2
    <3>2. \A x, y \in Int : x >= y /\ y > 0 => x # 0
      OBVIOUS
    <3> QED BY <2>2, <3>1, <3>2
  <2> QED BY <1>8, <2>1, <2>2, <2>3 DEF OwnerOf
<1>9. ToSet(OwnersRead(b)) \subseteq {OwnerOf(a) : a \in ToSet(Args(b))}
  BY DEF OwnersRead, ToSet
<1>10. CASE l = 1 /\ First(b) = 2 /\ I = Checks(b)[1]
  <2>1. Kind(b) = "call"
    BY <1>10, ChecksFacts
  <2>2. \/ m \in ToSet(OwnersRead(b))
        \/ m \in DynamicArgs(b)
    BY <1>10, ChecksFacts
  <2>3. \E a \in ToSet(Args(b)) : m \in {a, OwnerOf(a)}
    BY <1>9, <2>2 DEF DynamicArgs
  <2> HIDE DEF I
  <2> QED BY <1>2, <1>8, <1>10, <2>1, <2>3
<1>4. CASE /\ l = First(b) /\ Kind(b) # "fanout"
           /\ I = Instruction(LeadingOp(b), b, LeadingFrom(b), Ended(b))
  <2>1. m \in ToSet(LeadingFrom(b))
    BY <1>4, InstructionFields
  <2>2. CASE Kind(b) = "tuple"
    <3>1. m \in ToSet(Args(b))
      BY <2>1, <2>2 DEF LeadingFrom
    <3>2. m \in Nodes
      BY <3>1, Arenas DEF ToSet
    <3> QED BY <1>2, <1>4, <2>2, <3>1, <3>2, TupleTakes
  <2>3. CASE Kind(b) = "call"
    <3>1. m \in ToSet(OwnersRead(b))
      BY <2>1, <2>3 DEF LeadingFrom
    <3>2. \E a \in ToSet(Args(b)) : m \in {a, OwnerOf(a)}
      BY <1>9, <3>1
    <3> QED BY <1>2, <1>4, <1>8, <2>3, <3>2
  <2>4. CASE Kind(b) \notin {"tuple", "call"}
    BY <1>3, <2>1, <2>4 DEF LeadingFrom
  <2> QED BY <2>2, <2>3, <2>4
<1>5. ASSUME NEW e \in BranchPositions(b), I = Instruction("transfer", e[1], <<b>>, <<>>)
      PROVE  m \in Nodes /\ MadeAt(m, b, l) /\ ~RemovedAt(m, b, l)
  <2>1. I.op = "transfer" /\ I.from = <<b>>
    BY <1>5, InstructionFields
  <2>2. m = b
    BY <2>1, Singletons
  <2>3. Removes(Block(b)[l], b)
    BY <2>1, Singletons DEF Removes
  <2> QED BY <2>2, <2>3, NextLine
<1>6. ASSUME NEW op, NEW x, I = Instruction(op, x, <<>>, <<>>)
      PROVE  FALSE
  <2>1. I.from = <<>>
    BY <1>6, InstructionFields
  <2> QED BY <1>3, <2>1
<1>7. \/ /\ l = First(b) /\ Kind(b) # "fanout"
         /\ I = Instruction(LeadingOp(b), b, LeadingFrom(b), Ended(b))
      \/ l = 1 /\ First(b) = 2 /\ I = Checks(b)[1]
      \/ \E op, x : I = Instruction(op, x, <<>>, <<>>)
      \/ \E e \in BranchPositions(b) : I = Instruction("transfer", e[1], <<b>>, <<>>)
  BY Lines DEF Release
<1> HIDE DEF I
<1> QED BY <1>4, <1>5, <1>6, <1>7, <1>10


\* Only a misled shape check looks into the slot of a placeholder: what a call
\* reads is the owner of an argument, a placeholder is no element, and the root
\* of a branch is a call.
LEMMA ReadsNoDummy ==
  ASSUME Accepted, NEW b \in Nodes, NEW l \in DOMAIN Block(b),
         NEW m \in ToSet(Block(b)[l].from), Kind(m) = "placeholder"
  PROVE  Block(b)[l].op = "require" /\ Block(b)[l].node = b /\ Misled(b)
<1> DEFINE I == Block(b)[l]
<1>1. ToSet(<<>>) = {} /\ m \in Nodes
  BY EmptyLog, ReadsFound
<1>2. /\ OwnedPositions(program, m) # {}
      /\ \A e \in OwnedPositions(program, m) : Kind(e[1]) = "call"
  BY <1>1, PlaceholderFacts
<1>3. ASSUME m \in ToSet(OwnersRead(b))
      PROVE  FALSE
  <2>1. PICK i \in DOMAIN Args(b) : m = OwnerOf(Args(b)[i])
    BY <1>3 DEF OwnersRead, ToSet
  <2>2. Args(b)[i] \in Nodes
    BY Arenas
  <2>3. CASE Kind(Args(b)[i]) = "placeholder"
    <3>1. PICK f \in Fanouts : Operand(f) = Operand(Args(b)[i])
      BY <2>2, <2>3, PlaceholderFacts
    <3>2. m = Operand(f)
      BY <2>1, <2>3, <3>1 DEF OwnerOf
    <3> QED BY <1>2, <3>2, FanoutFacts
  <2>4. CASE Kind(Args(b)[i]) # "placeholder"
    BY <2>1, <2>4 DEF OwnerOf
  <2> QED BY <2>3, <2>4
<1>4. CASE l = 1 /\ First(b) = 2 /\ I = Checks(b)[1]
  <2>1. /\ RuntimeShapeCheck(b) /\ I.op = "require" /\ I.node = b
        /\ \/ m \in ToSet(OwnersRead(b))
           \/ ~Spreads(b) /\ m \in DynamicArgs(b)
    BY <1>4, ChecksFacts
  <2> QED BY <1>3, <2>1 DEF Misled
<1>5. CASE /\ l = First(b) /\ Kind(b) # "fanout"
           /\ I = Instruction(LeadingOp(b), b, LeadingFrom(b), Ended(b))
  <2>1. m \in ToSet(LeadingFrom(b))
    BY <1>5, InstructionFields
  <2>2. CASE Kind(b) = "tuple"
    <3>1. PICK i \in DOMAIN Args(b) : m = Args(b)[i]
      BY <2>1, <2>2 DEF LeadingFrom, ToSet
    <3>2. OwnedPositions(program, m) = {<<b, i>>}
      BY <2>2, <3>1, ElementsUsedOnce
    <3>3. Kind(<<b, i>>[1]) = "call"
      BY <1>2, <3>2
    <3> QED BY <2>2, <3>3
  <2>3. CASE Kind(b) = "call"
    BY <1>3, <2>1, <2>3 DEF LeadingFrom
  <2>4. CASE Kind(b) \notin {"tuple", "call"}
    BY <1>1, <2>1, <2>4 DEF LeadingFrom
  <2> QED BY <2>2, <2>3, <2>4
<1>6. ASSUME NEW e \in BranchPositions(b), I = Instruction("transfer", e[1], <<b>>, <<>>)
      PROVE  FALSE
  <2>1. m = b
    BY <1>6, InstructionFields, Singletons
  <2>0. PICK c \in Nodes : \E i \in DOMAIN Args(c) : e = <<c, i>> /\ Args(c)[i] = b
    BY DEF BranchPositions, OwnedPositions, Nodes, Args
  <2>2. PICK i \in DOMAIN Args(c) : e = <<c, i>> /\ Args(c)[i] = b
    BY <2>0
  <2>3. c \in Fanouts
    BY <2>2 DEF BranchPositions, Fanouts
  <2>4. Kind(b) = "call"
    BY <2>2, <2>3, FanoutFacts
  <2> QED BY <2>1, <2>4
<1>7. ASSUME NEW op, NEW x, I = Instruction(op, x, <<>>, <<>>)
      PROVE  FALSE
  BY <1>1, <1>7, InstructionFields
<1>8. \/ /\ l = First(b) /\ Kind(b) # "fanout"
         /\ I = Instruction(LeadingOp(b), b, LeadingFrom(b), Ended(b))
      \/ l = 1 /\ First(b) = 2 /\ I = Checks(b)[1]
      \/ \E op, x : I = Instruction(op, x, <<>>, <<>>)
      \/ \E e \in BranchPositions(b) : I = Instruction("transfer", e[1], <<b>>, <<>>)
  BY Lines DEF Release
<1> HIDE DEF I
<1>9. CASE \E op, x : I = Instruction(op, x, <<>>, <<>>)
  BY <1>7, <1>9
<1>10. CASE \E e \in BranchPositions(b) : I = Instruction("transfer", e[1], <<b>>, <<>>)
  BY <1>6, <1>10
<1> QED BY <1>4, <1>5, <1>8, <1>9, <1>10


(***************************************************************************)
(* One instruction.                                                        *)
(***************************************************************************)

\* bennu_release frees, of the slots it is called for, those that are filled.
LEMMA FreeingFacts ==
  ASSUME NEW nodes \in Seq(Nodes), IsInjective(nodes)
  PROVE  /\ Freeing(nodes) \in Seq(Nodes)
         /\ IsInjective(Freeing(nodes))
         /\ ToSet(Freeing(nodes)) = ToSet(nodes) \cap slots
<1> DEFINE P == {i \in DOMAIN nodes : nodes[i] \in slots}
           D == Reverse(Descending(P))
<1>1. /\ Len(nodes) \in Nat /\ DOMAIN nodes = 1 .. Len(nodes)
      /\ \A i \in DOMAIN nodes : nodes[i] \in Nodes
  BY LenProperties
<1>2. IsFiniteSet(P) /\ P \subseteq Int
  <2>1. IsFiniteSet(DOMAIN nodes)
    BY <1>1, FS_Interval
  <2>2. P \subseteq DOMAIN nodes /\ DOMAIN nodes \subseteq Int
    BY <1>1
  <2> HIDE DEF P
  <2> QED BY <2>1, <2>2, FS_Subset
<1>3. /\ Descending(P) \in Seq(P) /\ ToSet(Descending(P)) = P
      /\ IsInjective(Descending(P))
  BY <1>2, DescendingEnumerates
<1> HIDE DEF P
<1>4. D \in Seq(P) /\ ToSet(D) = P /\ IsInjective(D)
  BY <1>3, ReverseProperties
<1>5. Freeing(nodes) = [k \in DOMAIN D |-> nodes[D[k]]]
  BY DEF Freeing, At, P
<1> HIDE DEF D
<1>6. /\ Len(D) \in Nat /\ DOMAIN D = 1 .. Len(D)
      /\ \A k \in DOMAIN D : D[k] \in P
  BY <1>4, LenProperties, ElementOfSeq
<1>7. \A i \in P : i \in DOMAIN nodes /\ nodes[i] \in slots
  BY DEF P
<1>8. Freeing(nodes) \in Seq(Nodes)
  <2> DEFINE F == [k \in 1 .. Len(D) |-> nodes[D[k]]]
  <2>1. F \in [1 .. Len(D) -> Nodes]
    BY <1>1, <1>6, <1>7
  <2>2. Freeing(nodes) = F
    BY <1>5, <1>6
  <2> HIDE DEF F
  <2> QED BY <1>6, <2>1, <2>2, SeqDef
<1>9. IsInjective(Freeing(nodes))
  BY <1>4, <1>5, <1>6, <1>7 DEF IsInjective
<1>10. ToSet(Freeing(nodes)) = ToSet(nodes) \cap slots
  <2>1. \A x : x \in ToSet(Freeing(nodes)) <=> \E k \in DOMAIN D : nodes[D[k]] = x
    BY <1>5 DEF ToSet
  <2>2. \A i : i \in P <=> \E k \in DOMAIN D : D[k] = i
    BY <1>4 DEF ToSet
  <2>3. \A x : x \in ToSet(nodes) \cap slots <=> \E i \in P : nodes[i] = x
    BY DEF ToSet, P
  <2> QED BY <2>1, <2>2, <2>3
<1> QED BY <1>8, <1>9, <1>10


\* What the blocks before make is made.
LEMMA EarlierMade ==
  ASSUME Accepted, NEW b \in Int, NEW l, NEW n \in Nodes, n < b
  PROVE  MadeAt(n, b, l)
<1>1. CASE Kind(n) = "fanout"
  <2>1. Operand(n) \in Nodes /\ Operand(n) < n
    BY <1>1, FanoutFacts DEF Fanouts
  <2>2. Nodes \subseteq Int
    BY NodesAreNumbers
  <2>3. \A x, y, z \in Int : x < y /\ y < z => x < z
    OBVIOUS
  <2>4. Operand(n) < b
    BY <2>1, <2>2, <2>3
  <2> QED BY <1>1, <2>4 DEF MadeAt
<1>2. CASE Kind(n) # "fanout"
  BY <1>2 DEF MadeAt
<1> QED BY <1>1, <1>2

\* The instruction that runs next is a line of a block.
LEMMA RunFacts ==
  ASSUME EmittedInv, NEW op, AtInstruction(op)
  PROVE  /\ Accepted /\ Nodes \subseteq Int
         /\ block \in Nodes /\ line \in DOMAIN Block(block)
         /\ Current = Block(block)[line] /\ Current.op = op
         /\ code[block] = Block(block)
         /\ CellsHold /\ NativeApart /\ Running(block, line)
         /\ native = "executing"
         /\ slots \subseteq Nodes
         /\ table \in [Nodes -> Seq(Nodes \cup {0})] /\ cleanup_index \in [Nodes -> Nat]
         /\ freed \in Seq(Nodes)
<1>1. /\ Accepted /\ EmittedTypeOK /\ native = "executing"
      /\ Len(code) = Len(program.kind) /\ block \in DOMAIN code
      /\ code = [b \in 1 .. Len(code) |-> Block(b)]
      /\ IF block \in Nodes THEN line \in DOMAIN Block(block) ELSE line = 1
      /\ CellsHold /\ NativeApart /\ Running(block, line)
      /\ Current.op = op
  BY DEF EmittedInv, AtInstruction
<1>2. Nodes = 1 .. Len(program.kind) /\ Nodes \subseteq Int
  BY <1>1, Arenas, NodesAreNumbers
<1>3. block \in Nodes /\ code[block] = Block(block)
  BY <1>1, <1>2
<1>4. Current = Block(block)[line]
  BY <1>3 DEF Current
<1> QED BY <1>1, <1>2, <1>3, <1>4 DEF EmittedTypeOK

\* What Running says depends on the values and their places alone.
LEMMA SamePlaces ==
  ASSUME Accepted,
         UNCHANGED <<program, fault, slots, table, cleanup_index, freed>>
  PROVE  /\ \A b, l : Running(b, l) => Running(b, l)'
         /\ CellsHold => CellsHold'
         /\ NativeApart => NativeApart'
         /\ \A n : Kept(n) => Kept(n)'
<1>1. /\ Nodes' = Nodes
      /\ \A n : Kind(n)' = Kind(n) /\ Args(n)' = Args(n)
      /\ \A n, b, l : /\ MadeAt(n, b, l)' <=> MadeAt(n, b, l)
                      /\ RemovedAt(n, b, l)' <=> RemovedAt(n, b, l)
                      /\ PassedAt(n, b, l)' <=> PassedAt(n, b, l)
  BY SameEmitted
<1>2. \A n : InCell(n)' <=> InCell(n)
  BY <1>1 DEF InCell
<1>3. \A n : Kept(n)' <=> Kept(n)
  BY <1>2 DEF Kept
<1>4. \A b, l : CellsAt(b, l) => CellsAt(b, l)'
  BY <1>1 DEF CellsAt
<1>5. \A b, l : Running(b, l) => Running(b, l)'
  BY <1>1, <1>3, <1>4 DEF Running
<1>6. CellsHold => CellsHold'
  BY <1>1 DEF CellsHold
<1>7. NativeApart => NativeApart'
  BY <1>1, <1>2 DEF NativeApart
<1> QED BY <1>3, <1>5, <1>6, <1>7

\* An instruction that succeeds takes from their slots what it removes, makes
\* what it makes, and goes on to the next line or the next block.
LEMMA StepKeeps ==
  ASSUME EmittedInv, NEW op, AtInstruction(op),
         UNCHANGED <<program, fault, emit_uses, code, native>>, Advance,
         NEW b \in Nodes, NEW l \in DOMAIN Block(b), block = b, line = l,
         slots' \subseteq Nodes,
         table' \in [Nodes -> Seq(Nodes \cup {0})], cleanup_index' \in [Nodes -> Nat],
         CellsHold', NativeApart', CellsAt(b, l + 1)',
         \A n \in Nodes : n \in slots' <=>
           (n \in slots /\ ~Removes(Block(b)[l], n)) \/ MakesAt(b, l, n),
         \A n \in Nodes : Kept(n)' <=> Kept(n) \/ MakesAt(b, l, n)
  PROVE  EmittedInv'
<1>1. /\ Accepted /\ Nodes \subseteq Int /\ native = "executing"
      /\ code[b] = Block(b) /\ Running(b, l)
  BY RunFacts
<1>2. /\ Accepted' /\ Nodes' = Nodes
      /\ \A n : Kind(n)' = Kind(n) /\ Args(n)' = Args(n) /\ Block(n)' = Block(n)
      /\ \A n, k : UsesLeft(n, k)' = UsesLeft(n, k)
      /\ \A n, k, i : /\ MadeAt(n, k, i)' <=> MadeAt(n, k, i)
                      /\ RemovedAt(n, k, i)' <=> RemovedAt(n, k, i)
                      /\ PassedAt(n, k, i)' <=> PassedAt(n, k, i)
  BY <1>1, SameEmitted
<1>3. /\ Len(program.kind) \in Nat /\ Nodes = 1 .. Len(program.kind)
      /\ Len(Block(b)) \in Nat /\ DOMAIN Block(b) = 1 .. Len(Block(b))
  BY <1>1, Arenas, BlockLines
<1>4. \A n \in Nodes : n \in slots' <=> MadeAt(n, b, l + 1) /\ ~RemovedAt(n, b, l + 1)
  BY <1>1, NextLine DEF Running
<1>5. \A n \in Nodes : Kept(n)' <=> MadeAt(n, b, l + 1)
  BY <1>1, NextLine DEF Running
<1>6. Running(block, line)'
  <2>1. CASE line < Len(code[block])
    <3>1. block' = b /\ line' = l + 1
      BY <2>1 DEF Advance
    <3>2. CellsAt(block, line)'
      BY <3>1 DEF CellsAt, MadeAt, PassedAt
    <3> QED BY <1>2, <1>4, <1>5, <3>1, <3>2 DEF Running
  <2>2. CASE ~ line < Len(code[block])
    <3>1. block' = b + 1 /\ line' = 1 /\ l = Len(Block(b))
      BY <1>1, <1>3, <2>2 DEF Advance
    <3>2. /\ \A n \in Nodes : MadeAt(n, b + 1, 1) <=> MadeAt(n, b, l + 1)
          /\ \A n \in Nodes : RemovedAt(n, b + 1, 1) <=> RemovedAt(n, b, l + 1)
          /\ \A n \in Nodes : PassedAt(n, b + 1, 1) <=> PassedAt(n, b, l + 1)
      BY <1>1, <3>1, NextBlock
    <3>3. \A c \in Nodes : \A i \in DOMAIN Args(c) : Args(c)[i] \in Nodes
      BY <1>1, Arenas
    <3>4. CellsAt(b + 1, 1)'
      BY <1>2, <3>2, <3>3 DEF CellsAt
    <3>5. CellsAt(block, line)'
      BY <3>1, <3>4 DEF CellsAt, MadeAt, PassedAt
    <3> QED BY <1>2, <1>4, <1>5, <3>1, <3>2, <3>5 DEF Running
  <2> QED BY <2>1, <2>2
<1>7. /\ block' \in 1 .. Len(program.kind) + 1
      /\ line' \in Nat \ {0}
      /\ IF block' \in Nodes THEN line' \in DOMAIN Block(block') ELSE line' = 1
  <2>1. CASE line < Len(code[block])
    <3>1. block' = b /\ line' = l + 1 /\ l < Len(Block(b))
      BY <1>1, <2>1 DEF Advance
    <3> QED BY <1>3, <3>1
  <2>2. CASE ~ line < Len(code[block])
    <3>1. block' = b + 1 /\ line' = 1
      BY <1>1, <1>3, <2>2 DEF Advance
    <3>2. block' \in Nodes => 1 \in DOMAIN Block(block')
      <4>1. block' \in Nodes => /\ Len(Block(block')) \in Nat /\ Len(Block(block')) >= 1
                                /\ DOMAIN Block(block') = 1 .. Len(Block(block'))
        BY <1>1, BlockLines
      <4> QED BY <4>1
    <3> QED BY <1>3, <3>1, <3>2
  <2> QED BY <2>1, <2>2
<1>8. EmittedTypeOK'
  <2>1. freed' \in Seq(Nodes)
    BY <1>2 DEF NativeApart
  <2> QED BY <1>2, <1>7, <2>1 DEF EmittedInv, EmittedTypeOK
<1>9. /\ (Len(code) \in 0 .. Len(program.kind))'
      /\ (code = [k \in 1 .. Len(code) |-> Block(k)])'
      /\ (emit_uses = [n \in Nodes |-> UsesLeft(n, Len(code) + 1)])'
      /\ Len(code') = Len(program'.kind)
  <2>1. /\ Len(code) \in 0 .. Len(program.kind)
        /\ code = [k \in 1 .. Len(code) |-> Block(k)]
        /\ emit_uses = [n \in Nodes |-> UsesLeft(n, Len(code) + 1)]
        /\ Len(code) = Len(program.kind)
    BY <1>1 DEF EmittedInv
  <2> QED BY <1>2, <2>1
<1>10. (IF block \in Nodes THEN line \in DOMAIN Block(block) ELSE line = 1)'
  <2>1. \A n : (Block(n))' = Block(n)
    BY <1>2
  <2>2. (block \in Nodes => line \in DOMAIN Block(block))'
    BY <1>2, <1>7, <2>1
  <2> QED BY <1>2, <1>7, <2>1, <2>2
<1> QED BY <1>1, <1>2, <1>6, <1>8, <1>9, <1>10 DEF EmittedInv


\* The loops at the end of bennu_execute: what the slots still hold is
\* released, after the failing instruction's own releases.
LEMMA CleanUpKeeps ==
  ASSUME EmittedInv, native = "executing", NEW first \in Seq(Nodes), IsInjective(first),
         ToSet(first) \subseteq slots,
         NEW outcome \in {"ok", "failed"}, CleanUp(slots \ ToSet(first), first, outcome),
         UNCHANGED <<program, fault, emit_uses, code, block, line, table, cleanup_index>>
  PROVE  EmittedInv'
<1> DEFINE remaining == slots \ ToSet(first)
           last == Descending(remaining)
<1>1. /\ Accepted /\ EmittedTypeOK /\ Nodes \subseteq Int /\ IsFiniteSet(Nodes)
      /\ Nodes = 1 .. Len(program.kind)
      /\ Len(code) = Len(program.kind)
      /\ CellsHold /\ NativeApart /\ Running(block, line)
      /\ IF block \in Nodes THEN line \in DOMAIN Block(block) ELSE line = 1
  BY Arenas, NodesAreNumbers DEF EmittedInv
<1>2. slots \subseteq Nodes /\ freed \in Seq(Nodes) /\ IsInjective(freed)
  BY <1>1 DEF EmittedTypeOK, NativeApart
<1>3. last \in Seq(Nodes) /\ IsInjective(last) /\ ToSet(last) = remaining
  <2>1. IsFiniteSet(remaining) /\ remaining \subseteq Int /\ remaining \subseteq Nodes
    BY <1>1, <1>2, FS_Subset
  <2>2. last \in Seq(remaining) /\ IsInjective(last) /\ ToSet(last) = remaining
    BY <2>1, DescendingEnumerates
  <2>3. Seq(remaining) \subseteq Seq(Nodes)
    BY <2>1
  <2> HIDE DEF last, remaining
  <2> QED BY <2>2, <2>3
<1>4. freed' = (freed \o first) \o last /\ slots' = {} /\ native' = outcome
  BY DEF CleanUp
<1> DEFINE start == freed \o first
<1> HIDE DEF last
<1>5. /\ start \in Seq(Nodes) /\ IsInjective(start)
      /\ ToSet(start) = ToSet(freed) \cup ToSet(first)
  <2>1. \A n \in slots : n \notin ToSet(freed)
    BY <1>1, <1>2 DEF NativeApart
  <2> QED BY <1>2, <2>1, JoinedLogs
<1>6. /\ freed' \in Seq(Nodes) /\ IsInjective(freed')
      /\ ToSet(freed') = ToSet(freed) \cup slots
  <2>1. \A n \in slots : n \notin ToSet(freed)
    BY <1>1, <1>2 DEF NativeApart
  <2> HIDE DEF start
  <2>2. ToSet(start) \cap ToSet(last) = {}
    BY <1>3, <1>5, <2>1
  <2>3. ToSet(freed) \cup ToSet(first) \cup remaining = ToSet(freed) \cup slots
    OBVIOUS
  <2> HIDE DEF remaining
  <2>4. /\ start \o last \in Seq(Nodes) /\ IsInjective(start \o last)
        /\ ToSet(start \o last) = ToSet(start) \cup ToSet(last)
    BY <1>3, <1>5, <2>2, JoinedLogs
  <2>5. freed' = start \o last
    BY <1>4 DEF start
  <2> QED BY <1>3, <1>5, <2>3, <2>4, <2>5
<1>7. /\ Accepted' /\ Nodes' = Nodes
      /\ \A n : Kind(n)' = Kind(n) /\ Args(n)' = Args(n) /\ Block(n)' = Block(n)
      /\ \A n, k : UsesLeft(n, k)' = UsesLeft(n, k)
      /\ \A n : InCell(n)' <=> InCell(n)
  BY <1>1, SameEmitted DEF InCell
<1>8. CellsHold'
  BY <1>1, <1>7 DEF CellsHold
<1>9. NativeApart'
  BY <1>1, <1>2, <1>4, <1>6, <1>7 DEF NativeApart
<1>10. \A n \in Nodes : n < block => Kept(n)'
  <2>1. \A n \in Nodes : n < block => MadeAt(n, block, line)
    <3>1. block \in Int
      BY <1>1 DEF EmittedTypeOK
    <3> QED BY <1>1, <3>1, EarlierMade
  <2>2. \A n \in Nodes : n < block => Kept(n)
    BY <1>1, <2>1 DEF Running
  <2> QED BY <1>6, <1>7, <2>2 DEF Kept
<1>11. EmittedTypeOK'
  BY <1>1, <1>4, <1>6, <1>7 DEF EmittedTypeOK
<1>12. /\ (Len(code) \in 0 .. Len(program.kind))'
       /\ (code = [k \in 1 .. Len(code) |-> Block(k)])'
       /\ (emit_uses = [n \in Nodes |-> UsesLeft(n, Len(code) + 1)])'
       /\ (Len(code) = Len(program.kind))'
  <2>1. /\ Len(code) \in 0 .. Len(program.kind)
        /\ code = [k \in 1 .. Len(code) |-> Block(k)]
        /\ emit_uses = [n \in Nodes |-> UsesLeft(n, Len(code) + 1)]
        /\ Len(code) = Len(program.kind)
    BY <1>1 DEF EmittedInv
  <2> QED BY <1>7, <2>1
<1>13. (IF block \in Nodes THEN line \in DOMAIN Block(block) ELSE line = 1)'
  <2>1. \A n : (Block(n))' = Block(n)
    BY <1>7
  <2>2. (block \in Nodes => line \in DOMAIN Block(block))'
    BY <1>1, <1>7, <2>1
  <2> QED BY <1>1, <1>7, <2>2
<1>14. (slots = {} /\ \A n \in Nodes : n < block => Kept(n))'
  BY <1>4, <1>7, <1>10
<1>15. native' \in {"ok", "failed"}
  BY <1>4
<1> QED BY <1>7, <1>8, <1>9, <1>11, <1>12, <1>13, <1>14, <1>15 DEF EmittedInv

LEMMA AbortKeeps ==
  ASSUME EmittedInv, UNCHANGED <<program, fault>>, NEW op, AtInstruction(op), Abort
  PROVE  EmittedInv'
<1> DEFINE first == Freeing(Current.releases)
<1>1. /\ Accepted /\ block \in Nodes /\ line \in DOMAIN Block(block)
      /\ Current = Block(block)[line] /\ native = "executing"
  BY RunFacts
<1>2. Current.releases \in Seq(Nodes) /\ IsInjective(Current.releases)
  BY <1>1, LineByOp
<1>3. first \in Seq(Nodes) /\ IsInjective(first) /\ ToSet(first) \subseteq slots
  BY <1>2, FreeingFacts
<1>4. /\ CleanUp(slots \ ToSet(first), first, "failed")
      /\ UNCHANGED <<emit_uses, code, block, line, table, cleanup_index>>
  BY DEF Abort
<1> HIDE DEF first
<1> QED BY <1>1, <1>3, <1>4, CleanUpKeeps

\* The roots are printed, or printing fails: either way every slot is released.
LEMMA PrintKeeps ==
  ASSUME EmittedInv, UNCHANGED <<program, fault>>, ExecutePrint
  PROVE  EmittedInv'
<1> DEFINE outcome == IF Succeeds(<<"output", 0>>) THEN "ok" ELSE "failed"
<1>1. /\ native = "executing"
      /\ CleanUp(slots, <<>>, outcome)
      /\ UNCHANGED <<emit_uses, code, block, line, table, cleanup_index>>
  BY DEF ExecutePrint
<1>2. outcome \in {"ok", "failed"}
  OBVIOUS
<1>3. <<>> \in Seq(Nodes) /\ IsInjective(<<>>) /\ ToSet(<<>>) = {}
  BY EmptyLog
<1>4. slots \ ToSet(<<>>) = slots
  BY <1>3
<1> HIDE DEF outcome
<1>5. CleanUp(slots \ ToSet(<<>>), <<>>, outcome)
  BY <1>1, <1>4
<1>6. ToSet(<<>>) \subseteq slots
  BY <1>3
<1> QED BY <1>1, <1>2, <1>3, <1>5, <1>6, CleanUpKeeps


\* A branch root is passed at the end of its own block.
LEMMA BranchPassed ==
  ASSUME Accepted, NEW b \in Nodes, NEW l \in DOMAIN Block(b),
         NEW c \in Nodes, Kind(c) = "fanout", NEW i \in DOMAIN Args(c)
  PROVE  PassedAt(Args(c)[i], b, l + 1) <=>
           PassedAt(Args(c)[i], b, l) \/ (l = Len(Block(b)) /\ <<c, i>> \in BranchPositions(b))
<1>1. PICK n \in Nodes : n = Args(c)[i]
  BY Arenas
<1>2. c \in Fanouts
  BY DEF Fanouts
<1>3. BranchPositions(n) = {<<c, i>>}
  BY <1>1, <1>2, BranchFacts
<1>4. <<c, i>> \in BranchPositions(b) => n = b
  <2>1. \A e \in BranchPositions(b) : Args(e[1])[e[2]] = b
    BY BranchFacts
  <2> QED BY <1>1, <2>1
<1>5. n = b <=> <<c, i>> \in BranchPositions(b)
  BY <1>3, <1>4
<1> QED BY <1>1, <1>5, NextLine

\* An instruction that makes no tuple and moves no branch result leaves the
\* cells of every table as they should be.
LEMMA CellsSame ==
  ASSUME Accepted, UNCHANGED <<program, fault, table, cleanup_index>>, CellsHold,
         NEW b \in Nodes, NEW l \in DOMAIN Block(b), CellsAt(b, l),
         Block(b)[l].op # "transfer",
         \A n \in Nodes : MakesAt(b, l, n) => Kind(n) \notin {"tuple", "fanout"}
  PROVE  /\ CellsAt(b, l + 1)' /\ CellsHold'
         /\ \A n : InCell(n)' <=> InCell(n)
<1>1. /\ Nodes' = Nodes
      /\ \A n : Kind(n)' = Kind(n) /\ Args(n)' = Args(n)
      /\ \A n, k, i : /\ MadeAt(n, k, i)' <=> MadeAt(n, k, i)
                      /\ PassedAt(n, k, i)' <=> PassedAt(n, k, i)
  BY SameEmitted
<1>2. ASSUME NEW c \in Nodes, Kind(c) \in {"tuple", "fanout"}
      PROVE  MadeAt(c, b, l + 1) <=> MadeAt(c, b, l)
  BY <1>2, NextLine
<1>3. ASSUME NEW c \in Nodes, Kind(c) = "fanout", NEW i \in DOMAIN Args(c)
      PROVE  PassedAt(Args(c)[i], b, l + 1) <=> PassedAt(Args(c)[i], b, l)
  <2>1. l = Len(Block(b)) => BranchPositions(b) = {}
    BY LineByOp
  <2> QED BY <1>3, <2>1, BranchPassed
<1>4. CellsAt(b, l + 1)'
  BY <1>1, <1>2, <1>3 DEF CellsAt
<1>5. CellsHold'
  BY <1>1 DEF CellsHold
<1>6. \A n : InCell(n)' <=> InCell(n)
  BY <1>1 DEF InCell
<1> QED BY <1>4, <1>5, <1>6

\* An instruction that writes a new value to its slot and nothing else.
LEMMA MakeKeeps ==
  ASSUME EmittedInv, UNCHANGED <<program, fault>>,
         NEW op \in {"store", "literal", "apply"}, AtInstruction(op),
         slots' = slots \cup {Current.node}, Advance,
         UNCHANGED <<emit_uses, code, table, cleanup_index, freed, native>>
  PROVE  EmittedInv'
<1>1. PICK b \in Nodes : b = block
  BY RunFacts
<1>2. PICK l \in DOMAIN Block(b) : l = line
  BY <1>1, RunFacts
<1>3. /\ Accepted /\ Current = Block(b)[l] /\ Current.op = op
      /\ CellsHold /\ NativeApart /\ Running(b, l)
      /\ slots \subseteq Nodes
      /\ table \in [Nodes -> Seq(Nodes \cup {0})] /\ cleanup_index \in [Nodes -> Nat]
  BY <1>1, <1>2, RunFacts
<1>4. /\ Current.node = b /\ Kind(b) \notin {"tuple", "fanout"}
      /\ \A n \in Nodes : MakesAt(b, l, n) <=> n = b
      /\ \A n \in Nodes : ~Removes(Block(b)[l], n)
      /\ Block(b)[l].op # "transfer"
  BY <1>3, LineByOp
<1>5. Nodes' = Nodes
  BY SameProgram
<1>6. CellsAt(b, l)
  BY <1>3 DEF Running
<1>7. /\ CellsAt(b, l + 1)' /\ CellsHold'
      /\ \A n : InCell(n)' <=> InCell(n)
  BY <1>3, <1>4, <1>6, CellsSame
<1>8. ~Kept(b)
  BY <1>3, <1>4, NextLine DEF Running
<1>9. NativeApart'
  BY <1>3, <1>4, <1>5, <1>7, <1>8 DEF NativeApart, Kept
<1>10. \A n \in Nodes : n \in slots' <=>
         (n \in slots /\ ~Removes(Block(b)[l], n)) \/ MakesAt(b, l, n)
  BY <1>4
<1>11. \A n \in Nodes : Kept(n)' <=> Kept(n) \/ MakesAt(b, l, n)
  BY <1>4, <1>7 DEF Kept
<1>12. slots' \subseteq Nodes
  BY <1>3, <1>4
<1> QED BY <1>1, <1>2, <1>3, <1>7, <1>9, <1>10, <1>11, <1>12, StepKeeps

LEMMA ExecuteStoreKeeps ==
  ASSUME EmittedInv, UNCHANGED <<program, fault>>, ExecuteStore
  PROVE  EmittedInv'
BY MakeKeeps DEF ExecuteStore

LEMMA ExecuteLiteralKeeps ==
  ASSUME EmittedInv, UNCHANGED <<program, fault>>, ExecuteLiteral
  PROVE  EmittedInv'
<1>1. CASE Succeeds(<<"node", Current.node>>)
  BY <1>1, MakeKeeps DEF ExecuteLiteral
<1>2. CASE ~Succeeds(<<"node", Current.node>>)
  BY <1>2, AbortKeeps DEF ExecuteLiteral
<1> QED BY <1>1, <1>2

LEMMA ExecuteApplyKeeps ==
  ASSUME EmittedInv, UNCHANGED <<program, fault>>, ExecuteApply
  PROVE  EmittedInv'
<1>1. AtInstruction("apply")
  BY DEF ExecuteApply
<1>2. CASE /\ slots' = slots \cup {Current.node} /\ Advance
           /\ UNCHANGED <<emit_uses, code, table, cleanup_index, freed, native>>
  BY <1>1, <1>2, MakeKeeps
<1>3. CASE Abort
  BY <1>1, <1>3, AbortKeeps
<1> QED BY <1>2, <1>3 DEF ExecuteApply

\* A check of lengths that passes touches nothing.
LEMMA ExecuteRequireKeeps ==
  ASSUME EmittedInv, UNCHANGED <<program, fault>>, ExecuteRequire
  PROVE  EmittedInv'
<1>1. AtInstruction("require")
  BY DEF ExecuteRequire
<1>2. CASE Advance /\ UNCHANGED <<emit_uses, code, slots, table, cleanup_index, freed, native>>
  <2>1. PICK b \in Nodes : b = block
    BY <1>1, RunFacts
  <2>2. PICK l \in DOMAIN Block(b) : l = line
    BY <1>1, <2>1, RunFacts
  <2>3. /\ Accepted /\ Current = Block(b)[l] /\ Current.op = "require"
        /\ CellsHold /\ NativeApart /\ Running(b, l)
        /\ slots \subseteq Nodes
        /\ table \in [Nodes -> Seq(Nodes \cup {0})] /\ cleanup_index \in [Nodes -> Nat]
    BY <1>1, <2>1, <2>2, RunFacts
  <2>4. /\ \A n \in Nodes : ~Removes(Block(b)[l], n)
        /\ \A n \in Nodes : ~MakesAt(b, l, n)
        /\ Block(b)[l].op # "transfer"
    BY <2>3, LineByOp
  <2>5. Nodes' = Nodes
    BY SameProgram
  <2>6. CellsAt(b, l)
    BY <2>3 DEF Running
  <2>7. /\ CellsAt(b, l + 1)' /\ CellsHold'
        /\ \A n : InCell(n)' <=> InCell(n)
    BY <1>2, <2>3, <2>4, <2>6, CellsSame
  <2>8. NativeApart'
    BY <1>2, <2>3, SamePlaces
  <2>9. \A n \in Nodes : n \in slots' <=>
          (n \in slots /\ ~Removes(Block(b)[l], n)) \/ MakesAt(b, l, n)
    BY <1>2, <2>4
  <2>10. \A n \in Nodes : Kept(n)' <=> Kept(n) \/ MakesAt(b, l, n)
    BY <1>2, <2>4, <2>7 DEF Kept
  <2> QED BY <1>1, <1>2, <2>1, <2>2, <2>3, <2>5, <2>7, <2>8, <2>9, <2>10, StepKeeps
<1>3. CASE Abort
  BY <1>1, <1>3, AbortKeeps
<1> QED BY <1>2, <1>3 DEF ExecuteRequire

\* A release: the value was in its slot, and it goes to the log.
LEMMA ExecuteReleaseKeeps ==
  ASSUME EmittedInv, UNCHANGED <<program, fault>>, ExecuteRelease
  PROVE  EmittedInv'
<1>1. PICK b \in Nodes : b = block
  BY RunFacts DEF ExecuteRelease
<1>2. PICK l \in DOMAIN Block(b) : l = line
  BY <1>1, RunFacts DEF ExecuteRelease
<1>3. /\ Accepted /\ Current = Block(b)[l] /\ Current.op = "release"
      /\ CellsHold /\ NativeApart /\ Running(b, l)
      /\ slots \subseteq Nodes
      /\ table \in [Nodes -> Seq(Nodes \cup {0})] /\ cleanup_index \in [Nodes -> Nat]
      /\ AtInstruction("release") /\ Advance
      /\ UNCHANGED <<emit_uses, code, table, cleanup_index, native>>
  BY <1>1, <1>2, RunFacts DEF ExecuteRelease
<1>4. PICK m \in Nodes : m = Current.node
  BY <1>3, LineByOp
<1>5. /\ \A n \in Nodes : Removes(Block(b)[l], n) <=> n = m
      /\ \A n \in Nodes : ~MakesAt(b, l, n)
      /\ Block(b)[l].op # "transfer"
  BY <1>3, <1>4, LineByOp
<1>6. m \in slots
  BY <1>3, <1>5, NextLine DEF Running
<1>7. /\ CellsAt(b, l + 1)' /\ CellsHold'
      /\ \A n : InCell(n)' <=> InCell(n)
  <2>1. CellsAt(b, l)
    BY <1>3 DEF Running
  <2> QED BY <1>3, <1>5, <2>1, CellsSame
<1>8. /\ Freeing(<<m>>) \in Seq(Nodes) /\ IsInjective(Freeing(<<m>>))
      /\ ToSet(Freeing(<<m>>)) = {m}
  <2>1. <<m>> \in Seq(Nodes) /\ IsInjective(<<m>>) /\ ToSet(<<m>>) = {m}
    BY Singletons
  <2> QED BY <1>6, <2>1, FreeingFacts
<1>9. freed \in Seq(Nodes) /\ IsInjective(freed) /\ m \notin ToSet(freed) /\ ~InCell(m)
  BY <1>3, <1>6 DEF NativeApart
<1>10. /\ freed' \in Seq(Nodes) /\ IsInjective(freed')
       /\ ToSet(freed') = ToSet(freed) \cup {m}
  <2>1. freed' = freed \o Freeing(<<m>>)
    BY <1>4 DEF ExecuteRelease
  <2>2. ToSet(freed) \cap ToSet(Freeing(<<m>>)) = {}
    BY <1>8, <1>9
  <2> QED BY <1>8, <1>9, <2>1, <2>2, JoinedLogs
<1>11. slots' = slots \ {m}
  BY <1>4 DEF ExecuteRelease
<1>12. Nodes' = Nodes
  BY SameProgram
<1>13. NativeApart'
  BY <1>3, <1>7, <1>9, <1>10, <1>11, <1>12 DEF NativeApart
<1>14. \A n \in Nodes : n \in slots' <=>
         (n \in slots /\ ~Removes(Block(b)[l], n)) \/ MakesAt(b, l, n)
  BY <1>5, <1>11
<1>15. \A n \in Nodes : Kept(n)' <=> Kept(n) \/ MakesAt(b, l, n)
  BY <1>5, <1>6, <1>7, <1>10, <1>11 DEF Kept
<1>16. slots' \subseteq Nodes
  BY <1>3, <1>11
<1> QED BY <1>1, <1>2, <1>3, <1>7, <1>13, <1>14, <1>15, <1>16, StepKeeps


\* bennu_tuple: the elements leave their slots for the cells of the new table.
LEMMA TupleMoves ==
  ASSUME EmittedInv, UNCHANGED <<program, fault>>, ExecuteTuple,
         Succeeds(<<"node", Current.node>>)
  PROVE  EmittedInv'
<1>1. PICK b \in Nodes : b = block
  BY RunFacts DEF ExecuteTuple
<1>2. PICK l \in DOMAIN Block(b) : l = line
  BY <1>1, RunFacts DEF ExecuteTuple
<1>3. /\ Accepted /\ Nodes \subseteq Int /\ Current = Block(b)[l] /\ Current.op = "tuple"
      /\ CellsHold /\ NativeApart /\ Running(b, l)
      /\ slots \subseteq Nodes
      /\ table \in [Nodes -> Seq(Nodes \cup {0})] /\ cleanup_index \in [Nodes -> Nat]
      /\ AtInstruction("tuple") /\ Advance
      /\ UNCHANGED <<emit_uses, code, freed, native>>
  BY <1>1, <1>2, RunFacts DEF ExecuteTuple
<1>4. /\ Current.node = b /\ Kind(b) = "tuple" /\ Current.from = Args(b)
      /\ \A n \in Nodes : MakesAt(b, l, n) <=> n = b
      /\ \A n \in Nodes : Removes(Block(b)[l], n) <=> n \in ToSet(Args(b))
      /\ Block(b)[l].op # "transfer"
      /\ l = Len(Block(b)) => BranchPositions(b) = {}
  BY <1>3, LineByOp
<1>5. /\ slots' = (slots \ ToSet(Args(b))) \cup {b}
      /\ table' = [table EXCEPT ![b] = Args(b)]
      /\ cleanup_index' = [cleanup_index EXCEPT ![b] = Len(Args(b))]
  BY <1>4 DEF ExecuteTuple
<1>6. /\ Args(b) \in Seq(Nodes) /\ Len(Args(b)) \in Nat
      /\ DOMAIN Args(b) = 1 .. Len(Args(b))
      /\ \A i \in DOMAIN Args(b) : Args(b)[i] \in Nodes
      /\ ToSet(Args(b)) \subseteq Nodes
  BY <1>3, Arenas DEF ToSet
<1>7. /\ table'[b] = Args(b) /\ cleanup_index'[b] = Len(Args(b))
      /\ \A c \in Nodes : c # b => /\ table'[c] = table[c]
                                   /\ cleanup_index'[c] = cleanup_index[c]
      /\ table' \in [Nodes -> Seq(Nodes \cup {0})] /\ cleanup_index' \in [Nodes -> Nat]
  BY <1>3, <1>5, <1>6
<1>8. ~Kept(b) /\ ~MadeAt(b, b, l)
  BY <1>3, <1>4, NextLine DEF Running
<1>9. cleanup_index[b] = 0
  BY <1>3, <1>4, <1>8 DEF Running, CellsAt
<1>10. \A n \in ToSet(Args(b)) : n \in slots
  BY <1>3, <1>4, <1>6, NextLine DEF Running
<1>11. Nodes' = Nodes /\ \A n : Kind(n)' = Kind(n) /\ Args(n)' = Args(n)
  BY SameProgram
<1>12. \A n : InCell(n)' <=> InCell(n) \/ n \in ToSet(Args(b))
  <2>1. ASSUME NEW n
        PROVE  (\E i \in 1 .. cleanup_index'[b] : table'[b][i] = n) <=> n \in ToSet(Args(b))
    BY <1>6, <1>7 DEF ToSet
  <2>2. 1 .. cleanup_index[b] = {}
    BY <1>9
  <2>3. ASSUME NEW n
        PROVE  InCell(n)' <=> InCell(n) \/ n \in ToSet(Args(b))
    <3>1. InCell(n)' <=> \E c \in Nodes : \E i \in 1 .. cleanup_index'[c] : table'[c][i] = n
      BY <1>11 DEF InCell
    <3>2. InCell(n) <=> \E c \in Nodes : c # b /\ \E i \in 1 .. cleanup_index[c] : table[c][i] = n
      BY <2>2 DEF InCell
    <3>3. \A c \in Nodes : c # b =>
            ((\E i \in 1 .. cleanup_index'[c] : table'[c][i] = n) <=>
               \E i \in 1 .. cleanup_index[c] : table[c][i] = n)
      BY <1>7
    <3> QED BY <2>1, <3>1, <3>2, <3>3
  <2> QED BY <2>3
<1>13. CellsHold'
  <2>1. ASSUME NEW c \in Nodes
        PROVE  /\ table'[c] \in Seq(Nodes \cup {0})
               /\ cleanup_index'[c] \in 0 .. Len(Args(c))
               /\ cleanup_index'[c] <= Len(table'[c])
               /\ cleanup_index'[c] # 0 => Kind(c) \in {"tuple", "fanout"}
               /\ \A i \in 1 .. cleanup_index'[c] : table'[c][i] = Args(c)[i]
    <3>1. CASE c = b
      BY <1>4, <1>6, <1>7, <3>1
    <3>2. CASE c # b
      BY <1>3, <1>7, <3>2 DEF CellsHold
    <3> QED BY <3>1, <3>2
  <2> QED BY <1>11, <2>1 DEF CellsHold
<1>14. CellsAt(b, l + 1)'
  <2>1. \A n, k, i : /\ MadeAt(n, k, i)' <=> MadeAt(n, k, i)
                     /\ PassedAt(n, k, i)' <=> PassedAt(n, k, i)
    BY SameEmitted
  <2>2. ASSUME NEW c \in Nodes, NEW i \in DOMAIN Args(c), Kind(c) = "fanout"
        PROVE  PassedAt(Args(c)[i], b, l + 1) <=> PassedAt(Args(c)[i], b, l)
    <3>1. Accepted
      BY <1>3
    <3> QED BY <1>4, <2>2, <3>1, BranchPassed
  <2>3. MadeAt(b, b, l + 1)
    BY <1>3, <1>4, NextLine
  <2>4. \A c \in Nodes : c # b => (MadeAt(c, b, l + 1) <=> MadeAt(c, b, l))
    BY <1>3, <1>4, NextLine
  <2>5. CellsAt(b, l)
    BY <1>3 DEF Running
  <2>6. ASSUME NEW c \in Nodes
        PROVE  /\ Kind(c) = "tuple" =>
                    cleanup_index'[c] = IF MadeAt(c, b, l + 1) THEN Len(Args(c)) ELSE 0
               /\ Kind(c) = "fanout" =>
                    /\ \A i \in DOMAIN Args(c) :
                         i <= cleanup_index'[c] <=> PassedAt(Args(c)[i], b, l + 1)
                    /\ MadeAt(c, b, l + 1) => Len(table'[c]) = Len(Args(c))
    <3>1. CASE c = b
      BY <1>4, <1>7, <2>3, <3>1
    <3>2. CASE c # b
      BY <1>7, <2>2, <2>4, <2>5, <3>2 DEF CellsAt
    <3> QED BY <3>1, <3>2
  <2> QED BY <1>11, <2>1, <2>6 DEF CellsAt
<1>15. NativeApart'
  BY <1>3, <1>5, <1>8, <1>10, <1>11, <1>12 DEF NativeApart, Kept
<1>16. \A n \in Nodes : n \in slots' <=>
         (n \in slots /\ ~Removes(Block(b)[l], n)) \/ MakesAt(b, l, n)
  BY <1>4, <1>5
<1>17. \A n \in Nodes : Kept(n)' <=> Kept(n) \/ MakesAt(b, l, n)
  BY <1>3, <1>4, <1>5, <1>10, <1>12 DEF Kept
<1>18. slots' \subseteq Nodes
  BY <1>3, <1>5
<1> QED BY <1>1, <1>2, <1>3, <1>7, <1>13, <1>14, <1>15, <1>16, <1>17, <1>18, StepKeeps

LEMMA ExecuteTupleKeeps ==
  ASSUME EmittedInv, UNCHANGED <<program, fault>>, ExecuteTuple
  PROVE  EmittedInv'
<1>1. CASE Succeeds(<<"node", Current.node>>)
  BY <1>1, TupleMoves
<1>2. CASE ~Succeeds(<<"node", Current.node>>)
  BY <1>2, AbortKeeps DEF ExecuteTuple
<1> QED BY <1>1, <1>2


\* bennu_fanout: a table of empty cells, none of which is reached.
LEMMA FanoutAdmitted ==
  ASSUME EmittedInv, UNCHANGED <<program, fault>>, ExecuteFanout,
         Succeeds(<<"admit", Current.node>>)
  PROVE  EmittedInv'
<1>1. PICK b \in Nodes : b = block
  BY RunFacts DEF ExecuteFanout
<1>2. PICK l \in DOMAIN Block(b) : l = line
  BY <1>1, RunFacts DEF ExecuteFanout
<1>3. /\ Accepted /\ Nodes \subseteq Int /\ Current = Block(b)[l] /\ Current.op = "fanout"
      /\ CellsHold /\ NativeApart /\ Running(b, l)
      /\ slots \subseteq Nodes
      /\ table \in [Nodes -> Seq(Nodes \cup {0})] /\ cleanup_index \in [Nodes -> Nat]
      /\ AtInstruction("fanout") /\ Advance
      /\ UNCHANGED <<emit_uses, code, freed, native>>
  BY <1>1, <1>2, RunFacts DEF ExecuteFanout
<1>4. PICK f \in Fanouts : f = Current.node
  BY <1>3, LineByOp
<1>5. /\ Operand(f) = b /\ f \in Nodes /\ Kind(f) = "fanout"
      /\ \A n \in Nodes : MakesAt(b, l, n) <=> n = f
      /\ \A n \in Nodes : ~Removes(Block(b)[l], n)
      /\ l = Len(Block(b)) => BranchPositions(b) = {}
  BY <1>3, <1>4, LineByOp DEF Fanouts
<1> DEFINE empty == [i \in DOMAIN Args(f) |-> 0]
<1>6. /\ slots' = slots \cup {f}
      /\ table' = [table EXCEPT ![f] = empty]
      /\ cleanup_index' = [cleanup_index EXCEPT ![f] = 0]
  BY <1>4 DEF ExecuteFanout
<1>7. Len(Args(f)) \in Nat /\ DOMAIN Args(f) = 1 .. Len(Args(f))
  BY <1>3, <1>5, Arenas
<1>8. empty \in Seq(Nodes \cup {0}) /\ Len(empty) = Len(Args(f))
  BY <1>7
<1> HIDE DEF empty
<1>9. /\ table'[f] = empty /\ cleanup_index'[f] = 0
      /\ \A c \in Nodes : c # f => /\ table'[c] = table[c]
                                   /\ cleanup_index'[c] = cleanup_index[c]
      /\ table' \in [Nodes -> Seq(Nodes \cup {0})] /\ cleanup_index' \in [Nodes -> Nat]
  BY <1>3, <1>5, <1>6, <1>8
<1>10. ~Kept(f)
  BY <1>3, <1>5, NextLine DEF Running
<1>11. ASSUME NEW i \in DOMAIN Args(f)
       PROVE  ~PassedAt(Args(f)[i], b, l) /\ ~PassedAt(Args(f)[i], b, l + 1)
  <2>1. PICK n \in Nodes : n = Args(f)[i]
    BY <1>3, <1>5, Arenas
  <2>2. n > b
    BY <1>3, <1>5, <2>1, FanoutFacts
  <2>3. ~ n < b /\ n # b
    BY <1>3, <2>2
  <2> QED BY <2>1, <2>3 DEF PassedAt
<1>12. cleanup_index[f] = 0
  <2>1. cleanup_index[f] \in 0 .. Len(Args(f))
    BY <1>3, <1>5 DEF CellsHold
  <2>2. \A i \in DOMAIN Args(f) : ~ i <= cleanup_index[f]
    BY <1>3, <1>5, <1>11 DEF Running, CellsAt
  <2>3. 1 \in DOMAIN Args(f) => ~ 1 <= cleanup_index[f]
    BY <2>2
  <2> QED BY <1>7, <2>1, <2>3
<1>13. Nodes' = Nodes /\ \A n : Kind(n)' = Kind(n) /\ Args(n)' = Args(n)
  BY SameProgram
<1>14. \A n : InCell(n)' <=> InCell(n)
  <2>1. \A c \in Nodes : cleanup_index'[c] = cleanup_index[c]
    BY <1>9, <1>12
  <2>2. 1 .. cleanup_index[f] = {}
    BY <1>12
  <2>3. ASSUME NEW n, NEW c \in Nodes
        PROVE  (\E i \in 1 .. cleanup_index'[c] : table'[c][i] = n) <=>
                 \E i \in 1 .. cleanup_index[c] : table[c][i] = n
    <3>1. CASE c = f
      BY <2>1, <2>2, <3>1
    <3>2. CASE c # f
      BY <1>9, <3>2
    <3> QED BY <3>1, <3>2
  <2> QED BY <1>13, <2>3 DEF InCell
<1>15. CellsHold'
  <2>1. ASSUME NEW c \in Nodes
        PROVE  /\ table'[c] \in Seq(Nodes \cup {0})
               /\ cleanup_index'[c] \in 0 .. Len(Args(c))
               /\ cleanup_index'[c] <= Len(table'[c])
               /\ cleanup_index'[c] # 0 => Kind(c) \in {"tuple", "fanout"}
               /\ \A i \in 1 .. cleanup_index'[c] : table'[c][i] = Args(c)[i]
    <3>1. CASE c = f
      BY <1>7, <1>8, <1>9, <3>1
    <3>2. CASE c # f
      BY <1>3, <1>9, <3>2 DEF CellsHold
    <3> QED BY <3>1, <3>2
  <2> QED BY <1>13, <2>1 DEF CellsHold
<1>16. CellsAt(b, l + 1)'
  <2>1. \A n, k, i : /\ MadeAt(n, k, i)' <=> MadeAt(n, k, i)
                     /\ PassedAt(n, k, i)' <=> PassedAt(n, k, i)
    BY SameEmitted
  <2>2. ASSUME NEW c \in Nodes, NEW i \in DOMAIN Args(c), Kind(c) = "fanout"
        PROVE  PassedAt(Args(c)[i], b, l + 1) <=> PassedAt(Args(c)[i], b, l)
    <3>1. Accepted
      BY <1>3
    <3> QED BY <1>5, <2>2, <3>1, BranchPassed
  <2>3. \A c \in Nodes : c # f => (MadeAt(c, b, l + 1) <=> MadeAt(c, b, l))
    BY <1>3, <1>5, NextLine
  <2>4. CellsAt(b, l)
    BY <1>3 DEF Running
  <2>5. \A i \in DOMAIN Args(f) : ~ i <= cleanup_index'[f]
    BY <1>7, <1>9
  <2>6. ASSUME NEW c \in Nodes
        PROVE  /\ Kind(c) = "tuple" =>
                    cleanup_index'[c] = IF MadeAt(c, b, l + 1) THEN Len(Args(c)) ELSE 0
               /\ Kind(c) = "fanout" =>
                    /\ \A i \in DOMAIN Args(c) :
                         i <= cleanup_index'[c] <=> PassedAt(Args(c)[i], b, l + 1)
                    /\ MadeAt(c, b, l + 1) => Len(table'[c]) = Len(Args(c))
    <3>1. CASE c = f
      BY <1>5, <1>8, <1>9, <1>11, <2>5, <3>1
    <3>2. CASE c # f
      BY <1>9, <2>2, <2>3, <2>4, <3>2 DEF CellsAt
    <3> QED BY <3>1, <3>2
  <2> QED BY <1>13, <2>1, <2>6 DEF CellsAt
<1>17. NativeApart'
  BY <1>3, <1>6, <1>10, <1>13, <1>14 DEF NativeApart, Kept
<1>18. \A n \in Nodes : n \in slots' <=>
         (n \in slots /\ ~Removes(Block(b)[l], n)) \/ MakesAt(b, l, n)
  BY <1>5, <1>6
<1>19. \A n \in Nodes : Kept(n)' <=> Kept(n) \/ MakesAt(b, l, n)
  BY <1>3, <1>5, <1>6, <1>14 DEF Kept
<1>20. slots' \subseteq Nodes
  BY <1>3, <1>5, <1>6
<1> QED BY <1>1, <1>2, <1>3, <1>9, <1>15, <1>16, <1>17, <1>18, <1>19, <1>20, StepKeeps

LEMMA ExecuteFanoutKeeps ==
  ASSUME EmittedInv, UNCHANGED <<program, fault>>, ExecuteFanout
  PROVE  EmittedInv'
<1>1. CASE Succeeds(<<"admit", Current.node>>)
  BY <1>1, FanoutAdmitted
<1>2. CASE ~Succeeds(<<"admit", Current.node>>)
  BY <1>2, AbortKeeps DEF ExecuteFanout
<1> QED BY <1>1, <1>2


\* The next cell a fan-out's table is to visit is that of the branch at hand.
LEMMA NextCell ==
  ASSUME Accepted, CellsHold, NEW b \in Nodes, NEW l \in DOMAIN Block(b),
         CellsAt(b, l), l = Len(Block(b)), NEW e \in BranchPositions(b)
  PROVE  /\ e[1] \in Nodes /\ Kind(e[1]) = "fanout"
         /\ e[2] \in DOMAIN Args(e[1]) /\ Args(e[1])[e[2]] = b
         /\ \A i \in DOMAIN Args(e[1]) : Args(e[1])[i] = b => i = e[2]
         /\ e[2] = cleanup_index[e[1]] + 1
         /\ Len(table[e[1]]) = Len(Args(e[1]))
<1>1. PICK f \in Fanouts : f = e[1]
  BY BranchFacts
<1>2. PICK p \in DOMAIN Args(f) : p = e[2]
  BY <1>1, BranchFacts
<1>3. f \in Nodes /\ Kind(f) = "fanout" /\ Args(f)[p] = b
  BY <1>1, <1>2, BranchFacts DEF Fanouts
<1>4. /\ Len(Args(f)) \in Nat /\ DOMAIN Args(f) = 1 .. Len(Args(f))
      /\ \A i \in DOMAIN Args(f) : Args(f)[i] \in Nodes
      /\ Nodes \subseteq Int /\ l \in Int
      /\ cleanup_index[f] \in 0 .. Len(Args(f))
  BY <1>3, Arenas, NodesAreNumbers, BlockLines DEF CellsHold
<1>5. \A i, j \in DOMAIN Args(f) : j < i => Args(f)[j] < Args(f)[i]
  BY <1>1, FanoutFacts
<1>6. \A i \in DOMAIN Args(f) : i <= cleanup_index[f] <=> Args(f)[i] < b
  <2>1. ~ l > Len(Block(b))
    BY <1>4
  <2> QED BY <1>3, <2>1 DEF CellsAt, PassedAt
<1>7. \A i \in DOMAIN Args(f) : i < p => Args(f)[i] < b
  BY <1>3, <1>5
<1>8. \A i \in DOMAIN Args(f) : Args(f)[i] = b => i = p
  <2>1. ASSUME NEW i \in DOMAIN Args(f), Args(f)[i] = b
        PROVE  i = p
    <3>1. ~ i < p /\ ~ p < i
      BY <1>3, <1>4, <1>5, <2>1
    <3> QED BY <1>4, <3>1
  <2> QED BY <2>1
<1>9. p = cleanup_index[f] + 1
  <2>1. ~ p <= cleanup_index[f]
    BY <1>3, <1>4, <1>6
  <2>2. p > 1 => p - 1 <= cleanup_index[f]
    <3>1. SUFFICES ASSUME p > 1 PROVE p - 1 <= cleanup_index[f]
      OBVIOUS
    <3>2. p - 1 \in DOMAIN Args(f) /\ p - 1 < p
      BY <1>4, <3>1
    <3> QED BY <1>6, <1>7, <3>2
  <2>3. p \in Int /\ p >= 1 /\ cleanup_index[f] \in Int /\ cleanup_index[f] >= 0
    BY <1>4
  <2> QED BY <2>1, <2>2, <2>3
<1>10. Len(table[f]) = Len(Args(f))
  <2>1. Operand(f) < b
    <3>1. Args(f)[p] > Operand(f) /\ Operand(f) \in Nodes
      BY <1>1, FanoutFacts
    <3> QED BY <1>3, <1>4, <3>1
  <2>2. MadeAt(f, b, l)
    BY <1>3, <2>1 DEF MadeAt
  <2> QED BY <1>3, <2>2 DEF CellsAt
<1> QED BY <1>1, <1>2, <1>3, <1>8, <1>9, <1>10

\* bennu_tuple_transfer: the branch result leaves its slot for the next cell.
LEMMA ExecuteTransferKeeps ==
  ASSUME EmittedInv, UNCHANGED <<program, fault>>, ExecuteTransfer
  PROVE  EmittedInv'
<1>1. PICK b \in Nodes : b = block
  BY RunFacts DEF ExecuteTransfer
<1>2. PICK l \in DOMAIN Block(b) : l = line
  BY <1>1, RunFacts DEF ExecuteTransfer
<1>3. /\ Accepted /\ Nodes \subseteq Int /\ Current = Block(b)[l]
      /\ Current.op = "transfer"
      /\ CellsHold /\ NativeApart /\ Running(b, l)
      /\ slots \subseteq Nodes
      /\ table \in [Nodes -> Seq(Nodes \cup {0})] /\ cleanup_index \in [Nodes -> Nat]
      /\ AtInstruction("transfer") /\ Advance
      /\ UNCHANGED <<emit_uses, code, freed, native>>
  BY <1>1, <1>2, RunFacts DEF ExecuteTransfer
<1>4. /\ Current.from = <<b>> /\ l = Len(Block(b))
      /\ \E e \in BranchPositions(b) : e[1] = Current.node
      /\ \A n \in Nodes : Removes(Block(b)[l], n) <=> n = b
      /\ \A n \in Nodes : ~MakesAt(b, l, n)
  BY <1>3, LineByOp
<1>5. PICK e \in BranchPositions(b) : e[1] = Current.node
  BY <1>4
<1>6. CellsAt(b, l)
  BY <1>3 DEF Running
<1>7. PICK f \in Nodes : f = e[1]
  BY <1>3, <1>4, <1>6, NextCell
<1>8. /\ Kind(f) = "fanout" /\ e[2] \in DOMAIN Args(f) /\ Args(f)[e[2]] = b
      /\ \A i \in DOMAIN Args(f) : Args(f)[i] = b => i = e[2]
      /\ e[2] = cleanup_index[f] + 1
      /\ Len(table[f]) = Len(Args(f))
  BY <1>3, <1>4, <1>6, <1>7, NextCell
<1> DEFINE position == CHOOSE i \in DOMAIN Args(f) : Args(f)[i] = b
<1>9. position = e[2]
  BY <1>8
<1>10. PICK p \in DOMAIN Args(f) : p = e[2]
  BY <1>8
<1> DEFINE after == [table[f] EXCEPT ![p] = b]
<1>11. /\ table' = [table EXCEPT ![f] = after]
       /\ cleanup_index' = [cleanup_index EXCEPT ![f] = p]
       /\ slots' = slots \ {b}
  <2>1. /\ Current.from[1] = b /\ Current.node = f
    BY <1>4, <1>5, <1>7
  <2>2. /\ table' = [table EXCEPT ![f][position] = b]
        /\ cleanup_index' = [cleanup_index EXCEPT ![f] = @ + 1]
        /\ slots' = slots \ {b}
    BY <2>1 DEF ExecuteTransfer
  <2> HIDE DEF position
  <2> QED BY <1>3, <1>8, <1>9, <1>10, <2>2
<1>12. /\ Len(Args(f)) \in Nat /\ DOMAIN Args(f) = 1 .. Len(Args(f))
       /\ table[f] \in Seq(Nodes \cup {0}) /\ DOMAIN table[f] = 1 .. Len(Args(f))
       /\ cleanup_index[f] \in Nat /\ p = cleanup_index[f] + 1 /\ p \in 1 .. Len(Args(f))
  <2>1. Len(Args(f)) \in Nat /\ DOMAIN Args(f) = 1 .. Len(Args(f))
    BY <1>3, Arenas
  <2>2. table[f] \in Seq(Nodes \cup {0}) /\ cleanup_index[f] \in Nat
    BY <1>3
  <2>3. DOMAIN table[f] = 1 .. Len(table[f])
    BY <2>2, LenProperties
  <2> QED BY <1>8, <1>10, <2>1, <2>2, <2>3
<1>13. /\ after \in Seq(Nodes \cup {0}) /\ Len(after) = Len(Args(f))
       /\ after[p] = b /\ \A i \in 1 .. Len(Args(f)) : i # p => after[i] = table[f][i]
  BY <1>8, <1>12
<1> HIDE DEF after, position
<1>14. /\ table'[f] = after /\ cleanup_index'[f] = p
       /\ \A c \in Nodes : c # f => /\ table'[c] = table[c]
                                    /\ cleanup_index'[c] = cleanup_index[c]
       /\ table' \in [Nodes -> Seq(Nodes \cup {0})] /\ cleanup_index' \in [Nodes -> Nat]
  BY <1>3, <1>11, <1>12, <1>13
<1>15. b \in slots /\ ~InCell(b) /\ b \notin ToSet(freed)
  BY <1>3, <1>4, NextLine DEF Running, NativeApart
<1>16. Nodes' = Nodes /\ \A n : Kind(n)' = Kind(n) /\ Args(n)' = Args(n)
  BY SameProgram
<1>17. /\ \A i \in 1 .. p : i \in 1 .. cleanup_index[f] \/ i = p
       /\ \A i \in 1 .. cleanup_index[f] : i \in 1 .. p /\ i # p /\ i \in 1 .. Len(Args(f))
       /\ p \in 1 .. p
  BY <1>12
<1>18. \A n : InCell(n)' <=> InCell(n) \/ n = b
  <2>1. ASSUME NEW n, NEW c \in Nodes, c # f
        PROVE  (\E i \in 1 .. cleanup_index'[c] : table'[c][i] = n) <=>
                 \E i \in 1 .. cleanup_index[c] : table[c][i] = n
    BY <1>14, <2>1
  <2>2. ASSUME NEW n
        PROVE  (\E i \in 1 .. cleanup_index'[f] : table'[f][i] = n) <=>
                 n = b \/ \E i \in 1 .. cleanup_index[f] : table[f][i] = n
    BY <1>13, <1>14, <1>17
  <2>3. ASSUME NEW n
        PROVE  InCell(n)' <=> InCell(n) \/ n = b
    <3>1. InCell(n)' <=> \E c \in Nodes : \E i \in 1 .. cleanup_index'[c] : table'[c][i] = n
      BY <1>16 DEF InCell
    <3>2. InCell(n) <=> \E c \in Nodes : \E i \in 1 .. cleanup_index[c] : table[c][i] = n
      BY DEF InCell
    <3> QED BY <2>1, <2>2, <3>1, <3>2
  <2> QED BY <2>3
<1>19. CellsHold'
  <2>1. ASSUME NEW c \in Nodes
        PROVE  /\ table'[c] \in Seq(Nodes \cup {0})
               /\ cleanup_index'[c] \in 0 .. Len(Args(c))
               /\ cleanup_index'[c] <= Len(table'[c])
               /\ cleanup_index'[c] # 0 => Kind(c) \in {"tuple", "fanout"}
               /\ \A i \in 1 .. cleanup_index'[c] : table'[c][i] = Args(c)[i]
    <3>1. CASE c = f
      <4>1. \A i \in 1 .. cleanup_index[f] : table[f][i] = Args(f)[i]
        BY <1>3 DEF CellsHold
      <4>2. \A i \in 1 .. p : after[i] = Args(f)[i]
        BY <1>8, <1>10, <1>13, <1>17, <4>1
      <4>3. /\ p \in 0 .. Len(Args(f)) /\ p <= Len(after)
        BY <1>12, <1>13
      <4> QED BY <1>8, <1>13, <1>14, <3>1, <4>2, <4>3
    <3>2. CASE c # f
      BY <1>3, <1>14, <3>2 DEF CellsHold
    <3> QED BY <3>1, <3>2
  <2> QED BY <1>16, <2>1 DEF CellsHold
<1>20. CellsAt(b, l + 1)'
  <2>1. \A n, k, i : /\ MadeAt(n, k, i)' <=> MadeAt(n, k, i)
                     /\ PassedAt(n, k, i)' <=> PassedAt(n, k, i)
    BY SameEmitted
  <2>2. ASSUME NEW c \in Nodes, NEW i \in DOMAIN Args(c), Kind(c) = "fanout"
        PROVE  PassedAt(Args(c)[i], b, l + 1) <=>
                 PassedAt(Args(c)[i], b, l) \/ (c = f /\ i = p)
    <3>1. Accepted
      BY <1>3
    <3>2. BranchPositions(b) = {e} /\ e = <<f, p>>
      <4>1. BranchPositions(b) = {e} /\ BranchPositions(b) \subseteq OwnedPositions(program, b)
        BY <3>1, BranchFacts DEF BranchPositions
      <4>2. e = <<e[1], e[2]>>
        BY <3>1, <4>1, Positions
      <4> QED BY <1>7, <1>10, <4>1, <4>2
    <3>3. <<c, i>> \in BranchPositions(b) <=> c = f /\ i = p
      BY <3>2
    <3> QED BY <1>4, <2>2, <3>1, <3>3, BranchPassed
  <2>3. \A c \in Nodes : MadeAt(c, b, l + 1) <=> MadeAt(c, b, l)
    BY <1>3, <1>4, NextLine
  <2>4. \A i \in DOMAIN Args(f) : i <= p <=> i <= cleanup_index[f] \/ i = p
    BY <1>12
  <2>5. ASSUME NEW c \in Nodes
        PROVE  /\ Kind(c) = "tuple" =>
                    cleanup_index'[c] = IF MadeAt(c, b, l + 1) THEN Len(Args(c)) ELSE 0
               /\ Kind(c) = "fanout" =>
                    /\ \A i \in DOMAIN Args(c) :
                         i <= cleanup_index'[c] <=> PassedAt(Args(c)[i], b, l + 1)
                    /\ MadeAt(c, b, l + 1) => Len(table'[c]) = Len(Args(c))
    <3>1. CASE c = f
      <4>1. \A i \in DOMAIN Args(f) : i <= cleanup_index[f] <=> PassedAt(Args(f)[i], b, l)
        BY <1>6, <1>8 DEF CellsAt
      <4>2. \A i \in DOMAIN Args(f) : i <= p <=> PassedAt(Args(f)[i], b, l + 1)
        BY <1>8, <2>2, <2>4, <4>1
      <4> QED BY <1>8, <1>13, <1>14, <3>1, <4>2
    <3>2. CASE c # f
      BY <1>6, <1>14, <2>2, <2>3, <3>2 DEF CellsAt
    <3> QED BY <3>1, <3>2
  <2> QED BY <1>16, <2>1, <2>5 DEF CellsAt
<1>21. NativeApart'
  BY <1>3, <1>11, <1>15, <1>16, <1>18 DEF NativeApart
<1>22. \A n \in Nodes : n \in slots' <=>
         (n \in slots /\ ~Removes(Block(b)[l], n)) \/ MakesAt(b, l, n)
  BY <1>4, <1>11
<1>23. \A n \in Nodes : Kept(n)' <=> Kept(n) \/ MakesAt(b, l, n)
  BY <1>3, <1>4, <1>11, <1>15, <1>18 DEF Kept
<1>24. slots' \subseteq Nodes
  BY <1>3, <1>11
<1> QED BY <1>1, <1>2, <1>3, <1>14, <1>19, <1>20, <1>21, <1>22, <1>23, <1>24, StepKeeps


(***************************************************************************)
(* The emitter.                                                            *)
(***************************************************************************)

LEMMA InitialEmitted ==
  ProgramInit /\ EmittedInit => EmittedInv
<1> SUFFICES ASSUME ProgramInit, EmittedInit
             PROVE  EmittedInv
  OBVIOUS
<1>1. Accepted
  BY DEF ProgramInit, Accepted
<1>2. /\ Len(program.kind) \in Nat /\ Nodes = 1 .. Len(program.kind)
      /\ \A n \in Nodes : Kind(n) \in NodeKinds /\ Len(Args(n)) \in Nat
  BY <1>1, Arenas
<1>3. emit_uses = [n \in Nodes |-> UsesLeft(n, Len(code) + 1)]
  <2>1. \A n \in Nodes : UsesLeft(n, 1) = UseCount(n)
    BY <1>1, UsesAtStart
  <2>2. Len(code) + 1 = 1 /\ emit_uses = [n \in Nodes |-> UseCount(n)]
    BY DEF EmittedInit
  <2> QED BY <2>1, <2>2
<1>4. \A n \in Nodes : UsesLeft(n, 1) \in Nat
  BY <1>1, CountsAreNumbers
<1>5. emit_uses \in [Nodes -> Nat]
  <2>1. Len(code) + 1 = 1
    BY DEF EmittedInit
  <2> QED BY <1>3, <1>4, <2>1
<1>6. code = <<>> /\ Len(code) = 0 /\ DOMAIN code = {} /\ 1 .. 0 = {}
  BY DEF EmittedInit
<1>7. code = [b \in 1 .. Len(code) |-> Block(b)]
  BY <1>6
<1>8. EmittedTypeOK
  <2>1. <<>> \in Seq(Nodes) /\ <<>> \in Seq(Nodes \cup {0})
    OBVIOUS
  <2> QED BY <1>2, <1>5, <1>6, <2>1 DEF EmittedInit, EmittedTypeOK
<1>9. \A c \in Nodes : table[c] = <<>> /\ cleanup_index[c] = 0
  BY DEF EmittedInit
<1>10. \A n : ~InCell(n)
  BY <1>6, <1>9 DEF InCell
<1>11. freed = <<>> /\ ToSet(freed) = {} /\ slots = {}
  BY EmptyLog DEF EmittedInit
<1>12. CellsHold
  <2>1. <<>> \in Seq(Nodes \cup {0}) /\ Len(<<>>) = 0
    OBVIOUS
  <2>2. ASSUME NEW c \in Nodes
        PROVE  /\ table[c] \in Seq(Nodes \cup {0})
               /\ cleanup_index[c] \in 0 .. Len(Args(c))
               /\ cleanup_index[c] <= Len(table[c])
               /\ cleanup_index[c] = 0 /\ 1 .. cleanup_index[c] = {}
    <3>1. table[c] = <<>> /\ cleanup_index[c] = 0 /\ Len(Args(c)) \in Nat
      BY <1>2, <1>9
    <3> QED BY <2>1, <3>1
  <2> QED BY <2>2 DEF CellsHold
<1>13. NativeApart
  BY <1>10, <1>11, EmptyLog DEF NativeApart
<1>14. Running(1, 1)
  <2>1. \A n \in Nodes : ~MadeAt(n, 1, 1) /\ ~RemovedAt(n, 1, 1) /\ ~PassedAt(n, 1, 1)
    BY <1>1, AtStart
  <2>2. \A n \in Nodes : ~Kept(n)
    BY <1>10, <1>11 DEF Kept
  <2>3. \A c \in Nodes : \A i \in DOMAIN Args(c) : Args(c)[i] \in Nodes /\ ~ i <= 0
    BY <1>1, Arenas
  <2>4. CellsAt(1, 1)
    BY <1>9, <2>1, <2>3 DEF CellsAt
  <2> QED BY <1>11, <2>1, <2>2, <2>4 DEF Running
<1>15. 1 \in Nodes => 1 \in DOMAIN Block(1)
  <2>1. 1 \in Nodes => /\ Len(Block(1)) \in Nat /\ Len(Block(1)) >= 1
                       /\ DOMAIN Block(1) = 1 .. Len(Block(1))
    BY <1>1, BlockLines
  <2> QED BY <2>1
<1>16. block = 1 /\ line = 1 /\ native = "emitting"
  BY DEF EmittedInit
<1> QED BY <1>1, <1>2, <1>3, <1>6, <1>7, <1>8, <1>12, <1>13, <1>14, <1>15, <1>16 DEF EmittedInv

\* Where nothing but native changes, and what it says of the code and the
\* places holds already.
LEMMA OnlyNative ==
  ASSUME EmittedInv,
         UNCHANGED <<program, fault, emit_uses, code, block, line, slots, table,
                     cleanup_index, freed>>,
         \/ native' = native
         \/ native = "emitting" /\ native' = "refused"
         \/ native = "emitting" /\ native' = "executing" /\ Len(code) = Len(program.kind)
  PROVE  EmittedInv'
<1>1. /\ Accepted /\ Accepted' /\ Nodes' = Nodes
      /\ \A n, k : UsesLeft(n, k)' = UsesLeft(n, k)
      /\ \A n : Block(n)' = Block(n)
  BY SameEmitted DEF EmittedInv
<1>2. /\ \A b, l : Running(b, l) => Running(b, l)'
      /\ CellsHold' /\ NativeApart'
      /\ \A n : Kept(n) => Kept(n)'
  BY <1>1, SamePlaces DEF EmittedInv
<1>3. Running(block, line) => Running(block, line)'
  <2>1. SUFFICES ASSUME Running(block, line)
                 PROVE  Running(block, line)'
    OBVIOUS
  <2>2. ASSUME NEW b, NEW l, b = block, l = line
        PROVE  Running(block, line)'
    <3>1. Running(b, l)'
      BY <1>2, <2>1, <2>2
    <3>2. block' = b /\ line' = l
      BY <2>2
    <3> QED BY <3>1, <3>2 DEF Running, CellsAt, MadeAt, RemovedAt, PassedAt
  <2> QED BY <2>2
<1>4. /\ (Len(code) \in 0 .. Len(program.kind))'
      /\ (code = [k \in 1 .. Len(code) |-> Block(k)])'
      /\ (emit_uses = [n \in Nodes |-> UsesLeft(n, Len(code) + 1)])'
  <2>1. /\ Len(code) \in 0 .. Len(program.kind)
        /\ code = [k \in 1 .. Len(code) |-> Block(k)]
        /\ emit_uses = [n \in Nodes |-> UsesLeft(n, Len(code) + 1)]
    BY DEF EmittedInv
  <2> QED BY <1>1, <2>1
<1>5. (IF block \in Nodes THEN line \in DOMAIN Block(block) ELSE line = 1)'
  <2>1. \A n : (Block(n))' = Block(n)
    BY <1>1
  <2>2. IF block \in Nodes THEN line \in DOMAIN Block(block) ELSE line = 1
    BY DEF EmittedInv
  <2> QED BY <1>1, <2>1, <2>2
<1>6. EmittedTypeOK'
  BY <1>1 DEF EmittedInv, EmittedTypeOK
<1>7. native' \in {"emitting", "refused", "executing"} =>
        native \in {"emitting", "refused", "executing"}
  OBVIOUS
<1>8. /\ (native \in {"emitting", "refused"} => block = 1 /\ line = 1)'
      /\ (native \in {"executing", "ok", "failed"} => Len(code) = Len(program.kind))'
      /\ (native \in {"emitting", "refused", "executing"} => Running(block, line))'
  BY <1>3, <1>7 DEF EmittedInv
<1>9. (native \in {"ok", "failed"} =>
         slots = {} /\ \A n \in Nodes : n < block => Kept(n))'
  BY <1>1, <1>2 DEF EmittedInv
<1> QED BY <1>1, <1>2, <1>4, <1>5, <1>6, <1>8, <1>9 DEF EmittedInv

\* The emitter writes the block of the next node, with the counts of the nodes
\* before it.
LEMMA EmitNodeKeeps ==
  ASSUME EmittedInv, UNCHANGED <<program, fault>>, EmitNode
  PROVE  EmittedInv'
<1> DEFINE N == Len(code) + 1
<1>1. /\ Accepted /\ EmittedTypeOK /\ native = "emitting" /\ N \in Nodes
      /\ code = [k \in 1 .. Len(code) |-> Block(k)]
      /\ emit_uses = [m \in Nodes |-> UsesLeft(m, N)]
      /\ Len(code) \in 0 .. Len(program.kind)
      /\ UNCHANGED <<block, line, slots, table, cleanup_index, freed, native>>
  BY DEF EmittedInv, EmitNode
<1>2. PICK n \in Nodes : n = N
  BY <1>1
<1>3. UsesEmitted(n, emit_uses) = UsesInCode(n)
  BY <1>1, <1>2 DEF UsesInCode
<1>4. /\ code' = Append(code, Block(n))
      /\ emit_uses' = IF BranchPositions(n) = {} THEN UsesInCode(n)
                      ELSE [UsesInCode(n) EXCEPT ![n] = @ - 1]
  BY <1>2, <1>3 DEF EmitNode, Block
<1>5. emit_uses' = [m \in Nodes |-> UsesLeft(m, n + 1)]
  BY <1>1, <1>4, CountsInCode
<1>6. /\ Len(program.kind) \in Nat /\ Nodes = 1 .. Len(program.kind)
  BY <1>1, Arenas
<1>7. /\ Len(code') = n /\ code' = [k \in 1 .. n |-> Block(k)]
  BY <1>1, <1>2, <1>4
<1>8. /\ Accepted' /\ Nodes' = Nodes
      /\ \A m, k : UsesLeft(m, k)' = UsesLeft(m, k)
      /\ \A m : Block(m)' = Block(m)
  BY <1>1, SameEmitted
<1>9. /\ (Len(code) \in 0 .. Len(program.kind))'
      /\ (code = [k \in 1 .. Len(code) |-> Block(k)])'
      /\ (emit_uses = [m \in Nodes |-> UsesLeft(m, Len(code) + 1)])'
  BY <1>5, <1>6, <1>7, <1>8
<1>10. EmittedTypeOK'
  <2>1. emit_uses' \in [Nodes -> Nat]
    <3>1. \A m \in Nodes : UsesLeft(m, n + 1) \in Nat
      <4>1. n + 1 \in Int /\ Accepted
        BY <1>1, <1>6
      <4> QED BY <4>1, CountsAreNumbers
    <3> QED BY <1>5, <3>1
  <2>2. \A b \in DOMAIN code' : \A i \in DOMAIN code'[b] :
          code'[b][i] \in [op : Operations, node : Nodes, from : Seq(Nodes),
                           releases : Seq(Nodes)]
    <3>1. ASSUME NEW b \in DOMAIN code', NEW i \in DOMAIN code'[b]
          PROVE  code'[b][i] \in Instructions
      <4>1. b \in Nodes /\ code'[b] = Block(b)
        BY <1>6, <1>7
      <4>2. Block(b) \in Seq(Instructions)
        BY <1>1, <4>1, BlockLines
      <4> QED BY <4>1, <4>2, ElementOfSeq
    <3> QED BY <3>1 DEF Instructions
  <2>3. Len(code') <= Len(program.kind)
    BY <1>6, <1>7
  <2> QED BY <1>1, <1>8, <2>1, <2>2, <2>3 DEF EmittedTypeOK
<1>11. /\ Running(block, line) /\ CellsHold /\ NativeApart /\ block = 1 /\ line = 1
       /\ IF block \in Nodes THEN line \in DOMAIN Block(block) ELSE line = 1
  BY <1>1 DEF EmittedInv
<1>12. Running(1, 1)' /\ CellsHold' /\ NativeApart'
  BY <1>1, <1>11, SamePlaces
<1>13. Running(block, line)'
  <2>1. block' = 1 /\ line' = 1
    BY <1>1, <1>11
  <2> QED BY <1>12, <2>1 DEF Running, CellsAt, MadeAt, RemovedAt, PassedAt
<1>14. (IF block \in Nodes THEN line \in DOMAIN Block(block) ELSE line = 1)'
  <2>1. \A m : (Block(m))' = Block(m)
    BY <1>8
  <2> QED BY <1>1, <1>8, <1>11, <2>1
<1>15. native' = "emitting" /\ block' = 1 /\ line' = 1
  BY <1>1, <1>11
<1> QED BY <1>8, <1>9, <1>10, <1>12, <1>13, <1>14, <1>15 DEF EmittedInv

LEMMA EmittedStep ==
  EmittedInv /\ EmittedNext /\ UNCHANGED <<program, fault>> => EmittedInv'
<1> SUFFICES ASSUME EmittedInv, EmittedNext, UNCHANGED <<program, fault>>
             PROVE  EmittedInv'
  OBVIOUS
<1>1. CASE EmitNode
  BY <1>1, EmitNodeKeeps
<1>2. CASE Refuse
  BY <1>2, OnlyNative DEF Refuse
<1>3. CASE Launch
  BY <1>3, OnlyNative DEF Launch
<1>4. CASE ExecuteStore
  BY <1>4, ExecuteStoreKeeps
<1>5. CASE ExecuteLiteral
  BY <1>5, ExecuteLiteralKeeps
<1>6. CASE ExecuteApply
  BY <1>6, ExecuteApplyKeeps
<1>7. CASE ExecuteTuple
  BY <1>7, ExecuteTupleKeeps
<1>8. CASE ExecuteFanout
  BY <1>8, ExecuteFanoutKeeps
<1>9. CASE ExecuteTransfer
  BY <1>9, ExecuteTransferKeeps
<1>10. CASE ExecuteRelease
  BY <1>10, ExecuteReleaseKeeps
<1>11. CASE ExecutePrint
  BY <1>11, PrintKeeps
<1>12. CASE ExecuteRequire
  BY <1>12, ExecuteRequireKeeps
<1> QED BY <1>1, <1>2, <1>3, <1>4, <1>5, <1>6, <1>7, <1>8, <1>9, <1>10, <1>11, <1>12
        DEF EmittedNext

LEMMA EmittedStutter ==
  EmittedInv /\ UNCHANGED <<program, fault, emittedVars>> => EmittedInv'
BY OnlyNative DEF emittedVars


(***************************************************************************)
(* What follows from the invariant.                                        *)
(***************************************************************************)

\* No two of the cells that bennu_release visits hold the same value.
LEMMA OnePlaceInCells ==
  ASSUME Accepted, CellsHold, NEW c \in Nodes, NEW d \in Nodes,
         NEW i \in 1 .. cleanup_index[c], NEW j \in 1 .. cleanup_index[d],
         table[c][i] = table[d][j]
  PROVE  c = d /\ i = j
<1>1. ASSUME NEW b \in Nodes, NEW k \in 1 .. cleanup_index[b]
      PROVE  OwnedPositions(program, table[b][k]) = {<<b, k>>}
  <2>1. /\ cleanup_index[b] \in 0 .. Len(Args(b))
        /\ cleanup_index[b] # 0 => Kind(b) \in {"tuple", "fanout"}
        /\ table[b][k] = Args(b)[k]
    BY DEF CellsHold
  <2>2. Len(Args(b)) \in Nat /\ DOMAIN Args(b) = 1 .. Len(Args(b))
    BY Arenas
  <2>3. cleanup_index[b] # 0 /\ k \in DOMAIN Args(b)
    BY <2>1, <2>2
  <2> QED BY <2>1, <2>3, ElementsUsedOnce
<1>2. {<<c, i>>} = {<<d, j>>}
  BY <1>1
<1>3. <<c, i>> = <<d, j>>
  BY <1>2, <<c, i>> \in {<<d, j>>}
<1> QED BY <1>3

\* The three kinds of owner, without the unions of NativeOwners.
LEMMA NativeOwnersByKind ==
  ASSUME NEW n
  PROVE  \A o : o \in NativeOwners(n) <=>
           \/ o = <<"slot", n, 0>> /\ n \in slots
           \/ \E c \in Nodes : \E i \in 1 .. cleanup_index[c] :
                table[c][i] = n /\ o = <<"cell", c, i>>
           \/ \E i \in DOMAIN freed : freed[i] = n /\ o = <<"freed", 0, i>>
<1> DEFINE held == {<<"slot", n, 0>> : x \in {n} \cap slots}
           cells == UNION {{<<"cell", c, i>> :
                              i \in {j \in 1 .. cleanup_index[c] : table[c][j] = n}} : c \in Nodes}
           logged == {<<"freed", 0, i>> : i \in {j \in DOMAIN freed : freed[j] = n}}
<1>1. \A o : o \in held <=> o = <<"slot", n, 0>> /\ n \in slots
  OBVIOUS
<1>2. \A o : o \in cells <=> \E c \in Nodes : \E i \in 1 .. cleanup_index[c] :
                               table[c][i] = n /\ o = <<"cell", c, i>>
  OBVIOUS
<1>3. \A o : o \in logged <=> \E i \in DOMAIN freed : freed[i] = n /\ o = <<"freed", 0, i>>
  OBVIOUS
<1>4. NativeOwners(n) = held \cup cells \cup logged
  BY DEF NativeOwners
<1> HIDE DEF held, cells, logged
<1> QED BY <1>1, <1>2, <1>3, <1>4

LEMMA KeptHasOwner ==
  ASSUME NEW n, Kept(n)
  PROVE  NativeOwners(n) # {}
<1>1. CASE n \in slots
  BY <1>1, NativeOwnersByKind
<1>2. CASE InCell(n)
  <2>1. PICK c \in Nodes : \E i \in 1 .. cleanup_index[c] : table[c][i] = n
    BY <1>2 DEF InCell
  <2>2. PICK i \in 1 .. cleanup_index[c] : table[c][i] = n
    BY <2>1
  <2>3. <<"cell", c, i>> \in NativeOwners(n)
    BY <2>2, NativeOwnersByKind
  <2> QED BY <2>3
<1>3. CASE n \in ToSet(freed)
  BY <1>3, NativeOwnersByKind DEF ToSet
<1> QED BY <1>1, <1>2, <1>3 DEF Kept

LEMMA AtMostOneNativeOwner ==
  ASSUME Accepted, CellsHold, NativeApart, NEW n \in Nodes,
         NEW o \in NativeOwners(n), NEW p \in NativeOwners(n)
  PROVE  o = p
<1>1. /\ n \in slots => ~InCell(n) /\ n \notin ToSet(freed)
      /\ InCell(n) => n \notin ToSet(freed)
      /\ IsInjective(freed)
  BY DEF NativeApart
<1> DEFINE slot(x) == x = <<"slot", n, 0>> /\ n \in slots
           cell(x) == \E c \in Nodes : \E i \in 1 .. cleanup_index[c] :
                        table[c][i] = n /\ x = <<"cell", c, i>>
           log(x) == \E i \in DOMAIN freed : freed[i] = n /\ x = <<"freed", 0, i>>
<1>2. \A x \in NativeOwners(n) : slot(x) \/ cell(x) \/ log(x)
  BY NativeOwnersByKind
<1>3. \A x : /\ cell(x) => InCell(n)
             /\ log(x) => n \in ToSet(freed)
             /\ slot(x) => n \in slots
  BY DEF InCell, ToSet
<1>4. slot(o) /\ slot(p) => o = p
  OBVIOUS
<1>5. cell(o) /\ cell(p) => o = p
  <2>1. \A c, d \in Nodes : \A i \in 1 .. cleanup_index[c], j \in 1 .. cleanup_index[d] :
          table[c][i] = n /\ table[d][j] = n => c = d /\ i = j
    BY OnePlaceInCells
  <2> QED BY <2>1
<1>6. log(o) /\ log(p) => o = p
  BY <1>1 DEF IsInjective
<1> HIDE DEF slot, cell, log
<1> QED BY <1>1, <1>2, <1>3, <1>4, <1>5, <1>6

LEMMA NativeOneOwnerFollows ==
  EmittedInv => NativeOneOwner
<1> SUFFICES ASSUME EmittedInv
             PROVE  NativeOneOwner
  OBVIOUS
<1>1. Accepted /\ EmittedTypeOK /\ CellsHold /\ NativeApart
  BY DEF EmittedInv
<1>2. ASSUME NEW n \in Nodes, n < block
      PROVE  Kept(n)
  <2>1. CASE native \in {"emitting", "refused", "executing"}
    <3>1. block \in Int
      BY <1>1, Arenas DEF EmittedTypeOK
    <3>2. MadeAt(n, block, line)
      BY <1>1, <1>2, <3>1, EarlierMade
    <3> QED BY <2>1, <3>2 DEF EmittedInv, Running
  <2>2. CASE native \in {"ok", "failed"}
    BY <1>2, <2>2 DEF EmittedInv
  <2> QED BY <1>1, <2>1, <2>2 DEF EmittedTypeOK
<1>3. ASSUME NEW n \in Nodes
      PROVE  /\ Cardinality(NativeOwners(n)) <= 1
             /\ n < block => NativeOwners(n) # {}
  <2>1. CASE NativeOwners(n) = {}
    <3>1. ~ n < block
      BY <1>2, <2>1, KeptHasOwner
    <3>2. Cardinality(NativeOwners(n)) = 0
      BY <2>1, FS_EmptySet
    <3> QED BY <3>1, <3>2
  <2>2. ASSUME NEW o \in NativeOwners(n)
        PROVE  Cardinality(NativeOwners(n)) = 1
    <3>1. NativeOwners(n) = {o}
      BY <1>1, AtMostOneNativeOwner
    <3> QED BY <3>1, FS_Singleton
  <2> QED BY <2>1, <2>2
<1> QED BY <1>1, <1>3 DEF NativeOneOwner

LEMMA ReadsAreFilled ==
  EmittedInv => SlotsReadAreFilled
<1> SUFFICES ASSUME EmittedInv, native = "executing"
             PROVE  /\ block \in DOMAIN code => \A n \in ToSet(Current.from) :
                         /\ n \in slots
                         /\ Kind(n) = "placeholder" =>
                              Current.op = "require" /\ Misled(Current.node)
                    /\ block = Len(program.kind) + 1 => ToSet(program.roots) \subseteq slots
  BY DEF SlotsReadAreFilled
<1>1. /\ Accepted /\ Running(block, line)
      /\ IF block \in Nodes THEN line \in DOMAIN Block(block) ELSE line = 1
      /\ Len(code) = Len(program.kind)
      /\ code = [b \in 1 .. Len(code) |-> Block(b)]
  BY DEF EmittedInv
<1>2. Nodes = 1 .. Len(program.kind) /\ Len(program.kind) \in Nat
  BY <1>1, Arenas
<1>3. ASSUME block \in DOMAIN code, NEW m \in ToSet(Current.from)
      PROVE  /\ m \in slots
             /\ Kind(m) = "placeholder" => Current.op = "require" /\ Misled(Current.node)
  <2>1. block \in Nodes /\ Current = Block(block)[line]
    BY <1>1, <1>2, <1>3 DEF Current
  <2>2. m \in Nodes /\ MadeAt(m, block, line) /\ ~RemovedAt(m, block, line)
    BY <1>1, <1>3, <2>1, ReadsFound
  <2>3. Kind(m) = "placeholder" => Current.op = "require" /\ Misled(Current.node)
    BY <1>1, <1>3, <2>1, ReadsNoDummy
  <2> QED BY <1>1, <2>2, <2>3 DEF Running
<1>4. ASSUME block = Len(program.kind) + 1, NEW m \in ToSet(program.roots)
      PROVE  m \in slots
  <2>1. m \in Nodes
    BY <1>1, <1>4, Arenas DEF ToSet
  <2>2. block \in Int /\ m < block /\ block \notin Nodes
    BY <1>2, <1>4, <2>1
  <2>3. MadeAt(m, block, line)
    BY <1>1, <2>1, <2>2, EarlierMade
  <2>4. UsesLeft(m, block) # 0
    BY <1>1, <1>4, <2>1, <2>2, RootInUse
  <2>5. line = 1 /\ 1 .. line - 1 = {}
    BY <1>1, <2>2
  <2>6. ~RemovedAt(m, block, line)
    BY <2>4, <2>5 DEF RemovedAt
  <2> QED BY <1>1, <2>1, <2>3, <2>6 DEF Running
<1> QED BY <1>3, <1>4

\* The emitter's counts are those of the nodes still to come, and at every line
\* of the emitted program the slots hold what is made and not yet taken out,
\* the cells below a cleanup index the elements moved so far, and the log the
\* rest.
THEOREM EmittedInvariant == EmittedSpec => []EmittedInv
<1>1. ProgramInit /\ EmittedInit => EmittedInv
  BY InitialEmitted
<1>2. EmittedInv /\ [EmittedNext /\ UNCHANGED <<program, fault>>]_<<program, fault, emittedVars>>
        => EmittedInv'
  BY EmittedStep, EmittedStutter
<1> QED BY <1>1, <1>2, PTL DEF EmittedSpec

\* Every value the emitted program has made has exactly one owner, a slot, a
\* cell that bennu_release visits or the log of releases, on the way through
\* the code and on every path to bennu_failure: nothing is freed twice and
\* nothing that is made is leaked.
THEOREM NativeOneOwnerAlways == EmittedSpec => []NativeOneOwner
  BY EmittedInvariant, NativeOneOwnerFollows, PTL

\* Nothing in the emitted C checks its slots: for every program the instruction
\* that runs next finds the values it reads or moves, and only a shape check
\* that looks at a placeholder finds a dummy instead; bennu_execute finds the
\* roots it prints.
THEOREM SlotsReadAreFilledAlways == EmittedSpec => []SlotsReadAreFilled
  BY EmittedInvariant, ReadsAreFilled, PTL

\* Both back ends keep their invariants when the emitted program is run after
\* the evaluator on the same program with the same operation failing.
THEOREM BackendsInvariant == Spec => [](EvaluatorInv /\ EmittedInv)
<1>1. Init => EvaluatorInv /\ EmittedInv
  BY InitialInvariant, InitialEmitted DEF Init
<1>2. EvaluatorInv /\ EmittedInv /\ [Next]_vars => EvaluatorInv' /\ EmittedInv'
  <2>1. EvaluatorInv /\ EmittedInv /\ Evaluate => EvaluatorInv' /\ EmittedInv'
    BY EvaluatorStep, EmittedStutter DEF Evaluate
  <2>2. EvaluatorInv /\ EmittedInv /\ EmitAndRun => EvaluatorInv' /\ EmittedInv'
    BY EvaluatorStutter, EmittedStep DEF EmitAndRun
  <2>3. EvaluatorInv /\ EmittedInv /\ UNCHANGED vars => EvaluatorInv' /\ EmittedInv'
    BY EvaluatorStutter, EmittedStutter DEF vars
  <2> QED BY <2>1, <2>2, <2>3 DEF Next
<1> QED BY <1>1, <1>2, PTL DEF Spec

(***************************************************************************)
(* Parity: the evaluator and the emitted program perform the same releases *)
(* in the same order, for every flat program that is Regular and wherever  *)
(* it fails, unless the evaluator reports a failure of its own.  The       *)
(* counts of one and the code of the other are the same function of the    *)
(* program, so both have released the same values when they reach a node;  *)
(* what is left is that both leave at the same node, and that the ways in  *)
(* which they let go of the rest come to the same order.                   *)
(***************************************************************************)

\* What both release at node k, its failures aside.
Given(k) == Ended(k) \o (IF UseCount(k) = 0 THEN <<k>> ELSE <<>>)

\* log[j] is what has been released when node j is reached.
History(log, k) ==
  /\ log \in [1 .. k -> Seq(Nodes)]
  /\ log[1] = <<>>
  /\ \A j \in 1 .. k - 1 : log[j + 1] = log[j] \o Given(j)

\* The execution has not come to the operation that fails when it reaches node k.
Unmet(k) ==
  /\ fault # <<"start", 0>>
  /\ \A n \in Nodes : fault = <<"node", n>> => k <= n
  /\ \A f \in Fanouts : fault = <<"admit", f>> => k <= Operand(f) + 1

\* The execution leaves the program when it has reached node k.
Stops(k) ==
  \/ k \in Nodes /\ fault = <<"node", k>>
  \/ \E f \in Fanouts : Operand(f) + 1 = k /\ fault = <<"admit", f>>
  \/ k = Len(program.kind) + 1 /\ fault \in {<<"none", 0>>, <<"output", 0>>}

\* The slots and result tables that are filled then.
Alive(k) ==
  {n \in Nodes : n < k /\ UsesLeft(n, k) # 0}
    \cup {f \in Fanouts : Operand(f) < k /\ k <= f /\ fault # <<"admit", f>>}

\* The whole log of an execution that leaves the program at node k.
Whole(log, k) ==
  LET first == IF fault = <<"node", k>> THEN Ended(k) ELSE <<>>
  IN  log[k] \o first \o Descending(Alive(k) \ ToSet(first))

Comparable == Nested /\ ~TupleInBranchFails

EvaluatorLog(log) ==
  /\ History(log, node_index)
  /\ status \in {"idle", "running", "ok"} => released = log[node_index]
  /\ status \in {"running", "ok"} => Unmet(node_index)
  /\ status = "running" => \A f \in assemblies : fault # <<"admit", f>>
  /\ status = "ok" => /\ node_index = Len(program.kind) + 1
                      /\ values = program.roots /\ fault = <<"none", 0>>
  /\ status \in {"failed", "done"} =>
       \/ fault = <<"start", 0>> /\ status = "failed" /\ released = <<>>
       \/ /\ Stops(node_index)
          /\ status = "done" <=> fault = <<"none", 0>>
          /\ Comparable => released = Whole(log, node_index)

\* An execution that leaves the program at node k has not left it yet: it may
\* leave a call at its check or at the call itself.
Before(b, l, k) ==
  \/ b < k
  \/ b = k /\ l \in {1, First(b)} /\ \A f \in Fanouts : fault # <<"admit", f>>

\* What has been released when line l of block b is reached.
LogAt(log, b, l) ==
  IF l = 1 THEN log[b]
  ELSE log[b] \o SubSeq(Given(b), 1, l - 1 - Len(Leading(b)))

NativeLog(log) ==
  /\ native # "emitting" => status \in {"failed", "done"}
  /\ native = "emitting" => freed = <<>>
  /\ native = "refused" => freed = <<>> /\ fault = <<"start", 0>>
  /\ native = "executing" =>
       /\ fault # <<"start", 0>>
       /\ Before(block, line, node_index)
       /\ freed = LogAt(log, block, line)
  /\ native \in {"ok", "failed"} =>
       /\ fault # <<"start", 0>>
       /\ native = "ok" <=> fault = <<"none", 0>>
       /\ Comparable => freed = Whole(log, node_index)

\* Of the programs and executions that are compared: those without a call or
\* fan-out the back ends treat differently, unless the evaluator has reported a
\* failure of its own.
ParityInv ==
  Regular /\ status # "internal" =>
    \E log \in [1 .. node_index -> Seq(Nodes)] : EvaluatorLog(log) /\ NativeLog(log)

(***************************************************************************)
(* Sequences in descending order.                                          *)
(***************************************************************************)

Descends(s) == \A i, j \in 1 .. Len(s) : i < j => s[i] > s[j]

\* A set has one descending order.
LEMMA OneDescending ==
  ASSUME NEW s \in Seq(Int), Descends(s)
  PROVE  s = Descending(ToSet(s)) /\ IsFiniteSet(ToSet(s))
<1> DEFINE n == Len(s)
           S == ToSet(s)
           above(x) == {y \in S : y > x}
<1>1. n \in Nat /\ s \in [1 .. n -> Int] /\ DOMAIN s = 1 .. n
  BY LenProperties
<1>2. S = {s[i] : i \in 1 .. n}
  BY <1>1 DEF ToSet
<1>3. ASSUME NEW i \in 1 .. n, NEW j \in 1 .. n
      PROVE  s[i] > s[j] <=> i < j
  <2>1. s[i] \in Int /\ s[j] \in Int /\ i \in Int /\ j \in Int
    BY <1>1
  <2>2. (i < j => s[i] > s[j]) /\ (j < i => s[j] > s[i])
    BY DEF Descends
  <2>3. i < j \/ j < i \/ i = j
    BY <2>1
  <2> QED BY <2>1, <2>2, <2>3
<1>4. ASSUME NEW k \in 0 .. n
      PROVE  Cardinality({s[i] : i \in 1 .. k}) = k /\ IsFiniteSet({s[i] : i \in 1 .. k})
  <2> DEFINE T == {s[i] : i \in 1 .. k}
             f == [i \in 1 .. k |-> s[i]]
  <2>1. k \in Nat /\ 1 .. k \subseteq 1 .. n
    BY <1>1
  <2>2. f \in Bijection(1 .. k, T)
    <3>1. f \in [1 .. k -> T] /\ \A t \in T : \E i \in 1 .. k : f[i] = t
      OBVIOUS
    <3>2. ASSUME NEW i \in 1 .. k, NEW j \in 1 .. k, f[i] = f[j]
          PROVE  i = j
      <4>1. s[i] = s[j] /\ s[i] \in Int /\ i \in 1 .. n /\ j \in 1 .. n
        BY <1>1, <2>1, <3>2
      <4>2. ~ i < j /\ ~ j < i
        BY <1>3, <4>1
      <4> QED BY <4>1, <4>2
    <3> QED BY <3>1, <3>2 DEF Bijection, Injection, Surjection, IsInjective
  <2>3. ExistsBijection(1 .. k, T)
    BY <2>2 DEF ExistsBijection
  <2> QED BY <2>1, <2>3, FS_CountingElements, FS_NatBijection
<1> HIDE DEF n, S, above
<1>5. Cardinality(S) = n /\ IsFiniteSet(S)
  <2>1. n \in 0 .. n
    BY <1>1
  <2> QED BY <1>2, <1>4, <2>1
<1>6. S \subseteq Int
  BY <1>1, <1>2
<1>7. ASSUME NEW i \in 1 .. n
      PROVE  /\ s[i] \in S
             /\ Cardinality(above(s[i])) = i - 1
  <2>1. above(s[i]) = {s[j] : j \in 1 .. i - 1}
    <3>1. \A j \in 1 .. n : j \in 1 .. i - 1 <=> j < i
      BY <1>1
    <3>2. \A j \in 1 .. i - 1 : j \in 1 .. n
      BY <1>1
    <3>3. \A x \in above(s[i]) : x \in {s[j] : j \in 1 .. i - 1}
      BY <1>2, <1>3, <3>1 DEF above
    <3>4. \A j \in 1 .. i - 1 : s[j] \in above(s[i])
      BY <1>2, <1>3, <3>1, <3>2 DEF above
    <3> QED BY <3>3, <3>4
  <2>2. i - 1 \in 0 .. n
    BY <1>1
  <2>3. Cardinality({s[j] : j \in 1 .. i - 1}) = i - 1
    BY <1>4, <2>2
  <2> QED BY <1>2, <2>1, <2>3
<1>8. ASSUME NEW i \in 1 .. n
      PROVE  (CHOOSE x \in S : Cardinality(above(x)) = i - 1) = s[i]
  <2>1. \A x, y \in S : x > y => Cardinality(above(x)) < Cardinality(above(y))
    BY <1>5, <1>6, Ranks DEF above
  <2>2. \A x \in S : Cardinality(above(x)) = i - 1 => x = s[i]
    <3>1. SUFFICES ASSUME NEW x \in S, Cardinality(above(x)) = i - 1
                   PROVE  x = s[i]
      OBVIOUS
    <3>2. s[i] \in Int /\ x \in Int /\ i - 1 \in Int
      BY <1>1, <1>6
    <3>3. ~ x > s[i]
      <4>1. x > s[i] => i - 1 < i - 1
        BY <1>7, <2>1, <3>1
      <4> QED BY <3>2, <4>1
    <3>4. ~ s[i] > x
      <4>1. s[i] > x => i - 1 < i - 1
        BY <1>7, <2>1, <3>1
      <4> QED BY <3>2, <4>1
    <3> QED BY <3>2, <3>3, <3>4
  <2> QED BY <1>7, <2>2
<1>9. Descending(S) = [i \in 1 .. n |-> CHOOSE x \in S : Cardinality(above(x)) = i - 1]
  BY <1>5 DEF Descending, above
<1>10. s = [i \in 1 .. n |-> s[i]]
  BY <1>1
<1>11. s = Descending(S)
  BY <1>8, <1>9, <1>10
<1> QED BY <1>5, <1>11 DEF S

\* What is larger comes first.
LEMMA DescendingJoins ==
  ASSUME NEW S, NEW T, IsFiniteSet(S), IsFiniteSet(T), S \subseteq Int, T \subseteq Int,
         \A x \in S, y \in T : x > y
  PROVE  Descending(S \cup T) = Descending(S) \o Descending(T)
<1> DEFINE a == Descending(S)
           b == Descending(T)
<1>1. /\ a \in Seq(S) /\ ToSet(a) = S /\ Descends(a)
      /\ b \in Seq(T) /\ ToSet(b) = T /\ Descends(b)
  BY DescendingEnumerates DEF Descends
<1> HIDE DEF a, b
<1>2. a \in Seq(Int) /\ b \in Seq(Int)
  BY <1>1, SeqMonotonic
<1>3. /\ a \o b \in Seq(Int)
      /\ Len(a) \in Nat /\ Len(b) \in Nat /\ Len(a \o b) = Len(a) + Len(b)
      /\ \A i \in 1 .. Len(a) : (a \o b)[i] = a[i]
      /\ \A j \in 1 .. Len(b) : (a \o b)[Len(a) + j] = b[j]
  BY <1>2, TwoParts
<1>4. ToSet(a \o b) = S \cup T
  BY <1>1, <1>2, JoinedLogs
<1>5. ASSUME NEW i \in 1 .. Len(a \o b), NEW j \in 1 .. Len(a \o b), i < j
      PROVE  (a \o b)[i] > (a \o b)[j]
  <2>1. CASE j <= Len(a)
    <3>1. i \in 1 .. Len(a) /\ j \in 1 .. Len(a)
      BY <1>3, <1>5, <2>1
    <3> QED BY <1>1, <1>3, <1>5, <3>1 DEF Descends
  <2>2. CASE i > Len(a)
    <3> DEFINE ib == i - Len(a)
               jb == j - Len(a)
    <3>1. ib \in 1 .. Len(b) /\ jb \in 1 .. Len(b) /\ ib < jb
          /\ i = Len(a) + ib /\ j = Len(a) + jb
      BY <1>3, <1>5, <2>2
    <3> HIDE DEF ib, jb
    <3>2. b[ib] > b[jb]
      BY <1>1, <3>1 DEF Descends
    <3> QED BY <1>3, <3>1, <3>2
  <2>3. CASE i <= Len(a) /\ j > Len(a)
    <3> DEFINE jb == j - Len(a)
    <3>1. i \in 1 .. Len(a) /\ jb \in 1 .. Len(b) /\ j = Len(a) + jb
      BY <1>3, <2>3
    <3> HIDE DEF jb
    <3>2. (a \o b)[i] = a[i] /\ (a \o b)[j] = b[jb]
      BY <1>3, <3>1
    <3>3. a[i] \in S /\ b[jb] \in T
      BY <1>1, <3>1, ElementOfSeq
    <3> QED BY <3>2, <3>3
  <2> QED BY <1>3, <2>1, <2>2, <2>3
<1>6. Descends(a \o b)
  BY <1>5 DEF Descends
<1> QED BY <1>3, <1>4, <1>6, OneDescending DEF a, b

\* An ascending sequence backwards.
LEMMA ReverseAscending ==
  ASSUME NEW s \in Seq(Int), Ascends(s)
  PROVE  Reverse(s) = Descending(ToSet(s)) /\ IsFiniteSet(ToSet(s))
<1>1. Len(s) \in Nat /\ DOMAIN s = 1 .. Len(s)
  BY LenProperties
<1>2. Reverse(s) = [i \in 1 .. Len(s) |-> s[Len(s) - i + 1]] /\ Len(Reverse(s)) = Len(s)
  BY <1>1 DEF Reverse
<1>3. ASSUME NEW i \in 1 .. Len(s), NEW j \in 1 .. Len(s), i < j
      PROVE  Reverse(s)[i] > Reverse(s)[j]
  <2> DEFINE ri == Len(s) - i + 1
             rj == Len(s) - j + 1
  <2>1. ri \in 1 .. Len(s) /\ rj \in 1 .. Len(s) /\ rj < ri
    BY <1>1, <1>3
  <2>2. Reverse(s)[i] = s[ri] /\ Reverse(s)[j] = s[rj]
    BY <1>2
  <2> HIDE DEF ri, rj
  <2>3. s[rj] < s[ri] /\ s[ri] \in Int /\ s[rj] \in Int
    BY <1>1, <2>1, ElementOfSeq DEF Ascends
  <2> QED BY <2>2, <2>3
<1>4. Descends(Reverse(s))
  BY <1>2, <1>3 DEF Descends
<1> QED BY <1>4, ReverseProperties, OneDescending

LEMMA DescendingNothing ==
  Descending({}) = <<>>
<1>1. Descending({}) \in Seq({}) /\ Len(Descending({})) = Cardinality({})
  BY FS_EmptySet, DescendingEnumerates
<1>2. Cardinality({}) = 0
  BY FS_EmptySet
<1> QED BY <1>1, <1>2, EmptySeq

\* A release list whose values are all there is performed as it is.
LEMMA FreeingAll ==
  ASSUME NEW nodes \in Seq(Nodes), ToSet(nodes) \subseteq slots
  PROVE  Freeing(nodes) = nodes
<1> DEFINE n == Len(nodes)
           down == [i \in 1 .. n |-> n - i + 1]
<1>1. n \in Nat /\ DOMAIN nodes = 1 .. n
  BY LenProperties
<1>2. {i \in DOMAIN nodes : nodes[i] \in slots} = 1 .. n
  BY <1>1 DEF ToSet
<1>3. down \in Seq(Int) /\ Len(down) = n /\ DOMAIN down = 1 .. n
  BY <1>1
<1>4. Descends(down)
  <2>1. ASSUME NEW i \in 1 .. n, NEW j \in 1 .. n, i < j
        PROVE  down[i] > down[j]
    BY <1>1, <2>1
  <2> QED BY <1>3, <2>1 DEF Descends
<1>5. ToSet(down) = 1 .. n
  <2>1. \A i \in 1 .. n : down[i] \in 1 .. n
    BY <1>1
  <2>2. \A i \in 1 .. n : n - i + 1 \in 1 .. n /\ down[n - i + 1] = i
    BY <1>1
  <2> HIDE DEF down
  <2> QED BY <1>3, <2>1, <2>2 DEF ToSet
<1>6. Descending(1 .. n) = down
  BY <1>3, <1>4, <1>5, OneDescending
<1>7. Reverse(down) = [i \in 1 .. n |-> i]
  <2>1. Reverse(down) = [i \in 1 .. n |-> down[n - i + 1]]
    BY <1>3 DEF Reverse
  <2>2. \A i \in 1 .. n : down[n - i + 1] = i
    BY <1>1
  <2> HIDE DEF down
  <2> QED BY <2>1, <2>2
<1>8. Freeing(nodes) = At(nodes, [i \in 1 .. n |-> i])
  BY <1>2, <1>6, <1>7 DEF Freeing
<1>9. At(nodes, [i \in 1 .. n |-> i]) = [i \in 1 .. n |-> nodes[i]]
  BY DEF At
<1> QED BY <1>1, <1>8, <1>9, LenProperties

(***************************************************************************)
(* What the logs are made of.                                              *)
(***************************************************************************)

LEMMA SameLogs ==
  ASSUME UNCHANGED <<program, fault>>
  PROVE  /\ \A k : Given(k)' = Given(k) /\ Ended(k)' = Ended(k)
         /\ \A k : Leading(k)' = Leading(k) /\ Alive(k)' = Alive(k)
         /\ \A k : (Stops(k)' <=> Stops(k)) /\ (Unmet(k)' <=> Unmet(k))
         /\ \A log, k : /\ History(log, k)' <=> History(log, k)
                        /\ Whole(log, k)' = Whole(log, k)
         /\ \A log, b, l : LogAt(log, b, l)' = LogAt(log, b, l)
         /\ \A b, l, k : Before(b, l, k)' <=> Before(b, l, k)
         /\ Comparable' <=> Comparable
         /\ Regular' <=> Regular
<1>1. /\ Nodes' = Nodes /\ Fanouts' = Fanouts
      /\ \A n : Kind(n)' = Kind(n) /\ Args(n)' = Args(n) /\ Operand(n)' = Operand(n)
      /\ \A n, k : UsesLeft(n, k)' = UsesLeft(n, k)
  BY SameProgram
<1>2. /\ \A n : UseCount(n)' = UseCount(n) /\ OwnerOf(n)' = OwnerOf(n)
      /\ \A n : RetainedRoot(n)' <=> RetainedRoot(n)
  BY DEF UseCount, OwnerOf, RetainedRoot, OwnedPositions, Nodes, Fanouts, Kind, Operand, Args
<1>3. \A n : UsesInCode(n)' = UsesInCode(n)
  BY <1>1 DEF UsesInCode, UsesEmitted, UsesAfter
<1>4. \A uses, args : FinalUses(uses, args)' = FinalUses(uses, args)
  BY <1>2 DEF FinalUses
<1>5. \A k : Ended(k)' = Ended(k)
  BY <1>1, <1>3, <1>4 DEF Ended
<1>6. \A k : Given(k)' = Given(k)
  BY <1>2, <1>5 DEF Given
<1>7. (\A k : Leading(k)' = Leading(k)) /\ \A k : First(k)' = First(k)
  <2>1. \A n, final : ShapeCheck(n, final)' = ShapeCheck(n, final)
    BY <1>1, <1>2, SameCardinalities DEF ShapeCheck, OwnersRead
  <2>2. \A k : Checks(k)' = Checks(k) /\ Making(k)' = Making(k)
    BY <1>1, <1>2, <1>5, <2>1 DEF Checks, Making, LeadingOp, LeadingFrom, OwnersRead
  <2> QED BY <1>1, <2>2 DEF Leading, First
<1>8. \A k : Alive(k)' = Alive(k)
  BY <1>1 DEF Alive
<1>9. \A k : (Stops(k)' <=> Stops(k)) /\ (Unmet(k)' <=> Unmet(k))
  BY <1>1 DEF Stops, Unmet
<1>10. \A log, k : (History(log, k)' <=> History(log, k)) /\ Whole(log, k)' = Whole(log, k)
  BY <1>1, <1>5, <1>6, <1>8 DEF History, Whole
<1>11. \A log, b, l : LogAt(log, b, l)' = LogAt(log, b, l)
  BY <1>6, <1>7 DEF LogAt
<1>12. \A b, l, k : Before(b, l, k)' <=> Before(b, l, k)
  BY <1>1, <1>7 DEF Before
<1>13. Comparable' <=> Comparable
  BY <1>1, <1>2 DEF Comparable, Nested, TupleInBranchFails
<1>14. Regular' <=> Regular
  BY <1>1, SameCardinalities DEF Regular
<1> QED BY <1>5, <1>6, <1>7, <1>8, <1>9, <1>10, <1>11, <1>12, <1>13, <1>14

LEMMA GivenFacts ==
  ASSUME Accepted, NEW k \in Nodes
  PROVE  /\ Given(k) \in Seq(Nodes) /\ Ended(k) \in Seq(Nodes)
         /\ UseCount(k) # 0 => Given(k) = Ended(k)
         /\ Kind(k) \notin {"call", "fanout"} => Ended(k) = <<>>
<1>1. Ended(k) \in Seq(Nodes)
  BY EndedFacts
<1>2. <<k>> \in Seq(Nodes) /\ <<>> \in Seq(Nodes)
  BY Singletons
<1>3. Ended(k) \o <<>> = Ended(k) /\ Ended(k) \o <<k>> \in Seq(Nodes)
  BY <1>1, <1>2, ConcatEmptySeq, ConcatProperties
<1>4. Kind(k) \notin {"call", "fanout"} => Ended(k) = <<>>
  BY DEF Ended
<1> QED BY <1>1, <1>3, <1>4 DEF Given

\* A value that is made with no use left is one that nothing uses.
LEMMA UnusedWhenMade ==
  ASSUME Accepted, NEW k \in Nodes
  PROVE  /\ BranchPositions(k) = {} => UsesLeft(k, k + 1) = UseCount(k)
         /\ BranchPositions(k) # {} => UseCount(k) # 0
<1>1. BranchPositions(k) = {} => UsesLeft(k, k + 1) = UseCount(k)
  BY UsesAfterMade
<1>2. ASSUME BranchPositions(k) # {}, UseCount(k) = 0
      PROVE  FALSE
  <2> PICK e \in BranchPositions(k) : TRUE
    BY <1>2
  <2>1. /\ Closing(k) = <<Instruction("transfer", e[1], <<k>>, <<>>)>>
        /\ Closing(k) = <<Instruction("release", k, <<>>, <<>>)>>
    BY <1>2, ClosingFacts
  <2>2. Instruction("transfer", e[1], <<k>>, <<>>) = Instruction("release", k, <<>>, <<>>)
    <3>1. \A x, y : <<x>> = <<y>> => x = y
      OBVIOUS
    <3> QED BY <2>1, <3>1
  <2>3. Instruction("transfer", e[1], <<k>>, <<>>).op = "transfer"
        /\ Instruction("release", k, <<>>, <<>>).op = "release"
    BY InstructionFields
  <2> QED BY <2>2, <2>3
<1> QED BY <1>1, <1>2

\* The execution that fails nowhere comes to the end.
LEMMA UnmetAtEnd ==
  ASSUME Accepted, Unmet(Len(program.kind) + 1)
  PROVE  fault \in {<<"none", 0>>, <<"output", 0>>}
<1> DEFINE N == Len(program.kind)
<1>1. N \in Nat /\ Nodes = 1 .. N
  BY Arenas
<1>2. fault # <<"start", 0>>
  BY DEF Unmet
<1>3. ASSUME NEW n \in Nodes
      PROVE  fault # <<"node", n>>
  <2>1. n \in Int /\ n <= N /\ ~ N + 1 <= n
    BY <1>1
  <2> QED BY <2>1 DEF Unmet
<1>4. ASSUME NEW f \in Fanouts
      PROVE  fault # <<"admit", f>>
  <2>1. f \in Nodes /\ Operand(f) \in Nodes /\ Operand(f) < f
    BY FanoutFacts
  <2>2. ~ N + 1 <= Operand(f) + 1
    BY <1>1, <2>1
  <2> QED BY <2>2 DEF Unmet
<1>5. fault \in Faults(program) /\ Nodes = NodesOf(program)
      /\ Fanouts = {m \in NodesOf(program) : program.kind[m] = "fanout"}
  BY DEF Accepted, Nodes, Fanouts, Kind
<1> QED BY <1>2, <1>3, <1>4, <1>5 DEF Faults

\* Nothing has two faults.
LEMMA OneFault ==
  ASSUME NEW k, Stops(k), Accepted
  PROVE  /\ fault # <<"start", 0>>
         /\ (fault = <<"none", 0>> \/ fault = <<"output", 0>>) =>
              k = Len(program.kind) + 1
         /\ \A n : fault = <<"node", n>> => n = k /\ k \in Nodes
                                               /\ Kind(k) \in {"vector", "call", "tuple"}
         /\ \A f : fault = <<"admit", f>> => f \in Fanouts /\ Operand(f) + 1 = k
<1>1. \A x, y, u, v : <<x, y>> = <<u, v>> <=> x = u /\ y = v
  OBVIOUS
<1>2. \A n : fault = <<"node", n>> => n \in Nodes /\ Kind(n) \in {"vector", "call", "tuple"}
  <2>1. fault \in Faults(program) /\ Nodes = NodesOf(program)
    BY DEF Accepted, Nodes
  <2> QED BY <1>1, <2>1 DEF Faults, Kind
<1> QED BY <1>1, <1>2 DEF Stops

(***************************************************************************)
(* What is left at the end of an execution.                                *)
(***************************************************************************)

LEMMA AliveIsFinite ==
  ASSUME Accepted, NEW S, S \subseteq Nodes
  PROVE  IsFiniteSet(S) /\ S \subseteq Int
  BY NodesAreNumbers, FS_Subset

\* At the end only the roots are left.
LEMMA RootsAreLeft ==
  ASSUME Accepted
  PROVE  /\ Alive(Len(program.kind) + 1) = ToSet(program.roots)
         /\ Comparable => Reverse(program.roots) = Descending(ToSet(program.roots))
<1> DEFINE N == Len(program.kind)
<1>1. N \in Nat /\ Nodes = 1 .. N /\ program.roots \in Seq(Nodes)
  BY Arenas
<1>2. \A n \in Nodes : n < N + 1 /\ ~ N + 1 <= n
  BY <1>1
<1>3. \A n \in Nodes : UsesLeft(n, N + 1) # 0 <=> n \in ToSet(program.roots)
  BY UsesAtEnd
<1>4. ToSet(program.roots) \subseteq Nodes
  BY <1>1, LenProperties DEF ToSet
<1>5. Alive(N + 1) = ToSet(program.roots)
  BY <1>2, <1>3, <1>4 DEF Alive, Fanouts
<1>6. program.roots \in Seq(Int)
  BY <1>1, NodesAreNumbers, SeqMonotonic
<1>7. Comparable => Ascends(program.roots)
  BY DEF Comparable, Nested
<1> QED BY <1>5, <1>6, <1>7, ReverseAscending

\* A tuple that fails outside a fan-out's branches has elements above all else.
LEMMA TupleLetsGo ==
  ASSUME Accepted, Comparable, NEW k \in Nodes, Kind(k) = "tuple", fault = <<"node", k>>
  PROVE  Reverse(Args(k)) \o Descending(Alive(k) \ ToSet(Args(k))) = Descending(Alive(k))
<1> DEFINE A == ToSet(Args(k))
           R == Alive(k) \ A
<1>1. /\ k \in Int /\ Nodes \subseteq Int
      /\ Args(k) \in Seq(Nodes) /\ \A i \in DOMAIN Args(k) : Args(k)[i] < k
      /\ A \subseteq Nodes
  BY Arenas, NodesAreNumbers, LenProperties DEF ToSet
<1>2. ASSUME NEW f \in Fanouts, Operand(f) < k, k <= f
      PROVE  FALSE
  <2>1. f \in Int /\ f # k /\ Operand(f) \in Int /\ f \in Nodes /\ Kind(f) = "fanout"
    BY <1>1, FanoutFacts
  <2>2. k \in Operand(f) + 1 .. f - 1
    BY <1>1, <1>2, <2>1
  <2> QED BY <2>2 DEF Comparable, TupleInBranchFails
<1>3. Alive(k) = {n \in Nodes : n < k /\ UsesLeft(n, k) # 0}
  BY <1>2 DEF Alive
<1>4. A \subseteq Alive(k)
  <2>1. \A i \in DOMAIN Args(k) : UsesLeft(Args(k)[i], k) # 0
    BY UsesFound
  <2> QED BY <1>1, <1>3, <2>1 DEF ToSet
<1>5. /\ Ascends(Args(k))
      /\ \A element \in A : \A m \in element + 1 .. k - 1 :
           ~RetainedRoot(m) /\ \A consumer \in k + 1 .. Len(program.kind) :
                                 m \notin ToSet(Args(consumer))
  BY DEF Comparable, Nested
<1>6. ASSUME NEW x \in A, NEW y \in R
      PROVE  x > y
  <2>1. SUFFICES ASSUME y \in x + 1 .. k - 1
                 PROVE  FALSE
    <3>1. x \in Int /\ y \in Int /\ y < k /\ x # y
      BY <1>1, <1>3
    <3> QED BY <1>1, <3>1
  <2>2. y \in Nodes /\ y < k /\ UsesLeft(y, k) # 0 /\ y \notin A
    BY <1>3
  <2>3. Occurrences(program.roots, y) = 0
    BY <1>5, <2>1, <2>2, CountsAreNumbers, <1>1 DEF RetainedRoot
  <2>4. LaterFanouts(y, k) = {}
    <3>1. \A f \in Fanouts : Operand(f) = y /\ f >= k => FALSE
      <4>1. \A f \in Fanouts : f \in Int
        BY <1>1 DEF Fanouts
      <4>2. \A f \in Fanouts : f >= k => k <= f
        BY <1>1, <4>1
      <4> QED BY <1>2, <2>2, <4>2
    <3> QED BY <3>1 DEF LaterFanouts
  <2>5. LaterPositions(y, k) = {}
    <3>1. SUFFICES ASSUME NEW e \in OwnedPositions(program, y), e[1] >= k
                   PROVE  FALSE
      BY DEF LaterPositions
    <3>2. e[1] \in Nodes /\ e[2] \in DOMAIN Args(e[1]) /\ Args(e[1])[e[2]] = y
      BY <2>2, Positions
    <3>3. y \in ToSet(Args(e[1]))
      BY <3>2 DEF ToSet
    <3>4. Len(program.kind) \in Nat /\ Nodes = 1 .. Len(program.kind)
      BY Arenas
    <3>5. e[1] = k \/ e[1] \in k + 1 .. Len(program.kind)
      <4> PICK c \in Nodes : c = e[1]
        BY <3>2
      <4> QED BY <1>1, <3>1, <3>4
    <3> QED BY <1>5, <2>1, <2>2, <3>3, <3>5
  <2>6. Cardinality(LaterPositions(y, k)) = 0 /\ Cardinality(LaterFanouts(y, k)) = 0
    BY <2>4, <2>5, FS_EmptySet
  <2> QED BY <2>2, <2>3, <2>6 DEF UsesLeft
<1>7. Alive(k) = A \cup R
  BY <1>4
<1>8. IsFiniteSet(A) /\ A \subseteq Int /\ IsFiniteSet(R) /\ R \subseteq Int
  BY <1>1, <1>3, AliveIsFinite
<1>9. Descending(A \cup R) = Descending(A) \o Descending(R)
  BY <1>6, <1>8, DescendingJoins
<1>10. Reverse(Args(k)) = Descending(A)
  <2>1. Args(k) \in Seq(Int)
    BY <1>1, SeqMonotonic
  <2> QED BY <1>5, <2>1, ReverseAscending
<1> QED BY <1>7, <1>9, <1>10

(***************************************************************************)
(* The evaluator's log.                                                    *)
(***************************************************************************)

LEMMA HistoryGrows ==
  ASSUME NEW k \in Nat \ {0}, NEW log, History(log, k), Given(k) \in Seq(Nodes),
         NEW longer,
         longer = [j \in 1 .. k + 1 |-> IF j <= k THEN log[j] ELSE log[k] \o Given(k)]
  PROVE  History(longer, k + 1) /\ longer[k + 1] = log[k] \o Given(k)
<1>1. log \in [1 .. k -> Seq(Nodes)] /\ log[1] = <<>>
      /\ \A j \in 1 .. k - 1 : log[j + 1] = log[j] \o Given(j)
  BY DEF History
<1>2. log[k] \o Given(k) \in Seq(Nodes)
  BY <1>1, ConcatProperties
<1>3. longer \in [1 .. k + 1 -> Seq(Nodes)]
  BY <1>1, <1>2
<1>4. \A j \in 1 .. k : longer[j] = log[j]
  OBVIOUS
<1>5. longer[k + 1] = log[k] \o Given(k)
  OBVIOUS
<1>6. longer[1] = <<>>
  BY <1>1, <1>4
<1>7. ASSUME NEW j \in 1 .. k
      PROVE  longer[j + 1] = longer[j] \o Given(j)
  <2>1. CASE j = k
    BY <1>4, <1>5, <2>1
  <2>2. CASE j # k
    <3>1. j \in 1 .. k - 1 /\ j + 1 \in 1 .. k
      BY <2>2
    <3> QED BY <1>1, <1>4, <3>1
  <2> QED BY <2>1, <2>2
<1>8. (k + 1) - 1 = k
  OBVIOUS
<1> QED BY <1>3, <1>5, <1>6, <1>7, <1>8 DEF History

\* An iteration that succeeds adds what the node gives.
LEMMA EvaluatorMovesOn ==
  ASSUME EvaluatorInv, NEW log, EvaluatorLog(log), status = "running",
         UNCHANGED <<program, fault, status>>,
         NEW k \in Nodes, k = node_index, node_index' = k + 1,
         released' = released \o Given(k),
         fault # <<"node", k>>, AdmittedBefore(k) \subseteq assemblies,
         assemblies' \subseteq assemblies
  PROVE  \E longer : EvaluatorLog(longer)'
<1>1. /\ Accepted /\ Nodes \subseteq Int /\ k \in Nat \ {0}
      /\ Len(program.kind) \in Nat
  BY LoopFacts, Arenas
<1>2. Given(k) \in Seq(Nodes)
  BY <1>1, GivenFacts
<1>3. PICK longer :
        longer = [j \in 1 .. k + 1 |-> IF j <= k THEN log[j] ELSE log[k] \o Given(k)]
  OBVIOUS
<1>4. History(longer, k + 1) /\ longer[k + 1] = log[k] \o Given(k)
  BY <1>1, <1>2, <1>3, HistoryGrows DEF EvaluatorLog
<1>5. released' = longer[k + 1]
  BY <1>4 DEF EvaluatorLog
<1>6. Unmet(k + 1)
  <2>1. Unmet(k) /\ \A f \in assemblies : fault # <<"admit", f>>
    BY DEF EvaluatorLog
  <2>2. ASSUME NEW n \in Nodes, fault = <<"node", n>>
        PROVE  k + 1 <= n
    <3>1. k <= n /\ n # k /\ n \in Int
      BY <1>1, <2>1, <2>2 DEF Unmet
    <3> QED BY <1>1, <3>1
  <2>3. ASSUME NEW f \in Fanouts, fault = <<"admit", f>>
        PROVE  k + 1 <= Operand(f) + 1
    <3>1. k <= Operand(f) + 1 /\ Operand(f) \in Int
      BY <1>1, <2>1, <2>3, FanoutFacts DEF Unmet
    <3>2. Operand(f) + 1 # k
      BY <2>1, <2>3 DEF AdmittedBefore
    <3> QED BY <1>1, <3>1, <3>2
  <2> QED BY <2>1, <2>2, <2>3 DEF Unmet
<1>7. \A f \in assemblies' : fault # <<"admit", f>>
  BY DEF EvaluatorLog
<1>8. History(longer, k + 1)' /\ Unmet(k + 1)'
  BY <1>4, <1>6, SameLogs
<1>9. History(longer, node_index)' /\ Unmet(node_index)'
  BY <1>8 DEF History, Unmet
<1>10. status' = "running" /\ fault' = fault /\ released' = longer[node_index']
  BY <1>5
<1> QED BY <1>7, <1>9, <1>10 DEF EvaluatorLog

\* What a store adds to the log.
LEMMA StoreGives ==
  ASSUME EvaluatorInv, EvaluatorInv', status = "running", UNCHANGED <<program, fault, status>>,
         NEW k \in Nodes, BranchPositions(k) = {}, k = node_index, NEW uses, NEW live,
         Store(k, uses, live, Ended(k))
  PROVE  released' = released \o Given(k) /\ node_index' = k + 1
<1>1. /\ Accepted /\ remaining_uses' = uses /\ node_index' = k + 1
      /\ released' = released \o Ended(k) \o (IF uses[k] = 0 THEN <<k>> ELSE <<>>)
  BY LoopFacts DEF Store
<1>2. remaining_uses' = [n \in Nodes' |-> UsesLeft(n, node_index)']
  BY DEF EvaluatorInv, LoopHolds
<1>3. Nodes' = Nodes /\ \A n : UsesLeft(n, k + 1)' = UsesLeft(n, k + 1)
  BY SameProgram
<1>4. uses[k] = UsesLeft(k, k + 1)
  <2>1. UsesLeft(k, node_index)' = UsesLeft(k, k + 1)
    BY <1>1, <1>3 DEF UsesLeft, LaterPositions, LaterFanouts
  <2> QED BY <1>1, <1>2, <1>3, <2>1
<1>5. uses[k] = UseCount(k)
  BY <1>1, <1>4, UnusedWhenMade
<1> DEFINE last == IF UseCount(k) = 0 THEN <<k>> ELSE <<>>
<1>6. last \in Seq(Nodes) /\ Ended(k) \in Seq(Nodes) /\ released \in Seq(Nodes)
  BY <1>1, Singletons, GivenFacts DEF EvaluatorInv, OwnersApart
<1>7. released' = (released \o Ended(k)) \o last
  BY <1>1, <1>5
<1> HIDE DEF last
<1>8. released' = released \o (Ended(k) \o last)
  BY <1>6, <1>7, LogsAssociate
<1> QED BY <1>1, <1>8 DEF Given, last

\* Everything in a slot or a result table, in the order of a cleanup.
LEMMA AliveIsOwned ==
  ASSUME EvaluatorInv, status = "running", NEW log, EvaluatorLog(log),
         \A f \in AdmittedBefore(node_index) : f \in assemblies \/ fault = <<"admit", f>>
  PROVE  /\ Alive(node_index) = assemblies \cup node_live
         /\ assemblies \subseteq Nodes /\ node_live \subseteq Nodes
         /\ \A f \in assemblies, n \in node_live : f > n
<1> DEFINE k == node_index
<1>1. /\ Accepted /\ Nodes \subseteq Int /\ k \in Int
      /\ node_live = {n \in Nodes : n < k /\ UsesLeft(n, k) # 0}
      /\ \A f \in assemblies : f \in Fanouts /\ Operand(f) < k /\ k <= f
      /\ \A f \in Fanouts : Operand(f) + 1 < k /\ k <= f => f \in assemblies
  BY LoopFacts
<1>2. \A f \in assemblies : fault # <<"admit", f>>
  BY DEF EvaluatorLog
<1>3. Fanouts \subseteq Nodes
  BY DEF Fanouts
<1>4. ASSUME NEW f \in Fanouts
      PROVE  f \in assemblies <=> Operand(f) < k /\ k <= f /\ fault # <<"admit", f>>
  <2>1. Operand(f) \in Int
    BY <1>1, FanoutFacts
  <2>2. Operand(f) < k => Operand(f) + 1 < k \/ Operand(f) + 1 = k
    BY <1>1, <2>1
  <2>3. Operand(f) + 1 = k => f \in AdmittedBefore(k)
    BY DEF AdmittedBefore
  <2> QED BY <1>1, <1>2, <2>2, <2>3
<1>5. Alive(k) = assemblies \cup node_live
  BY <1>1, <1>4 DEF Alive
<1>6. ASSUME NEW f \in assemblies, NEW n \in node_live
      PROVE  f > n
  <2>1. f \in Int /\ n \in Int /\ n < k /\ k <= f
    BY <1>1, <1>3
  <2> QED BY <1>1, <2>1
<1> QED BY <1>1, <1>3, <1>5, <1>6

\* A failure leaves the log that Whole describes.
LEMMA EvaluatorLeaves ==
  ASSUME EvaluatorInv, status = "running", NEW log, EvaluatorLog(log),
         UNCHANGED <<program, fault>>,
         \A f \in AdmittedBefore(node_index) : f \in assemblies \/ fault = <<"admit", f>>,
         NEW first \in Seq(Nodes), ToSet(first) \subseteq node_live,
         Fail("failed", first, node_live \ ToSet(first)),
         Stops(node_index), fault # <<"none", 0>>,
         NEW given, given = (IF fault = <<"node", node_index>> THEN Ended(node_index) ELSE <<>>),
         given \in Seq(Nodes),
         Comparable => first \o Descending(Alive(node_index) \ ToSet(first)) =
                         given \o Descending(Alive(node_index) \ ToSet(given))
  PROVE  EvaluatorLog(log)'
<1> DEFINE k == node_index
           live == node_live \ ToSet(first)
<1>1. Accepted /\ released \in Seq(Nodes)
  BY DEF EvaluatorInv, OwnersApart
<1>2. /\ Alive(k) = assemblies \cup node_live
      /\ assemblies \subseteq Nodes /\ node_live \subseteq Nodes
      /\ \A f \in assemblies, n \in node_live : f > n
  BY AliveIsOwned
<1>3. assemblies \cap node_live = {}
  <2>1. \A n \in Nodes : n \in Int /\ ~ n > n
    BY <1>1, NodesAreNumbers
  <2> QED BY <1>2, <2>1
<1>4. Alive(k) \ ToSet(first) = assemblies \cup live
  BY <1>2, <1>3
<1>5. Descending(assemblies \cup live) = Descending(assemblies) \o Descending(live)
  <2>1. live \subseteq Nodes
    BY <1>2
  <2>2. /\ IsFiniteSet(assemblies) /\ assemblies \subseteq Int
        /\ IsFiniteSet(live) /\ live \subseteq Int
    BY <1>1, <1>2, <2>1, AliveIsFinite
  <2> QED BY <1>2, <2>2, DescendingJoins
<1>6. /\ released' = released \o first \o (Descending(assemblies) \o Descending(live))
      /\ status' = "failed" /\ node_index' = k
  BY DEF Fail, ReleaseExecutionState
<1> DEFINE rest == Descending(Alive(k) \ ToSet(first))
           left == Descending(Alive(k) \ ToSet(given))
<1>7. rest \in Seq(Nodes) /\ left \in Seq(Nodes)
  <2>1. \A S : S \subseteq Nodes => Descending(S) \in Seq(Nodes)
    <3>1. SUFFICES ASSUME NEW S, S \subseteq Nodes
                   PROVE  Descending(S) \in Seq(Nodes)
      OBVIOUS
    <3>2. Descending(S) \in Seq(S)
      BY <1>1, <3>1, AliveIsFinite, DescendingEnumerates
    <3> QED BY <3>1, <3>2, SeqMonotonic
  <2>2. Alive(k) \subseteq Nodes
    BY <1>2
  <2> HIDE DEF k
  <2> QED BY <2>1, <2>2
<1>8. released' = (released \o first) \o rest
  BY <1>4, <1>5, <1>6
<1>9. Comparable => first \o rest = given \o left
  OBVIOUS
<1> HIDE DEF rest, left
<1>10. released = log[k]
  BY DEF EvaluatorLog
<1>11. Comparable => released' = (log[k] \o given) \o left
  <2> DEFINE joins == \A r, s, t \in Seq(Nodes) : r \o (s \o t) = (r \o s) \o t
  <2>3. joins
    BY LogsAssociate
  <2>4. given \in Seq(Nodes)
    OBVIOUS
  <2>1. released \o (first \o rest) = (released \o first) \o rest
    BY <1>1, <1>7, <2>3
  <2>2. released \o (given \o left) = (released \o given) \o left
    <3> HIDE DEF joins
    <3>1. joins /\ released \in Seq(Nodes) /\ given \in Seq(Nodes) /\ left \in Seq(Nodes)
      BY <1>1, <1>7, <2>3, <2>4
    <3> QED BY ONLY <3>1, ZenonT(20) DEF joins
  <2> QED BY <1>8, <1>9, <1>10, <2>1, <2>2
<1>12. Whole(log, k) = (log[k] \o given) \o left
  BY DEF Whole, left
<1>13. Comparable => released' = Whole(log, k)
  BY <1>11, <1>12
<1>14. /\ Comparable' <=> Comparable
       /\ Whole(log, k)' = Whole(log, k)
       /\ History(log, k)' <=> History(log, k)
       /\ Stops(k)' <=> Stops(k)
  <2>1. \A m : /\ Whole(log, m)' = Whole(log, m) /\ (Stops(m)' <=> Stops(m))
               /\ (History(log, m)' <=> History(log, m))
    BY SameLogs
  <2>2. PICK m : m = k
    OBVIOUS
  <2>3. Whole(log, m)' = Whole(log, m) /\ (Stops(m)' <=> Stops(m))
        /\ (History(log, m)' <=> History(log, m)) /\ (Comparable' <=> Comparable)
    BY <2>1, SameLogs
  <2>4. m = k /\ k' = m
    BY <1>6, <2>2
  <2> QED BY <2>3, <2>4 DEF Whole, Stops, History
<1>15. History(log, node_index) /\ node_index' = node_index /\ status' = "failed"
       /\ fault' = fault
  BY <1>6 DEF EvaluatorLog
<1> QED BY <1>13, <1>14, <1>15 DEF EvaluatorLog

\* Only the operations that can fail are a fault.
LEMMA FaultyKinds ==
  ASSUME Accepted, NEW n, fault = <<"node", n>>
  PROVE  n \in Nodes /\ Kind(n) \in {"vector", "call", "tuple"}
<1>1. fault \in Faults(program) /\ Nodes = NodesOf(program)
  BY DEF Accepted, Nodes
<1>2. \A x, y, u, v : <<x, y>> = <<u, v>> <=> x = u /\ y = v
  OBVIOUS
<1> QED BY <1>1, <1>2 DEF Faults, Kind

\* A step of the loop that releases nothing and stays at its node.
LEMMA LogStays ==
  ASSUME NEW log, EvaluatorLog(log), UNCHANGED <<program, fault, node_index, released>>,
         status' = "running", released = log[node_index], Unmet(node_index),
         \A f \in assemblies' : fault # <<"admit", f>>
  PROVE  EvaluatorLog(log)'
<1>1. PICK k : k = node_index
  OBVIOUS
<1>2. History(log, k)' /\ Unmet(k)'
  BY <1>1, SameLogs DEF EvaluatorLog
<1>3. History(log, node_index)' /\ Unmet(node_index)'
  BY <1>1, <1>2 DEF History, Unmet
<1> QED BY <1>3 DEF EvaluatorLog

LEMMA StartLogged ==
  ASSUME EvaluatorInv, UNCHANGED <<program, fault>>, NEW log, EvaluatorLog(log), Start
  PROVE  EvaluatorLog(log)'
<1>1. /\ Accepted /\ Nodes \subseteq Int /\ node_index = 1
      /\ \A n \in Nodes : 1 <= n
  BY Arenas DEF EvaluatorInv, Start
<1>2. assemblies = {}
  <2>1. \A f \in assemblies : f \in Fanouts /\ Operand(f) < 1
    BY <1>1 DEF EvaluatorInv, EvaluatorTypeOK, LoopHolds, Start
  <2>2. \A f \in Fanouts : Operand(f) \in Int /\ 1 <= Operand(f)
    BY <1>1, FanoutFacts
  <2>3. \A f \in Fanouts : ~ Operand(f) < 1
    BY <2>2
  <2> QED BY <2>1, <2>3
<1>3. /\ UNCHANGED <<node_index, released, assemblies>> /\ status = "idle"
      /\ status' = IF fault # <<"start", 0>> THEN "running" ELSE "failed"
  BY DEF Start, Succeeds
<1>4. released = log[node_index] /\ History(log, node_index)
  BY <1>3 DEF EvaluatorLog
<1>5. CASE fault # <<"start", 0>>
  <2>1. Unmet(1)
    <3>1. ASSUME NEW f \in Fanouts
          PROVE  1 <= Operand(f) + 1
      <4>1. Operand(f) \in Nodes
        BY <1>1, FanoutFacts
      <4> PICK n \in Nodes : n = Operand(f)
        BY <4>1
      <4>2. n \in Int /\ 1 <= n
        BY <1>1
      <4> QED BY <4>2
    <3> QED BY <1>1, <1>5, <3>1 DEF Unmet
  <2> QED BY <1>1, <1>2, <1>3, <1>4, <1>5, <2>1, LogStays
<1>6. CASE fault = <<"start", 0>>
  <2>1. released' = <<>>
    BY <1>1, <1>3, <1>4 DEF History
  <2>2. History(log, 1)'
    BY <1>1, <1>4, SameLogs
  <2>3. History(log, node_index)'
    BY <1>1, <1>3, <2>2 DEF History
  <2> QED BY <1>3, <1>6, <2>1, <2>3 DEF EvaluatorLog
<1> QED BY <1>5, <1>6

\* A failure that lets go of nothing first, where nothing ends.
LEMMA EvaluatorLeavesBare ==
  ASSUME EvaluatorInv, status = "running", NEW log, EvaluatorLog(log),
         UNCHANGED <<program, fault>>,
         \A f \in AdmittedBefore(node_index) : f \in assemblies \/ fault = <<"admit", f>>,
         Fail("failed", <<>>, node_live),
         Stops(node_index), fault # <<"none", 0>>,
         fault = <<"node", node_index>> => Ended(node_index) = <<>>
  PROVE  EvaluatorLog(log)'
<1>1. <<>> \in Seq(Nodes) /\ ToSet(<<>>) = {}
  BY EmptyLog
<1>2. node_live \ ToSet(<<>>) = node_live
  BY <1>1
<1>3. <<>> = IF fault = <<"node", node_index>> THEN Ended(node_index) ELSE <<>>
  OBVIOUS
<1>4. ToSet(<<>>) \subseteq node_live
  BY <1>1
<1>5. Fail("failed", <<>>, node_live \ ToSet(<<>>))
  BY <1>2
<1>6. PICK first \in Seq(Nodes) : first = <<>>
  BY <1>1
<1> QED BY <1>3, <1>4, <1>5, <1>6, EvaluatorLeaves

LEMMA AdmitFanoutLogged ==
  ASSUME EvaluatorInv, UNCHANGED <<program, fault>>, NEW log, EvaluatorLog(log),
         NEW f \in Fanouts, AdmitFanout(f)
  PROVE  EvaluatorLog(log)'
<1>1. /\ status = "running" /\ Accepted
      /\ f \in AdmittedBefore(node_index) /\ Operand(f) + 1 = node_index
  BY DEF AdmitFanout, AdmittedBefore, EvaluatorInv
<1>2. CASE fault # <<"admit", f>>
  <2>1. assemblies' = assemblies \cup {f} /\ UNCHANGED <<node_index, released, status>>
    BY <1>2 DEF AdmitFanout, Succeeds
  <2>2. \A g \in assemblies' : fault # <<"admit", g>>
    BY <1>1, <1>2, <2>1 DEF EvaluatorLog
  <2>3. released = log[node_index] /\ Unmet(node_index)
    BY <1>1 DEF EvaluatorLog
  <2> QED BY <1>1, <2>1, <2>2, <2>3, LogStays
<1>3. CASE fault = <<"admit", f>>
  <2>1. Fail("failed", <<>>, node_live)
    BY <1>3 DEF AdmitFanout, Succeeds
  <2>2. Stops(node_index)
    BY <1>1, <1>3 DEF Stops
  <2>3. \A g \in AdmittedBefore(node_index) : fault = <<"admit", g>>
    <3>1. \A g \in AdmittedBefore(node_index) : g \in AdmittedBefore(Operand(f) + 1)
      BY <1>1
    <3> QED BY <1>1, <1>3, <3>1, OperandFacts
  <2>4. fault # <<"none", 0>> /\ fault # <<"node", node_index>>
    BY <1>3
  <2> QED BY <1>1, <2>1, <2>2, <2>3, <2>4, EvaluatorLeavesBare
<1> QED BY <1>2, <1>3

LEMMA LeafLogged ==
  ASSUME EvaluatorInv, EvaluatorInv', NEW log, EvaluatorLog(log),
         UNCHANGED <<program, fault, status, assemblies>>,
         NEW k \in Nodes, Kind(k) \in {"scalar", "vector"}, fault # <<"node", k>>,
         AtNode(k, Kind(k)), Store(k, remaining_uses, node_live, <<>>)
  PROVE  \E longer : EvaluatorLog(longer)'
<1>1. /\ status = "running" /\ k = node_index /\ AdmittedBefore(k) \subseteq assemblies
      /\ Accepted
  BY DEF AtNode, EvaluatorInv
<1>2. BranchPositions(k) = {}
  BY <1>1, LeafUses
<1>3. Ended(k) = <<>>
  BY <1>1, GivenFacts
<1>4. Store(k, remaining_uses, node_live, Ended(k))
  BY <1>3
<1>5. released' = released \o Given(k) /\ node_index' = k + 1
  BY <1>1, <1>2, <1>4, StoreGives
<1> QED BY <1>1, <1>5, EvaluatorMovesOn

LEMMA EvaluateScalarLogged ==
  ASSUME EvaluatorInv, EvaluatorInv', UNCHANGED <<program, fault>>,
         NEW log, EvaluatorLog(log), NEW k \in Nodes, EvaluateScalar(k)
  PROVE  \E longer : EvaluatorLog(longer)'
<1>1. /\ AtNode(k, "scalar") /\ Kind(k) = "scalar" /\ Accepted
      /\ UNCHANGED <<status, assemblies>> /\ Store(k, remaining_uses, node_live, <<>>)
  BY DEF EvaluateScalar, AtNode, EvaluatorInv
<1>2. fault # <<"node", k>>
  BY <1>1, FaultyKinds
<1> QED BY <1>1, <1>2, LeafLogged

LEMMA EvaluateVectorLogged ==
  ASSUME EvaluatorInv, EvaluatorInv', UNCHANGED <<program, fault>>,
         NEW log, EvaluatorLog(log), NEW k \in Nodes, EvaluateVector(k)
  PROVE  \E longer : EvaluatorLog(longer)'
<1>1. /\ AtNode(k, "vector") /\ Kind(k) = "vector" /\ Accepted
      /\ status = "running" /\ k = node_index /\ AdmittedBefore(k) \subseteq assemblies
  BY DEF EvaluateVector, AtNode, EvaluatorInv
<1>2. CASE fault # <<"node", k>>
  <2>1. UNCHANGED <<status, assemblies>> /\ Store(k, remaining_uses, node_live, <<>>)
    BY <1>2 DEF EvaluateVector, Succeeds
  <2> QED BY <1>1, <1>2, <2>1, LeafLogged
<1>3. CASE fault = <<"node", k>>
  <2>1. Fail("failed", <<>>, node_live)
    BY <1>3 DEF EvaluateVector, Succeeds
  <2>2. Stops(node_index) /\ fault # <<"none", 0>>
    BY <1>1, <1>3 DEF Stops
  <2>3. Ended(node_index) = <<>>
    BY <1>1, GivenFacts
  <2> QED BY <1>1, <2>1, <2>2, <2>3, EvaluatorLeavesBare
<1> QED BY <1>2, <1>3

\* The dummy of a placeholder is used by some call.
LEMMA EvaluatePlaceholderLogged ==
  ASSUME EvaluatorInv, UNCHANGED <<program, fault>>,
         NEW log, EvaluatorLog(log), NEW k \in Nodes, EvaluatePlaceholder(k)
  PROVE  \E longer : EvaluatorLog(longer)'
<1>1. /\ Kind(k) = "placeholder" /\ Accepted
      /\ status = "running" /\ k = node_index /\ AdmittedBefore(k) \subseteq assemblies
      /\ UNCHANGED <<assemblies, status, released>> /\ node_index' = k + 1
  BY DEF EvaluatePlaceholder, AtNode, EvaluatorInv
<1>2. fault # <<"node", k>>
  BY <1>1, FaultyKinds
<1>3. BranchPositions(k) = {} /\ UsesLeft(k, k + 1) # 0
  BY <1>1, LeafUses, UsesFound
<1>4. Given(k) = <<>>
  BY <1>1, <1>3, UnusedWhenMade, GivenFacts
<1>5. released' = released \o Given(k)
  <2>1. released \in Seq(Nodes)
    BY DEF EvaluatorInv, OwnersApart
  <2> QED BY <1>1, <1>4, <2>1, ConcatEmptySeq
<1> QED BY <1>1, <1>2, <1>5, EvaluatorMovesOn

LEMMA EvaluateTupleLogged ==
  ASSUME EvaluatorInv, EvaluatorInv', UNCHANGED <<program, fault>>, status' # "internal",
         NEW log, EvaluatorLog(log), NEW k \in Nodes, EvaluateTuple(k)
  PROVE  \E longer : EvaluatorLog(longer)'
<1>1. /\ Kind(k) = "tuple" /\ Accepted /\ Nodes \subseteq Int
      /\ status = "running" /\ k = node_index /\ AdmittedBefore(k) \subseteq assemblies
      /\ node_live = {n \in Nodes : n < k /\ UsesLeft(n, k) # 0}
  BY LoopFacts DEF EvaluateTuple, AtNode
<1>2. Ended(k) = <<>> /\ BranchPositions(k) = {}
  BY <1>1, GivenFacts, BranchFacts
<1>4. Movable(Args(k)) = Args(k) /\ \A i \in DOMAIN Args(k) : ~IllFormed(Args(k)[i])
  BY DEF EvaluateTuple, Fail
<1>5. CASE fault # <<"node", k>>
  <2>1. PICK uses, live : Store(k, uses, live, <<>>)
    BY <1>4, <1>5 DEF EvaluateTuple, Succeeds
  <2>2. UNCHANGED <<assemblies, status>>
    BY <1>4, <1>5 DEF EvaluateTuple, Succeeds
  <2>3. Store(k, uses, live, Ended(k))
    BY <1>2, <2>1
  <2>4. released' = released \o Given(k) /\ node_index' = k + 1
    BY <1>1, <1>2, <2>2, <2>3, StoreGives
  <2> QED BY <1>1, <1>5, <2>2, <2>4, EvaluatorMovesOn
<1>6. CASE fault = <<"node", k>>
  <2>1. Fail("failed", Reverse(Args(k)), node_live \ ToSet(Args(k)))
    BY <1>4, <1>6 DEF EvaluateTuple, Succeeds
  <2>2. PICK first : first = Reverse(Args(k))
    OBVIOUS
  <2>3. first \in Seq(Nodes) /\ ToSet(first) = ToSet(Args(k))
    BY <1>1, <2>2, Arenas, ReverseProperties
  <2>4. ToSet(first) \subseteq node_live
    <3>1. \A i \in DOMAIN Args(k) : /\ Args(k)[i] \in Nodes /\ Args(k)[i] < k
                                    /\ UsesLeft(Args(k)[i], k) # 0
      BY <1>1, UsesFound
    <3>2. \A i \in DOMAIN Args(k) : Args(k)[i] \in node_live
      BY <1>1, <3>1
    <3>3. ToSet(Args(k)) \subseteq node_live
      BY <3>2 DEF ToSet
    <3> QED BY <2>3, <3>3
  <2>5. Fail("failed", first, node_live \ ToSet(first))
    BY <2>1, <2>2, <2>3
  <2>6. Stops(node_index) /\ fault # <<"none", 0>>
    BY <1>1, <1>6 DEF Stops
  <2>7. PICK given \in Seq(Nodes) : given = <<>>
    BY EmptyLog
  <2>8. given = IF fault = <<"node", node_index>> THEN Ended(node_index) ELSE <<>>
    BY <1>1, <1>2, <2>7
  <2>9. Comparable => first \o Descending(Alive(node_index) \ ToSet(first)) =
                        given \o Descending(Alive(node_index) \ ToSet(given))
    <3>1. SUFFICES ASSUME Comparable
                   PROVE  first \o Descending(Alive(k) \ ToSet(first)) =
                            given \o Descending(Alive(k) \ ToSet(given))
      BY <1>1
    <3>2. first \o Descending(Alive(k) \ ToSet(first)) = Descending(Alive(k))
      BY <1>1, <1>6, <2>2, <2>3, <3>1, TupleLetsGo
    <3>3. Alive(k) \ ToSet(given) = Alive(k)
      BY <2>7, EmptyLog
    <3>4. Alive(k) \subseteq Nodes
      BY DEF Alive, Fanouts
    <3>5. Descending(Alive(k)) \in Seq(Alive(k))
      BY <1>1, <3>4, AliveIsFinite, DescendingEnumerates
    <3> QED BY <2>7, <3>2, <3>3, <3>5, ConcatEmptySeq
  <2>10. \A f \in AdmittedBefore(node_index) : f \in assemblies
    BY <1>1
  <2> QED BY <1>1, <2>3, <2>4, <2>5, <2>6, <2>7, <2>8, <2>9, <2>10, EvaluatorLeaves
<1> QED BY <1>5, <1>6

LEMMA EvaluateFanoutLogged ==
  ASSUME EvaluatorInv, EvaluatorInv', UNCHANGED <<program, fault>>, status' # "internal",
         NEW log, EvaluatorLog(log), NEW k \in Nodes, EvaluateFanout(k)
  PROVE  \E longer : EvaluatorLog(longer)'
<1>1. /\ Kind(k) = "fanout" /\ Accepted /\ k \in Fanouts /\ k \in Int
      /\ status = "running" /\ k = node_index /\ AdmittedBefore(k) \subseteq assemblies
      /\ node_live = {n \in Nodes : n < k /\ UsesLeft(n, k) # 0}
  BY LoopFacts DEF EvaluateFanout, AtNode, Fanouts
<1>2. BranchPositions(k) = {}
  BY <1>1, BranchFacts
<1>3. Operand(k) \in node_live
  BY <1>1, FanoutFacts, OperandInUse
<1>5. k \in assemblies /\ inside[k] = Args(k)
  BY DEF EvaluateFanout, Fail
<1>6. PICK uses, live : Store(k, uses, live, <<Operand(k)>>)
  BY <1>3, <1>5 DEF EvaluateFanout
<1>7. UNCHANGED status /\ assemblies' = assemblies \ {k}
  BY <1>3, <1>5 DEF EvaluateFanout
<1>8. Ended(k) = <<Operand(k)>>
  BY <1>1 DEF Ended
<1>9. Store(k, uses, live, Ended(k))
  BY <1>6, <1>8
<1>10. released' = released \o Given(k) /\ node_index' = k + 1
  BY <1>1, <1>2, <1>7, <1>9, StoreGives
<1>11. fault # <<"node", k>>
  BY <1>1, FaultyKinds
<1> QED BY <1>1, <1>7, <1>10, <1>11, EvaluatorMovesOn

LEMMA EvaluateCallLogged ==
  ASSUME EvaluatorInv, EvaluatorInv', UNCHANGED <<program, fault>>, Regular,
         status' # "internal",
         NEW log, EvaluatorLog(log), NEW k \in Nodes, EvaluateCall(k)
  PROVE  \E longer : EvaluatorLog(longer)'
<1>1. /\ Kind(k) = "call" /\ Accepted
      /\ status = "running" /\ k = node_index /\ AdmittedBefore(k) \subseteq assemblies
      /\ remaining_uses = [n \in Nodes |-> UsesLeft(n, k)]
      /\ node_live = {n \in Nodes : n < k /\ UsesLeft(n, k) # 0}
  BY LoopFacts DEF EvaluateCall, AtNode
<1>2. FinalUses(UsesAfter(remaining_uses, Args(k)), Args(k)) = Ended(k)
  BY <1>1, CountsInCode DEF Ended
<1>3. Ended(k) \in Seq(Nodes) /\ ToSet(Ended(k)) \subseteq node_live
  BY <1>1, EndedFacts DEF ToSet
<1>4. Applies(k) <=> Succeeds(<<"node", k>>)
  BY DEF Applies, Regular
<1>9. \A first, live : ~Fail("internal", first, live)
  BY DEF Fail
<1>5. \/ ~Succeeds(<<"node", k>>) /\ Fail("failed", Ended(k), node_live \ ToSet(Ended(k)))
      \/ /\ Succeeds(<<"node", k>>) /\ BranchPositions(k) = {}
         /\ Store(k, UsesAfter(remaining_uses, Args(k)), node_live \ ToSet(Ended(k)), Ended(k))
         /\ UNCHANGED <<assemblies, status>>
      \/ /\ Succeeds(<<"node", k>>) /\ BranchPositions(k) # {}
         /\ released' = released \o Ended(k) /\ node_index' = k + 1
         /\ UNCHANGED <<assemblies, status>>
  BY <1>2, <1>4, <1>9 DEF EvaluateCall
<1>6. CASE ~Succeeds(<<"node", k>>) /\ Fail("failed", Ended(k), node_live \ ToSet(Ended(k)))
  <2>1. fault = <<"node", node_index>> /\ Stops(node_index) /\ fault # <<"none", 0>>
    BY <1>1, <1>6 DEF Stops, Succeeds
  <2>2. PICK first \in Seq(Nodes) : first = Ended(k)
    BY <1>3
  <2>3. first = IF fault = <<"node", node_index>> THEN Ended(node_index) ELSE <<>>
    BY <1>1, <2>1, <2>2
  <2>4. ToSet(first) \subseteq node_live /\ Fail("failed", first, node_live \ ToSet(first))
    BY <1>3, <1>6, <2>2
  <2>5. \A f \in AdmittedBefore(node_index) : f \in assemblies
    BY <1>1
  <2> QED BY <1>1, <2>1, <2>3, <2>4, <2>5, EvaluatorLeaves
<1>7. CASE /\ Succeeds(<<"node", k>>) /\ BranchPositions(k) = {}
           /\ Store(k, UsesAfter(remaining_uses, Args(k)), node_live \ ToSet(Ended(k)), Ended(k))
           /\ UNCHANGED <<assemblies, status>>
  <2>1. fault # <<"node", k>>
    BY <1>7 DEF Succeeds
  <2>2. released' = released \o Given(k) /\ node_index' = k + 1
    BY <1>1, <1>7, StoreGives
  <2> QED BY <1>1, <1>7, <2>1, <2>2, EvaluatorMovesOn
<1>8. CASE /\ Succeeds(<<"node", k>>) /\ BranchPositions(k) # {}
           /\ released' = released \o Ended(k) /\ node_index' = k + 1
           /\ UNCHANGED <<assemblies, status>>
  <2>1. fault # <<"node", k>>
    BY <1>8 DEF Succeeds
  <2>2. Given(k) = Ended(k)
    BY <1>1, <1>8, UnusedWhenMade, GivenFacts
  <2> QED BY <1>1, <1>8, <2>1, <2>2, EvaluatorMovesOn
<1> QED BY <1>5, <1>6, <1>7, <1>8

LEMMA FinishLogged ==
  ASSUME EvaluatorInv, EvaluatorInv', UNCHANGED <<program, fault>>, Regular,
         status' # "internal",
         NEW log, EvaluatorLog(log), Finish
  PROVE  EvaluatorLog(log)'
<1> DEFINE N == Len(program.kind)
           roots == program.roots
<1>1. /\ status = "running" /\ node_index = N + 1 /\ Accepted
      /\ N \in Nat /\ Nodes = 1 .. N
      /\ roots \in Seq(Nodes)
      /\ node_live = {n \in Nodes : n < N + 1 /\ UsesLeft(n, N + 1) # 0}
  BY LoopFacts, Arenas DEF Finish
<1>2. \A i \in DOMAIN roots : ~IllFormed(roots[i])
  <2>1. \A n \in Nodes : ~IllFormed(n)
    BY DEF Regular, IllFormed, Fanouts
  <2> QED BY <1>1, <2>1, LenProperties
<1>3. Movable(roots) = roots
  BY DEF Finish, Fail
<1>4. released = log[node_index] /\ Unmet(node_index) /\ History(log, node_index)
  BY <1>1 DEF EvaluatorLog
<1>5. fault \in {<<"none", 0>>, <<"output", 0>>}
  BY <1>1, <1>4, UnmetAtEnd
<1>6. CASE Succeeds(<<"output", 0>>)
  <2>1. /\ values' = roots /\ status' = "ok" /\ UNCHANGED <<node_index, assemblies, released>>
        /\ fault = <<"none", 0>>
    BY <1>2, <1>3, <1>5, <1>6 DEF Finish, Succeeds
  <2>2. PICK k : k = node_index
    OBVIOUS
  <2>3. History(log, k)' /\ Unmet(k)'
    BY <1>4, <2>2, SameLogs
  <2>4. History(log, node_index)' /\ Unmet(node_index)'
    BY <2>1, <2>2, <2>3 DEF History, Unmet
  <2>5. node_index' = Len(program'.kind) + 1 /\ values' = program'.roots
    BY <1>1, <2>1
  <2> QED BY <1>4, <2>1, <2>4, <2>5 DEF EvaluatorLog
<1>7. CASE ~Succeeds(<<"output", 0>>)
  <2>1. Fail("failed", Reverse(roots), node_live \ ToSet(roots))
    BY <1>3, <1>7 DEF Finish
  <2>2. fault = <<"output", 0>>
    BY <1>7 DEF Succeeds
  <2>3. PICK first : first = Reverse(roots)
    OBVIOUS
  <2>4. first \in Seq(Nodes) /\ ToSet(first) = ToSet(roots)
    BY <1>1, <2>3, ReverseProperties
  <2>5. ToSet(first) \subseteq node_live
    <3>1. \A n \in ToSet(roots) : n \in Nodes
      BY <1>1, LenProperties DEF ToSet
    <3>2. ASSUME NEW n \in ToSet(roots)
          PROVE  UsesLeft(n, N + 1) # 0 /\ n < N + 1
      <4>1. n \in Nodes /\ N + 1 \in Int
        BY <1>1, <3>1
      <4>2. UsesLeft(n, N + 1) # 0
        BY <1>1, <3>2, <4>1, RootInUse
      <4> QED BY <1>1, <4>1, <4>2
    <3> QED BY <1>1, <2>4, <3>1, <3>2
  <2>6. Fail("failed", first, node_live \ ToSet(first))
    BY <2>1, <2>3, <2>4
  <2>7. Stops(node_index) /\ fault # <<"none", 0>> /\ fault # <<"node", node_index>>
    BY <1>1, <2>2 DEF Stops
  <2>8. PICK given \in Seq(Nodes) : given = <<>>
    BY EmptyLog
  <2>9. given = IF fault = <<"node", node_index>> THEN Ended(node_index) ELSE <<>>
    BY <2>7, <2>8
  <2>10. Comparable => first \o Descending(Alive(node_index) \ ToSet(first)) =
                         given \o Descending(Alive(node_index) \ ToSet(given))
    <3>1. SUFFICES ASSUME Comparable
                   PROVE  first \o Descending(Alive(N + 1) \ ToSet(first)) =
                            given \o Descending(Alive(N + 1) \ ToSet(given))
      BY <1>1
    <3>2. Alive(N + 1) = ToSet(roots) /\ first = Descending(ToSet(roots))
      BY <1>1, <2>3, <3>1, RootsAreLeft
    <3>3. Alive(N + 1) \ ToSet(first) = {} /\ Alive(N + 1) \ ToSet(given) = ToSet(roots)
      BY <2>4, <2>8, <3>2, EmptyLog
    <3>4. first \o Descending({}) = first
      BY <2>4, DescendingNothing, ConcatEmptySeq
    <3>5. given \o first = first
      BY <2>4, <2>8, ConcatEmptySeq
    <3> QED BY <3>2, <3>3, <3>4, <3>5
  <2>11. \A f \in AdmittedBefore(node_index) : FALSE
    <3>1. SUFFICES ASSUME NEW f \in Fanouts, Operand(f) + 1 = N + 1
                   PROVE  FALSE
      BY <1>1 DEF AdmittedBefore
    <3>2. f \in Nodes /\ Operand(f) \in Nodes /\ Operand(f) < f
      BY <1>1, FanoutFacts
    <3> QED BY <1>1, <3>1, <3>2
  <2> QED BY <1>1, <2>4, <2>5, <2>6, <2>7, <2>8, <2>9, <2>10, <2>11, EvaluatorLeaves
<1> QED BY <1>6, <1>7

LEMMA ReleaseResultLogged ==
  ASSUME EvaluatorInv, UNCHANGED <<program, fault>>, NEW log, EvaluatorLog(log), ReleaseResult
  PROVE  EvaluatorLog(log)'
<1> DEFINE N == Len(program.kind)
<1>1. /\ status = "ok" /\ status' = "done" /\ UNCHANGED node_index
      /\ released' = released \o Reverse(values)
  BY DEF ReleaseResult
<1>2. /\ released = log[node_index] /\ History(log, node_index) /\ node_index = N + 1
      /\ values = program.roots /\ fault = <<"none", 0>> /\ Accepted
  BY <1>1 DEF EvaluatorLog, EvaluatorInv
<1>3. Stops(node_index)
  BY <1>2 DEF Stops
<1>4. Comparable => released' = Whole(log, node_index)
  <2>1. SUFFICES ASSUME Comparable
                 PROVE  released' = Whole(log, N + 1)
    BY <1>2
  <2>2. fault # <<"node", N + 1>> /\ ToSet(<<>>) = {}
    BY <1>2, EmptyLog
  <2>3. Alive(N + 1) \ ToSet(<<>>) = ToSet(program.roots)
        /\ Reverse(program.roots) = Descending(ToSet(program.roots))
    BY <1>2, <2>1, <2>2, RootsAreLeft
  <2>4. released \o <<>> = released
    <3>1. released \in Seq(Nodes)
      BY DEF EvaluatorInv, OwnersApart
    <3> QED BY <3>1, ConcatEmptySeq
  <2>5. Whole(log, N + 1) = (log[N + 1] \o <<>>) \o Descending(ToSet(program.roots))
    BY <2>2, <2>3 DEF Whole
  <2> QED BY <1>1, <1>2, <2>3, <2>4, <2>5
<1>5. PICK k : k = node_index
  OBVIOUS
<1>6. /\ History(log, k)' /\ Stops(k)' /\ (Comparable' <=> Comparable)
      /\ Whole(log, k)' = Whole(log, k)
  BY <1>2, <1>3, <1>5, SameLogs
<1>7. /\ History(log, node_index)' /\ Stops(node_index)'
      /\ Comparable' => released' = Whole(log, node_index)'
  BY <1>1, <1>4, <1>5, <1>6 DEF History, Stops, Whole
<1> QED BY <1>1, <1>2, <1>7 DEF EvaluatorLog

LEMMA EvaluatorLogged ==
  ASSUME EvaluatorInv, EvaluatorInv', EvaluatorNext, UNCHANGED <<program, fault>>,
         Regular, status' # "internal", NEW log, EvaluatorLog(log)
  PROVE  /\ status \notin {"failed", "done"}
         /\ \E longer : EvaluatorLog(longer)'
<1>1. CASE Start
  BY <1>1, StartLogged DEF Start
<1>2. CASE \E f \in Fanouts : AdmitFanout(f)
  BY <1>2, AdmitFanoutLogged DEF AdmitFanout
<1>3. CASE \E n \in Nodes : EvaluateScalar(n)
  BY <1>3, EvaluateScalarLogged DEF EvaluateScalar, AtNode
<1>4. CASE \E n \in Nodes : EvaluatePlaceholder(n)
  BY <1>4, EvaluatePlaceholderLogged DEF EvaluatePlaceholder, AtNode
<1>5. CASE \E n \in Nodes : EvaluateVector(n)
  BY <1>5, EvaluateVectorLogged DEF EvaluateVector, AtNode
<1>6. CASE \E n \in Nodes : EvaluateTuple(n)
  BY <1>6, EvaluateTupleLogged DEF EvaluateTuple, AtNode
<1>7. CASE \E n \in Nodes : EvaluateFanout(n)
  BY <1>7, EvaluateFanoutLogged DEF EvaluateFanout, AtNode
<1>8. CASE \E n \in Nodes : EvaluateCall(n)
  BY <1>8, EvaluateCallLogged DEF EvaluateCall, AtNode
<1>9. CASE Finish
  BY <1>9, FinishLogged DEF Finish
<1>10. CASE ReleaseResult
  BY <1>10, ReleaseResultLogged DEF ReleaseResult
<1> QED
  BY <1>1, <1>2, <1>3, <1>4, <1>5, <1>6, <1>7, <1>8, <1>9, <1>10 DEF EvaluatorNext

LEMMA EvaluatorLogSame ==
  ASSUME UNCHANGED <<program, fault, evaluatorVars>>, NEW log, EvaluatorLog(log)
  PROVE  EvaluatorLog(log)'
<1>1. UNCHANGED <<program, fault, node_index, assemblies, values, released, status>>
  BY DEF evaluatorVars
<1>2. PICK k : k = node_index
  OBVIOUS
<1>3. /\ History(log, k)' <=> History(log, k)
      /\ Unmet(k)' <=> Unmet(k)
      /\ Stops(k)' <=> Stops(k)
      /\ Comparable' <=> Comparable
      /\ Whole(log, k)' = Whole(log, k)
  BY SameLogs
<1>4. /\ History(log, node_index)' <=> History(log, node_index)
      /\ Unmet(node_index)' <=> Unmet(node_index)
      /\ Stops(node_index)' <=> Stops(node_index)
      /\ Whole(log, node_index)' = Whole(log, node_index)
  <2>1. History(log, node_index)' <=> History(log, node_index)
    BY <1>1, <1>2, <1>3 DEF History
  <2>2. Unmet(node_index)' <=> Unmet(node_index)
    BY <1>1, <1>2, <1>3 DEF Unmet
  <2>3. Stops(node_index)' <=> Stops(node_index)
    BY <1>1, <1>2, <1>3 DEF Stops
  <2>4. Whole(log, node_index)' = Whole(log, node_index)
    <3>1. Whole(log, k)' = Whole(log, node_index)
      BY <1>2, <1>3
    <3> QED BY <1>1, <1>2, <3>1 DEF Whole
  <2> QED BY <2>1, <2>2, <2>3, <2>4
<1> QED BY <1>1, <1>3, <1>4 DEF EvaluatorLog

(***************************************************************************)
(* The emitted program's log.                                              *)
(***************************************************************************)

\* What line l of block b releases.
Freed(b, l) == IF Block(b)[l].op = "release" THEN <<Block(b)[l].node>> ELSE <<>>

LEMMA GivenParts ==
  ASSUME Accepted, NEW b \in Nodes
  PROVE  /\ Len(Ended(b)) \in Nat /\ DOMAIN Ended(b) = 1 .. Len(Ended(b))
         /\ SubSeq(Given(b), 1, Len(Ended(b))) = Ended(b)
         /\ \A q \in 0 .. Len(Ended(b)) : SubSeq(Given(b), 1, q) \in Seq(Nodes)
         /\ \A j \in DOMAIN Ended(b) :
              SubSeq(Given(b), 1, j) = SubSeq(Given(b), 1, j - 1) \o <<Ended(b)[j]>>
<1> DEFINE e == Len(Ended(b))
           last == IF UseCount(b) = 0 THEN <<b>> ELSE <<>>
           G == Ended(b) \o last
<1>1. Ended(b) \in Seq(Nodes) /\ last \in Seq(Nodes) /\ G = Given(b)
  BY GivenFacts, Singletons DEF Given
<1>2. e \in Nat /\ DOMAIN Ended(b) = 1 .. e
  BY <1>1, LenProperties
<1> HIDE DEF last
<1>3. /\ G \in Seq(Nodes) /\ Len(G) \in Nat /\ e <= Len(G)
      /\ \A j \in 1 .. e : G[j] = Ended(b)[j]
  <2>1. /\ Len(last) \in Nat /\ Len(G) = e + Len(last) /\ G \in Seq(Nodes)
        /\ \A i \in 1 .. e : G[i] = Ended(b)[i]
    BY <1>1, TwoParts
  <2> HIDE DEF G
  <2> QED BY <1>2, <2>1
<1>4. ASSUME NEW q \in 0 .. e
      PROVE  SubSeq(G, 1, q) \in Seq(Nodes)
  <2>1. \A i \in 1 .. q : G[i] \in Nodes
    BY <1>2, <1>3, ElementOfSeq
  <2> QED BY <2>1, SubSeqProperties
<1>5. SubSeq(G, 1, e) = Ended(b)
  <2>1. SubSeq(G, 1, e) \in Seq(Nodes) /\ e \in 0 .. e
    BY <1>2, <1>4
  <2>2. \A i \in 1 .. e : G[i] \in Nodes
    BY <1>2, <1>3, ElementOfSeq
  <2>3. /\ Len(SubSeq(G, 1, e)) = IF 1 <= e THEN e - 1 + 1 ELSE 0
        /\ \A i \in 1 .. e - 1 + 1 : SubSeq(G, 1, e)[i] = G[1 + i - 1]
    BY <1>2, <2>2, SubSeqProperties
  <2>4. Len(SubSeq(G, 1, e)) = e /\ e - 1 + 1 = e /\ \A i \in 1 .. e : 1 + i - 1 = i
    BY <1>2, <2>3
  <2>5. \A i \in 1 .. e : SubSeq(G, 1, e)[i] = Ended(b)[i]
    BY <1>3, <2>3, <2>4
  <2> QED BY <1>1, <2>1, <2>4, <2>5, SeqEqual
<1>6. ASSUME NEW j \in 1 .. e
      PROVE  SubSeq(G, 1, j) = SubSeq(G, 1, j - 1) \o <<Ended(b)[j]>>
  <2>1. 1 \in 1 .. Len(G) /\ j \in 1 .. Len(G)
    BY <1>2, <1>3
  <2> QED BY <1>3, <2>1, SubSeqRecursiveSecond
<1> QED BY <1>1, <1>2, <1>4, <1>5, <1>6

\* The log at a line, as a part of what the block gives.
LEMMA LogInBlock ==
  ASSUME Accepted, NEW b \in Nodes, NEW l \in DOMAIN Block(b),
         NEW log, log[b] \in Seq(Nodes)
  PROVE  LogAt(log, b, l) = log[b] \o SubSeq(Given(b), 1, l - 1 - Len(Leading(b)))
<1>1. Len(Leading(b)) \in {0, 1, 2} /\ DOMAIN Block(b) = 1 .. Len(Block(b))
      /\ Len(Block(b)) \in Nat
  BY BlockLines, ChecksFacts
<1>2. CASE l = 1
  <2>1. l - 1 - Len(Leading(b)) \in Int /\ l - 1 - Len(Leading(b)) < 1
    BY <1>1, <1>2
  <2>2. SubSeq(Given(b), 1, l - 1 - Len(Leading(b))) = <<>>
    BY <2>1, SubSeqEmpty
  <2>3. log[b] \o <<>> = log[b]
    BY ConcatEmptySeq
  <2> QED BY <1>2, <2>2, <2>3 DEF LogAt
<1> QED BY <1>2 DEF LogAt

\* A line adds what it releases, and a whole block adds what its node gives.
LEMMA NextLog ==
  ASSUME Accepted, NEW b \in Nodes, NEW l \in DOMAIN Block(b),
         NEW log, log[b] \in Seq(Nodes)
  PROVE  /\ l < Len(Block(b)) => LogAt(log, b, l) \o Freed(b, l) = LogAt(log, b, l + 1)
         /\ l = Len(Block(b)) => LogAt(log, b, l) \o Freed(b, l) = log[b] \o Given(b)
         /\ LogAt(log, b, l) \in Seq(Nodes)
<1> DEFINE p == Len(Leading(b))
           e == Len(Ended(b))
           w == Len(Block(b))
           part(q) == SubSeq(Given(b), 1, q)
<1>1. /\ DOMAIN Block(b) = 1 .. w /\ w \in Nat /\ w >= 1
      /\ p = IF Kind(b) = "fanout" THEN 0 ELSE First(b)
      /\ First(b) \in {1, 2}
      /\ Closing(b) # <<>> => w = p + e + 1
      /\ Closing(b) = <<>> => w = p + e
  BY BlockLines, ChecksFacts
<1>2. /\ e \in Nat /\ DOMAIN Ended(b) = 1 .. e
      /\ part(e) = Ended(b)
      /\ \A q \in 0 .. e : part(q) \in Seq(Nodes)
      /\ \A j \in DOMAIN Ended(b) : part(j) = part(j - 1) \o <<Ended(b)[j]>>
  BY GivenParts
<1>3. \A q \in Int : q < 1 => part(q) = <<>>
  BY SubSeqEmpty
<1>4. Given(b) \in Seq(Nodes) /\ Ended(b) \in Seq(Nodes)
      /\ (UseCount(b) # 0 => Given(b) = Ended(b))
      /\ (UseCount(b) = 0 => Given(b) = Ended(b) \o <<b>>)
  BY GivenFacts DEF Given
<1>15. \A m \in DOMAIN Block(b) : LogAt(log, b, m) = log[b] \o part(m - 1 - p)
  BY LogInBlock
<1> HIDE DEF p, e, w, part
<1>16. l \in 1 .. w /\ l \in Int /\ p \in {0, 1, 2} /\ p \in Int
  BY <1>1
<1>5. LogAt(log, b, l) = log[b] \o part(l - 1 - p)
  BY <1>15
<1>6. l < w => LogAt(log, b, l + 1) = log[b] \o part(l - p)
  <2>1. l < w => l + 1 \in DOMAIN Block(b)
    BY <1>1, <1>16
  <2>3. SUFFICES ASSUME l < w
                 PROVE  LogAt(log, b, l + 1) = log[b] \o part(l - p)
    OBVIOUS
  <2>4. PICK m \in DOMAIN Block(b) : m = l + 1
    BY <2>1, <2>3
  <2>5. LogAt(log, b, m) = log[b] \o part(m - 1 - p) /\ m - 1 - p = l - p
    <3>1. LogAt(log, b, m) = log[b] \o part(m - 1 - p)
      BY <1>15
    <3>2. m - 1 - p = l - p
      BY <1>16, <2>4
    <3> QED BY <3>1, <3>2
  <2> QED BY <2>4, <2>5
<1>7. UseCount(b) = 0 => Closing(b) # <<>>
  <2>1. \A x : <<x>> # <<>>
    OBVIOUS
  <2> QED BY <2>1, ClosingFacts
<1>8. log[b] \o <<>> = log[b] /\ \A s \in Seq(Nodes) : s \o <<>> = s
  BY ConcatEmptySeq
<1>17. \A r, s, t \in Seq(Nodes) : r \o (s \o t) = (r \o s) \o t
  BY LogsAssociate
<1>9. \A s, t \in Seq(Nodes) : log[b] \o (s \o t) = (log[b] \o s) \o t
  BY <1>17
<1>10. \A s \in Seq(Nodes) : log[b] \o s \in Seq(Nodes)
  BY ConcatProperties
<1>11. CASE l = First(b) /\ Kind(b) # "fanout"
            /\ Block(b)[l] = Instruction(LeadingOp(b), b, LeadingFrom(b), Ended(b))
  <2>1. Block(b)[l].op # "release"
    <3>1. Block(b)[l].op = LeadingOp(b)
      BY <1>11, InstructionFields
    <3> QED BY <3>1 DEF LeadingOp
  <2>2. Freed(b, l) = <<>>
    BY <2>1 DEF Freed
  <2>3. LogAt(log, b, l) = log[b]
    <3>1. l - 1 - p \in Int /\ l - 1 - p < 1
      BY <1>1, <1>11
    <3> QED BY <1>3, <1>5, <1>8, <3>1
  <2>4. l < w => LogAt(log, b, l + 1) = log[b]
    <3>1. l - p \in Int /\ l - p < 1
      BY <1>1, <1>11
    <3> QED BY <1>3, <1>6, <1>8, <3>1
  <2>5. l = w => Given(b) = <<>>
    <3>1. SUFFICES ASSUME l = w
                   PROVE  Given(b) = <<>>
      OBVIOUS
    <3>2. e = 0 /\ Closing(b) = <<>>
      BY <1>1, <1>2, <1>11, <3>1
    <3>3. Given(b) = Ended(b)
      BY <1>4, <1>7, <3>2
    <3>4. part(0) = <<>>
      BY <1>3
    <3> QED BY <1>2, <3>2, <3>3, <3>4
  <2> QED BY <1>8, <2>2, <2>3, <2>4, <2>5 DEF w
<1>12. CASE \E j \in DOMAIN Ended(b) : l = p + j /\ Block(b)[l] = Release(Ended(b)[j])
  <2> PICK j \in DOMAIN Ended(b) : l = p + j /\ Block(b)[l] = Release(Ended(b)[j])
    BY <1>12
  <2>1. Freed(b, l) = <<Ended(b)[j]>>
    <3>1. Block(b)[l].op = "release" /\ Block(b)[l].node = Ended(b)[j]
      BY InstructionFields DEF Release
    <3> QED BY <3>1 DEF Freed
  <2>2. j \in 1 .. e /\ p \in Int /\ l - 1 - p = j - 1 /\ l - p = j /\ j - 1 \in 0 .. e
    <3>1. j \in 1 .. e /\ l = p + j
      BY <1>2
    <3> QED BY <1>2, <1>16, <3>1
  <2>3. /\ part(j - 1) \in Seq(Nodes) /\ <<Ended(b)[j]>> \in Seq(Nodes)
        /\ part(j) = part(j - 1) \o <<Ended(b)[j]>>
    <3>1. Ended(b)[j] \in Nodes
      BY <1>2, <1>4, <2>2, ElementOfSeq DEF e
    <3> QED BY <1>2, <2>2, <3>1, Singletons
  <2>4. LogAt(log, b, l) \o Freed(b, l) = log[b] \o part(j)
    <3>1. LogAt(log, b, l) = log[b] \o part(j - 1)
      BY <1>5, <2>2
    <3>2. log[b] \o (part(j - 1) \o <<Ended(b)[j]>>) = (log[b] \o part(j - 1)) \o <<Ended(b)[j]>>
      BY <1>9, <2>3
    <3> QED BY <2>1, <2>3, <3>1, <3>2
  <2>5. l = w => part(j) = Given(b)
    <3>1. SUFFICES ASSUME l = w
                   PROVE  part(j) = Given(b)
      OBVIOUS
    <3>2. j = e /\ Closing(b) = <<>>
      <4>1. j \in Int /\ e \in Int /\ j <= e /\ p \in Int /\ w = p + j
        BY <1>2, <1>16, <2>2, <3>1
      <4>2. w = p + e \/ w = p + e + 1
        BY <1>1
      <4>3. w # p + e + 1 /\ (w = p + e => j = e)
        BY <4>1
      <4> QED BY <1>1, <4>2, <4>3
    <3> QED BY <1>2, <1>4, <1>7, <3>2
  <2>6. LogAt(log, b, l) \in Seq(Nodes)
    BY <1>5, <1>10, <2>2, <2>3
  <2> QED BY <1>6, <2>2, <2>4, <2>5, <2>6 DEF w
<1>13. CASE /\ l = w /\ Closing(b) # <<>>
            /\ \/ UseCount(b) # 0 /\ Block(b)[l].op # "release"
               \/ UseCount(b) = 0 /\ Block(b)[l] = Release(b)
  <2>1. l - 1 - p = e /\ ~ l < w /\ e \in 0 .. e
    BY <1>1, <1>2, <1>13
  <2>2. LogAt(log, b, l) = log[b] \o Ended(b)
    BY <1>2, <1>5, <2>1
  <2>3. LogAt(log, b, l) \o Freed(b, l) = log[b] \o Given(b)
    <3>1. CASE UseCount(b) # 0 /\ Block(b)[l].op # "release"
      <4>1. Freed(b, l) = <<>> /\ Given(b) = Ended(b)
        BY <1>4, <3>1 DEF Freed
      <4>2. (log[b] \o Ended(b)) \o <<>> = log[b] \o Ended(b)
        BY <1>4, <1>8, <1>10
      <4> QED BY <2>2, <4>1, <4>2
    <3>2. CASE UseCount(b) = 0 /\ Block(b)[l] = Release(b)
      <4>1. Block(b)[l].op = "release" /\ Block(b)[l].node = b
        BY <3>2, InstructionFields DEF Release
      <4>2. Freed(b, l) = <<b>> /\ Given(b) = Ended(b) \o <<b>> /\ <<b>> \in Seq(Nodes)
        BY <1>4, <3>2, <4>1, Singletons DEF Freed
      <4>3. log[b] \o (Ended(b) \o <<b>>) = (log[b] \o Ended(b)) \o <<b>>
        BY <1>4, <1>9, <4>2
      <4> QED BY <2>2, <4>2, <4>3
    <3> QED BY <1>13, <3>1, <3>2
  <2> QED BY <1>4, <1>10, <2>1, <2>2, <2>3 DEF w
<1>14. CASE
        /\ l = w
        /\ \/ \E e1 \in BranchPositions(b) :
                Block(b)[l] = Instruction("transfer", e1[1], <<b>>, <<>>)
           \/ /\ UseCount(b) = 0 /\ BranchPositions(b) = {}
              /\ Block(b)[l] = Release(b)
           \/ \E f \in Fanouts :
                Operand(f) = b /\ Block(b)[l] = Instruction("fanout", f, <<>>, <<>>)
  <2>1. \/ \E e1 \in BranchPositions(b) :
             Block(b)[l] = Instruction("transfer", e1[1], <<b>>, <<>>)
        \/ /\ UseCount(b) = 0 /\ BranchPositions(b) = {}
           /\ Block(b)[l] = Release(b)
        \/ \E f \in Fanouts :
             Operand(f) = b /\ Block(b)[l] = Instruction("fanout", f, <<>>, <<>>)
    BY <1>14
  <2>2. \A x : <<x>> # <<>>
    OBVIOUS
  <2>3. CASE \E e1 \in BranchPositions(b) :
               Block(b)[l] = Instruction("transfer", e1[1], <<b>>, <<>>)
    <3>1. PICK e1 \in BranchPositions(b) :
               Block(b)[l] = Instruction("transfer", e1[1], <<b>>, <<>>)
      BY <2>3
    <3>2. Block(b)[l].op = "transfer" /\ UseCount(b) # 0 /\ Closing(b) # <<>>
      BY <2>2, <3>1, InstructionFields, UnusedWhenMade, ClosingFacts
    <3> QED BY <1>13, <1>14, <3>2
  <2>4. CASE UseCount(b) = 0 /\ Block(b)[l] = Release(b)
    BY <1>7, <1>13, <1>14, <2>4
  <2>5. CASE \E f \in Fanouts :
               Operand(f) = b /\ Block(b)[l] = Instruction("fanout", f, <<>>, <<>>)
    <3>1. PICK f \in Fanouts :
               Operand(f) = b /\ Block(b)[l] = Instruction("fanout", f, <<>>, <<>>)
      BY <2>5
    <3>3. UseCount(b) # 0 /\ Closing(b) = <<Instruction("fanout", f, <<>>, <<>>)>>
      BY <3>1, OperandFacts, ClosingFacts
    <3>2. Block(b)[l].op = "fanout" /\ UseCount(b) # 0 /\ Closing(b) # <<>>
      BY <2>2, <3>1, <3>3, InstructionFields
    <3> QED BY <1>13, <1>14, <3>2
  <2> QED BY <2>1, <2>3, <2>4, <2>5
<1>19. CASE l = 1 /\ First(b) = 2 /\ Block(b)[l] = Checks(b)[1]
  <2>1. Kind(b) # "fanout" /\ Block(b)[l].op = "require"
    BY <1>19, ChecksFacts
  <2>2. Freed(b, l) = <<>>
    BY <2>1 DEF Freed
  <2>3. p = 2 /\ l < w /\ l - 1 - p < 1 /\ l - p < 1 /\ l - 1 - p \in Int /\ l - p \in Int
    BY <1>1, <1>2, <1>19, <2>1
  <2>4. LogAt(log, b, l) = log[b] /\ LogAt(log, b, l + 1) = log[b]
    BY <1>3, <1>5, <1>6, <1>8, <2>3
  <2>5. ~ l = w
    BY <1>16, <2>3
  <2> QED BY <1>8, <2>2, <2>3, <2>4, <2>5 DEF w
<1>18. \/ l = 1 /\ First(b) = 2 /\ Block(b)[l] = Checks(b)[1]
       \/ /\ l = First(b) /\ Kind(b) # "fanout"
          /\ Block(b)[l] = Instruction(LeadingOp(b), b, LeadingFrom(b), Ended(b))
       \/ \E j \in DOMAIN Ended(b) : l = p + j /\ Block(b)[l] = Release(Ended(b)[j])
       \/ /\ l = w
          /\ \/ \E e1 \in BranchPositions(b) :
                  Block(b)[l] = Instruction("transfer", e1[1], <<b>>, <<>>)
             \/ /\ UseCount(b) = 0 /\ BranchPositions(b) = {}
                /\ Block(b)[l] = Release(b)
             \/ \E f \in Fanouts :
                  Operand(f) = b /\ Block(b)[l] = Instruction("fanout", f, <<>>, <<>>)
  BY Lines DEF p, w
<1> QED BY <1>11, <1>12, <1>14, <1>18, <1>19

\* What is in the slots when a block starts.
LEMMA SlotsAtBlock ==
  ASSUME Accepted, NEW k \in Int, NEW n \in Nodes
  PROVE  MadeAt(n, k, 1) /\ ~RemovedAt(n, k, 1) <=>
           \/ n < k /\ UsesLeft(n, k) # 0
           \/ n \in Fanouts /\ Operand(n) < k /\ k <= n
<1>1. n \in Int /\ ~ 1 > 1
  BY NodesAreNumbers
<1>2. RemovedAt(n, k, 1) <=> n < k /\ UsesLeft(n, k) = 0
  <2>1. 1 .. 1 - 1 = {}
    OBVIOUS
  <2> QED BY <2>1 DEF RemovedAt
<1>3. CASE n \in Fanouts
  <2>1. /\ Kind(n) = "fanout" /\ Operand(n) \in Int /\ Operand(n) < n
    BY <1>3, FanoutFacts, NodesAreNumbers
  <2>2. MadeAt(n, k, 1) <=> Operand(n) < k
  <3>1. ASSUME Operand(n) = k, 1 > Len(Block(k))
        PROVE  FALSE
    <4>1. k \in Nodes /\ Len(Block(k)) \in Nat /\ Len(Block(k)) >= 1
      BY <1>3, <3>1, FanoutFacts, BlockLines
    <4> QED BY <3>1, <4>1
  <3> QED BY <2>1, <3>1 DEF MadeAt
  <2> QED BY <1>1, <1>2, <1>3, <2>1, <2>2
<1>4. CASE n \notin Fanouts
  <2>1. Kind(n) # "fanout"
    BY <1>4 DEF Fanouts
  <2>2. MadeAt(n, k, 1) <=> n < k
    <3>1. First(n) \in {1, 2}
      BY ChecksFacts
    <3>2. ~ 1 > First(n)
      BY <3>1
    <3> QED BY <1>1, <2>1, <3>2 DEF MadeAt
  <2> QED BY <1>1, <1>2, <1>4, <2>2
<1> QED BY <1>3, <1>4

\* Until a block has made its value, the slots are as they were at its start.
LEMMA SlotsBeforeMaking ==
  ASSUME Accepted, NEW b \in Nodes, Kind(b) # "fanout", NEW l \in 1 .. First(b),
         NEW n \in Nodes
  PROVE  /\ MadeAt(n, b, l) <=> MadeAt(n, b, 1)
         /\ RemovedAt(n, b, l) <=> RemovedAt(n, b, 1)
<1>1. /\ First(b) \in {1, 2} /\ First(b) \in DOMAIN Block(b)
      /\ DOMAIN Block(b) = 1 .. Len(Block(b)) /\ Len(Block(b)) \in Nat
  BY ChecksFacts, BlockLines
<1>2. ~ l > First(b) /\ ~ 1 > First(b) /\ ~ l > Len(Block(b)) /\ ~ 1 > Len(Block(b))
  BY <1>1
<1>3. \A i \in 1 .. l - 1 : i \in 1 .. First(b) - 1
  BY <1>1
<1>4. \A i \in 1 .. l - 1 : ~Removes(Block(b)[i], n)
  BY <1>3, ChecksTakeNothing
<1>5. 1 .. 1 - 1 = {}
  OBVIOUS
<1> QED BY <1>2, <1>4, <1>5 DEF MadeAt, RemovedAt

\* The operation of line l of block b is the one that fails; a call that fails
\* may have failed at its check already.
Fails(b, l) ==
  \/ /\ Block(b)[l].op \in {"literal", "apply", "tuple"}
     /\ fault = <<"node", Block(b)[l].node>>
  \/ /\ Block(b)[l].op = "fanout"
     /\ fault = <<"admit", Block(b)[l].node>>
MayFail(b, l) ==
  \/ Fails(b, l)
  \/ Block(b)[l].op = "require" /\ fault = <<"node", Block(b)[l].node>>

\* An execution stays before the place where it leaves until it fails there.
LEMMA StaysBefore ==
  ASSUME Accepted, NEW k \in Int, Stops(k), NEW b \in Nodes, NEW l \in DOMAIN Block(b),
         Before(b, l, k), ~Fails(b, l)
  PROVE  /\ b <= k
         /\ l < Len(Block(b)) => Before(b, l + 1, k)
         /\ l = Len(Block(b)) => b < k /\ Before(b + 1, 1, k)
<1>1. b \in Int /\ Nodes = 1 .. Len(program.kind) /\ Len(program.kind) \in Nat
  BY Arenas, NodesAreNumbers
<1>2. CASE b = k /\ l \in {1, First(b)} /\ \A f \in Fanouts : fault # <<"admit", f>>
  <2>1. k # Len(program.kind) + 1
    BY <1>1, <1>2
  <2>2. fault = <<"node", b>>
    BY <1>2, <2>1 DEF Stops
  <2>3. Kind(b) \in {"vector", "call", "tuple"}
    BY <2>2, FaultyKinds
  <2>4. Block(b)[First(b)] = Instruction(LeadingOp(b), b, LeadingFrom(b), Ended(b))
        /\ First(b) \in {1, 2} /\ First(b) \in DOMAIN Block(b)
        /\ DOMAIN Block(b) = 1 .. Len(Block(b)) /\ Len(Block(b)) \in Nat
    BY <2>3, BlockLines, ChecksFacts
  <2>5. Block(b)[First(b)].op = LeadingOp(b) /\ Block(b)[First(b)].node = b
    BY <2>4, InstructionFields
  <2>6. LeadingOp(b) \in {"literal", "apply", "tuple"}
    BY <2>3 DEF LeadingOp
  <2>7. l # First(b)
    BY <2>2, <2>5, <2>6 DEF Fails
  <2>8. l + 1 = First(b) /\ l # Len(Block(b)) /\ b <= k
    BY <1>1, <1>2, <2>4, <2>7
  <2> QED BY <1>2, <2>8 DEF Before
<1>3. ASSUME l = Len(Block(b)), b < k
      PROVE  Before(b + 1, 1, k)
  <2>1. ASSUME b + 1 = k, NEW f \in Fanouts, fault = <<"admit", f>>
        PROVE  FALSE
    <3>1. Operand(f) + 1 = k /\ Operand(f) \in Int
      BY <2>1, OneFault, FanoutFacts, NodesAreNumbers
    <3>2. Operand(f) = b
      BY <1>1, <2>1, <3>1
    <3>3. Block(b)[l] = Instruction("fanout", f, <<>>, <<>>)
      BY <1>3, <3>2, LastLine
    <3>4. Block(b)[l].op = "fanout" /\ Block(b)[l].node = f
      BY <3>3, InstructionFields
    <3> QED BY <2>1, <3>4 DEF Fails
  <2>2. b + 1 < k \/ b + 1 = k
    BY <1>1, <1>3
  <2> QED BY <2>1, <2>2 DEF Before
<1>4. CASE b < k
  <2>1. b <= k
    BY <1>1, <1>4
  <2> QED BY <1>3, <1>4, <2>1 DEF Before
<1> QED BY <1>2, <1>4 DEF Before

LEMMA WhereItStops ==
  ASSUME EvaluatorInv, NEW log, EvaluatorLog(log), status \in {"failed", "done"},
         fault # <<"start", 0>>
  PROVE  /\ Stops(node_index) /\ History(log, node_index)
         /\ node_index \in 1 .. Len(program.kind) + 1 /\ node_index \in Int
         /\ log \in [1 .. node_index -> Seq(Nodes)]
         /\ status = "done" <=> fault = <<"none", 0>>
<1>1. Accepted /\ node_index \in 1 .. Len(program.kind) + 1
  BY DEF EvaluatorInv, EvaluatorTypeOK
<1>2. Len(program.kind) \in Nat
  BY <1>1, Arenas
<1>3. node_index \in Int
  BY <1>1, <1>2
<1> QED BY <1>1, <1>3 DEF EvaluatorLog, History

\* An instruction that does not fail.
LEMMA RunsOn ==
  ASSUME EvaluatorInv, EmittedInv, NEW log, EvaluatorLog(log), NativeLog(log),
         NEW op, AtInstruction(op), Advance,
         UNCHANGED <<program, fault, evaluatorVars, code, native>>,
         ~Fails(block, line), freed' = freed \o Freed(block, line)
  PROVE  NativeLog(log)'
<1> DEFINE k == node_index
<1>1. /\ Accepted /\ block \in Nodes /\ line \in DOMAIN Block(block)
      /\ code[block] = Block(block) /\ native = "executing"
  BY RunFacts
<1>2. PICK b \in Nodes : b = block
  BY <1>1
<1>3. PICK l \in DOMAIN Block(b) : l = line
  BY <1>1, <1>2
<1>4. /\ status \in {"failed", "done"} /\ fault # <<"start", 0>>
      /\ Before(b, l, k) /\ freed = LogAt(log, b, l)
  BY <1>1, <1>2, <1>3 DEF NativeLog
<1>5. /\ Stops(k) /\ History(log, k) /\ k \in Int
      /\ log \in [1 .. k -> Seq(Nodes)]
  BY <1>4, WhereItStops
<1>6. /\ b <= k
      /\ l < Len(Block(b)) => Before(b, l + 1, k)
      /\ l = Len(Block(b)) => b < k /\ Before(b + 1, 1, k)
  BY <1>1, <1>2, <1>3, <1>4, <1>5, StaysBefore
<1>7. (b < k => b \in 1 .. k - 1) /\ b \in 1 .. k /\ b \in Int /\ b >= 1
  <2>1. Nodes = 1 .. Len(program.kind) /\ Len(program.kind) \in Nat
    BY <1>1, Arenas
  <2> QED BY <1>5, <1>6, <2>1
<1>8. log[b] \in Seq(Nodes) /\ (b < k => log[b + 1] = log[b] \o Given(b))
  BY <1>5, <1>7 DEF History
<1>9. /\ l < Len(Block(b)) => freed' = LogAt(log, b, l + 1)
      /\ l = Len(Block(b)) => freed' = log[b + 1]
  BY <1>1, <1>2, <1>3, <1>4, <1>6, <1>8, NextLog
<1>10. l \in Int /\ Len(Block(b)) \in Nat /\ l <= Len(Block(b))
  <2>1. DOMAIN Block(b) = 1 .. Len(Block(b)) /\ Len(Block(b)) \in Nat
    BY <1>1, BlockLines
  <2> QED BY <2>1
<1>11. PICK nb, nl : nb = block' /\ nl = line'
  OBVIOUS
<1>12. Before(nb, nl, k) /\ freed' = LogAt(log, nb, nl)
  <2>1. CASE l < Len(Block(b))
    <3>1. nb = b /\ nl = l + 1
      BY <1>1, <1>2, <1>3, <1>11, <2>1 DEF Advance
    <3> QED BY <1>6, <1>9, <2>1, <3>1
  <2>2. CASE l = Len(Block(b))
    <3>1. nb = b + 1 /\ nl = 1
      BY <1>1, <1>2, <1>3, <1>10, <1>11, <2>2 DEF Advance
    <3>2. LogAt(log, nb, nl) = log[b + 1]
      BY <3>1 DEF LogAt
    <3> QED BY <1>6, <1>9, <2>2, <3>1, <3>2
  <2> QED BY <1>10, <2>1, <2>2
<1>13. PICK m : m = k
  OBVIOUS
<1>14. Before(nb, nl, m)' /\ freed' = LogAt(log, nb, nl)'
  BY <1>12, <1>13, SameLogs
<1>15. UNCHANGED <<node_index, status>>
  BY DEF evaluatorVars
<1>16. Before(block, line, node_index)' /\ freed' = LogAt(log, block, line)'
  BY <1>11, <1>13, <1>14, <1>15 DEF Before, LogAt
<1> QED BY <1>1, <1>4, <1>15, <1>16 DEF NativeLog

\* The slots an execution leaves behind, when no table was refused.
LEMMA SlotsAreAlive ==
  ASSUME Accepted, NEW k \in Int, slots \subseteq Nodes,
         \A n \in Nodes : n \in slots <=> MadeAt(n, k, 1) /\ ~RemovedAt(n, k, 1),
         \A f \in Fanouts : fault # <<"admit", f>>
  PROVE  slots = Alive(k)
<1>1. \A n \in Nodes : n \in slots <=>
        \/ n < k /\ UsesLeft(n, k) # 0
        \/ n \in Fanouts /\ Operand(n) < k /\ k <= n
  BY SlotsAtBlock
<1>2. Fanouts \subseteq Nodes
  BY DEF Fanouts
<1> QED BY <1>1, <1>2 DEF Alive

\* The slots it leaves behind when the table of f was refused.
LEMMA SlotsWithoutTable ==
  ASSUME Accepted, NEW f \in Fanouts, NEW b \in Nodes, b = Operand(f), fault = <<"admit", f>>,
         NEW l \in DOMAIN Block(b), l = Len(Block(b)), Running(b, l), slots \subseteq Nodes
  PROVE  slots = Alive(b + 1)
<1>1. Block(b)[l] = Instruction("fanout", f, <<>>, <<>>)
  BY LastLine
<1>2. \A n \in Nodes : MakesAt(b, l, n) <=> n = f
  BY <1>1, InstructionFields, LineByOp
<1>3. \A n \in Nodes : ~Removes(Block(b)[l], n)
  BY <1>1, InstructionFields, LineByOp
<1>4. b \in Int /\ b + 1 \in Int
  BY NodesAreNumbers
<1>5. ASSUME NEW n \in Nodes
      PROVE  MadeAt(n, b + 1, 1) /\ ~RemovedAt(n, b + 1, 1) <=> n \in slots \/ n = f
  <2>1. /\ MadeAt(n, b, l + 1) <=> MadeAt(n, b, l) \/ n = f
        /\ n = f => ~MadeAt(n, b, l)
        /\ RemovedAt(n, b, l + 1) <=> RemovedAt(n, b, l)
        /\ RemovedAt(n, b, l) => MadeAt(n, b, l)
    BY <1>2, <1>3, NextLine
  <2>2. /\ MadeAt(n, b + 1, 1) <=> MadeAt(n, b, l + 1)
        /\ RemovedAt(n, b + 1, 1) <=> RemovedAt(n, b, l + 1)
    BY NextBlock
  <2>3. n \in slots <=> MadeAt(n, b, l) /\ ~RemovedAt(n, b, l)
    BY DEF Running
  <2> QED BY <2>1, <2>2, <2>3
<1>6. f \notin slots
  <2>1. f \in Nodes /\ ~MadeAt(f, b, l)
    BY <1>2, NextLine DEF Fanouts
  <2> QED BY <2>1 DEF Running
<1>7. \A n \in Nodes : n \in slots \/ n = f <=>
        \/ n < b + 1 /\ UsesLeft(n, b + 1) # 0
        \/ n \in Fanouts /\ Operand(n) < b + 1 /\ b + 1 <= n
  BY <1>4, <1>5, SlotsAtBlock
<1>8. \A n : fault = <<"admit", n>> <=> n = f
  OBVIOUS
<1>9. f \in Nodes /\ f \in Int /\ ~ f < b + 1
  <2>1. f \in Nodes /\ b < f /\ f \in Int
    BY FanoutFacts, NodesAreNumbers
  <2> QED BY <1>4, <2>1
<1>10. \A n \in Nodes : n \in slots <=> n \in Alive(b + 1)
  <2>1. \A n \in Nodes : n \in Alive(b + 1) <=>
           \/ n < b + 1 /\ UsesLeft(n, b + 1) # 0
           \/ n \in Fanouts /\ Operand(n) < b + 1 /\ b + 1 <= n /\ n # f
    BY <1>8 DEF Alive
  <2> QED BY <1>6, <1>7, <1>9, <2>1
<1>11. Alive(b + 1) \subseteq Nodes
  BY DEF Alive, Fanouts
<1> QED BY <1>10, <1>11

LEMMA NativeLeaves ==
  ASSUME UNCHANGED <<program, fault, evaluatorVars>>, NEW log, NativeLog(log),
         native = "executing", native' \in {"ok", "failed"},
         native' = "ok" <=> fault = <<"none", 0>>,
         freed' = Whole(log, node_index)
  PROVE  NativeLog(log)'
<1>1. UNCHANGED <<node_index, status>>
  BY DEF evaluatorVars
<1>2. PICK k : k = node_index
  OBVIOUS
<1>3. freed' = Whole(log, k)'
  BY <1>2, SameLogs
<1>4. freed' = Whole(log, node_index)'
  BY <1>1, <1>2, <1>3 DEF Whole
<1>5. status \in {"failed", "done"} /\ fault # <<"start", 0>>
  BY DEF NativeLog
<1> QED BY <1>1, <1>4, <1>5 DEF NativeLog

\* An instruction that fails, with everything it leaves behind.
LEMMA AbortLogged ==
  ASSUME EvaluatorInv, EmittedInv, NEW log, EvaluatorLog(log), NativeLog(log),
         NEW op, AtInstruction(op), MayFail(block, line), Abort,
         UNCHANGED <<program, fault, evaluatorVars>>
  PROVE  NativeLog(log)'
<1> DEFINE k == node_index
<1>1. /\ Accepted /\ block \in Nodes /\ line \in DOMAIN Block(block)
      /\ Current = Block(block)[line] /\ native = "executing"
      /\ Running(block, line) /\ slots \subseteq Nodes /\ freed \in Seq(Nodes)
  BY RunFacts
<1>2. PICK b \in Nodes : b = block
  BY <1>1
<1>3. PICK l \in DOMAIN Block(b) : l = line
  BY <1>1, <1>2
<1>4. /\ status \in {"failed", "done"} /\ fault # <<"start", 0>>
      /\ Before(b, l, k) /\ freed = LogAt(log, b, l)
      /\ Current = Block(b)[l] /\ Running(b, l) /\ MayFail(b, l)
  BY <1>1, <1>2, <1>3 DEF NativeLog
<1>5. /\ Stops(k) /\ History(log, k) /\ k \in Int
      /\ log \in [1 .. k -> Seq(Nodes)]
  BY <1>4, WhereItStops
<1>6. /\ native' = "failed"
      /\ freed' = freed \o Freeing(Current.releases)
                    \o Descending(slots \ ToSet(Freeing(Current.releases)))
  BY DEF Abort, CleanUp
<1>7. CASE /\ Block(b)[l].op \in {"literal", "apply", "tuple", "require"}
           /\ fault = <<"node", Block(b)[l].node>>
  <2>1. l \in {1, First(b)} /\ Block(b)[l].node = b /\ Kind(b) # "fanout"
    BY <1>1, <1>7, LineByOp
  <2>2. k = b /\ fault = <<"node", k>>
    BY <1>1, <1>5, <1>7, <2>1, OneFault
  <2>3. /\ Block(b)[First(b)] = Instruction(LeadingOp(b), b, LeadingFrom(b), Ended(b))
        /\ Len(Leading(b)) = First(b) /\ First(b) \in {1, 2}
    BY <1>1, <2>1, BlockLines, ChecksFacts
  <2>4. Current.releases = Ended(b)
    <3>1. CASE Block(b)[l].op = "require"
      BY <1>1, <1>4, <3>1, LineByOp
    <3>2. CASE Block(b)[l].op # "require"
      <4>1. l = First(b)
        BY <1>1, <1>7, <3>2, LineByOp
      <4> QED BY <1>4, <2>3, <4>1, InstructionFields
    <3> QED BY <3>1, <3>2
  <2>11. l \in 1 .. First(b) /\ 1 \in 1 .. First(b) /\ l \in Int
    BY <2>1, <2>3
  <2>5. slots = Alive(b)
    <3>1. \A f \in Fanouts : fault # <<"admit", f>>
      BY <1>7
    <3>2. \A n \in Nodes : n \in slots <=> MadeAt(n, b, 1) /\ ~RemovedAt(n, b, 1)
      BY <1>1, <1>4, <2>1, <2>11, SlotsBeforeMaking DEF Running
    <3>3. b \in Int
      BY <1>5, <2>2
    <3> QED BY <1>1, <3>1, <3>2, <3>3, SlotsAreAlive
  <2>6. Freeing(Ended(b)) = Ended(b)
    <3>1. \A m \in ToSet(Ended(b)) : m \in Alive(b)
      <4>1. \A m \in ToSet(Ended(b)) : m \in Nodes /\ m < b /\ UsesLeft(m, b) # 0
        <5>1. Ended(b) \in Seq(Nodes) /\ DOMAIN Ended(b) = 1 .. Len(Ended(b))
          BY <1>1, EndedFacts
        <5>2. \A m \in ToSet(Ended(b)) : m \in Nodes
          BY <5>1, ElementOfSeq DEF ToSet
        <5> QED BY <1>1, <5>2, EndedFacts
      <4> QED BY <4>1 DEF Alive
    <3>2. Ended(b) \in Seq(Nodes)
      BY <1>1, EndedFacts
    <3> QED BY <2>5, <3>1, <3>2, FreeingAll
  <2>7. freed = log[b]
    <3>1. log[b] \in Seq(Nodes)
      <4>1. Nodes = 1 .. Len(program.kind) /\ Len(program.kind) \in Nat
        BY <1>1, Arenas
      <4>2. b \in 1 .. k
        BY <2>2, <4>1
      <4> QED BY <1>5, <4>2
    <3>2. freed = log[b] \o SubSeq(Given(b), 1, l - 1 - Len(Leading(b)))
      BY <1>1, <1>4, <3>1, LogInBlock
    <3>3. l - 1 - Len(Leading(b)) \in Int /\ l - 1 - Len(Leading(b)) < 1
      BY <2>1, <2>3
    <3>4. SubSeq(Given(b), 1, l - 1 - Len(Leading(b))) = <<>>
      BY <3>3, SubSeqEmpty
    <3> QED BY <3>1, <3>2, <3>4, ConcatEmptySeq
  <2>8. Whole(log, b) = log[b] \o Ended(b) \o Descending(Alive(b) \ ToSet(Ended(b)))
    BY <2>2 DEF Whole
  <2>9. freed' = Whole(log, k)
    BY <1>6, <2>2, <2>4, <2>5, <2>6, <2>7, <2>8
  <2>10. fault # <<"none", 0>>
    BY <1>7
  <2> QED BY <1>1, <1>6, <2>9, <2>10, NativeLeaves
<1>8. CASE Block(b)[l].op = "fanout" /\ fault = <<"admit", Block(b)[l].node>>
  <2>1. PICK f \in Fanouts : f = Block(b)[l].node /\ Operand(f) = b
    BY <1>1, <1>8, LineByOp
  <2>2. fault = <<"admit", f>> /\ k = b + 1
    BY <1>1, <1>5, <1>8, <2>1, OneFault
  <2>3. l = Len(Block(b))
    <3>1. MakesAt(b, l, f)
      BY <1>1, <1>8, <2>1, LineByOp DEF Fanouts
    <3>2. Kind(f) = "fanout"
      BY DEF Fanouts
    <3> QED BY <3>1, <3>2 DEF MakesAt
  <2>4. Block(b)[l] = Instruction("fanout", f, <<>>, <<>>)
    BY <1>1, <2>1, <2>3, LastLine
  <2>5. Current.releases = <<>> /\ Freed(b, l) = <<>>
    BY <1>4, <1>8, <2>4, InstructionFields DEF Freed
  <2>6. Freeing(<<>>) = <<>> /\ ToSet(<<>>) = {}
    <3>1. ToSet(<<>>) = {} /\ <<>> \in Seq(Nodes)
      BY EmptyLog
    <3> QED BY <3>1, FreeingAll
  <2>7. slots = Alive(b + 1)
    BY <1>1, <1>4, <2>1, <2>2, <2>3, SlotsWithoutTable
  <2>8. freed = log[b + 1]
    <3>1. b \in 1 .. k - 1 /\ b \in 1 .. k
      <4>1. Nodes = 1 .. Len(program.kind) /\ Len(program.kind) \in Nat
        BY <1>1, Arenas
      <4> QED BY <2>2, <4>1
    <3>2. log[b] \in Seq(Nodes) /\ log[b + 1] = log[b] \o Given(b)
      BY <1>5, <3>1 DEF History
    <3>3. LogAt(log, b, l) \o <<>> = log[b] \o Given(b) /\ LogAt(log, b, l) \in Seq(Nodes)
      BY <1>1, <2>3, <2>5, <3>2, NextLog
    <3> QED BY <1>4, <3>2, <3>3, ConcatEmptySeq
  <2>9. freed' = log[k] \o <<>> \o Descending(Alive(k) \ ToSet(<<>>))
    BY <1>6, <2>2, <2>5, <2>6, <2>7, <2>8
  <2>10. Whole(log, k) = log[k] \o <<>> \o Descending(Alive(k) \ ToSet(<<>>))
    BY <2>2 DEF Whole
  <2>11. fault # <<"none", 0>>
    BY <1>8
  <2> QED BY <1>1, <1>6, <2>9, <2>10, <2>11, NativeLeaves
<1> QED BY <1>4, <1>7, <1>8 DEF Fails, MayFail

\* The program that comes to the end.
LEMMA PrintLogged ==
  ASSUME EvaluatorInv, EmittedInv, NEW log, EvaluatorLog(log), NativeLog(log),
         ExecutePrint, UNCHANGED <<program, fault, evaluatorVars>>
  PROVE  NativeLog(log)'
<1> DEFINE N == Len(program.kind)
           k == node_index
<1>1. /\ native = "executing" /\ block = N + 1 /\ Accepted
      /\ freed' = freed \o <<>> \o Descending(slots)
      /\ native' = IF Succeeds(<<"output", 0>>) THEN "ok" ELSE "failed"
  BY DEF ExecutePrint, CleanUp, EmittedInv
<1>2. N \in Nat /\ Nodes = 1 .. N
  BY <1>1, Arenas
<1>3. line = 1 /\ Running(block, line) /\ slots \subseteq Nodes
  BY <1>1, <1>2 DEF EmittedInv, EmittedTypeOK
<1>4. /\ status \in {"failed", "done"} /\ fault # <<"start", 0>>
      /\ Before(N + 1, 1, k) /\ freed = LogAt(log, N + 1, 1)
  BY <1>1, <1>3 DEF NativeLog
<1>5. /\ Stops(k) /\ History(log, k) /\ k \in 1 .. N + 1
  BY <1>4, WhereItStops
<1>6. k = N + 1 /\ \A f \in Fanouts : fault # <<"admit", f>>
  BY <1>2, <1>4, <1>5 DEF Before
<1>7. k \notin Nodes
  BY <1>2, <1>6
<1>8. fault \in {<<"none", 0>>, <<"output", 0>>}
  BY <1>5, <1>6, <1>7 DEF Stops
<1>9. slots = Alive(k)
  <2>1. PICK m \in Int : m = N + 1
    BY <1>2
  <2>2. \A n \in Nodes : n \in slots <=> MadeAt(n, m, 1) /\ ~RemovedAt(n, m, 1)
    BY <1>1, <1>3, <2>1 DEF Running
  <2>3. slots = Alive(m)
    BY <1>1, <1>3, <1>6, <2>2, SlotsAreAlive
  <2> QED BY <1>6, <2>1, <2>3
<1>10. freed = log[k]
  BY <1>4, <1>6 DEF LogAt
<1>11. Alive(k) \ ToSet(<<>>) = Alive(k)
  BY EmptyLog
<1>12. fault # <<"node", k>>
  BY <1>8
<1>13. Whole(log, k) = log[k] \o <<>> \o Descending(Alive(k))
  BY <1>11, <1>12 DEF Whole
<1>14. freed' = Whole(log, k)
  BY <1>1, <1>9, <1>10, <1>13
<1>15. native' \in {"ok", "failed"} /\ (native' = "ok" <=> fault = <<"none", 0>>)
  BY <1>1, <1>8 DEF Succeeds
<1> QED BY <1>1, <1>14, <1>15, NativeLeaves

\* An instruction that fails or releases nothing.
LEMMA InstructionLogged ==
  ASSUME EvaluatorInv, EmittedInv, NEW log, EvaluatorLog(log), NativeLog(log),
         UNCHANGED <<program, fault, evaluatorVars>>,
         NEW op \in {"store", "literal", "require", "apply", "tuple", "fanout", "transfer"},
         AtInstruction(op),
         \/ MayFail(block, line) /\ Abort
         \/ ~Fails(block, line) /\ Advance /\ UNCHANGED <<code, freed, native>>
  PROVE  NativeLog(log)'
<1>1. /\ Current = Block(block)[line] /\ Current.op = op /\ freed \in Seq(Nodes)
  BY RunFacts
<1>2. Freed(block, line) = <<>> /\ freed \o <<>> = freed
  BY <1>1, ConcatEmptySeq DEF Freed
<1>3. CASE MayFail(block, line) /\ Abort
  BY <1>3, AbortLogged
<1>4. CASE ~Fails(block, line) /\ Advance /\ UNCHANGED <<code, freed, native>>
  <2>1. freed' = freed \o Freed(block, line)
    BY <1>2, <1>4
  <2> QED BY <1>4, <2>1, RunsOn
<1> QED BY <1>3, <1>4

LEMMA ReleaseLogged ==
  ASSUME EvaluatorInv, EmittedInv, NEW log, EvaluatorLog(log), NativeLog(log),
         UNCHANGED <<program, fault, evaluatorVars>>, ExecuteRelease
  PROVE  NativeLog(log)'
<1>1. AtInstruction("release") /\ Advance /\ UNCHANGED <<code, native>>
      /\ freed' = freed \o Freeing(<<Current.node>>)
  BY DEF ExecuteRelease
<1>2. /\ Accepted /\ block \in Nodes /\ line \in DOMAIN Block(block)
      /\ Current = Block(block)[line] /\ Current.op = "release"
      /\ Running(block, line)
  BY <1>1, RunFacts
<1>3. Current.node \in Nodes /\ Removes(Block(block)[line], Current.node)
  BY <1>2, LineByOp
<1>4. Current.node \in slots
  BY <1>2, <1>3, NextLine DEF Running
<1>5. Freeing(<<Current.node>>) = <<Current.node>>
  <2>1. <<Current.node>> \in Seq(Nodes) /\ ToSet(<<Current.node>>) = {Current.node}
    BY <1>3, Singletons
  <2> QED BY <1>4, <2>1, FreeingAll
<1>6. Freed(block, line) = <<Current.node>>
  BY <1>2 DEF Freed
<1>7. ~Fails(block, line)
  BY <1>2 DEF Fails
<1> QED BY <1>1, <1>5, <1>6, <1>7, RunsOn

\* The emitter, until the program runs.
LEMMA EmitterLogged ==
  ASSUME EvaluatorInv, EmittedInv, NEW log, EvaluatorLog(log), NativeLog(log),
         UNCHANGED <<program, fault, evaluatorVars>>, status \in {"failed", "done"},
         EmitNode \/ Refuse \/ Launch
  PROVE  NativeLog(log)'
<1>1. native = "emitting" /\ freed = <<>> /\ UNCHANGED <<block, line, freed>>
      /\ UNCHANGED <<node_index, status>>
  BY DEF EmitNode, Refuse, Launch, NativeLog, evaluatorVars
<1>2. CASE EmitNode
  BY <1>1, <1>2 DEF EmitNode, NativeLog
<1>3. CASE Refuse
  BY <1>1, <1>3 DEF Refuse, NativeLog, Succeeds
<1>4. CASE Launch
  <2>1. /\ native' = "executing" /\ fault # <<"start", 0>>
        /\ block = 1 /\ line = 1 /\ Accepted
    BY <1>1, <1>4 DEF Launch, Succeeds, EmittedInv
  <2>2. /\ Stops(node_index) /\ History(log, node_index)
        /\ node_index \in 1 .. Len(program.kind) + 1 /\ node_index \in Int
    BY <2>1, WhereItStops
  <2>3. \A f \in Fanouts : fault = <<"admit", f>> => node_index # 1
    <3>1. SUFFICES ASSUME NEW f \in Fanouts, fault = <<"admit", f>>, node_index = 1
                   PROVE  FALSE
      OBVIOUS
    <3>2. Operand(f) + 1 = 1 /\ Operand(f) \in Nodes
      BY <2>1, <2>2, <3>1, OneFault, FanoutFacts
    <3>3. Nodes = 1 .. Len(program.kind)
      BY <2>1, Arenas
    <3>4. Operand(f) \in Int /\ 1 <= Operand(f)
      BY <2>1, <3>2, <3>3, NodesAreNumbers
    <3> QED BY <3>2, <3>4
  <2>4. PICK k : k = node_index
    OBVIOUS
  <2>5. Before(1, 1, k)
    BY <2>2, <2>3, <2>4 DEF Before
  <2>6. Before(1, 1, k)' /\ log[1] = <<>>
    BY <2>2, <2>5, SameLogs DEF History
  <2>7. Before(block, line, node_index)'
    BY <1>1, <2>1, <2>4, <2>6 DEF Before
  <2>8. freed' = LogAt(log, block, line)'
    BY <1>1, <2>1, <2>6 DEF LogAt
  <2> QED BY <1>1, <2>1, <2>7, <2>8 DEF NativeLog
<1> QED BY <1>2, <1>3, <1>4

LEMMA NativeLogged ==
  ASSUME EvaluatorInv, EmittedInv, NEW log, EvaluatorLog(log), NativeLog(log),
         UNCHANGED <<program, fault, evaluatorVars>>, status \in {"failed", "done"},
         Regular, EmittedNext
  PROVE  NativeLog(log)'
<1>1. \A op : AtInstruction(op) => Current = Block(block)[line] /\ Current.op = op
  BY RunFacts
<1>2. CASE ExecuteStore
  BY <1>1, <1>2, InstructionLogged DEF ExecuteStore, Fails
<1>3. CASE ExecuteLiteral
  BY <1>1, <1>3, InstructionLogged DEF ExecuteLiteral, Fails, MayFail, Succeeds
<1>8. \A op : AtInstruction(op) /\ op \in {"require", "apply"} =>
        Current.node \in Nodes /\ ~Misled(Current.node) /\ ~Unchecked(Current.node)
  <2>1. SUFFICES ASSUME NEW op \in {"require", "apply"}, AtInstruction(op)
                 PROVE  Current.node \in Nodes
    BY DEF Regular
  <2>2. /\ Accepted /\ block \in Nodes /\ line \in DOMAIN Block(block)
        /\ Current = Block(block)[line] /\ Current.op = op
    BY <2>1, RunFacts
  <2> QED BY <2>2, LineByOp
<1>4. CASE ExecuteApply
  BY <1>1, <1>4, <1>8, InstructionLogged DEF ExecuteApply, Fails, MayFail, Succeeds
<1>9. CASE ExecuteRequire
  BY <1>1, <1>8, <1>9, InstructionLogged DEF ExecuteRequire, Fails, MayFail, Succeeds
<1>5. CASE ExecuteTuple
  BY <1>1, <1>5, InstructionLogged DEF ExecuteTuple, Fails, MayFail, Succeeds
<1>6. CASE ExecuteFanout
  BY <1>1, <1>6, InstructionLogged DEF ExecuteFanout, Fails, MayFail, Succeeds
<1>7. CASE ExecuteTransfer
  BY <1>1, <1>7, InstructionLogged DEF ExecuteTransfer, Fails
<1> QED
  BY <1>2, <1>3, <1>4, <1>5, <1>6, <1>7, <1>9, EmitterLogged, ReleaseLogged, PrintLogged
  DEF EmittedNext

(***************************************************************************)
(* Both.                                                                   *)
(***************************************************************************)

LEMMA InitialParity ==
  Init => ParityInv
<1> SUFFICES ASSUME Init PROVE ParityInv
  OBVIOUS
<1>1. /\ node_index = 1 /\ released = <<>> /\ status = "idle" /\ native = "emitting"
      /\ freed = <<>>
  BY DEF Init, EvaluatorInit, EmittedInit
<1>2. PICK log : log = [j \in 1 .. 1 |-> <<>>]
  OBVIOUS
<1>3. <<>> \in Seq(Nodes)
  BY EmptyLog
<1>4. log \in [1 .. 1 -> Seq(Nodes)] /\ log[1] = <<>> /\ 1 .. 1 - 1 = {}
  BY <1>2, <1>3
<1>5. History(log, 1)
  BY <1>4 DEF History
<1>6. EvaluatorLog(log)
  BY <1>1, <1>4, <1>5 DEF EvaluatorLog
<1>7. NativeLog(log)
  BY <1>1 DEF NativeLog
<1> QED BY <1>1, <1>4, <1>6, <1>7 DEF ParityInv

\* The evaluator takes no step once it has reported a failure.
LEMMA EvaluatorStarts ==
  EvaluatorNext => status \in {"idle", "running", "ok"}
BY DEF EvaluatorNext, Start, AdmitFanout, EvaluateScalar, EvaluatePlaceholder,
       EvaluateVector, EvaluateTuple, EvaluateFanout, EvaluateCall, Finish, ReleaseResult,
       AtNode

LEMMA ParityStep ==
  ASSUME EvaluatorInv, EvaluatorInv', EmittedInv, ParityInv, [Next]_vars
  PROVE  ParityInv'
<1> SUFFICES ASSUME Regular', status' # "internal" PROVE ParityInv'
  BY DEF ParityInv
<1>5. Regular /\ status # "internal"
  <2>1. UNCHANGED <<program, fault>>
    BY DEF Next, Evaluate, EmitAndRun, vars
  <2>2. Evaluate => status # "internal"
    BY EvaluatorStarts DEF Evaluate
  <2>3. EmitAndRun \/ UNCHANGED vars => status' = status
    BY DEF EmitAndRun, vars, evaluatorVars
  <2>4. Regular' <=> Regular
    BY <2>1, SameLogs
  <2> QED BY <2>2, <2>3, <2>4 DEF Next
<1> PICK log : EvaluatorLog(log) /\ NativeLog(log)
  BY <1>5 DEF ParityInv
<1>1. ASSUME NEW longer, EvaluatorLog(longer)', NativeLog(longer)'
      PROVE  ParityInv'
  <2>1. longer \in [1 .. node_index' -> Seq(Nodes')]
    BY <1>1 DEF EvaluatorLog, History
  <2> QED BY <1>1, <2>1 DEF ParityInv
<1>2. CASE Evaluate
  <2>1. EvaluatorNext /\ UNCHANGED <<program, fault, emittedVars>>
    BY <1>2 DEF Evaluate
  <2>2. status \notin {"failed", "done"} /\ \E longer : EvaluatorLog(longer)'
    BY <1>5, <2>1, EvaluatorLogged
  <2>3. native = "emitting" /\ freed = <<>>
    BY <2>2 DEF NativeLog
  <2>4. native' = "emitting" /\ freed' = <<>>
    BY <2>1, <2>3 DEF emittedVars
  <2>5. \A longer : NativeLog(longer)'
    BY <2>4 DEF NativeLog
  <2> QED BY <1>1, <2>2, <2>5
<1>3. CASE EmitAndRun
  <2>1. EmittedNext /\ UNCHANGED <<program, fault, evaluatorVars>>
        /\ status \in {"failed", "internal", "done"}
    BY <1>3 DEF EmitAndRun
  <2>2. status \in {"failed", "done"}
    BY <1>5, <2>1
  <2> QED BY <1>1, <1>5, <2>1, <2>2, EvaluatorLogSame, NativeLogged
<1>4. CASE UNCHANGED vars
  <2>1. UNCHANGED <<program, fault, evaluatorVars, emittedVars>>
    BY <1>4 DEF vars
  <2>2. EvaluatorLog(log)'
    BY <2>1, EvaluatorLogSame
  <2>3. NativeLog(log)'
    <3>1. UNCHANGED <<node_index, status, block, line, freed, native>>
      BY <2>1 DEF evaluatorVars, emittedVars
    <3>2. PICK k, b, l : k = node_index /\ b = block /\ l = line
      OBVIOUS
    <3>3. /\ Before(b, l, k)' <=> Before(b, l, k)
          /\ LogAt(log, b, l)' = LogAt(log, b, l)
          /\ Whole(log, k)' = Whole(log, k)
          /\ Comparable' <=> Comparable
      BY <2>1, SameLogs
    <3>4. /\ Before(block, line, node_index)' <=> Before(block, line, node_index)
          /\ LogAt(log, block, line)' = LogAt(log, block, line)
          /\ Whole(log, node_index)' = Whole(log, node_index)
      BY <3>1, <3>2, <3>3 DEF Before, LogAt, Whole
    <3> QED BY <2>1, <3>1, <3>3, <3>4 DEF NativeLog
  <2> QED BY <1>1, <2>2, <2>3
<1> QED BY <1>2, <1>3, <1>4 DEF Next

LEMMA SameReleasesFollows ==
  EvaluatorInv /\ EmittedInv /\ ParityInv => SameReleases
<1> SUFFICES ASSUME EvaluatorInv, ParityInv, BothFinished, ~TupleInBranchFails, Nested,
                    Regular, status # "internal"
             PROVE  freed = released /\ (native = "ok" <=> status = "done")
  BY DEF SameReleases
<1>1. PICK log : EvaluatorLog(log) /\ NativeLog(log)
  BY DEF ParityInv
<1>2. /\ Comparable /\ status \in {"failed", "done"}
      /\ native \in {"refused", "ok", "failed"}
  BY DEF Comparable, BothFinished, EvaluatorInv
<1>3. CASE fault = <<"start", 0>>
  <2>1. native = "refused" /\ freed = <<>>
    BY <1>1, <1>2, <1>3 DEF NativeLog
  <2>2. ~Stops(node_index)
    <3>1. Accepted
      BY DEF EvaluatorInv
    <3> QED BY <1>3, <3>1, OneFault
  <2>3. released = <<>> /\ status = "failed"
    BY <1>1, <1>2, <2>2 DEF EvaluatorLog
  <2> QED BY <2>1, <2>3
<1>4. CASE fault # <<"start", 0>>
  <2>1. native \in {"ok", "failed"} /\ freed = Whole(log, node_index)
        /\ (native = "ok" <=> fault = <<"none", 0>>)
    BY <1>1, <1>2, <1>4 DEF NativeLog
  <2>2. released = Whole(log, node_index) /\ (status = "done" <=> fault = <<"none", 0>>)
    BY <1>1, <1>2, <1>4 DEF EvaluatorLog
  <2> QED BY <2>1, <2>2
<1> QED BY <1>3, <1>4

\* For every program without a call or fan-out that the back ends treat
\* differently (Regular), and every fault the evaluator does not report as its
\* own: there is one log of what is released up to each node that the evaluator
\* of evaluate_rewrite_source_impl and the emitted bennu_execute both follow,
\* and both leave at the same node, a call at its shape check or at itself.
THEOREM ParityInvariant == Spec => []ParityInv
<1>1. Init => ParityInv
  BY InitialParity
<1>2. EvaluatorInv /\ EvaluatorInv' /\ EmittedInv /\ ParityInv /\ [Next]_vars => ParityInv'
  BY ParityStep
<1>3. Spec => [](EvaluatorInv /\ EmittedInv)
  BY BackendsInvariant
<1> QED BY <1>1, <1>2, <1>3, PTL DEF Spec

\* issue-52 and issue-53: for those programs and faults the emitted program
\* performs the evaluator's releases, in the evaluator's order, and succeeds
\* when it does.
THEOREM SameReleasesAlways == Spec => []SameReleases
<1>1. EvaluatorInv /\ EmittedInv /\ ParityInv => SameReleases
  BY SameReleasesFollows
<1> QED BY <1>1, ParityInvariant, BackendsInvariant, PTL
=============================================================================
