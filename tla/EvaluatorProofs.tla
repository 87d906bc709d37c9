---------------------------- MODULE EvaluatorProofs ----------------------------
(***************************************************************************)
(* The evaluator owns every value exactly once and its own checks never    *)
(* fire: for every program that parsing and lowering accept, of any size,  *)
(* and whichever of its operations fails.                                  *)
(***************************************************************************)
EXTENDS RewriteEvaluator, FiniteSetTheorems, SequenceTheorems, TLAPS

(***************************************************************************)
(* Sequences.                                                              *)
(***************************************************************************)

\* The number of larger elements tells the elements of a finite set apart,
\* and takes every value below its size.
LEMMA Ranks ==
  ASSUME NEW S, IsFiniteSet(S), S \subseteq Int
  PROVE  /\ Cardinality(S) \in Nat
         /\ \A x, y \in S : x > y =>
              Cardinality({z \in S : z > x}) < Cardinality({z \in S : z > y})
         /\ \A i \in 1 .. Cardinality(S) :
              \E x \in S : Cardinality({z \in S : z > x}) = i - 1
<1> DEFINE above(x) == {z \in S : z > x}
           rank == [x \in S |-> Cardinality(above(x))]
           ranks == 0 .. Cardinality(S) - 1
<1>1. Cardinality(S) \in Nat
  BY FS_CardinalityType
<1>2. ASSUME NEW x \in S
      PROVE  rank[x] \in ranks
  <2>1. above(x) \in SUBSET S /\ x \in S /\ x \notin above(x)
    OBVIOUS
  <2>2. /\ IsFiniteSet(above(x))
        /\ Cardinality(above(x)) <= Cardinality(S)
        /\ Cardinality(S) # Cardinality(above(x))
    BY <2>1, FS_Subset
  <2>3. Cardinality(above(x)) \in Nat
    BY <2>2, FS_CardinalityType
  <2> QED BY <1>1, <2>2, <2>3
<1>3. ASSUME NEW x \in S, NEW y \in S, x > y
      PROVE  Cardinality(above(x)) < Cardinality(above(y))
  <2>1. above(y) \in SUBSET S
    OBVIOUS
  <2>2. IsFiniteSet(above(y))
    BY <2>1, FS_Subset
  <2>3. above(x) \in SUBSET above(y) /\ x \in above(y) /\ x \notin above(x)
    <3>1. x \in Int /\ y \in Int /\ S \subseteq Int
      OBVIOUS
    <3>2. ~ x > x /\ \A z \in Int : z > x => z > y
      BY <1>3, <3>1
    <3>3. \A z \in above(x) : z \in above(y)
      BY <3>1, <3>2
    <3> QED BY <1>3, <3>2, <3>3
  <2>4. /\ IsFiniteSet(above(x))
        /\ Cardinality(above(x)) <= Cardinality(above(y))
        /\ Cardinality(above(y)) # Cardinality(above(x))
    BY <2>2, <2>3, FS_Subset
  <2>5. Cardinality(above(x)) \in Nat /\ Cardinality(above(y)) \in Nat
    BY <2>2, <2>4, FS_CardinalityType
  <2> QED BY <2>4, <2>5
<1>4. rank \in Injection(S, ranks)
  <2>1. rank \in [S -> ranks]
    BY <1>2
  <2>2. ASSUME NEW x \in S, NEW y \in S, rank[x] = rank[y]
        PROVE  x = y
    <3>1. x \in Int /\ y \in Int /\ rank[x] \in Int /\ rank[y] \in Int
      BY <1>1, <1>2
    <3>2. ~ x > y
      BY <1>3, <2>2, <3>1
    <3>3. ~ y > x
      BY <1>3, <2>2, <3>1
    <3> QED BY <3>1, <3>2, <3>3
  <2> QED BY <2>1, <2>2 DEF Injection, IsInjective
<1>5. IsFiniteSet(ranks) /\ Cardinality(ranks) = Cardinality(S)
  BY <1>1, FS_Interval
<1>6. rank \in Surjection(S, ranks)
  BY <1>4, <1>5, FS_Injection
<1>7. ASSUME NEW i \in 1 .. Cardinality(S)
      PROVE  \E x \in S : Cardinality(above(x)) = i - 1
  <2>1. i - 1 \in ranks
    BY <1>1
  <2>2. \E x \in S : rank[x] = i - 1
    BY <1>6, <2>1 DEF Surjection
  <2> QED BY <2>2
<1> QED BY <1>1, <1>3, <1>7

\* Descending enumerates a finite set of numbers once, largest first.
LEMMA DescendingEnumerates ==
  ASSUME NEW S, IsFiniteSet(S), S \subseteq Int
  PROVE  /\ Cardinality(S) \in Nat
         /\ Descending(S) \in [1 .. Cardinality(S) -> S]
         /\ Descending(S) \in Seq(S)
         /\ Len(Descending(S)) = Cardinality(S)
         /\ ToSet(Descending(S)) = S
         /\ \A i, j \in 1 .. Cardinality(S) :
              i < j => Descending(S)[i] > Descending(S)[j]
         /\ IsInjective(Descending(S))
<1> DEFINE larger(x) == Cardinality({z \in S : z > x})
           D == Descending(S)
           n == Cardinality(S)
<1>1. /\ n \in Nat
      /\ \A x, y \in S : x > y => larger(x) < larger(y)
      /\ \A i \in 1 .. n : \E x \in S : larger(x) = i - 1
  BY Ranks
<1>2. DOMAIN D = 1 .. n
  BY DEF Descending
<1>3. ASSUME NEW i \in 1 .. n
      PROVE  D[i] \in S /\ larger(D[i]) = i - 1
  <2>1. D[i] = CHOOSE x \in S : larger(x) = i - 1
    BY DEF Descending
  <2> QED BY <1>1, <2>1
<1> HIDE DEF D, larger
<1>4. D \in [1 .. n -> S]
  <2>1. D = [i \in 1 .. n |-> CHOOSE x \in S : Cardinality({y \in S : y > x}) = i - 1]
    BY DEF D, Descending
  <2>2. \A i \in 1 .. n : (CHOOSE x \in S : Cardinality({y \in S : y > x}) = i - 1) \in S
    BY <1>3, <2>1
  <2> QED BY <2>1, <2>2
<1>5. D \in Seq(S) /\ Len(D) = n
  BY <1>1, <1>4
<1>6. ASSUME NEW i \in 1 .. n, NEW j \in 1 .. n, i < j
      PROVE  D[i] > D[j]
  <2>1. D[i] \in S /\ D[j] \in S /\ D[i] \in Int /\ D[j] \in Int
    BY <1>3
  <2>2. D[j] > D[i] => larger(D[j]) < larger(D[i])
    BY <1>1, <1>3
  <2>3. larger(D[i]) = i - 1 /\ larger(D[j]) = j - 1 /\ D[i] # D[j]
    BY <1>3, <1>6, <2>1
  <2>4. ~ D[j] > D[i]
    BY <1>6, <2>2, <2>3
  <2> QED BY <2>1, <2>3, <2>4
<1>7. ASSUME NEW x \in S
      PROVE  \E i \in 1 .. n : D[i] = x
  <2>1. larger(x) \in 0 .. n - 1
    <3>1. {z \in S : z > x} \in SUBSET S /\ x \notin {z \in S : z > x}
      OBVIOUS
    <3> QED BY <1>1, <3>1, FS_Subset, FS_CardinalityType DEF larger
  <2>2. larger(x) + 1 \in 1 .. n
    BY <1>1, <2>1
  <2>3. D[larger(x) + 1] \in S /\ larger(D[larger(x) + 1]) = larger(x)
    BY <1>3, <2>1, <2>2
  <2>4. D[larger(x) + 1] = x
    <3> PICK y \in S : y = D[larger(x) + 1]
      BY <2>3
    <3>1. x \in Int /\ y \in Int
      OBVIOUS
    <3>2. ~ x > y /\ ~ y > x
      BY <1>1, <2>1, <2>3
    <3> QED BY <3>1, <3>2
  <2> QED BY <2>2, <2>4
<1>8. ToSet(D) = S
  BY <1>2, <1>3, <1>7 DEF ToSet
<1>9. IsInjective(D)
  BY <1>1, <1>2, <1>3 DEF IsInjective
<1> QED BY <1>1, <1>4, <1>5, <1>6, <1>8, <1>9 DEF D

LEMMA ReverseProperties ==
  ASSUME NEW S, NEW s \in Seq(S)
  PROVE  /\ Reverse(s) \in Seq(S)
         /\ ToSet(Reverse(s)) = ToSet(s)
         /\ IsInjective(s) => IsInjective(Reverse(s))
<1>1. Len(s) \in Nat /\ DOMAIN s = 1 .. Len(s) /\ \A i \in 1 .. Len(s) : s[i] \in S
  BY LenProperties
<1>2. Reverse(s) = [i \in 1 .. Len(s) |-> s[Len(s) - i + 1]]
  BY DEF Reverse
<1>3. \A i \in 1 .. Len(s) : Len(s) - i + 1 \in 1 .. Len(s)
                            /\ Len(s) - (Len(s) - i + 1) + 1 = i
  BY <1>1
<1>4. Reverse(s) \in Seq(S)
  BY <1>1, <1>2, <1>3
<1>5. ToSet(Reverse(s)) = ToSet(s)
  <2>1. DOMAIN Reverse(s) = 1 .. Len(s)
    BY <1>2
  <2>2. \A i \in 1 .. Len(s) : Reverse(s)[i] = s[Len(s) - i + 1]
    BY <1>2
  <2>3. \A i \in 1 .. Len(s) : s[i] = Reverse(s)[Len(s) - i + 1]
    BY <1>3, <2>2
  <2> QED BY <1>1, <1>3, <2>1, <2>2, <2>3 DEF ToSet
<1>6. ASSUME IsInjective(s)
      PROVE  IsInjective(Reverse(s))
  <2>1. ASSUME NEW i \in 1 .. Len(s), NEW j \in 1 .. Len(s),
               s[Len(s) - i + 1] = s[Len(s) - j + 1]
        PROVE  i = j
    <3>1. Len(s) - i + 1 = Len(s) - j + 1
      BY <1>1, <1>3, <1>6, <2>1 DEF IsInjective
    <3> QED BY <1>1, <3>1
  <2> QED BY <1>2, <2>1 DEF IsInjective
<1> QED BY <1>4, <1>5, <1>6

\* Two logs without repetitions, of different things, one after the other.
LEMMA JoinedLogs ==
  ASSUME NEW S, NEW s \in Seq(S), NEW t \in Seq(S)
  PROVE  /\ s \o t \in Seq(S)
         /\ ToSet(s \o t) = ToSet(s) \cup ToSet(t)
         /\ (IsInjective(s) /\ IsInjective(t) /\ ToSet(s) \cap ToSet(t) = {})
              => IsInjective(s \o t)
<1>1. /\ Len(s) \in Nat /\ DOMAIN s = 1 .. Len(s)
      /\ Len(t) \in Nat /\ DOMAIN t = 1 .. Len(t)
  BY LenProperties
<1>2. /\ s \o t \in Seq(S)
      /\ Len(s \o t) = Len(s) + Len(t)
      /\ \A i \in 1 .. Len(s) + Len(t) :
           (s \o t)[i] = IF i <= Len(s) THEN s[i] ELSE t[i - Len(s)]
  BY ConcatProperties
<1>3. DOMAIN (s \o t) = 1 .. Len(s) + Len(t)
  BY <1>2, LenProperties
<1> DEFINE u == s \o t
<1>4. /\ \A i \in 1 .. Len(s) : u[i] = s[i]
      /\ \A i \in 1 .. Len(t) : u[Len(s) + i] = t[i] /\ Len(s) + i \in DOMAIN u
      /\ \A i \in DOMAIN u : \/ i \in 1 .. Len(s)
                             \/ i - Len(s) \in 1 .. Len(t) /\ i > Len(s)
                                /\ u[i] = t[i - Len(s)]
  BY <1>1, <1>2, <1>3
<1> HIDE DEF u
<1>5. ToSet(u) = ToSet(s) \cup ToSet(t)
  <2>1. \A x \in ToSet(u) : x \in ToSet(s) \cup ToSet(t)
    BY <1>1, <1>4 DEF ToSet
  <2>2. \A x \in ToSet(s) : x \in ToSet(u)
    BY <1>1, <1>3, <1>4 DEF ToSet, u
  <2>3. \A x \in ToSet(t) : x \in ToSet(u)
    BY <1>1, <1>4 DEF ToSet
  <2> QED BY <2>1, <2>2, <2>3
<1>6. ASSUME IsInjective(s), IsInjective(t), ToSet(s) \cap ToSet(t) = {}
      PROVE  IsInjective(u)
  <2>1. SUFFICES ASSUME NEW i \in DOMAIN u, NEW j \in DOMAIN u, u[i] = u[j]
                 PROVE  i = j
    BY DEF IsInjective
  <2>2. CASE i \in 1 .. Len(s) /\ j \in 1 .. Len(s)
    BY <1>1, <1>4, <1>6, <2>1, <2>2 DEF IsInjective
  <2>3. CASE i \notin 1 .. Len(s) /\ j \notin 1 .. Len(s)
    <3>1. i - Len(s) = j - Len(s)
      BY <1>1, <1>4, <1>6, <2>1, <2>3 DEF IsInjective
    <3> QED BY <1>1, <1>3, <3>1 DEF u
  <2>4. ASSUME NEW a \in DOMAIN u, NEW b \in DOMAIN u,
               a \in 1 .. Len(s), b \notin 1 .. Len(s)
        PROVE  u[a] # u[b]
    BY <1>1, <1>4, <1>6, <2>4 DEF ToSet
  <2> QED BY <2>1, <2>2, <2>3, <2>4
<1> QED BY <1>2, <1>5, <1>6 DEF u

LEMMA LogsAssociate ==
  ASSUME NEW S, NEW r \in Seq(S), NEW s \in Seq(S), NEW t \in Seq(S)
  PROVE  r \o (s \o t) = (r \o s) \o t
  OBVIOUS

\* What only the first log has comes before what only the second has.
LEMMA JoinedOrder ==
  ASSUME NEW S, NEW s \in Seq(S), NEW t \in Seq(S),
         NEW i \in DOMAIN (s \o t), NEW j \in DOMAIN (s \o t),
         (s \o t)[i] \notin ToSet(t), (s \o t)[j] \notin ToSet(s)
  PROVE  i < j
<1>1. /\ Len(s) \in Nat /\ DOMAIN s = 1 .. Len(s)
      /\ Len(t) \in Nat /\ DOMAIN t = 1 .. Len(t)
  BY LenProperties
<1>2. /\ s \o t \in Seq(S)
      /\ Len(s \o t) = Len(s) + Len(t)
      /\ \A k \in 1 .. Len(s) + Len(t) :
           (s \o t)[k] = IF k <= Len(s) THEN s[k] ELSE t[k - Len(s)]
  BY ConcatProperties
<1>3. DOMAIN (s \o t) = 1 .. Len(s) + Len(t)
  BY <1>2, LenProperties
<1>4. i <= Len(s)
  <2>1. SUFFICES ASSUME i > Len(s)
                 PROVE  FALSE
    BY <1>1, <1>3
  <2>2. (s \o t)[i] = t[i - Len(s)] /\ i - Len(s) \in DOMAIN t
    BY <1>1, <1>2, <1>3, <2>1
  <2> QED BY <2>2 DEF ToSet
<1>5. j > Len(s)
  <2>1. SUFFICES ASSUME j <= Len(s)
                 PROVE  FALSE
    BY <1>1, <1>3
  <2>2. (s \o t)[j] = s[j] /\ j \in DOMAIN s
    BY <1>1, <1>2, <1>3, <2>1
  <2> QED BY <2>2 DEF ToSet
<1> QED BY <1>1, <1>3, <1>4, <1>5

LEMMA EmptyLog ==
  ASSUME NEW S
  PROVE  <<>> \in Seq(S) /\ ToSet(<<>>) = {} /\ IsInjective(<<>>)
  BY DEF ToSet, IsInjective

LEMMA Singletons ==
  ASSUME NEW S, NEW x \in S
  PROVE  /\ <<x>> \in Seq(S) /\ ToSet(<<x>>) = {x} /\ IsInjective(<<x>>)
         /\ <<>> \in Seq(S) /\ ToSet(<<>>) = {} /\ IsInjective(<<>>)
  BY DEF ToSet, IsInjective

(***************************************************************************)
(* Programs.                                                               *)
(***************************************************************************)

Accepted == program \in Programs /\ fault \in Faults(program)

\* The arenas, by position.
LEMMA Arenas ==
  ASSUME Accepted
  PROVE  /\ Len(program.kind) \in Nat
         /\ Nodes = 1 .. Len(program.kind)
         /\ \A n \in Nodes : /\ Kind(n) \in NodeKinds
                             /\ Args(n) \in Seq(Nodes)
                             /\ Len(Args(n)) \in Nat
                             /\ DOMAIN Args(n) = 1 .. Len(Args(n))
                             /\ \A i \in DOMAIN Args(n) : /\ Args(n)[i] \in Nodes
                                                          /\ Args(n)[i] < n
                             /\ Operand(n) \in 0 .. n - 1
         /\ program.roots \in Seq(Nodes)
         /\ IsInjective(program.roots)
<1>1. /\ program.kind \in Seq(NodeKinds)
      /\ program.args \in Seq(Seq(Nat))
      /\ program.operand \in Seq(Nat)
      /\ program.roots \in Seq(Nat)
      /\ Len(program.args) = Len(program.kind)
      /\ Len(program.operand) = Len(program.kind)
  BY ProgramsAssumption DEF Accepted, InvariantsHold, IsProgram
<1>2. /\ \A n \in NodesOf(program) :
           /\ ToSet(program.args[n]) \subseteq 1 .. n - 1
           /\ program.operand[n] \in 0 .. n - 1
      /\ ToSet(program.roots) \subseteq NodesOf(program)
      /\ IsInjective(program.roots)
  BY ProgramsAssumption DEF Accepted, InvariantsHold
<1>3. Len(program.kind) \in Nat /\ Nodes = 1 .. Len(program.kind)
  BY <1>1, LenProperties DEF Nodes, NodesOf
<1>4. ASSUME NEW n \in Nodes
      PROVE  /\ Kind(n) \in NodeKinds
             /\ Args(n) \in Seq(Nat)
             /\ ToSet(Args(n)) \subseteq 1 .. n - 1
             /\ Operand(n) \in 0 .. n - 1
  BY <1>1, <1>2, <1>3, ElementOfSeq DEF Kind, Args, Operand, Nodes
<1>5. ASSUME NEW n \in Nodes
      PROVE  /\ Len(Args(n)) \in Nat
             /\ DOMAIN Args(n) = 1 .. Len(Args(n))
             /\ \A i \in DOMAIN Args(n) : /\ Args(n)[i] \in Nodes
                                          /\ Args(n)[i] < n
             /\ Args(n) \in Seq(Nodes)
  <2>1. Len(Args(n)) \in Nat /\ DOMAIN Args(n) = 1 .. Len(Args(n))
    BY <1>4, LenProperties
  <2>2. \A i \in DOMAIN Args(n) : Args(n)[i] \in 1 .. n - 1
    BY <1>4 DEF ToSet
  <2>3. \A i \in DOMAIN Args(n) : Args(n)[i] \in Nodes /\ Args(n)[i] < n
    BY <1>3, <2>2
  <2>4. Args(n) \in [1 .. Len(Args(n)) -> Nodes]
    BY <1>4, <2>1, <2>3, LenProperties
  <2> QED BY <2>1, <2>3, <2>4
<1>6. program.roots \in Seq(Nodes)
  <2>1. /\ Len(program.roots) \in Nat /\ DOMAIN program.roots = 1 .. Len(program.roots)
        /\ program.roots \in [1 .. Len(program.roots) -> Nat]
    BY <1>1, LenProperties
  <2>2. \A i \in DOMAIN program.roots : program.roots[i] \in Nodes
    BY <1>2 DEF ToSet, Nodes
  <2>3. program.roots \in [1 .. Len(program.roots) -> Nodes]
    BY <2>1, <2>2
  <2> QED BY <2>1, <2>3
<1> QED BY <1>2, <1>3, <1>4, <1>5, <1>6

LEMMA NodesAreNumbers ==
  ASSUME Accepted
  PROVE  Nodes \subseteq Int /\ IsFiniteSet(Nodes)
<1>1. Len(program.kind) \in Nat /\ Nodes = 1 .. Len(program.kind)
  BY Arenas
<1> QED BY <1>1, FS_Interval

\* OwnedPositions, without its unions.
LEMMA Positions ==
  ASSUME Accepted, NEW n \in Nodes
  PROVE  /\ OwnedPositions(program, n) =
              {e \in UNION {{m} \X DOMAIN Args(m) : m \in Nodes} : Args(e[1])[e[2]] = n}
         /\ IsFiniteSet(OwnedPositions(program, n))
         /\ \A m \in Nodes : \A i \in DOMAIN Args(m) :
              Args(m)[i] = n <=> <<m, i>> \in OwnedPositions(program, n)
         /\ \A e \in OwnedPositions(program, n) :
              /\ e[1] \in Nodes /\ e[2] \in DOMAIN Args(e[1])
              /\ e = <<e[1], e[2]>> /\ Args(e[1])[e[2]] = n /\ n < e[1]
<1> DEFINE all == UNION {{m} \X DOMAIN Args(m) : m \in Nodes}
           P == OwnedPositions(program, n)
<1>1. \A e : e \in P <=> \E m \in Nodes : \E i \in DOMAIN Args(m) :
                           e = <<m, i>> /\ Args(m)[i] = n
  BY DEF OwnedPositions, Nodes, Args
<1>2. P = {e \in all : Args(e[1])[e[2]] = n}
  BY <1>1
<1>3. IsFiniteSet(all)
  <2> DEFINE row == [m \in Nodes |-> {m} \X DOMAIN Args(m)]
             rows == {row[m] : m \in Nodes}
  <2>1. IsFiniteSet(Nodes)
    BY Arenas, FS_Interval
  <2>2. row \in Surjection(Nodes, rows)
    BY DEF Surjection
  <2>3. IsFiniteSet(rows)
    BY <2>1, <2>2, FS_Surjection
  <2>4. ASSUME NEW T \in rows
        PROVE  IsFiniteSet(T)
    <3>1. PICK m \in Nodes : T = {m} \X DOMAIN Args(m)
      OBVIOUS
    <3>2. IsFiniteSet({m})
      BY FS_Singleton
    <3>3. Len(Args(m)) \in Int /\ DOMAIN Args(m) = 1 .. Len(Args(m))
      BY Arenas
    <3>4. IsFiniteSet(DOMAIN Args(m))
      BY <3>3, FS_Interval
    <3> QED BY <3>1, <3>2, <3>4, FS_Product
  <2>5. IsFiniteSet(UNION rows)
    BY <2>3, <2>4, FS_UNION
  <2>6. all = UNION rows
    OBVIOUS
  <2> QED BY <2>5, <2>6
<1>4. IsFiniteSet(P)
  BY <1>2, <1>3, FS_Subset
<1>5. \A m \in Nodes : \A i \in DOMAIN Args(m) : Args(m)[i] = n <=> <<m, i>> \in P
  BY <1>1
<1>6. \A e \in P : /\ e[1] \in Nodes /\ e[2] \in DOMAIN Args(e[1])
                  /\ e = <<e[1], e[2]>> /\ Args(e[1])[e[2]] = n /\ n < e[1]
  BY <1>1, Arenas
<1> QED BY <1>2, <1>4, <1>5, <1>6

\* The elements of a tuple literal and the branches of a fan-out have no
\* other use.
LEMMA ElementsUsedOnce ==
  ASSUME Accepted, NEW m \in Nodes, Kind(m) \in {"tuple", "fanout"},
         NEW i \in DOMAIN Args(m)
  PROVE  /\ OwnedPositions(program, Args(m)[i]) = {<<m, i>>}
         /\ Args(m)[i] \notin ToSet(program.roots)
<1> DEFINE n == Args(m)[i]
<1>1. n \in Nodes /\ n \in ToSet(Args(m))
  BY Arenas DEF ToSet
<1>2. Cardinality(OwnedPositions(program, n)) = 1 /\ n \notin ToSet(program.roots)
  BY <1>1, ProgramsAssumption DEF Accepted, InvariantsHold, Nodes, Kind, Args
<1>3. <<m, i>> \in OwnedPositions(program, n) /\ IsFiniteSet(OwnedPositions(program, n))
  BY <1>1, Positions
<1>4. PICK e : OwnedPositions(program, n) = {e}
  BY <1>2, <1>3, FS_Singleton
<1> QED BY <1>2, <1>3, <1>4

LEMMA FanoutFacts ==
  ASSUME Accepted, NEW f \in Fanouts
  PROVE  /\ f \in Nodes /\ Kind(f) = "fanout"
         /\ Operand(f) \in Nodes /\ Operand(f) < f
         /\ OwnedPositions(program, Operand(f)) = {}
         /\ Operand(f) \notin ToSet(program.roots)
         /\ \A g \in Fanouts : Operand(g) = Operand(f) => g = f
         /\ \A i \in DOMAIN Args(f) : /\ Args(f)[i] > Operand(f)
                                      /\ Kind(Args(f)[i]) = "call"
                                      /\ \A j \in DOMAIN Args(f) :
                                           j < i => Args(f)[j] < Args(f)[i]
<1>1. f \in Nodes /\ Kind(f) = "fanout"
  BY DEF Fanouts
<1>2. Operand(f) # 0
  BY <1>1, ProgramsAssumption DEF Accepted, InvariantsHold, Nodes, Kind, Operand
<1>3. Operand(f) \in Nodes /\ Operand(f) < f
  BY <1>1, <1>2, Arenas
<1>4. /\ OwnedPositions(program, Operand(f)) = {}
      /\ Operand(f) \notin ToSet(program.roots)
      /\ \A g \in Fanouts : Operand(g) = Operand(f) => g = f
  BY <1>1, ProgramsAssumption DEF Accepted, InvariantsHold, Nodes, Kind, Operand, Fanouts
<1>5. ASSUME NEW i \in DOMAIN Args(f)
      PROVE  /\ Args(f)[i] > Operand(f)
             /\ Kind(Args(f)[i]) = "call"
             /\ \A j \in DOMAIN Args(f) : j < i => Args(f)[j] < Args(f)[i]
  <2>1. /\ Args(f)[i] > Operand(f)
        /\ \A j \in 1 .. i - 1 : Args(f)[j] < Args(f)[i]
    BY <1>1, ProgramsAssumption DEF Accepted, InvariantsHold, Nodes, Kind, Operand, Args
  <2>2. Args(f)[i] \in ToSet(Args(f))
    BY DEF ToSet
  <2>3. Kind(Args(f)[i]) = "call"
    BY <1>1, <2>2, ProgramsAssumption DEF Accepted, BranchesHold, Nodes, Kind, Args
  <2>4. Len(Args(f)) \in Nat /\ DOMAIN Args(f) = 1 .. Len(Args(f))
    BY <1>1, Arenas
  <2>5. i \in Int /\ \A j \in DOMAIN Args(f) : j < i => j \in 1 .. i - 1
    BY <2>4
  <2> QED BY <2>1, <2>3, <2>5
<1> QED BY <1>1, <1>3, <1>4, <1>5

LEMMA PlaceholderFacts ==
  ASSUME Accepted, NEW n \in Nodes, Kind(n) = "placeholder"
  PROVE  /\ n \notin ToSet(program.roots)
         /\ OwnedPositions(program, n) # {}
         /\ Operand(n) \in Nodes /\ Operand(n) < n
         /\ \E f \in Fanouts : /\ Operand(f) = Operand(n)
                               /\ \A e \in OwnedPositions(program, n) :
                                    e[1] < f /\ Kind(e[1]) = "call"
<1>1. Operand(n) # 0
  BY ProgramsAssumption DEF Accepted, InvariantsHold, Nodes, Kind, Operand
<1>2. Operand(n) \in Nodes /\ Operand(n) < n
  BY <1>1, Arenas
<1> QED BY <1>2, ProgramsAssumption
        DEF Accepted, BranchesHold, Nodes, Kind, Operand, Fanouts

\* Only calls, tuple literals and fan-outs use positions.
LEMMA LeavesUseNothing ==
  ASSUME Accepted, NEW n \in Nodes, Kind(n) \in {"scalar", "vector", "placeholder"}
  PROVE  Args(n) = <<>>
  BY ProgramsAssumption DEF Accepted, InvariantsHold, Nodes, Kind, Args

(***************************************************************************)
(* Uses.                                                                   *)
(***************************************************************************)

\* The positions that use n from node k on, and the fan-out that does.
LaterPositions(n, k) == {e \in OwnedPositions(program, n) : e[1] >= k}
LaterFanouts(n, k) == {f \in Fanouts : Operand(f) = n /\ f >= k}

\* The uses of n left before node k.  A branch root is used when it is made.
UsesLeft(n, k) ==
  IF BranchPositions(n) # {} /\ n < k THEN 0
  ELSE Cardinality(LaterPositions(n, k)) + Cardinality(LaterFanouts(n, k))
         + Occurrences(program.roots, n)

LEMMA CountsAreNumbers ==
  ASSUME Accepted, NEW n \in Nodes, NEW k \in Int
  PROVE  /\ IsFiniteSet(LaterPositions(n, k)) /\ IsFiniteSet(LaterFanouts(n, k))
         /\ Cardinality(LaterPositions(n, k)) \in Nat
         /\ Cardinality(LaterFanouts(n, k)) \in Nat
         /\ Occurrences(program.roots, n) \in Nat
         /\ Occurrences(program.roots, n) = IF n \in ToSet(program.roots) THEN 1 ELSE 0
         /\ UsesLeft(n, k) \in Nat
<1>1. IsFiniteSet(LaterPositions(n, k))
  BY Positions, FS_Subset DEF LaterPositions
<1>2. IsFiniteSet(LaterFanouts(n, k))
  <2>1. IsFiniteSet(Nodes)
    BY Arenas, FS_Interval
  <2>2. LaterFanouts(n, k) \in SUBSET Nodes
    BY DEF LaterFanouts, Fanouts
  <2> QED BY <2>1, <2>2, FS_Subset
<1>3. Occurrences(program.roots, n) = IF n \in ToSet(program.roots) THEN 1 ELSE 0
  <2> DEFINE at == {i \in DOMAIN program.roots : program.roots[i] = n}
  <2>1. CASE n \in ToSet(program.roots)
    <3>1. PICK i \in DOMAIN program.roots : program.roots[i] = n
      BY <2>1 DEF ToSet
    <3>2. at = {i}
      BY <3>1, Arenas DEF IsInjective
    <3> QED BY <2>1, <3>2, FS_Singleton DEF Occurrences
  <2>2. CASE n \notin ToSet(program.roots)
    <3>1. at = {}
      BY <2>2 DEF ToSet
    <3> QED BY <2>2, <3>1, FS_EmptySet DEF Occurrences
  <2> QED BY <2>1, <2>2
<1>4. /\ Cardinality(LaterPositions(n, k)) \in Nat
      /\ Cardinality(LaterFanouts(n, k)) \in Nat
  BY <1>1, <1>2, FS_CardinalityType
<1> QED BY <1>1, <1>2, <1>3, <1>4 DEF UsesLeft

\* Node k uses each of its arguments as often as it names it.
LEMMA PositionsOfNode ==
  ASSUME Accepted, NEW n \in Nodes, NEW k \in Nodes
  PROVE  /\ Occurrences(Args(k), n) \in Nat
         /\ Occurrences(Args(k), n) = 0 <=> n \notin ToSet(Args(k))
         /\ Cardinality(LaterPositions(n, k))
              = Cardinality(LaterPositions(n, k + 1)) + Occurrences(Args(k), n)
<1> DEFINE here == {e \in OwnedPositions(program, n) : e[1] = k}
           at == {i \in DOMAIN Args(k) : Args(k)[i] = n}
<1>1. k \in Int /\ k + 1 \in Int
  BY Arenas
<1>2. IsFiniteSet(at) /\ Cardinality(at) \in Nat
  <2>1. Len(Args(k)) \in Int /\ DOMAIN Args(k) = 1 .. Len(Args(k))
    BY Arenas
  <2>2. IsFiniteSet(DOMAIN Args(k))
    BY <2>1, FS_Interval
  <2> QED BY <2>2, FS_Subset, FS_CardinalityType
<1>3. Cardinality(at) = 0 <=> n \notin ToSet(Args(k))
  BY <1>2, FS_EmptySet DEF ToSet
<1>4. Cardinality(here) = Cardinality(at) /\ IsFiniteSet(here)
  <2> DEFINE h == [i \in at |-> <<k, i>>]
  <2>1. h \in [at -> here]
    BY Positions
  <2>2. \A e \in here : e[2] \in at /\ h[e[2]] = e
    BY Positions
  <2>3. h \in Bijection(at, here)
    BY <2>1, <2>2 DEF Bijection, Injection, Surjection, IsInjective
  <2>4. ExistsBijection(at, here)
    BY <2>3 DEF ExistsBijection
  <2> QED BY <1>2, <2>4, FS_Bijection
<1>5. LaterPositions(n, k) = LaterPositions(n, k + 1) \cup here
  <2>1. \A e \in OwnedPositions(program, n) : e[1] \in Int
    BY Positions, Arenas
  <2>2. \A e \in OwnedPositions(program, n) : e[1] >= k <=> e[1] >= k + 1 \/ e[1] = k
    BY <1>1, <2>1
  <2> QED BY <2>2 DEF LaterPositions
<1>6. LaterPositions(n, k + 1) \cap here = {}
  BY <1>1 DEF LaterPositions
<1>7. IsFiniteSet(LaterPositions(n, k + 1))
      /\ Cardinality(LaterPositions(n, k + 1)) \in Nat
  BY <1>1, CountsAreNumbers
<1>8. Cardinality(LaterPositions(n, k))
        = Cardinality(LaterPositions(n, k + 1)) + Cardinality(here) - Cardinality({})
  BY <1>4, <1>5, <1>6, <1>7, FS_Union
<1> QED BY <1>2, <1>3, <1>4, <1>7, <1>8, FS_EmptySet DEF Occurrences

\* A branch root is the value of a call, and its fan-out has its only use.
LEMMA BranchFacts ==
  ASSUME Accepted, NEW n \in Nodes
  PROVE  /\ \A e \in BranchPositions(n) :
              /\ e[1] \in Fanouts /\ e[2] \in DOMAIN Args(e[1])
              /\ Args(e[1])[e[2]] = n /\ n < e[1]
              /\ BranchPositions(n) = {e} /\ OwnedPositions(program, n) = {e}
              /\ Kind(n) = "call" /\ n \notin ToSet(program.roots)
              /\ \A f \in Fanouts : Operand(f) # n
         /\ \A f \in Fanouts : \A i \in DOMAIN Args(f) :
              Args(f)[i] = n => BranchPositions(n) = {<<f, i>>}
<1>1. ASSUME NEW e \in BranchPositions(n)
      PROVE  /\ e[1] \in Fanouts /\ e[2] \in DOMAIN Args(e[1])
             /\ Args(e[1])[e[2]] = n /\ n < e[1]
             /\ BranchPositions(n) = {e} /\ OwnedPositions(program, n) = {e}
             /\ Kind(n) = "call" /\ n \notin ToSet(program.roots)
             /\ \A f \in Fanouts : Operand(f) # n
  <2>1. e \in OwnedPositions(program, n) /\ Kind(e[1]) = "fanout"
    BY DEF BranchPositions
  <2>2. /\ e[1] \in Fanouts /\ e[2] \in DOMAIN Args(e[1])
        /\ Args(e[1])[e[2]] = n /\ n < e[1] /\ e = <<e[1], e[2]>>
    BY <2>1, Positions DEF Fanouts
  <2>3. OwnedPositions(program, n) = {e} /\ n \notin ToSet(program.roots)
    <3>1. e[1] \in Nodes /\ Kind(e[1]) \in {"tuple", "fanout"}
      BY <2>1, <2>2 DEF Fanouts
    <3> QED BY <2>2, <3>1, ElementsUsedOnce
  <2>4. BranchPositions(n) = {e}
    BY <2>1, <2>3 DEF BranchPositions
  <2>5. Kind(n) = "call"
    BY <2>2, FanoutFacts
  <2>6. \A f \in Fanouts : Operand(f) # n
    BY <2>1, FanoutFacts
  <2> QED BY <2>2, <2>3, <2>4, <2>5, <2>6
<1>2. ASSUME NEW f \in Fanouts, NEW i \in DOMAIN Args(f), Args(f)[i] = n
      PROVE  BranchPositions(n) = {<<f, i>>}
  <2>1. f \in Nodes /\ Kind(f) = "fanout"
    BY DEF Fanouts
  <2>2. <<f, i>> \in OwnedPositions(program, n)
    BY <1>2, <2>1, Positions
  <2>3. <<f, i>> \in BranchPositions(n)
    BY <2>1, <2>2 DEF BranchPositions
  <2> QED BY <1>1, <2>3
<1> QED BY <1>1, <1>2

\* Before the first node the uses left are the uses.
LEMMA UsesAtStart ==
  ASSUME Accepted, NEW n \in Nodes
  PROVE  UsesLeft(n, 1) = UseCount(n)
<1>1. n >= 1
  BY Arenas
<1>2. LaterPositions(n, 1) = OwnedPositions(program, n)
  BY Positions, Arenas DEF LaterPositions
<1>3. LaterFanouts(n, 1) = {f \in Fanouts : Operand(f) = n}
  BY Arenas DEF LaterFanouts, Fanouts
<1>4. ~ n < 1
  BY <1>1, Arenas
<1> QED BY <1>2, <1>3, <1>4 DEF UsesLeft, UseCount

\* One node further, what that node uses has been used.
LEMMA UsesStep ==
  ASSUME Accepted, NEW n \in Nodes, NEW k \in Nodes
  PROVE  UsesLeft(n, k + 1) =
           IF n = k /\ BranchPositions(n) # {} THEN 0
           ELSE IF Kind(k) = "fanout"
                THEN IF n = Operand(k) THEN 0 ELSE UsesLeft(n, k)
                ELSE UsesLeft(n, k) - Occurrences(Args(k), n)
<1>1. n \in Int /\ k \in Int /\ k + 1 \in Int
  BY Arenas
<1>2. /\ Cardinality(LaterPositions(n, k)) \in Nat
      /\ Cardinality(LaterPositions(n, k + 1)) \in Nat
      /\ Cardinality(LaterFanouts(n, k)) \in Nat
      /\ Cardinality(LaterFanouts(n, k + 1)) \in Nat
      /\ Occurrences(program.roots, n) \in Nat
      /\ Occurrences(Args(k), n) \in Nat
      /\ Occurrences(Args(k), n) = 0 <=> n \notin ToSet(Args(k))
      /\ Cardinality(LaterPositions(n, k))
              = Cardinality(LaterPositions(n, k + 1)) + Occurrences(Args(k), n)
  BY <1>1, CountsAreNumbers, PositionsOfNode
<1>3. ASSUME Kind(k) # "fanout" \/ Operand(k) # n
      PROVE  LaterFanouts(n, k + 1) = LaterFanouts(n, k)
  <2>1. \A f \in Fanouts : f \in Int /\ Kind(f) = "fanout"
    BY Arenas DEF Fanouts
  <2>2. \A f \in Fanouts : Operand(f) = n => f # k
    BY <1>3, <2>1
  <2>3. \A f \in Fanouts : f # k => (f >= k + 1 <=> f >= k)
    BY <1>1, <2>1
  <2> QED BY <2>2, <2>3 DEF LaterFanouts
<1>4. ASSUME n \in ToSet(Args(k))
      PROVE  /\ n < k
             /\ Kind(k) = "fanout" => BranchPositions(n) # {}
             /\ Kind(k) # "fanout" => BranchPositions(n) = {}
  <2>1. PICK i \in DOMAIN Args(k) : Args(k)[i] = n
    BY <1>4 DEF ToSet
  <2>2. <<k, i>> \in OwnedPositions(program, n) /\ n < k
    BY <2>1, Positions, Arenas
  <2>3. Kind(k) = "fanout" => BranchPositions(n) # {}
    BY <2>2 DEF BranchPositions
  <2>4. \A e \in BranchPositions(n) : e = <<k, i>> /\ Kind(e[1]) = "fanout"
    BY <2>2, BranchFacts DEF Fanouts
  <2> QED BY <2>2, <2>3, <2>4
<1>5. CASE BranchPositions(n) # {} /\ n < k
  <2>1. UsesLeft(n, k) = 0 /\ UsesLeft(n, k + 1) = 0
    BY <1>1, <1>5 DEF UsesLeft
  <2>2. Kind(k) # "fanout" => Occurrences(Args(k), n) = 0
    BY <1>2, <1>4, <1>5
  <2> QED BY <1>1, <1>5, <2>1, <2>2
<1>6. CASE BranchPositions(n) # {} /\ n = k
  BY <1>1, <1>6 DEF UsesLeft
<1>7. CASE BranchPositions(n) # {} /\ n > k
  <2>1. Occurrences(Args(k), n) = 0
    BY <1>1, <1>2, <1>4, <1>7
  <2>2. \A f \in Fanouts : Operand(f) # n
    BY <1>7, BranchFacts
  <2>3. LaterFanouts(n, k + 1) = LaterFanouts(n, k)
    BY <2>2 DEF LaterFanouts
  <2>4. Kind(k) = "fanout" => n # Operand(k)
    BY <2>2 DEF Fanouts
  <2>5. UsesLeft(n, k + 1) = UsesLeft(n, k) /\ UsesLeft(n, k) \in Nat
    <3>1. ~ n < k /\ ~ n < k + 1
      BY <1>1, <1>7
    <3> QED BY <1>1, <1>2, <2>1, <2>3, <3>1, CountsAreNumbers DEF UsesLeft
  <2> QED BY <1>1, <1>7, <2>1, <2>4, <2>5
<1>8. CASE BranchPositions(n) = {}
  <2>1. /\ UsesLeft(n, k) = Cardinality(LaterPositions(n, k))
                              + Cardinality(LaterFanouts(n, k))
                              + Occurrences(program.roots, n)
        /\ UsesLeft(n, k + 1) = Cardinality(LaterPositions(n, k + 1))
                                  + Cardinality(LaterFanouts(n, k + 1))
                                  + Occurrences(program.roots, n)
    BY <1>8 DEF UsesLeft
  <2>2. CASE Kind(k) # "fanout"
    BY <1>2, <1>3, <1>8, <2>1, <2>2
  <2>3. CASE Kind(k) = "fanout" /\ n # Operand(k)
    <3>1. Occurrences(Args(k), n) = 0
      BY <1>2, <1>4, <1>8, <2>3
    <3> QED BY <1>2, <1>3, <1>8, <2>1, <2>3, <3>1
  <2>4. CASE Kind(k) = "fanout" /\ n = Operand(k)
    <3>1. k \in Fanouts
      BY <2>4 DEF Fanouts
    <3>2. /\ OwnedPositions(program, n) = {} /\ n \notin ToSet(program.roots)
          /\ \A f \in Fanouts : Operand(f) = n => f = k
      BY <2>4, <3>1, FanoutFacts
    <3>3. LaterPositions(n, k + 1) = {} /\ LaterFanouts(n, k + 1) = {}
      BY <1>1, <3>2 DEF LaterPositions, LaterFanouts
    <3>4. Occurrences(program.roots, n) = 0
      BY <1>1, <3>2, CountsAreNumbers
    <3> QED BY <1>8, <2>1, <2>4, <3>3, <3>4, FS_EmptySet
  <2> QED BY <2>2, <2>3, <2>4
<1> QED BY <1>1, <1>5, <1>6, <1>7, <1>8

\* After the last node only the roots have a use left.
LEMMA UsesAtEnd ==
  ASSUME Accepted, NEW n \in Nodes
  PROVE  UsesLeft(n, Len(program.kind) + 1) = IF n \in ToSet(program.roots) THEN 1 ELSE 0
<1> DEFINE k == Len(program.kind) + 1
<1>1. k \in Int /\ \A m \in Nodes : m < k /\ m \in Int
  BY Arenas
<1>2. LaterPositions(n, k) = {}
  BY <1>1, Positions DEF LaterPositions
<1>3. LaterFanouts(n, k) = {}
  BY <1>1 DEF LaterFanouts, Fanouts
<1>4. Occurrences(program.roots, n) = IF n \in ToSet(program.roots) THEN 1 ELSE 0
  BY CountsAreNumbers
<1>5. BranchPositions(n) # {} => n \notin ToSet(program.roots)
  BY BranchFacts
<1>6. Cardinality({}) = 0
  BY FS_EmptySet
<1> HIDE DEF k
<1>7. UsesLeft(n, k) = IF n \in ToSet(program.roots) THEN 1 ELSE 0
  BY <1>1, <1>2, <1>3, <1>4, <1>5, <1>6 DEF UsesLeft
<1> QED BY <1>7 DEF k

\* The operand of a fan-out has a use left until the fan-out.
LEMMA OperandInUse ==
  ASSUME Accepted, NEW f \in Fanouts, NEW k \in Int, k <= f
  PROVE  UsesLeft(Operand(f), k) # 0
<1>1. Operand(f) \in Nodes /\ f \in Nodes /\ Nodes \subseteq Int
  BY FanoutFacts, Arenas
<1>2. f \in LaterFanouts(Operand(f), k)
  BY <1>1 DEF LaterFanouts
<1>3. Cardinality(LaterFanouts(Operand(f), k)) # 0
  BY <1>1, <1>2, CountsAreNumbers, FS_EmptySet
<1>4. BranchPositions(Operand(f)) = {}
  BY <1>1, BranchFacts
<1>5. /\ Cardinality(LaterPositions(Operand(f), k)) \in Nat
      /\ Cardinality(LaterFanouts(Operand(f), k)) \in Nat
      /\ Occurrences(program.roots, Operand(f)) \in Nat
  BY <1>1, CountsAreNumbers
<1> QED BY <1>3, <1>4, <1>5 DEF UsesLeft

\* A root has a use left to the end.
LEMMA RootInUse ==
  ASSUME Accepted, NEW n \in Nodes, n \in ToSet(program.roots), NEW k \in Int
  PROVE  UsesLeft(n, k) # 0
<1>1. BranchPositions(n) = {}
  BY BranchFacts
<1>2. /\ Cardinality(LaterPositions(n, k)) \in Nat
      /\ Cardinality(LaterFanouts(n, k)) \in Nat
      /\ Occurrences(program.roots, n) = 1
  BY CountsAreNumbers
<1> QED BY <1>1, <1>2 DEF UsesLeft

\* What the nodes find when the loop reaches them: a consumer its arguments,
\* a tuple literal elements with one use, a fan-out its operand, a branch the
\* operand that its placeholder stands for.
LEMMA UsesFound ==
  ASSUME Accepted, NEW k \in Nodes
  PROVE  /\ Kind(k) \in {"call", "tuple"} => \A i \in DOMAIN Args(k) :
              /\ Args(k)[i] \in Nodes /\ Args(k)[i] < k
              /\ UsesLeft(Args(k)[i], k) >= Occurrences(Args(k), Args(k)[i])
              /\ Occurrences(Args(k), Args(k)[i]) > 0
              /\ Kind(Args(k)[i]) = "placeholder" =>
                   /\ Operand(Args(k)[i]) \in Nodes /\ Operand(Args(k)[i]) < k
                   /\ UsesLeft(Operand(Args(k)[i]), k) # 0
         /\ Kind(k) = "tuple" => \A i \in DOMAIN Args(k) :
              /\ UsesLeft(Args(k)[i], k) = 1
              /\ \A j \in DOMAIN Args(k) : Args(k)[j] = Args(k)[i] => j = i
         /\ Kind(k) = "fanout" => UsesLeft(Operand(k), k) = 1
         /\ Kind(k) = "placeholder" => UsesLeft(k, k + 1) # 0
         /\ BranchPositions(k) # {} => UsesLeft(k, k) = 1
<1>1. k \in Int /\ k + 1 \in Int /\ Nodes \subseteq Int
  BY Arenas
<1>2. ASSUME Kind(k) \in {"call", "tuple"}, NEW i \in DOMAIN Args(k)
      PROVE  /\ Args(k)[i] \in Nodes /\ Args(k)[i] < k
             /\ UsesLeft(Args(k)[i], k) >= Occurrences(Args(k), Args(k)[i])
             /\ Occurrences(Args(k), Args(k)[i]) > 0
             /\ Kind(Args(k)[i]) = "placeholder" =>
                  /\ Operand(Args(k)[i]) \in Nodes /\ Operand(Args(k)[i]) < k
                  /\ UsesLeft(Operand(Args(k)[i]), k) # 0
  <2> DEFINE n == Args(k)[i]
  <2>1. n \in Nodes /\ n < k /\ n \in ToSet(Args(k))
    BY Arenas DEF ToSet
  <2> HIDE DEF n
  <2>2. Occurrences(Args(k), n) \in Nat /\ Occurrences(Args(k), n) # 0
    BY <2>1, PositionsOfNode
  <2>3. /\ UsesLeft(n, k + 1) \in Nat /\ UsesLeft(n, k) \in Nat
        /\ UsesLeft(n, k + 1) = UsesLeft(n, k) - Occurrences(Args(k), n)
    <3>1. n # k /\ Kind(k) # "fanout"
      BY <1>1, <1>2, <2>1
    <3> QED BY <1>1, <2>1, <3>1, UsesStep, CountsAreNumbers
  <2>4. ASSUME Kind(n) = "placeholder"
        PROVE  Operand(n) \in Nodes /\ Operand(n) < k /\ UsesLeft(Operand(n), k) # 0
    <3>1. PICK f \in Fanouts :
            /\ Operand(f) = Operand(n)
            /\ \A e \in OwnedPositions(program, n) : e[1] < f
      BY <2>1, <2>4, PlaceholderFacts
    <3>2. Operand(n) \in Nodes /\ Operand(n) < n
      BY <2>1, <2>4, PlaceholderFacts
    <3>3. k < f
      <4>1. <<k, i>> \in OwnedPositions(program, n)
        BY <2>1, Positions DEF n
      <4> QED BY <3>1, <4>1
    <3>4. UsesLeft(Operand(n), k) # 0
      <4>1. k <= f
        BY <1>1, <3>3 DEF Fanouts
      <4> QED BY <1>1, <3>1, <4>1, OperandInUse
    <3>5. Operand(n) < k
      <4>1. n \in Int /\ Operand(n) \in Int /\ n < k /\ Operand(n) < n
        BY <1>1, <2>1, <3>2
      <4> QED BY <1>1, <4>1
    <3> QED BY <3>2, <3>4, <3>5
  <2> QED BY <2>1, <2>2, <2>3, <2>4 DEF n
<1>3. ASSUME Kind(k) = "tuple", NEW i \in DOMAIN Args(k)
      PROVE  /\ UsesLeft(Args(k)[i], k) = 1
             /\ \A j \in DOMAIN Args(k) : Args(k)[j] = Args(k)[i] => j = i
  <2> DEFINE n == Args(k)[i]
  <2>1. /\ n \in Nodes /\ OwnedPositions(program, n) = {<<k, i>>}
        /\ n \notin ToSet(program.roots)
    BY <1>3, Arenas, ElementsUsedOnce
  <2>2. \A j \in DOMAIN Args(k) : Args(k)[j] = n => j = i
    BY <2>1, Positions
  <2>3. BranchPositions(n) = {}
    BY <1>3, <2>1 DEF BranchPositions
  <2>4. LaterPositions(n, k) = {<<k, i>>}
    BY <1>1, <2>1 DEF LaterPositions
  <2>5. LaterFanouts(n, k) = {}
    BY <2>1, FanoutFacts DEF LaterFanouts
  <2>6. Occurrences(program.roots, n) = 0
    BY <1>1, <2>1, CountsAreNumbers
  <2>7. UsesLeft(n, k) = Cardinality({<<k, i>>}) + Cardinality({}) + 0
    BY <2>3, <2>4, <2>5, <2>6 DEF UsesLeft
  <2>8. Cardinality({<<k, i>>}) = 1 /\ Cardinality({}) = 0
    BY FS_Singleton, FS_EmptySet
  <2> QED BY <2>2, <2>7, <2>8
<1>4. ASSUME Kind(k) = "fanout"
      PROVE  UsesLeft(Operand(k), k) = 1
  <2> DEFINE n == Operand(k)
  <2>1. k \in Fanouts
    BY <1>4 DEF Fanouts
  <2>2. /\ n \in Nodes /\ OwnedPositions(program, n) = {} /\ n \notin ToSet(program.roots)
        /\ \A f \in Fanouts : Operand(f) = n => f = k
    BY <2>1, FanoutFacts
  <2>3. BranchPositions(n) = {} /\ LaterPositions(n, k) = {}
    BY <2>2 DEF BranchPositions, LaterPositions
  <2>4. LaterFanouts(n, k) = {k}
    <3>1. k >= k
      BY <1>1
    <3> QED BY <2>1, <2>2, <3>1 DEF LaterFanouts
  <2>5. Occurrences(program.roots, n) = 0
    BY <1>1, <2>2, CountsAreNumbers
  <2>6. UsesLeft(n, k) = Cardinality({}) + Cardinality({k}) + 0
    BY <2>3, <2>4, <2>5 DEF UsesLeft
  <2>7. Cardinality({k}) = 1 /\ Cardinality({}) = 0
    BY FS_Singleton, FS_EmptySet
  <2> QED BY <2>6, <2>7
<1>5. ASSUME Kind(k) = "placeholder"
      PROVE  UsesLeft(k, k + 1) # 0
  <2>1. OwnedPositions(program, k) # {}
    BY <1>5, PlaceholderFacts
  <2>2. LaterPositions(k, k + 1) = OwnedPositions(program, k)
    BY <1>1, Positions DEF LaterPositions
  <2>3. Cardinality(LaterPositions(k, k + 1)) # 0
    BY <1>1, <2>1, <2>2, CountsAreNumbers, FS_EmptySet
  <2>4. BranchPositions(k) = {}
    BY <1>5, BranchFacts
  <2>5. /\ Cardinality(LaterPositions(k, k + 1)) \in Nat
        /\ Cardinality(LaterFanouts(k, k + 1)) \in Nat
        /\ Occurrences(program.roots, k) \in Nat
    BY <1>1, CountsAreNumbers
  <2> QED BY <2>3, <2>4, <2>5 DEF UsesLeft
<1>6. ASSUME BranchPositions(k) # {}
      PROVE  UsesLeft(k, k) = 1
  <2>1. PICK e \in BranchPositions(k) : TRUE
    BY <1>6
  <2>2. /\ OwnedPositions(program, k) = {e} /\ k \notin ToSet(program.roots)
        /\ k < e[1] /\ e[1] \in Nodes
        /\ \A f \in Fanouts : Operand(f) # k
    BY <2>1, BranchFacts DEF Fanouts
  <2>3. LaterPositions(k, k) = {e}
    <3>1. \A x \in Int : k < x => x >= k
      BY <1>1
    <3>2. e[1] \in Int /\ k < e[1]
      BY <1>1, <2>2
    <3>3. e[1] >= k
      BY <3>1, <3>2
    <3> QED BY <2>2, <3>3 DEF LaterPositions
  <2>4. LaterFanouts(k, k) = {}
    BY <2>2 DEF LaterFanouts
  <2>5. Occurrences(program.roots, k) = 0
    BY <1>1, <2>2, CountsAreNumbers
  <2>6. UsesLeft(k, k) = Cardinality({e}) + Cardinality({}) + 0
    <3>1. ~ k < k
      BY <1>1
    <3> QED BY <2>3, <2>4, <2>5, <3>1 DEF UsesLeft
  <2>7. Cardinality({e}) = 1 /\ Cardinality({}) = 0
    BY FS_Singleton, FS_EmptySet
  <2> QED BY <2>6, <2>7
<1> QED BY <1>2, <1>3, <1>4, <1>5, <1>6

\* A node's uses are counted down to what is left after it; the count of a
\* branch root stays until it is moved.
LEMMA UsesCounted ==
  ASSUME Accepted, NEW k \in Nodes, Kind(k) \in {"call", "tuple"},
         NEW uses, uses = [n \in Nodes |-> UsesLeft(n, k)],
         NEW used, used = UsesAfter(uses, Args(k))
  PROVE  /\ used \in [Nodes -> Nat]
         /\ \A n \in Nodes : n # k => used[n] = UsesLeft(n, k + 1)
         /\ BranchPositions(k) = {} => used = [n \in Nodes |-> UsesLeft(n, k + 1)]
         /\ BranchPositions(k) # {} =>
              /\ used[k] = 1
              /\ [used EXCEPT ![k] = 0] = [n \in Nodes |-> UsesLeft(n, k + 1)]
<1>1. k \in Int /\ k + 1 \in Int
  BY Arenas
<1>2. Kind(k) # "fanout"
  OBVIOUS
<1>3. used = [n \in Nodes |-> UsesLeft(n, k) - Occurrences(Args(k), n)]
  BY DEF UsesAfter
<1>4. ASSUME NEW n \in Nodes, n # k \/ BranchPositions(k) = {}
      PROVE  used[n] = UsesLeft(n, k + 1) /\ UsesLeft(n, k + 1) \in Nat
  BY <1>1, <1>2, <1>3, <1>4, UsesStep, CountsAreNumbers
<1>5. ASSUME BranchPositions(k) # {}
      PROVE  used[k] = 1 /\ UsesLeft(k, k + 1) = 0
  <2>1. UsesLeft(k, k) = 1
    BY <1>5, UsesFound
  <2>2. k \notin ToSet(Args(k))
    BY <1>1, Arenas DEF ToSet
  <2>3. Occurrences(Args(k), k) = 0
    BY <2>2, PositionsOfNode
  <2>4. UsesLeft(k, k + 1) = 0
    BY <1>5, UsesStep
  <2> QED BY <1>3, <2>1, <2>3, <2>4
<1>6. used \in [Nodes -> Nat]
  <2>1. ASSUME NEW n \in Nodes
        PROVE  used[n] \in Nat
    BY <1>4, <1>5
  <2> QED BY <1>3, <2>1
<1>7. BranchPositions(k) = {} => used = [n \in Nodes |-> UsesLeft(n, k + 1)]
  BY <1>3, <1>4
<1>8. BranchPositions(k) # {} =>
        [used EXCEPT ![k] = 0] = [n \in Nodes |-> UsesLeft(n, k + 1)]
  BY <1>3, <1>4, <1>5
<1> QED BY <1>4, <1>5, <1>6, <1>7, <1>8

\* Each final use is released once.
LEMMA FinalUsesOnce ==
  ASSUME NEW args \in Seq(Nodes), NEW uses
  PROVE  /\ FinalUses(uses, args) \in Seq(Nodes)
         /\ IsInjective(FinalUses(uses, args))
         /\ ToSet(FinalUses(uses, args)) =
              {x \in ToSet(args) : uses[x] = 0 /\ ~RetainedRoot(x)}
<1> DEFINE final == {i \in DOMAIN args :
                       /\ \A j \in DOMAIN args : j > i => args[j] # args[i]
                       /\ uses[args[i]] = 0
                       /\ ~RetainedRoot(args[i])}
           D == Descending(final)
           n == Cardinality(final)
<1>1. /\ Len(args) \in Nat /\ DOMAIN args = 1 .. Len(args)
      /\ \A i \in DOMAIN args : args[i] \in Nodes
  BY LenProperties
<1>2. FinalUses(uses, args) = [i \in DOMAIN D |-> args[D[i]]]
  BY DEF FinalUses, At
<1>3. IsFiniteSet(DOMAIN args)
  BY <1>1, FS_Interval
<1>4. IsFiniteSet(final) /\ final \subseteq Int
  BY <1>1, <1>3, FS_Subset
<1>5. /\ n \in Nat /\ D \in [1 .. n -> final]
      /\ ToSet(D) = final /\ IsInjective(D)
  BY <1>4, DescendingEnumerates
<1> DEFINE F == [i \in 1 .. n |-> args[D[i]]]
<1>6. FinalUses(uses, args) = F
  BY <1>2, <1>5
<1>7. \A i \in 1 .. n :
        /\ D[i] \in DOMAIN args /\ args[D[i]] \in Nodes
        /\ \A j \in DOMAIN args : j > D[i] => args[j] # args[D[i]]
        /\ uses[args[D[i]]] = 0
        /\ ~RetainedRoot(args[D[i]])
  BY <1>1, <1>5
<1> HIDE DEF D, n
<1>8. F \in Seq(Nodes)
  BY <1>5, <1>7
<1>9. IsInjective(F)
  <2>1. ASSUME NEW i \in 1 .. n, NEW j \in 1 .. n, args[D[i]] = args[D[j]]
        PROVE  i = j
    <3>1. D[i] \in Int /\ D[j] \in Int
      BY <1>1, <1>7
    <3>2. ~ D[i] > D[j] /\ ~ D[j] > D[i]
      BY <1>7, <2>1
    <3>3. D[i] = D[j]
      BY <3>1, <3>2
    <3> QED BY <1>5, <3>3 DEF IsInjective
  <2> QED BY <2>1 DEF IsInjective
<1>10. ToSet(F) = {x \in ToSet(args) : uses[x] = 0 /\ ~RetainedRoot(x)}
  <2>1. ASSUME NEW i \in 1 .. n
        PROVE  F[i] \in ToSet(args) /\ uses[F[i]] = 0 /\ ~RetainedRoot(F[i])
    <3>1. F[i] = args[D[i]]
      OBVIOUS
    <3>2. args[D[i]] \in ToSet(args)
      BY <1>7 DEF ToSet
    <3>3. uses[args[D[i]]] = 0 /\ ~RetainedRoot(args[D[i]])
      BY <1>7
    <3> HIDE DEF F
    <3> QED BY <3>1, <3>2, <3>3
  <2>2. ASSUME NEW x \in ToSet(args), uses[x] = 0, ~RetainedRoot(x)
        PROVE  \E i \in 1 .. n : F[i] = x
    <3> DEFINE at == {i \in DOMAIN args : args[i] = x}
    <3>1. IsFiniteSet(at) /\ at \subseteq Int /\ at # {}
      BY <1>1, <1>3, FS_Subset DEF ToSet
    <3>2. Cardinality(at) \in Nat /\ Cardinality(at) # 0
      BY <3>1, FS_CardinalityType, FS_EmptySet
    <3>3. 1 \in 1 .. Cardinality(at)
      BY <3>2
    <3>4. PICK i \in at : Cardinality({z \in at : z > i}) = 1 - 1
      BY <3>1, <3>3, Ranks
    <3>5. Cardinality({z \in at : z > i}) = 0
      BY <3>4
    <3>6. {z \in at : z > i} = {}
      <4>1. IsFiniteSet({z \in at : z > i})
        BY <3>1, FS_Subset
      <4> QED BY <3>5, <4>1, FS_EmptySet
    <3>7. i \in final
      BY <2>2, <3>6
    <3>8. PICK r \in DOMAIN D : D[r] = i
      BY <1>5, <3>7 DEF ToSet
    <3> QED BY <1>5, <3>8
  <2>3. ToSet(F) = {F[i] : i \in 1 .. n}
    BY DEF ToSet
  <2> HIDE DEF F
  <2>4. ToSet(F) \subseteq {x \in ToSet(args) : uses[x] = 0 /\ ~RetainedRoot(x)}
    BY <2>1, <2>3
  <2>5. {x \in ToSet(args) : uses[x] = 0 /\ ~RetainedRoot(x)} \subseteq ToSet(F)
    BY <2>2, <2>3
  <2> QED BY <2>4, <2>5
<1> QED BY <1>6, <1>8, <1>9, <1>10 DEF n

\* A consumer refuses nothing when its arguments are in their slots and their
\* counts cover its uses.
LEMMA ConsumerCompletes ==
  ASSUME NEW args \in Seq(Nodes),
         \A i \in DOMAIN args : /\ args[i] \in node_live
                                /\ remaining_uses[args[i]] \in Nat
                                /\ remaining_uses[args[i]] >= Occurrences(args, args[i])
  PROVE  Completes(args)
<1>1. Len(args) \in Nat /\ DOMAIN args = 1 .. Len(args)
  BY LenProperties
<1>2. SUFFICES ASSUME NEW i \in DOMAIN args
               PROVE  remaining_uses[args[i]] > Occurrences(SubSeq(args, 1, i - 1), args[i])
  BY DEF Completes
<1> DEFINE before == SubSeq(args, 1, i - 1)
           first == {j \in DOMAIN before : before[j] = args[i]}
           all == {j \in DOMAIN args : args[j] = args[i]}
<1>3. i \in Nat /\ i >= 1 /\ i <= Len(args) /\ i - 1 \in Nat
  BY <1>1
<1>4. before = [j \in 1 .. i - 1 |-> args[j]]
  BY <1>1, <1>3
<1>5. first \subseteq all /\ i \in all /\ i \notin first
  BY <1>1, <1>3, <1>4
<1>6. IsFiniteSet(all)
  <2>1. IsFiniteSet(DOMAIN args)
    BY <1>1, FS_Interval
  <2> QED BY <2>1, FS_Subset
<1>7. Occurrences(before, args[i]) = Cardinality(first)
      /\ Occurrences(args, args[i]) = Cardinality(all)
  BY DEF Occurrences
<1> HIDE DEF before, first, all
<1>8. /\ Cardinality(first) \in Nat /\ Cardinality(all) \in Nat
      /\ Cardinality(first) < Cardinality(all)
  <2>1. /\ IsFiniteSet(first)
        /\ Cardinality(first) <= Cardinality(all)
        /\ Cardinality(all) # Cardinality(first)
    BY <1>5, <1>6, FS_Subset
  <2>2. Cardinality(first) \in Nat /\ Cardinality(all) \in Nat
    BY <1>6, <2>1, FS_CardinalityType
  <2> QED BY <2>1, <2>2
<1>9. remaining_uses[args[i]] > Occurrences(before, args[i])
  BY <1>7, <1>8
<1> QED BY <1>9 DEF before

\* All elements move when each is in its slot with its last use, once.
LEMMA AllMovable ==
  ASSUME NEW nodes \in Seq(Nodes), IsInjective(nodes),
         \A i \in DOMAIN nodes : nodes[i] \in node_live /\ remaining_uses[nodes[i]] = 1
  PROVE  Movable(nodes) = nodes
<1> DEFINE good(k) == \A i \in 1 .. k :
                        /\ nodes[i] \in node_live
                        /\ remaining_uses[nodes[i]] = 1
                        /\ \A j \in 1 .. i - 1 : nodes[j] # nodes[i]
           counts == {k \in 0 .. Len(nodes) : good(k)}
<1>1. Len(nodes) \in Nat /\ DOMAIN nodes = 1 .. Len(nodes)
  BY LenProperties
<1>2. good(Len(nodes))
  <2>1. ASSUME NEW i \in 1 .. Len(nodes), NEW j \in 1 .. i - 1
        PROVE  nodes[j] # nodes[i]
    <3>1. j \in 1 .. Len(nodes) /\ j # i
      BY <1>1
    <3> QED BY <1>1, <3>1 DEF IsInjective
  <2> QED BY <1>1, <2>1
<1>3. Len(nodes) \in counts /\ \A y \in counts : Len(nodes) >= y /\ y \in Int
  BY <1>1, <1>2
<1> HIDE DEF counts
<1>4. \A x \in counts : (\A y \in counts : x >= y) => x = Len(nodes)
  BY <1>1, <1>3
<1>5. Max(counts) = Len(nodes)
  <2>1. Max(counts) = CHOOSE x \in counts : \A y \in counts : x >= y
    BY DEF Max
  <2> QED BY <1>3, <1>4, <2>1
<1>6. Movable(nodes) = SubSeq(nodes, 1, Len(nodes))
  BY <1>5 DEF Movable, counts
<1> QED BY <1>1, <1>6

(***************************************************************************)
(* The inductive invariant.                                                *)
(***************************************************************************)

\* What has been moved into a tuple or a result table, and what is owned at
\* all.
Moved(n) == \E c \in Nodes : n \in ToSet(inside[c])
Owned(n) ==
  n \in node_live \/ n \in assemblies \/ Moved(n) \/ n \in ToSet(values)
    \/ n \in ToSet(released)

\* Tuples and result tables hold a first part of their elements.
Parts(box) ==
  \A c \in Nodes :
    /\ box[c] \in Seq(Nodes)
    /\ box[c] # <<>> => Kind(c) \in {"tuple", "fanout"}
    /\ Len(box[c]) <= Len(Args(c))
    /\ \A i \in 1 .. Len(box[c]) : box[c][i] = Args(c)[i]

\* Before node k, a tuple is there whole or not at all, and a result table has
\* the branches made so far.
Filled(box, k) ==
  \A c \in Nodes :
    /\ Kind(c) = "tuple" => Len(box[c]) = IF c < k THEN Len(Args(c)) ELSE 0
    /\ Kind(c) = "fanout" => \A i \in DOMAIN Args(c) :
                                i <= Len(box[c]) <=> Args(c)[i] < k

\* What holds something is itself owned.
InsideHolds ==
  /\ Parts(inside)
  /\ \A c \in Nodes : inside[c] # <<>> => Owned(c)

\* The owners are apart from one another, and together own every value made.
OwnersApart ==
  /\ released \in Seq(Nodes) /\ IsInjective(released)
  /\ values \in Seq(Nodes) /\ IsInjective(values)
  /\ \A n \in Nodes :
       /\ n \in node_live \/ n \in assemblies => ~Moved(n) /\ n \notin ToSet(values)
                                                   /\ n \notin ToSet(released)
       /\ Moved(n) => n \notin ToSet(values) /\ n \notin ToSet(released)
       /\ n \in ToSet(values) => n \notin ToSet(released)
       /\ n < node_index => Owned(n)

\* Before the loop ends: the counts are those of the nodes still to come, what
\* has a use left is in its slot, and tables are admitted right after their
\* operands and filled in order.
LoopHolds ==
  /\ remaining_uses = [n \in Nodes |-> UsesLeft(n, node_index)]
  /\ node_live = {n \in Nodes : n < node_index /\ UsesLeft(n, node_index) # 0}
  /\ values = <<>>
  /\ \A f \in Fanouts :
       /\ f \in assemblies => Operand(f) < node_index /\ node_index <= f
       /\ Operand(f) + 1 < node_index /\ node_index <= f => f \in assemblies
  /\ \A n \in ToSet(released) : n < node_index
  /\ Filled(inside, node_index)

EvaluatorInv ==
  /\ Accepted
  /\ EvaluatorTypeOK
  /\ InsideHolds
  /\ OwnersApart
  /\ status \in {"idle", "running"} => LoopHolds
  /\ status = "idle" => node_index = 1
  /\ status = "ok" => node_live = {} /\ assemblies = {}
  /\ status \in {"failed", "internal", "done"} =>
       node_live = {} /\ assemblies = {} /\ values = <<>>
  /\ status = "internal" => Irregular
  /\ OperandOutlivesTable

LEMMA SameProgram ==
  ASSUME UNCHANGED <<program, fault>>
  PROVE  /\ Accepted => Accepted'
         /\ Nodes' = Nodes /\ Fanouts' = Fanouts
         /\ \A n : Kind(n)' = Kind(n) /\ Args(n)' = Args(n) /\ Operand(n)' = Operand(n)
         /\ \A n, k : UsesLeft(n, k)' = UsesLeft(n, k)
         /\ \A box : Parts(box)' <=> Parts(box)
         /\ \A box, k : Filled(box, k)' <=> Filled(box, k)
  BY DEF Parts, Filled, Accepted, Nodes, NodesOf, Fanouts, Kind, Args, Operand, UsesLeft,
         LaterPositions, LaterFanouts, BranchPositions

\* What the evaluator disagrees about is a matter of the program.
LEMMA SameIrregularities ==
  ASSUME UNCHANGED <<program, fault>>
  PROVE  Irregular' <=> Irregular
<1>1. /\ Nodes' = Nodes /\ Fanouts' = Fanouts
      /\ \A n : Kind(n)' = Kind(n) /\ Args(n)' = Args(n) /\ Operand(n)' = Operand(n)
      /\ \A n : BranchPositions(n)' = BranchPositions(n)
  BY DEF Nodes, NodesOf, Fanouts, Kind, Args, Operand, BranchPositions
<1>2. Extent' = Extent
  BY DEF Extent, SemanticArgs, Spreads, Provisional, Kind, Args, OwnerOf, Nodes, NodesOf,
         Operand, ToSet
<1>3. IsVector' = IsVector
  BY DEF IsVector, SemanticArgs, Spreads, Kind, Args, OwnerOf, Nodes, NodesOf, Operand,
         ToSet
<1>4. /\ \A f, i : Overfills(f, i)' <=> Overfills(f, i)
      /\ \A f : IllFormed(f)' <=> IllFormed(f)
      /\ \A n : Spreads(n)' <=> Spreads(n)
  BY <1>1, <1>2, <1>3 DEF Overfills, IllFormed, Spreads, OwnerOf
<1> QED BY <1>1, <1>4 DEF Irregular

\* Node k moves taken into tuples and tables, which become after.
Moves(k, taken, after) ==
  /\ after \in [Nodes -> Seq(Nodes)]
  /\ Parts(after)
  /\ Filled(after, k + 1)
  /\ \A n \in Nodes : (\E c \in Nodes : n \in ToSet(after[c])) <=>
                         \/ \E c \in Nodes : n \in ToSet(inside[c])
                         \/ n \in taken

\* A node that is neither a tuple literal nor a branch root moves nothing.
LEMMA NothingMoves ==
  ASSUME Accepted, NEW k \in Nodes, Kind(k) # "tuple", BranchPositions(k) = {},
         NEW box, box = inside,
         box \in [Nodes -> Seq(Nodes)], Parts(box), Filled(box, k)
  PROVE  Moves(k, {}, box)
<1>1. k \in Int /\ Nodes \subseteq Int
  BY NodesAreNumbers
<1>2. ASSUME NEW c \in Nodes, Kind(c) = "tuple"
      PROVE  Len(box[c]) = IF c < k + 1 THEN Len(Args(c)) ELSE 0
  <2>1. c # k /\ c \in Int
    BY <1>1, <1>2
  <2>2. c < k + 1 <=> c < k
    BY <1>1, <2>1
  <2> QED BY <1>2, <2>2 DEF Filled
<1>3. ASSUME NEW c \in Nodes, Kind(c) = "fanout", NEW i \in DOMAIN Args(c)
      PROVE  i <= Len(box[c]) <=> Args(c)[i] < k + 1
  <2>1. c \in Fanouts
    BY <1>3 DEF Fanouts
  <2>2. Args(c)[i] # k /\ Args(c)[i] \in Int
    <3>1. Args(c)[i] \in Nodes
      BY Arenas
    <3>2. Args(c)[i] = k => BranchPositions(k) = {<<c, i>>}
      BY <1>3, <2>1, BranchFacts
    <3> QED BY <1>1, <3>1, <3>2
  <2>3. Args(c)[i] < k + 1 <=> Args(c)[i] < k
    BY <1>1, <2>2
  <2> QED BY <1>3, <2>3 DEF Filled
<1>4. Filled(box, k + 1)
  BY <1>2, <1>3 DEF Filled
<1> QED BY <1>4 DEF Moves

\* A tuple literal takes all its elements.
LEMMA ElementsMove ==
  ASSUME Accepted, NEW k \in Nodes, Kind(k) = "tuple",
         NEW box \in [Nodes -> Seq(Nodes)], box = inside, Parts(box), Filled(box, k),
         NEW after, after = [box EXCEPT ![k] = Args(k)]
  PROVE  Moves(k, ToSet(Args(k)), after)
<1>1. k \in Int /\ Nodes \subseteq Int
  BY NodesAreNumbers
<1>2. Args(k) \in Seq(Nodes) /\ Len(Args(k)) \in Nat
  BY Arenas
<1>3. /\ after \in [Nodes -> Seq(Nodes)]
      /\ after[k] = Args(k)
      /\ \A c \in Nodes : c # k => after[c] = box[c]
  BY <1>2
<1>4. Parts(after)
  BY <1>2, <1>3 DEF Parts
<1>5. box[k] = <<>>
  <2>1. ~ k < k
    BY <1>1
  <2>2. Len(box[k]) = 0
    BY <2>1 DEF Filled
  <2> QED BY <2>2, EmptySeq
<1>6. ASSUME NEW c \in Nodes, Kind(c) = "tuple"
      PROVE  Len(after[c]) = IF c < k + 1 THEN Len(Args(c)) ELSE 0
  <2>1. CASE c = k
    <3>1. k < k + 1
      BY <1>1
    <3> QED BY <1>3, <2>1, <3>1
  <2>2. CASE c # k
    <3>1. c < k + 1 <=> c < k
      BY <1>1, <2>2
    <3> QED BY <1>3, <1>6, <2>2, <3>1 DEF Filled
  <2> QED BY <2>1, <2>2
<1>7. ASSUME NEW c \in Nodes, Kind(c) = "fanout", NEW i \in DOMAIN Args(c)
      PROVE  i <= Len(after[c]) <=> Args(c)[i] < k + 1
  <2>1. c \in Fanouts /\ after[c] = box[c]
    BY <1>3, <1>7 DEF Fanouts
  <2>2. Args(c)[i] # k /\ Args(c)[i] \in Int
    BY <1>1, <2>1, FanoutFacts, Arenas DEF Fanouts
  <2>3. Args(c)[i] < k + 1 <=> Args(c)[i] < k
    BY <1>1, <2>2
  <2> QED BY <1>7, <2>1, <2>3 DEF Filled
<1>8. Filled(after, k + 1)
  BY <1>6, <1>7 DEF Filled
<1>9. ToSet(box[k]) = {}
  BY <1>5 DEF ToSet
<1> QED BY <1>3, <1>4, <1>8, <1>9 DEF Moves

\* A branch root is the next element of its fan-out's table, and moves there.
LEMMA BranchMoves ==
  ASSUME Accepted, NEW k \in Nodes, NEW e \in BranchPositions(k),
         NEW box \in [Nodes -> Seq(Nodes)], box = inside, Parts(box), Filled(box, k),
         NEW after, after = [box EXCEPT ![e[1]] = Append(@, k)]
  PROVE  /\ e[2] = Len(box[e[1]]) + 1
         /\ Moves(k, {k}, after)
<1> DEFINE f == e[1]
           p == e[2]
<1>1. k \in Int /\ Nodes \subseteq Int
  BY NodesAreNumbers
<1>2. /\ f \in Fanouts /\ f \in Nodes /\ Kind(f) = "fanout"
      /\ p \in DOMAIN Args(f) /\ Args(f)[p] = k /\ Kind(k) = "call"
  BY BranchFacts DEF Fanouts
<1>3. /\ Len(Args(f)) \in Nat /\ DOMAIN Args(f) = 1 .. Len(Args(f))
      /\ \A i \in DOMAIN Args(f) : Args(f)[i] \in Int
  BY <1>1, <1>2, Arenas
<1>4. box[f] \in Seq(Nodes) /\ Len(box[f]) \in Nat /\ DOMAIN box[f] = 1 .. Len(box[f])
  BY <1>2, LenProperties
<1>5. \A i \in DOMAIN Args(f) : i <= Len(box[f]) <=> Args(f)[i] < k
  BY <1>2 DEF Filled
<1>6. \A i, j \in DOMAIN Args(f) : j < i => Args(f)[j] < Args(f)[i]
  BY <1>2, FanoutFacts
<1> HIDE DEF f, p
<1>7. p = Len(box[f]) + 1
  <2>1. ~ p <= Len(box[f])
    BY <1>1, <1>2, <1>5
  <2>2. ASSUME p > Len(box[f]) + 1
        PROVE  FALSE
    <3>1. Len(box[f]) + 1 \in DOMAIN Args(f) /\ Len(box[f]) + 1 < p
      BY <1>2, <1>3, <1>4, <2>2
    <3>2. Len(box[f]) + 1 <= Len(box[f])
      BY <1>2, <1>5, <1>6, <3>1
    <3> QED BY <1>4, <3>2
  <2> QED BY <1>2, <1>3, <1>4, <2>1, <2>2
<1>8. /\ after \in [Nodes -> Seq(Nodes)]
      /\ after[f] = Append(box[f], k)
      /\ \A c \in Nodes : c # f => after[c] = box[c]
  BY <1>2, <1>4 DEF f
<1>9. /\ Len(after[f]) = Len(box[f]) + 1
      /\ \A i \in 1 .. Len(box[f]) : after[f][i] = box[f][i]
      /\ after[f][Len(box[f]) + 1] = k
      /\ DOMAIN after[f] = 1 .. Len(box[f]) + 1
  BY <1>4, <1>8, AppendProperties
<1>10. Parts(after)
  <2>1. ASSUME NEW c \in Nodes
        PROVE  /\ after[c] \in Seq(Nodes)
               /\ after[c] # <<>> => Kind(c) \in {"tuple", "fanout"}
               /\ Len(after[c]) <= Len(Args(c))
               /\ \A i \in 1 .. Len(after[c]) : after[c][i] = Args(c)[i]
    <3>1. CASE c # f
      BY <1>8, <3>1 DEF Parts
    <3>2. CASE c = f
      <4>1. \A i \in 1 .. Len(box[f]) : box[f][i] = Args(f)[i]
        BY <1>2 DEF Parts
      <4>2. \A i \in 1 .. Len(box[f]) + 1 : i \in 1 .. Len(box[f]) \/ i = p
        BY <1>4, <1>7
      <4>3. \A i \in 1 .. Len(box[f]) + 1 : after[f][i] = Args(f)[i]
        BY <1>2, <1>7, <1>9, <4>1, <4>2
      <4>4. Len(box[f]) + 1 <= Len(Args(f))
        BY <1>2, <1>3, <1>7
      <4> QED BY <1>2, <1>8, <1>9, <3>2, <4>3, <4>4
    <3> QED BY <3>1, <3>2
  <2> QED BY <2>1 DEF Parts
<1>11. Filled(after, k + 1)
  <2>1. ASSUME NEW c \in Nodes, Kind(c) = "tuple"
        PROVE  Len(after[c]) = IF c < k + 1 THEN Len(Args(c)) ELSE 0
    <3>1. c # k /\ c # f /\ c \in Int
      BY <1>1, <1>2, <2>1
    <3>2. c < k + 1 <=> c < k
      BY <1>1, <3>1
    <3> QED BY <1>8, <2>1, <3>1, <3>2 DEF Filled
  <2>2. ASSUME NEW c \in Nodes, Kind(c) = "fanout", c # f, NEW i \in DOMAIN Args(c)
        PROVE  i <= Len(after[c]) <=> Args(c)[i] < k + 1
    <3>1. c \in Fanouts /\ after[c] = box[c]
      BY <1>8, <2>2 DEF Fanouts
    <3>2. Args(c)[i] # k
      <4>1. SUFFICES ASSUME Args(c)[i] = k
                     PROVE  FALSE
        OBVIOUS
      <4>2. BranchPositions(k) = {<<c, i>>}
        BY <3>1, <4>1, BranchFacts
      <4> QED BY <2>2, <4>2 DEF f
    <3>3. Args(c)[i] < k + 1 <=> Args(c)[i] < k
      <4>1. Args(c)[i] \in Int
        BY <1>1, Arenas
      <4> QED BY <1>1, <3>2, <4>1
    <3> QED BY <2>2, <3>1, <3>3 DEF Filled
  <2>3. ASSUME NEW i \in DOMAIN Args(f)
        PROVE  i <= Len(after[f]) <=> Args(f)[i] < k + 1
    <3>1. CASE i <= Len(box[f])
      BY <1>1, <1>3, <1>4, <1>5, <1>9, <3>1
    <3>2. CASE i = p
      BY <1>1, <1>2, <1>3, <1>4, <1>7, <1>9, <3>2
    <3>3. CASE i > p
      <4>1. k < Args(f)[i]
        BY <1>2, <1>6, <3>3
      <4> QED BY <1>1, <1>3, <1>4, <1>7, <1>9, <3>3, <4>1
    <3> QED BY <1>3, <1>4, <1>7, <3>1, <3>2, <3>3
  <2> QED BY <2>1, <2>2, <2>3 DEF Filled
<1>12. ToSet(after[f]) = ToSet(box[f]) \cup {k}
  <2>1. \A x \in ToSet(after[f]) : x \in ToSet(box[f]) \/ x = k
    <3>1. \A l \in Nat : \A i \in 1 .. l + 1 : i \in 1 .. l \/ i = l + 1
      OBVIOUS
    <3> QED BY <1>4, <1>9, <3>1 DEF ToSet
  <2>2. \A x \in ToSet(box[f]) : x \in ToSet(after[f])
    <3>1. \A i \in 1 .. Len(box[f]) : i \in 1 .. Len(box[f]) + 1
      BY <1>4
    <3> QED BY <1>4, <1>9, <3>1 DEF ToSet
  <2>3. k \in ToSet(after[f])
    <3>1. Len(box[f]) + 1 \in 1 .. Len(box[f]) + 1
      BY <1>4
    <3> QED BY <1>9, <3>1 DEF ToSet
  <2> QED BY <2>1, <2>2, <2>3
<1>13. \A n \in Nodes : (\E c \in Nodes : n \in ToSet(after[c])) <=>
                          \/ \E c \in Nodes : n \in ToSet(box[c])
                          \/ n = k
  BY <1>2, <1>8, <1>12
<1>14. Moves(k, {k}, after)
  BY <1>8, <1>10, <1>11, <1>13 DEF Moves
<1> QED BY <1>7, <1>14 DEF f, p

\* What every action of the loop starts from.
LEMMA LoopFacts ==
  ASSUME EvaluatorInv, status = "running"
  PROVE  /\ Accepted /\ Nodes \subseteq Int /\ node_index \in Int
         /\ remaining_uses = [n \in Nodes |-> UsesLeft(n, node_index)]
         /\ node_live = {n \in Nodes : n < node_index /\ UsesLeft(n, node_index) # 0}
         /\ inside \in [Nodes -> Seq(Nodes)] /\ Parts(inside) /\ Filled(inside, node_index)
         /\ values = <<>>
         /\ remaining_uses \in [Nodes -> Nat]
         /\ \A f \in assemblies : f \in Fanouts /\ Operand(f) < node_index /\ node_index <= f
         /\ \A f \in Fanouts : Operand(f) + 1 < node_index /\ node_index <= f => f \in assemblies
<1>1. Accepted /\ EvaluatorTypeOK /\ LoopHolds /\ InsideHolds
  BY DEF EvaluatorInv
<1>2. node_index \in Int
  BY <1>1, Arenas DEF EvaluatorTypeOK
<1> QED BY <1>1, <1>2, NodesAreNumbers DEF EvaluatorTypeOK, LoopHolds, InsideHolds

LEMMA MovedIsMade ==
  ASSUME EvaluatorInv, status = "running", NEW n \in Nodes, Moved(n)
  PROVE  n < node_index
<1> DEFINE k == node_index
<1>1. SUFFICES ASSUME NEW c \in Nodes, NEW i \in DOMAIN inside[c]
               PROVE  inside[c][i] < k
  BY DEF Moved, ToSet
<1>2. /\ inside[c] \in Seq(Nodes) /\ Len(inside[c]) <= Len(Args(c))
      /\ \A j \in 1 .. Len(inside[c]) : inside[c][j] = Args(c)[j]
      /\ inside[c] # <<>> => Kind(c) \in {"tuple", "fanout"}
  BY DEF EvaluatorInv, InsideHolds, Parts
<1>3. Len(inside[c]) \in Nat /\ DOMAIN inside[c] = 1 .. Len(inside[c])
  BY <1>2, LenProperties
<1>4. Len(Args(c)) \in Nat /\ DOMAIN Args(c) = 1 .. Len(Args(c))
  BY Arenas, LoopFacts
<1>5. i \in DOMAIN Args(c) /\ inside[c][i] = Args(c)[i] /\ i <= Len(inside[c])
  BY <1>2, <1>3, <1>4
<1>6. Kind(c) \in {"tuple", "fanout"}
  BY <1>2
<1>7. Args(c)[i] < c /\ Args(c)[i] \in Int /\ c \in Int
  BY <1>5, Arenas, LoopFacts
<1>8. Filled(inside, k)
  BY DEF EvaluatorInv, LoopHolds
<1>9. CASE Kind(c) = "tuple"
  <2>1. c < k
    BY <1>3, <1>5, <1>8, <1>9 DEF Filled
  <2> QED BY <1>5, <1>7, <2>1, LoopFacts
<1>10. CASE Kind(c) = "fanout"
  BY <1>5, <1>8, <1>10 DEF Filled
<1> QED BY <1>6, <1>9, <1>10

\* An iteration that succeeds: taken are the values that node k moved, added
\* the ones it released; the others that are made and used up were so before.
LEMMA IterationKeepsInvariant ==
  ASSUME EvaluatorInv, status = "running", UNCHANGED <<program, fault, values, status>>,
         NEW k \in Nodes, k = node_index, node_index' = k + 1,
         AdmittedBefore(k) \subseteq assemblies,
         assemblies' = assemblies \ {k}, Kind(k) = "fanout" \/ k \notin assemblies,
         remaining_uses' = [n \in Nodes |-> UsesLeft(n, k + 1)],
         node_live' = {n \in Nodes : n < k + 1 /\ UsesLeft(n, k + 1) # 0},
         NEW taken \in SUBSET Nodes,
         \A n \in taken : (n \in node_live \/ n = k) /\ UsesLeft(n, k + 1) = 0,
         NEW added \in Seq(Nodes), IsInjective(added), released' = released \o added,
         ToSet(added) = {n \in Nodes : /\ n \in node_live \/ n = k
                                       /\ UsesLeft(n, k + 1) = 0
                                       /\ n \notin taken},
         Moves(k, taken, inside')
  PROVE  EvaluatorInv'
<1> DEFINE after == inside'
<1>0. /\ after \in [Nodes -> Seq(Nodes)] /\ Parts(after) /\ Filled(after, k + 1)
      /\ \A n \in Nodes : (\E c \in Nodes : n \in ToSet(after[c])) <=>
                            \/ \E c \in Nodes : n \in ToSet(inside[c])
                            \/ n \in taken
  BY DEF Moves
<1>1. /\ Nodes' = Nodes /\ Fanouts' = Fanouts /\ Accepted'
      /\ \A n : Kind(n)' = Kind(n) /\ Args(n)' = Args(n) /\ Operand(n)' = Operand(n)
      /\ \A n, j : UsesLeft(n, j)' = UsesLeft(n, j)
      /\ \A box : Parts(box)' <=> Parts(box)
      /\ \A box, j : Filled(box, j)' <=> Filled(box, j)
  BY SameProgram DEF EvaluatorInv
<1>2. /\ Accepted /\ released \in Seq(Nodes) /\ IsInjective(released)
      /\ node_live = {n \in Nodes : n < k /\ UsesLeft(n, k) # 0}
      /\ values = <<>> /\ assemblies \subseteq Fanouts
      /\ \A n \in ToSet(released) : n < k
  BY DEF EvaluatorInv, EvaluatorTypeOK, OwnersApart, LoopHolds
<1>3. Nodes \subseteq Int /\ k \in Int /\ Fanouts \subseteq Nodes
  BY <1>2, NodesAreNumbers DEF Fanouts
<1>4. /\ \A n \in Nodes : n < k + 1 <=> n < k \/ n = k
      /\ ~ k < k
      /\ \A n \in Nodes : n >= k => ~ n < k
  BY <1>3
<1>5. ASSUME NEW n \in Nodes
      PROVE  /\ UsesLeft(n, k + 1) \in Nat
             /\ n < k /\ UsesLeft(n, k) = 0 => UsesLeft(n, k + 1) = 0
  <2>1. /\ UsesLeft(n, k) \in Nat /\ UsesLeft(n, k + 1) \in Nat
        /\ Occurrences(Args(k), n) \in Nat
    BY <1>2, <1>3, CountsAreNumbers, PositionsOfNode
  <2> QED BY <1>2, <2>1, UsesStep
<1>6. \A n \in Nodes :
        /\ n \in node_live \/ n \in assemblies =>
             ~Moved(n) /\ n \notin ToSet(released)
        /\ Moved(n) => n \notin ToSet(released)
        /\ n < k => Owned(n)
  BY DEF EvaluatorInv, OwnersApart
<1>7. \A n \in Nodes : Moved(n) => n < k
  BY MovedIsMade
<1>8. k \notin node_live /\ k \notin ToSet(released) /\ ~Moved(k)
  BY <1>2, <1>4, <1>7
<1>9. /\ released' \in Seq(Nodes) /\ IsInjective(released')
      /\ ToSet(released') = ToSet(released) \cup ToSet(added)
  <2>1. ToSet(released) \cap ToSet(added) = {}
    BY <1>6, <1>8
  <2> QED BY <1>2, <2>1, JoinedLogs
<1>10. \A n \in Nodes : Moved(n)' <=> Moved(n) \/ n \in taken
  BY <1>0, <1>1 DEF Moved
<1>11. values' = <<>> /\ values' \in Seq(Nodes) /\ IsInjective(values') /\ ToSet(values') = {}
  BY <1>2 DEF ToSet, IsInjective
<1>12. ASSUME NEW n \in Nodes, n < k + 1
       PROVE  Owned(n)'
  <2>1. CASE n = k
    BY <1>1, <1>4, <1>9, <1>10, <2>1 DEF Owned
  <2>2. CASE n < k
    <3>1. Owned(n)
      BY <1>6, <2>2
    <3>2. n \notin assemblies
      BY <1>2, <1>3, <1>4, <2>2 DEF EvaluatorInv, LoopHolds
    <3>3. n \notin ToSet(values)
      BY <1>2 DEF ToSet
    <3>4. CASE n \in node_live
      BY <1>1, <1>9, <1>10, <1>12, <3>4 DEF Owned
    <3>5. CASE Moved(n) \/ n \in ToSet(released)
      BY <1>1, <1>9, <1>10, <3>5 DEF Owned
    <3> QED BY <3>1, <3>2, <3>3, <3>4, <3>5 DEF Owned
  <2> QED BY <1>4, <1>12, <2>1, <2>2
<1>13. OwnersApart'
  <2>1. ASSUME NEW n \in Nodes, n \in node_live' \/ n \in assemblies'
        PROVE  ~Moved(n)' /\ n \notin ToSet(released')
    <3>1. CASE n \in node_live'
      <4>1. UsesLeft(n, k + 1) # 0 /\ (n < k \/ n = k)
        BY <1>4, <3>1
      <4>2. n \notin taken /\ n \notin ToSet(added)
        BY <4>1
      <4>3. n < k => n \in node_live
        BY <1>2, <1>5, <4>1
      <4> QED BY <1>6, <1>8, <1>9, <1>10, <4>1, <4>2, <4>3
    <3>2. CASE n \in assemblies'
      <4>1. n \in assemblies /\ n # k
        BY <3>2
      <4>2. n \notin node_live
        <5>1. k <= n
          BY <1>2, <4>1 DEF EvaluatorInv, LoopHolds
        <5> QED BY <1>2, <1>3, <5>1
      <4> QED BY <1>6, <1>9, <1>10, <4>1, <4>2
    <3> QED BY <2>1, <3>1, <3>2
  <2>2. ASSUME NEW n \in Nodes, Moved(n)'
        PROVE  n \notin ToSet(released')
    BY <1>6, <1>7, <1>8, <1>9, <1>10, <2>2
  <2>3. \A n \in Nodes : n < node_index' => Owned(n)'
    BY <1>12
  <2> QED BY <1>1, <1>9, <1>11, <2>1, <2>2, <2>3 DEF OwnersApart
<1>14. ASSUME NEW f \in Fanouts
       PROVE  /\ f \in assemblies' => Operand(f) < k + 1 /\ k + 1 <= f
              /\ Operand(f) + 1 < k + 1 /\ k + 1 <= f => f \in assemblies'
  <2>1. f \in Int /\ Operand(f) \in Int
    BY <1>2, <1>3, FanoutFacts
  <2>2. /\ f \in assemblies => Operand(f) < k /\ k <= f
        /\ Operand(f) + 1 < k /\ k <= f => f \in assemblies
    BY DEF EvaluatorInv, LoopHolds
  <2>3. Operand(f) + 1 = k => f \in assemblies
    BY DEF AdmittedBefore
  <2>4. /\ Operand(f) < k => Operand(f) < k + 1
        /\ k <= f /\ f # k => k + 1 <= f
        /\ Operand(f) + 1 < k + 1 => Operand(f) + 1 < k \/ Operand(f) + 1 = k
        /\ k + 1 <= f => k <= f /\ f # k
    BY <1>3, <2>1
  <2> QED BY <2>2, <2>3, <2>4
<1>15. LoopHolds'
  <2>1. remaining_uses' = [n \in Nodes' |-> UsesLeft(n, node_index)']
    BY <1>1
  <2>2. node_live' = {n \in Nodes' : n < node_index' /\ UsesLeft(n, node_index)' # 0}
    BY <1>1
  <2>3. \A n \in ToSet(released') : n < node_index'
    <3>1. ToSet(released) \subseteq Nodes
      BY <1>2 DEF ToSet
    <3>2. \A n \in ToSet(added) : n \in Nodes /\ (n < k \/ n = k)
      BY <1>2
    <3>3. \A n \in ToSet(released') : n \in Nodes /\ (n < k \/ n = k)
      BY <1>2, <1>9, <3>1, <3>2
    <3> QED BY <1>4, <3>3
  <2>4. Filled(inside, node_index)'
    BY <1>0, <1>1
  <2>5. \A f \in Fanouts' :
          /\ f \in assemblies' => Operand(f)' < node_index' /\ node_index' <= f
          /\ Operand(f)' + 1 < node_index' /\ node_index' <= f => f \in assemblies'
    BY <1>1, <1>14
  <2> QED BY <1>11, <2>1, <2>2, <2>3, <2>4, <2>5 DEF LoopHolds
<1>16. InsideHolds'
  <2>1. Parts(inside)'
    BY <1>0, <1>1
  <2>2. ASSUME NEW c \in Nodes, after[c] # <<>>
        PROVE  Owned(c)'
    <3>1. /\ after[c] \in Seq(Nodes) /\ Len(after[c]) <= Len(Args(c))
          /\ Kind(c) \in {"tuple", "fanout"}
      BY <1>0, <2>2 DEF Parts
    <3>2. Len(after[c]) \in Nat /\ Len(after[c]) # 0
      BY <2>2, <3>1, LenProperties, EmptySeq
    <3>3. CASE Kind(c) = "tuple"
      <4>1. c < k + 1
        BY <1>0, <3>2, <3>3 DEF Filled
      <4> QED BY <1>12, <4>1
    <3>4. CASE Kind(c) = "fanout"
      <4>1. Len(Args(c)) \in Nat /\ DOMAIN Args(c) = 1 .. Len(Args(c))
        BY <1>2, Arenas
      <4>2. 1 \in DOMAIN Args(c) /\ 1 <= Len(after[c])
        BY <3>1, <3>2, <4>1
      <4>3. Args(c)[1] < k + 1
        BY <1>0, <3>4, <4>2 DEF Filled
      <4>4. c \in Fanouts
        BY <3>4 DEF Fanouts
      <4>5. Args(c)[1] > Operand(c) /\ Operand(c) \in Int /\ Args(c)[1] \in Int /\ c \in Int
        <5>1. Operand(c) \in Nodes /\ Args(c)[1] > Operand(c)
          BY <1>2, <4>2, <4>4, FanoutFacts
        <5>2. Args(c)[1] \in Nodes
          BY <1>2, <4>2, Arenas
        <5> QED BY <1>3, <5>1, <5>2
      <4>6. c < k + 1 \/ c \in assemblies'
        <5>1. Operand(c) + 1 < k + 1 /\ (c < k + 1 \/ k + 1 <= c)
          BY <1>3, <4>3, <4>5
        <5> QED BY <1>14, <4>4, <5>1
      <4> QED BY <1>1, <1>12, <4>6 DEF Owned
    <3> QED BY <3>1, <3>3, <3>4
  <2> QED BY <1>1, <2>1, <2>2 DEF InsideHolds
<1>17. EvaluatorTypeOK'
  <2>1. k + 1 \in 1 .. Len(program.kind) + 1
    BY <1>2, Arenas
  <2>2. remaining_uses' \in [Nodes -> Nat]
    BY <1>5
  <2>3. node_live' \subseteq Nodes /\ assemblies' \subseteq Fanouts
    BY <1>2
  <2>4. program' = program /\ status' = "running"
    OBVIOUS
  <2> QED BY <1>0, <1>1, <1>9, <1>11, <2>1, <2>2, <2>3, <2>4 DEF EvaluatorTypeOK
<1>18. OperandOutlivesTable'
  BY DEF OperandOutlivesTable
<1> QED BY <1>1, <1>13, <1>15, <1>16, <1>17, <1>18 DEF EvaluatorInv

LEMMA UsesShrink ==
  ASSUME Accepted, NEW n \in Nodes, NEW k \in Nodes
  PROVE  /\ UsesLeft(n, k + 1) \in Nat /\ UsesLeft(n, k) \in Nat
         /\ UsesLeft(n, k) = 0 => n = k \/ UsesLeft(n, k + 1) = 0
<1>1. k \in Int /\ k + 1 \in Int
  BY NodesAreNumbers
<1>2. /\ UsesLeft(n, k) \in Nat /\ UsesLeft(n, k + 1) \in Nat
      /\ Occurrences(Args(k), n) \in Nat
  BY <1>1, CountsAreNumbers, PositionsOfNode
<1> QED BY <1>2, UsesStep

\* An iteration whose result goes to its slot.
LEMMA StoreKeepsInvariant ==
  ASSUME EvaluatorInv, status = "running", UNCHANGED <<program, fault, values, status>>,
         NEW k \in Nodes, k = node_index, AdmittedBefore(k) \subseteq assemblies,
         assemblies' = assemblies \ {k}, Kind(k) = "fanout" \/ k \notin assemblies,
         NEW uses, uses = [n \in Nodes |-> UsesLeft(n, k + 1)],
         NEW live, live = {n \in node_live : UsesLeft(n, k + 1) # 0},
         NEW taken \in SUBSET node_live, \A n \in taken : UsesLeft(n, k + 1) = 0,
         NEW first \in Seq(Nodes), IsInjective(first),
         ToSet(first) = {n \in node_live : UsesLeft(n, k + 1) = 0 /\ n \notin taken},
         Store(k, uses, live, first),
         Moves(k, taken, inside')
  PROVE  EvaluatorInv'
<1> DEFINE last == IF uses[k] = 0 THEN <<k>> ELSE <<>>
           added == first \o last
<1>1. /\ Accepted /\ node_live \subseteq Nodes /\ released \in Seq(Nodes)
      /\ node_live = {n \in Nodes : n < k /\ UsesLeft(n, k) # 0}
  BY DEF EvaluatorInv, EvaluatorTypeOK, LoopHolds
<1>2. Nodes \subseteq Int /\ k \in Int
  BY <1>1, NodesAreNumbers
<1>3. /\ ~ k < k /\ k \notin node_live
      /\ \A n \in Nodes : n < k + 1 <=> n < k \/ n = k
  BY <1>1, <1>2
<1>4. uses[k] = UsesLeft(k, k + 1)
  OBVIOUS
<1>5. /\ last \in Seq(Nodes) /\ IsInjective(last)
      /\ ToSet(last) = IF UsesLeft(k, k + 1) = 0 THEN {k} ELSE {}
  BY <1>4, Singletons
<1>6. /\ remaining_uses' = uses
      /\ node_live' = IF uses[k] = 0 THEN live \ {k} ELSE live \cup {k}
      /\ released' = released \o first \o last
      /\ node_index' = k + 1
  BY DEF Store
<1> HIDE DEF last
<1>7. released' = released \o added
  <2>1. released \in Seq(Nodes) /\ last \in Seq(Nodes)
    BY <1>1, <1>5
  <2>2. released \o (first \o last) = (released \o first) \o last
    BY <2>1, LogsAssociate
  <2>3. released' = (released \o first) \o last
    BY <1>6
  <2> QED BY <2>2, <2>3
<1>8. /\ added \in Seq(Nodes) /\ IsInjective(added)
      /\ ToSet(added) = ToSet(first) \cup ToSet(last)
  <2>1. ToSet(first) \cap ToSet(last) = {}
    BY <1>3, <1>5
  <2> QED BY <1>5, <2>1, JoinedLogs
<1> HIDE DEF added
<1>9. ToSet(added) = {n \in Nodes : /\ n \in node_live \/ n = k
                                   /\ UsesLeft(n, k + 1) = 0
                                   /\ n \notin taken}
  BY <1>1, <1>3, <1>5, <1>8
<1>10. node_live' = {n \in Nodes : n < k + 1 /\ UsesLeft(n, k + 1) # 0}
  <2>1. ASSUME NEW n \in Nodes
        PROVE  n \in node_live' <=> n < k + 1 /\ UsesLeft(n, k + 1) # 0
    <3>1. n < k /\ UsesLeft(n, k + 1) # 0 => UsesLeft(n, k) # 0
      BY <1>1, <1>3, UsesShrink
    <3> QED BY <1>1, <1>3, <1>4, <1>6, <3>1
  <2>2. node_live' \subseteq Nodes
    BY <1>1, <1>6
  <2> QED BY <2>1, <2>2
<1>11. \A n \in taken : (n \in node_live \/ n = k) /\ UsesLeft(n, k + 1) = 0
  OBVIOUS
<1>12. taken \in SUBSET Nodes
  BY <1>1
<1>13. remaining_uses' = [n \in Nodes |-> UsesLeft(n, k + 1)] /\ node_index' = k + 1
  BY <1>6
<1> QED BY <1>7, <1>8, <1>9, <1>10, <1>11, <1>12, <1>13, IterationKeepsInvariant

LEMMA InitialInvariant ==
  ProgramInit /\ EvaluatorInit => EvaluatorInv
<1> SUFFICES ASSUME ProgramInit, EvaluatorInit
             PROVE  EvaluatorInv
  OBVIOUS
<1>1. Accepted
  BY DEF ProgramInit, Accepted
<1>2. /\ node_index = 1 /\ node_live = {} /\ assemblies = {}
      /\ remaining_uses = [n \in Nodes |-> UseCount(n)]
      /\ inside = [n \in Nodes |-> <<>>]
      /\ values = <<>> /\ released = <<>> /\ status = "idle"
  BY DEF EvaluatorInit
<1>3. Nodes \subseteq Int /\ \A n \in Nodes : ~ n < 1 /\ n >= 1
  <2>1. Nodes = 1 .. Len(program.kind) /\ Len(program.kind) \in Nat
    BY <1>1, Arenas
  <2> QED BY <2>1
<1>4. remaining_uses = [n \in Nodes |-> UsesLeft(n, 1)] /\ \A n \in Nodes : UsesLeft(n, 1) \in Nat
  BY <1>1, <1>2, UsesAtStart, CountsAreNumbers
<1>5. \A n \in Nodes : inside[n] = <<>> /\ Len(inside[n]) = 0 /\ ToSet(inside[n]) = {}
  BY <1>2 DEF ToSet
<1>6. EvaluatorTypeOK
  <2>1. 1 \in 1 .. Len(program.kind) + 1
    BY <1>1, Arenas
  <2> QED BY <1>2, <1>4, <1>5, <2>1 DEF EvaluatorTypeOK
<1>7. InsideHolds
  <2>1. \A c \in Nodes : Len(Args(c)) \in Nat
    BY <1>1, Arenas
  <2> QED BY <1>2, <1>5, <2>1 DEF InsideHolds, Parts
<1>8. OwnersApart
  BY <1>2, <1>3, <1>5 DEF OwnersApart, Moved, ToSet, IsInjective
<1>9. LoopHolds
  <2>1. \A f \in Fanouts : /\ f \in Nodes /\ f \in Int /\ Operand(f) \in Int
                           /\ Operand(f) >= 1
    BY <1>1, <1>3, FanoutFacts
  <2>2. \A f \in Fanouts : ~ Operand(f) + 1 < 1
    BY <2>1
  <2>3. Filled(inside, 1)
    <3>1. ASSUME NEW c \in Nodes, NEW i \in DOMAIN Args(c)
          PROVE  ~ i <= 0 /\ ~ Args(c)[i] < 1
      BY <1>1, <1>3, Arenas
    <3> QED BY <1>3, <1>5, <3>1 DEF Filled
  <2> QED BY <1>2, <1>3, <1>4, <2>2, <2>3 DEF LoopHolds, ToSet
<1>10. OperandOutlivesTable
  BY <1>2 DEF OperandOutlivesTable
<1> QED BY <1>1, <1>2, <1>6, <1>7, <1>8, <1>9, <1>10 DEF EvaluatorInv

\* A leaf uses nothing.
LEMMA LeafUses ==
  ASSUME Accepted, NEW k \in Nodes, Kind(k) \in {"scalar", "vector", "placeholder"}
  PROVE  /\ [n \in Nodes |-> UsesLeft(n, k + 1)] = [n \in Nodes |-> UsesLeft(n, k)]
         /\ BranchPositions(k) = {}
<1>1. BranchPositions(k) = {}
  BY BranchFacts
<1>2. ASSUME NEW n \in Nodes
      PROVE  UsesLeft(n, k + 1) = UsesLeft(n, k)
  <2>1. ToSet(Args(k)) = {}
    BY LeavesUseNothing DEF ToSet
  <2>2. Occurrences(Args(k), n) = 0
    BY <2>1, PositionsOfNode
  <2>3. UsesLeft(n, k) \in Nat
    BY UsesShrink
  <2> QED BY <1>1, <2>2, <2>3, UsesStep
<1> QED BY <1>1, <1>2

LEMMA LeafStored ==
  ASSUME EvaluatorInv, UNCHANGED <<program, fault, values, status, assemblies, inside>>,
         NEW k \in Nodes, Kind(k) \in {"scalar", "vector"},
         AtNode(k, Kind(k)), Store(k, remaining_uses, node_live, <<>>)
  PROVE  EvaluatorInv'
<1>1. /\ status = "running" /\ k = node_index /\ AdmittedBefore(k) \subseteq assemblies
  BY DEF AtNode
<1>2. /\ Accepted
      /\ remaining_uses = [n \in Nodes |-> UsesLeft(n, k)]
      /\ node_live = {n \in Nodes : n < k /\ UsesLeft(n, k) # 0}
      /\ inside \in [Nodes -> Seq(Nodes)] /\ Parts(inside) /\ Filled(inside, k)
      /\ assemblies \subseteq Fanouts
  BY <1>1, LoopFacts
<1>3. /\ [n \in Nodes |-> UsesLeft(n, k + 1)] = [n \in Nodes |-> UsesLeft(n, k)]
      /\ BranchPositions(k) = {}
  BY <1>2, LeafUses
<1>4. \A n \in Nodes : UsesLeft(n, k + 1) = UsesLeft(n, k)
  <2> DEFINE g == [n \in Nodes |-> UsesLeft(n, k + 1)]
             h == [n \in Nodes |-> UsesLeft(n, k)]
  <2>1. \A n \in Nodes : g[n] = UsesLeft(n, k + 1) /\ h[n] = UsesLeft(n, k)
    OBVIOUS
  <2> QED BY <1>3, <2>1
<1>5. node_live = {n \in node_live : UsesLeft(n, k + 1) # 0}
      /\ {} = {n \in node_live : UsesLeft(n, k + 1) = 0 /\ n \notin {}}
  BY <1>2, <1>4
<1>6. k \notin assemblies /\ assemblies' = assemblies \ {k}
  BY <1>2 DEF Fanouts
<1>7. Moves(k, {}, inside')
  BY <1>2, <1>3, NothingMoves
<1>8. <<>> \in Seq(Nodes) /\ IsInjective(<<>>) /\ ToSet(<<>>) = {}
  BY EmptyLog
<1>9. remaining_uses = [n \in Nodes |-> UsesLeft(n, k + 1)]
  BY <1>2, <1>3
<1> DEFINE taken == {}
<1>10. /\ taken \in SUBSET node_live /\ \A n \in taken : UsesLeft(n, k + 1) = 0
       /\ ToSet(<<>>) = {n \in node_live : UsesLeft(n, k + 1) = 0 /\ n \notin taken}
       /\ Moves(k, taken, inside')
  BY <1>5, <1>7, <1>8
<1> HIDE DEF taken
<1> QED BY <1>1, <1>5, <1>6, <1>8, <1>9, <1>10, StoreKeepsInvariant

\* A failure releases the moved elements or the last uses, then the tables,
\* then the slots, and leaves every value with one owner: the log, or the
\* tuple or table it was moved into.  A branch result that its table refuses
\* is fresh: it was in no slot.
LEMMA FailureReleasesAll ==
  ASSUME EvaluatorInv, status = "running",
         NEW outcome \in {"failed", "internal"}, outcome = "internal" => Irregular,
         NEW fresh \in SUBSET Nodes, \A n \in fresh : n = node_index /\ n \notin assemblies,
         NEW first \in Seq(Nodes), IsInjective(first),
         ToSet(first) \subseteq node_live \cup fresh,
         \A f \in Fanouts : Operand(f) \notin ToSet(first) \/ ~ node_index <= f,
         NEW live, live = node_live \ ToSet(first),
         Fail(outcome, first, live),
         remaining_uses' \in [Nodes -> Nat],
         UNCHANGED <<program, fault, inside>>
  PROVE  EvaluatorInv'
<1> DEFINE tables == Descending(assemblies)
           slots == Descending(live)
           start == released \o first
           before == start \o tables
<1>1. /\ Nodes' = Nodes /\ Fanouts' = Fanouts /\ Accepted'
      /\ \A n : Kind(n)' = Kind(n) /\ Args(n)' = Args(n) /\ Operand(n)' = Operand(n)
  BY SameProgram DEF EvaluatorInv
<1>2. released \in Seq(Nodes) /\ IsInjective(released) /\ node_live \subseteq Nodes
      /\ assemblies \subseteq Nodes /\ values = <<>> /\ Accepted
  BY DEF EvaluatorInv, EvaluatorTypeOK, OwnersApart, LoopHolds, Fanouts
<1>3. /\ IsFiniteSet(assemblies) /\ assemblies \subseteq Int
      /\ IsFiniteSet(live) /\ live \subseteq Int
      /\ node_index \in Int /\ Nodes \subseteq Int
  <2>1. IsFiniteSet(Nodes) /\ Nodes \subseteq Int
    BY <1>2, Arenas, FS_Interval
  <2>2. node_index \in Int
    BY <1>2, Arenas DEF EvaluatorInv, EvaluatorTypeOK
  <2>3. live \in SUBSET Nodes /\ assemblies \in SUBSET Nodes
    BY <1>2
  <2>4. IsFiniteSet(live) /\ IsFiniteSet(assemblies)
    BY <2>1, <2>3, FS_Subset
  <2> QED BY <2>1, <2>2, <2>3, <2>4
<1>4. /\ tables \in Seq(Nodes) /\ ToSet(tables) = assemblies /\ IsInjective(tables)
      /\ slots \in Seq(Nodes) /\ ToSet(slots) = live /\ IsInjective(slots)
  <2>1. /\ tables \in Seq(assemblies) /\ ToSet(tables) = assemblies /\ IsInjective(tables)
        /\ slots \in Seq(live) /\ ToSet(slots) = live /\ IsInjective(slots)
    BY <1>3, DescendingEnumerates
  <2>2. Seq(assemblies) \subseteq Seq(Nodes) /\ Seq(live) \subseteq Seq(Nodes)
    BY <1>2
  <2> QED BY <2>1, <2>2
<1> HIDE DEF tables, slots
<1>5. /\ \A n \in Nodes : n \in node_live => /\ n < node_index /\ n \notin assemblies
                                              /\ n \notin ToSet(released)
      /\ \A n \in assemblies : n >= node_index /\ n \notin ToSet(released)
  <2>1. /\ \A n \in node_live : n < node_index
        /\ \A n \in assemblies : node_index <= n
    BY DEF EvaluatorInv, LoopHolds, EvaluatorTypeOK
  <2>2. \A n \in Nodes : n \in node_live \/ n \in assemblies => n \notin ToSet(released)
    BY DEF EvaluatorInv, OwnersApart
  <2>3. \A n \in Nodes : n < node_index => ~ node_index <= n
    BY <1>3
  <2>4. \A n \in Nodes : node_index <= n => n >= node_index
    BY <1>3
  <2> QED BY <1>2, <2>1, <2>2, <2>3, <2>4
<1>5a. \A n \in fresh : n \in Nodes /\ n \notin ToSet(released) /\ n \notin assemblies
                        /\ n \notin node_live /\ ~Moved(n)
  <2>1. ASSUME NEW n \in fresh
        PROVE  n \notin ToSet(released) /\ n \notin node_live /\ ~Moved(n)
    <3>1. n \in Nodes /\ n = node_index /\ ~ n < node_index
      BY <1>3
    <3>2. n \notin ToSet(released) /\ n \notin node_live
      BY <3>1 DEF EvaluatorInv, LoopHolds
    <3> QED BY <3>1, <3>2, MovedIsMade DEF EvaluatorInv
  <2> QED BY <2>1
<1>6. /\ before \in Seq(Nodes) /\ IsInjective(before)
      /\ ToSet(before) = ToSet(released) \cup ToSet(first) \cup assemblies
  <2>1. ToSet(released) \cap ToSet(first) = {}
    BY <1>2, <1>5, <1>5a
  <2>2. /\ start \in Seq(Nodes) /\ IsInjective(start)
        /\ ToSet(start) = ToSet(released) \cup ToSet(first)
    BY <1>2, <2>1, JoinedLogs
  <2> HIDE DEF start
  <2>3. ToSet(start) \cap ToSet(tables) = {}
    BY <1>2, <1>4, <1>5, <1>5a, <2>2
  <2> QED BY <1>4, <2>2, <2>3, JoinedLogs
<1>7. /\ released' = before \o slots
      /\ node_live' = {} /\ assemblies' = {} /\ status' = outcome
      /\ node_index' = node_index /\ values' = values /\ inside' = inside
  <2>1. released' = start \o (tables \o slots)
    BY DEF Fail, ReleaseExecutionState, tables, slots
  <2>2. start \in Seq(Nodes)
    BY <1>2
  <2> HIDE DEF start
  <2>3. start \o (tables \o slots) = before \o slots
    <3>1. tables \in Seq(Nodes) /\ slots \in Seq(Nodes)
      BY <1>4
    <3> HIDE DEF before
    <3>2. start \o (tables \o slots) = (start \o tables) \o slots
      BY ONLY <2>2, <3>1, LogsAssociate
    <3> QED BY <3>2 DEF before
  <2>4. released' = before \o slots
    BY <2>1, <2>3
  <2> HIDE DEF before
  <2> QED BY <2>4 DEF Fail
<1> HIDE DEF before
<1>8. /\ released' \in Seq(Nodes) /\ IsInjective(released')
      /\ ToSet(released') = ToSet(released) \cup ToSet(first) \cup node_live \cup assemblies
  <2>1. ToSet(before) \cap ToSet(slots) = {}
    BY <1>2, <1>4, <1>5, <1>6
  <2>2. /\ before \o slots \in Seq(Nodes) /\ IsInjective(before \o slots)
        /\ ToSet(before \o slots) = ToSet(before) \cup ToSet(slots)
    BY <1>4, <1>6, <2>1, JoinedLogs
  <2> QED BY <1>4, <1>6, <1>7, <2>2
<1>9. /\ \A n \in Nodes : Moved(n)' <=> Moved(n)
      /\ \A n \in Nodes : Owned(n) => Owned(n)'
  BY <1>1, <1>2, <1>7, <1>8 DEF Moved, Owned
<1>10. InsideHolds'
  <2>1. Parts(inside) /\ \A c \in Nodes : inside[c] # <<>> => Owned(c)
    BY DEF EvaluatorInv, InsideHolds
  <2>2. Parts(inside)'
    BY <1>1, <1>7, <2>1 DEF Parts
  <2> QED BY <1>1, <1>7, <1>9, <2>1, <2>2 DEF InsideHolds
<1>11. OwnersApart'
  <2>1. \A n \in Nodes : Moved(n) => n \notin node_live /\ n \notin assemblies
                                       /\ n \notin ToSet(released)
    BY DEF EvaluatorInv, OwnersApart
  <2>2. \A n \in Nodes : n < node_index => Owned(n)
    BY DEF EvaluatorInv, OwnersApart
  <2>3. values' \in Seq(Nodes) /\ IsInjective(values') /\ ToSet(values') = {}
    BY <1>2, <1>7 DEF ToSet, IsInjective
  <2>4. \A n \in Nodes :
          /\ Moved(n)' => n \notin ToSet(released')
          /\ n < node_index' => Owned(n)'
    BY <1>7, <1>8, <1>9, <1>5a, <2>1, <2>2
  <2> QED BY <1>1, <1>7, <1>8, <2>3, <2>4 DEF OwnersApart
<1>12. EvaluatorTypeOK'
  <2>1. program' = program
    OBVIOUS
  <2> QED BY <1>1, <1>2, <1>7, <1>8, <2>1 DEF EvaluatorInv, EvaluatorTypeOK
<1>13. OperandOutlivesTable'
  <2>1. SUFFICES ASSUME NEW f \in Fanouts,
                        NEW i \in DOMAIN released', NEW j \in DOMAIN released',
                        released'[i] = f, released'[j] = Operand(f),
                        node_index \in Operand(f) + 1 .. f
                 PROVE  i < j
    BY <1>1, <1>7 DEF OperandOutlivesTable
  <2>2. /\ f \in Nodes /\ Operand(f) \in Nodes /\ f \in Int /\ Operand(f) \in Int
        /\ Operand(f) < node_index /\ node_index <= f
    <3>1. f \in Nodes /\ Operand(f) \in Nodes
      BY <1>2, FanoutFacts
    <3>2. f \in Int /\ Operand(f) \in Int
      BY <1>3, <3>1
    <3> QED BY <1>3, <2>1, <3>1, <3>2
  <2>3. UsesLeft(Operand(f), node_index) # 0
    BY <1>2, <1>3, <2>2, OperandInUse
  <2>4. Operand(f) \in node_live
    BY <2>2, <2>3 DEF EvaluatorInv, LoopHolds
  <2>5. Operand(f) \notin ToSet(before)
    BY <1>2, <1>5, <1>6, <2>2, <2>4
  <2>6. f \notin ToSet(slots)
    <3>1. ~ f < node_index
      BY <1>3, <2>2
    <3> QED BY <1>4, <1>5, <2>2, <3>1
  <2> QED BY <1>4, <1>6, <1>7, <2>1, <2>5, <2>6, JoinedOrder
<1>14. status' = "internal" => Irregular'
  BY <1>7, SameIrregularities
<1> QED BY <1>1, <1>2, <1>7, <1>10, <1>11, <1>12, <1>13, <1>14 DEF EvaluatorInv

\* A failure that finds everything in its slot.
LEMMA BareFailure ==
  ASSUME EvaluatorInv, status = "running",
         NEW outcome \in {"failed", "internal"}, outcome = "internal" => Irregular,
         Fail(outcome, <<>>, node_live),
         UNCHANGED <<program, fault, inside, remaining_uses>>
  PROVE  EvaluatorInv'
<1> DEFINE fresh == {}
<1>1. <<>> \in Seq(Nodes) /\ IsInjective(<<>>) /\ ToSet(<<>>) = {}
  BY EmptyLog
<1>2. /\ node_live = node_live \ ToSet(<<>>) /\ ToSet(<<>>) \subseteq node_live \cup fresh
      /\ \A f \in Fanouts : Operand(f) \notin ToSet(<<>>)
  BY <1>1
<1>3. remaining_uses' \in [Nodes -> Nat]
  BY LoopFacts
<1>4. fresh \in SUBSET Nodes /\ \A n \in fresh : n = node_index /\ n \notin assemblies
  OBVIOUS
<1> HIDE DEF fresh
<1> QED BY <1>1, <1>2, <1>3, <1>4, FailureReleasesAll

\* A failure that releases some of the live values first.
LEMMA FailureOfLive ==
  ASSUME EvaluatorInv, status = "running",
         NEW outcome \in {"failed", "internal"}, outcome = "internal" => Irregular,
         NEW first \in Seq(Nodes), IsInjective(first), ToSet(first) \subseteq node_live,
         \A f \in Fanouts : Operand(f) \notin ToSet(first),
         NEW live, live = node_live \ ToSet(first),
         Fail(outcome, first, live),
         remaining_uses' \in [Nodes -> Nat],
         UNCHANGED <<program, fault, inside>>
  PROVE  EvaluatorInv'
<1> DEFINE fresh == {}
<1>1. /\ fresh \in SUBSET Nodes /\ \A n \in fresh : n = node_index /\ n \notin assemblies
      /\ ToSet(first) \subseteq node_live \cup fresh
  OBVIOUS
<1> HIDE DEF fresh
<1> QED BY <1>1, FailureReleasesAll

LEMMA StartKeeps ==
  ASSUME EvaluatorInv, UNCHANGED <<program, fault>>, Start
  PROVE  EvaluatorInv'
<1>1. /\ status = "idle" /\ status' \in {"running", "failed"}
      /\ UNCHANGED <<program, fault, node_index, remaining_uses, node_live, assemblies,
                     inside, values, released>>
  BY DEF Start
<1>2. node_index = 1 /\ LoopHolds /\ Accepted /\ EvaluatorTypeOK /\ InsideHolds /\ OwnersApart
  BY <1>1 DEF EvaluatorInv
<1>3. /\ Accepted' /\ EvaluatorTypeOK' /\ InsideHolds' /\ OwnersApart' /\ LoopHolds'
  <2>1. /\ Nodes' = Nodes /\ Fanouts' = Fanouts /\ Accepted'
        /\ \A n : Kind(n)' = Kind(n) /\ Args(n)' = Args(n) /\ Operand(n)' = Operand(n)
        /\ \A n, k : UsesLeft(n, k)' = UsesLeft(n, k)
        /\ \A box : Parts(box)' <=> Parts(box)
        /\ \A box, k : Filled(box, k)' <=> Filled(box, k)
    BY <1>2, SameProgram
  <2>2. EvaluatorTypeOK'
    BY <1>1, <1>2, <2>1 DEF EvaluatorTypeOK
  <2>3. \A n : (Moved(n)' <=> Moved(n)) /\ (Owned(n)' <=> Owned(n))
    BY <1>1, <2>1 DEF Moved, Owned
  <2>4. InsideHolds'
    BY <1>1, <1>2, <2>1, <2>3 DEF InsideHolds
  <2>5. OwnersApart'
    BY <1>1, <1>2, <2>1, <2>3 DEF OwnersApart
  <2>6. LoopHolds'
    BY <1>1, <1>2, <2>1 DEF LoopHolds
  <2> QED BY <2>1, <2>2, <2>4, <2>5, <2>6
<1>4. node_live = {} /\ assemblies = {} /\ values = <<>>
  <2>1. \A n \in Nodes : ~ n < 1 /\ n \in Int
    BY <1>2, Arenas
  <2>2. \A f \in Fanouts : Operand(f) \in Nodes
    BY <1>2, FanoutFacts
  <2> QED BY <1>2, <2>1, <2>2 DEF LoopHolds, EvaluatorTypeOK
<1>5. OperandOutlivesTable'
  <2>1. ToSet(released) = {}
    <3>1. \A n \in ToSet(released) : n \in Nodes /\ n < 1
      BY <1>2 DEF LoopHolds, OwnersApart, ToSet
    <3>2. \A n \in Nodes : ~ n < 1
      BY <1>2, Arenas
    <3> QED BY <3>1, <3>2
  <2> QED BY <1>1, <2>1 DEF OperandOutlivesTable, ToSet
<1> QED BY <1>1, <1>2, <1>3, <1>4, <1>5 DEF EvaluatorInv

LEMMA AdmitFanoutKeeps ==
  ASSUME EvaluatorInv, UNCHANGED <<program, fault>>, NEW f \in Fanouts, AdmitFanout(f)
  PROVE  EvaluatorInv'
<1>1. status = "running" /\ Operand(f) + 1 = node_index /\ f \notin assemblies
      /\ UNCHANGED <<remaining_uses, inside>>
  BY DEF AdmitFanout, AdmittedBefore
<1>2. CASE ~Succeeds(<<"admit", f>>)
  <2>1. Fail("failed", <<>>, node_live)
    BY <1>2 DEF AdmitFanout
  <2> QED BY <1>1, <2>1, BareFailure
<1>3. CASE Succeeds(<<"admit", f>>)
  <2>1. assemblies' = assemblies \cup {f}
        /\ UNCHANGED <<node_index, node_live, values, released, status>>
    BY <1>3 DEF AdmitFanout
  <2>2. Accepted /\ EvaluatorTypeOK /\ InsideHolds /\ OwnersApart /\ LoopHolds
    BY <1>1 DEF EvaluatorInv
  <2>3. /\ Nodes' = Nodes /\ Fanouts' = Fanouts /\ Accepted'
        /\ \A n : Kind(n)' = Kind(n) /\ Args(n)' = Args(n) /\ Operand(n)' = Operand(n)
        /\ \A n, k : UsesLeft(n, k)' = UsesLeft(n, k)
        /\ \A box : Parts(box)' <=> Parts(box)
        /\ \A box, k : Filled(box, k)' <=> Filled(box, k)
    BY <2>2, SameProgram
  <2>4. /\ f \in Nodes /\ f \in Int /\ Operand(f) \in Int /\ node_index \in Int
        /\ Operand(f) < f
    BY <1>1, <2>2, FanoutFacts, LoopFacts
  <2>5. /\ Operand(f) < node_index /\ node_index <= f /\ ~ f < node_index
    BY <1>1, <2>4
  <2>6. ~Moved(f) /\ f \notin ToSet(values) /\ f \notin ToSet(released)
    <3>1. f \notin ToSet(released) /\ f \notin ToSet(values)
      BY <2>2, <2>5 DEF LoopHolds, ToSet
    <3>2. ~Moved(f)
      BY <1>1, <2>4, <2>5, MovedIsMade
    <3> QED BY <3>1, <3>2
  <2>7. \A n : (Moved(n)' <=> Moved(n)) /\ (Owned(n) => Owned(n)')
    BY <1>1, <2>1, <2>3 DEF Moved, Owned
  <2>8. EvaluatorTypeOK'
    BY <1>1, <2>1, <2>2, <2>3 DEF EvaluatorTypeOK
  <2>9. InsideHolds'
    BY <1>1, <2>2, <2>3, <2>7 DEF InsideHolds
  <2>10. OwnersApart'
    BY <1>1, <2>1, <2>2, <2>3, <2>6, <2>7 DEF OwnersApart
  <2>11. LoopHolds'
    BY <1>1, <2>1, <2>2, <2>3, <2>5 DEF LoopHolds
  <2>12. OperandOutlivesTable'
    BY <1>1, <2>1 DEF OperandOutlivesTable
  <2> QED BY <1>1, <2>1, <2>3, <2>8, <2>9, <2>10, <2>11, <2>12 DEF EvaluatorInv
<1> QED BY <1>2, <1>3

LEMMA EvaluateScalarKeeps ==
  ASSUME EvaluatorInv, UNCHANGED <<program, fault>>, NEW n \in Nodes, EvaluateScalar(n)
  PROVE  EvaluatorInv'
<1>1. /\ AtNode(n, "scalar") /\ Store(n, remaining_uses, node_live, <<>>)
      /\ UNCHANGED <<assemblies, inside, values, status>>
  BY DEF EvaluateScalar
<1>2. Kind(n) = "scalar"
  BY <1>1 DEF AtNode
<1> QED BY <1>1, <1>2, LeafStored

LEMMA EvaluateVectorKeeps ==
  ASSUME EvaluatorInv, UNCHANGED <<program, fault>>, NEW n \in Nodes, EvaluateVector(n)
  PROVE  EvaluatorInv'
<1>1. AtNode(n, "vector") /\ UNCHANGED inside
  BY DEF EvaluateVector
<1>2. Kind(n) = "vector" /\ status = "running"
  BY <1>1 DEF AtNode
<1>3. CASE Succeeds(<<"node", n>>)
  <2>1. /\ Store(n, remaining_uses, node_live, <<>>)
        /\ UNCHANGED <<assemblies, values, status>>
    BY <1>3 DEF EvaluateVector
  <2> QED BY <1>1, <1>2, <2>1, LeafStored
<1>4. CASE ~Succeeds(<<"node", n>>)
  <2>1. Fail("failed", <<>>, node_live) /\ UNCHANGED remaining_uses
    BY <1>4 DEF EvaluateVector
  <2> QED BY <1>1, <1>2, <2>1, BareFailure
<1> QED BY <1>3, <1>4

LEMMA EvaluatePlaceholderKeeps ==
  ASSUME EvaluatorInv, UNCHANGED <<program, fault>>, NEW k \in Nodes,
         EvaluatePlaceholder(k)
  PROVE  EvaluatorInv'
<1>1. /\ status = "running" /\ k = node_index /\ Kind(k) = "placeholder"
      /\ AdmittedBefore(k) \subseteq assemblies
      /\ node_live' = node_live \cup {k} /\ node_index' = k + 1
      /\ UNCHANGED <<remaining_uses, assemblies, inside, values, released, status>>
  BY DEF EvaluatePlaceholder, AtNode
<1>2. /\ Accepted /\ Nodes \subseteq Int /\ k \in Int
      /\ remaining_uses = [n \in Nodes |-> UsesLeft(n, k)]
      /\ node_live = {n \in Nodes : n < k /\ UsesLeft(n, k) # 0}
      /\ inside \in [Nodes -> Seq(Nodes)] /\ Parts(inside) /\ Filled(inside, k)
      /\ assemblies \subseteq Fanouts
  BY <1>1, LoopFacts
<1>3. released \in Seq(Nodes)
  BY DEF EvaluatorInv, OwnersApart
<1>4. /\ [n \in Nodes |-> UsesLeft(n, k + 1)] = [n \in Nodes |-> UsesLeft(n, k)]
      /\ BranchPositions(k) = {}
  BY <1>1, <1>2, LeafUses
<1>5. \A n \in Nodes : UsesLeft(n, k + 1) = UsesLeft(n, k)
  <2> DEFINE g == [n \in Nodes |-> UsesLeft(n, k + 1)]
             h == [n \in Nodes |-> UsesLeft(n, k)]
  <2>1. \A n \in Nodes : g[n] = UsesLeft(n, k + 1) /\ h[n] = UsesLeft(n, k)
    OBVIOUS
  <2> QED BY <1>4, <2>1
<1>6. UsesLeft(k, k + 1) # 0
  BY <1>1, <1>2, UsesFound
<1>7. node_live' = {n \in Nodes : n < k + 1 /\ UsesLeft(n, k + 1) # 0}
  <2>1. \A n \in Nodes : n < k + 1 <=> n < k \/ n = k
    BY <1>2
  <2> QED BY <1>1, <1>2, <1>5, <1>6, <2>1
<1>8. k \notin assemblies /\ assemblies' = assemblies \ {k}
  BY <1>1, <1>2 DEF Fanouts
<1> DEFINE taken == {}
           added == <<>>
<1>9. Moves(k, taken, inside')
  BY <1>1, <1>2, <1>4, NothingMoves
<1>10. /\ taken \in SUBSET Nodes
       /\ \A n \in taken : (n \in node_live \/ n = k) /\ UsesLeft(n, k + 1) = 0
  OBVIOUS
<1>11. /\ added \in Seq(Nodes) /\ IsInjective(added) /\ ToSet(added) = {}
       /\ released' = released \o added
  BY <1>1, <1>3, Singletons, ConcatEmptySeq
<1>12. ToSet(added) = {n \in Nodes : /\ n \in node_live \/ n = k
                                    /\ UsesLeft(n, k + 1) = 0
                                    /\ n \notin taken}
  BY <1>2, <1>5, <1>6, <1>11
<1>13. remaining_uses' = [n \in Nodes |-> UsesLeft(n, k + 1)]
  BY <1>1, <1>2, <1>4
<1> HIDE DEF taken, added
<1> QED BY <1>1, <1>7, <1>8, <1>9, <1>10, <1>11, <1>12, <1>13, IterationKeepsInvariant

LEMMA EvaluateTupleKeeps ==
  ASSUME EvaluatorInv, UNCHANGED <<program, fault>>, NEW k \in Nodes, EvaluateTuple(k)
  PROVE  EvaluatorInv'
<1> DEFINE uses == UsesAfter(remaining_uses, Args(k))
           live == node_live \ ToSet(Args(k))
           taken == ToSet(Args(k))
           box == inside
           after == [box EXCEPT ![k] = Args(k)]
<1>1. /\ status = "running" /\ k = node_index /\ Kind(k) = "tuple"
      /\ AdmittedBefore(k) \subseteq assemblies
  BY DEF EvaluateTuple, AtNode
<1>2. /\ Accepted /\ Nodes \subseteq Int /\ k \in Int
      /\ remaining_uses = [n \in Nodes |-> UsesLeft(n, k)]
      /\ node_live = {n \in Nodes : n < k /\ UsesLeft(n, k) # 0}
      /\ inside \in [Nodes -> Seq(Nodes)] /\ Parts(inside) /\ Filled(inside, k)
      /\ assemblies \subseteq Fanouts
  BY <1>1, LoopFacts
<1>3. /\ Args(k) \in Seq(Nodes)
      /\ \A i \in DOMAIN Args(k) : /\ Args(k)[i] \in Nodes /\ Args(k)[i] < k
                                   /\ UsesLeft(Args(k)[i], k) = 1
                                   /\ \A j \in DOMAIN Args(k) :
                                        Args(k)[j] = Args(k)[i] => j = i
  BY <1>1, <1>2, Arenas, UsesFound
<1>4. IsInjective(Args(k))
  BY <1>3 DEF IsInjective
<1>5. /\ taken \subseteq node_live
      /\ \A n \in taken : UsesLeft(n, k) = 1 /\ n \in Nodes /\ n # k
  BY <1>2, <1>3 DEF ToSet
<1>6. Movable(Args(k)) = Args(k)
  <2>1. \A i \in DOMAIN Args(k) : Args(k)[i] \in node_live /\ remaining_uses[Args(k)[i]] = 1
    BY <1>2, <1>3
  <2> QED BY <1>3, <1>4, <2>1, AllMovable
<1>7. /\ uses \in [Nodes -> Nat]
      /\ uses = [n \in Nodes |-> UsesLeft(n, k + 1)]
  <2>1. BranchPositions(k) = {}
    BY <1>1, <1>2, BranchFacts
  <2> QED BY <1>1, <1>2, <2>1, UsesCounted
<1>8. \A n \in Nodes : UsesLeft(n, k + 1) = UsesLeft(n, k) - Occurrences(Args(k), n)
  BY <1>1, <1>2, BranchFacts, UsesStep
<1>9. \A n \in taken : UsesLeft(n, k + 1) = 0
  <2>1. ASSUME NEW n \in taken
        PROVE  UsesLeft(n, k + 1) = 0
    <3>1. Occurrences(Args(k), n) \in Nat /\ Occurrences(Args(k), n) # 0
      BY <1>2, <1>5, PositionsOfNode
    <3>2. UsesLeft(n, k + 1) = 1 - Occurrences(Args(k), n) /\ UsesLeft(n, k + 1) \in Nat
      BY <1>2, <1>5, <1>8, UsesShrink
    <3> QED BY <3>1, <3>2
  <2> QED BY <2>1
<1>10. \A n \in node_live \ taken : UsesLeft(n, k + 1) # 0
  <2>1. ASSUME NEW n \in node_live, n \notin taken
        PROVE  UsesLeft(n, k + 1) # 0
    <3>1. Occurrences(Args(k), n) = 0
      BY <1>2, <2>1, PositionsOfNode
    <3> QED BY <1>2, <1>8, <3>1, UsesShrink
  <2> QED BY <2>1
<1>11. \/ /\ inside' = after
          /\ Store(k, uses, live, <<>>)
          /\ UNCHANGED <<assemblies, values, status>>
       \/ \E outcome \in {"failed", "internal"} :
            /\ outcome = "internal" => Irregular
            /\ Fail(outcome, Reverse(Args(k)), live)
            /\ remaining_uses' = uses
            /\ UNCHANGED inside
  <2> DEFINE valid == \A i \in DOMAIN Args(k) : ~IllFormed(Args(k)[i])
             outcome == IF valid THEN "failed" ELSE "internal"
  <2>1. \/ /\ inside' = after
           /\ Store(k, uses, live, <<>>)
           /\ UNCHANGED <<assemblies, values, status>>
        \/ /\ Fail(outcome, Reverse(Args(k)), live)
           /\ remaining_uses' = uses
           /\ UNCHANGED inside
    BY <1>6 DEF EvaluateTuple
  <2>2. ~valid => Irregular
    BY <1>3 DEF Irregular, IllFormed, Fanouts
  <2>3. outcome \in {"failed", "internal"} /\ (outcome = "internal" => Irregular)
    BY <2>2
  <2> HIDE DEF outcome
  <2> QED BY <2>1, <2>3
<1>12. CASE /\ inside' = after
            /\ Store(k, uses, live, <<>>)
            /\ UNCHANGED <<assemblies, values, status>>
  <2>1. Moves(k, taken, inside')
    BY <1>1, <1>2, <1>12, ElementsMove
  <2>2. k \notin assemblies /\ assemblies' = assemblies \ {k}
    BY <1>1, <1>2, <1>12 DEF Fanouts
  <2>3. <<>> \in Seq(Nodes) /\ IsInjective(<<>>) /\ ToSet(<<>>) = {}
    BY EmptyLog
  <2>4. live = {n \in node_live : UsesLeft(n, k + 1) # 0}
    BY <1>9, <1>10
  <2>5. ToSet(<<>>) = {n \in node_live : UsesLeft(n, k + 1) = 0 /\ n \notin taken}
    BY <1>10, <2>3
  <2>6. taken \in SUBSET node_live
    BY <1>5
  <2> HIDE DEF taken, live, uses, after, box
  <2> QED BY <1>1, <1>7, <1>9, <1>12, <2>1, <2>2, <2>3, <2>4, <2>5, <2>6,
             StoreKeepsInvariant
<1>13. ASSUME NEW outcome \in {"failed", "internal"},
              outcome = "internal" => Irregular,
              Fail(outcome, Reverse(Args(k)), live),
              remaining_uses' = uses,
              UNCHANGED inside
       PROVE  EvaluatorInv'
  <2> DEFINE first == Reverse(Args(k))
  <2>1. first \in Seq(Nodes) /\ ToSet(first) = taken /\ IsInjective(first)
    BY <1>3, <1>4, ReverseProperties
  <2>2. \A f \in Fanouts : Operand(f) \notin ToSet(first)
    <3>1. \A i \in DOMAIN Args(k) : <<k, i>> \in OwnedPositions(program, Args(k)[i])
      BY <1>2, <1>3, Positions
    <3> QED BY <1>2, <2>1, <3>1, FanoutFacts DEF ToSet
  <2>3. live = node_live \ ToSet(first) /\ ToSet(first) \subseteq node_live
    BY <1>5, <2>1
  <2>4. remaining_uses' \in [Nodes -> Nat]
    BY <1>7, <1>13
  <2> HIDE DEF first, live, taken, uses
  <2>5. Fail(outcome, first, live) /\ UNCHANGED inside
    BY <1>13 DEF first
  <2> QED BY <1>1, <1>13, <2>1, <2>2, <2>3, <2>4, <2>5, FailureOfLive
<1> QED BY <1>11, <1>12, <1>13

LEMMA EvaluateFanoutKeeps ==
  ASSUME EvaluatorInv, UNCHANGED <<program, fault>>, NEW k \in Nodes, EvaluateFanout(k)
  PROVE  EvaluatorInv'
<1> DEFINE operand == Operand(k)
           uses == [remaining_uses EXCEPT ![operand] = IF @ # 0 THEN @ - 1 ELSE 0]
           dropped == IF operand \in node_live THEN <<operand>> ELSE <<>>
           live == node_live \ {operand}
           taken == {}
<1>1. /\ status = "running" /\ k = node_index /\ Kind(k) = "fanout"
      /\ AdmittedBefore(k) \subseteq assemblies
  BY DEF EvaluateFanout, AtNode
<1>2. /\ Accepted /\ Nodes \subseteq Int /\ k \in Int
      /\ remaining_uses = [n \in Nodes |-> UsesLeft(n, k)]
      /\ node_live = {n \in Nodes : n < k /\ UsesLeft(n, k) # 0}
      /\ inside \in [Nodes -> Seq(Nodes)] /\ Parts(inside) /\ Filled(inside, k)
      /\ assemblies \subseteq Fanouts
      /\ Operand(k) + 1 < k /\ k <= k => k \in assemblies
  <2>1. k \in Fanouts
    BY <1>1 DEF Fanouts
  <2> QED BY <1>1, <2>1, LoopFacts
<1>3. k \in Fanouts /\ operand \in Nodes /\ operand < k /\ operand \in Int
  <2>1. k \in Fanouts
    BY <1>1 DEF Fanouts
  <2> QED BY <1>2, <2>1, FanoutFacts
<1>4. k \in assemblies
  <2>1. operand + 1 = k => k \in AdmittedBefore(k)
    BY <1>3 DEF AdmittedBefore
  <2>2. operand + 1 = k \/ (operand + 1 < k /\ k <= k)
    BY <1>2, <1>3
  <2> QED BY <1>1, <1>2, <2>1, <2>2
<1>5. inside[k] = Args(k)
  <2>1. /\ inside[k] \in Seq(Nodes) /\ Len(inside[k]) <= Len(Args(k))
        /\ \A i \in 1 .. Len(inside[k]) : inside[k][i] = Args(k)[i]
    BY <1>2 DEF Parts
  <2>2. Args(k) \in Seq(Nodes) /\ Len(Args(k)) \in Nat /\ DOMAIN Args(k) = 1 .. Len(Args(k))
    BY <1>2, Arenas
  <2>3. Len(inside[k]) \in Nat
    BY <2>1, LenProperties
  <2>4. Len(inside[k]) = Len(Args(k))
    <3>1. CASE Len(Args(k)) = 0
      BY <2>1, <2>3, <3>1
    <3>2. CASE Len(Args(k)) # 0
      <4>1. Len(Args(k)) \in DOMAIN Args(k)
        BY <2>2, <3>2
      <4>2. Args(k)[Len(Args(k))] < k
        BY <1>2, <4>1, Arenas
      <4>3. Len(Args(k)) <= Len(inside[k])
        BY <1>1, <1>2, <4>1, <4>2 DEF Filled
      <4> QED BY <2>1, <2>2, <2>3, <4>3
    <3> QED BY <3>1, <3>2
  <2> QED BY <2>1, <2>2, <2>4, SeqEqual
<1>6. UsesLeft(operand, k) = 1 /\ operand \in node_live
  BY <1>1, <1>2, <1>3, UsesFound
<1>7. \A n \in Nodes : UsesLeft(n, k + 1) = IF n = operand THEN 0 ELSE UsesLeft(n, k)
  BY <1>1, <1>2, BranchFacts, UsesStep
<1>8. uses = [n \in Nodes |-> UsesLeft(n, k + 1)]
  <2>1. remaining_uses[operand] = 1
    BY <1>2, <1>3, <1>6
  <2>2. uses = [remaining_uses EXCEPT ![operand] = 0]
    BY <2>1
  <2> HIDE DEF uses, operand
  <2> QED BY <1>2, <1>3, <1>7, <2>2
<1>9. /\ assemblies' = assemblies \ {k}
      /\ Store(k, uses, live, <<operand>>)
      /\ UNCHANGED <<values, status, inside>>
  BY <1>4, <1>5, <1>6 DEF EvaluateFanout
<1>10. BranchPositions(k) = {}
  BY <1>1, <1>2, BranchFacts
<1>11. Moves(k, taken, inside')
  BY <1>1, <1>2, <1>9, <1>10, NothingMoves
<1>12. <<operand>> \in Seq(Nodes) /\ IsInjective(<<operand>>) /\ ToSet(<<operand>>) = {operand}
  BY <1>3, Singletons
<1>13. live = {n \in node_live : UsesLeft(n, k + 1) # 0}
  BY <1>2, <1>7
<1>14. /\ ToSet(<<operand>>) = {n \in node_live : UsesLeft(n, k + 1) = 0 /\ n \notin taken}
       /\ taken \in SUBSET node_live /\ \A n \in taken : UsesLeft(n, k + 1) = 0
  BY <1>2, <1>6, <1>7, <1>12
<1> DEFINE first == <<operand>>
<1> HIDE DEF taken, live, uses, operand
<1>15. /\ first \in Seq(Nodes) /\ IsInjective(first) /\ Store(k, uses, live, first)
       /\ ToSet(first) = {n \in node_live : UsesLeft(n, k + 1) = 0 /\ n \notin taken}
  BY <1>9, <1>12, <1>14
<1> HIDE DEF first
<1> QED BY <1>1, <1>8, <1>9, <1>11, <1>13, <1>14, <1>15, StoreKeepsInvariant

LEMMA EvaluateCallKeeps ==
  ASSUME EvaluatorInv, UNCHANGED <<program, fault>>, NEW k \in Nodes, EvaluateCall(k)
  PROVE  EvaluatorInv'
<1> DEFINE args == Args(k)
           used == UsesAfter(remaining_uses, args)
           final == FinalUses(used, args)
           live == node_live \ ToSet(final)
           present == \A i \in DOMAIN args : /\ OwnerOf(args[i]) \in node_live
                                             /\ remaining_uses[args[i]] # 0
           overfull == \E e \in BranchPositions(k) : Overfills(e[1], e[2])
           inOrder == \A e \in BranchPositions(k) : /\ e[1] \in assemblies
                                                    /\ e[2] = Len(inside[e[1]]) + 1
                                                    /\ used[k] = 1
<1>1. /\ status = "running" /\ k = node_index /\ Kind(k) = "call"
      /\ AdmittedBefore(k) \subseteq assemblies
  BY DEF EvaluateCall, AtNode
<1>2. /\ Accepted /\ Nodes \subseteq Int /\ k \in Int
      /\ remaining_uses = [n \in Nodes |-> UsesLeft(n, k)]
      /\ node_live = {n \in Nodes : n < k /\ UsesLeft(n, k) # 0}
      /\ inside \in [Nodes -> Seq(Nodes)] /\ Parts(inside) /\ Filled(inside, k)
      /\ assemblies \subseteq Fanouts
      /\ \A f \in Fanouts : Operand(f) + 1 < k /\ k <= f => f \in assemblies
  BY <1>1, LoopFacts
<1>3. /\ args \in Seq(Nodes)
      /\ \A i \in DOMAIN args :
           /\ args[i] \in Nodes /\ args[i] < k
           /\ UsesLeft(args[i], k) >= Occurrences(args, args[i])
           /\ Occurrences(args, args[i]) > 0 /\ Occurrences(args, args[i]) \in Nat
           /\ UsesLeft(args[i], k) \in Nat
           /\ Kind(args[i]) = "placeholder" =>
                /\ Operand(args[i]) \in Nodes /\ Operand(args[i]) < k
                /\ UsesLeft(Operand(args[i]), k) # 0
  BY <1>1, <1>2, Arenas, UsesFound, UsesShrink, PositionsOfNode
<1>4. \A i \in DOMAIN args : /\ remaining_uses[args[i]] = UsesLeft(args[i], k)
                             /\ UsesLeft(args[i], k) # 0
                             /\ args[i] \in node_live
  BY <1>2, <1>3
<1>5. present
  BY <1>2, <1>3, <1>4 DEF OwnerOf
<1>6. Completes(args)
  BY <1>3, <1>4, ConsumerCompletes
<1>7. /\ used \in [Nodes -> Nat]
      /\ \A n \in Nodes : n # k => used[n] = UsesLeft(n, k + 1)
      /\ BranchPositions(k) = {} => used = [n \in Nodes |-> UsesLeft(n, k + 1)]
      /\ BranchPositions(k) # {} =>
           /\ used[k] = 1
           /\ [used EXCEPT ![k] = 0] = [n \in Nodes |-> UsesLeft(n, k + 1)]
  BY <1>1, <1>2, UsesCounted
<1>8. inOrder
  <2>1. ASSUME NEW e \in BranchPositions(k)
        PROVE  e[1] \in assemblies /\ e[2] = Len(inside[e[1]]) + 1 /\ used[k] = 1
    <3>1. /\ e[1] \in Fanouts /\ e[2] \in DOMAIN Args(e[1])
          /\ Args(e[1])[e[2]] = k /\ k < e[1]
      BY <1>2, BranchFacts
    <3>2. Operand(e[1]) \in Nodes /\ k > Operand(e[1]) /\ e[1] \in Nodes
      BY <1>2, <3>1, FanoutFacts
    <3>3. Operand(e[1]) + 1 < k \/ Operand(e[1]) + 1 = k
      <4>1. Operand(e[1]) \in Int
        BY <1>2, <3>2
      <4> QED BY <1>2, <3>2, <4>1
    <3>4. k <= e[1]
      <4>1. e[1] \in Int
        BY <1>2, <3>2
      <4>2. \A m \in Int : k < m => k <= m
        BY <1>2
      <4> QED BY <3>1, <4>1, <4>2
    <3>5. e[1] \in assemblies
      <4>1. Operand(e[1]) + 1 = k => e[1] \in AdmittedBefore(k)
        BY <3>1 DEF AdmittedBefore
      <4> QED BY <1>1, <1>2, <3>1, <3>3, <3>4, <4>1
    <3>6. e[2] = Len(inside[e[1]]) + 1
      BY <1>2, BranchMoves
    <3> QED BY <1>7, <3>5, <3>6
  <2> QED BY <2>1
<1>9. /\ final \in Seq(Nodes) /\ IsInjective(final)
      /\ ToSet(final) = {x \in ToSet(args) : used[x] = 0 /\ ~RetainedRoot(x)}
  BY <1>3, FinalUsesOnce
<1>10. \A n \in ToSet(args) : n \in node_live /\ n \in Nodes /\ n # k
  BY <1>2, <1>3, <1>4 DEF ToSet
<1>11. ToSet(final) = {n \in node_live : UsesLeft(n, k + 1) = 0}
  <2>1. ASSUME NEW n \in ToSet(final)
        PROVE  n \in node_live /\ UsesLeft(n, k + 1) = 0
    BY <1>7, <1>9, <1>10
  <2>2. ASSUME NEW n \in node_live, UsesLeft(n, k + 1) = 0
        PROVE  n \in ToSet(final)
    <3>1. n \in Nodes /\ n < k /\ n # k /\ UsesLeft(n, k) # 0 /\ k + 1 \in Int
      BY <1>2
    <3>2. UsesLeft(n, k + 1) = UsesLeft(n, k) - Occurrences(args, n)
          /\ UsesLeft(n, k) \in Nat /\ Occurrences(args, n) \in Nat
      BY <1>1, <1>2, <3>1, UsesStep, UsesShrink, PositionsOfNode
    <3>3. Occurrences(args, n) # 0
      BY <2>2, <3>1, <3>2
    <3>4. n \in ToSet(args)
      BY <1>2, <3>1, <3>3, PositionsOfNode
    <3>5. ~RetainedRoot(n)
      BY <1>2, <2>2, <3>1, RootInUse DEF RetainedRoot
    <3>6. used[n] = 0
      BY <1>7, <2>2, <3>1
    <3> QED BY <1>9, <3>4, <3>5, <3>6
  <2> QED BY <2>1, <2>2
<1>12. live = {n \in node_live : UsesLeft(n, k + 1) # 0} /\ ToSet(final) \subseteq node_live
  BY <1>11
<1>13. k \notin assemblies /\ assemblies \ {k} = assemblies
  BY <1>1, <1>2 DEF Fanouts
<1>14. \/ /\ SpreadsInvalid(k) \/ (Spreads(k) /\ ~Succeeds(<<"node", k>>))
          /\ Fail("internal", <<>>, node_live)
          /\ UNCHANGED <<remaining_uses, inside>>
       \/ /\ Fail("failed", final, live)
          /\ remaining_uses' = used
          /\ UNCHANGED inside
       \/ /\ overfull
          /\ Fail("internal", final \o <<k>>, live)
          /\ remaining_uses' = used
          /\ UNCHANGED inside
       \/ /\ BranchPositions(k) = {}
          /\ Store(k, used, live, final)
          /\ UNCHANGED <<assemblies, inside, values, status>>
       \/ \E e \in BranchPositions(k) :
            /\ inside' = [inside EXCEPT ![e[1]] = Append(@, k)]
            /\ remaining_uses' = [used EXCEPT ![k] = 0]
            /\ node_live' = live
            /\ released' = released \o final
            /\ node_index' = k + 1
            /\ UNCHANGED <<assemblies, values, status>>
  BY <1>5, <1>6, <1>8 DEF EvaluateCall
<1>18. \A f \in Fanouts : Operand(f) \notin ToSet(final)
  <2>1. \A i \in DOMAIN args : <<k, i>> \in OwnedPositions(program, args[i])
    BY <1>2, <1>3, Positions
  <2>2. \A f \in Fanouts : Operand(f) \notin ToSet(args)
    BY <1>2, <2>1, FanoutFacts DEF ToSet
  <2> QED BY <1>9, <2>2
<1> HIDE DEF present, overfull, inOrder, args, used, final, live
<1>19. CASE /\ SpreadsInvalid(k) \/ (Spreads(k) /\ ~Succeeds(<<"node", k>>))
            /\ Fail("internal", <<>>, node_live)
            /\ UNCHANGED <<remaining_uses, inside>>
  <2>1. Irregular
    <3>1. CASE SpreadsInvalid(k)
      <4>1. 1 \in DOMAIN args
        BY <1>3, <3>1, LenProperties DEF SpreadsInvalid, Spreads, args
      <4>2. OwnerOf(args[1]) \in Nodes
        BY <1>3, <4>1 DEF OwnerOf
      <4>3. IllFormed(OwnerOf(args[1])) /\ Kind(OwnerOf(args[1])) = "fanout"
        BY <3>1 DEF SpreadsInvalid, IllFormed, args
      <4> QED BY <4>2, <4>3 DEF Irregular, Fanouts
    <3>2. CASE Spreads(k) /\ ~Succeeds(<<"node", k>>)
      BY <3>2 DEF Irregular, Succeeds
    <3> QED BY <1>19, <3>1, <3>2
  <2>2. "internal" \in {"failed", "internal"}
    OBVIOUS
  <2> QED BY <1>1, <1>19, <2>1, <2>2, BareFailure
<1>20. CASE /\ overfull
            /\ Fail("internal", final \o <<k>>, live)
            /\ remaining_uses' = used
            /\ UNCHANGED inside
  <2> DEFINE first == final \o <<k>>
             fresh == {k}
  <2>1. Irregular /\ "internal" \in {"failed", "internal"}
    BY <1>20 DEF Irregular, overfull
  <2>2. k \notin node_live /\ k \notin ToSet(final) /\ k \notin assemblies
    <3>1. k \notin node_live
      BY <1>2
    <3>2. k \notin assemblies
      BY <1>1, <1>2 DEF Fanouts
    <3> QED BY <1>12, <3>1, <3>2
  <2>3. /\ first \in Seq(Nodes) /\ IsInjective(first)
        /\ ToSet(first) = ToSet(final) \cup {k}
    <3> DEFINE last == <<k>>
    <3>1. last \in Seq(Nodes) /\ IsInjective(last) /\ ToSet(last) = {k}
      BY Singletons
    <3> HIDE DEF last
    <3>2. ToSet(final) \cap ToSet(last) = {}
      BY <2>2, <3>1
    <3>3. /\ final \o last \in Seq(Nodes) /\ IsInjective(final \o last)
          /\ ToSet(final \o last) = ToSet(final) \cup ToSet(last)
      BY <1>9, <3>1, <3>2, JoinedLogs
    <3> QED BY <3>1, <3>3 DEF last
  <2>4. \A f \in Fanouts : Operand(f) # k
    <3>1. PICK e \in BranchPositions(k) : TRUE
      BY <1>20 DEF overfull
    <3>2. e \in OwnedPositions(program, k)
      BY <3>1 DEF BranchPositions
    <3> QED BY <1>2, <3>2, FanoutFacts
  <2>5. /\ fresh \in SUBSET Nodes
        /\ \A n \in fresh : n = node_index /\ n \notin assemblies
        /\ ToSet(first) \subseteq node_live \cup fresh
        /\ live = node_live \ ToSet(first)
        /\ \A f \in Fanouts : Operand(f) \notin ToSet(first)
    BY <1>1, <1>12, <1>18, <2>2, <2>3, <2>4 DEF live
  <2>6. remaining_uses' \in [Nodes -> Nat] /\ Fail("internal", first, live)
    BY <1>7, <1>20
  <2> HIDE DEF first, fresh
  <2> QED BY <1>1, <1>20, <2>1, <2>3, <2>5, <2>6, FailureReleasesAll
<1>15. CASE /\ Fail("failed", final, live)
            /\ remaining_uses' = used
            /\ UNCHANGED inside
  <2>1. live = node_live \ ToSet(final) /\ remaining_uses' \in [Nodes -> Nat]
    BY <1>7, <1>15 DEF live
  <2>2. "failed" \in {"failed", "internal"} /\ "failed" # "internal"
    OBVIOUS
  <2> QED BY <1>1, <1>9, <1>12, <1>15, <1>18, <2>1, <2>2, FailureOfLive
<1>16. CASE /\ BranchPositions(k) = {}
            /\ Store(k, used, live, final)
            /\ UNCHANGED <<assemblies, inside, values, status>>
  <2> DEFINE taken == {}
  <2>1. Moves(k, taken, inside')
    BY <1>1, <1>2, <1>16, NothingMoves
  <2>2. /\ ToSet(final) = {n \in node_live : UsesLeft(n, k + 1) = 0 /\ n \notin taken}
        /\ taken \in SUBSET node_live /\ \A n \in taken : UsesLeft(n, k + 1) = 0
    BY <1>11
  <2>3. used = [n \in Nodes |-> UsesLeft(n, k + 1)]
    BY <1>7, <1>16
  <2> HIDE DEF taken
  <2> QED BY <1>1, <1>9, <1>12, <1>13, <1>16, <2>1, <2>2, <2>3, StoreKeepsInvariant
<1>17. ASSUME NEW e \in BranchPositions(k),
              inside' = [inside EXCEPT ![e[1]] = Append(@, k)],
              remaining_uses' = [used EXCEPT ![k] = 0],
              node_live' = live,
              released' = released \o final,
              node_index' = k + 1,
              UNCHANGED <<assemblies, values, status>>
       PROVE  EvaluatorInv'
  <2> DEFINE taken == {k}
  <2>1. UsesLeft(k, k + 1) = 0
    BY <1>2, UsesStep
  <2>2. Moves(k, taken, inside')
    BY <1>2, <1>17, BranchMoves
  <2>3. k \notin node_live /\ \A n \in Nodes : n < k + 1 <=> n < k \/ n = k
    BY <1>2
  <2>4. ToSet(final) = {n \in Nodes : /\ n \in node_live \/ n = k
                                      /\ UsesLeft(n, k + 1) = 0
                                      /\ n \notin taken}
    BY <1>2, <1>11, <2>3
  <2>5. node_live' = {n \in Nodes : n < k + 1 /\ UsesLeft(n, k + 1) # 0}
    <3>1. ASSUME NEW n \in Nodes
          PROVE  n \in live <=> n < k + 1 /\ UsesLeft(n, k + 1) # 0
      BY <1>2, <1>12, <2>1, <2>3, UsesShrink
    <3>2. live \subseteq Nodes
      BY <1>2, <1>12
    <3> QED BY <1>17, <3>1, <3>2
  <2>6. /\ taken \in SUBSET Nodes
        /\ \A n \in taken : (n \in node_live \/ n = k) /\ UsesLeft(n, k + 1) = 0
    BY <2>1
  <2>7. remaining_uses' = [n \in Nodes |-> UsesLeft(n, k + 1)]
    BY <1>7, <1>17
  <2>8. assemblies' = assemblies \ {k}
    BY <1>13, <1>17
  <2> HIDE DEF taken
  <2> QED BY <1>1, <1>9, <1>13, <1>17, <2>2, <2>4, <2>5, <2>6, <2>7, <2>8,
             IterationKeepsInvariant
<1> QED BY <1>14, <1>15, <1>16, <1>17, <1>19, <1>20

LEMMA FinishKeeps ==
  ASSUME EvaluatorInv, UNCHANGED <<program, fault>>, Finish
  PROVE  EvaluatorInv'
<1> DEFINE k == Len(program.kind) + 1
           roots == program.roots
           live == node_live \ ToSet(roots)
           uses == UsesAfter(remaining_uses, roots)
<1>1. status = "running" /\ node_index = k /\ UNCHANGED inside
  BY DEF Finish
<1>2. /\ Accepted /\ EvaluatorTypeOK /\ InsideHolds /\ OwnersApart
      /\ Nodes \subseteq Int /\ k \in Int
      /\ remaining_uses = [n \in Nodes |-> UsesLeft(n, k)]
      /\ node_live = {n \in Nodes : n < k /\ UsesLeft(n, k) # 0}
      /\ values = <<>>
      /\ \A f \in assemblies : f \in Fanouts /\ k <= f
  BY <1>1, LoopFacts DEF EvaluatorInv
<1>3. \A n \in Nodes : n < k /\ ~ k <= n
  BY <1>2, Arenas
<1>4. \A n \in Nodes : UsesLeft(n, k) = IF n \in ToSet(roots) THEN 1 ELSE 0
  BY <1>2, UsesAtEnd
<1>5. /\ roots \in Seq(Nodes) /\ IsInjective(roots)
      /\ \A i \in DOMAIN roots : roots[i] \in Nodes /\ roots[i] \in ToSet(roots)
  <2>1. roots \in Seq(Nodes) /\ IsInjective(roots)
    BY <1>2, Arenas
  <2> QED BY <2>1, LenProperties DEF ToSet
<1> HIDE DEF k
<1>6. node_live = ToSet(roots) /\ live = {} /\ assemblies = {}
  <2>1. ToSet(roots) \subseteq Nodes
    BY <1>5 DEF ToSet
  <2>2. assemblies = {}
    BY <1>2, <1>3 DEF Fanouts
  <2>3. \A n \in Nodes : n \in node_live <=> n \in ToSet(roots)
    <3>1. \A n \in Nodes : n \in node_live <=> UsesLeft(n, k) # 0
      BY <1>2, <1>3
    <3> QED BY <1>4, <3>1
  <2>4. node_live \subseteq Nodes
    BY <1>2
  <2>5. node_live = ToSet(roots)
    <3> HIDE DEF roots
    <3> QED BY <2>1, <2>3, <2>4
  <2> QED BY <2>2, <2>5
<1>7. Movable(roots) = roots
  <2>1. \A i \in DOMAIN roots : roots[i] \in node_live /\ remaining_uses[roots[i]] = 1
    BY <1>2, <1>4, <1>5, <1>6
  <2> QED BY <1>5, <2>1, AllMovable
<1>8. uses \in [Nodes -> Nat]
  <2>1. ASSUME NEW n \in Nodes
        PROVE  remaining_uses[n] - Occurrences(roots, n) \in Nat
    <3>1. Occurrences(roots, n) = IF n \in ToSet(roots) THEN 1 ELSE 0
      BY <1>2, CountsAreNumbers
    <3> QED BY <1>2, <1>4, <3>1
  <2> QED BY <2>1 DEF UsesAfter
<1>9. /\ remaining_uses' = uses
      /\ \/ /\ values' = roots
            /\ node_live' = live
            /\ status' = "ok"
            /\ UNCHANGED <<node_index, assemblies, released>>
         \/ Fail("failed", Reverse(roots), live)
  BY <1>7 DEF Finish
<1>10. CASE Fail("failed", Reverse(roots), live)
  <2> DEFINE first == Reverse(roots)
  <2>1. first \in Seq(Nodes) /\ ToSet(first) = ToSet(roots) /\ IsInjective(first)
    BY <1>5, ReverseProperties
  <2>2. \A f \in Fanouts : Operand(f) \notin ToSet(first)
    BY <1>2, <2>1, FanoutFacts
  <2>3. live = node_live \ ToSet(first) /\ ToSet(first) \subseteq node_live
    BY <1>6, <2>1
  <2>4. remaining_uses' \in [Nodes -> Nat]
    BY <1>8, <1>9
  <2> HIDE DEF first, live, uses, roots
  <2>5. Fail("failed", first, live)
    BY <1>10 DEF first
  <2> QED BY <1>1, <2>1, <2>2, <2>3, <2>4, <2>5, FailureOfLive
<1>11. CASE /\ values' = roots
            /\ node_live' = live
            /\ status' = "ok"
            /\ UNCHANGED <<node_index, assemblies, released>>
  <2>1. /\ Nodes' = Nodes /\ Fanouts' = Fanouts /\ Accepted'
        /\ \A n : Kind(n)' = Kind(n) /\ Args(n)' = Args(n) /\ Operand(n)' = Operand(n)
        /\ \A box : Parts(box)' <=> Parts(box)
    BY <1>2, SameProgram
  <2>2. /\ node_live' = {} /\ assemblies' = {} /\ inside' = inside
        /\ released' = released /\ node_index' = node_index
        /\ ToSet(values') = node_live /\ ToSet(values) = {}
    BY <1>1, <1>2, <1>6, <1>11 DEF ToSet
  <2>3. \A n \in Nodes : (Moved(n)' <=> Moved(n)) /\ (Owned(n) => Owned(n)')
    BY <1>6, <2>1, <2>2 DEF Moved, Owned
  <2>4. EvaluatorTypeOK'
    <3>1. program' = program /\ status' = "ok" /\ values' \in Seq(Nodes)
      BY <1>5, <1>11
    <3>2. remaining_uses' \in [Nodes -> Nat]
      BY <1>8, <1>9
    <3> QED BY <1>2, <2>1, <2>2, <3>1, <3>2 DEF EvaluatorTypeOK
  <2>5. InsideHolds'
    BY <1>2, <2>1, <2>2, <2>3 DEF InsideHolds
  <2>6. OwnersApart'
    <3>1. values' \in Seq(Nodes) /\ IsInjective(values')
      BY <1>5, <1>11
    <3>2. \A n \in Nodes :
            /\ n \in node_live => ~Moved(n) /\ n \notin ToSet(released)
            /\ Moved(n) => n \notin ToSet(released)
            /\ n < node_index => Owned(n)
      BY <1>2 DEF OwnersApart
    <3>3. released \in Seq(Nodes) /\ IsInjective(released)
      BY <1>2 DEF OwnersApart
    <3>4. \A n \in Nodes : n \in ToSet(values') <=> n \in node_live
      BY <2>2
    <3>5. \A n \in Nodes :
            /\ n \in node_live' \/ n \in assemblies' =>
                 ~Moved(n)' /\ n \notin ToSet(values') /\ n \notin ToSet(released')
            /\ Moved(n)' => n \notin ToSet(values') /\ n \notin ToSet(released')
            /\ n \in ToSet(values') => n \notin ToSet(released')
            /\ n < node_index' => Owned(n)'
      BY <2>2, <2>3, <3>2, <3>4
    <3> QED BY <2>1, <2>2, <3>1, <3>3, <3>5 DEF OwnersApart
  <2>7. OperandOutlivesTable'
    BY <1>11 DEF OperandOutlivesTable
  <2> QED BY <1>11, <2>1, <2>2, <2>4, <2>5, <2>6, <2>7 DEF EvaluatorInv
<1> QED BY <1>9, <1>10, <1>11

LEMMA ReleaseResultKeeps ==
  ASSUME EvaluatorInv, UNCHANGED <<program, fault>>, ReleaseResult
  PROVE  EvaluatorInv'
<1> DEFINE list == Reverse(values)
<1>1. /\ status = "ok" /\ status' = "done"
      /\ released' = released \o list /\ values' = <<>>
      /\ UNCHANGED <<node_index, remaining_uses, node_live, assemblies, inside>>
  BY DEF ReleaseResult
<1>2. /\ Accepted /\ EvaluatorTypeOK /\ InsideHolds /\ OwnersApart
      /\ node_live = {} /\ assemblies = {}
  BY <1>1 DEF EvaluatorInv
<1>3. /\ Nodes' = Nodes /\ Fanouts' = Fanouts /\ Accepted'
      /\ \A n : Kind(n)' = Kind(n) /\ Args(n)' = Args(n) /\ Operand(n)' = Operand(n)
      /\ \A box : Parts(box)' <=> Parts(box)
  BY <1>2, SameProgram
<1>4. /\ released \in Seq(Nodes) /\ IsInjective(released)
      /\ values \in Seq(Nodes) /\ IsInjective(values)
      /\ \A n \in Nodes : /\ Moved(n) => n \notin ToSet(values) /\ n \notin ToSet(released)
                          /\ n \in ToSet(values) => n \notin ToSet(released)
                          /\ n < node_index => Owned(n)
  BY <1>2 DEF OwnersApart
<1>5. list \in Seq(Nodes) /\ ToSet(list) = ToSet(values) /\ IsInjective(list)
  BY <1>4, ReverseProperties
<1> HIDE DEF list
<1>6. /\ released' \in Seq(Nodes) /\ IsInjective(released')
      /\ ToSet(released') = ToSet(released) \cup ToSet(values)
  <2>1. ToSet(values) \subseteq Nodes
    BY <1>4 DEF ToSet
  <2>2. ToSet(released) \cap ToSet(list) = {}
    BY <1>4, <1>5, <2>1
  <2> QED BY <1>1, <1>4, <1>5, <2>2, JoinedLogs
<1>7. ToSet(values') = {} /\ values' \in Seq(Nodes) /\ IsInjective(values')
  BY <1>1, EmptyLog
<1>8. \A n \in Nodes : (Moved(n)' <=> Moved(n)) /\ (Owned(n) => Owned(n)')
  BY <1>1, <1>3, <1>6, <1>7 DEF Moved, Owned
<1>9. EvaluatorTypeOK'
  <2>1. program' = program
    OBVIOUS
  <2> QED BY <1>1, <1>2, <1>3, <1>6, <1>7, <2>1 DEF EvaluatorTypeOK
<1>10. InsideHolds'
  BY <1>1, <1>2, <1>3, <1>8 DEF InsideHolds
<1>11. OwnersApart'
  <2>1. \A n \in Nodes : /\ n \notin node_live' /\ n \notin assemblies'
                         /\ n \notin ToSet(values')
                         /\ Moved(n)' => n \notin ToSet(released')
                         /\ n < node_index' => Owned(n)'
    BY <1>1, <1>2, <1>4, <1>6, <1>7, <1>8
  <2> QED BY <1>3, <1>6, <1>7, <2>1 DEF OwnersApart
<1>12. OperandOutlivesTable'
  BY <1>1 DEF OperandOutlivesTable
<1> QED BY <1>1, <1>2, <1>3, <1>9, <1>10, <1>11, <1>12 DEF EvaluatorInv

LEMMA EvaluatorStep ==
  EvaluatorInv /\ EvaluatorNext /\ UNCHANGED <<program, fault>> => EvaluatorInv'
<1> SUFFICES ASSUME EvaluatorInv, EvaluatorNext, UNCHANGED <<program, fault>>
             PROVE  EvaluatorInv'
  OBVIOUS
<1>1. CASE Start
  BY <1>1, StartKeeps
<1>2. CASE \E f \in Fanouts : AdmitFanout(f)
  BY <1>2, AdmitFanoutKeeps
<1>3. ASSUME NEW n \in Nodes,
             \/ EvaluateScalar(n) \/ EvaluatePlaceholder(n) \/ EvaluateVector(n)
             \/ EvaluateTuple(n) \/ EvaluateFanout(n) \/ EvaluateCall(n)
      PROVE  EvaluatorInv'
  BY <1>3, EvaluateScalarKeeps, EvaluatePlaceholderKeeps, EvaluateVectorKeeps,
     EvaluateTupleKeeps, EvaluateFanoutKeeps, EvaluateCallKeeps
<1>4. CASE Finish
  BY <1>4, FinishKeeps
<1>5. CASE ReleaseResult
  BY <1>5, ReleaseResultKeeps
<1> QED BY <1>1, <1>2, <1>3, <1>4, <1>5 DEF EvaluatorNext

LEMMA EvaluatorStutter ==
  EvaluatorInv /\ UNCHANGED <<program, fault, evaluatorVars>> => EvaluatorInv'
<1> SUFFICES ASSUME EvaluatorInv, UNCHANGED <<program, fault, evaluatorVars>>
             PROVE  EvaluatorInv'
  OBVIOUS
<1>1. UNCHANGED <<program, fault, node_index, remaining_uses, node_live, assemblies,
                  inside, values, released, status>>
  BY DEF evaluatorVars
<1>2. /\ Nodes' = Nodes /\ Fanouts' = Fanouts /\ (Accepted => Accepted')
      /\ \A n : Kind(n)' = Kind(n) /\ Args(n)' = Args(n) /\ Operand(n)' = Operand(n)
      /\ \A n, k : UsesLeft(n, k)' = UsesLeft(n, k)
      /\ \A box : Parts(box)' <=> Parts(box)
      /\ \A box, k : Filled(box, k)' <=> Filled(box, k)
  BY <1>1, SameProgram
<1>3. \A n : (Moved(n)' <=> Moved(n)) /\ (Owned(n)' <=> Owned(n))
  BY <1>1, <1>2 DEF Moved, Owned
<1>4. EvaluatorTypeOK => EvaluatorTypeOK'
  BY <1>1, <1>2 DEF EvaluatorTypeOK
<1>5. InsideHolds => InsideHolds'
  BY <1>1, <1>2, <1>3 DEF InsideHolds
<1>6. OwnersApart => OwnersApart'
  BY <1>1, <1>2, <1>3 DEF OwnersApart
<1>7. LoopHolds => LoopHolds'
  BY <1>1, <1>2 DEF LoopHolds
<1>8. OperandOutlivesTable => OperandOutlivesTable'
  BY <1>1, <1>2 DEF OperandOutlivesTable
<1>9. Irregular' <=> Irregular
  BY <1>1, SameIrregularities
<1> QED BY <1>1, <1>2, <1>4, <1>5, <1>6, <1>7, <1>8, <1>9 DEF EvaluatorInv

(***************************************************************************)
(* The theorems.                                                           *)
(***************************************************************************)

\* A value is in at most one place of a tuple or result table.
LEMMA OnePlaceInside ==
  ASSUME Accepted, InsideHolds, NEW c \in Nodes, NEW d \in Nodes,
         NEW i \in DOMAIN inside[c], NEW j \in DOMAIN inside[d],
         inside[c][i] = inside[d][j]
  PROVE  c = d /\ i = j
<1>1. ASSUME NEW b \in Nodes, NEW l \in DOMAIN inside[b]
      PROVE  OwnedPositions(program, inside[b][l]) = {<<b, l>>}
  <2>1. /\ inside[b] \in Seq(Nodes)
        /\ inside[b] # <<>> => Kind(b) \in {"tuple", "fanout"}
        /\ Len(inside[b]) <= Len(Args(b))
        /\ \A x \in 1 .. Len(inside[b]) : inside[b][x] = Args(b)[x]
    BY DEF InsideHolds, Parts
  <2>2. /\ Len(inside[b]) \in Nat /\ DOMAIN inside[b] = 1 .. Len(inside[b])
        /\ Len(Args(b)) \in Nat /\ DOMAIN Args(b) = 1 .. Len(Args(b))
    BY <2>1, Arenas, LenProperties
  <2>3. inside[b] # <<>> /\ l \in DOMAIN Args(b) /\ inside[b][l] = Args(b)[l]
    BY <2>1, <2>2
  <2> QED BY <2>1, <2>3, ElementsUsedOnce
<1>2. {<<c, i>>} = {<<d, j>>}
  BY <1>1
<1>3. <<c, i>> = <<d, j>>
  BY <1>2, <<c, i>> \in {<<d, j>>}
<1> QED BY <1>3

\* The four kinds of owner, without the unions of Owners.
LEMMA OwnersByKind ==
  ASSUME NEW n
  PROVE  \A o : o \in Owners(n) <=>
           \/ o = <<"slot", n, 0>> /\ (n \in node_live \/ n \in assemblies)
           \/ \E c \in Nodes : \E i \in DOMAIN inside[c] :
                inside[c][i] = n /\ o = <<"inside", c, i>>
           \/ \E i \in DOMAIN values : values[i] = n /\ o = <<"result", 0, i>>
           \/ \E i \in DOMAIN released : released[i] = n /\ o = <<"released", 0, i>>
<1> DEFINE slots == {<<"slot", n, 0>> : x \in {n} \cap (node_live \cup assemblies)}
           boxes == UNION {{<<"inside", c, i>> :
                              i \in {j \in DOMAIN inside[c] : inside[c][j] = n}} : c \in Nodes}
           results == {<<"result", 0, i>> : i \in {j \in DOMAIN values : values[j] = n}}
           logged == {<<"released", 0, i>> :
                        i \in {j \in DOMAIN released : released[j] = n}}
<1>1. \A o : o \in slots <=> o = <<"slot", n, 0>> /\ (n \in node_live \/ n \in assemblies)
  OBVIOUS
<1>2. \A o : o \in boxes <=> \E c \in Nodes : \E i \in DOMAIN inside[c] :
                               inside[c][i] = n /\ o = <<"inside", c, i>>
  OBVIOUS
<1>3. \A o : o \in results <=> \E i \in DOMAIN values :
                                 values[i] = n /\ o = <<"result", 0, i>>
  OBVIOUS
<1>4. \A o : o \in logged <=> \E i \in DOMAIN released :
                                released[i] = n /\ o = <<"released", 0, i>>
  OBVIOUS
<1>5. Owners(n) = slots \cup boxes \cup results \cup logged
  BY DEF Owners
<1> HIDE DEF slots, boxes, results, logged
<1> QED BY <1>1, <1>2, <1>3, <1>4, <1>5

\* What is owned has an owner.
LEMMA OwnedHasOwner ==
  ASSUME NEW n, Owned(n)
  PROVE  Owners(n) # {}
<1>1. CASE n \in node_live \/ n \in assemblies
  BY <1>1, OwnersByKind
<1>2. CASE Moved(n)
  BY <1>2, OwnersByKind DEF Moved, ToSet
<1>3. CASE n \in ToSet(values)
  BY <1>3, OwnersByKind DEF ToSet
<1>4. CASE n \in ToSet(released)
  BY <1>4, OwnersByKind DEF ToSet
<1> QED BY <1>1, <1>2, <1>3, <1>4 DEF Owned

LEMMA AtMostOneOwner ==
  ASSUME Accepted, InsideHolds, OwnersApart, NEW n \in Nodes,
         NEW o \in Owners(n), NEW p \in Owners(n)
  PROVE  o = p
<1>1. /\ n \in node_live \/ n \in assemblies =>
            ~Moved(n) /\ n \notin ToSet(values) /\ n \notin ToSet(released)
      /\ Moved(n) => n \notin ToSet(values) /\ n \notin ToSet(released)
      /\ n \in ToSet(values) => n \notin ToSet(released)
      /\ IsInjective(values) /\ IsInjective(released)
  BY DEF OwnersApart
<1> DEFINE slot(x) == x = <<"slot", n, 0>> /\ (n \in node_live \/ n \in assemblies)
           box(x) == \E c \in Nodes : \E i \in DOMAIN inside[c] :
                       inside[c][i] = n /\ x = <<"inside", c, i>>
           result(x) == \E i \in DOMAIN values : values[i] = n /\ x = <<"result", 0, i>>
           log(x) == \E i \in DOMAIN released : released[i] = n /\ x = <<"released", 0, i>>
<1>2. \A x \in Owners(n) : slot(x) \/ box(x) \/ result(x) \/ log(x)
  BY OwnersByKind
<1>3. \A x : /\ box(x) => Moved(n)
             /\ result(x) => n \in ToSet(values)
             /\ log(x) => n \in ToSet(released)
             /\ slot(x) => n \in node_live \/ n \in assemblies
  BY DEF Moved, ToSet
<1>4. slot(o) /\ slot(p) => o = p
  OBVIOUS
<1>5. box(o) /\ box(p) => o = p
  <2>1. \A c, d \in Nodes : \A i \in DOMAIN inside[c], j \in DOMAIN inside[d] :
          inside[c][i] = n /\ inside[d][j] = n => c = d /\ i = j
    BY OnePlaceInside
  <2> QED BY <2>1
<1>6. result(o) /\ result(p) => o = p
  BY <1>1 DEF IsInjective
<1>7. log(o) /\ log(p) => o = p
  BY <1>1 DEF IsInjective
<1> HIDE DEF slot, box, result, log
<1> QED BY <1>1, <1>2, <1>3, <1>4, <1>5, <1>6, <1>7

LEMMA OneOwnerFollows ==
  EvaluatorInv => EvaluatorOneOwner
<1> SUFFICES ASSUME EvaluatorInv
             PROVE  EvaluatorOneOwner
  OBVIOUS
<1>1. Accepted /\ EvaluatorTypeOK /\ InsideHolds /\ OwnersApart
  BY DEF EvaluatorInv
<1>2. ASSUME NEW n \in Nodes
      PROVE  Cardinality(Owners(n)) \in IF n < node_index THEN {1} ELSE {0, 1}
  <2>1. CASE Owners(n) = {}
    <3>1. ~ n < node_index
      BY <1>1, <2>1, OwnedHasOwner DEF OwnersApart
    <3>2. Cardinality(Owners(n)) = 0
      BY <2>1, FS_EmptySet
    <3> QED BY <3>1, <3>2
  <2>2. ASSUME NEW o \in Owners(n)
        PROVE  Cardinality(Owners(n)) = 1
    <3>1. Owners(n) = {o}
      BY <1>1, AtMostOneOwner
    <3> QED BY <3>1, FS_Singleton
  <2> QED BY <2>1, <2>2
<1> QED BY <1>1, <1>2 DEF EvaluatorOneOwner

LEMMA OwnsNothingFollows ==
  EvaluatorInv => EvaluatorOwnsNothing
<1> SUFFICES ASSUME EvaluatorInv, status \in {"failed", "internal", "done"}
             PROVE  /\ node_live = {} /\ assemblies = {} /\ values = <<>>
                    /\ \A n \in Nodes : \A o \in Owners(n) :
                         o[1] = "inside" => Owners(o[2]) # {}
  BY DEF EvaluatorOwnsNothing
<1>1. node_live = {} /\ assemblies = {} /\ values = <<>> /\ InsideHolds
  BY DEF EvaluatorInv
<1>2. ASSUME NEW n \in Nodes, NEW o \in Owners(n), o[1] = "inside"
      PROVE  Owners(o[2]) # {}
  <2>1. \A i : o # <<"slot", n, 0>> /\ o # <<"result", 0, i>> /\ o # <<"released", 0, i>>
    BY <1>2
  <2>2. PICK c \in Nodes : \E i \in DOMAIN inside[c] : o = <<"inside", c, i>>
    BY <1>2, <2>1, OwnersByKind
  <2>3. inside[c] # <<>> /\ o[2] = c
    BY <2>2
  <2> QED BY <1>1, <2>3, OwnedHasOwner DEF InsideHolds
<1> QED BY <1>1, <1>2

LEMMA LifetimesFollow ==
  EvaluatorInv => UsesEndLifetimes
<1> SUFFICES ASSUME EvaluatorInv
             PROVE  UsesEndLifetimes
  OBVIOUS
<1>1. status = "internal" => Irregular
  BY DEF EvaluatorInv
<1>2. ASSUME status = "running", NEW n \in node_live
      PROVE  remaining_uses[n] # 0
  BY <1>2 DEF EvaluatorInv, LoopHolds
<1> QED BY <1>1, <1>2 DEF UsesEndLifetimes

\* Between any two steps of evaluate_rewrite_source_impl the counts are those
\* of the nodes still to come, and slots, result tables, tuples, results and
\* the log of releases share the values made so far among them.
THEOREM EvaluatorInvariant == EvaluatorSpec => []EvaluatorInv
<1>1. ProgramInit /\ EvaluatorInit => EvaluatorInv
  BY InitialInvariant
<1>2. EvaluatorInv /\ [EvaluatorNext /\ UNCHANGED <<program, fault>>]_<<program, fault, evaluatorVars>>
        => EvaluatorInv'
  BY EvaluatorStep, EvaluatorStutter
<1> QED BY <1>1, <1>2, PTL DEF EvaluatorSpec

\* Every value evaluate_rewrite_source_impl has made has exactly one owner: a
\* slot, a tuple or result table, the result list or the log of releases; none
\* is released twice, moved after its release or dropped, for every program
\* and every operation that fails.
THEOREM EvaluatorOneOwnerAlways == EvaluatorSpec => []EvaluatorOneOwner
  BY EvaluatorInvariant, OneOwnerFollows, PTL

\* An evaluation that has failed, or whose result has been released, owns
\* nothing: release_execution_state and release_rewrite_evaluation_result reach
\* every value, itself or with the tuple or table around it.
THEOREM EvaluatorOwnsNothingAlways == EvaluatorSpec => []EvaluatorOwnsNothing
  BY EvaluatorInvariant, OwnsNothingFollows, PTL

\* A slot that is live when the loop is between two nodes has a use left, and
\* the loop's own invalid_primitive_table checks fire for nothing but a table
\* admitted too small, an ill-formed fan-out or the failing spread of a tuple.
THEOREM UsesEndLifetimesAlways == EvaluatorSpec => []UsesEndLifetimes
  BY EvaluatorInvariant, LifetimesFollow, PTL

\* The operand that all branches of a fan-out share is released after the
\* result table, whichever branch fails.
THEOREM OperandOutlivesTableAlways == EvaluatorSpec => []OperandOutlivesTable
<1>1. EvaluatorInv => OperandOutlivesTable
  BY DEF EvaluatorInv
<1> QED BY <1>1, EvaluatorInvariant, PTL
=============================================================================
