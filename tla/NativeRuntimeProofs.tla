-------------------------- MODULE NativeRuntimeProofs --------------------------
(***************************************************************************)
(* The runtime of a generated program keeps its memory sound: for every    *)
(* number of slots, width of tuples, SIZE_MAX, program and profile.        *)
(***************************************************************************)
EXTENDS NativeRuntime, FiniteSetTheorems, WellFoundedInduction, TLAPS

(***************************************************************************)
(* A memory m of a program and configuration u.  blocks are the            *)
(* allocations not yet freed, path the cells a release has gone into and   *)
(* not yet come back from.                                                 *)
(***************************************************************************)

Containers == {"none", "scalar", "vector", "tuple"}

CellRecords ==
  [container : Containers, type : {"none", "Bool", "Int"}, count : Nat, value : Nat,
   data : Nat, parent : {NULL} \cup (Nat \X Nat), parent_index : Nat, cleanup_index : Nat]

SlotsOf(u) == {Slot(s) : s \in 1 .. u.slots}

\* The two flags.
FlagsInv == provenance \in BOOLEAN /\ spreading \in BOOLEAN

\* What a cell holds, by its container; it has storage if it has bytes.
Sound(c, u) ==
  /\ c \in CellRecords /\ c.parent_index <= Width
  /\ c.container = "none" => /\ c.type = "none" /\ c.count = 0 /\ c.value = 0
                             /\ c.data = 0 /\ c.cleanup_index = 0
  /\ c.container = "scalar" => /\ c.type \in u.types /\ c.count = 1 /\ c.value \in 1 .. u.slots
                               /\ c.data = 0 /\ c.cleanup_index = 0
  /\ c.container = "vector" => /\ c.type \in u.types /\ c.count \in u.counts
                               /\ c.value \in 1 .. u.slots
                               /\ (c.data = 0 <=> c.count = 0) /\ c.cleanup_index = 0
  /\ c.container = "tuple" => /\ c.type = "none" /\ c.value = 0 /\ c.count <= Width
                              /\ (c.data = 0 <=> c.count = 0) /\ c.cleanup_index <= c.count

CellsSound(m, u) == \A a \in DOMAIN m : Sound(m[a], u)

\* The cells are the slots and the elements of tuples.
Reachable(m, u) ==
  /\ SlotsOf(u) \subseteq DOMAIN m
  /\ \A a \in DOMAIN m : NestedCells(m[a]) \subseteq DOMAIN m
  /\ \A a \in DOMAIN m : a \in SlotsOf(u) \/ \E o \in DOMAIN m : a \in NestedCells(m[o])

OwnedApart(m) == \A a, b \in DOMAIN m : m[a].data # 0 /\ m[a].data = m[b].data => a = b

Allocated(m, blocks) == \A x : x \in blocks <=> x # 0 /\ \E a \in DOMAIN m : m[a].data = x

\* An element still to be cleaned up, or gone into, leads back to the tuple it
\* is in; the others are empty.
Linked(m, u, path) ==
  /\ \A a \in SlotsOf(u) : m[a].parent = NULL
  /\ \A o \in DOMAIN m : \A x \in NestedCells(m[o]) :
       IF x[2] < m[o].cleanup_index \/ x \in path
       THEN m[x].parent = o /\ m[x].parent_index = x[2]
       ELSE m[x].container = "none" /\ m[x].parent \in {NULL, o}

\* No tuple is inside itself: every cell is deeper than the tuple it is in.
Deepens(m, depth) ==
  /\ depth \in [DOMAIN m -> Nat]
  /\ \A o \in DOMAIN m : \A x \in NestedCells(m[o]) : depth[o] < depth[x]

Acyclic(m) == \E depth : Deepens(m, depth)

Heap(m, u, blocks, path) ==
  /\ CellsSound(m, u) /\ Reachable(m, u) /\ OwnedApart(m) /\ Allocated(m, blocks)
  /\ Linked(m, u, path) /\ Acyclic(m)

(***************************************************************************)
(* Cells and addresses.                                                    *)
(***************************************************************************)

LEMMA SetupHas ==
  ASSUME NEW u \in Setups
  PROVE  /\ u.slots \in Nat /\ u.slots > 0 /\ u.counts \subseteq Nat
         /\ u.types \subseteq {"Bool", "Int"}
         /\ Width \in Nat /\ Width > 0 /\ SizeMax \in Nat
BY RuntimeAssumption

LEMMA NestedIs ==
  ASSUME NEW c \in CellRecords
  PROVE  /\ \A x : x \in NestedCells(c) <=>
                     c.container = "tuple" /\ \E k \in Nat : k < c.count /\ x = <<c.data, k>>
         /\ \A x \in NestedCells(c) : /\ x = <<c.data, x[2]>> /\ x[1] = c.data
                                      /\ x[2] \in Nat /\ x[2] < c.count /\ x \in Nat \X Nat
BY DEF NestedCells, CellRecords

LEMMA SlotsAre ==
  ASSUME NEW u \in Setups
  PROVE  /\ \A a \in SlotsOf(u) : a \in Nat \X Nat /\ a[1] = 0 /\ a[2] \in 1 .. u.slots /\ a = Slot(a[2])
         /\ \A s \in 1 .. u.slots : Slot(s) \in SlotsOf(u)
         /\ \A s, t : Slot(s) = Slot(t) => s = t
BY SetupHas DEF SlotsOf, Slot

LEMMA AddressIsNotNull ==
  ASSUME NEW a \in Nat \X Nat
  PROVE  a # NULL
<1>1. a = <<a[1], a[2]>>
  OBVIOUS
<1>2. Len(<<a[1], a[2]>>) = 2 /\ Len(<<>>) = 0
  OBVIOUS
<1> QED BY <1>1, <1>2 DEF NULL

LEMMA ZeroIsSound ==
  ASSUME NEW u \in Setups
  PROVE  /\ Sound(Zero, u) /\ Zero.container = "none" /\ Zero.parent = NULL /\ Zero.data = 0
         /\ NestedCells(Zero) = {}
<1>1. Zero.parent \in {NULL} \cup (Nat \X Nat)
  BY DEF Zero, Cell
<1> QED BY SetupHas, <1>1 DEF Sound, Zero, Cell, CellRecords, Containers, NestedCells

\* A tuple with elements has storage; one cell's elements are not another's.
LEMMA NestedApart ==
  ASSUME NEW u \in Setups, NEW m, CellsSound(m, u), OwnedApart(m), NEW a \in DOMAIN m, NEW x \in NestedCells(m[a])
  PROVE  /\ m[a].container = "tuple" /\ m[a].data # 0 /\ x[1] = m[a].data /\ x[1] \in Nat \ {0}
         /\ x = <<m[a].data, x[2]>> /\ x[2] \in Nat /\ x[2] < m[a].count /\ x[2] < Width
         /\ x \notin SlotsOf(u)
         /\ \A b \in DOMAIN m : x \in NestedCells(m[b]) => b = a
<1>1. \A b \in DOMAIN m : Sound(m[b], u) /\ m[b] \in CellRecords
  BY DEF CellsSound, Sound
<1>2. m[a].container = "tuple" /\ x = <<m[a].data, x[2]>> /\ x[1] = m[a].data /\ x[2] \in Nat /\ x[2] < m[a].count
  BY <1>1, NestedIs
<1>3. m[a].count \in Nat /\ m[a].count <= Width /\ (m[a].data = 0 <=> m[a].count = 0) /\ m[a].data \in Nat
  BY <1>1, <1>2 DEF Sound, CellRecords
<1>4. m[a].data # 0 /\ x[2] < Width
  BY <1>2, <1>3, SetupHas
<1>5. \A b \in DOMAIN m : x \in NestedCells(m[b]) => x[1] = m[b].data
  BY <1>1, NestedIs
<1>6. x \notin SlotsOf(u)
  BY <1>2, <1>4, SlotsAre
<1> QED BY <1>2, <1>3, <1>4, <1>5, <1>6 DEF OwnedApart

(***************************************************************************)
(* What each change of the memory keeps.                                   *)
(***************************************************************************)

\* The content of a cell, whatever tuple it is in.
SameContent(c, d) ==
  /\ c.container = d.container /\ c.type = d.type /\ c.count = d.count
  /\ c.value = d.value /\ c.data = d.data /\ c.cleanup_index = d.cleanup_index

CellPut(m, p, c, n) ==
  /\ DOMAIN n = DOMAIN m /\ n[p] = c
  /\ \A a \in DOMAIN m : a # p => n[a] = m[a]

\* A value that is no tuple is written to an empty slot.
LEMMA PutKeepsHeap ==
  ASSUME NEW u \in Setups, NEW m, NEW blocks, NEW path, Heap(m, u, blocks, path),
         NEW s \in 1 .. u.slots, m[Slot(s)].container = "none",
         NEW c, Sound(c, u), c.container \in {"scalar", "vector"}, c.parent = NULL,
         c.data \notin blocks,
         NEW n, CellPut(m, Slot(s), c, n),
         NEW more, \A x : x \in more <=> x \in blocks \/ (x = c.data /\ x # 0)
  PROVE  Heap(n, u, more, path)
<1> DEFINE p == Slot(s)
<1>1. p \in SlotsOf(u) /\ p \in DOMAIN m
  BY SlotsAre DEF Heap, Reachable
<1>2. /\ DOMAIN n = DOMAIN m /\ n[p] = c
      /\ \A a \in DOMAIN m : a # p => n[a] = m[a]
  BY <1>1 DEF CellPut
<1>3. /\ NestedCells(n[p]) = {} /\ NestedCells(m[p]) = {} /\ m[p].data = 0
      /\ \A a \in DOMAIN m : a # p => NestedCells(n[a]) = NestedCells(m[a])
  BY <1>1, <1>2 DEF NestedCells, Heap, CellsSound, Sound
<1> HIDE DEF p
<1>4. CellsSound(n, u)
  BY <1>2 DEF Heap, CellsSound
<1>5. Reachable(n, u)
  BY <1>1, <1>2, <1>3 DEF Heap, Reachable
<1>6. OwnedApart(n)
  BY <1>2, <1>3 DEF Heap, OwnedApart, Allocated
<1>7. Allocated(n, more)
  BY <1>1, <1>2, <1>3 DEF Heap, Allocated
<1>8. Linked(n, u, path)
  <2>1. \A a \in SlotsOf(u) : n[a].parent = NULL
    BY <1>1, <1>2 DEF Heap, Linked, Reachable
  <2>2. ASSUME NEW o \in DOMAIN n, NEW x \in NestedCells(n[o])
        PROVE  IF x[2] < n[o].cleanup_index \/ x \in path
               THEN n[x].parent = o /\ n[x].parent_index = x[2]
               ELSE n[x].container = "none" /\ n[x].parent \in {NULL, o}
    <3>1. o # p /\ n[o] = m[o] /\ x \in NestedCells(m[o]) /\ x \in DOMAIN m
      BY <1>2, <1>3, <2>2 DEF Heap, Reachable
    <3>2. x # p
      BY <1>1, <1>2, <3>1, NestedApart DEF Heap
    <3> QED BY <1>2, <2>2, <3>1, <3>2 DEF Heap, Linked
  <2> QED BY <2>1, <2>2 DEF Linked
<1>9. Acyclic(n)
  <2>1. PICK depth : Deepens(m, depth)
    BY DEF Heap, Acyclic
  <2>2. Deepens(n, depth)
    BY <1>2, <1>3, <2>1 DEF Deepens
  <2> QED BY <2>2 DEF Acyclic
<1> QED BY <1>4, <1>5, <1>6, <1>7, <1>8, <1>9 DEF Heap

\* A cell that has become element k of the tuple at p.
Relinked(c, p, k) == [c EXCEPT !.parent = p, !.parent_index = k]

EmptyElement(p, k) == Relinked(Zero, p, k)

LEMMA RelinkedIs ==
  ASSUME NEW c \in CellRecords, NEW p \in {NULL} \cup (Nat \X Nat), NEW k \in Nat
  PROVE  LET d == Relinked(c, p, k) IN
         /\ d \in CellRecords
         /\ d.container = c.container /\ d.type = c.type /\ d.count = c.count
         /\ d.value = c.value /\ d.data = c.data /\ d.cleanup_index = c.cleanup_index
         /\ d.parent = p /\ d.parent_index = k
<1> DEFINE d == [c EXCEPT !.parent = p, !.parent_index = k]
           s == {NULL} \cup (Nat \X Nat)
           Records == [container : Containers, type : {"none", "Bool", "Int"}, count : Nat,
                       value : Nat, data : Nat, parent : s, parent_index : Nat,
                       cleanup_index : Nat]
<1>1. c \in Records /\ p \in s
  BY DEF CellRecords
<1> HIDE DEF s
<1>2. /\ d \in Records
      /\ d.container = c.container /\ d.type = c.type /\ d.count = c.count
      /\ d.value = c.value /\ d.data = c.data /\ d.cleanup_index = c.cleanup_index
      /\ d.parent = p /\ d.parent_index = k
  BY <1>1
<1> QED BY <1>2 DEF CellRecords, Relinked, s

LEMMA EmptyElementIs ==
  ASSUME NEW u \in Setups, NEW p \in Nat \X Nat, NEW k \in Nat, k <= Width
  PROVE  LET c == EmptyElement(p, k) IN
         /\ Sound(c, u) /\ c.container = "none" /\ c.data = 0
         /\ c.parent = p /\ c.parent_index = k /\ NestedCells(c) = {}
<1> DEFINE c == EmptyElement(p, k)
<1>1. /\ Zero \in CellRecords /\ Zero.container = "none" /\ Zero.type = "none" /\ Zero.count = 0
      /\ Zero.value = 0 /\ Zero.data = 0 /\ Zero.cleanup_index = 0
  BY ZeroIsSound DEF Sound
<1>2. /\ c \in CellRecords /\ c.container = "none" /\ c.type = "none" /\ c.count = 0
      /\ c.value = 0 /\ c.data = 0 /\ c.cleanup_index = 0 /\ c.parent = p /\ c.parent_index = k
  <2>1. p \in {NULL} \cup (Nat \X Nat)
    OBVIOUS
  <2>2. /\ c \in CellRecords
        /\ c.container = Zero.container /\ c.type = Zero.type /\ c.count = Zero.count
        /\ c.value = Zero.value /\ c.data = Zero.data /\ c.cleanup_index = Zero.cleanup_index
        /\ c.parent = p /\ c.parent_index = k
    BY <1>1, <2>1, RelinkedIs, Zenon DEF EmptyElement
  <2> HIDE DEF c
  <2> QED BY <1>1, <2>2
<1> HIDE DEF c
<1> QED BY <1>2 DEF c, Sound, NestedCells

\* The tuple c is written to p, with a table of empty cells.
TableAdded(m, p, c, n) ==
  /\ DOMAIN n = DOMAIN m \cup NestedCells(c)
  /\ n[p] = c
  /\ \A x \in NestedCells(c) : n[x] = EmptyElement(p, x[2])
  /\ \A x \in DOMAIN m : x # p => n[x] = m[x]

\* A table of empty cells is allocated for a tuple in an empty slot.
LEMMA TableKeepsHeap ==
  ASSUME NEW u \in Setups, NEW m, NEW blocks, Heap(m, u, blocks, {}),
         NEW s \in 1 .. u.slots, m[Slot(s)].container = "none",
         NEW c, Sound(c, u), c.container = "tuple", c.parent = NULL, c.cleanup_index = 0,
         c.data \notin blocks,
         NEW n, TableAdded(m, Slot(s), c, n),
         NEW more, \A x : x \in more <=> x \in blocks \/ (x = c.data /\ x # 0)
  PROVE  Heap(n, u, more, {})
<1> DEFINE p == Slot(s)
<1>1. p \in SlotsOf(u) /\ p \in DOMAIN m /\ p \in Nat \X Nat
  BY SlotsAre DEF Heap, Reachable
<1>2. /\ \A x \in NestedCells(c) : /\ x = <<c.data, x[2]>> /\ x[1] = c.data /\ x[2] \in Nat
                                   /\ x[2] < c.count /\ x[2] <= Width /\ c.data # 0 /\ c.data \in Nat
  BY NestedIs, SetupHas DEF Sound, CellRecords
<1>3. \A x \in NestedCells(c) : x \notin DOMAIN m
  <2> SUFFICES ASSUME NEW x \in NestedCells(c), x \in DOMAIN m PROVE FALSE
    OBVIOUS
  <2>1. x \notin SlotsOf(u)
    BY <1>2, SlotsAre
  <2>2. PICK o \in DOMAIN m : x \in NestedCells(m[o])
    BY <2>1 DEF Heap, Reachable
  <2>3. m[o].data = c.data /\ c.data # 0
    BY <1>2, <2>2, NestedApart DEF Heap
  <2> QED BY <2>3 DEF Heap, Allocated
<1>4. /\ NestedCells(m[p]) = {} /\ m[p].data = 0
  BY <1>1 DEF NestedCells, Heap, CellsSound, Sound
<1>5. \A x \in NestedCells(c) : /\ Sound(n[x], u) /\ n[x].container = "none" /\ n[x].data = 0
                                /\ n[x].parent = p /\ n[x].parent_index = x[2]
                                /\ NestedCells(n[x]) = {}
  <2> SUFFICES ASSUME NEW x \in NestedCells(c)
               PROVE  /\ Sound(n[x], u) /\ n[x].container = "none" /\ n[x].data = 0
                      /\ n[x].parent = p /\ n[x].parent_index = x[2]
                      /\ NestedCells(n[x]) = {}
    OBVIOUS
  <2>1. n[x] = EmptyElement(p, x[2]) /\ p \in Nat \X Nat /\ x[2] \in Nat /\ x[2] <= Width
    BY <1>1, <1>2 DEF TableAdded
  <2> HIDE DEF p
  <2> QED BY <2>1, EmptyElementIs
<1> HIDE DEF p
<1>6. /\ n[p] = c
      /\ \A x \in DOMAIN m : x # p => n[x] = m[x] /\ NestedCells(n[x]) = NestedCells(m[x])
      /\ p \notin NestedCells(c) /\ DOMAIN n = DOMAIN m \cup NestedCells(c)
  BY <1>1, <1>3 DEF p, TableAdded
<1>7. CellsSound(n, u)
  BY <1>5, <1>6 DEF Heap, CellsSound
<1>8. Reachable(n, u)
  <2>1. SlotsOf(u) \subseteq DOMAIN n
    BY <1>6 DEF Heap, Reachable
  <2>2. \A a \in DOMAIN n : NestedCells(n[a]) \subseteq DOMAIN n
    BY <1>5, <1>6 DEF Heap, Reachable
  <2>3. ASSUME NEW a \in DOMAIN n PROVE a \in SlotsOf(u) \/ \E o \in DOMAIN n : a \in NestedCells(n[o])
    <3>1. CASE a \in NestedCells(c)
      BY <1>1, <1>6, <3>1
    <3>2. CASE a \in DOMAIN m
      <4>1. ASSUME NEW o \in DOMAIN m, a \in NestedCells(m[o])
            PROVE  o \in DOMAIN n /\ a \in NestedCells(n[o])
        BY <1>4, <1>6, <4>1
      <4> QED BY <3>2, <4>1 DEF Heap, Reachable
    <3> QED BY <1>6, <3>1, <3>2
  <2> QED BY <2>1, <2>2, <2>3 DEF Reachable
<1>9. OwnedApart(n)
  BY <1>4, <1>5, <1>6 DEF Heap, OwnedApart, Allocated
<1>10. Allocated(n, more)
  BY <1>1, <1>4, <1>5, <1>6 DEF Heap, Allocated
<1>11. Linked(n, u, {})
  <2>1. \A a \in SlotsOf(u) : n[a].parent = NULL
    BY <1>1, <1>6 DEF p, Heap, Linked, Reachable
  <2>2. ASSUME NEW o \in DOMAIN n, NEW x \in NestedCells(n[o])
        PROVE  IF x[2] < n[o].cleanup_index \/ x \in {}
               THEN n[x].parent = o /\ n[x].parent_index = x[2]
               ELSE n[x].container = "none" /\ n[x].parent \in {NULL, o}
    <3>1. CASE o = p
      BY <1>2, <1>5, <1>6, <2>2, <3>1
    <3>2. CASE o # p
      <4>1. o \in DOMAIN m /\ n[o] = m[o] /\ x \in NestedCells(m[o]) /\ x \in DOMAIN m
        BY <1>5, <1>6, <2>2, <3>2 DEF Heap, Reachable
      <4>2. x # p
        BY <1>1, <4>1, NestedApart DEF Heap
      <4> QED BY <1>6, <4>1, <4>2 DEF Heap, Linked
    <3> QED BY <3>1, <3>2
  <2> QED BY <2>1, <2>2 DEF Linked
<1>12. Acyclic(n)
  <2>1. PICK depth : Deepens(m, depth)
    BY DEF Heap, Acyclic
  <2> DEFINE d == [a \in DOMAIN n |-> IF a \in DOMAIN m THEN depth[a] ELSE depth[p] + 1]
  <2>2. d \in [DOMAIN n -> Nat]
    BY <1>1, <1>6, <2>1 DEF Deepens
  <2>3. ASSUME NEW o \in DOMAIN n, NEW x \in NestedCells(n[o]) PROVE d[o] < d[x]
    <3>1. CASE o = p
      BY <1>1, <1>3, <1>6, <2>1, <2>3, <3>1 DEF Deepens
    <3>2. CASE o # p
      <4>1. o \in DOMAIN m /\ x \in NestedCells(m[o]) /\ x \in DOMAIN m
        BY <1>5, <1>6, <2>3, <3>2 DEF Heap, Reachable
      <4>2. d[o] = depth[o] /\ d[x] = depth[x] /\ depth[o] < depth[x]
        BY <1>6, <2>1, <4>1 DEF Deepens
      <4> QED BY <4>2
    <3> QED BY <3>1, <3>2
  <2>4. Deepens(n, d)
    BY <2>2, <2>3 DEF Deepens
  <2> QED BY <2>4 DEF Acyclic
<1> QED BY <1>7, <1>8, <1>9, <1>10, <1>11, <1>12 DEF Heap

\* A tuple with the cleanup index k.
Advanced(c, k) == [c EXCEPT !.cleanup_index = k]

LEMMA AdvancedIs ==
  ASSUME NEW c \in CellRecords, NEW k \in Nat
  PROVE  LET d == Advanced(c, k) IN
         /\ d \in CellRecords
         /\ d.container = c.container /\ d.type = c.type /\ d.count = c.count
         /\ d.value = c.value /\ d.data = c.data /\ d.cleanup_index = k
         /\ d.parent = c.parent /\ d.parent_index = c.parent_index
<1> DEFINE d == [c EXCEPT !.cleanup_index = k]
           s == {NULL} \cup (Nat \X Nat)
           Records == [container : Containers, type : {"none", "Bool", "Int"}, count : Nat,
                       value : Nat, data : Nat, parent : s, parent_index : Nat,
                       cleanup_index : Nat]
<1>1. c \in Records
  BY DEF CellRecords
<1> HIDE DEF s
<1>2. /\ d \in Records
      /\ d.container = c.container /\ d.type = c.type /\ d.count = c.count
      /\ d.value = c.value /\ d.data = c.data /\ d.cleanup_index = k
      /\ d.parent = c.parent /\ d.parent_index = c.parent_index
  BY <1>1
<1> QED BY <1>2 DEF CellRecords, Advanced, s

\* A tuple with fewer or more elements to be cleaned up is sound.
LEMMA AdvancedIsSound ==
  ASSUME NEW u \in Setups, NEW c, Sound(c, u), c.container = "tuple", NEW k \in Nat, k <= c.count
  PROVE  /\ Sound(Advanced(c, k), u) /\ NestedCells(Advanced(c, k)) = NestedCells(c)
         /\ Advanced(c, k).container = c.container /\ Advanced(c, k).type = c.type
         /\ Advanced(c, k).count = c.count /\ Advanced(c, k).data = c.data
         /\ Advanced(c, k).cleanup_index = k /\ Advanced(c, k).parent = c.parent
         /\ Advanced(c, k).parent_index = c.parent_index
<1> DEFINE d == Advanced(c, k)
<1>1. c \in CellRecords
  BY DEF Sound
<1>2. /\ d \in CellRecords
      /\ d.container = c.container /\ d.type = c.type /\ d.count = c.count
      /\ d.value = c.value /\ d.data = c.data /\ d.cleanup_index = k
      /\ d.parent = c.parent /\ d.parent_index = c.parent_index
  BY <1>1, AdvancedIs, Zenon
<1> HIDE DEF d
<1>3. Sound(d, u) /\ NestedCells(d) = NestedCells(c)
  BY <1>2 DEF Sound, NestedCells
<1> QED BY <1>2, <1>3 DEF d

\* A sound cell in another place is sound, and has the same elements.
LEMMA RelinkedIsSound ==
  ASSUME NEW u \in Setups, NEW c, Sound(c, u), NEW p \in Nat \X Nat, NEW k \in Nat, k <= Width
  PROVE  /\ Sound(Relinked(c, p, k), u) /\ SameContent(Relinked(c, p, k), c)
         /\ NestedCells(Relinked(c, p, k)) = NestedCells(c)
         /\ Relinked(c, p, k).parent = p /\ Relinked(c, p, k).parent_index = k
<1> DEFINE d == Relinked(c, p, k)
<1>1. c \in CellRecords /\ p \in {NULL} \cup (Nat \X Nat)
  BY DEF Sound
<1>2. /\ d \in CellRecords
      /\ d.container = c.container /\ d.type = c.type /\ d.count = c.count
      /\ d.value = c.value /\ d.data = c.data /\ d.cleanup_index = c.cleanup_index
      /\ d.parent = p /\ d.parent_index = k
  BY <1>1, RelinkedIs, Zenon
<1> HIDE DEF d
<1>3. Sound(d, u) /\ SameContent(d, c)
  BY <1>2 DEF Sound, SameContent
<1>4. NestedCells(d) = NestedCells(c)
  BY <1>2 DEF NestedCells
<1> QED BY <1>2, <1>3, <1>4 DEF d

\* The cells at src[1], src[2], ... become the elements of the tuple at p from
\* its cleanup index on; what they own goes with them.
Target(m, p, j) == <<m[p].data, m[p].cleanup_index + j - 1>>

CellsMoved(m, p, src, r, n) ==
  /\ DOMAIN n = DOMAIN m
  /\ n[p] = Advanced(m[p], m[p].cleanup_index + r)
  /\ \A j \in 1 .. r :
       /\ n[Target(m, p, j)] = Relinked(m[src[j]], p, m[p].cleanup_index + j - 1)
       /\ n[src[j]] = Zero
       /\ \A x \in NestedCells(m[src[j]]) : n[x] = Relinked(m[x], Target(m, p, j), x[2])
  /\ \A x \in DOMAIN m \ {p} :
       (\A j \in 1 .. r : x # Target(m, p, j) /\ x # src[j] /\ x \notin NestedCells(m[src[j]]))
         => n[x] = m[x]

Movable(m, u, p, src, r) ==
  /\ p \in SlotsOf(u) /\ m[p].container = "tuple" /\ m[p].cleanup_index + r <= m[p].count
  /\ src \in [1 .. r -> SlotsOf(u) \ {p}]
  /\ \A i, j \in 1 .. r : i # j => src[i] # src[j]
  /\ \A j \in 1 .. r : m[src[j]].container = "tuple" => m[src[j]].cleanup_index = m[src[j]].count

\* Which cells a move touches, and what is in them before it.
Touched(m, u, p, src, r) ==
  /\ p \in DOMAIN m /\ \A j \in 1 .. r : src[j] \in DOMAIN m /\ src[j] # p /\ src[j] \in SlotsOf(u)
  /\ \A j \in 1 .. r :
       LET t == Target(m, p, j) IN
       /\ t \in NestedCells(m[p]) /\ t \in DOMAIN m /\ t # p /\ t \notin SlotsOf(u)
       /\ m[t].data = 0 /\ NestedCells(m[t]) = {}
       /\ t[2] = m[p].cleanup_index + j - 1
       /\ \A i \in 1 .. r : Target(m, p, i) = t => i = j
  /\ \A j \in 1 .. r : \A x \in NestedCells(m[src[j]]) :
       /\ x \in DOMAIN m /\ x \notin SlotsOf(u) /\ x \notin NestedCells(m[p])
       /\ x[2] \in Nat /\ x[2] < Width
       /\ \A i \in 1 .. r : x \in NestedCells(m[src[i]]) => i = j

LEMMA MoveTouches ==
  ASSUME NEW u \in Setups, NEW m, NEW blocks, Heap(m, u, blocks, {}), NEW r \in Nat, NEW p, NEW src,
         Movable(m, u, p, src, r), NEW n, CellsMoved(m, p, src, r, n)
  PROVE  Touched(m, u, p, src, r)
<1> USE DEF Heap
<1>1. p \in DOMAIN m /\ \A j \in 1 .. r : src[j] \in DOMAIN m /\ src[j] # p /\ src[j] \in SlotsOf(u)
  BY DEF Movable, Reachable
<1>2. \A j \in 1 .. r : \A x \in NestedCells(m[src[j]]) :
        /\ x \in DOMAIN m /\ x \notin SlotsOf(u) /\ x \notin NestedCells(m[p])
        /\ x[2] \in Nat /\ x[2] < Width
        /\ \A i \in 1 .. r : x \in NestedCells(m[src[i]]) => i = j
  <2> SUFFICES ASSUME NEW j \in 1 .. r, NEW x \in NestedCells(m[src[j]])
               PROVE  /\ x \in DOMAIN m /\ x \notin SlotsOf(u) /\ x \notin NestedCells(m[p])
                      /\ x[2] \in Nat /\ x[2] < Width
                      /\ \A i \in 1 .. r : x \in NestedCells(m[src[i]]) => i = j
    OBVIOUS
  <2>1. /\ x \notin SlotsOf(u) /\ x[2] \in Nat /\ x[2] < Width
        /\ \A b \in DOMAIN m : x \in NestedCells(m[b]) => b = src[j]
    BY <1>1, NestedApart
  <2>2. x \in DOMAIN m
    BY <1>1 DEF Reachable
  <2> QED BY <1>1, <2>1, <2>2 DEF Movable
<1>3. ASSUME NEW j \in 1 .. r
      PROVE  LET t == Target(m, p, j) IN
             /\ t \in NestedCells(m[p]) /\ t \in DOMAIN m /\ t # p /\ t \notin SlotsOf(u)
             /\ m[t].data = 0 /\ NestedCells(m[t]) = {}
             /\ t[2] = m[p].cleanup_index + j - 1
             /\ \A i \in 1 .. r : Target(m, p, i) = t => i = j
  <2> DEFINE t == Target(m, p, j)
  <2>1. m[p] \in CellRecords /\ m[p].cleanup_index \in Nat /\ m[p].count \in Nat
    BY <1>1 DEF CellsSound, Sound, CellRecords
  <2>2. /\ t = <<m[p].data, m[p].cleanup_index + j - 1>> /\ m[p].cleanup_index + j - 1 \in Nat
        /\ m[p].cleanup_index + j - 1 < m[p].count
        /\ \A i \in 1 .. r : Target(m, p, i) = t => i = j
    BY <2>1 DEF Target, Movable
  <2>3. t \in NestedCells(m[p])
    BY <2>1, <2>2, NestedIs DEF Movable
  <2>4. t[2] = m[p].cleanup_index + j - 1 /\ ~(t[2] < m[p].cleanup_index)
    BY <2>1, <2>2
  <2> HIDE DEF t
  <2>5. t \in DOMAIN m /\ t # p /\ t \notin SlotsOf(u)
    BY <1>1, <2>3, NestedApart DEF Movable, Reachable
  <2>6. m[t].container = "none" /\ m[t].data = 0 /\ NestedCells(m[t]) = {}
    BY <1>1, <2>3, <2>4, <2>5 DEF Linked, CellsSound, Sound, NestedCells
  <2> QED BY <2>2, <2>3, <2>4, <2>5, <2>6 DEF t
<1> QED BY <1>1, <1>2, <1>3 DEF Touched

\* What the cells hold after a move.
Moved(m, p, src, r, n) ==
  /\ /\ n[p].container = "tuple" /\ n[p].data = m[p].data /\ n[p].count = m[p].count
     /\ n[p].cleanup_index = m[p].cleanup_index + r /\ n[p].parent = m[p].parent
     /\ NestedCells(n[p]) = NestedCells(m[p])
  /\ \A j \in 1 .. r :
       LET t == Target(m, p, j) IN
       /\ SameContent(n[t], m[src[j]]) /\ NestedCells(n[t]) = NestedCells(m[src[j]])
       /\ n[t].parent = p /\ n[t].parent_index = t[2]
       /\ n[src[j]] = Zero /\ NestedCells(n[src[j]]) = {}
       /\ \A x \in NestedCells(m[src[j]]) :
            /\ SameContent(n[x], m[x]) /\ NestedCells(n[x]) = NestedCells(m[x])
            /\ n[x].parent = t /\ n[x].parent_index = x[2]
  /\ \A x \in DOMAIN m \ {p} :
       \/ \E j \in 1 .. r : x = Target(m, p, j) \/ x = src[j] \/ x \in NestedCells(m[src[j]])
       \/ n[x] = m[x]

LEMMA MovedCells ==
  ASSUME NEW u \in Setups, NEW m, NEW blocks, Heap(m, u, blocks, {}), NEW r \in Nat, NEW p, NEW src,
         Movable(m, u, p, src, r), NEW n, CellsMoved(m, p, src, r, n)
  PROVE  CellsSound(n, u) /\ Moved(m, p, src, r, n)
<1> DEFINE place(j) == Target(m, p, j)
<1>1. \A x \in DOMAIN m : Sound(m[x], u) /\ m[x] \in CellRecords
  BY DEF Heap, CellsSound, Sound
<1>0. Touched(m, u, p, src, r)
  BY MoveTouches
<1>2. p \in DOMAIN m /\ p \in Nat \X Nat
  BY <1>0, SlotsAre DEF Movable, Touched
<1>3. /\ n[p].container = "tuple" /\ n[p].data = m[p].data /\ n[p].count = m[p].count
      /\ n[p].cleanup_index = m[p].cleanup_index + r /\ n[p].parent = m[p].parent
      /\ NestedCells(n[p]) = NestedCells(m[p]) /\ Sound(n[p], u)
  <2>1. m[p] \in CellRecords /\ Sound(m[p], u) /\ m[p].cleanup_index + r \in Nat
        /\ m[p].container = "tuple" /\ m[p].cleanup_index + r <= m[p].count
    BY <1>1, <1>2 DEF Movable, CellRecords
  <2>2. n[p] = Advanced(m[p], m[p].cleanup_index + r)
    BY DEF CellsMoved
  <2> DEFINE c == m[p]
             k == m[p].cleanup_index + r
  <2> HIDE DEF c, k
  <2>3. k \in Nat /\ k <= c.count /\ Sound(c, u) /\ c.container = "tuple"
    BY <2>1 DEF c, k
  <2>4. /\ Sound(Advanced(c, k), u) /\ NestedCells(Advanced(c, k)) = NestedCells(c)
        /\ Advanced(c, k).container = "tuple" /\ Advanced(c, k).data = c.data
        /\ Advanced(c, k).count = c.count /\ Advanced(c, k).cleanup_index = k
        /\ Advanced(c, k).parent = c.parent
    BY <2>3, AdvancedIsSound
  <2> QED BY <2>2, <2>4 DEF c, k
<1>4. ASSUME NEW j \in 1 .. r
      PROVE  /\ Sound(n[place(j)], u)
             /\ SameContent(n[place(j)], m[src[j]]) /\ NestedCells(n[place(j)]) = NestedCells(m[src[j]])
             /\ n[place(j)].parent = p /\ n[place(j)].parent_index = place(j)[2]
  <2>1. src[j] \in DOMAIN m /\ place(j)[2] = m[p].cleanup_index + j - 1 /\ place(j) \in NestedCells(m[p])
    BY <1>0 DEF Touched
  <2>2. n[place(j)] = Relinked(m[src[j]], p, place(j)[2])
    BY <2>1 DEF CellsMoved
  <2>3. place(j)[2] \in Nat /\ place(j)[2] <= Width
    BY <1>2, <2>1, NestedApart, SetupHas DEF Heap
  <2> HIDE DEF place
  <2> QED BY <1>1, <1>2, <2>1, <2>2, <2>3, RelinkedIsSound
<1>5. ASSUME NEW j \in 1 .. r, NEW x \in NestedCells(m[src[j]])
      PROVE  /\ Sound(n[x], u)
             /\ SameContent(n[x], m[x]) /\ NestedCells(n[x]) = NestedCells(m[x])
             /\ n[x].parent = place(j) /\ n[x].parent_index = x[2]
  <2>1. x \in DOMAIN m /\ x[2] \in Nat /\ x[2] <= Width
    BY <1>0, SetupHas DEF Touched
  <2>2. place(j) \in Nat \X Nat
    <3>1. place(j) \in NestedCells(m[p])
      BY <1>0 DEF Touched
    <3> HIDE DEF place
    <3> QED BY <1>1, <1>2, <3>1, NestedIs
  <2>3. n[x] = Relinked(m[x], place(j), x[2])
    BY DEF CellsMoved
  <2> HIDE DEF place
  <2> QED BY <1>1, <2>1, <2>2, <2>3, RelinkedIsSound
<1>6. \A j \in 1 .. r : n[src[j]] = Zero /\ NestedCells(n[src[j]]) = {} /\ Sound(n[src[j]], u)
  BY ZeroIsSound DEF CellsMoved
<1>7. \A x \in DOMAIN m \ {p} :
        \/ \E j \in 1 .. r : x = Target(m, p, j) \/ x = src[j] \/ x \in NestedCells(m[src[j]])
        \/ n[x] = m[x]
  BY DEF CellsMoved
<1>8. CellsSound(n, u)
  <2> SUFFICES ASSUME NEW x \in DOMAIN m PROVE Sound(n[x], u)
    BY DEF CellsSound, CellsMoved
  <2> QED BY <1>1, <1>3, <1>4, <1>5, <1>6, <1>7
<1> QED BY <1>3, <1>4, <1>5, <1>6, <1>7, <1>8 DEF Moved

LEMMA MovesKeepHeap ==
  ASSUME NEW u \in Setups, NEW m, NEW blocks, Heap(m, u, blocks, {}), NEW r \in Nat, NEW p, NEW src,
         Movable(m, u, p, src, r), NEW n, CellsMoved(m, p, src, r, n)
  PROVE  Heap(n, u, blocks, {})
<1> DEFINE place(j) == Target(m, p, j)
           IsTarget(x) == \E j \in 1 .. r : x = place(j)
           IsSource(x) == \E j \in 1 .. r : x = src[j]
           IsBelow(x) == \E j \in 1 .. r : x \in NestedCells(m[src[j]])
<1>0. Touched(m, u, p, src, r) /\ CellsSound(n, u) /\ Moved(m, p, src, r, n)
  BY MoveTouches, MovedCells
<1>1. DOMAIN n = DOMAIN m /\ p \in DOMAIN m /\ p \in SlotsOf(u) /\ m[p].container = "tuple"
  BY <1>0 DEF Touched, CellsMoved, Movable
<1>2. \A j \in 1 .. r :
        /\ src[j] \in DOMAIN m /\ src[j] # p /\ src[j] \in SlotsOf(u)
        /\ place(j) \in NestedCells(m[p]) /\ place(j) \in DOMAIN m /\ place(j) # p /\ place(j) \notin SlotsOf(u)
        /\ m[place(j)].data = 0 /\ NestedCells(m[place(j)]) = {}
        /\ \A i \in 1 .. r : place(i) = place(j) => i = j
        /\ \A i \in 1 .. r : src[i] = src[j] => i = j
  BY <1>0 DEF Movable, Touched
<1>3. \A j \in 1 .. r : \A x \in NestedCells(m[src[j]]) :
        /\ x \in DOMAIN m /\ x \notin SlotsOf(u) /\ x \notin NestedCells(m[p])
        /\ \A i \in 1 .. r : x \in NestedCells(m[src[i]]) => i = j
  BY <1>0 DEF Touched
<1>4. /\ n[p].data = m[p].data /\ n[p].parent = m[p].parent /\ NestedCells(n[p]) = NestedCells(m[p])
      /\ n[p].cleanup_index = m[p].cleanup_index + r
  BY <1>0 DEF Moved
<1>5. \A j \in 1 .. r :
        /\ n[place(j)].data = m[src[j]].data /\ NestedCells(n[place(j)]) = NestedCells(m[src[j]])
        /\ n[place(j)].cleanup_index = m[src[j]].cleanup_index
        /\ n[place(j)].parent = p /\ n[place(j)].parent_index = place(j)[2]
        /\ n[src[j]] = Zero /\ n[src[j]].data = 0 /\ n[src[j]].parent = NULL /\ NestedCells(n[src[j]]) = {}
  <2>1. Zero.data = 0 /\ Zero.parent = NULL
    BY ZeroIsSound
  <2> QED BY <1>0, <2>1 DEF SameContent, Moved
<1>6. \A j \in 1 .. r : \A x \in NestedCells(m[src[j]]) :
        /\ n[x].data = m[x].data /\ NestedCells(n[x]) = NestedCells(m[x])
        /\ n[x].cleanup_index = m[x].cleanup_index /\ n[x].container = m[x].container
        /\ n[x].parent = place(j) /\ n[x].parent_index = x[2]
  BY <1>0 DEF SameContent, Moved
<1>7. \A x \in DOMAIN m : x # p /\ ~IsTarget(x) /\ ~IsSource(x) /\ ~IsBelow(x) => n[x] = m[x]
  BY <1>0 DEF Moved
<1>8. \A o \in DOMAIN m : \A x \in NestedCells(m[o]) :
        /\ x \in DOMAIN m /\ x \notin SlotsOf(u)
        /\ \A a \in DOMAIN m : x \in NestedCells(m[a]) => a = o
  BY NestedApart DEF Heap, Reachable
<1>9. \A x \in DOMAIN m : x # p /\ ~IsTarget(x) /\ ~IsSource(x) =>
         /\ n[x].data = m[x].data /\ NestedCells(n[x]) = NestedCells(m[x])
         /\ n[x].cleanup_index = m[x].cleanup_index
  BY <1>6, <1>7
<1>10. \A x \in DOMAIN m : IsBelow(x) => x # p /\ ~IsTarget(x) /\ ~IsSource(x)
  BY <1>1, <1>2, <1>3
<1> HIDE DEF place, IsTarget, IsSource, IsBelow
<1>11. CellsSound(n, u)
  BY <1>0
<1>12. \A o \in DOMAIN m : \A x \in NestedCells(n[o]) :
         \/ o = p /\ x \in NestedCells(m[p])
         \/ \E j \in 1 .. r : o = place(j) /\ x \in NestedCells(m[src[j]])
         \/ o # p /\ ~IsTarget(o) /\ ~IsSource(o) /\ x \in NestedCells(m[o])
  <2> SUFFICES ASSUME NEW o \in DOMAIN m, NEW x \in NestedCells(n[o])
               PROVE  \/ o = p /\ x \in NestedCells(m[p])
                      \/ \E j \in 1 .. r : o = place(j) /\ x \in NestedCells(m[src[j]])
                      \/ o # p /\ ~IsTarget(o) /\ ~IsSource(o) /\ x \in NestedCells(m[o])
    OBVIOUS
  <2>1. CASE o = p
    BY <1>4, <2>1
  <2>2. CASE IsTarget(o)
    BY <1>5, <2>2 DEF IsTarget
  <2>3. CASE IsSource(o)
    BY <1>5, <2>3 DEF IsSource
  <2>4. CASE o # p /\ ~IsTarget(o) /\ ~IsSource(o)
    BY <1>9, <2>4
  <2> QED BY <2>1, <2>2, <2>3, <2>4
<1>13. Reachable(n, u)
  <2>1. SlotsOf(u) \subseteq DOMAIN n
    BY <1>1 DEF Heap, Reachable
  <2>2. \A a \in DOMAIN n : NestedCells(n[a]) \subseteq DOMAIN n
    BY <1>1, <1>2, <1>8, <1>12
  <2>3. ASSUME NEW a \in DOMAIN n, a \notin SlotsOf(u)
        PROVE  \E o \in DOMAIN n : a \in NestedCells(n[o])
    <3>1. PICK o \in DOMAIN m : a \in NestedCells(m[o])
      BY <1>1, <2>3 DEF Heap, Reachable
    <3>2. CASE o = p
      BY <1>1, <1>4, <3>1, <3>2
    <3>3. CASE IsSource(o)
      BY <1>1, <1>2, <1>5, <3>1, <3>3 DEF IsSource
    <3>4. CASE o # p /\ ~IsSource(o)
      <4>1. ~IsTarget(o)
        BY <1>2, <3>1 DEF IsTarget
      <4> QED BY <1>1, <1>9, <3>1, <3>4, <4>1
    <3> QED BY <3>2, <3>3, <3>4
  <2> QED BY <2>1, <2>2, <2>3 DEF Reachable
<1>14. \A a \in DOMAIN m : n[a].data # 0 =>
         \/ \E j \in 1 .. r : a = place(j) /\ n[a].data = m[src[j]].data
         \/ ~IsTarget(a) /\ ~IsSource(a) /\ n[a].data = m[a].data
  BY <1>1, <1>2, <1>4, <1>5, <1>9 DEF IsTarget, IsSource
<1>15. OwnedApart(n)
  <2> SUFFICES ASSUME NEW a \in DOMAIN m, NEW b \in DOMAIN m, n[a].data # 0, n[a].data = n[b].data
               PROVE  a = b
    BY <1>1 DEF OwnedApart
  <2> QED BY <1>2, <1>14 DEF Heap, OwnedApart, IsSource
<1>16. Allocated(n, blocks)
  <2>1. ASSUME NEW a \in DOMAIN m, n[a].data # 0 PROVE \E b \in DOMAIN m : m[b].data = n[a].data
    BY <1>2, <1>14, <2>1
  <2>2. ASSUME NEW a \in DOMAIN m, m[a].data # 0 PROVE \E b \in DOMAIN m : n[b].data = m[a].data
    <3>1. CASE IsSource(a)
      BY <1>2, <1>5, <3>1 DEF IsSource
    <3>2. CASE ~IsSource(a)
      <4>1. ~IsTarget(a)
        BY <1>2, <2>2 DEF IsTarget
      <4> QED BY <1>1, <1>4, <1>9, <3>2, <4>1
    <3> QED BY <3>1, <3>2
  <2> QED BY <1>1, <2>1, <2>2 DEF Heap, Allocated
<1>17. Linked(n, u, {})
  <2>1. \A a \in SlotsOf(u) : n[a].parent = NULL
    <3>1. \A a \in SlotsOf(u) : a \in DOMAIN m /\ m[a].parent = NULL /\ ~IsTarget(a) /\ ~IsBelow(a)
      BY <1>2, <1>3 DEF Heap, Linked, Reachable, IsTarget, IsBelow
    <3> QED BY <1>4, <1>5, <1>7, <3>1 DEF IsSource
  <2>2. ASSUME NEW o \in DOMAIN n, NEW x \in NestedCells(n[o])
        PROVE  IF x[2] < n[o].cleanup_index \/ x \in {}
               THEN n[x].parent = o /\ n[x].parent_index = x[2]
               ELSE n[x].container = "none" /\ n[x].parent \in {NULL, o}
    <3>1. CASE o = p
      <4>1. x \in NestedCells(m[p])
        BY <1>4, <2>2, <3>1
      <4>2. CASE IsTarget(x)
        <5>1. PICK j \in 1 .. r : x = place(j)
          BY <4>2 DEF IsTarget
        <5>2. x[2] = m[p].cleanup_index + j - 1
          BY <1>0, <5>1 DEF place, Touched
        <5>3. m[p].cleanup_index \in Nat
          BY <1>1 DEF Heap, CellsSound, Sound, CellRecords
        <5>4. x[2] < n[p].cleanup_index
          BY <1>4, <5>2, <5>3
        <5> QED BY <1>5, <3>1, <5>1, <5>4
      <4>3. CASE ~IsTarget(x)
        <5>1. x \in DOMAIN m /\ x # p /\ ~IsSource(x) /\ ~IsBelow(x)
          BY <1>1, <1>2, <1>3, <1>8, <4>1 DEF IsSource, IsBelow
        <5>2. n[x] = m[x]
          BY <1>7, <4>3, <5>1
        <5>3. m[p].cleanup_index \in Nat /\ x[2] \in Nat /\ x[2] < m[p].count /\ x = <<m[p].data, x[2]>>
          BY <1>1, <4>1, NestedApart DEF Heap, CellsSound, Sound, CellRecords
        <5>4. x[2] < n[p].cleanup_index => x[2] < m[p].cleanup_index
          <6> SUFFICES ASSUME x[2] < n[p].cleanup_index, ~(x[2] < m[p].cleanup_index) PROVE FALSE
            OBVIOUS
          <6> DEFINE j == x[2] - m[p].cleanup_index + 1
          <6>1. j \in 1 .. r /\ x[2] = m[p].cleanup_index + j - 1
            BY <1>4, <5>3
          <6>2. x = place(j)
            BY <5>3, <6>1 DEF place, Target
          <6> QED BY <4>3, <6>1, <6>2 DEF IsTarget
        <5>5. x[2] < m[p].cleanup_index => x[2] < n[p].cleanup_index
          BY <1>4, <5>3
        <5>6. IF x[2] < m[p].cleanup_index \/ x \in {}
              THEN m[x].parent = p /\ m[x].parent_index = x[2]
              ELSE m[x].container = "none" /\ m[x].parent \in {NULL, p}
          BY <1>1, <4>1 DEF Heap, Linked
        <5> QED BY <3>1, <5>2, <5>4, <5>5, <5>6
      <4> QED BY <4>2, <4>3
    <3>2. ASSUME NEW j \in 1 .. r, o = place(j), x \in NestedCells(m[src[j]])
          PROVE  x[2] < n[o].cleanup_index /\ n[x].parent = o /\ n[x].parent_index = x[2]
      <4>1. m[src[j]].container = "tuple" /\ x[2] < m[src[j]].count
        BY <1>2, <3>2, NestedApart DEF Heap
      <4>2. n[o].cleanup_index = m[src[j]].count
        BY <1>5, <3>2, <4>1 DEF Movable
      <4> QED BY <1>6, <3>2, <4>1, <4>2
    <3>3. CASE o # p /\ ~IsTarget(o) /\ ~IsSource(o) /\ x \in NestedCells(m[o])
      <4>1. x \in DOMAIN m /\ x # p /\ ~IsSource(x) /\ ~IsTarget(x) /\ ~IsBelow(x)
        BY <1>1, <1>2, <1>3, <1>8, <3>3 DEF IsSource, IsTarget, IsBelow
      <4>2. n[x] = m[x] /\ n[o].cleanup_index = m[o].cleanup_index
        BY <1>1, <1>7, <1>9, <3>3, <4>1
      <4> QED BY <1>1, <3>3, <4>2 DEF Heap, Linked
    <3> QED BY <1>1, <1>12, <3>1, <3>2, <3>3
  <2> QED BY <2>1, <2>2 DEF Linked
<1>18. Acyclic(n)
  <2>1. PICK depth : Deepens(m, depth)
    BY DEF Heap, Acyclic
  <2>2. depth \in [DOMAIN m -> Nat] /\ \A o \in DOMAIN m : \A x \in NestedCells(m[o]) : depth[o] < depth[x]
    BY <2>1 DEF Deepens
  <2> DEFINE source(x) == src[CHOOSE j \in 1 .. r : x = place(j)]
             d == [x \in DOMAIN m |-> IF x = p THEN 0
                                      ELSE IF IsTarget(x) THEN depth[source(x)] + 1 ELSE depth[x] + 1]
  <2>3. \A j \in 1 .. r : source(place(j)) = src[j] /\ IsTarget(place(j))
    BY <1>2 DEF IsTarget
  <2>4. \A x \in DOMAIN m : IsTarget(x) => source(x) \in DOMAIN m
    BY <1>2, <2>3 DEF IsTarget
  <2>5. d \in [DOMAIN n -> Nat]
    BY <1>1, <2>2, <2>4
  <2>6. \A x \in DOMAIN m : /\ x = p => d[x] = 0
                            /\ x # p => d[x] > 0
                            /\ x # p /\ ~IsTarget(x) => d[x] = depth[x] + 1
    <3> SUFFICES ASSUME NEW x \in DOMAIN m
                 PROVE  /\ x = p => d[x] = 0
                        /\ x # p => d[x] > 0
                        /\ x # p /\ ~IsTarget(x) => d[x] = depth[x] + 1
      OBVIOUS
    <3>1. depth[x] \in Nat /\ (IsTarget(x) => depth[source(x)] \in Nat)
      BY <2>2, <2>4
    <3> HIDE DEF source
    <3> QED BY <3>1
  <2>7. \A j \in 1 .. r : d[place(j)] = depth[src[j]] + 1
    BY <1>2, <2>3
  <2> HIDE DEF d, source
  <2>8. ASSUME NEW o \in DOMAIN n, NEW x \in NestedCells(n[o]) PROVE d[o] < d[x]
    <3>1. CASE o = p /\ x \in NestedCells(m[p])
      BY <1>1, <1>8, <2>6, <3>1
    <3>2. ASSUME NEW j \in 1 .. r, o = place(j), x \in NestedCells(m[src[j]]) PROVE d[o] < d[x]
      <4>1. x \in DOMAIN m /\ x # p /\ ~IsTarget(x)
        BY <1>1, <1>2, <1>3, <3>2 DEF IsTarget
      <4>2. depth[src[j]] < depth[x] /\ depth[src[j]] \in Nat /\ depth[x] \in Nat
        BY <1>2, <2>2, <3>2, <4>1
      <4> QED BY <2>6, <2>7, <3>2, <4>1, <4>2
    <3>3. CASE o # p /\ ~IsTarget(o) /\ ~IsSource(o) /\ x \in NestedCells(m[o])
      <4>1. x \in DOMAIN m /\ x # p /\ ~IsTarget(x)
        BY <1>1, <1>2, <1>8, <3>3 DEF IsTarget
      <4>2. depth[o] < depth[x] /\ depth[o] \in Nat /\ depth[x] \in Nat
        BY <1>1, <2>2, <3>3, <4>1
      <4> QED BY <1>1, <2>6, <3>3, <4>1, <4>2
    <3> QED BY <1>1, <1>12, <3>1, <3>2, <3>3
  <2>9. Deepens(n, d)
    BY <2>5, <2>8 DEF Deepens
  <2> QED BY <2>9 DEF Acyclic
<1> QED BY <1>11, <1>13, <1>15, <1>16, <1>17, <1>18 DEF Heap

(***************************************************************************)
(* The way of a release: from a slot, root, down to the cell it is at.     *)
(* Each cell gone into is the one at the cleanup index of a cell before    *)
(* it, and the cell the release is at has been gone into no further.       *)
(***************************************************************************)

Trail(m, u, path, here, root) ==
  /\ here \in path /\ path \subseteq DOMAIN m
  /\ \A x \in path : IF x \in SlotsOf(u) THEN x = root
                     ELSE \E o \in path : x \in NestedCells(m[o]) /\ x[2] = m[o].cleanup_index
  /\ \A x \in NestedCells(m[here]) : x \notin path

LEMMA NotInItself ==
  ASSUME NEW m, Acyclic(m), NEW o \in DOMAIN m, NEW x \in NestedCells(m[o])
  PROVE  x # o
<1>1. PICK depth : Deepens(m, depth)
  BY DEF Acyclic
<1> QED BY <1>1 DEF Deepens

\* Into the last element that is still there.
StepInto(m, here, child, n) ==
  /\ m[here].container = "tuple" /\ m[here].cleanup_index # 0
  /\ n = [m EXCEPT ![here] = Advanced(m[here], m[here].cleanup_index - 1)]
  /\ child = <<m[here].data, m[here].cleanup_index - 1>>

OnlyAdvanced(m, here, n) ==
  /\ DOMAIN n = DOMAIN m
  /\ \A x \in DOMAIN m : /\ n[x].container = m[x].container /\ n[x].data = m[x].data
                         /\ n[x].count = m[x].count /\ n[x].type = m[x].type
                         /\ x # here => n[x] = m[x]

LEMMA DescendKeepsHeap ==
  ASSUME NEW u \in Setups, NEW m, NEW blocks, NEW path, NEW here, NEW root,
         Heap(m, u, blocks, path), Trail(m, u, path, here, root),
         NEW n, NEW child, StepInto(m, here, child, n)
  PROVE  /\ Heap(n, u, blocks, path \cup {child})
         /\ Trail(n, u, path \cup {child}, child, root)
         /\ OnlyAdvanced(m, here, n)
<1> USE DEF StepInto, OnlyAdvanced
<1>1. here \in DOMAIN m /\ \A x \in DOMAIN m : Sound(m[x], u) /\ m[x] \in CellRecords
  BY DEF Heap, Trail, CellsSound, Sound
<1>2. /\ m[here].cleanup_index \in Nat /\ m[here].count \in Nat /\ m[here].cleanup_index <= m[here].count
      /\ m[here].cleanup_index - 1 \in Nat /\ m[here].cleanup_index - 1 < m[here].count
  BY <1>1 DEF Sound, CellRecords
<1> DEFINE c == m[here]
           k == m[here].cleanup_index - 1
           d == Advanced(c, k)
<1>3. /\ Sound(d, u) /\ NestedCells(d) = NestedCells(c)
      /\ d.container = c.container /\ d.type = c.type /\ d.count = c.count
      /\ d.data = c.data /\ d.cleanup_index = k
      /\ d.parent = c.parent /\ d.parent_index = c.parent_index
  BY <1>1, <1>2, AdvancedIsSound
<1>4. /\ DOMAIN n = DOMAIN m /\ n[here] = d
      /\ \A x \in DOMAIN m : x # here => n[x] = m[x]
  BY <1>1
<1>5. child \in NestedCells(m[here]) /\ child[2] = k /\ child = <<c.data, k>>
  BY <1>1, <1>2, NestedIs
<1>7. \A x \in NestedCells(c) : x = <<c.data, x[2]>> /\ x[2] \in Nat
  BY <1>1, NestedIs
<1>8. \A x \in NestedCells(c) : IF x[2] < k \/ x = child THEN x[2] < c.cleanup_index ELSE ~(x[2] < c.cleanup_index)
  BY <1>2, <1>5, <1>7
<1> HIDE DEF c, d, k
<1>10. \A x \in DOMAIN m : /\ n[x].container = m[x].container /\ n[x].data = m[x].data
                           /\ n[x].count = m[x].count /\ n[x].type = m[x].type
                           /\ n[x].parent = m[x].parent /\ n[x].parent_index = m[x].parent_index
                           /\ NestedCells(n[x]) = NestedCells(m[x])
                           /\ x # here => n[x] = m[x]
  BY <1>3, <1>4 DEF c
<1>11. CellsSound(n, u)
  BY <1>1, <1>3, <1>4 DEF CellsSound
<1>12. Reachable(n, u)
  BY <1>4, <1>10 DEF Heap, Reachable
<1>13. OwnedApart(n) /\ Allocated(n, blocks)
  BY <1>4, <1>10 DEF Heap, OwnedApart, Allocated
<1>14. \A o \in DOMAIN m : child \in NestedCells(m[o]) => o = here
  BY <1>1, <1>5, NestedApart DEF Heap
<1>15. Linked(n, u, path \cup {child})
  <2>1. \A a \in SlotsOf(u) : n[a].parent = NULL
    BY <1>10 DEF Heap, Linked, Reachable
  <2>2. ASSUME NEW o \in DOMAIN m, NEW x \in NestedCells(n[o])
        PROVE  IF x[2] < n[o].cleanup_index \/ x \in path \cup {child}
               THEN n[x].parent = o /\ n[x].parent_index = x[2]
               ELSE n[x].container = "none" /\ n[x].parent \in {NULL, o}
    <3>1. /\ x \in NestedCells(m[o]) /\ x \in DOMAIN m
          /\ n[x].parent = m[x].parent /\ n[x].parent_index = m[x].parent_index
          /\ n[x].container = m[x].container
      BY <1>10, <2>2 DEF Heap, Reachable
    <3>2. IF x[2] < m[o].cleanup_index \/ x \in path
          THEN m[x].parent = o /\ m[x].parent_index = x[2]
          ELSE m[x].container = "none" /\ m[x].parent \in {NULL, o}
      BY <3>1 DEF Heap, Linked
    <3>3. CASE o = here
      BY <1>3, <1>4, <1>8, <3>1, <3>2, <3>3 DEF c
    <3>4. CASE o # here
      BY <1>4, <1>14, <3>1, <3>2, <3>4
    <3> QED BY <3>3, <3>4
  <2> QED BY <1>4, <2>1, <2>2 DEF Linked
<1>16. Acyclic(n)
  <2>1. PICK depth : Deepens(m, depth)
    BY DEF Heap, Acyclic
  <2>2. Deepens(n, depth)
    BY <1>4, <1>10, <2>1 DEF Deepens
  <2> QED BY <2>2 DEF Acyclic
<1>17. Trail(n, u, path \cup {child}, child, root)
  <2>1. child \in DOMAIN m /\ child \notin SlotsOf(u) /\ child # here
    BY <1>1, <1>5, NestedApart, NotInItself DEF Heap, Reachable
  <2>2. ASSUME NEW x \in path \cup {child}
        PROVE  IF x \in SlotsOf(u) THEN x = root
               ELSE \E o \in path \cup {child} : x \in NestedCells(n[o]) /\ x[2] = n[o].cleanup_index
    <3>1. CASE x = child
      <4>1. here \in path /\ x \in NestedCells(n[here]) /\ x[2] = n[here].cleanup_index
        BY <1>1, <1>3, <1>4, <1>5, <1>10, <3>1 DEF Trail
      <4> QED BY <2>1, <3>1, <4>1
    <3>2. CASE x \in path /\ x \notin SlotsOf(u)
      <4>1. PICK o \in path : x \in NestedCells(m[o]) /\ x[2] = m[o].cleanup_index
        BY <3>2 DEF Trail
      <4>2. o # here /\ o \in DOMAIN m
        BY <3>2, <4>1 DEF Trail
      <4>3. n[o] = m[o]
        BY <1>4, <4>2
      <4> QED BY <3>2, <4>1, <4>3
    <3>3. CASE x \in path /\ x \in SlotsOf(u)
      BY <3>3 DEF Trail
    <3> QED BY <3>1, <3>2, <3>3
  <2>3. ASSUME NEW x \in NestedCells(n[child]) PROVE x \notin path \cup {child}
    <3>1. x \in NestedCells(m[child])
      BY <1>10, <2>1, <2>3
    <3>2. x # child
      BY <2>1, <3>1, NotInItself DEF Heap
    <3>3. ASSUME x \in path PROVE FALSE
      <4>1. x \notin SlotsOf(u) /\ \A b \in DOMAIN m : x \in NestedCells(m[b]) => b = child
        BY <2>1, <3>1, NestedApart DEF Heap
      <4>2. PICK o \in path : x \in NestedCells(m[o])
        BY <3>3, <4>1 DEF Trail
      <4> QED BY <1>5, <4>1, <4>2 DEF Trail
    <3> QED BY <3>2, <3>3
  <2> QED BY <1>4, <2>1, <2>2, <2>3 DEF Trail
<1> QED BY <1>4, <1>10, <1>11, <1>12, <1>13, <1>15, <1>16, <1>17 DEF Heap

LEMMA LeastOf ==
  ASSUME NEW T \in SUBSET Nat, T # {}
  PROVE  \E x \in T : \A y \in T : x <= y
<1> DEFINE R == OpToRel(<, Nat)
<1>1. PICK x \in T : \A y \in T : ~ (<<y, x>> \in R)
  BY NatLessThanWellFounded, WFMin, Zenon
<1>2. ASSUME NEW y \in T PROVE x <= y
  <2>1. ~ (<<y, x>> \in {p \in Nat \X Nat : p[1] < p[2]})
    BY <1>1, <1>2 DEF OpToRel
  <2> QED BY <2>1
<1> QED BY <1>2

\* Among any cells there is one that is in none of the others.
LEMMA Outermost ==
  ASSUME NEW m, Acyclic(m), NEW S \in SUBSET (DOMAIN m), S # {}
  PROVE  \E x \in S : \A o \in S : x \notin NestedCells(m[o])
<1>1. PICK depth : Deepens(m, depth)
  BY DEF Acyclic
<1>2. depth \in [DOMAIN m -> Nat] /\ \A o \in DOMAIN m : \A x \in NestedCells(m[o]) : depth[o] < depth[x]
  BY <1>1 DEF Deepens
<1> DEFINE T == {depth[x] : x \in S}
<1>3. T \in SUBSET Nat /\ T # {}
  BY <1>2
<1> HIDE DEF T
<1>4. PICK k \in T : \A y \in T : k <= y
  BY <1>3, LeastOf
<1>5. PICK x \in S : depth[x] = k
  BY <1>4 DEF T
<1>6. ASSUME NEW o \in S, x \in NestedCells(m[o]) PROVE FALSE
  <2>1. depth[o] < depth[x] /\ depth[o] \in T /\ depth[o] \in Nat /\ depth[x] \in Nat
    BY <1>2, <1>6 DEF T
  <2> QED BY <1>4, <1>5, <2>1
<1> QED BY <1>6

\* Back at a slot, a release has come back from everywhere.
LEMMA TrailEnds ==
  ASSUME NEW u \in Setups, NEW m, NEW blocks, NEW path, NEW here, NEW root,
         Heap(m, u, blocks, path), Trail(m, u, path, here, root), here \in SlotsOf(u)
  PROVE  path = {here} /\ here = root
<1>1. here = root
  BY DEF Trail
<1>2. ASSUME path \ {here} # {} PROVE FALSE
  <2>1. PICK x \in path \ {here} : \A o \in path \ {here} : x \notin NestedCells(m[o])
    BY <1>2, Outermost DEF Heap, Trail
  <2>2. x \notin SlotsOf(u)
    BY <1>1, <2>1 DEF Trail
  <2>3. PICK o \in path : x \in NestedCells(m[o])
    BY <2>1, <2>2 DEF Trail
  <2>4. o = here
    BY <2>1, <2>3
  <2> QED BY <2>1, <2>3, <2>4 DEF Trail
<1> QED BY <1>1, <1>2 DEF Trail

\* If every slot is empty, there is nothing else.
LEMMA EmptySlotsEmptyHeap ==
  ASSUME NEW u \in Setups, NEW m, NEW blocks, NEW path, Heap(m, u, blocks, path),
         \A a \in SlotsOf(u) : m[a] = Zero
  PROVE  DOMAIN m = SlotsOf(u) /\ \A x : x \notin blocks
<1>1. DOMAIN m = SlotsOf(u)
  <2> SUFFICES ASSUME DOMAIN m \ SlotsOf(u) # {} PROVE FALSE
    BY DEF Heap, Reachable
  <2>1. PICK x \in DOMAIN m \ SlotsOf(u) : \A o \in DOMAIN m \ SlotsOf(u) : x \notin NestedCells(m[o])
    BY Outermost DEF Heap
  <2>2. PICK o \in DOMAIN m : x \in NestedCells(m[o])
    BY <2>1 DEF Heap, Reachable
  <2>3. m[o] = Zero
    BY <2>1, <2>2
  <2> QED BY <2>2, <2>3, ZeroIsSound
<1>2. \A a \in DOMAIN m : m[a].data = 0
  BY <1>1, ZeroIsSound
<1> QED BY <1>1, <1>2 DEF Heap, Allocated

\* The cell gives up what it owns; back to the tuple around it.
Cleared(m, here) == [a \in DOMAIN m \ NestedCells(m[here]) |-> IF a = here THEN Zero ELSE m[a]]

Emptied(m, u, here, n) ==
  /\ here \in DOMAIN n /\ n[here] = Zero
  /\ \A x \in DOMAIN m : x \in NestedCells(m[here]) => m[x].data = 0 /\ x \notin SlotsOf(u)
  /\ \A x \in DOMAIN n : x \in DOMAIN m /\ (x # here => n[x] = m[x])

LEMMA ClearKeepsHeap ==
  ASSUME NEW u \in Setups, NEW m, NEW blocks, NEW path, NEW here, NEW root,
         Heap(m, u, blocks, path), Trail(m, u, path, here, root),
         m[here].container = "tuple" => m[here].cleanup_index = 0,
         NEW n, n = Cleared(m, here)
  PROVE  /\ Heap(n, u, blocks \ {m[here].data}, path \ {here})
         /\ Emptied(m, u, here, n)
         /\ IF here \in SlotsOf(u) THEN m[here].parent = NULL /\ path = {here} /\ here = root
            ELSE m[here].parent # NULL /\ Trail(n, u, path \ {here}, m[here].parent, root)
<1>1. /\ here \in DOMAIN m /\ here \in path /\ path \subseteq DOMAIN m
      /\ \A x \in DOMAIN m : Sound(m[x], u) /\ m[x] \in CellRecords
  BY DEF Heap, Trail, CellsSound, Sound
<1> DEFINE below == NestedCells(m[here])
<1>2. /\ here \notin below /\ \A x \in below : x \notin SlotsOf(u) /\ x \in DOMAIN m /\ x \notin path
      /\ \A b \in DOMAIN m : \A x \in below : x \in NestedCells(m[b]) => b = here
  <2>1. here \notin below
    BY <1>1, NotInItself DEF Heap
  <2>2. \A x \in below : x \in DOMAIN m
    BY <1>1 DEF Heap, Reachable
  <2> QED BY <1>1, <2>1, <2>2, NestedApart DEF Heap, Trail
<1>3. \A x \in below : m[x].container = "none" /\ m[x].data = 0 /\ NestedCells(m[x]) = {}
  <2> SUFFICES ASSUME NEW x \in below PROVE m[x].container = "none"
    BY <1>1, <1>2 DEF Sound, NestedCells
  <2>1. m[here].container = "tuple" /\ x[2] \in Nat
    BY <1>1, NestedApart DEF Heap
  <2>2. ~(x[2] < m[here].cleanup_index) /\ x \notin path
    BY <1>2, <2>1
  <2> QED BY <1>1, <2>2 DEF Heap, Linked
<1>4. /\ DOMAIN n = DOMAIN m \ below /\ here \in DOMAIN n /\ n[here] = Zero
      /\ \A x \in DOMAIN n : x \in DOMAIN m /\ x \notin below /\ (x # here => n[x] = m[x])
  BY <1>1, <1>2 DEF Cleared
<1>5. /\ Sound(n[here], u) /\ n[here].data = 0 /\ NestedCells(n[here]) = {}
      /\ n[here].container = "none" /\ n[here].parent = NULL
  BY <1>4, ZeroIsSound
<1> HIDE DEF below
<1>6. CellsSound(n, u)
  BY <1>1, <1>4, <1>5 DEF CellsSound
<1>7. Reachable(n, u)
  <2>1. SlotsOf(u) \subseteq DOMAIN n
    BY <1>2, <1>4 DEF Heap, Reachable
  <2>2. ASSUME NEW a \in DOMAIN n, NEW x \in NestedCells(n[a]) PROVE x \in DOMAIN n
    <3>1. a # here /\ a \in DOMAIN m /\ x \in NestedCells(m[a])
      BY <1>4, <1>5, <2>2
    <3>2. x \in DOMAIN m /\ x \notin below
      BY <1>2, <3>1 DEF Heap, Reachable
    <3> QED BY <1>4, <3>2
  <2>3. ASSUME NEW a \in DOMAIN n, a \notin SlotsOf(u) PROVE \E o \in DOMAIN n : a \in NestedCells(n[o])
    <3>1. PICK o \in DOMAIN m : a \in NestedCells(m[o])
      BY <1>4, <2>3 DEF Heap, Reachable
    <3>2. o # here /\ o \notin below
      BY <1>3, <1>4, <3>1 DEF below
    <3> QED BY <1>4, <3>1, <3>2
  <2> QED BY <2>1, <2>2, <2>3 DEF Reachable
<1>8. OwnedApart(n)
  BY <1>4, <1>5 DEF Heap, OwnedApart
<1>9. Allocated(n, blocks \ {m[here].data})
  <2>1. ASSUME NEW x, x # 0, NEW a \in DOMAIN n, n[a].data = x PROVE x \in blocks \ {m[here].data}
    <3>1. a # here /\ a \in DOMAIN m /\ m[a].data = x
      BY <1>4, <1>5, <2>1
    <3> QED BY <1>1, <2>1, <3>1 DEF Heap, Allocated, OwnedApart
  <2>2. ASSUME NEW x \in blocks \ {m[here].data} PROVE x # 0 /\ \E a \in DOMAIN n : n[a].data = x
    <3>1. PICK a \in DOMAIN m : m[a].data = x /\ x # 0
      BY <2>2 DEF Heap, Allocated
    <3>2. a # here /\ a \notin below
      BY <1>3, <2>2, <3>1
    <3> QED BY <1>4, <3>1, <3>2
  <2> QED BY <2>1, <2>2 DEF Allocated
<1>10. \A o \in DOMAIN m : here \in NestedCells(m[o]) =>
          /\ o # here /\ o \in path /\ here[2] = m[o].cleanup_index /\ here \notin SlotsOf(u)
          /\ m[here].parent = o
  <2> SUFFICES ASSUME NEW o \in DOMAIN m, here \in NestedCells(m[o])
               PROVE  /\ o # here /\ o \in path /\ here[2] = m[o].cleanup_index /\ here \notin SlotsOf(u)
                      /\ m[here].parent = o
    OBVIOUS
  <2>1. o # here /\ here \notin SlotsOf(u) /\ \A b \in DOMAIN m : here \in NestedCells(m[b]) => b = o
    BY NestedApart, NotInItself DEF Heap
  <2>2. PICK b \in path : here \in NestedCells(m[b]) /\ here[2] = m[b].cleanup_index
    BY <1>1, <2>1 DEF Trail
  <2>3. m[here].parent = o
    BY <1>1 DEF Heap, Linked
  <2> QED BY <1>1, <2>1, <2>2, <2>3
<1>11. Linked(n, u, path \ {here})
  <2>1. \A a \in SlotsOf(u) : n[a].parent = NULL
    BY <1>2, <1>4, <1>5 DEF Heap, Linked, Reachable
  <2>2. ASSUME NEW o \in DOMAIN n, NEW x \in NestedCells(n[o])
        PROVE  IF x[2] < n[o].cleanup_index \/ x \in path \ {here}
               THEN n[x].parent = o /\ n[x].parent_index = x[2]
               ELSE n[x].container = "none" /\ n[x].parent \in {NULL, o}
    <3>1. o # here /\ o \in DOMAIN m /\ n[o] = m[o] /\ x \in NestedCells(m[o]) /\ x \in DOMAIN n
      BY <1>4, <1>5, <1>7, <2>2 DEF Reachable
    <3>2. CASE x = here
      <4>1. ~(x[2] < n[o].cleanup_index) /\ x \notin path \ {here}
        BY <1>1, <1>10, <3>1, <3>2 DEF CellRecords
      <4> QED BY <1>5, <3>2, <4>1
    <3>3. CASE x # here
      BY <1>4, <3>1, <3>3 DEF Heap, Linked
    <3> QED BY <3>2, <3>3
  <2> QED BY <2>1, <2>2 DEF Linked
<1>12. Acyclic(n)
  <2>1. PICK depth : Deepens(m, depth)
    BY DEF Heap, Acyclic
  <2> DEFINE d == [a \in DOMAIN n |-> depth[a]]
  <2>2. d \in [DOMAIN n -> Nat]
    BY <1>4, <2>1 DEF Deepens
  <2>3. ASSUME NEW o \in DOMAIN n, NEW x \in NestedCells(n[o]) PROVE d[o] < d[x]
    <3>1. o # here /\ o \in DOMAIN m /\ x \in NestedCells(m[o]) /\ x \in DOMAIN n
      BY <1>4, <1>5, <1>7, <2>3 DEF Reachable
    <3> QED BY <2>1, <3>1 DEF Deepens
  <2>4. Deepens(n, d)
    BY <2>2, <2>3 DEF Deepens
  <2> QED BY <2>4 DEF Acyclic
<1>13. CASE here \in SlotsOf(u)
  <2>1. m[here].parent = NULL /\ path = {here} /\ here = root
    BY <1>13, TrailEnds DEF Heap, Linked
  <2> QED BY <1>2, <1>4, <1>6, <1>7, <1>8, <1>9, <1>11, <1>12, <1>13, <1>3, <2>1 DEF Heap, below, Emptied
<1>14. CASE here \notin SlotsOf(u)
  <2>1. PICK o \in DOMAIN m : here \in NestedCells(m[o])
    BY <1>1, <1>14 DEF Heap, Reachable
  <2>2. /\ m[here].parent = o /\ o # here /\ o \in path /\ here[2] = m[o].cleanup_index
        /\ o \in Nat \X Nat
    BY <1>1, <1>10, <2>1, SlotsAre, NestedIs DEF Heap, Reachable
  <2>3. m[here].parent # NULL
    BY <2>2, AddressIsNotNull
  <2>4. \A x \in path \ {here} : x \in DOMAIN n /\ n[x] = m[x]
    BY <1>1, <1>2, <1>4
  <2>5. \A x \in path \ {here} : x \notin SlotsOf(u) =>
           \E b \in path \ {here} : x \in NestedCells(n[b]) /\ x[2] = n[b].cleanup_index
    <3> SUFFICES ASSUME NEW x \in path \ {here}, x \notin SlotsOf(u)
                 PROVE  \E b \in path \ {here} : x \in NestedCells(n[b]) /\ x[2] = n[b].cleanup_index
      OBVIOUS
    <3>1. PICK b \in path : x \in NestedCells(m[b]) /\ x[2] = m[b].cleanup_index
      BY DEF Trail
    <3>2. b # here
      BY <1>2, <3>1 DEF below
    <3> QED BY <2>4, <3>1, <3>2
  <2>6. ASSUME NEW x \in NestedCells(n[o]), x \in path, x # here PROVE FALSE
    <3>1. x \in NestedCells(m[o])
      BY <2>2, <2>4, <2>6
    <3>2. x \notin SlotsOf(u) /\ \A b \in DOMAIN m : x \in NestedCells(m[b]) => b = o
      BY <2>1, <3>1, NestedApart DEF Heap
    <3>3. x[2] = m[o].cleanup_index
      BY <1>1, <2>6, <3>2 DEF Trail
    <3>4. x = <<m[o].data, x[2]>> /\ here = <<m[o].data, here[2]>>
      BY <1>1, <2>1, <3>1, NestedIs
    <3> QED BY <2>2, <2>6, <3>3, <3>4
  <2>7. Trail(n, u, path \ {here}, o, root)
    BY <2>2, <2>4, <2>5, <2>6 DEF Trail
  <2> QED BY <1>2, <1>4, <1>6, <1>7, <1>8, <1>9, <1>11, <1>12, <1>14, <1>3, <2>2, <2>3, <2>7 DEF Heap, below, Emptied
<1> QED BY <1>13, <1>14

(***************************************************************************)
(* The bytes of a memory, each by the allocation it is in.                 *)
(***************************************************************************)

OwnedOf(c) == {<<c.data, i>> : i \in 1 .. Bytes(c)}
BytesOf(m) == UNION {OwnedOf(m[a]) : a \in DOMAIN m}

Accounted(m, bytes) == IsFiniteSet(BytesOf(m)) /\ Cardinality(BytesOf(m)) = bytes

LEMMA BytesAre ==
  ASSUME NEW u \in Setups, NEW c, Sound(c, u)
  PROVE  /\ Bytes(c) \in Nat /\ c.data \in Nat
         /\ c.data = 0 => Bytes(c) = 0
         /\ c.container \in {"none", "scalar"} => Bytes(c) = 0
<1>1. c \in CellRecords /\ c.count \in Nat /\ c.data \in Nat /\ c.container \in Containers
  BY DEF Sound, CellRecords
<1>2. CASE c.container = "vector"
  <2>1. Bytes(c) = c.count * ByteWidth(c.type)
    BY <1>2 DEF Bytes
  <2>2. ByteWidth(c.type) = 1 \/ ByteWidth(c.type) = 8
    BY DEF ByteWidth
  <2>3. (c.data = 0 <=> c.count = 0)
    BY <1>2 DEF Sound
  <2>4. CASE ByteWidth(c.type) = 1
    BY <1>1, <1>2, <2>1, <2>3, <2>4
  <2>5. CASE ByteWidth(c.type) = 8
    BY <1>1, <1>2, <2>1, <2>3, <2>5
  <2> QED BY <2>2, <2>4, <2>5
<1>3. CASE c.container = "tuple"
  <2>1. Bytes(c) = c.count * 16 /\ (c.data = 0 <=> c.count = 0)
    BY <1>3 DEF Bytes, Sound, SlotBytes
  <2> QED BY <1>1, <1>3, <2>1
<1>4. CASE c.container # "vector" /\ c.container # "tuple"
  BY <1>1, <1>4 DEF Bytes
<1> QED BY <1>2, <1>3, <1>4

LEMMA OwnedOfIs ==
  ASSUME NEW u \in Setups, NEW c, Sound(c, u)
  PROVE  /\ IsFiniteSet(OwnedOf(c)) /\ Cardinality(OwnedOf(c)) = Bytes(c)
         /\ Bytes(c) \in Nat
         /\ \A x \in OwnedOf(c) : x[1] = c.data /\ c.data # 0
         /\ c.data = 0 => OwnedOf(c) = {}
<1> DEFINE b == Bytes(c)
           f == [i \in 1 .. b |-> <<c.data, i>>]
<1>1. b \in Nat /\ (c.data = 0 => b = 0)
  BY BytesAre
<1> HIDE DEF b
<1>2. f \in Bijection(1 .. b, OwnedOf(c))
  <2>1. f \in [1 .. b -> OwnedOf(c)]
    BY DEF OwnedOf, b
  <2>2. \A i, j \in 1 .. b : f[i] = f[j] => i = j
    OBVIOUS
  <2>3. \A x \in OwnedOf(c) : \E i \in 1 .. b : f[i] = x
    BY DEF OwnedOf, b
  <2> QED BY <2>1, <2>2, <2>3 DEF Bijection, Injection, IsInjective, Surjection
<1>3. IsFiniteSet(1 .. b) /\ Cardinality(1 .. b) = b
  BY <1>1, FS_Interval
<1>4. IsFiniteSet(OwnedOf(c)) /\ Cardinality(OwnedOf(c)) = b
  BY <1>2, <1>3, FS_Bijection DEF ExistsBijection
<1>5. \A x \in OwnedOf(c) : x[1] = c.data /\ c.data # 0
  BY <1>1 DEF OwnedOf, b
<1> QED BY <1>1, <1>4, <1>5 DEF b

LEMMA SameOwned ==
  ASSUME NEW c, NEW d, c.container = d.container, c.type = d.type, c.count = d.count, c.data = d.data
  PROVE  OwnedOf(c) = OwnedOf(d)
BY DEF OwnedOf, Bytes

LEMMA InBytesOf ==
  ASSUME NEW m
  PROVE  \A x : x \in BytesOf(m) <=> \E a \in DOMAIN m : x \in OwnedOf(m[a])
BY DEF BytesOf

\* What a cell owns is added to what the others do.
LEMMA BytesAdded ==
  ASSUME NEW u \in Setups, NEW m, NEW bytes \in Nat, Accounted(m, bytes), NEW blocks, CellsSound(m, u), Allocated(m, blocks),
         NEW c, Sound(c, u), c.data \notin blocks,
         NEW n, BytesOf(n) = BytesOf(m) \cup OwnedOf(c)
  PROVE  Accounted(n, bytes + Bytes(c))
<1>1. /\ IsFiniteSet(OwnedOf(c)) /\ Cardinality(OwnedOf(c)) = Bytes(c) /\ Bytes(c) \in Nat
      /\ \A x \in OwnedOf(c) : x[1] = c.data /\ c.data # 0
  BY OwnedOfIs
<1>2. BytesOf(m) \cap OwnedOf(c) = {}
  <2> SUFFICES ASSUME NEW x \in OwnedOf(c), x \in BytesOf(m) PROVE FALSE
    OBVIOUS
  <2>1. PICK a \in DOMAIN m : x \in OwnedOf(m[a])
    BY InBytesOf
  <2>2. Sound(m[a], u)
    BY DEF CellsSound
  <2>3. x[1] = m[a].data /\ m[a].data # 0
    BY <2>1, <2>2, OwnedOfIs
  <2> QED BY <1>1, <2>3 DEF Allocated
<1>3. Cardinality(BytesOf(m) \cap OwnedOf(c)) = 0
  BY <1>2, FS_EmptySet
<1>4. IsFiniteSet(BytesOf(n)) /\ Cardinality(BytesOf(n)) = bytes + Bytes(c) - 0
  <2>1. IsFiniteSet(BytesOf(m)) /\ Cardinality(BytesOf(m)) = bytes
    BY DEF Accounted
  <2> DEFINE S == BytesOf(m)
             T == OwnedOf(c)
  <2>2. IsFiniteSet(S) /\ IsFiniteSet(T)
    BY <1>1, <2>1
  <2>3. IsFiniteSet(S \cup T) /\ Cardinality(S \cup T) = Cardinality(S) + Cardinality(T) - Cardinality(S \cap T)
    BY <2>2, FS_Union, Zenon
  <2> QED BY <1>1, <1>3, <2>1, <2>3
<1> QED BY <1>1, <1>4 DEF Accounted

LEMMA BytesRemoved ==
  ASSUME NEW m, NEW bytes \in Nat, Accounted(m, bytes), NEW u \in Setups, NEW c, Sound(c, u),
         OwnedOf(c) \subseteq BytesOf(m), NEW n, BytesOf(n) = BytesOf(m) \ OwnedOf(c)
  PROVE  Bytes(c) <= bytes /\ Accounted(n, bytes - Bytes(c))
<1> DEFINE o == OwnedOf(c)
<1>1. IsFiniteSet(o) /\ Cardinality(o) = Bytes(c) /\ Bytes(c) \in Nat
  BY OwnedOfIs
<1>2. IsFiniteSet(BytesOf(n)) /\ Cardinality(BytesOf(n)) \in Nat
  BY FS_Subset, FS_CardinalityType DEF Accounted
<1>3. BytesOf(n) \cap o = {} /\ BytesOf(m) = BytesOf(n) \cup o
  OBVIOUS
<1> HIDE DEF o
<1>4. Cardinality(BytesOf(n) \cap o) = 0
  BY <1>3, FS_EmptySet
<1>5. Cardinality(BytesOf(m)) = Cardinality(BytesOf(n)) + Cardinality(o) - 0
  BY <1>1, <1>2, <1>3, <1>4, FS_Union
<1> QED BY <1>1, <1>2, <1>5 DEF Accounted

LEMMA PutCounts ==
  ASSUME NEW u \in Setups, NEW m, NEW blocks, NEW path, Heap(m, u, blocks, path),
         NEW bytes \in Nat, Accounted(m, bytes),
         NEW s \in 1 .. u.slots, m[Slot(s)].container = "none",
         NEW c, Sound(c, u), c.data \notin blocks, NEW n, CellPut(m, Slot(s), c, n)
  PROVE  Accounted(n, bytes + Bytes(c))
<1> DEFINE p == Slot(s)
<1>1. p \in DOMAIN m /\ Sound(m[p], u) /\ m[p].data = 0
  BY SlotsAre DEF Heap, Reachable, CellsSound, Sound
<1>2. DOMAIN n = DOMAIN m /\ n[p] = c /\ \A a \in DOMAIN m : a # p => n[a] = m[a]
  BY <1>1 DEF CellPut
<1>3. OwnedOf(m[p]) = {}
  BY <1>1, OwnedOfIs
<1> HIDE DEF p
<1>4. BytesOf(n) = BytesOf(m) \cup OwnedOf(c)
  <2>1. \A x : x \in BytesOf(n) <=> x \in BytesOf(m) \/ x \in OwnedOf(c)
    BY <1>1, <1>2, <1>3, InBytesOf
  <2> QED BY <2>1
<1> QED BY <1>4, BytesAdded DEF Heap

LEMMA TableCounts ==
  ASSUME NEW u \in Setups, NEW m, NEW blocks, NEW path, Heap(m, u, blocks, path),
         NEW bytes \in Nat, Accounted(m, bytes),
         NEW s \in 1 .. u.slots, m[Slot(s)].container = "none",
         NEW c, Sound(c, u), c.data \notin blocks, NEW n, TableAdded(m, Slot(s), c, n)
  PROVE  Accounted(n, bytes + Bytes(c))
<1> DEFINE p == Slot(s)
<1>1. p \in DOMAIN m /\ Sound(m[p], u) /\ m[p].data = 0 /\ p \in Nat \X Nat
  BY SlotsAre DEF Heap, Reachable, CellsSound, Sound
<1>2. /\ DOMAIN n = DOMAIN m \cup NestedCells(c) /\ n[p] = c
      /\ \A x \in DOMAIN m : x # p => n[x] = m[x]
      /\ \A x \in NestedCells(c) : n[x] = EmptyElement(p, x[2])
  BY DEF TableAdded
<1>3. OwnedOf(m[p]) = {}
  BY <1>1, OwnedOfIs
<1>4. ASSUME NEW x \in NestedCells(c) PROVE OwnedOf(n[x]) = {}
  <2>1. x[2] \in Nat /\ x[2] <= Width
    BY NestedIs, SetupHas DEF Sound, CellRecords
  <2> HIDE DEF p
  <2>2. Sound(EmptyElement(p, x[2]), u) /\ EmptyElement(p, x[2]).data = 0
    BY <1>1, <2>1, EmptyElementIs
  <2>3. OwnedOf(EmptyElement(p, x[2])) = {}
    BY <2>2, OwnedOfIs
  <2> QED BY <1>2, <2>3
<1> HIDE DEF p
<1>5. BytesOf(n) = BytesOf(m) \cup OwnedOf(c)
  <2>1. \A x : x \in BytesOf(n) <=> x \in BytesOf(m) \/ x \in OwnedOf(c)
    BY <1>1, <1>2, <1>3, <1>4, InBytesOf
  <2> QED BY <2>1
<1> QED BY <1>5, BytesAdded DEF Heap

LEMMA MovesCount ==
  ASSUME NEW u \in Setups, NEW m, NEW blocks, Heap(m, u, blocks, {}), NEW r \in Nat, NEW p, NEW src,
         Movable(m, u, p, src, r), NEW n, CellsMoved(m, p, src, r, n),
         NEW bytes \in Nat, Accounted(m, bytes)
  PROVE  Accounted(n, bytes)
<1>1. Touched(m, u, p, src, r) /\ Moved(m, p, src, r, n) /\ DOMAIN n = DOMAIN m
  BY MoveTouches, MovedCells DEF CellsMoved
<1>2. \A x \in DOMAIN m : Sound(m[x], u)
  BY DEF Heap, CellsSound
<1> DEFINE place(j) == Target(m, p, j)
<1>3. p \in DOMAIN m /\ OwnedOf(n[p]) = OwnedOf(m[p])
  <2>1. p \in DOMAIN m /\ m[p].container = "tuple"
    BY <1>1 DEF Touched, Movable
  <2>2. n[p].container = "tuple" /\ n[p].count = m[p].count /\ n[p].data = m[p].data
    BY <1>1 DEF Moved
  <2> QED BY <2>1, <2>2 DEF OwnedOf, Bytes
<1>4. ASSUME NEW j \in 1 .. r
      PROVE  /\ place(j) \in DOMAIN m /\ src[j] \in DOMAIN m
             /\ OwnedOf(n[place(j)]) = OwnedOf(m[src[j]])
             /\ OwnedOf(m[place(j)]) = {} /\ OwnedOf(n[src[j]]) = {}
  <2>1. place(j) \in DOMAIN m /\ src[j] \in DOMAIN m /\ m[place(j)].data = 0
    BY <1>1 DEF Touched
  <2>2. SameContent(n[place(j)], m[src[j]]) /\ n[src[j]] = Zero
    BY <1>1 DEF Moved
  <2> HIDE DEF place
  <2>3. OwnedOf(m[place(j)]) = {} /\ OwnedOf(n[src[j]]) = {}
    BY <1>2, <2>1, <2>2, OwnedOfIs, ZeroIsSound
  <2> QED BY <2>1, <2>2, <2>3, SameOwned DEF SameContent
<1>5. ASSUME NEW x \in DOMAIN m, x # p
      PROVE  \/ \E j \in 1 .. r : x = place(j) \/ x = src[j]
             \/ OwnedOf(n[x]) = OwnedOf(m[x])
  <2>1. CASE \E j \in 1 .. r : x \in NestedCells(m[src[j]])
    <3>1. PICK j \in 1 .. r : x \in NestedCells(m[src[j]])
      BY <2>1
    <3>2. SameContent(n[x], m[x])
      BY <1>1, <3>1 DEF Moved
    <3> QED BY <3>2, SameOwned DEF SameContent
  <2>2. CASE ~ \E j \in 1 .. r : x \in NestedCells(m[src[j]])
    BY <1>1, <1>5, <2>2 DEF Moved
  <2> QED BY <2>1, <2>2
<1> HIDE DEF place
<1>6. BytesOf(n) = BytesOf(m)
  <2>1. ASSUME NEW x \in BytesOf(n) PROVE x \in BytesOf(m)
    <3>1. PICK a \in DOMAIN m : x \in OwnedOf(n[a])
      BY <1>1, InBytesOf
    <3>2. \E b \in DOMAIN m : x \in OwnedOf(m[b])
      BY <1>3, <1>4, <1>5, <3>1
    <3> QED BY <3>2, InBytesOf
  <2>2. ASSUME NEW x \in BytesOf(m) PROVE x \in BytesOf(n)
    <3>1. PICK a \in DOMAIN m : x \in OwnedOf(m[a])
      BY InBytesOf
    <3>2. \E b \in DOMAIN m : x \in OwnedOf(n[b])
      BY <1>3, <1>4, <1>5, <3>1
    <3> QED BY <1>1, <3>2, InBytesOf
  <2> QED BY <2>1, <2>2
<1> QED BY <1>6 DEF Accounted

LEMMA DescendCounts ==
  ASSUME NEW m, NEW bytes, Accounted(m, bytes), NEW n, DOMAIN n = DOMAIN m,
         \A x \in DOMAIN m : /\ n[x].container = m[x].container /\ n[x].data = m[x].data
                             /\ n[x].count = m[x].count /\ n[x].type = m[x].type
  PROVE  Accounted(n, bytes)
<1>1. \A x \in DOMAIN m : OwnedOf(n[x]) = OwnedOf(m[x])
  BY SameOwned
<1>2. BytesOf(n) = BytesOf(m)
  BY <1>1 DEF BytesOf
<1> QED BY <1>2 DEF Accounted

LEMMA ClearCounts ==
  ASSUME NEW u \in Setups, NEW m, NEW blocks, NEW path, NEW here, NEW root,
         Heap(m, u, blocks, path), Trail(m, u, path, here, root),
         m[here].container = "tuple" => m[here].cleanup_index = 0,
         NEW n, n = Cleared(m, here),
         NEW bytes \in Nat, Accounted(m, bytes)
  PROVE  /\ Bytes(m[here]) \in Nat /\ Bytes(m[here]) <= bytes
         /\ Accounted(n, bytes - Bytes(m[here]))
<1>1. /\ here \in DOMAIN m /\ \A x \in DOMAIN m : Sound(m[x], u)
  BY DEF Heap, Trail, CellsSound
<1>2. /\ here \in DOMAIN n /\ n[here] = Zero
      /\ \A x \in DOMAIN m : x \in NestedCells(m[here]) => m[x].data = 0
      /\ \A x \in DOMAIN n : x \in DOMAIN m /\ (x # here => n[x] = m[x])
  <2>1. Emptied(m, u, here, n)
    BY ClearKeepsHeap
  <2> QED BY <2>1 DEF Emptied
<1>3. \A x : x \in DOMAIN n <=> x \in DOMAIN m /\ x \notin NestedCells(m[here])
  BY DEF Cleared
<1>4. OwnedOf(n[here]) = {} /\ \A x \in DOMAIN m : x \in NestedCells(m[here]) => OwnedOf(m[x]) = {}
  BY <1>1, <1>2, OwnedOfIs, ZeroIsSound
<1>5. \A a \in DOMAIN m : \A x \in OwnedOf(m[a]) : x \in OwnedOf(m[here]) => a = here
  BY <1>1, OwnedOfIs DEF Heap, OwnedApart
<1>6. BytesOf(n) = BytesOf(m) \ OwnedOf(m[here])
  <2>1. ASSUME NEW x \in BytesOf(n) PROVE x \in BytesOf(m) /\ x \notin OwnedOf(m[here])
    <3>1. PICK a \in DOMAIN n : x \in OwnedOf(n[a])
      BY InBytesOf
    <3>2. a # here /\ a \in DOMAIN m /\ n[a] = m[a]
      BY <1>2, <1>3, <1>4, <3>1
    <3> QED BY <1>5, <3>1, <3>2, InBytesOf
  <2>2. ASSUME NEW x \in BytesOf(m), x \notin OwnedOf(m[here]) PROVE x \in BytesOf(n)
    <3>1. PICK a \in DOMAIN m : x \in OwnedOf(m[a])
      BY InBytesOf
    <3>2. a # here /\ a \in DOMAIN n /\ n[a] = m[a]
      BY <1>2, <1>3, <1>4, <2>2, <3>1
    <3> QED BY <3>1, <3>2, InBytesOf
  <2> QED BY <2>1, <2>2
<1>7. OwnedOf(m[here]) \subseteq BytesOf(m)
  BY <1>1, InBytesOf
<1>8. Bytes(m[here]) \in Nat
  BY <1>1, BytesAre
<1> QED BY <1>1, <1>6, <1>7, <1>8, BytesRemoved

(***************************************************************************)
(* Placing cells in a table, one after the other.                          *)
(***************************************************************************)

PlacedAt(n, m, c, a, p, k) ==
  /\ DOMAIN n = {a} \cup DOMAIN m
  /\ n[a] = Relinked(c, p, k)
  /\ \A x \in NestedCells(c) : x # a => n[x] = Relinked(m[x], a, x[2])
  /\ \A x \in DOMAIN m : x # a /\ x \notin NestedCells(c) => n[x] = m[x]

LEMMA PlacedIs ==
  ASSUME NEW m, NEW c, NEW a, NEW p, NEW k, NestedCells(c) \subseteq DOMAIN m
  PROVE  PlacedAt(Placed(m, c, a, p, k), m, c, a, p, k)
BY DEF Placed, Relinked, PlacedAt

IsFilling(fill, m, p, block, cells, n) ==
  fill = [k \in 0 .. n |->
            IF k = 0 THEN m ELSE Placed(fill[k - 1], cells[k], <<block, k - 1>>, p, k - 1)]

LEMMA FillingExists ==
  ASSUME NEW m, NEW p, NEW block, NEW cells, NEW n \in Nat
  PROVE  \E fill : IsFilling(fill, m, p, block, cells, n)
<1> DEFINE T == {k \in Nat : ~ \E fill : IsFilling(fill, m, p, block, cells, k)}
           Next1(f, k) == Placed(f, cells[k], <<block, k - 1>>, p, k - 1)
<1>1. SUFFICES ASSUME T # {} PROVE FALSE
  OBVIOUS
<1>2. PICK r \in T : \A y \in T : r <= y
  BY <1>1, LeastOf
<1> HIDE DEF Next1
<1>3. CASE r = 0
  <2> DEFINE g == [k \in 0 .. 0 |-> m]
  <2>1. g = [k \in 0 .. 0 |-> IF k = 0 THEN m ELSE Next1(g[k - 1], k)]
    OBVIOUS
  <2> QED BY <1>2, <1>3, <2>1 DEF IsFilling, Next1
<1>4. CASE r # 0
  <2>1. r - 1 \in Nat /\ r - 1 \notin T
    BY <1>2, <1>4
  <2>2. PICK h : IsFilling(h, m, p, block, cells, r - 1)
    BY <2>1
  <2> DEFINE g == [k \in 0 .. r |-> IF k = r THEN Next1(h[r - 1], r) ELSE h[k]]
  <2>3. ASSUME NEW k \in 0 .. r
        PROVE  g[k] = IF k = 0 THEN m ELSE Next1(g[k - 1], k)
    <3>1. CASE k = r
      <4>1. r - 1 \in 0 .. r /\ r - 1 # r /\ g[r - 1] = h[r - 1]
        BY <2>1
      <4> QED BY <1>4, <3>1, <4>1
    <3>2. CASE k # r /\ k # 0
      <4>1. k \in 0 .. r - 1 /\ k - 1 \in 0 .. r /\ k - 1 # r
        BY <1>2, <3>2
      <4>2. h[k] = Next1(h[k - 1], k)
        BY <2>2, <3>2, <4>1 DEF IsFilling, Next1
      <4>3. g[k - 1] = h[k - 1] /\ g[k] = h[k]
        BY <3>2, <4>1
      <4> QED BY <3>2, <4>2, <4>3
    <3>3. CASE k # r /\ k = 0
      <4>1. 0 \in 0 .. r - 1
        BY <2>1
      <4> QED BY <2>2, <3>3, <4>1 DEF IsFilling
    <3> QED BY <3>1, <3>2, <3>3
  <2>4. g = [k \in 0 .. r |-> g[k]]
    OBVIOUS
  <2> HIDE DEF g
  <2>5. IsFilling(g, m, p, block, cells, r)
    BY <2>3, <2>4 DEF IsFilling, Next1
  <2> QED BY <1>2, <2>5
<1> QED BY <1>3, <1>4

LEMMA FilledIs ==
  ASSUME NEW m, NEW p, NEW block, NEW cells, Len(cells) \in Nat
  PROVE  \E fill : IsFilling(fill, m, p, block, cells, Len(cells))
                     /\ Filled(m, p, block, cells) = fill[Len(cells)]
<1> DEFINE f == CHOOSE fill : IsFilling(fill, m, p, block, cells, Len(cells))
<1>1. IsFilling(f, m, p, block, cells, Len(cells))
  BY FillingExists
<1>2. Filled(m, p, block, cells) = f[Len(cells)]
  BY DEF Filled, IsFilling
<1> QED BY <1>1, <1>2

\* The elements of the cells are in tables of their own.
Placeable(m, block, cells, r) ==
  \A i \in 1 .. r : \A x \in NestedCells(cells[i]) :
    /\ x \in DOMAIN m /\ x[1] # block
    /\ \A j \in 1 .. r : x \in NestedCells(cells[j]) => i = j

\* The memory f is m with the first k cells in the table.
FirstPlaced(f, m, p, block, cells, k) ==
  /\ DOMAIN f = DOMAIN m \cup {<<block, i - 1>> : i \in 1 .. k}
  /\ \A i \in 1 .. k :
       /\ f[<<block, i - 1>>] = Relinked(cells[i], p, i - 1)
       /\ \A x \in NestedCells(cells[i]) : f[x] = Relinked(m[x], <<block, i - 1>>, x[2])
  /\ \A x \in DOMAIN m :
       (\A i \in 1 .. k : x # <<block, i - 1>> /\ x \notin NestedCells(cells[i])) => f[x] = m[x]

LEMMA PlaceNext ==
  ASSUME NEW m, NEW p, NEW block, NEW cells, NEW r \in Nat, Placeable(m, block, cells, r),
         NEW k \in 1 .. r, NEW f, FirstPlaced(f, m, p, block, cells, k - 1),
         NEW n, n = Placed(f, cells[k], <<block, k - 1>>, p, k - 1)
  PROVE  FirstPlaced(n, m, p, block, cells, k)
<1> DEFINE place(i) == <<block, i - 1>>
<1>2. /\ DOMAIN f = DOMAIN m \cup {place(i) : i \in 1 .. k - 1}
      /\ \A i \in 1 .. k - 1 :
           /\ f[place(i)] = Relinked(cells[i], p, i - 1)
           /\ \A x \in NestedCells(cells[i]) : f[x] = Relinked(m[x], place(i), x[2])
      /\ \A x \in DOMAIN m :
           (\A i \in 1 .. k - 1 : x # place(i) /\ x \notin NestedCells(cells[i])) => f[x] = m[x]
  BY DEF FirstPlaced
<1>3. /\ \A i \in 1 .. r : i \in 1 .. k <=> i = k \/ i \in 1 .. k - 1
      /\ \A i \in 1 .. k - 1 : i \in 1 .. r /\ i # k
      /\ \A i \in 1 .. k : i \in 1 .. r
      /\ k \in 1 .. r
  OBVIOUS
<1>4. /\ \A i, j \in 1 .. r : place(i) = place(j) => i = j
      /\ \A i, j \in 1 .. r : place(i) \notin NestedCells(cells[j])
      /\ \A i, j \in 1 .. r : \A x \in NestedCells(cells[i]) : x \in NestedCells(cells[j]) => i = j
      /\ \A i \in 1 .. r : \A x \in NestedCells(cells[i]) : x \in DOMAIN m
  <2>1. \A i, j \in 1 .. r : place(i) \notin NestedCells(cells[j])
    BY DEF Placeable
  <2> QED BY <2>1 DEF Placeable
<1>1. /\ DOMAIN n = {place(k)} \cup DOMAIN f
      /\ n[place(k)] = Relinked(cells[k], p, k - 1)
      /\ \A x \in NestedCells(cells[k]) : x # place(k) => n[x] = Relinked(f[x], place(k), x[2])
      /\ \A x \in DOMAIN f : x # place(k) /\ x \notin NestedCells(cells[k]) => n[x] = f[x]
  <2>1. NestedCells(cells[k]) \subseteq DOMAIN f
    BY <1>2, <1>3, <1>4
  <2>2. PlacedAt(n, f, cells[k], <<block, k - 1>>, p, k - 1)
    BY <2>1, PlacedIs
  <2> QED BY <2>2 DEF PlacedAt
<1> HIDE DEF place
<1>5. DOMAIN n = DOMAIN m \cup {place(i) : i \in 1 .. k}
  <2>1. DOMAIN n = {place(k)} \cup (DOMAIN m \cup {place(i) : i \in 1 .. k - 1})
    BY <1>1, <1>2
  <2>2. \A i : i \in 1 .. k <=> i = k \/ i \in 1 .. k - 1
    OBVIOUS
  <2> QED BY <2>1, <2>2
<1>6. ASSUME NEW i \in 1 .. k PROVE n[place(i)] = Relinked(cells[i], p, i - 1)
  <2>1. CASE i = k
    BY <1>1, <2>1
  <2>2. CASE i \in 1 .. k - 1
    <3>1. place(i) # place(k) /\ place(i) \notin NestedCells(cells[k]) /\ place(i) \in DOMAIN f
      BY <1>2, <1>3, <1>4, <2>2
    <3> QED BY <1>1, <1>2, <2>2, <3>1
  <2> QED BY <1>3, <2>1, <2>2
<1>7. ASSUME NEW i \in 1 .. k, NEW x \in NestedCells(cells[i])
      PROVE  n[x] = Relinked(m[x], place(i), x[2])
  <2>1. i \in 1 .. r /\ x # place(k) /\ x \in DOMAIN m /\ x \in DOMAIN f
    BY <1>2, <1>3, <1>4
  <2>2. CASE i = k
    <3>1. \A j \in 1 .. k - 1 : x # place(j) /\ x \notin NestedCells(cells[j])
      BY <1>3, <1>4, <2>2
    <3>2. f[x] = m[x]
      BY <1>2, <2>1, <3>1
    <3> QED BY <1>1, <2>1, <2>2, <3>2
  <2>3. CASE i \in 1 .. k - 1
    <3>1. x \notin NestedCells(cells[k])
      BY <1>3, <1>4, <2>3
    <3> QED BY <1>1, <1>2, <2>1, <2>3, <3>1
  <2> QED BY <1>3, <2>1, <2>2, <2>3
<1>8. ASSUME NEW x \in DOMAIN m, \A i \in 1 .. k : x # place(i) /\ x \notin NestedCells(cells[i])
      PROVE  n[x] = m[x]
  <2>1. x \in DOMAIN f /\ x # place(k) /\ x \notin NestedCells(cells[k]) /\ f[x] = m[x]
    BY <1>2, <1>3, <1>8
  <2> QED BY <1>1, <2>1
<1> QED BY <1>5, <1>6, <1>7, <1>8 DEF FirstPlaced, place

LEMMA AllPlaced ==
  ASSUME NEW m, NEW p, NEW block, NEW cells, Len(cells) \in Nat,
         Placeable(m, block, cells, Len(cells))
  PROVE  FirstPlaced(Filled(m, p, block, cells), m, p, block, cells, Len(cells))
<1> DEFINE r == Len(cells)
<1>1. PICK fill : IsFilling(fill, m, p, block, cells, r) /\ Filled(m, p, block, cells) = fill[r]
  BY FilledIs
<1> DEFINE T == {k \in 0 .. r : ~ FirstPlaced(fill[k], m, p, block, cells, k)}
<1>2. T = {}
  <2> SUFFICES ASSUME T # {} PROVE FALSE
    OBVIOUS
  <2>1. T \in SUBSET Nat
    OBVIOUS
  <2>2. PICK k \in T : \A y \in T : k <= y
    BY <2>1, LeastOf
  <2>3. CASE k = 0
    <3>1. fill[0] = m
      BY <1>1 DEF IsFilling
    <3>2. FirstPlaced(m, m, p, block, cells, 0)
      <4>1. \A i : i \notin 1 .. 0
        OBVIOUS
      <4> QED BY <4>1 DEF FirstPlaced
    <3> QED BY <2>2, <2>3, <3>1, <3>2
  <2>4. CASE k # 0
    <3>1. k - 1 \in 0 .. r /\ k - 1 \notin T /\ k \in 1 .. r /\ k \in 0 .. r
      BY <2>2, <2>4
    <3>2. FirstPlaced(fill[k - 1], m, p, block, cells, k - 1)
      BY <3>1
    <3>3. fill[k] = Placed(fill[k - 1], cells[k], <<block, k - 1>>, p, k - 1)
      BY <1>1, <2>4, <3>1 DEF IsFilling
    <3>4. FirstPlaced(fill[k], m, p, block, cells, k)
      BY <3>1, <3>2, <3>3, PlaceNext
    <3> QED BY <2>2, <3>4
  <2> QED BY <2>3, <2>4
<1>3. r \in 0 .. r
  OBVIOUS
<1> QED BY <1>1, <1>2, <1>3

(***************************************************************************)
(* A tuple and its table.                                                  *)
(***************************************************************************)

LEMMA AddressesAre ==
  ASSUME NEW u \in Setups, NEW m, NEW blocks, NEW path, Heap(m, u, blocks, path), NEW a \in DOMAIN m
  PROVE  a \in Nat \X Nat /\ a[1] \in blocks \cup {0}
<1>1. CASE a \in SlotsOf(u)
  BY <1>1, SlotsAre
<1>2. CASE a \notin SlotsOf(u)
  <2>1. PICK o \in DOMAIN m : a \in NestedCells(m[o])
    BY <1>2 DEF Heap, Reachable
  <2>2. a[1] = m[o].data /\ m[o].data # 0
    BY <2>1, NestedApart DEF Heap
  <2>3. a \in Nat \X Nat
    BY <2>1, NestedIs DEF Heap, CellsSound, Sound
  <2> QED BY <2>2, <2>3 DEF Heap, Allocated
<1> QED BY <1>1, <1>2

\* The new tuple, as bennu_tuple makes it.
NewTuple(count, block) == Cell("tuple", "none", count, 0, block)

LEMMA NewTupleIs ==
  ASSUME NEW u \in Setups, NEW count \in 0 .. Width, NEW block \in Nat, block = 0 <=> count = 0
  PROVE  LET c == NewTuple(count, block) IN
         /\ Sound(c, u) /\ c.container = "tuple" /\ c.parent = NULL /\ c.cleanup_index = 0
         /\ c.data = block /\ c.count = count
         /\ \A x : x \in NestedCells(c) <=> \E i \in 1 .. count : x = <<block, i - 1>>
<1> DEFINE c == NewTuple(count, block)
<1>1. /\ c.container = "tuple" /\ c.type = "none" /\ c.count = count /\ c.value = 0
      /\ c.data = block /\ c.parent = NULL /\ c.parent_index = 0 /\ c.cleanup_index = 0
  BY DEF NewTuple, Cell
<1>2. c \in CellRecords
  <2>1. NULL \in {NULL} \cup (Nat \X Nat) /\ count \in Nat
    BY SetupHas
  <2> QED BY <2>1 DEF NewTuple, Cell, CellRecords, Containers
<1>3. \A x : x \in NestedCells(c) <=> \E i \in 1 .. count : x = <<block, i - 1>>
  <2>1. \A x : x \in NestedCells(c) <=> \E k \in Nat : k < count /\ x = <<block, k>>
    <3> HIDE DEF c
    <3> QED BY <1>1, <1>2, NestedIs
  <2>2. \A k \in Nat : k < count => k + 1 \in 1 .. count /\ k = (k + 1) - 1
    BY SetupHas
  <2>3. \A i \in 1 .. count : i - 1 \in Nat /\ i - 1 < count
    BY SetupHas
  <2> HIDE DEF c
  <2> QED BY <2>1, <2>2, <2>3
<1> HIDE DEF c
<1>4. Sound(c, u)
  BY <1>1, <1>2, SetupHas DEF Sound
<1> QED BY <1>1, <1>3, <1>4 DEF c

\* The memory after bennu_tuple.
WithTuple(m, p, tuple, block, cells, sources) ==
  LET table == Filled([m EXCEPT ![p] = tuple], p, block, cells)
  IN  [a \in DOMAIN table |-> IF a \in sources THEN Zero ELSE table[a]]

\* No slot but p is given a value.
OthersKept(m, n, u, p) ==
  \A a \in SlotsOf(u) : a # p /\ n[a].container # "none" => m[a].container # "none"

\* What bennu_tuple starts from: slot s is empty, the allocation is new.
TableGiven(m, u, blocks, bytes, s, count, block, more) ==
  /\ Heap(m, u, blocks, {}) /\ bytes \in Nat /\ Accounted(m, bytes)
  /\ s \in 1 .. u.slots /\ m[Slot(s)].container = "none"
  /\ count \in 0 .. Width /\ block \in Nat /\ (block = 0 <=> count = 0) /\ block \notin blocks
  /\ \A x : x \in more <=> x \in blocks \/ (x = block /\ x # 0)

\* The elements are in slots of their own, and whole.
ElementsGiven(m, u, s, count, elements) ==
  /\ elements \in [1 .. count -> 1 .. u.slots \ {s}]
  /\ \A j, k \in 1 .. count : j # k => elements[j] # elements[k]
  /\ \A k \in 1 .. count : LET e == m[Slot(elements[k])] IN e.container = "tuple" => e.cleanup_index = e.count

TupleBuilt(m, s, count, block, elements, n) ==
  n = WithTuple(m, Slot(s), Advanced(NewTuple(count, block), count), block,
                [k \in 1 .. count |-> m[Slot(elements[k])]], {Slot(elements[k]) : k \in 1 .. count})

\* A fan-out: none of the elements is to be cleaned up yet.
LEMMA FanoutKeepsHeap ==
  ASSUME NEW u \in Setups, NEW m, NEW blocks, NEW bytes, NEW s, NEW count, NEW block, NEW more,
         TableGiven(m, u, blocks, bytes, s, count, block, more),
         NEW n, n = WithTuple(m, Slot(s), Advanced(NewTuple(count, block), 0), block, [k \in 1 .. count |-> Zero], {})
  PROVE  /\ Heap(n, u, more, {}) /\ Accounted(n, bytes + count * SlotBytes)
         /\ OthersKept(m, n, u, Slot(s))
<1> USE DEF TableGiven
<1> DEFINE new == NewTuple(count, block)
<1>1. /\ Sound(new, u) /\ new.container = "tuple" /\ new.parent = NULL /\ new.data = block /\ new.count = count
      /\ new.cleanup_index = 0
      /\ \A x : x \in NestedCells(new) <=> \E i \in 1 .. count : x = <<block, i - 1>>
  BY NewTupleIs
<1>2. 0 \in Nat /\ 0 <= new.count /\ count \in Nat
  BY <1>1, SetupHas
<1> HIDE DEF new
<1> DEFINE p == Slot(s)
           c == Advanced(new, 0)
           cells == [k \in 1 .. count |-> Zero]
           base == [m EXCEPT ![p] = c]
           table == Filled(base, p, block, cells)
<1>3. /\ Sound(c, u) /\ NestedCells(c) = NestedCells(new) /\ c.container = "tuple" /\ c.parent = NULL
      /\ c.data = block /\ c.cleanup_index = 0 /\ c.count = count
  BY <1>1, <1>2, AdvancedIsSound
<1> HIDE DEF c
<1>4. Len(cells) = count /\ Len(cells) \in Nat /\ \A i \in 1 .. count : cells[i] = Zero /\ NestedCells(cells[i]) = {}
  BY <1>2, ZeroIsSound
<1> HIDE DEF cells
<1>5. FirstPlaced(table, base, p, block, cells, count)
  BY <1>4, AllPlaced DEF Placeable
<1>6. n = [a \in DOMAIN table |-> table[a]]
  BY DEF WithTuple, new, c, cells
<1>7. p \in DOMAIN m /\ p \notin NestedCells(c)
  <2>1. p \in DOMAIN m /\ p[1] = 0
    BY SlotsAre DEF Heap, Reachable
  <2>2. \A i \in 1 .. count : <<block, i - 1>>[1] = block /\ block # 0
    BY <1>2
  <2> QED BY <1>1, <1>3, <2>1, <2>2
<1>8. DOMAIN base = DOMAIN m /\ base[p] = c /\ \A x \in DOMAIN m : x # p => base[x] = m[x]
  BY <1>7
<1>9. \A i \in 1 .. count : <<block, i - 1>> \notin DOMAIN m
  <2> SUFFICES ASSUME NEW i \in 1 .. count, <<block, i - 1>> \in DOMAIN m PROVE FALSE
    OBVIOUS
  <2>1. <<block, i - 1>>[1] \in blocks \cup {0}
    BY AddressesAre
  <2> QED BY <1>2, <2>1
<1> HIDE DEF base, table, p
<1>10. TableAdded(m, p, c, n)
  <2>1. DOMAIN n = DOMAIN m \cup NestedCells(c)
    <3>1. DOMAIN n = DOMAIN m \cup {<<block, i - 1>> : i \in 1 .. count}
      BY <1>5, <1>6, <1>8 DEF FirstPlaced
    <3>2. NestedCells(c) = {<<block, i - 1>> : i \in 1 .. count}
      BY <1>1, <1>3
    <3> QED BY <3>1, <3>2
  <2>2. \A x \in DOMAIN m : n[x] = base[x]
    BY <1>4, <1>5, <1>6, <1>8, <1>9 DEF FirstPlaced
  <2>3. ASSUME NEW x \in NestedCells(c) PROVE n[x] = EmptyElement(p, x[2])
    <3>1. PICK i \in 1 .. count : x = <<block, i - 1>>
      BY <1>1, <1>3
    <3>2. n[x] = Relinked(Zero, p, i - 1) /\ x[2] = i - 1
      BY <1>4, <1>5, <1>6, <3>1 DEF FirstPlaced
    <3> QED BY <3>2 DEF EmptyElement
  <2> QED BY <1>7, <1>8, <2>1, <2>2, <2>3 DEF TableAdded
<1>11. Heap(n, u, more, {})
  BY <1>3, <1>10, TableKeepsHeap DEF p
<1>12. Accounted(n, bytes + Bytes(c))
  BY <1>3, <1>10, TableCounts DEF p
<1>13. Bytes(c) = count * SlotBytes
  BY <1>3 DEF Bytes
<1>14. OthersKept(m, n, u, p)
  <2>1. \A a \in SlotsOf(u) : a # p => n[a] = m[a]
    BY <1>10 DEF TableAdded, Heap, Reachable
  <2> QED BY <2>1 DEF OthersKept
<1> QED BY <1>11, <1>12, <1>13, <1>14 DEF p

\* A tuple of the values of some slots.
LEMMA TupleKeepsHeap ==
  ASSUME NEW u \in Setups, NEW m, NEW blocks, NEW bytes, NEW s, NEW count, NEW block, NEW more,
         TableGiven(m, u, blocks, bytes, s, count, block, more),
         NEW elements, ElementsGiven(m, u, s, count, elements),
         NEW n, TupleBuilt(m, s, count, block, elements, n)
  PROVE  /\ Heap(n, u, more, {}) /\ Accounted(n, bytes + count * SlotBytes)
         /\ OthersKept(m, n, u, Slot(s))
<1> USE DEF TableGiven, ElementsGiven, TupleBuilt
<1> DEFINE p == Slot(s)
           c == NewTuple(count, block)
           cells == [k \in 1 .. count |-> m[Slot(elements[k])]]
           src == [k \in 1 .. count |-> Slot(elements[k])]
           sources == {Slot(elements[k]) : k \in 1 .. count}
           base == [m EXCEPT ![p] = Advanced(c, count)]
           table == Filled(base, p, block, cells)
           n0 == [x \in DOMAIN m \cup NestedCells(c) |->
                    IF x = p THEN c ELSE IF x \in NestedCells(c) THEN EmptyElement(p, x[2]) ELSE m[x]]
<1>1. /\ Sound(c, u) /\ c.container = "tuple" /\ c.parent = NULL /\ c.data = block /\ c.count = count
      /\ c.cleanup_index = 0
      /\ \A x : x \in NestedCells(c) <=> \E i \in 1 .. count : x = <<block, i - 1>>
  BY NewTupleIs
<1>2. count \in Nat
  BY SetupHas
<1> HIDE DEF c
<1>3. /\ Len(cells) = count /\ Len(cells) \in Nat
      /\ \A i \in 1 .. count : /\ cells[i] = m[src[i]] /\ src[i] \in SlotsOf(u) /\ src[i] # p /\ src[i] \in DOMAIN m
                               /\ \A j \in 1 .. count : src[i] = src[j] => i = j
      /\ \A x : x \in sources <=> \E i \in 1 .. count : x = src[i]
      /\ src \in [1 .. count -> SlotsOf(u) \ {p}]
  <2>1. ASSUME NEW i \in 1 .. count
        PROVE  /\ cells[i] = m[src[i]] /\ src[i] \in SlotsOf(u) /\ src[i] # p /\ src[i] \in DOMAIN m
               /\ \A j \in 1 .. count : src[i] = src[j] => i = j
    <3>1. elements[i] \in 1 .. u.slots /\ elements[i] # s /\ src[i] = Slot(elements[i]) /\ cells[i] = m[src[i]]
      OBVIOUS
    <3>2. src[i] \in SlotsOf(u) /\ src[i] \in DOMAIN m /\ src[i] # p
      BY <3>1, SlotsAre DEF Heap, Reachable
    <3>3. \A j \in 1 .. count : src[i] = src[j] => i = j
      BY SlotsAre
    <3> QED BY <3>1, <3>2, <3>3
  <2>2. \A x : x \in sources <=> \E i \in 1 .. count : x = src[i]
    OBVIOUS
  <2>3. Len(cells) = count
    BY <1>2
  <2> QED BY <1>2, <2>1, <2>2, <2>3
<1>4. n = [a \in DOMAIN table |-> IF a \in sources THEN Zero ELSE table[a]]
  BY DEF WithTuple, c
<1> HIDE DEF cells, src, sources
<1>5. /\ p \in DOMAIN m /\ p \in SlotsOf(u)
      /\ \A x \in NestedCells(c) : x \notin SlotsOf(u) /\ x \notin DOMAIN m
  <2>1. p \in DOMAIN m /\ p \in SlotsOf(u)
    BY SlotsAre DEF Heap, Reachable
  <2>2. ASSUME NEW x \in NestedCells(c) PROVE x \notin SlotsOf(u) /\ x \notin DOMAIN m
    <3>1. PICK i \in 1 .. count : x = <<block, i - 1>>
      BY <1>1
    <3>2. x[1] = block /\ block # 0
      BY <1>2, <3>1
    <3> QED BY <3>2, SlotsAre, AddressesAre
  <2> QED BY <2>1, <2>2
<1>6. DOMAIN base = DOMAIN m /\ base[p] = Advanced(c, count) /\ \A x \in DOMAIN m : x # p => base[x] = m[x]
  BY <1>5
<1>7. ASSUME NEW i \in 1 .. count, NEW x \in NestedCells(cells[i])
      PROVE  /\ x \in DOMAIN m /\ x[1] # block /\ x \notin SlotsOf(u) /\ x # p
             /\ \A j \in 1 .. count : x \in NestedCells(cells[j]) => i = j
  <2>1. cells[i] = m[src[i]] /\ src[i] \in DOMAIN m
    BY <1>3
  <2>2. /\ x \notin SlotsOf(u) /\ x[1] = m[src[i]].data /\ m[src[i]].data # 0
        /\ \A b \in DOMAIN m : x \in NestedCells(m[b]) => b = src[i]
    BY <2>1, NestedApart DEF Heap
  <2>3. x[1] # block /\ x \in DOMAIN m
    BY <2>1, <2>2 DEF Heap, Allocated, Reachable
  <2> QED BY <1>3, <1>5, <2>2, <2>3
<1> HIDE DEF base, p
<1>8. Placeable(base, block, cells, count)
  BY <1>6, <1>7 DEF Placeable
<1>9. FirstPlaced(table, base, p, block, cells, count)
  BY <1>3, <1>8, AllPlaced
<1> HIDE DEF table
<1>10. /\ DOMAIN n0 = DOMAIN m \cup NestedCells(c) /\ n0[p] = c
       /\ \A x \in NestedCells(c) : n0[x] = EmptyElement(p, x[2])
       /\ \A x \in DOMAIN m : x # p => n0[x] = m[x]
  BY <1>5
<1> HIDE DEF n0
<1>11. TableAdded(m, p, c, n0)
  BY <1>10 DEF TableAdded
<1>12. Heap(n0, u, more, {})
  BY <1>1, <1>11, TableKeepsHeap DEF p
<1>13. Accounted(n0, bytes + Bytes(c))
  BY <1>1, <1>11, TableCounts DEF p
<1>14. Bytes(c) = count * SlotBytes /\ bytes + Bytes(c) \in Nat
  BY <1>1, BytesAre DEF Bytes
<1>15. Movable(n0, u, p, src, count)
  <2>1. n0[p].container = "tuple" /\ n0[p].cleanup_index + count <= n0[p].count
    BY <1>1, <1>2, <1>10
  <2>2. ASSUME NEW j \in 1 .. count, n0[src[j]].container = "tuple"
        PROVE  n0[src[j]].cleanup_index = n0[src[j]].count
    <3>1. n0[src[j]] = m[src[j]] /\ src[j] = Slot(elements[j])
      BY <1>3, <1>10 DEF src
    <3> QED BY <2>2, <3>1
  <2>3. \A i, j \in 1 .. count : i # j => src[i] # src[j]
    BY <1>3
  <2> QED BY <1>3, <1>5, <2>1, <2>2, <2>3 DEF Movable
<1>16. CellsMoved(n0, p, src, count, n)
  <2>1. DOMAIN n = DOMAIN n0
    <3>1. DOMAIN n = DOMAIN m \cup {<<block, i - 1>> : i \in 1 .. count}
      BY <1>4, <1>6, <1>9 DEF FirstPlaced
    <3>2. NestedCells(c) = {<<block, i - 1>> : i \in 1 .. count}
      BY <1>1
    <3> QED BY <1>10, <3>1, <3>2
  <2>2. \A j \in 1 .. count : Target(n0, p, j) = <<block, j - 1>>
    BY <1>1, <1>2, <1>10 DEF Target
  <2>3. \A j \in 1 .. count : <<block, j - 1>> \in NestedCells(c)
    BY <1>1
  <2>4. \A j \in 1 .. count : /\ <<block, j - 1>> \notin sources /\ <<block, j - 1>> \in DOMAIN n
                              /\ src[j] \in sources /\ src[j] \in DOMAIN n
                              /\ n0[src[j]] = cells[j]
    BY <1>3, <1>5, <1>10, <2>1, <2>3
  <2>5. p \notin sources /\ p \in DOMAIN n
    BY <1>3, <1>5, <1>10, <2>1
  <2>6. n[p] = Advanced(n0[p], n0[p].cleanup_index + count)
    <3>1. \A i \in 1 .. count : p # <<block, i - 1>> /\ p \notin NestedCells(cells[i])
      BY <1>5, <1>7, <2>3
    <3>2. n[p] = Advanced(c, count)
      BY <1>4, <1>5, <1>6, <1>9, <2>1, <2>5, <3>1 DEF FirstPlaced
    <3> QED BY <1>1, <1>2, <1>10, <3>2
  <2>7. ASSUME NEW j \in 1 .. count
        PROVE  /\ n[Target(n0, p, j)] = Relinked(n0[src[j]], p, n0[p].cleanup_index + j - 1)
               /\ n[src[j]] = Zero
               /\ \A x \in NestedCells(n0[src[j]]) : n[x] = Relinked(n0[x], Target(n0, p, j), x[2])
    <3>1. table[<<block, j - 1>>] = Relinked(cells[j], p, j - 1)
      BY <1>9 DEF FirstPlaced
    <3>2. n[<<block, j - 1>>] = table[<<block, j - 1>>] /\ n[src[j]] = Zero
      BY <1>4, <2>4
    <3>3. n0[p].cleanup_index + j - 1 = j - 1
      BY <1>1, <1>10
    <3>4. ASSUME NEW x \in NestedCells(cells[j]) PROVE n[x] = Relinked(n0[x], <<block, j - 1>>, x[2])
      <4>1. x \in DOMAIN m /\ x # p /\ x \notin SlotsOf(u)
        BY <1>7
      <4>2. base[x] = m[x] /\ n0[x] = m[x] /\ x \in DOMAIN n /\ x \notin sources
        BY <1>3, <1>6, <1>10, <2>1, <4>1
      <4>3. table[x] = Relinked(base[x], <<block, j - 1>>, x[2])
        BY <1>9 DEF FirstPlaced
      <4> QED BY <1>4, <4>2, <4>3
    <3> QED BY <2>2, <2>4, <3>1, <3>2, <3>3, <3>4
  <2>8. ASSUME NEW x \in DOMAIN n0 \ {p},
               \A j \in 1 .. count : x # Target(n0, p, j) /\ x # src[j] /\ x \notin NestedCells(n0[src[j]])
        PROVE  n[x] = n0[x]
    <3>1. \A j \in 1 .. count : x # <<block, j - 1>> /\ x # src[j] /\ x \notin NestedCells(cells[j])
      BY <2>2, <2>4, <2>8
    <3>2. x \in DOMAIN m /\ x \notin sources /\ x \in DOMAIN n
      <4>1. x \notin NestedCells(c)
        <5> SUFFICES ASSUME x \in NestedCells(c) PROVE FALSE
          OBVIOUS
        <5>1. PICK j \in 1 .. count : x = <<block, j - 1>>
          BY <1>1
        <5> QED BY <3>1, <5>1
      <4>2. x \notin sources
        BY <1>3, <3>1
      <4> QED BY <1>10, <2>1, <4>1, <4>2
    <3>3. table[x] = base[x]
      BY <1>6, <1>9, <3>1, <3>2 DEF FirstPlaced
    <3> QED BY <1>4, <1>6, <1>10, <3>2, <3>3
  <2> QED BY <2>1, <2>6, <2>7, <2>8 DEF CellsMoved
<1>17. Heap(n, u, more, {})
  BY <1>2, <1>12, <1>15, <1>16, MovesKeepHeap
<1>18. Accounted(n, bytes + Bytes(c))
  BY <1>2, <1>12, <1>13, <1>14, <1>15, <1>16, MovesCount
<1>19. OthersKept(m, n, u, p)
  <2>1. \A a \in SlotsOf(u) : a # p => a \in DOMAIN n /\ (n[a] = Zero \/ n[a] = m[a])
    <3> SUFFICES ASSUME NEW a \in SlotsOf(u), a # p PROVE a \in DOMAIN n /\ (n[a] = Zero \/ n[a] = m[a])
      OBVIOUS
    <3>1. a \in DOMAIN m /\ a \in DOMAIN n0 /\ n0[a] = m[a]
      BY <1>10 DEF Heap, Reachable
    <3>2. Touched(n0, u, p, src, count) /\ Moved(n0, p, src, count, n)
      BY <1>2, <1>12, <1>15, <1>16, MoveTouches, MovedCells
    <3>3. \A j \in 1 .. count : a # Target(n0, p, j) /\ a \notin NestedCells(n0[src[j]])
      BY <3>2 DEF Touched
    <3>4. (\E j \in 1 .. count : a = src[j]) \/ n[a] = n0[a]
      BY <3>1, <3>2, <3>3 DEF Moved
    <3>5. \A j \in 1 .. count : n[src[j]] = Zero
      BY <3>2 DEF Moved
    <3> QED BY <1>16, <3>1, <3>4, <3>5 DEF CellsMoved
  <2> QED BY <2>1, ZeroIsSound DEF OthersKept
<1> QED BY <1>14, <1>17, <1>18, <1>19 DEF p

\* The memory after bennu_tuple_transfer.
WithElement(m, p, q) ==
  [Placed(m, m[q], <<m[p].data, m[p].cleanup_index>>, p, m[p].cleanup_index)
     EXCEPT ![p].cleanup_index = @ + 1, ![q] = Zero]

\* A branch's value becomes the next element of its fan-out.
LEMMA TransferKeepsHeap ==
  ASSUME NEW u \in Setups, NEW m, NEW blocks, Heap(m, u, blocks, {}), NEW bytes \in Nat, Accounted(m, bytes),
         NEW f \in 1 .. u.slots, NEW s \in 1 .. u.slots, s # f,
         m[Slot(f)].container = "tuple", m[Slot(f)].cleanup_index < m[Slot(f)].count,
         m[Slot(s)].container = "tuple" => m[Slot(s)].cleanup_index = m[Slot(s)].count,
         NEW n, n = WithElement(m, Slot(f), Slot(s))
  PROVE  /\ Heap(n, u, blocks, {}) /\ Accounted(n, bytes)
         /\ OthersKept(m, n, u, Slot(f))
<1> DEFINE p == Slot(f)
           q == Slot(s)
           to == <<m[p].data, m[p].cleanup_index>>
           src == [j \in 1 .. 1 |-> q]
           placed == Placed(m, m[q], to, p, m[p].cleanup_index)
<1>1. p \in SlotsOf(u) /\ q \in SlotsOf(u) /\ p # q /\ p \in DOMAIN m /\ q \in DOMAIN m
  BY SlotsAre DEF Heap, Reachable
<1>2. n = [placed EXCEPT ![p].cleanup_index = @ + 1, ![q] = Zero]
  BY DEF WithElement
<1>3. /\ m[p].container = "tuple" /\ m[p].cleanup_index < m[p].count /\ m[p].cleanup_index \in Nat /\ m[p].count \in Nat
      /\ (m[q].container = "tuple" => m[q].cleanup_index = m[q].count)
      /\ m[p].data \in Nat /\ m[p] \in CellRecords
  BY <1>1 DEF Heap, CellsSound, Sound, CellRecords
<1>4. \A j \in 1 .. 1 : src[j] = q /\ Target(m, p, j) = to /\ m[p].cleanup_index + j - 1 = m[p].cleanup_index
  BY <1>3 DEF Target
<1>5. Movable(m, u, p, src, 1)
  BY <1>1, <1>3 DEF Movable
<1>6. /\ to \in NestedCells(m[p]) /\ to \in DOMAIN m /\ to \notin SlotsOf(u)
      /\ \A x \in NestedCells(m[q]) : x \in DOMAIN m /\ x \notin SlotsOf(u) /\ x # to
  <2>1. to \in NestedCells(m[p])
    BY <1>3, NestedIs
  <2>2. to \in DOMAIN m
    BY <1>1, <2>1 DEF Heap, Reachable
  <2>3. to \notin SlotsOf(u) /\ \A b \in DOMAIN m : to \in NestedCells(m[b]) => b = p
    BY <1>1, <2>1, NestedApart DEF Heap
  <2>4. \A x \in NestedCells(m[q]) : x \in DOMAIN m /\ x \notin SlotsOf(u)
    BY <1>1, NestedApart DEF Heap, Reachable
  <2> HIDE DEF to
  <2> QED BY <1>1, <2>1, <2>2, <2>3, <2>4
<1> HIDE DEF p, q, to, src
<1>7. /\ DOMAIN placed = DOMAIN m
      /\ placed[to] = Relinked(m[q], p, m[p].cleanup_index)
      /\ \A x \in NestedCells(m[q]) : placed[x] = Relinked(m[x], to, x[2])
      /\ \A x \in DOMAIN m : x # to /\ x \notin NestedCells(m[q]) => placed[x] = m[x]
  <2>1. NestedCells(m[q]) \subseteq DOMAIN m
    BY <1>6
  <2>2. PlacedAt(placed, m, m[q], to, p, m[p].cleanup_index)
    BY <2>1, PlacedIs
  <2> HIDE DEF placed
  <2> QED BY <1>6, <2>2 DEF PlacedAt
<1> HIDE DEF placed
<1>8. /\ DOMAIN n = DOMAIN m /\ n[q] = Zero /\ n[p] = Advanced(placed[p], placed[p].cleanup_index + 1)
      /\ \A x \in DOMAIN m : x # p /\ x # q => n[x] = placed[x]
  BY <1>1, <1>2, <1>7 DEF Advanced
<1>9. placed[p] = m[p]
  BY <1>1, <1>6, <1>7
<1>10. CellsMoved(m, p, src, 1, n)
  <2>1. n[p] = Advanced(m[p], m[p].cleanup_index + 1)
    BY <1>8, <1>9
  <2>2. n[to] = Relinked(m[q], p, m[p].cleanup_index)
    BY <1>1, <1>6, <1>7, <1>8
  <2>3. \A x \in NestedCells(m[q]) : n[x] = Relinked(m[x], to, x[2])
    BY <1>1, <1>6, <1>7, <1>8
  <2>4. \A x \in DOMAIN m \ {p} : x # to /\ x # q /\ x \notin NestedCells(m[q]) => n[x] = m[x]
    BY <1>7, <1>8
  <2>5. 1 \in 1 .. 1
    OBVIOUS
  <2> QED BY <1>4, <1>8, <2>1, <2>2, <2>3, <2>4, <2>5 DEF CellsMoved
<1>11. Heap(n, u, blocks, {}) /\ Accounted(n, bytes)
  BY <1>5, <1>10, MovesKeepHeap, MovesCount
<1>12. OthersKept(m, n, u, p)
  <2> SUFFICES ASSUME NEW a \in SlotsOf(u), a # p, n[a].container # "none" PROVE m[a].container # "none"
    BY DEF OthersKept
  <2>1. a \in DOMAIN m
    BY DEF Heap, Reachable
  <2>2. a # q
    BY <1>8, ZeroIsSound
  <2>3. n[a] = m[a]
    BY <1>6, <1>7, <1>8, <2>1, <2>2
  <2> QED BY <2>3
<1> QED BY <1>11, <1>12 DEF p

(***************************************************************************)
(* The invariant of the runtime.                                           *)
(***************************************************************************)

\* A release is on its way through the cells of its value; nothing else is.
OnTrail(m, u, path, stands, here, s) ==
  IF stands \in {"releasing", "cleaning"} /\ here # NULL
  THEN Trail(m, u, path, here, Slot(IF stands = "releasing" THEN s ELSE s + 1))
  ELSE path = {}

MemoryInv ==
  \E path : Heap(memory, setup, live, path) /\ OnTrail(memory, setup, path, phase, at, slot)

UsageRecords == [live_bytes : 0 .. SizeMax, work_units : 0 .. SizeMax, ordinal : Nat \ {0}]

UsageInv ==
  /\ usage \in UsageRecords /\ Accounted(memory, usage.live_bytes)
  /\ \A limit \in limits.work : usage.work_units <= limit
  /\ \A b \in live : b \in Nat /\ b < usage.ordinal

\* What is written, and what the cleanup has emptied.
SlotsInv ==
  /\ written \subseteq 1 .. Slots
  /\ \A s \in Unwritten : memory[Slot(s)].container = "none"
  /\ phase = "cleaning" =>
       \A s \in 1 .. Slots : s > (IF at = NULL THEN slot ELSE slot + 1) => memory[Slot(s)] = Zero
  /\ phase = "done" => \A s \in 1 .. Slots : memory[Slot(s)] = Zero

ControlInv ==
  /\ phase \in {"running", "crashed", "releasing", "validating", "printing", "cleaning", "done"}
  /\ outcome \in {"none", "ok", "failed", "output", "flush"}
  /\ stage \in {"enter", "empty", "leave"}
  /\ slot \in 0 .. Slots
  /\ phase \in {"running", "crashed", "done"} => at = NULL
  /\ phase = "releasing" => at # NULL /\ slot # 0
  /\ phase = "validating" => at \in DOMAIN memory /\ stage # "empty" /\ slot # 0
  /\ phase = "printing" /\ at # NULL => at \in DOMAIN memory /\ slot # 0
  /\ phase = "cleaning" /\ at # NULL => slot < Slots

RuntimeInv == setup \in Setups /\ MemoryInv /\ UsageInv /\ SlotsInv /\ ControlInv

(***************************************************************************)
(* The invariant gives what the memory promises.                           *)
(***************************************************************************)

LEMMA ParentIs ==
  ASSUME NEW u \in Setups, NEW m, NEW blocks, NEW path, Heap(m, u, blocks, path), NEW a \in DOMAIN m
  PROVE  \/ m[a].parent = NULL
         \/ m[a].parent \in DOMAIN m /\ a \in NestedCells(m[m[a].parent])
<1>1. CASE a \in SlotsOf(u)
  BY <1>1 DEF Heap, Linked
<1>2. CASE a \notin SlotsOf(u)
  <2>1. PICK o \in DOMAIN m : a \in NestedCells(m[o])
    BY <1>2 DEF Heap, Reachable
  <2>2. m[a].parent = o \/ m[a].parent \in {NULL, o}
    BY <2>1 DEF Heap, Linked
  <2> QED BY <2>1, <2>2
<1> QED BY <1>1, <1>2

LEMMA WalkStaysInMemory ==
  ASSUME NEW u \in Setups, NEW m, NEW blocks, NEW path, Heap(m, u, blocks, path), NEW a \in DOMAIN m
  PROVE  /\ m[a].container = "tuple" /\ m[a].count # 0 => <<m[a].data, 0>> \in DOMAIN m
         /\ m[a].parent \in {NULL} \cup DOMAIN m
         /\ m[a].parent # NULL /\ m[a].parent_index + 1 < m[m[a].parent].count =>
              <<m[m[a].parent].data, m[a].parent_index + 1>> \in DOMAIN m
<1>1. \A x \in DOMAIN m : /\ m[x] \in CellRecords /\ m[x].count \in Nat /\ m[x].parent_index \in Nat
                          /\ NestedCells(m[x]) \subseteq DOMAIN m
  BY DEF Heap, CellsSound, Sound, Reachable, CellRecords
<1>2. m[a].container = "tuple" /\ m[a].count # 0 => <<m[a].data, 0>> \in DOMAIN m
  <2> SUFFICES ASSUME m[a].container = "tuple" /\ m[a].count # 0 PROVE <<m[a].data, 0>> \in NestedCells(m[a])
    BY <1>1
  <2>1. 0 < m[a].count /\ 0 \in Nat
    BY <1>1
  <2> QED BY <1>1, <2>1, NestedIs
<1>3. m[a].parent \in {NULL} \cup DOMAIN m
  BY ParentIs
<1>4. ASSUME m[a].parent # NULL, m[a].parent_index + 1 < m[m[a].parent].count
      PROVE  <<m[m[a].parent].data, m[a].parent_index + 1>> \in DOMAIN m
  <2> DEFINE o == m[a].parent
             k == m[a].parent_index + 1
  <2>1. o \in DOMAIN m /\ a \in NestedCells(m[o])
    BY <1>4, ParentIs
  <2>2. m[o].container = "tuple" /\ k \in Nat /\ k < m[o].count
    BY <1>1, <1>4, <2>1, NestedIs
  <2> HIDE DEF o, k
  <2>3. <<m[o].data, k>> \in NestedCells(m[o])
    BY <1>1, <2>1, <2>2, NestedIs
  <2>4. <<m[o].data, k>> \in DOMAIN m
    BY <1>1, <2>1, <2>3
  <2> QED BY <2>4 DEF o, k
<1> QED BY <1>2, <1>3, <1>4

LEMMA InvIsTyped ==
  ASSUME RuntimeInv, FlagsInv
  PROVE  TypeOK
<1>1. setup \in Setups /\ Slots = setup.slots /\ Types = setup.types /\ Counts = setup.counts
  BY DEF RuntimeInv, Slots, Types, Counts
<1>2. PICK path : Heap(memory, setup, live, path) /\ OnTrail(memory, setup, path, phase, at, slot)
  BY DEF RuntimeInv, MemoryInv
<1>3. Slots \in Nat /\ Slots > 0 /\ Width \in Nat
  BY <1>1, SetupHas
<1>4. ASSUME NEW a \in Addresses PROVE CellOK(memory[a])
  <2> DEFINE c == memory[a]
  <2>1. Sound(c, setup) /\ c.parent \in {NULL} \cup Addresses
    BY <1>1, <1>2, <1>4, WalkStaysInMemory DEF Addresses, Heap, CellsSound
  <2> HIDE DEF c
  <2>2. /\ c.container \in Containers /\ c.count \in Nat /\ c.value \in Nat /\ c.data \in Nat
        /\ c.parent_index \in Nat /\ c.cleanup_index \in Nat /\ c.parent_index <= Width
    BY <2>1 DEF Sound, CellRecords
  <2>3. c.type \in Types \cup {"none"} /\ c.value \in 0 .. Slots
    BY <1>1, <1>3, <2>1, <2>2 DEF Sound, Containers
  <2>4. c.count \in Counts \cup 0 .. Width \cup {1} /\ c.cleanup_index \in 0 .. Width
    BY <1>1, <1>3, <2>1, <2>2 DEF Sound, Containers
  <2>5. CellOK(c)
    BY <1>3, <2>1, <2>2, <2>3, <2>4 DEF CellOK, Containers
  <2> QED BY <2>5 DEF c
<1>5. {Slot(s) : s \in 1 .. Slots} \subseteq Addresses
  BY <1>1, <1>2 DEF Heap, Reachable, SlotsOf, Addresses
<1>6. live \subseteq 1 .. usage.ordinal /\ usage \in [live_bytes : 0 .. SizeMax, work_units : 0 .. SizeMax, ordinal : Nat \ {0}]
  <2>1. \A b \in live : b # 0 /\ b \in Nat /\ b < usage.ordinal
    BY <1>2 DEF Heap, Allocated, RuntimeInv, UsageInv
  <2>2. usage.ordinal \in Nat /\ usage \in UsageRecords
    BY DEF RuntimeInv, UsageInv, UsageRecords
  <2> QED BY <2>1, <2>2 DEF UsageRecords
<1>7. at \in {NULL} \cup Addresses
  <2>1. CASE phase \in {"releasing", "cleaning"} /\ at # NULL
    BY <1>2, <2>1 DEF OnTrail, Trail, Addresses
  <2>2. CASE ~(phase \in {"releasing", "cleaning"} /\ at # NULL)
    BY <2>2 DEF RuntimeInv, ControlInv, Addresses
  <2> QED BY <2>1, <2>2
<1> QED BY <1>4, <1>5, <1>6, <1>7 DEF TypeOK, RuntimeInv, FlagsInv, ControlInv, SlotsInv

LEMMA InvIsOwned ==
  ASSUME RuntimeInv
  PROVE  OneOwner
<1>1. setup \in Setups
  BY DEF RuntimeInv
<1>2. PICK path : Heap(memory, setup, live, path)
  BY DEF RuntimeInv, MemoryInv
<1>3. ASSUME NEW b \in live PROVE Cardinality({a \in Addresses : memory[a].data = b}) = 1
  <2>1. PICK a \in DOMAIN memory : memory[a].data = b /\ b # 0
    BY <1>2 DEF Heap, Allocated
  <2>2. {x \in Addresses : memory[x].data = b} = {a}
    BY <1>2, <2>1 DEF Heap, OwnedApart, Addresses
  <2> QED BY <2>2, FS_Singleton
<1>4. \A a \in Addresses : memory[a].data \in live \cup {0}
  BY <1>2 DEF Heap, Allocated, Addresses
<1>5. \A a \in Addresses : a[1] \in live \cup {0}
  BY <1>1, <1>2, AddressesAre DEF Addresses
<1> QED BY <1>3, <1>4, <1>5 DEF OneOwner

LEMMA InvIsLinked ==
  ASSUME RuntimeInv
  PROVE  ParentsPointBack
<1>1. PICK path : Heap(memory, setup, live, path)
  BY DEF RuntimeInv, MemoryInv
<1> SUFFICES ASSUME NEW a \in Addresses, memory[a].container = "tuple",
                    NEW k \in 0 .. memory[a].cleanup_index - 1
             PROVE  LET x == <<memory[a].data, k>> IN memory[x].parent = a /\ memory[x].parent_index = k
  BY DEF ParentsPointBack
<1>2. /\ memory[a] \in CellRecords /\ memory[a].cleanup_index \in Nat /\ memory[a].count \in Nat
      /\ memory[a].cleanup_index <= memory[a].count /\ a \in DOMAIN memory
  BY <1>1 DEF Heap, CellsSound, Sound, CellRecords, Addresses
<1>3. k \in Nat /\ k < memory[a].count /\ k < memory[a].cleanup_index
  BY <1>2
<1> DEFINE x == <<memory[a].data, k>>
<1>4. x \in NestedCells(memory[a]) /\ x[2] = k
  BY <1>2, <1>3, NestedIs
<1> HIDE DEF x
<1>5. memory[x].parent = a /\ memory[x].parent_index = x[2]
  BY <1>1, <1>2, <1>3, <1>4 DEF Heap, Linked
<1> QED BY <1>4, <1>5 DEF x

LEMMA InvIsEmptyAtTheEnd ==
  ASSUME RuntimeInv
  PROVE  NothingLeft
<1> SUFFICES ASSUME phase = "done"
             PROVE  live = {} /\ usage.live_bytes = 0 /\ \A a \in Addresses : memory[a] = Zero
  BY DEF NothingLeft
<1>1. setup \in Setups
  BY DEF RuntimeInv
<1>2. PICK path : Heap(memory, setup, live, path)
  BY DEF RuntimeInv, MemoryInv
<1>3. \A a \in SlotsOf(setup) : memory[a] = Zero
  BY DEF RuntimeInv, SlotsInv, SlotsOf, Slots
<1>4. DOMAIN memory = SlotsOf(setup) /\ \A x : x \notin live
  BY <1>1, <1>2, <1>3, EmptySlotsEmptyHeap
<1>5. OwnedOf(Zero) = {}
  BY <1>1, ZeroIsSound, OwnedOfIs
<1>6. BytesOf(memory) = {}
  BY <1>3, <1>4, <1>5 DEF BytesOf
<1>7. usage.live_bytes = 0
  BY <1>6, FS_EmptySet DEF RuntimeInv, UsageInv, Accounted
<1> QED BY <1>3, <1>4, <1>7 DEF Addresses

LEMMA InvIsSound ==
  ASSUME RuntimeInv, FlagsInv
  PROVE  HeapSound
<1>1. LiveBytesExact
  <2>1. OwnedBytes = BytesOf(memory)
    BY DEF OwnedBytes, BytesOf, OwnedOf, Addresses
  <2> QED BY <2>1 DEF LiveBytesExact, RuntimeInv, UsageInv, Accounted
<1> QED BY <1>1, InvIsTyped, InvIsOwned, InvIsLinked, InvIsEmptyAtTheEnd DEF HeapSound

(***************************************************************************)
(* The invariant holds at first, and every step keeps it.                  *)
(***************************************************************************)

LEMMA SlotsIs == SlotsOf(setup) = {Slot(s) : s \in 1 .. Slots}
BY DEF SlotsOf, Slots

LEMMA InitKeeps ==
  ASSUME Init
  PROVE  RuntimeInv
<1>1. setup \in Setups /\ memory = [a \in SlotsOf(setup) |-> Zero] /\ live = {}
  BY SlotsIs DEF Init
<1>2. /\ DOMAIN memory = SlotsOf(setup)
      /\ \A a \in SlotsOf(setup) : /\ memory[a] = Zero /\ Sound(memory[a], setup) /\ memory[a].container = "none"
                                   /\ memory[a].parent = NULL /\ memory[a].data = 0
                                   /\ NestedCells(memory[a]) = {}
  BY <1>1, ZeroIsSound
<1>3. Heap(memory, setup, live, {})
  <2>1. CellsSound(memory, setup)
    BY <1>2 DEF CellsSound
  <2>2. Reachable(memory, setup)
    BY <1>2 DEF Reachable
  <2>3. OwnedApart(memory) /\ Allocated(memory, live)
    BY <1>1, <1>2 DEF OwnedApart, Allocated
  <2>4. Linked(memory, setup, {})
    BY <1>2 DEF Linked
  <2>5. Deepens(memory, [a \in DOMAIN memory |-> 0])
    BY <1>2 DEF Deepens
  <2>6. Acyclic(memory)
    BY <2>5 DEF Acyclic
  <2> QED BY <2>1, <2>2, <2>3, <2>4, <2>6 DEF Heap
<1>4. OnTrail(memory, setup, {}, phase, at, slot)
  BY DEF Init, OnTrail
<1>5. MemoryInv
  BY <1>3, <1>4 DEF MemoryInv
<1>6. UsageInv
  <2>1. \A a \in DOMAIN memory : OwnedOf(memory[a]) = {}
    BY <1>1, <1>2, OwnedOfIs
  <2>2. BytesOf(memory) = {}
    BY <2>1 DEF BytesOf
  <2>3. Accounted(memory, 0)
    BY <2>2, FS_EmptySet DEF Accounted
  <2>4. usage = [live_bytes |-> 0, work_units |-> 0, ordinal |-> 1] /\ SizeMax \in Nat
    BY <1>1, SetupHas DEF Init
  <2>5. \A limit \in limits.work : limit \in Nat
    BY <1>1, RuntimeAssumption DEF limits
  <2> QED BY <1>1, <2>3, <2>4, <2>5 DEF UsageInv, UsageRecords
<1>7. SlotsInv
  BY <1>2, SlotsIs DEF Init, SlotsInv, Unwritten
<1>8. ControlInv
  <2>1. Slots \in Nat
    BY <1>1, SetupHas DEF Slots
  <2> QED BY <2>1 DEF Init, ControlInv
<1> QED BY <1>1, <1>5, <1>6, <1>7, <1>8 DEF RuntimeInv

\* While the program runs, nothing is on its way anywhere.
LEMMA RunningHas ==
  ASSUME RuntimeInv, phase = "running"
  PROVE  /\ setup \in Setups /\ Heap(memory, setup, live, {}) /\ at = NULL
         /\ usage \in UsageRecords /\ usage.live_bytes \in Nat /\ usage.work_units \in Nat
         /\ usage.ordinal \in Nat /\ usage.ordinal # 0 /\ usage.live_bytes <= SizeMax
         /\ Accounted(memory, usage.live_bytes)
         /\ Slots = setup.slots /\ Slots \in Nat /\ Slots > 0
<1>1. setup \in Setups /\ UsageInv /\ at = NULL
  BY DEF RuntimeInv, ControlInv
<1>2. PICK path : Heap(memory, setup, live, path) /\ OnTrail(memory, setup, path, phase, at, slot)
  BY DEF RuntimeInv, MemoryInv
<1>3. path = {}
  BY <1>2 DEF OnTrail
<1>4. SizeMax \in Nat /\ setup.slots \in Nat /\ setup.slots > 0
  BY <1>1, SetupHas
<1>5. /\ usage \in UsageRecords /\ usage.live_bytes \in Nat /\ usage.work_units \in Nat
      /\ usage.ordinal \in Nat /\ usage.ordinal # 0 /\ usage.live_bytes <= SizeMax
  BY <1>1, <1>4 DEF UsageInv, UsageRecords
<1> QED BY <1>1, <1>2, <1>3, <1>4, <1>5 DEF UsageInv, Slots

\* The program goes on to the cleanup with the memory as it is.
LEMMA FailKeeps ==
  ASSUME RuntimeInv, phase = "running", NEW f, Fail(f),
         UNCHANGED <<setup, memory, live>>, written' \subseteq 1 .. Slots, written \subseteq written',
         usage' \in UsageRecords, usage'.live_bytes = usage.live_bytes, usage'.ordinal >= usage.ordinal,
         \A limit \in limits.work : usage'.work_units <= limit
  PROVE  RuntimeInv'
<1>1. /\ setup \in Setups /\ Heap(memory, setup, live, {}) /\ at = NULL /\ Slots \in Nat
      /\ usage.ordinal \in Nat
  BY RunningHas
<1>2. /\ phase' = "cleaning" /\ outcome' = "failed" /\ slot' = Slots /\ at' = NULL /\ stage' = stage
      /\ setup' = setup /\ memory' = memory /\ live' = live
  BY <1>1 DEF Fail
<1>3. Slots' = Slots /\ limits' = limits
  BY <1>2 DEF Slots, limits
<1>4. MemoryInv'
  BY <1>1, <1>2 DEF MemoryInv, OnTrail
<1>5. UsageInv'
  <2>1. Accounted(memory, usage'.live_bytes)
    BY RunningHas
  <2>2. \A b \in live : b \in Nat /\ b < usage'.ordinal
    <3>1. usage'.ordinal \in Nat
      BY DEF UsageRecords
    <3> QED BY <1>1, <3>1 DEF RuntimeInv, UsageInv
  <2> QED BY <1>2, <1>3, <2>1, <2>2 DEF UsageInv
<1>6. SlotsInv'
  <2>1. \A s \in 1 .. Slots : ~(s > Slots)
    BY <1>1
  <2> QED BY <1>2, <1>3, <2>1 DEF SlotsInv, RuntimeInv, Unwritten
<1>7. ControlInv'
  BY <1>1, <1>2, <1>3 DEF ControlInv, RuntimeInv
<1> QED BY <1>1, <1>2, <1>4, <1>5, <1>6, <1>7 DEF RuntimeInv

\* The program goes on with a value more in slot s.
LEMMA StoreKeeps ==
  ASSUME RuntimeInv, phase = "running", Succeed, UNCHANGED setup, NEW s \in 1 .. Slots, written' = written \cup {s},
         Heap(memory', setup, live', {}), OthersKept(memory, memory', setup, Slot(s)),
         usage' \in UsageRecords, Accounted(memory', usage'.live_bytes),
         \A limit \in limits.work : usage'.work_units <= limit,
         \A b \in live' : b \in Nat /\ b < usage'.ordinal
  PROVE  RuntimeInv'
<1>1. setup \in Setups /\ at = NULL /\ Slots \in Nat /\ setup' = setup
  BY RunningHas
<1>2. /\ phase' = "running" /\ outcome' = outcome /\ slot' = slot /\ at' = NULL /\ stage' = stage
  BY <1>1 DEF Succeed, control
<1>3. Slots' = Slots /\ limits' = limits
  BY <1>1 DEF Slots, limits
<1>4. MemoryInv'
  BY <1>1, <1>2 DEF MemoryInv, OnTrail
<1>5. UsageInv'
  BY <1>3 DEF UsageInv
<1>6. SlotsInv'
  <2>1. ASSUME NEW t \in 1 .. Slots, t \notin written, t # s PROVE memory'[Slot(t)].container = "none"
    <3>1. memory[Slot(t)].container = "none"
      BY <2>1 DEF RuntimeInv, SlotsInv, Unwritten
    <3>2. Slot(t) \in SlotsOf(setup) /\ Slot(t) # Slot(s)
      BY <1>1, <2>1, SlotsIs, SlotsAre
    <3> QED BY <3>1, <3>2 DEF OthersKept
  <2> QED BY <1>2, <1>3, <2>1 DEF SlotsInv, RuntimeInv, Unwritten
<1>7. ControlInv'
  BY <1>1, <1>2, <1>3 DEF ControlInv, RuntimeInv
<1> QED BY <1>1, <1>4, <1>5, <1>6, <1>7 DEF RuntimeInv

LEMMA ScalarIs ==
  ASSUME NEW u \in Setups, NEW type \in u.types, NEW s \in 1 .. u.slots
  PROVE  LET c == ScalarCell(type, s) IN
         Sound(c, u) /\ c.container = "scalar" /\ c.parent = NULL /\ c.data = 0 /\ Bytes(c) = 0
<1>1. NULL \in {NULL} \cup (Nat \X Nat) /\ type \in {"Bool", "Int"} /\ s \in Nat /\ 0 <= Width
  BY SetupHas
<1> DEFINE c == ScalarCell(type, s)
<1>2. /\ c \in CellRecords /\ c.container = "scalar" /\ c.type = type /\ c.count = 1 /\ c.value = s
      /\ c.parent = NULL /\ c.data = 0 /\ c.cleanup_index = 0 /\ c.parent_index = 0
  BY <1>1 DEF ScalarCell, Cell, CellRecords, Containers
<1> HIDE DEF c
<1>3. Sound(c, u) /\ Bytes(c) = 0
  BY <1>1, <1>2 DEF Sound, Bytes
<1> QED BY <1>2, <1>3 DEF c

LEMMA VectorIs ==
  ASSUME NEW u \in Setups, NEW type \in u.types, NEW s \in 1 .. u.slots,
         NEW count \in u.counts, NEW block \in Nat, block = 0 <=> count = 0
  PROVE  LET c == Cell("vector", type, count, s, block) IN
         /\ Sound(c, u) /\ c.container = "vector" /\ c.parent = NULL /\ c.data = block
         /\ Bytes(c) = count * ByteWidth(type)
<1>1. NULL \in {NULL} \cup (Nat \X Nat) /\ type \in {"Bool", "Int"} /\ s \in Nat /\ count \in Nat /\ 0 <= Width
  BY SetupHas
<1> DEFINE c == Cell("vector", type, count, s, block)
<1>2. /\ c \in CellRecords /\ c.container = "vector" /\ c.type = type /\ c.count = count /\ c.value = s
      /\ c.parent = NULL /\ c.data = block /\ c.cleanup_index = 0 /\ c.parent_index = 0
  BY <1>1 DEF Cell, CellRecords, Containers
<1> HIDE DEF c
<1>3. Sound(c, u) /\ Bytes(c) = count * ByteWidth(type)
  BY <1>1, <1>2 DEF Sound, Bytes
<1> QED BY <1>2, <1>3 DEF c

LEMMA ScalarStored ==
  ASSUME RuntimeInv, phase = "running", Succeed, UNCHANGED <<setup, live>>, NEW s \in Unwritten, written' = written \cup {s},
         NEW type \in Types, memory' = [memory EXCEPT ![Slot(s)] = ScalarCell(type, s)],
         usage' \in UsageRecords, usage'.live_bytes = usage.live_bytes, usage'.ordinal = usage.ordinal,
         \A limit \in limits.work : usage'.work_units <= limit
  PROVE  RuntimeInv'
<1>1. /\ setup \in Setups /\ Heap(memory, setup, live, {}) /\ s \in 1 .. setup.slots /\ s \in 1 .. Slots
      /\ memory[Slot(s)].container = "none" /\ Accounted(memory, usage.live_bytes) /\ usage.live_bytes \in Nat
  BY RunningHas DEF RuntimeInv, SlotsInv, Unwritten
<1> DEFINE c == ScalarCell(type, s)
<1>2. Sound(c, setup) /\ c.container = "scalar" /\ c.parent = NULL /\ c.data = 0 /\ Bytes(c) = 0
  <2>1. type \in setup.types
    BY DEF Types
  <2> QED BY <1>1, <2>1, ScalarIs
<1>3. CellPut(memory, Slot(s), c, memory')
  <2>1. Slot(s) \in DOMAIN memory
    BY <1>1, SlotsAre DEF Heap, Reachable
  <2> QED BY <2>1 DEF CellPut
<1> HIDE DEF c
<1>4. c.data \notin live
  BY <1>1, <1>2 DEF Heap, Allocated
<1>5. Heap(memory', setup, live, {})
  <2>1. \A x : x \in live <=> x \in live \/ (x = c.data /\ x # 0)
    BY <1>2
  <2> QED BY <1>1, <1>2, <1>3, <1>4, <2>1, PutKeepsHeap
<1>6. Accounted(memory', usage.live_bytes)
  <2>1. Accounted(memory', usage.live_bytes + Bytes(c))
    BY <1>1, <1>2, <1>3, <1>4, PutCounts
  <2> QED BY <1>1, <1>2, <2>1
<1>7. OthersKept(memory, memory', setup, Slot(s))
  BY <1>1, <1>3 DEF OthersKept, Heap, Reachable, CellPut
<1>8. \A b \in live : b \in Nat /\ b < usage'.ordinal
  BY DEF RuntimeInv, UsageInv
<1> QED BY <1>1, <1>5, <1>6, <1>7, <1>8, StoreKeeps

LEMMA VectorStored ==
  ASSUME RuntimeInv, phase = "running", Succeed, UNCHANGED setup, NEW s \in Unwritten, written' = written \cup {s},
         NEW type \in Types, NEW count \in Counts, NEW block \in Nat, block = 0 <=> count = 0,
         block # 0 => block = usage.ordinal,
         memory' = [memory EXCEPT ![Slot(s)] = Cell("vector", type, count, s, block)],
         live' = live \cup ({block} \ {0}),
         usage' \in UsageRecords, usage'.live_bytes = usage.live_bytes + count * ByteWidth(type),
         usage'.ordinal = IF block = 0 THEN usage.ordinal ELSE usage.ordinal + 1,
         \A limit \in limits.work : usage'.work_units <= limit
  PROVE  RuntimeInv'
<1>1. /\ setup \in Setups /\ Heap(memory, setup, live, {}) /\ s \in 1 .. setup.slots /\ s \in 1 .. Slots
      /\ memory[Slot(s)].container = "none" /\ Accounted(memory, usage.live_bytes) /\ usage.live_bytes \in Nat
      /\ usage.ordinal \in Nat /\ usage.ordinal # 0
  BY RunningHas DEF RuntimeInv, SlotsInv, Unwritten
<1> DEFINE c == Cell("vector", type, count, s, block)
<1>2. Sound(c, setup) /\ c.container = "vector" /\ c.parent = NULL /\ c.data = block /\ Bytes(c) = count * ByteWidth(type)
  <2>1. type \in setup.types /\ count \in setup.counts
    BY DEF Types, Counts
  <2> QED BY <1>1, <2>1, VectorIs
<1>3. CellPut(memory, Slot(s), c, memory')
  <2>1. Slot(s) \in DOMAIN memory
    BY <1>1, SlotsAre DEF Heap, Reachable
  <2> QED BY <2>1 DEF CellPut
<1> HIDE DEF c
<1>4. \A b \in live : b \in Nat /\ b < usage.ordinal /\ b # 0
  BY <1>1 DEF RuntimeInv, UsageInv, Heap, Allocated
<1>5. c.data \notin live
  BY <1>1, <1>2, <1>4
<1>6. Heap(memory', setup, live', {})
  <2>1. \A x : x \in live' <=> x \in live \/ (x = c.data /\ x # 0)
    BY <1>2
  <2> QED BY <1>1, <1>2, <1>3, <1>5, <2>1, PutKeepsHeap
<1>7. Accounted(memory', usage'.live_bytes)
  BY <1>1, <1>2, <1>3, <1>5, PutCounts
<1>8. OthersKept(memory, memory', setup, Slot(s))
  BY <1>1, <1>3 DEF OthersKept, Heap, Reachable, CellPut
<1>9. \A b \in live' : b \in Nat /\ b < usage'.ordinal
  BY <1>1, <1>4
<1> QED BY <1>1, <1>6, <1>7, <1>8, <1>9, StoreKeeps

\* What an admitted vector leaves room for.
LEMMA VectorAdmitted ==
  ASSUME RuntimeInv, phase = "running", NEW type \in Types, NEW count \in Counts, NEW work \in Nat,
         VectorVerdict(usage, type, count, work) = "none"
  PROVE  /\ count * ByteWidth(type) \in Nat /\ (count * ByteWidth(type) = 0 <=> count = 0)
         /\ usage.live_bytes + count * ByteWidth(type) <= SizeMax
         /\ usage.work_units + work <= SizeMax
         /\ \A limit \in limits.work : usage.work_units + work <= limit
<1>1. /\ setup \in Setups /\ usage.live_bytes \in Nat /\ usage.work_units \in Nat /\ SizeMax \in Nat
  BY RunningHas, SetupHas
<1>2. count \in Nat
  BY <1>1, SetupHas DEF Counts
<1> DEFINE bytes == count * ByteWidth(type)
<1>3. bytes \in Nat /\ (bytes = 0 <=> count = 0)
  <2>1. ByteWidth(type) = 1 \/ ByteWidth(type) = 8
    BY DEF ByteWidth
  <2>2. CASE ByteWidth(type) = 1
    BY <1>2, <2>2
  <2>3. CASE ByteWidth(type) = 8
    BY <1>2, <2>3
  <2> QED BY <2>1, <2>2, <2>3
<1>4. /\ ~(work > SizeMax - usage.work_units) /\ ~(bytes > SizeMax - usage.live_bytes)
      /\ ~Exceeds(usage.work_units + work, limits.work)
  BY DEF VectorVerdict
<1>5. \A limit \in limits.work : limit \in Nat
  BY <1>1, RuntimeAssumption DEF limits
<1> HIDE DEF bytes
<1>6. \A limit \in limits.work : usage.work_units + work <= limit
  BY <1>1, <1>4, <1>5 DEF Exceeds
<1>7. usage.live_bytes + bytes <= SizeMax /\ usage.work_units + work <= SizeMax
  BY <1>1, <1>3, <1>4
<1> QED BY <1>3, <1>6, <1>7 DEF bytes

\* An allocation the host refuses spends its ordinal.
LEMMA OrdinalSpent ==
  ASSUME NEW u \in UsageRecords, NEW bytes, NEW work, NEW v, v = [u EXCEPT !.ordinal = @ + 1]
  PROVE  /\ v \in UsageRecords /\ v.live_bytes = u.live_bytes /\ v.work_units = u.work_units
         /\ v.ordinal = u.ordinal + 1 /\ v.ordinal >= u.ordinal
BY DEF UsageRecords

\* An admitted request is charged.
Charged(u, bytes, work) ==
  [[u EXCEPT !.live_bytes = @ + bytes, !.work_units = @ + work]
     EXCEPT !.ordinal = IF bytes = 0 THEN @ ELSE @ + 1]

LEMMA UsageCharged ==
  ASSUME NEW u \in UsageRecords, NEW bytes \in Nat, NEW work \in Nat, SizeMax \in Nat,
         u.live_bytes + bytes <= SizeMax, u.work_units + work <= SizeMax
  PROVE  LET v == Charged(u, bytes, work) IN
         /\ v \in UsageRecords /\ v.live_bytes = u.live_bytes + bytes
         /\ v.work_units = u.work_units + work
         /\ v.ordinal = IF bytes = 0 THEN u.ordinal ELSE u.ordinal + 1
<1> DEFINE l == u.live_bytes + bytes
           k == u.work_units + work
           w == [u EXCEPT !.live_bytes = @ + bytes, !.work_units = @ + work]
<1>1. l \in 0 .. SizeMax /\ k \in 0 .. SizeMax
  BY DEF UsageRecords
<1>2. w = [u EXCEPT !.live_bytes = l, !.work_units = k]
  OBVIOUS
<1> HIDE DEF l, k, w
<1>3. w \in UsageRecords /\ w.live_bytes = l /\ w.work_units = k /\ w.ordinal = u.ordinal
  BY <1>1, <1>2 DEF UsageRecords
<1> DEFINE o == IF bytes = 0 THEN w.ordinal ELSE w.ordinal + 1
           v == [w EXCEPT !.ordinal = o]
<1>4. o \in Nat \ {0} /\ o = IF bytes = 0 THEN u.ordinal ELSE u.ordinal + 1
  BY <1>3 DEF UsageRecords
<1> HIDE DEF o
<1>5. v \in UsageRecords /\ v.live_bytes = l /\ v.work_units = k /\ v.ordinal = o
  BY <1>3, <1>4 DEF UsageRecords
<1>6. Charged(u, bytes, work) = v
  BY DEF Charged, o, w
<1> QED BY <1>4, <1>5, <1>6 DEF l, k

LEMMA AllocateKeeps ==
  ASSUME RuntimeInv, phase = "running", UNCHANGED setup, NEW s \in Unwritten, written' = written \cup {s},
         NEW type \in Types, NEW count \in Counts, NEW work \in Nat, NEW point,
         Allocate(s, type, count, work, point)
  PROVE  RuntimeInv'
<1> DEFINE bytes == count * ByteWidth(type)
           verdict == VectorVerdict(usage, type, count, work)
<1>1. /\ setup \in Setups /\ usage \in UsageRecords /\ usage.ordinal \in Nat /\ usage.ordinal # 0
      /\ usage.live_bytes \in Nat /\ usage.work_units \in Nat /\ SizeMax \in Nat
      /\ s \in 1 .. Slots /\ written' \subseteq 1 .. Slots /\ written \subseteq written'
  BY RunningHas, SetupHas DEF Unwritten, RuntimeInv, SlotsInv
<1>2. \A limit \in limits.work : usage.work_units <= limit
  BY DEF RuntimeInv, UsageInv
<1>3. CASE verdict # "none"
  <2>1. PICK f : Fail(f) /\ UNCHANGED <<memory, live, usage>>
    BY <1>3 DEF Allocate
  <2> QED BY <1>1, <1>2, <2>1, FailKeeps
<1>4. CASE verdict = "none"
  <2>1. /\ bytes \in Nat /\ (bytes = 0 <=> count = 0)
        /\ usage.live_bytes + bytes <= SizeMax /\ usage.work_units + work <= SizeMax
        /\ \A limit \in limits.work : usage.work_units + work <= limit
    BY <1>4, VectorAdmitted
  <2>2. CASE \E f : Fail(f) /\ usage' = RefusedByHost(bytes, work) /\ UNCHANGED <<memory, live>>
    <3>1. PICK f : Fail(f) /\ usage' = RefusedByHost(bytes, work) /\ UNCHANGED <<memory, live>>
      BY <2>2
    <3>2. /\ usage' \in UsageRecords /\ usage'.live_bytes = usage.live_bytes
          /\ usage'.work_units = usage.work_units /\ usage'.ordinal >= usage.ordinal
      BY <1>1, <3>1, OrdinalSpent DEF RefusedByHost
    <3> QED BY <1>1, <1>2, <3>1, <3>2, FailKeeps
  <2>3. CASE LET block == IF bytes = 0 THEN 0 ELSE usage.ordinal
                 charged == [usage EXCEPT !.live_bytes = @ + bytes, !.work_units = @ + work]
             IN  /\ usage' = [charged EXCEPT !.ordinal = IF bytes = 0 THEN @ ELSE @ + 1]
                 /\ live' = live \cup ({block} \ {0})
                 /\ memory' = [memory EXCEPT ![Slot(s)] = Cell("vector", type, count, s, block)]
                 /\ Succeed
    <3> DEFINE block == IF bytes = 0 THEN 0 ELSE usage.ordinal
    <3>1. /\ live' = live \cup ({block} \ {0})
          /\ memory' = [memory EXCEPT ![Slot(s)] = Cell("vector", type, count, s, block)]
          /\ Succeed
      BY <2>3
    <3> HIDE DEF bytes
    <3>2. block \in Nat /\ (block = 0 <=> count = 0) /\ (block # 0 => block = usage.ordinal)
          /\ (bytes = 0 <=> block = 0)
      BY <1>1, <2>1
    <3>3. /\ usage' \in UsageRecords /\ usage'.live_bytes = usage.live_bytes + bytes
          /\ usage'.work_units = usage.work_units + work
          /\ usage'.ordinal = IF bytes = 0 THEN usage.ordinal ELSE usage.ordinal + 1
      <4>1. usage' = Charged(usage, bytes, work)
        BY <2>3 DEF Charged
      <4> HIDE DEF verdict, block
      <4> QED BY <1>1, <2>1, <4>1, UsageCharged
    <3> HIDE DEF block
    <3>4. usage'.live_bytes = usage.live_bytes + count * ByteWidth(type)
      BY <3>3 DEF bytes
    <3> QED BY <2>1, <3>1, <3>2, <3>3, <3>4, VectorStored
  <2> HIDE DEF bytes
  <2> QED BY <1>4, <2>2, <2>3 DEF Allocate, bytes
<1> QED BY <1>3, <1>4

LEMMA MinIs ==
  ASSUME NEW T \in SUBSET Nat, T # {}
  PROVE  Min(T) \in T /\ \A y \in T : Min(T) <= y
<1>1. \E x \in T : \A y \in T : x <= y
  BY LeastOf
<1> QED BY <1>1 DEF Min

LEMMA FreshIs ==
  ASSUME RuntimeInv, Unwritten # {}
  PROVE  Fresh \in Unwritten
<1>1. Unwritten \in SUBSET Nat
  BY SetupHas DEF RuntimeInv, Unwritten, Slots
<1> QED BY <1>1, MinIs DEF Fresh

LEMMA ScalarKeeps ==
  ASSUME RuntimeInv, NEW type \in Types, Scalar(type)
  PROVE  RuntimeInv'
<1>1. /\ phase = "running" /\ Fresh \in Unwritten /\ written' = written \cup {Fresh}
      /\ memory' = [memory EXCEPT ![Slot(Fresh)] = ScalarCell(type, Fresh)]
      /\ Succeed /\ UNCHANGED <<live, setup, usage>>
  BY DEF Scalar, Writes
<1>2. \A limit \in limits.work : usage.work_units <= limit
  BY DEF RuntimeInv, UsageInv
<1> QED BY <1>1, <1>2, RunningHas, ScalarStored

LEMMA LiteralKeeps ==
  ASSUME RuntimeInv, NEW type \in Types, NEW count \in Counts, Literal(type, count)
  PROVE  RuntimeInv'
BY AllocateKeeps DEF Literal, Writes

\* The cells a call reads exist.
LEMMA OperandsExist ==
  ASSUME RuntimeInv, phase = "running", NEW spread \in BOOLEAN, NEW cells \in Operands(spread)
  PROVE  \E n \in Nat : cells \in [1 .. n -> DOMAIN memory]
<1>1. setup \in Setups /\ Heap(memory, setup, live, {}) /\ written \subseteq 1 .. Slots
  BY RunningHas DEF RuntimeInv, SlotsInv
<1>2. \A t \in written : Slot(t) \in DOMAIN memory
  BY <1>1, SlotsIs DEF Heap, Reachable
<1>3. CASE spread
  <2>1. PICK t \in written : Container(t) = "tuple" /\ cells = Elements(Slot(t))
    BY <1>3 DEF Operands
  <2> DEFINE c == memory[Slot(t)]
  <2>2. c \in CellRecords /\ c.count \in Nat /\ c.container = "tuple" /\ NestedCells(c) \subseteq DOMAIN memory
    BY <1>1, <1>2, <2>1 DEF Heap, Reachable, CellsSound, Sound, CellRecords, Container
  <2>3. cells = [k \in 1 .. c.count |-> <<c.data, k - 1>>]
    BY <2>1 DEF Elements
  <2> HIDE DEF c
  <2>4. \A k \in 1 .. c.count : k - 1 \in Nat /\ k - 1 < c.count
    BY <2>2
  <2>5. \A k \in 1 .. c.count : <<c.data, k - 1>> \in NestedCells(c)
    BY <2>2, <2>4, NestedIs
  <2> QED BY <2>2, <2>3, <2>5
<1>4. CASE ~spread
  <2>1. PICK n \in {1, 2} : cells \in [1 .. n -> {Slot(s) : s \in {t \in written : Complete(t)}}]
    BY <1>4 DEF Operands
  <2> QED BY <1>2, <2>1
<1> QED BY <1>3, <1>4

LEMMA LenIs ==
  ASSUME NEW S, NEW n \in Nat, NEW c \in [1 .. n -> S]
  PROVE  Len(c) = n
OBVIOUS

\* An operand whose type is Int is of a type the program has.
LEMMA IntIsUsed ==
  ASSUME RuntimeInv, phase = "running", NEW spread \in BOOLEAN, NEW cells \in Operands(spread),
         NEW count, Iota(cells, count, spread)
  PROVE  "Int" \in Types
<1>1. setup \in Setups /\ Heap(memory, setup, live, {})
  BY RunningHas
<1>2. PICK n \in Nat : cells \in [1 .. n -> DOMAIN memory]
  BY OperandsExist
<1>3. /\ Len(cells) = 1 /\ memory[cells[1]].type = "Int"
      /\ \A k \in DOMAIN cells : memory[cells[k]].container \in {"scalar", "vector"}
  BY DEF Iota, Atoms
<1>4. n = 1
  <2>1. Len(cells) = n
    BY <1>2, LenIs
  <2> QED BY <1>3, <2>1
<1>5. cells[1] \in DOMAIN memory /\ memory[cells[1]].container \in {"scalar", "vector"}
  BY <1>2, <1>3, <1>4
<1>6. Sound(memory[cells[1]], setup)
  BY <1>1, <1>5 DEF Heap, CellsSound
<1> QED BY <1>3, <1>5, <1>6 DEF Sound, Types

LEMMA IotaKeeps ==
  ASSUME RuntimeInv, NEW spread \in BOOLEAN, NEW cells \in Operands(spread), NEW count \in Counts,
         Iota(cells, count, spread)
  PROVE  RuntimeInv'
<1>1. /\ phase = "running" /\ Fresh \in Unwritten /\ written' = written \cup {Fresh}
      /\ Allocate(Fresh, "Int", count, count, "iota") /\ UNCHANGED setup
  BY DEF Iota, Writes
<1>2. count \in Nat
  BY SetupHas DEF RuntimeInv, Counts
<1>3. "Int" \in Types
  BY <1>1, IntIsUsed
<1> QED BY <1>1, <1>2, <1>3, AllocateKeeps

LEMMA ApplyScalarKeeps ==
  ASSUME RuntimeInv, phase = "running", UNCHANGED setup, NEW s \in Unwritten, written' = written \cup {s},
         NEW type \in Types, ApplyScalar(s, type)
  PROVE  RuntimeInv'
<1>1. /\ setup \in Setups /\ usage \in UsageRecords /\ usage.ordinal \in Nat
      /\ usage.work_units \in Nat /\ SizeMax \in Nat
      /\ s \in 1 .. Slots /\ written' \subseteq 1 .. Slots /\ written \subseteq written'
  BY RunningHas, SetupHas DEF Unwritten, RuntimeInv, SlotsInv
<1>2. \A limit \in limits.work : limit \in Nat /\ usage.work_units <= limit
  BY RuntimeAssumption DEF RuntimeInv, UsageInv, limits
<1>3. CASE WorkVerdict(usage, 1) # "none"
  <2>1. PICK f : Fail(f) /\ UNCHANGED <<memory, live, usage>>
    BY <1>3 DEF ApplyScalar
  <2> QED BY <1>1, <1>2, <2>1, FailKeeps
<1>4. CASE WorkVerdict(usage, 1) = "none"
  <2>1. ~(1 > SizeMax - usage.work_units) /\ ~Exceeds(usage.work_units + 1, limits.work)
    BY <1>4 DEF WorkVerdict
  <2>2. usage.work_units + 1 \in 0 .. SizeMax /\ \A limit \in limits.work : usage.work_units + 1 <= limit
    BY <1>1, <1>2, <2>1 DEF Exceeds
  <2>3. usage' = [usage EXCEPT !.work_units = usage.work_units + 1] /\ live' = live
    BY <1>4 DEF ApplyScalar
  <2>4. /\ usage' \in UsageRecords /\ usage'.live_bytes = usage.live_bytes
        /\ usage'.ordinal = usage.ordinal /\ usage'.work_units = usage.work_units + 1
    BY <1>1, <2>2, <2>3 DEF UsageRecords
  <2>5. CASE memory' = [memory EXCEPT ![Slot(s)] = ScalarCell(type, s)] /\ Succeed
    BY <2>2, <2>3, <2>4, <2>5, ScalarStored
  <2>6. CASE Fail(DomainFailure({})) /\ UNCHANGED memory
    <3>1. usage'.ordinal >= usage.ordinal
      BY <1>1, <2>4
    <3> QED BY <1>1, <2>2, <2>3, <2>4, <2>6, <3>1, FailKeeps
  <2> QED BY <1>4, <2>5, <2>6 DEF ApplyScalar
<1> QED BY <1>3, <1>4

LEMMA KernelFailureKeeps ==
  ASSUME RuntimeInv, phase = "running", UNCHANGED setup, NEW s \in Unwritten, written' = written \cup {s},
         NEW type \in Types, NEW count \in Counts, NEW index,
         KernelFails(s, type, count, index)
  PROVE  RuntimeInv'
<1>1. /\ setup \in Setups /\ usage \in UsageRecords /\ usage.ordinal \in Nat
      /\ usage.work_units \in Nat /\ SizeMax \in Nat /\ count \in Nat
      /\ s \in 1 .. Slots /\ written' \subseteq 1 .. Slots /\ written \subseteq written'
  BY RunningHas, SetupHas DEF Unwritten, RuntimeInv, SlotsInv, Counts
<1>2. /\ VectorVerdict(usage, type, count, count) = "none"
      /\ usage' = [usage EXCEPT !.work_units = usage.work_units + count, !.ordinal = usage.ordinal + 1]
      /\ Fail(DomainFailure({index})) /\ UNCHANGED <<memory, live>>
  BY DEF KernelFails
<1>3. usage.work_units + count <= SizeMax /\ \A limit \in limits.work : usage.work_units + count <= limit
  BY <1>1, <1>2, VectorAdmitted
<1> DEFINE k == usage.work_units + count
           o == usage.ordinal + 1
<1>4. k \in 0 .. SizeMax /\ o \in Nat \ {0} /\ o >= usage.ordinal
  BY <1>1, <1>3
<1>5. usage' = [usage EXCEPT !.work_units = k, !.ordinal = o]
  BY <1>2
<1> HIDE DEF k, o
<1>6. /\ usage' \in UsageRecords /\ usage'.live_bytes = usage.live_bytes
      /\ usage'.ordinal = o /\ usage'.work_units = k
  BY <1>1, <1>4, <1>5 DEF UsageRecords
<1>7. \A limit \in limits.work : usage'.work_units <= limit
  BY <1>3, <1>6 DEF k
<1> QED BY <1>1, <1>2, <1>4, <1>6, <1>7, FailKeeps

\* The largest of some positions is one of them.
LEMMA MaxIs ==
  ASSUME NEW n \in Nat, NEW T \in SUBSET (1 .. n), T # {}
  PROVE  Max(T) \in T
<1> DEFINE down == {n - k : k \in T}
<1>1. \A x \in T : x \in Nat /\ x <= n
  OBVIOUS
<1>2. down \in SUBSET Nat /\ down # {}
  <2>1. \A k \in T : n - k \in Nat
    BY <1>1
  <2>2. PICK k \in T : TRUE
    OBVIOUS
  <2>3. n - k \in down
    OBVIOUS
  <2> QED BY <2>1, <2>3
<1>3. PICK y \in down : \A z \in down : y <= z
  BY <1>2, LeastOf
<1>4. PICK x \in T : y = n - x
  BY <1>3
<1>5. \A z \in T : n - x <= n - z
  BY <1>3, <1>4
<1>6. \A z \in T : x >= z
  BY <1>1, <1>5
<1> QED BY <1>4, <1>6 DEF Max

\* The length of a call's result is that of one of its operands.
LEMMA LengthIs ==
  ASSUME RuntimeInv, phase = "running", NEW spread \in BOOLEAN, NEW cells \in Operands(spread),
         VectorsAmong(cells) # {}
  PROVE  memory[cells[Max(VectorsAmong(cells))]].count \in Counts
<1> DEFINE vectors == VectorsAmong(cells)
<1>1. PICK n \in Nat : cells \in [1 .. n -> DOMAIN memory]
  BY OperandsExist
<1>2. vectors \in SUBSET (1 .. n)
  BY <1>1 DEF VectorsAmong
<1>3. Max(vectors) \in vectors
  BY <1>1, <1>2, MaxIs
<1>4. memory[cells[Max(vectors)]].container = "vector" /\ cells[Max(vectors)] \in DOMAIN memory
  BY <1>1, <1>3 DEF VectorsAmong
<1>5. Heap(memory, setup, live, {})
  BY RunningHas
<1> QED BY <1>4, <1>5 DEF Heap, CellsSound, Sound, Counts

\* A process that ends leaves its memory as it was.
LEMMA CrashKeeps ==
  ASSUME RuntimeInv, phase = "running", UNCHANGED setup, NEW s \in Unwritten, written' = written \cup {s},
         NEW cells, NEW type, NEW count, ReadPastEnd(cells, type, count)
  PROVE  RuntimeInv'
<1>1. phase' = "crashed" /\ UNCHANGED <<setup, memory, live, usage, outcome, at, stage, slot>>
  BY DEF ReadPastEnd
<1>2. Slots' = Slots /\ limits' = limits /\ s \in 1 .. Slots
  BY <1>1 DEF Slots, limits, Unwritten
<1>3. MemoryInv'
  BY <1>1 DEF RuntimeInv, MemoryInv, OnTrail
<1>4. UsageInv'
  BY <1>1, <1>2 DEF RuntimeInv, UsageInv
<1>5. SlotsInv'
  BY <1>1, <1>2 DEF RuntimeInv, SlotsInv, Unwritten
<1>6. ControlInv'
  BY <1>1, <1>2 DEF RuntimeInv, ControlInv
<1> QED BY <1>1, <1>3, <1>4, <1>5, <1>6 DEF RuntimeInv

LEMMA ApplyKeeps ==
  ASSUME RuntimeInv, NEW type \in Types, NEW spread \in BOOLEAN, NEW cells \in Operands(spread),
         Apply(cells, type, spread)
  PROVE  RuntimeInv'
<1> DEFINE vectors == VectorsAmong(cells)
           count == memory[cells[Max(vectors)]].count
<1>1. /\ phase = "running" /\ Fresh \in Unwritten /\ written' = written \cup {Fresh} /\ UNCHANGED setup
  BY DEF Apply, Writes
<1>2. CASE vectors = {}
  <2>1. ApplyScalar(Fresh, type)
    BY <1>2 DEF Apply
  <2> QED BY <1>1, <2>1, ApplyScalarKeeps
<1>3. CASE vectors # {}
  <2>1. count \in Counts
    BY <1>1, <1>3, LengthIs
  <2>2. \/ Allocate(Fresh, type, count, count, "apply")
        \/ \E index \in 0 .. count - 1 : KernelFails(Fresh, type, count, index)
        \/ ReadPastEnd(cells, type, count)
    BY <1>3 DEF Apply
  <2> HIDE DEF vectors, count
  <2>3. count \in Nat
    BY <2>1, SetupHas DEF RuntimeInv, Counts
  <2> QED BY <1>1, <2>1, <2>2, <2>3, AllocateKeeps, KernelFailureKeeps, CrashKeeps
<1> QED BY <1>2, <1>3

\* A step that moves nothing the invariant speaks of.
LEMMA StillKeeps ==
  ASSUME RuntimeInv, UNCHANGED <<setup, memory, live, usage, written, phase, outcome, at, stage, slot>>
  PROVE  RuntimeInv'
<1>1. Slots' = Slots /\ limits' = limits
  BY DEF Slots, limits
<1> QED BY <1>1 DEF RuntimeInv, MemoryInv, UsageInv, SlotsInv, ControlInv, OnTrail, Unwritten

\* A failure that leaves everything where it is.
LEMMA BareFailureKeeps ==
  ASSUME RuntimeInv, phase = "running", NEW f, Fail(f), UNCHANGED <<setup, memory, live, usage, written>>
  PROVE  RuntimeInv'
<1>1. /\ usage' \in UsageRecords /\ usage'.live_bytes = usage.live_bytes /\ usage'.ordinal >= usage.ordinal
      /\ written' \subseteq 1 .. Slots /\ written \subseteq written'
      /\ \A limit \in limits.work : usage'.work_units <= limit
  BY RunningHas DEF RuntimeInv, SlotsInv, UsageInv
<1> QED BY <1>1, FailKeeps

LEMMA RequireShapeKeeps ==
  ASSUME RuntimeInv, NEW cells, NEW k, NEW spread, RequireShape(cells, k, spread)
  PROVE  RuntimeInv'
<1>1. phase = "running" /\ UNCHANGED <<setup, memory, live, usage, written>>
  BY DEF RequireShape
<1>2. CASE Succeed
  BY <1>1, <1>2, StillKeeps DEF Succeed, control
<1>3. CASE \E f : Fail(f)
  BY <1>1, <1>3, BareFailureKeeps
<1>4. Succeed \/ \E f : Fail(f)
  BY DEF RequireShape
<1> QED BY <1>2, <1>3, <1>4

LEMMA LocaleRefusedKeeps ==
  ASSUME RuntimeInv, LocaleRefused
  PROVE  RuntimeInv'
BY BareFailureKeeps DEF LocaleRefused

LEMMA TableAdmitted ==
  ASSUME RuntimeInv, phase = "running", NEW count \in Nat, TableVerdict(usage, count) = "none"
  PROVE  count * SlotBytes \in Nat /\ usage.live_bytes + count * SlotBytes <= SizeMax
<1>1. usage.live_bytes \in Nat /\ SizeMax \in Nat
  BY RunningHas, SetupHas
<1>2. ~(count * SlotBytes > SizeMax - usage.live_bytes) /\ count * SlotBytes \in Nat
  BY DEF TableVerdict, SlotBytes
<1> QED BY <1>1, <1>2 DEF SlotBytes

\* bennu_tuple refuses the table, or makes it.
LEMMA MakeTupleCases ==
  ASSUME RuntimeInv, phase = "running", NEW s, NEW cells, NEW sources, NEW cleanup, NEW point,
         Len(cells) \in Nat, MakeTuple(s, cells, sources, cleanup, point)
  PROVE  LET count == Len(cells)
             block == IF count = 0 THEN 0 ELSE usage.ordinal
         IN
         \/ \E f : /\ Fail(f) /\ UNCHANGED <<memory, live>>
                   /\ usage' \in UsageRecords /\ usage'.live_bytes = usage.live_bytes
                   /\ usage'.work_units = usage.work_units /\ usage'.ordinal >= usage.ordinal
         \/ /\ block \in Nat /\ (block = 0 <=> count = 0) /\ block \notin live
            /\ usage' \in UsageRecords /\ usage'.live_bytes = usage.live_bytes + count * SlotBytes
            /\ usage'.work_units = usage.work_units
            /\ \A b \in live' : b \in Nat /\ b < usage'.ordinal
            /\ \A x : x \in live' <=> x \in live \/ (x = block /\ x # 0)
            /\ memory' = WithTuple(memory, Slot(s), Advanced(NewTuple(count, block), cleanup), block, cells, sources)
            /\ Succeed
<1> DEFINE count == Len(cells)
           bytes == count * SlotBytes
           verdict == TableVerdict(usage, count)
           block == IF count = 0 THEN 0 ELSE usage.ordinal
<1>1. /\ setup \in Setups /\ usage \in UsageRecords /\ usage.ordinal \in Nat /\ usage.ordinal # 0
      /\ usage.live_bytes \in Nat /\ SizeMax \in Nat /\ Heap(memory, setup, live, {})
  BY RunningHas, SetupHas
<1>2. CASE verdict # "none"
  <2>1. PICK f : Fail(f) /\ UNCHANGED <<memory, live, usage>>
    BY <1>2 DEF MakeTuple
  <2> QED BY <1>1, <2>1
<1>3. CASE verdict = "none"
  <2>1. CASE \E f : Fail(f) /\ usage' = RefusedByHost(bytes, 0) /\ UNCHANGED <<memory, live>>
    <3>1. PICK f : Fail(f) /\ usage' = RefusedByHost(bytes, 0) /\ UNCHANGED <<memory, live>>
      BY <2>1
    <3>2. /\ usage' \in UsageRecords /\ usage'.live_bytes = usage.live_bytes
          /\ usage'.work_units = usage.work_units /\ usage'.ordinal >= usage.ordinal
      BY <1>1, <3>1, OrdinalSpent DEF RefusedByHost
    <3> QED BY <3>1, <3>2
  <2>2. CASE LET tuple == [Cell("tuple", "none", count, 0, block) EXCEPT !.cleanup_index = cleanup]
                 table == Filled([memory EXCEPT ![Slot(s)] = tuple], Slot(s), block, cells)
             IN  /\ usage' = [usage EXCEPT !.live_bytes = @ + bytes,
                                           !.ordinal = IF count = 0 THEN @ ELSE @ + 1]
                 /\ live' = live \cup ({block} \ {0})
                 /\ memory' = [a \in DOMAIN table |-> IF a \in sources THEN Zero ELSE table[a]]
                 /\ Succeed
    <3>1. /\ memory' = WithTuple(memory, Slot(s), Advanced(NewTuple(count, block), cleanup), block, cells, sources)
          /\ live' = live \cup ({block} \ {0}) /\ Succeed
      BY <2>2 DEF WithTuple, Advanced, NewTuple
    <3> DEFINE l == usage.live_bytes + bytes
               o == IF count = 0 THEN usage.ordinal ELSE usage.ordinal + 1
    <3>2. usage' = [usage EXCEPT !.live_bytes = l, !.ordinal = o]
      BY <2>2
    <3>3. l \in 0 .. SizeMax
      <4>1. bytes \in Nat /\ usage.live_bytes + bytes <= SizeMax
        BY <1>3, TableAdmitted
      <4> HIDE DEF bytes
      <4> QED BY <1>1, <4>1
    <3>4. o \in Nat \ {0} /\ block \in Nat /\ (block = 0 <=> count = 0) /\ (block # 0 => block < o) /\ usage.ordinal <= o
          /\ (block # 0 => block = usage.ordinal)
      <4> HIDE DEF count
      <4> QED BY <1>1
    <3> HIDE DEF l, o
    <3>5. /\ usage' \in UsageRecords /\ usage'.live_bytes = l
          /\ usage'.work_units = usage.work_units /\ usage'.ordinal = o
      BY <1>1, <3>2, <3>3, <3>4 DEF UsageRecords
    <3> HIDE DEF block, count
    <3>6. \A b \in live : b \in Nat /\ b < usage.ordinal /\ b # 0
      BY <1>1 DEF RuntimeInv, UsageInv, Heap, Allocated
    <3>7. block \notin live
      BY <1>1, <3>4, <3>6
    <3>8. \A b \in live' : b \in Nat /\ b < usage'.ordinal
      BY <1>1, <3>1, <3>4, <3>5, <3>6
    <3>9. \A x : x \in live' <=> x \in live \/ (x = block /\ x # 0)
      BY <3>1
    <3> QED BY <3>1, <3>4, <3>5, <3>7, <3>8, <3>9 DEF l, block, count
  <2> QED BY <1>3, <2>1, <2>2 DEF MakeTuple
<1> QED BY <1>2, <1>3

LEMMA TupleKeeps ==
  ASSUME RuntimeInv, NEW n \in 0 .. Width, NEW elements \in [1 .. n -> 1 .. Slots], Tuple(elements)
  PROVE  RuntimeInv'
<1> DEFINE s == Fresh
           cells == [k \in 1 .. n |-> memory[Slot(elements[k])]]
           sources == {Slot(elements[k]) : k \in 1 .. n}
           block == IF n = 0 THEN 0 ELSE usage.ordinal
<1>1. n \in Nat /\ DOMAIN elements = 1 .. n /\ Len(elements) = n
  BY SetupHas DEF RuntimeInv
<1>2. /\ phase = "running" /\ s \in Unwritten /\ written' = written \cup {s} /\ UNCHANGED setup
      /\ \A k \in 1 .. n : elements[k] \in written /\ Complete(elements[k])
      /\ \A j, k \in 1 .. n : j # k => elements[j] # elements[k]
      /\ MakeTuple(s, cells, sources, n, "tuple-literal")
  BY <1>1 DEF Tuple, Writes
<1>3. /\ setup \in Setups /\ Heap(memory, setup, live, {}) /\ Slots = setup.slots
      /\ s \in 1 .. Slots /\ s \notin written /\ written' \subseteq 1 .. Slots /\ written \subseteq written'
      /\ memory[Slot(s)].container = "none" /\ usage.live_bytes \in Nat /\ Accounted(memory, usage.live_bytes)
      /\ \A limit \in limits.work : usage.work_units <= limit
  BY <1>2, RunningHas DEF RuntimeInv, SlotsInv, UsageInv, Unwritten
<1>4. Len(cells) = n
  BY <1>1
<1> HIDE DEF s, cells, sources
<1>5. \/ \E f : /\ Fail(f) /\ UNCHANGED <<memory, live>>
                /\ usage' \in UsageRecords /\ usage'.live_bytes = usage.live_bytes
                /\ usage'.work_units = usage.work_units /\ usage'.ordinal >= usage.ordinal
      \/ /\ block \in Nat /\ (block = 0 <=> n = 0) /\ block \notin live
         /\ usage' \in UsageRecords /\ usage'.live_bytes = usage.live_bytes + n * SlotBytes
         /\ usage'.work_units = usage.work_units
         /\ \A b \in live' : b \in Nat /\ b < usage'.ordinal
         /\ \A x : x \in live' <=> x \in live \/ (x = block /\ x # 0)
         /\ memory' = WithTuple(memory, Slot(s), Advanced(NewTuple(n, block), n), block, cells, sources)
         /\ Succeed
  BY <1>1, <1>2, <1>4, MakeTupleCases
<1> HIDE DEF block
<1>6. CASE \E f : /\ Fail(f) /\ UNCHANGED <<memory, live>>
                  /\ usage' \in UsageRecords /\ usage'.live_bytes = usage.live_bytes
                  /\ usage'.work_units = usage.work_units /\ usage'.ordinal >= usage.ordinal
  BY <1>2, <1>3, <1>6, FailKeeps
<1>7. CASE /\ block \in Nat /\ (block = 0 <=> n = 0) /\ block \notin live
           /\ usage' \in UsageRecords /\ usage'.live_bytes = usage.live_bytes + n * SlotBytes
           /\ usage'.work_units = usage.work_units
           /\ \A b \in live' : b \in Nat /\ b < usage'.ordinal
           /\ \A x : x \in live' <=> x \in live \/ (x = block /\ x # 0)
           /\ memory' = WithTuple(memory, Slot(s), Advanced(NewTuple(n, block), n), block, cells, sources)
           /\ Succeed
  <2>1. TableGiven(memory, setup, live, usage.live_bytes, s, n, block, live')
    BY <1>3, <1>7 DEF TableGiven
  <2>2. ElementsGiven(memory, setup, s, n, elements)
    <3>1. elements \in [1 .. n -> 1 .. setup.slots \ {s}]
      BY <1>2, <1>3
    <3>2. \A k \in 1 .. n : LET e == memory[Slot(elements[k])] IN
                            e.container = "tuple" => e.cleanup_index = e.count
      BY <1>2 DEF Complete
    <3> QED BY <1>2, <3>1, <3>2 DEF ElementsGiven
  <2>3. TupleBuilt(memory, s, n, block, elements, memory')
    BY <1>7 DEF cells, sources, TupleBuilt
  <2>4. Heap(memory', setup, live', {}) /\ Accounted(memory', usage.live_bytes + n * SlotBytes)
        /\ OthersKept(memory, memory', setup, Slot(s))
    BY <1>3, <2>1, <2>2, <2>3, TupleKeepsHeap
  <2> QED BY <1>2, <1>3, <1>7, <2>4, StoreKeeps
<1> QED BY <1>5, <1>6, <1>7

LEMMA FanoutKeeps ==
  ASSUME RuntimeInv, NEW s \in 1 .. Slots, NEW n \in 1 .. Width, Fanout(s, n)
  PROVE  RuntimeInv'
<1> DEFINE cells == [k \in 1 .. n |-> Zero]
           block == IF n = 0 THEN 0 ELSE usage.ordinal
<1>1. n \in Nat /\ n \in 0 .. Width
  BY SetupHas DEF RuntimeInv
<1>2. /\ phase = "running" /\ s \in Unwritten /\ written' = written \cup {s} /\ UNCHANGED setup
      /\ MakeTuple(s, cells, {}, 0, "fanout")
  BY DEF Fanout, Writes
<1>3. /\ setup \in Setups /\ Heap(memory, setup, live, {}) /\ Slots = setup.slots
      /\ written' \subseteq 1 .. Slots /\ written \subseteq written'
      /\ memory[Slot(s)].container = "none" /\ usage.live_bytes \in Nat /\ Accounted(memory, usage.live_bytes)
      /\ \A limit \in limits.work : usage.work_units <= limit
  BY <1>2, RunningHas DEF RuntimeInv, SlotsInv, UsageInv, Unwritten
<1>4. Len(cells) = n
  BY <1>1
<1> HIDE DEF cells
<1>5. \/ \E f : /\ Fail(f) /\ UNCHANGED <<memory, live>>
                /\ usage' \in UsageRecords /\ usage'.live_bytes = usage.live_bytes
                /\ usage'.work_units = usage.work_units /\ usage'.ordinal >= usage.ordinal
      \/ /\ block \in Nat /\ (block = 0 <=> n = 0) /\ block \notin live
         /\ usage' \in UsageRecords /\ usage'.live_bytes = usage.live_bytes + n * SlotBytes
         /\ usage'.work_units = usage.work_units
         /\ \A b \in live' : b \in Nat /\ b < usage'.ordinal
         /\ \A x : x \in live' <=> x \in live \/ (x = block /\ x # 0)
         /\ memory' = WithTuple(memory, Slot(s), Advanced(NewTuple(n, block), 0), block, cells, {})
         /\ Succeed
  BY <1>1, <1>2, <1>4, MakeTupleCases
<1> HIDE DEF block
<1>6. CASE \E f : /\ Fail(f) /\ UNCHANGED <<memory, live>>
                  /\ usage' \in UsageRecords /\ usage'.live_bytes = usage.live_bytes
                  /\ usage'.work_units = usage.work_units /\ usage'.ordinal >= usage.ordinal
  BY <1>2, <1>3, <1>6, FailKeeps
<1>7. CASE /\ block \in Nat /\ (block = 0 <=> n = 0) /\ block \notin live
           /\ usage' \in UsageRecords /\ usage'.live_bytes = usage.live_bytes + n * SlotBytes
           /\ usage'.work_units = usage.work_units
           /\ \A b \in live' : b \in Nat /\ b < usage'.ordinal
           /\ \A x : x \in live' <=> x \in live \/ (x = block /\ x # 0)
           /\ memory' = WithTuple(memory, Slot(s), Advanced(NewTuple(n, block), 0), block, cells, {})
           /\ Succeed
  <2>1. memory' = WithTuple(memory, Slot(s), Advanced(NewTuple(n, block), 0), block,
                            [k \in 1 .. n |-> Zero], {})
    BY <1>7 DEF cells
  <2>2. TableGiven(memory, setup, live, usage.live_bytes, s, n, block, live')
    BY <1>1, <1>3, <1>7 DEF TableGiven
  <2>3. Heap(memory', setup, live', {}) /\ Accounted(memory', usage.live_bytes + n * SlotBytes)
        /\ OthersKept(memory, memory', setup, Slot(s))
    BY <1>3, <2>1, <2>2, FanoutKeepsHeap, Zenon
  <2> QED BY <1>2, <1>3, <1>7, <2>3, StoreKeeps
<1> QED BY <1>5, <1>6, <1>7

LEMMA TransferKeeps ==
  ASSUME RuntimeInv, NEW f \in 1 .. Slots, NEW s \in 1 .. Slots, Transfer(f, s)
  PROVE  RuntimeInv'
<1>1. /\ phase = "running" /\ f \in written /\ s < f /\ Complete(s)
      /\ memory[Slot(f)].container = "tuple" /\ memory[Slot(f)].cleanup_index < memory[Slot(f)].count
      /\ memory' = WithElement(memory, Slot(f), Slot(s))
      /\ UNCHANGED <<live, setup, usage, failure, written, control>>
  BY DEF Transfer, WithElement
<1>2. /\ setup \in Setups /\ Heap(memory, setup, live, {}) /\ Slots = setup.slots /\ Slots \in Nat
      /\ usage.live_bytes \in Nat /\ Accounted(memory, usage.live_bytes)
  BY <1>1, RunningHas
<1>3. f \in 1 .. setup.slots /\ s \in 1 .. setup.slots /\ s # f
  BY <1>1, <1>2
<1>4. memory[Slot(s)].container = "tuple" => memory[Slot(s)].cleanup_index = memory[Slot(s)].count
  BY <1>1 DEF Complete
<1>5. /\ Heap(memory', setup, live, {}) /\ Accounted(memory', usage.live_bytes)
      /\ OthersKept(memory, memory', setup, Slot(f))
  BY <1>1, <1>2, <1>3, <1>4, TransferKeepsHeap
<1>6. Succeed /\ written' = written \cup {f} /\ live' = live /\ usage' = usage
  BY <1>1 DEF Succeed
<1>7. /\ usage' \in UsageRecords /\ \A limit \in limits.work : usage'.work_units <= limit
      /\ \A b \in live' : b \in Nat /\ b < usage'.ordinal
  BY <1>6 DEF RuntimeInv, UsageInv
<1> QED BY <1>1, <1>5, <1>6, <1>7, StoreKeeps

\* A release sets out from a slot.
LEMMA TrailStarts ==
  ASSUME NEW u \in Setups, NEW m, NEW blocks, Heap(m, u, blocks, {}), NEW a \in SlotsOf(u)
  PROVE  a \in DOMAIN m /\ a # NULL /\ Heap(m, u, blocks, {a}) /\ Trail(m, u, {a}, a, a)
<1>1. a \in DOMAIN m /\ a # NULL
  BY SlotsAre, AddressIsNotNull DEF Heap, Reachable
<1>2. \A o \in DOMAIN m : \A x \in NestedCells(m[o]) : x # a
  BY NestedApart DEF Heap
<1>3. Linked(m, u, {a})
  BY <1>2 DEF Heap, Linked
<1>4. Trail(m, u, {a}, a, a)
  BY <1>1, <1>2 DEF Trail
<1> QED BY <1>1, <1>3, <1>4 DEF Heap

LEMMA BeginReleaseKeeps ==
  ASSUME RuntimeInv, NEW s \in 1 .. Slots, BeginRelease(s)
  PROVE  RuntimeInv'
<1>1. /\ phase = "running" /\ phase' = "releasing" /\ at' = Slot(s) /\ slot' = s
      /\ UNCHANGED <<memory, live, setup, usage, written, outcome, stage>>
  BY DEF BeginRelease
<1>2. setup \in Setups /\ Heap(memory, setup, live, {}) /\ Slots = setup.slots /\ Slots \in Nat
  BY <1>1, RunningHas
<1>3. Slots' = Slots /\ limits' = limits
  BY <1>1 DEF Slots, limits
<1>4. Slot(s) \in SlotsOf(setup)
  BY SlotsIs
<1>5. Slot(s) # NULL /\ Heap(memory, setup, live, {Slot(s)}) /\ Trail(memory, setup, {Slot(s)}, Slot(s), Slot(s))
  BY <1>2, <1>4, TrailStarts
<1>6. OnTrail(memory, setup, {Slot(s)}, phase', at', slot')
  BY <1>1, <1>5 DEF OnTrail
<1>7. MemoryInv'
  BY <1>1, <1>5, <1>6 DEF MemoryInv
<1>8. UsageInv'
  BY <1>1, <1>3 DEF RuntimeInv, UsageInv
<1>9. SlotsInv'
  BY <1>1, <1>3 DEF RuntimeInv, SlotsInv, Unwritten
<1>10. ControlInv'
  BY <1>1, <1>2, <1>3, <1>5 DEF RuntimeInv, ControlInv
<1> QED BY <1>1, <1>2, <1>7, <1>8, <1>9, <1>10 DEF RuntimeInv

\* A walk goes through the memory, which stays as it is.
LEMMA WalkKeeps ==
  ASSUME RuntimeInv, UNCHANGED <<setup, memory, live, usage, written>>,
         phase \in {"running", "validating", "printing"},
         phase' \in {"validating", "printing"} \/ (phase' = "cleaning" /\ at' = NULL /\ slot' = Slots),
         ControlInv'
  PROVE  RuntimeInv'
<1>1. /\ setup' = setup /\ memory' = memory /\ live' = live /\ usage' = usage /\ written' = written
      /\ Slots' = Slots /\ limits' = limits /\ setup \in Setups
  BY DEF Slots, limits, RuntimeInv
<1>2. PICK path : Heap(memory, setup, live, path) /\ OnTrail(memory, setup, path, phase, at, slot)
  BY DEF RuntimeInv, MemoryInv
<1>3. OnTrail(memory, setup, path, phase', at', slot')
  BY <1>2 DEF OnTrail
<1>4. MemoryInv'
  BY <1>1, <1>2, <1>3 DEF MemoryInv
<1>5. UsageInv'
  BY <1>1 DEF RuntimeInv, UsageInv
<1>6. SlotsInv'
  <2>1. \A s \in 1 .. Slots : ~(s > Slots)
    BY <1>1, SetupHas DEF Slots
  <2> QED BY <1>1, <2>1 DEF RuntimeInv, SlotsInv, Unwritten
<1> QED BY <1>1, <1>4, <1>5, <1>6 DEF RuntimeInv

LEMMA FinishKeeps ==
  ASSUME RuntimeInv, Finish
  PROVE  RuntimeInv'
<1>1. /\ phase = "running" /\ phase' = "printing" /\ at = NULL
      /\ UNCHANGED <<setup, memory, live, usage, written, outcome, at, stage, slot>>
  BY DEF Finish, RuntimeInv, ControlInv
<1>2. Slots' = Slots
  BY <1>1 DEF Slots
<1>3. ControlInv'
  BY <1>1, <1>2 DEF RuntimeInv, ControlInv
<1> QED BY <1>1, <1>3, WalkKeeps

LEMMA NextRootKeeps ==
  ASSUME RuntimeInv, NextRoot
  PROVE  RuntimeInv'
<1>1. /\ phase = "printing" /\ at = NULL /\ stage' = "enter"
      /\ UNCHANGED <<setup, memory, live, usage, written>>
  BY DEF NextRoot
<1>2. Slots' = Slots /\ Slots \in Nat
  BY <1>1, SetupHas DEF Slots, RuntimeInv
<1>3. CASE RootsLeft = {}
  <2>1. phase' = "cleaning" /\ outcome' = "ok" /\ slot' = Slots /\ at' = NULL
    BY <1>1, <1>3 DEF NextRoot
  <2>2. ControlInv'
    BY <1>1, <1>2, <2>1 DEF RuntimeInv, ControlInv
  <2> QED BY <1>1, <2>1, <2>2, WalkKeeps
<1>4. CASE RootsLeft # {}
  <2>1. phase' = "validating" /\ slot' = Min(RootsLeft) /\ at' = Slot(slot') /\ outcome' = outcome
    BY <1>4 DEF NextRoot
  <2>2. RootsLeft \in SUBSET Nat /\ RootsLeft \subseteq 1 .. Slots
    BY <1>2 DEF RootsLeft, Roots
  <2>3. slot' \in 1 .. Slots
    BY <1>4, <2>1, <2>2, MinIs
  <2>4. at' \in DOMAIN memory
    <3>1. PICK path : Heap(memory, setup, live, path)
      BY DEF RuntimeInv, MemoryInv
    <3> QED BY <2>1, <2>3, <3>1, SlotsIs DEF Heap, Reachable
  <2>5. ControlInv'
    BY <1>1, <1>2, <2>1, <2>3, <2>4 DEF RuntimeInv, ControlInv
  <2> QED BY <1>1, <2>1, <2>5, WalkKeeps
<1> QED BY <1>3, <1>4

\* Where a walk that reads the memory may be.
LEMMA ReadingHas ==
  ASSUME RuntimeInv, at \in DOMAIN memory
  PROVE  /\ Enters(at) => <<memory[at].data, 0>> \in DOMAIN memory
         /\ memory[at].parent \in {NULL} \cup DOMAIN memory
         /\ memory[at].parent # NULL /\ HasNext(at) => NextSibling(at) \in DOMAIN memory
         /\ Slots \in Nat
<1>1. setup \in Setups /\ Slots \in Nat
  BY SetupHas DEF RuntimeInv, Slots
<1>2. PICK path : Heap(memory, setup, live, path)
  BY DEF RuntimeInv, MemoryInv
<1> QED BY <1>1, <1>2, WalkStaysInMemory DEF Enters, HasNext, NextSibling

LEMMA OutputFailureKeeps ==
  ASSUME RuntimeInv, phase \in {"validating", "printing"}, OutputFails,
         UNCHANGED <<setup, memory, live, usage, written>>
  PROVE  RuntimeInv'
<1>1. phase' = "cleaning" /\ outcome' = "output" /\ slot' = Slots /\ at' = NULL /\ stage' = stage
  BY DEF OutputFails
<1>2. Slots' = Slots /\ Slots \in Nat
  BY SetupHas DEF Slots, RuntimeInv
<1>3. ControlInv'
  BY <1>1, <1>2 DEF RuntimeInv, ControlInv
<1> QED BY <1>1, <1>3, WalkKeeps

LEMMA ValidateKeeps ==
  ASSUME RuntimeInv, Validate
  PROVE  RuntimeInv'
<1>1. phase = "validating" /\ UNCHANGED <<setup, memory, live, usage, written>>
  BY DEF Validate
<1>2. at \in DOMAIN memory /\ stage \in {"enter", "leave"} /\ slot \in 1 .. Slots /\ Slots \in Nat
  BY <1>1, SetupHas DEF RuntimeInv, ControlInv, Slots
<1>3. /\ Enters(at) => <<memory[at].data, 0>> \in DOMAIN memory
      /\ memory[at].parent \in {NULL} \cup DOMAIN memory
      /\ memory[at].parent # NULL /\ HasNext(at) => NextSibling(at) \in DOMAIN memory
  BY <1>2, ReadingHas
<1>4. Slot(slot) \in DOMAIN memory
  <2>1. PICK path : Heap(memory, setup, live, path)
    BY DEF RuntimeInv, MemoryInv
  <2> QED BY <1>2, <2>1, SlotsIs DEF Heap, Reachable
<1>5. \/ OutputFails
      \/ /\ at' \in DOMAIN memory /\ stage' \in {"enter", "leave"}
         /\ phase' = "validating" /\ UNCHANGED <<outcome, slot>>
      \/ /\ phase' = "printing" /\ at' = Slot(slot) /\ stage' = "enter"
         /\ UNCHANGED <<outcome, slot>>
  <2>1. CASE stage = "enter" /\ ~CellValid(at)
    BY <1>1, <1>2, <1>3, <2>1 DEF Validate
  <2>2. CASE stage = "enter" /\ CellValid(at) /\ Enters(at)
    BY <1>1, <1>2, <1>3, <2>2 DEF Validate
  <2>3. CASE stage = "enter" /\ CellValid(at) /\ ~Enters(at)
    BY <1>1, <1>2, <1>3, <2>3 DEF Validate
  <2>4. CASE stage = "leave" /\ memory[at].parent = NULL
    BY <1>1, <1>2, <1>3, <2>4 DEF Validate
  <2>5. CASE stage = "leave" /\ memory[at].parent # NULL /\ HasNext(at)
    BY <1>1, <1>2, <1>3, <2>5 DEF Validate
  <2>6. CASE stage = "leave" /\ memory[at].parent # NULL /\ ~HasNext(at)
    BY <1>1, <1>2, <1>3, <2>6 DEF Validate
  <2> QED BY <1>2, <2>1, <2>2, <2>3, <2>4, <2>5, <2>6
<1>6. CASE OutputFails
  BY <1>1, <1>6, OutputFailureKeeps
<1>7. Slots' = Slots
  BY <1>1 DEF Slots
<1>8. CASE /\ at' \in DOMAIN memory /\ stage' \in {"enter", "leave"}
           /\ phase' = "validating" /\ UNCHANGED <<outcome, slot>>
  <2>1. ControlInv'
    BY <1>1, <1>2, <1>7, <1>8 DEF RuntimeInv, ControlInv
  <2> QED BY <1>1, <1>8, <2>1, WalkKeeps
<1>9. CASE /\ phase' = "printing" /\ at' = Slot(slot) /\ stage' = "enter"
           /\ UNCHANGED <<outcome, slot>>
  <2>1. ControlInv'
    BY <1>1, <1>2, <1>4, <1>7, <1>9 DEF RuntimeInv, ControlInv
  <2> QED BY <1>1, <1>9, <2>1, WalkKeeps
<1> QED BY <1>5, <1>6, <1>8, <1>9

LEMMA WriteKeeps ==
  ASSUME RuntimeInv, Write
  PROVE  RuntimeInv'
<1>1. phase = "printing" /\ at # NULL /\ UNCHANGED <<setup, memory, live, usage, written>>
  BY DEF Write
<1>2. /\ at \in DOMAIN memory /\ stage \in {"enter", "empty", "leave"} /\ slot \in 1 .. Slots /\ Slots \in Nat
      /\ Slots' = Slots
  BY <1>1, SetupHas DEF RuntimeInv, ControlInv, Slots
<1>3. /\ Enters(at) => <<memory[at].data, 0>> \in DOMAIN memory
      /\ memory[at].parent \in {NULL} \cup DOMAIN memory
      /\ memory[at].parent # NULL /\ HasNext(at) => NextSibling(at) \in DOMAIN memory
  BY <1>2, ReadingHas
<1>4. CASE OutputFails
  BY <1>1, <1>4, OutputFailureKeeps
<1>5. CASE AfterToken /\ UNCHANGED <<phase, outcome, slot>>
  <2>1. at' \in {NULL} \cup DOMAIN memory /\ stage' \in {"enter", "empty", "leave"}
    <3>1. CASE stage = "enter" /\ Enters(at)
      BY <1>3, <1>5, <3>1 DEF AfterToken
    <3>2. CASE stage = "enter" /\ ~Enters(at)
      BY <1>2, <1>5, <3>2 DEF AfterToken
    <3>3. CASE stage = "empty"
      BY <1>2, <1>5, <3>3 DEF AfterToken
    <3>4. CASE stage = "leave" /\ memory[at].parent = NULL
      BY <1>5, <3>4 DEF AfterToken
    <3>5. CASE stage = "leave" /\ memory[at].parent # NULL
      BY <1>2, <1>3, <1>5, <3>5 DEF AfterToken
    <3> QED BY <1>2, <3>1, <3>2, <3>3, <3>4, <3>5
  <2>2. ControlInv'
    BY <1>1, <1>2, <1>5, <2>1 DEF RuntimeInv, ControlInv
  <2> QED BY <1>1, <1>5, <2>2, WalkKeeps
<1> QED BY <1>4, <1>5 DEF Write

LEMMA CleanNextKeeps ==
  ASSUME RuntimeInv, CleanNext
  PROVE  RuntimeInv'
<1>1. /\ phase = "cleaning" /\ at = NULL /\ slot # 0 /\ at' = Slot(slot) /\ slot' = slot - 1
      /\ UNCHANGED <<setup, memory, live, usage, written, phase, outcome, stage>>
  BY DEF CleanNext
<1>2. /\ setup \in Setups /\ Slots \in Nat /\ Slots' = Slots /\ limits' = limits /\ slot \in 1 .. Slots
      /\ slot' \in 0 .. Slots /\ slot' < Slots /\ slot' + 1 = slot
  BY <1>1, SetupHas DEF RuntimeInv, ControlInv, Slots, limits
<1>3. PICK path : Heap(memory, setup, live, path) /\ OnTrail(memory, setup, path, phase, at, slot)
  BY DEF RuntimeInv, MemoryInv
<1>4. path = {}
  BY <1>1, <1>3 DEF OnTrail
<1>5. Slot(slot) \in SlotsOf(setup)
  BY <1>2, SlotsIs
<1>6. Slot(slot) # NULL /\ Heap(memory, setup, live, {Slot(slot)})
      /\ Trail(memory, setup, {Slot(slot)}, Slot(slot), Slot(slot))
  BY <1>2, <1>3, <1>4, <1>5, TrailStarts
<1>7. OnTrail(memory, setup, {Slot(slot)}, phase', at', slot')
  BY <1>1, <1>2, <1>6 DEF OnTrail
<1>8. MemoryInv'
  BY <1>1, <1>6, <1>7 DEF MemoryInv
<1>9. UsageInv'
  BY <1>1, <1>2 DEF RuntimeInv, UsageInv
<1>10. SlotsInv'
  BY <1>1, <1>2, <1>6 DEF RuntimeInv, SlotsInv, Unwritten
<1>11. ControlInv'
  BY <1>1, <1>2, <1>6 DEF RuntimeInv, ControlInv
<1> QED BY <1>1, <1>2, <1>8, <1>9, <1>10, <1>11 DEF RuntimeInv

LEMMA ExitKeeps ==
  ASSUME RuntimeInv, Exit
  PROVE  RuntimeInv'
<1>1. /\ phase = "cleaning" /\ at = NULL /\ slot = 0 /\ phase' = "done"
      /\ UNCHANGED <<setup, memory, live, usage, written, at, stage, slot>>
      /\ outcome' \in {"ok", "flush"} \cup {outcome}
  BY DEF Exit
<1>2. /\ setup \in Setups /\ Slots \in Nat /\ Slots' = Slots /\ limits' = limits
  BY <1>1, SetupHas DEF RuntimeInv, Slots, limits
<1>3. MemoryInv'
  <2>1. PICK path : Heap(memory, setup, live, path) /\ OnTrail(memory, setup, path, phase, at, slot)
    BY DEF RuntimeInv, MemoryInv
  <2>2. OnTrail(memory, setup, path, phase', at', slot')
    BY <1>1, <2>1 DEF OnTrail
  <2> QED BY <1>1, <2>1, <2>2 DEF MemoryInv
<1>4. UsageInv'
  BY <1>1, <1>2 DEF RuntimeInv, UsageInv
<1>5. SlotsInv'
  <2>1. \A s \in 1 .. Slots : s > slot
    BY <1>1, <1>2
  <2> QED BY <1>1, <1>2, <2>1 DEF RuntimeInv, SlotsInv, Unwritten
<1>6. ControlInv'
  BY <1>1, <1>2 DEF RuntimeInv, ControlInv
<1> QED BY <1>1, <1>2, <1>3, <1>4, <1>5, <1>6 DEF RuntimeInv

LEMMA DescendKeeps ==
  ASSUME RuntimeInv, Descend
  PROVE  RuntimeInv'
<1> DEFINE child == <<memory[at].data, memory[at].cleanup_index - 1>>
           root == Slot(IF phase = "releasing" THEN slot ELSE slot + 1)
<1>1. /\ phase \in {"releasing", "cleaning"} /\ at # NULL
      /\ memory[at].container = "tuple" /\ memory[at].cleanup_index # 0
      /\ memory' = [memory EXCEPT ![at] = Advanced(memory[at], memory[at].cleanup_index - 1)]
      /\ at' = child
      /\ UNCHANGED <<live, setup, usage, written, phase, outcome, stage, slot>>
  BY DEF Descend, Walking, Advanced
<1>2. setup \in Setups /\ Slots' = Slots /\ limits' = limits
  BY <1>1 DEF RuntimeInv, Slots, limits
<1>3. PICK path : Heap(memory, setup, live, path) /\ OnTrail(memory, setup, path, phase, at, slot)
  BY DEF RuntimeInv, MemoryInv
<1>4. Trail(memory, setup, path, at, root)
  BY <1>1, <1>3 DEF OnTrail
<1> HIDE DEF child, root
<1>5. /\ Heap(memory', setup, live, path \cup {child}) /\ Trail(memory', setup, path \cup {child}, child, root)
      /\ OnlyAdvanced(memory, at, memory')
  <2>1. StepInto(memory, at, child, memory')
    BY <1>1 DEF child, StepInto
  <2> QED BY <1>2, <1>3, <1>4, <2>1, DescendKeepsHeap
<1>6. child # NULL
  <2>1. child \in DOMAIN memory'
    BY <1>5 DEF Trail
  <2> QED BY <1>2, <1>5, <2>1, AddressesAre, AddressIsNotNull
<1>7. OnTrail(memory', setup, path \cup {child}, phase', at', slot')
  BY <1>1, <1>5, <1>6 DEF OnTrail, root
<1>8. MemoryInv'
  BY <1>1, <1>5, <1>7 DEF MemoryInv
<1>9. UsageInv'
  <2>1. Accounted(memory', usage.live_bytes)
    <3>1. Accounted(memory, usage.live_bytes)
      BY DEF RuntimeInv, UsageInv
    <3> QED BY <1>5, <3>1, DescendCounts DEF OnlyAdvanced
  <2> QED BY <1>1, <1>2, <2>1 DEF RuntimeInv, UsageInv
<1>10. SlotsInv'
  <2>1. \A s \in 1 .. Slots : Slot(s) \in DOMAIN memory
    BY <1>3, SlotsIs DEF Heap, Reachable
  <2>2. \A s \in 1 .. Slots : memory[Slot(s)] = Zero => memory'[Slot(s)] = Zero
    BY <1>1, <1>2, <1>5, <2>1, ZeroIsSound DEF OnlyAdvanced
  <2>3. \A s \in Unwritten : memory'[Slot(s)].container = "none"
    BY <1>5, <2>1 DEF OnlyAdvanced, RuntimeInv, SlotsInv, Unwritten
  <2> QED BY <1>1, <1>2, <1>6, <2>2, <2>3 DEF RuntimeInv, SlotsInv, Unwritten
<1>11. ControlInv'
  BY <1>1, <1>2, <1>6 DEF RuntimeInv, ControlInv
<1> QED BY <1>1, <1>2, <1>8, <1>9, <1>10, <1>11 DEF RuntimeInv

LEMMA ClearKeeps ==
  ASSUME RuntimeInv, Clear
  PROVE  RuntimeInv'
<1> DEFINE root == Slot(IF phase = "releasing" THEN slot ELSE slot + 1)
           bytes == Bytes(memory[at])
<1>1. /\ phase \in {"releasing", "cleaning"} /\ at # NULL
      /\ memory[at].container = "tuple" => memory[at].cleanup_index = 0
      /\ memory' = Cleared(memory, at) /\ live' = live \ {memory[at].data}
      /\ usage' = [usage EXCEPT !.live_bytes = IF bytes <= usage.live_bytes THEN usage.live_bytes - bytes
                                               ELSE usage.live_bytes]
      /\ at' = memory[at].parent
      /\ UNCHANGED <<setup, written, outcome, stage>>
      /\ phase' = IF phase = "releasing" /\ at' = NULL THEN "running" ELSE phase
      /\ slot' = IF phase = "releasing" /\ at' = NULL THEN 0 ELSE slot
  BY DEF Clear, Walking, Freed, Cleared
<1>2. /\ setup \in Setups /\ Slots' = Slots /\ limits' = limits /\ Slots = setup.slots /\ Slots \in Nat
      /\ SizeMax \in Nat /\ slot \in 0 .. Slots
  BY <1>1, SetupHas DEF RuntimeInv, ControlInv, Slots, limits
<1>3. PICK path : Heap(memory, setup, live, path) /\ OnTrail(memory, setup, path, phase, at, slot)
  BY DEF RuntimeInv, MemoryInv
<1>4. Trail(memory, setup, path, at, root)
  BY <1>1, <1>3 DEF OnTrail
<1> HIDE DEF root
<1>5. /\ Heap(memory', setup, live', path \ {at}) /\ Emptied(memory, setup, at, memory')
      /\ IF at \in SlotsOf(setup) THEN memory[at].parent = NULL /\ path = {at} /\ at = root
         ELSE memory[at].parent # NULL /\ Trail(memory', setup, path \ {at}, memory[at].parent, root)
  BY <1>1, <1>2, <1>3, <1>4, ClearKeepsHeap
<1>6. usage.live_bytes \in Nat /\ usage \in UsageRecords /\ Accounted(memory, usage.live_bytes)
  BY <1>2 DEF RuntimeInv, UsageInv, UsageRecords
<1>7. /\ bytes \in Nat /\ bytes <= usage.live_bytes
      /\ Accounted(memory', usage.live_bytes - bytes)
  BY <1>1, <1>2, <1>3, <1>4, <1>6, ClearCounts
<1> HIDE DEF bytes
<1>8. UsageInv'
  <2>1. usage' = [usage EXCEPT !.live_bytes = usage.live_bytes - bytes]
    BY <1>1, <1>7
  <2>2. /\ usage' \in UsageRecords /\ usage'.live_bytes = usage.live_bytes - bytes
        /\ usage'.work_units = usage.work_units /\ usage'.ordinal = usage.ordinal
    BY <1>2, <1>6, <1>7, <2>1 DEF UsageRecords
  <2> QED BY <1>1, <1>2, <1>7, <2>2 DEF RuntimeInv, UsageInv
<1>9. MemoryInv'
  <2>1. OnTrail(memory', setup, path \ {at}, phase', at', slot')
    BY <1>1, <1>5 DEF OnTrail, root
  <2> QED BY <1>1, <1>5, <2>1 DEF MemoryInv
<1>10. \A s \in 1 .. Slots : Slot(s) \in DOMAIN memory'
  BY <1>5, SlotsIs DEF Heap, Reachable
<1>11. \A s \in 1 .. Slots : memory'[Slot(s)] = Zero \/ (Slot(s) # at /\ memory'[Slot(s)] = memory[Slot(s)])
  BY <1>5, <1>10 DEF Emptied
<1>12. SlotsInv'
  <2>1. \A s \in Unwritten : memory'[Slot(s)].container = "none"
    BY <1>2, <1>11, ZeroIsSound DEF RuntimeInv, SlotsInv, Unwritten
  <2>2. ASSUME phase' = "cleaning", NEW s \in 1 .. Slots, s > (IF at' = NULL THEN slot' ELSE slot' + 1)
        PROVE  memory'[Slot(s)] = Zero
    <3>1. phase = "cleaning" /\ slot' = slot
      BY <1>1, <2>2
    <3>2. CASE s > slot + 1
      BY <1>1, <1>11, <3>1, <3>2 DEF RuntimeInv, SlotsInv
    <3>3. CASE s = slot + 1
      <4>1. at' = NULL
        BY <1>2, <2>2, <3>1, <3>3
      <4>2. at = Slot(s)
        BY <1>1, <1>5, <3>1, <3>3, <4>1 DEF root
      <4> QED BY <1>11, <4>2
    <3> QED BY <1>2, <2>2, <3>1, <3>2, <3>3
  <2>3. phase' # "done"
    BY <1>1
  <2> QED BY <1>1, <1>2, <2>1, <2>2, <2>3 DEF RuntimeInv, SlotsInv, Unwritten
<1>13. ControlInv'
  BY <1>1, <1>2 DEF RuntimeInv, ControlInv
<1> QED BY <1>1, <1>2, <1>8, <1>9, <1>12, <1>13 DEF RuntimeInv

LEMMA StepKeeps ==
  ASSUME RuntimeInv, Step
  PROVE  RuntimeInv'
<1>1. ASSUME NEW type \in Types, Scalar(type) PROVE RuntimeInv'
  BY <1>1, ScalarKeeps
<1>2. ASSUME NEW type \in Types, NEW count \in Counts, Literal(type, count) PROVE RuntimeInv'
  BY <1>2, LiteralKeeps
<1>3. ASSUME NEW type \in Types, NEW spread \in BOOLEAN, NEW cells \in Operands(spread), Apply(cells, type, spread)
      PROVE  RuntimeInv'
  BY <1>3, ApplyKeeps
<1>4. ASSUME NEW spread \in BOOLEAN, NEW cells \in Operands(spread), NEW count \in Counts,
             Iota(cells, count, spread)
      PROVE  RuntimeInv'
  BY <1>4, IotaKeeps
<1>9. ASSUME NEW spread, NEW cells, NEW k, RequireShape(cells, k, spread) PROVE RuntimeInv'
  BY <1>9, RequireShapeKeeps
<1>5. ASSUME NEW n \in 0 .. Width, NEW elements \in [1 .. n -> 1 .. Slots], Tuple(elements) PROVE RuntimeInv'
  BY <1>5, TupleKeeps
<1>6. ASSUME NEW s \in 1 .. Slots, NEW count \in 1 .. Width, Fanout(s, count) PROVE RuntimeInv'
  BY <1>6, FanoutKeeps
<1>7. ASSUME NEW f \in 1 .. Slots, NEW s \in 1 .. Slots, Transfer(f, s) PROVE RuntimeInv'
  BY <1>7, TransferKeeps
<1>8. ASSUME NEW s \in 1 .. Slots, BeginRelease(s) PROVE RuntimeInv'
  BY <1>8, BeginReleaseKeeps
<1> QED BY <1>1, <1>2, <1>3, <1>4, <1>5, <1>6, <1>7, <1>8, <1>9, LocaleRefusedKeeps, FinishKeeps DEF Step

LEMMA NextKeeps ==
  ASSUME RuntimeInv, [Next]_vars
  PROVE  RuntimeInv'
<1>1. CASE UNCHANGED vars
  BY <1>1, StillKeeps DEF vars, control
<1> QED BY <1>1, StepKeeps, DescendKeeps, ClearKeeps, NextRootKeeps, ValidateKeeps, WriteKeeps, CleanNextKeeps,
           ExitKeeps DEF Next, Walk

\* However cells are copied from slot to table and from table to table, in
\* whatever order the program calls the runtime, the cells of its values stay
\* a forest of tuples, each allocation owned by one cell, each element that is
\* still to be cleaned up leading back to its tuple; a release has gone into
\* the last element left at every level, and comes back out.
THEOREM RuntimeKeepsItsMemory == Spec => []RuntimeInv
<1> QED BY InitKeeps, NextKeeps, PTL DEF Spec

LEMMA StepSetsFlags ==
  ASSUME FlagsInv, Step
  PROVE  FlagsInv'
<1>1. ASSUME NEW spread \in BOOLEAN, Wrapped(spread), spreading' = spread PROVE FlagsInv'
  BY <1>1, Zenon DEF FlagsInv, Wrapped
<1>2. ASSUME UNCHANGED provenance, spreading' = FALSE PROVE FlagsInv'
  BY <1>2, Zenon DEF FlagsInv
<1>3. CASE LocaleRefused
  BY <1>2, <1>3 DEF LocaleRefused
<1>4. ASSUME NEW type \in Types, Scalar(type) PROVE FlagsInv'
  BY <1>2, <1>4 DEF Scalar, Writes
<1>5. ASSUME NEW type \in Types, NEW count \in Counts, Literal(type, count) PROVE FlagsInv'
  BY <1>2, <1>5 DEF Literal, Writes
<1>6. ASSUME NEW spread \in BOOLEAN, NEW cells, NEW k, RequireShape(cells, k, spread) PROVE FlagsInv'
  BY <1>1, <1>6 DEF RequireShape
<1>7. ASSUME NEW spread \in BOOLEAN, NEW cells, NEW type, Apply(cells, type, spread) PROVE FlagsInv'
  BY <1>1, <1>7 DEF Apply, Writes
<1>8. ASSUME NEW spread \in BOOLEAN, NEW cells, NEW count, Iota(cells, count, spread) PROVE FlagsInv'
  BY <1>1, <1>8 DEF Iota, Writes
<1>9. ASSUME NEW elements, Tuple(elements) PROVE FlagsInv'
  BY <1>2, <1>9 DEF Tuple, Writes
<1>10. ASSUME NEW s, NEW count, Fanout(s, count) PROVE FlagsInv'
  BY <1>2, <1>10 DEF Fanout, Writes
<1>11. ASSUME NEW f, NEW s, Transfer(f, s) PROVE FlagsInv'
  BY <1>11 DEF Transfer, FlagsInv
<1>12. ASSUME NEW s, BeginRelease(s) PROVE FlagsInv'
  BY <1>12 DEF BeginRelease, FlagsInv
<1>13. CASE Finish
  BY <1>13 DEF Finish, FlagsInv
<1> QED BY <1>3, <1>4, <1>5, <1>6, <1>7, <1>8, <1>9, <1>10, <1>11, <1>12, <1>13 DEF Step

\* What bennu_release, bennu_tuple, bennu_fanout and bennu_tuple_transfer rely
\* on and leave behind: every pointer leads to a cell that exists, nothing is
\* freed twice or lost, live_bytes is exact at every step, and the end of
\* bennu_execute leaves nothing, whichever way it is reached.
THEOREM MemoryIsSound == Spec => []HeapSound
<1>1. Init => FlagsInv
  BY DEF Init, FlagsInv
<1>2. FlagsInv /\ [Next]_vars => FlagsInv'
  <2>1. ASSUME FlagsInv, UNCHANGED vars PROVE FlagsInv'
    BY <2>1 DEF vars, FlagsInv
  <2>2. ASSUME FlagsInv, Step PROVE FlagsInv'
    BY <2>2, StepSetsFlags
  <2>3. ASSUME FlagsInv, Walk PROVE FlagsInv'
    BY <2>3 DEF Walk, FlagsInv, Descend, Clear, NextRoot, Validate, Write, CleanNext, Exit
  <2> QED BY <2>1, <2>2, <2>3 DEF Next
<1>3. RuntimeInv /\ FlagsInv => HeapSound
  BY InvIsSound
<1> QED BY <1>1, <1>2, <1>3, RuntimeKeepsItsMemory, PTL DEF Spec

(***************************************************************************)
(* The two back ends refuse the same requests.                             *)
(***************************************************************************)

\* A limit on work that usage is within is never exceeded by no work at all.
LEMMA InvAdmitsAlike ==
  ASSUME RuntimeInv
  PROVE  AdmissionsAgree
<1>1. /\ setup \in Setups /\ SizeMax \in Nat /\ Width \in Nat /\ Types \subseteq {"Bool", "Int"}
      /\ Requests \subseteq Nat
  BY SetupHas DEF RuntimeInv, Types, Requests, Counts
<1>2. /\ usage.live_bytes \in Nat /\ usage.work_units \in Nat
      /\ usage.live_bytes <= SizeMax /\ usage.work_units <= SizeMax
      /\ \A limit \in limits.work : usage.work_units <= limit
  BY <1>1 DEF RuntimeInv, UsageInv, UsageRecords
<1>3. \A m \in limits.work : m \in Nat
  BY <1>1, RuntimeAssumption DEF limits
<1>4. ASSUME NEW type \in Types, NEW count \in Requests, NEW work \in {0, count}
      PROVE  VectorVerdict(usage, type, count, work) = InterpreterVector(usage, type, count, work)
  BY DEF VectorVerdict, InterpreterVector, InterpreterPreflight
<1>5. ASSUME NEW count \in Requests, usage.live_bytes + count * SlotBytes <= SizeMax
      PROVE  TableVerdict(usage, count) = InterpreterTable(usage, count)
  <2> DEFINE bytes == count * SlotBytes
  <2>1. bytes \in Nat
    BY <1>1 DEF SlotBytes
  <2> HIDE DEF bytes
  <2>2. ~(bytes > SizeMax - usage.live_bytes)
    BY <1>1, <1>2, <1>5, <2>1 DEF bytes
  <2>3. ~(0 > SizeMax - usage.work_units) /\ ~Exceeds(usage.work_units + 0, limits.work)
    BY <1>1, <1>2, <1>3 DEF Exceeds
  <2> QED BY <2>2, <2>3 DEF TableVerdict, InterpreterTable, InterpreterPreflight, bytes
<1> QED BY <1>4, <1>5 DEF AdmissionsAgree

\* bennu_allocate and bennu_tuple test a request's limits in the interpreter's
\* order: after any run of the program, the next vector is admitted or refused
\* for the same reason by both, and so is the next table that is representable.
THEOREM BackEndsAdmitAlike == Spec => []AdmissionsAgree
<1> QED BY RuntimeKeepsItsMemory, InvAdmitsAlike, PTL

(***************************************************************************)
(* Failures are reported as what they are.                                 *)
(***************************************************************************)

\* A recorded failure that bennu_failure_context_valid accepts.
Explained(f, spread) ==
  /\ f.kind \in {"size", "allocation", "profile", "shape", "domain", "internal"}
  /\ f.kind = "internal" => ~spread
  /\ f.kind = "profile" => f.limit # "none" /\ f.before + f.charge > f.configured
  /\ f.kind = "shape" => f.configured # f.before /\ f.charge # 0
  /\ f.kind = "allocation" => f.elements # {} /\ f.bytes # {}

FailureInv ==
  /\ phase \in {"running", "releasing", "validating", "printing"} =>
       outcome = "none" /\ failure = NoFailure /\ provenance = FALSE
  /\ phase = "crashed" => failure = NoFailure
  /\ phase \in {"cleaning", "done"} =>
       \/ outcome = "failed" /\ Explained(failure, spreading) /\ provenance = spreading
       \/ outcome \in {"ok", "output", "flush"} /\ failure = NoFailure
  /\ phase # "done" => reported = "nothing"
  /\ phase = "done" =>
       reported = IF outcome = "failed" THEN IF failure.kind = "internal" THEN "InternalError" ELSE failure.kind
                  ELSE IF outcome = "output" THEN "OutputError" ELSE "nothing"

LEMMA InvIsExplained ==
  ASSUME RuntimeInv, FailureInv
  PROVE  FailureExplained
<1>1. NoFailure.kind = "none"
  BY DEF NoFailure
<1>2. \/ failure = NoFailure
      \/ /\ outcome = "failed" /\ Explained(failure, spreading) /\ provenance = spreading
         /\ phase \in {"cleaning", "done"}
  BY DEF FailureInv, RuntimeInv, ControlInv
<1>3. CASE failure = NoFailure
  BY <1>1, <1>3 DEF FailureInv, FailureExplained, Explained, RuntimeInv, ControlInv
<1>4. CASE /\ outcome = "failed" /\ Explained(failure, spreading) /\ provenance = spreading
           /\ phase \in {"cleaning", "done"}
  BY <1>4 DEF FailureInv, FailureExplained, Explained
<1> QED BY <1>2, <1>3, <1>4

\* What a limit that refuses a request is.
LEMMA LimitIs ==
  ASSUME NEW limit, \A m, n \in limit : m = n, limit \subseteq Nat, NEW k \in Nat, Exceeds(k, limit)
  PROVE  Max(limit) \in Nat /\ k > Max(limit)
<1>1. PICK m \in limit : k > m
  BY DEF Exceeds
<1>2. \E x \in limit : \A y \in limit : x >= y
  BY <1>1
<1>3. Max(limit) \in limit
  BY <1>2 DEF Max
<1> QED BY <1>1, <1>3

LEMMA LimitsAre ==
  ASSUME RuntimeInv
  PROVE  /\ limits.vector \subseteq Nat /\ limits.live \subseteq Nat
         /\ limits.work \subseteq Nat /\ limits.tuple \subseteq Nat
         /\ \A m, n \in limits.vector : m = n
         /\ \A m, n \in limits.live : m = n
         /\ \A m, n \in limits.work : m = n
         /\ \A m, n \in limits.tuple : m = n
BY RuntimeAssumption DEF RuntimeInv, limits

\* bennu_set_resource_failure and bennu_set_profile_failure, for the first failure.
LEMMA RefusalIs ==
  ASSUME failure = NoFailure, NEW verdict, NEW point, NEW elements, NEW bytes, NEW charge, NEW spread,
         \/ verdict = "size"
         \/ verdict = "allocation" /\ elements # {} /\ bytes # {}
         \/ /\ verdict \in {"max_vector_bytes", "max_live_evaluation_bytes", "max_work_units", "max_tuple_table_bytes"}
            /\ UsageBefore(verdict) + charge > Max(ConfiguredLimit(verdict))
  PROVE  Explained(Refusal(verdict, point, elements, bytes, charge), spread)
<1>1. failure.kind = "none"
  BY DEF NoFailure
<1> DEFINE f == Refusal(verdict, point, elements, bytes, charge)
           configured == Max(ConfiguredLimit(verdict))
           before == UsageBefore(verdict)
<1>2. CASE verdict \in {"size", "allocation"}
  <2>1. f = [NoFailure EXCEPT !.kind = verdict, !.point = point, !.elements = elements,
                              !.bytes = bytes]
    BY <1>1, <1>2 DEF Refusal
  <2>2. f.kind = verdict /\ f.elements = elements /\ f.bytes = bytes
    BY <2>1 DEF NoFailure
  <2> HIDE DEF f
  <2>3. Explained(f, spread)
    BY <1>2, <2>2 DEF Explained
  <2> QED BY <2>3 DEF f
<1>3. CASE verdict \notin {"size", "allocation"}
  <2> HIDE DEF configured, before
  <2>1. f = [NoFailure EXCEPT !.kind = "profile", !.point = point, !.elements = elements,
                              !.bytes = bytes, !.limit = verdict,
                              !.configured = configured, !.before = before, !.charge = charge]
    BY <1>1, <1>3 DEF Refusal, configured, before
  <2>2. f.kind = "profile" /\ f.limit = verdict /\ f.configured = configured
        /\ f.before = before /\ f.charge = charge
    BY <2>1 DEF NoFailure
  <2> HIDE DEF f
  <2>3. verdict # "none" /\ before + charge > configured
    BY <1>3 DEF configured, before
  <2>4. Explained(f, spread)
    BY <2>2, <2>3 DEF Explained
  <2> QED BY <2>4 DEF f
<1> QED BY <1>2, <1>3

LEMMA DomainFailureIs ==
  ASSUME NEW index, NEW spread
  PROVE  Explained(DomainFailure(index), spread)
BY DEF DomainFailure, NoFailure, Explained

\* A verdict names a limit that the usage said to be before, and the charge,
\* exceed together.
LEMMA VectorRefusal ==
  ASSUME RuntimeInv, phase = "running", NEW type \in Types, NEW count \in Counts, NEW work \in Nat
  PROVE  LET verdict == VectorVerdict(usage, type, count, work)
             charge == IF verdict = "max_work_units" THEN work ELSE count * ByteWidth(type)
         IN  \/ verdict \in {"none", "size"}
             \/ /\ verdict \in {"max_vector_bytes", "max_live_evaluation_bytes", "max_work_units"}
                /\ UsageBefore(verdict) + charge > Max(ConfiguredLimit(verdict))
<1> DEFINE verdict == VectorVerdict(usage, type, count, work)
           bytes == count * ByteWidth(type)
<1>1. /\ usage.live_bytes \in Nat /\ usage.work_units \in Nat /\ count \in Nat
  BY RunningHas, SetupHas DEF Counts
<1>2. bytes \in Nat
  <2>1. ByteWidth(type) = 1 \/ ByteWidth(type) = 8
    BY DEF ByteWidth
  <2> QED BY <1>1, <2>1
<1> HIDE DEF bytes
<1>3. \/ verdict \in {"none", "size"}
      \/ verdict = "max_vector_bytes" /\ Exceeds(bytes, limits.vector)
      \/ verdict = "max_live_evaluation_bytes" /\ Exceeds(usage.live_bytes + bytes, limits.live)
      \/ verdict = "max_work_units" /\ Exceeds(usage.work_units + work, limits.work)
  BY DEF VectorVerdict, bytes
<1> HIDE DEF verdict
<1>4. CASE verdict = "max_vector_bytes" /\ Exceeds(bytes, limits.vector)
  <2>1. Max(limits.vector) \in Nat /\ bytes > Max(limits.vector)
    BY <1>2, <1>4, LimitsAre, LimitIs
  <2>2. UsageBefore(verdict) = 0 /\ ConfiguredLimit(verdict) = limits.vector
    BY <1>4 DEF UsageBefore, ConfiguredLimit
  <2> QED BY <1>2, <1>4, <2>1, <2>2 DEF verdict, bytes
<1>5. CASE verdict = "max_live_evaluation_bytes" /\ Exceeds(usage.live_bytes + bytes, limits.live)
  <2>1. usage.live_bytes + bytes > Max(limits.live)
    BY <1>1, <1>2, <1>5, LimitsAre, LimitIs
  <2>2. UsageBefore(verdict) = usage.live_bytes /\ ConfiguredLimit(verdict) = limits.live
    BY <1>5 DEF UsageBefore, ConfiguredLimit
  <2> QED BY <1>5, <2>1, <2>2 DEF verdict, bytes
<1>6. CASE verdict = "max_work_units" /\ Exceeds(usage.work_units + work, limits.work)
  <2>1. usage.work_units + work > Max(limits.work)
    BY <1>1, <1>6, LimitsAre, LimitIs
  <2>2. UsageBefore(verdict) = usage.work_units /\ ConfiguredLimit(verdict) = limits.work
    BY <1>6 DEF UsageBefore, ConfiguredLimit
  <2> QED BY <1>6, <2>1, <2>2 DEF verdict, bytes
<1> QED BY <1>3, <1>4, <1>5, <1>6 DEF verdict, bytes

LEMMA WorkRefusal ==
  ASSUME RuntimeInv, phase = "running", NEW work \in Nat
  PROVE  LET verdict == WorkVerdict(usage, work)
         IN  \/ verdict \in {"none", "size"}
             \/ /\ verdict = "max_work_units"
                /\ UsageBefore(verdict) + work > Max(ConfiguredLimit(verdict))
<1> DEFINE verdict == WorkVerdict(usage, work)
<1>1. usage.work_units \in Nat
  BY RunningHas
<1>2. \/ verdict \in {"none", "size"}
      \/ verdict = "max_work_units" /\ Exceeds(usage.work_units + work, limits.work)
  BY DEF WorkVerdict
<1> HIDE DEF verdict
<1>3. CASE verdict = "max_work_units" /\ Exceeds(usage.work_units + work, limits.work)
  <2>1. usage.work_units + work > Max(limits.work)
    BY <1>1, <1>3, LimitsAre, LimitIs
  <2>2. UsageBefore(verdict) = usage.work_units /\ ConfiguredLimit(verdict) = limits.work
    BY <1>3 DEF UsageBefore, ConfiguredLimit
  <2> QED BY <1>3, <2>1, <2>2 DEF verdict
<1> QED BY <1>2, <1>3 DEF verdict

LEMMA TableRefusal ==
  ASSUME RuntimeInv, phase = "running", NEW count \in Nat
  PROVE  LET verdict == TableVerdict(usage, count)
         IN  \/ verdict \in {"none", "size"}
             \/ /\ verdict \in {"max_tuple_table_bytes", "max_live_evaluation_bytes"}
                /\ UsageBefore(verdict) + count * SlotBytes > Max(ConfiguredLimit(verdict))
<1> DEFINE verdict == TableVerdict(usage, count)
           bytes == count * SlotBytes
<1>1. usage.live_bytes \in Nat /\ bytes \in Nat
  BY RunningHas DEF SlotBytes
<1> HIDE DEF bytes
<1>2. \/ verdict \in {"none", "size"}
      \/ verdict = "max_tuple_table_bytes" /\ Exceeds(bytes, limits.tuple)
      \/ verdict = "max_live_evaluation_bytes" /\ Exceeds(usage.live_bytes + bytes, limits.live)
  BY DEF TableVerdict, bytes
<1> HIDE DEF verdict
<1>3. CASE verdict = "max_tuple_table_bytes" /\ Exceeds(bytes, limits.tuple)
  <2>1. Max(limits.tuple) \in Nat /\ bytes > Max(limits.tuple)
    BY <1>1, <1>3, LimitsAre, LimitIs
  <2>2. UsageBefore(verdict) = 0 /\ ConfiguredLimit(verdict) = limits.tuple
    BY <1>3 DEF UsageBefore, ConfiguredLimit
  <2> QED BY <1>1, <1>3, <2>1, <2>2 DEF verdict, bytes
<1>4. CASE verdict = "max_live_evaluation_bytes" /\ Exceeds(usage.live_bytes + bytes, limits.live)
  <2>1. usage.live_bytes + bytes > Max(limits.live)
    BY <1>1, <1>4, LimitsAre, LimitIs
  <2>2. UsageBefore(verdict) = usage.live_bytes /\ ConfiguredLimit(verdict) = limits.live
    BY <1>4 DEF UsageBefore, ConfiguredLimit
  <2> QED BY <1>4, <2>1, <2>2 DEF verdict, bytes
<1> QED BY <1>2, <1>3, <1>4 DEF verdict, bytes

LEMMA OutcomeExplained ==
  ASSUME FailureInv, phase = "running", UNCHANGED reported, NEW spread \in BOOLEAN, spreading' = spread,
         Wrapped(spread) \/ (~spread /\ UNCHANGED provenance),
         \/ Succeed
         \/ \E f : Fail(f) /\ Explained(f, spread)
         \/ phase' = "crashed" /\ UNCHANGED failure
  PROVE  FailureInv'
<1>1. failure = NoFailure /\ failure.kind = "none" /\ provenance = FALSE /\ outcome = "none" /\ reported = "nothing"
  BY DEF FailureInv, NoFailure
<1>2. CASE Succeed
  <2>1. phase' = "running" /\ outcome' = outcome /\ failure' = failure
    BY <1>2 DEF Succeed, control
  <2>2. provenance' = FALSE
    BY <1>1, <2>1 DEF Wrapped
  <2> QED BY <1>1, <2>1, <2>2 DEF FailureInv
<1>3. ASSUME NEW f, Fail(f), Explained(f, spread) PROVE FailureInv'
  <2>1. phase' = "cleaning" /\ outcome' = "failed" /\ failure' = f
    BY <1>3 DEF Fail
  <2>2. provenance' = spread
    <3>1. CASE spread
      BY <1>1, <2>1, <3>1 DEF Wrapped
    <3>2. CASE ~spread
      BY <1>1, <2>1, <3>2 DEF Wrapped
    <3> QED BY <3>1, <3>2
  <2>3. Explained(failure', spreading')
    BY <1>3, <2>1
  <2> QED BY <1>1, <2>1, <2>2, <2>3 DEF FailureInv
<1>4. CASE phase' = "crashed" /\ UNCHANGED failure
  BY <1>1, <1>4 DEF FailureInv
<1> QED BY <1>2, <1>3, <1>4

LEMMA CallIs ==
  ASSUME NEW s, NEW spread, Writes(s, spread)
  PROVE  phase = "running" /\ spreading' = spread
BY DEF Writes

LEMMA AllocateExplains ==
  ASSUME RuntimeInv, FailureInv, phase = "running", NEW s, NEW type \in Types, NEW count \in Counts, NEW work \in Nat,
         NEW point, NEW spread, Allocate(s, type, count, work, point)
  PROVE  Succeed \/ \E f : Fail(f) /\ Explained(f, spread)
<1> DEFINE verdict == VectorVerdict(usage, type, count, work)
           bytes == count * ByteWidth(type)
           known == IF count > SizeMax \div ByteWidth(type) THEN {} ELSE {bytes}
           charge == IF verdict = "max_work_units" THEN work ELSE bytes
<1>1. failure = NoFailure
  BY DEF FailureInv
<1>2. CASE verdict # "none"
  <2>1. Fail(Refusal(verdict, point, {count}, known, charge))
    BY <1>2 DEF Allocate
  <2>2. \/ verdict = "size"
        \/ /\ verdict \in {"max_vector_bytes", "max_live_evaluation_bytes", "max_work_units", "max_tuple_table_bytes"}
           /\ UsageBefore(verdict) + charge > Max(ConfiguredLimit(verdict))
    BY <1>2, VectorRefusal
  <2> HIDE DEF verdict, bytes, known, charge
  <2>3. Explained(Refusal(verdict, point, {count}, known, charge), spread)
    BY <1>1, <2>2, RefusalIs
  <2> QED BY <2>1, <2>3
<1>3. CASE verdict = "none"
  <2>1. Succeed \/ Fail(Refusal("allocation", point, {count}, {bytes}, 0))
    BY <1>3 DEF Allocate
  <2> HIDE DEF bytes
  <2>2. Explained(Refusal("allocation", point, {count}, {bytes}, 0), spread)
    BY <1>1, RefusalIs
  <2> QED BY <2>1, <2>2
<1> QED BY <1>2, <1>3

LEMMA MakeTupleExplains ==
  ASSUME RuntimeInv, FailureInv, phase = "running", NEW s, NEW cells, NEW sources, NEW cleanup, NEW point,
         Len(cells) \in Nat, MakeTuple(s, cells, sources, cleanup, point)
  PROVE  Succeed \/ \E f : Fail(f) /\ Explained(f, FALSE)
<1> DEFINE count == Len(cells)
           bytes == count * SlotBytes
           verdict == TableVerdict(usage, count)
           known == IF count > SizeMax \div SlotBytes THEN {} ELSE {bytes}
<1>1. failure = NoFailure
  BY DEF FailureInv
<1>2. CASE verdict # "none"
  <2>1. Fail(Refusal(verdict, point, {count}, known, bytes))
    BY <1>2 DEF MakeTuple
  <2>2. \/ verdict = "size"
        \/ /\ verdict \in {"max_vector_bytes", "max_live_evaluation_bytes", "max_work_units", "max_tuple_table_bytes"}
           /\ UsageBefore(verdict) + bytes > Max(ConfiguredLimit(verdict))
    BY <1>2, TableRefusal
  <2> HIDE DEF verdict, bytes, known, count
  <2>3. Explained(Refusal(verdict, point, {count}, known, bytes), FALSE)
    BY <1>1, <2>2, RefusalIs
  <2> QED BY <2>1, <2>3
<1>3. CASE verdict = "none"
  <2>1. Succeed \/ Fail(Refusal("allocation", point, {count}, {bytes}, 0))
    BY <1>3 DEF MakeTuple
  <2> HIDE DEF bytes, count
  <2>2. Explained(Refusal("allocation", point, {count}, {bytes}, 0), FALSE)
    BY <1>1, RefusalIs
  <2> QED BY <2>1, <2>2
<1> QED BY <1>2, <1>3

LEMMA ApplyScalarExplains ==
  ASSUME RuntimeInv, FailureInv, phase = "running", NEW s, NEW type, NEW spread, ApplyScalar(s, type)
  PROVE  Succeed \/ \E f : Fail(f) /\ Explained(f, spread)
<1> DEFINE verdict == WorkVerdict(usage, 1)
<1>1. failure = NoFailure
  BY DEF FailureInv
<1>2. CASE verdict # "none"
  <2>1. Fail(Refusal(verdict, "apply", {}, {}, 1))
    BY <1>2 DEF ApplyScalar
  <2>2. \/ verdict = "size"
        \/ /\ verdict \in {"max_vector_bytes", "max_live_evaluation_bytes", "max_work_units", "max_tuple_table_bytes"}
           /\ UsageBefore(verdict) + 1 > Max(ConfiguredLimit(verdict))
    BY <1>2, WorkRefusal
  <2> HIDE DEF verdict
  <2>3. Explained(Refusal(verdict, "apply", {}, {}, 1), spread)
    BY <1>1, <2>2, RefusalIs
  <2> QED BY <2>1, <2>3
<1>3. CASE verdict = "none"
  BY <1>3, DomainFailureIs DEF ApplyScalar
<1> QED BY <1>2, <1>3

\* bennu_require_shape names two lengths that differ; a spread never fails on
\* what is no vector.
LEMMA RequireShapeExplains ==
  ASSUME NEW spread \in BOOLEAN, NEW cells, NEW k \in {1, 2}, RequireShape(cells, k, spread)
  PROVE  Succeed \/ \E f : Fail(f) /\ Explained(f, spread)
<1> DEFINE argument == memory[cells[k]]
           expected == memory[cells[3 - k]].count
           internal == [NoFailure EXCEPT !.kind = "internal"]
           shape == [NoFailure EXCEPT !.kind = "shape", !.point = "apply", !.configured = expected,
                                      !.before = argument.count, !.charge = k]
<1>1. /\ k \in DOMAIN cells
      /\ spread => argument.container = "vector"
  BY DEF RequireShape, Atoms, VectorsAmong
<1>2. \/ argument.container # "vector" /\ Fail(internal)
      \/ Succeed
      \/ argument.count # expected /\ Fail(shape)
  BY DEF RequireShape
<1> HIDE DEF argument, expected
<1>3. CASE argument.container # "vector" /\ Fail(internal)
  <2>1. internal.kind = "internal" /\ ~spread
    BY <1>1, <1>3 DEF NoFailure
  <2> HIDE DEF internal
  <2>2. Explained(internal, spread)
    BY <2>1 DEF Explained
  <2> QED BY <1>3, <2>2
<1>4. CASE argument.count # expected /\ Fail(shape)
  <2>1. shape.kind = "shape" /\ shape.configured = expected /\ shape.before = argument.count /\ shape.charge = k
    BY DEF NoFailure
  <2> HIDE DEF shape
  <2>2. Explained(shape, spread)
    BY <1>4, <2>1 DEF Explained
  <2> QED BY <1>4, <2>2
<1> QED BY <1>2, <1>3, <1>4

LEMMA ApplyExplains ==
  ASSUME RuntimeInv, FailureInv, NEW type \in Types, NEW spread \in BOOLEAN, NEW cells \in Operands(spread),
         Apply(cells, type, spread)
  PROVE  \/ Succeed
         \/ \E f : Fail(f) /\ Explained(f, spread)
         \/ phase' = "crashed" /\ UNCHANGED failure
<1> DEFINE vectors == VectorsAmong(cells)
           count == memory[cells[Max(vectors)]].count
<1>1. phase = "running" /\ setup \in Setups
  BY DEF Apply, Writes, RuntimeInv
<1>2. CASE vectors = {}
  <2>1. ApplyScalar(Fresh, type)
    BY <1>2 DEF Apply
  <2> QED BY <1>1, <2>1, ApplyScalarExplains
<1>3. CASE vectors # {}
  <2>1. count \in Counts
    BY <1>1, <1>3, LengthIs
  <2>2. \/ Allocate(Fresh, type, count, count, "apply")
        \/ \E index \in 0 .. count - 1 : KernelFails(Fresh, type, count, index)
        \/ ReadPastEnd(cells, type, count)
    BY <1>3 DEF Apply
  <2> HIDE DEF vectors, count
  <2>3. count \in Nat
    BY <1>1, <2>1, SetupHas DEF Counts
  <2>4. CASE Allocate(Fresh, type, count, count, "apply")
    BY <1>1, <2>1, <2>3, <2>4, AllocateExplains
  <2>5. CASE \E index \in 0 .. count - 1 : KernelFails(Fresh, type, count, index)
    BY <2>5, DomainFailureIs DEF KernelFails
  <2>6. CASE ReadPastEnd(cells, type, count)
    BY <2>6 DEF ReadPastEnd
  <2> QED BY <2>2, <2>4, <2>5, <2>6
<1> QED BY <1>2, <1>3

\* setlocale's failure is an internal one.
LEMMA LocaleExplained ==
  ASSUME FailureInv, LocaleRefused
  PROVE  FailureInv'
<1> DEFINE f == [NoFailure EXCEPT !.kind = "internal"]
<1>1. f.kind = "internal"
  BY DEF NoFailure
<1>2. Fail(f) /\ phase = "running" /\ spreading' = FALSE /\ UNCHANGED <<provenance, reported>>
  BY DEF LocaleRefused
<1> HIDE DEF f
<1>3. Explained(f, FALSE)
  BY <1>1 DEF Explained
<1>4. phase' = "cleaning" /\ outcome' = "failed" /\ failure' = f
  BY <1>2 DEF Fail
<1> QED BY <1>2, <1>3, <1>4 DEF FailureInv

LEMMA StepExplains ==
  ASSUME RuntimeInv, FailureInv, Step
  PROVE  FailureInv'
<1>1. ASSUME NEW type \in Types, Scalar(type) PROVE FailureInv'
  <2>1. /\ phase = "running" /\ spreading' = FALSE /\ UNCHANGED <<reported, provenance>>
        /\ Succeed
    BY <1>1, CallIs DEF Scalar
  <2> QED BY <2>1, OutcomeExplained
<1>2. ASSUME NEW type \in Types, NEW count \in Counts, Literal(type, count) PROVE FailureInv'
  <2>1. /\ phase = "running" /\ spreading' = FALSE /\ UNCHANGED <<reported, provenance>>
        /\ Allocate(Fresh, type, count, 0, "vector-literal")
    BY <1>2, CallIs DEF Literal
  <2> QED BY <2>1, AllocateExplains, OutcomeExplained
<1>3. ASSUME NEW type \in Types, NEW spread \in BOOLEAN, NEW cells \in Operands(spread), Apply(cells, type, spread)
      PROVE  FailureInv'
  <2>1. phase = "running" /\ spreading' = spread /\ reported' = reported /\ Wrapped(spread)
    BY <1>3, CallIs DEF Apply
  <2> QED BY <1>3, <2>1, ApplyExplains, OutcomeExplained
<1>4. ASSUME NEW spread \in BOOLEAN, NEW cells \in Operands(spread), NEW count \in Counts,
             Iota(cells, count, spread)
      PROVE  FailureInv'
  <2>1. /\ phase = "running" /\ spreading' = spread /\ reported' = reported /\ Wrapped(spread)
        /\ Allocate(Fresh, "Int", count, count, "iota")
    BY <1>4, CallIs DEF Iota
  <2>2. "Int" \in Types
    BY <1>4, <2>1, IntIsUsed
  <2>3. count \in Nat
    BY <2>1, RunningHas, SetupHas DEF Counts
  <2>4. Succeed \/ \E f : Fail(f) /\ Explained(f, spread)
    BY <2>1, <2>2, <2>3, AllocateExplains
  <2> QED BY <2>1, <2>4, OutcomeExplained
<1>10. ASSUME NEW spread \in BOOLEAN, NEW cells, NEW k \in {1, 2}, RequireShape(cells, k, spread)
       PROVE  FailureInv'
  <2>1. phase = "running" /\ spreading' = spread /\ reported' = reported /\ Wrapped(spread)
    BY <1>10 DEF RequireShape
  <2> QED BY <1>10, <2>1, RequireShapeExplains, OutcomeExplained
<1>5. ASSUME NEW n \in 0 .. Width, NEW elements \in [1 .. n -> 1 .. Slots], Tuple(elements) PROVE FailureInv'
  <2> DEFINE cells == [k \in DOMAIN elements |-> memory[Slot(elements[k])]]
  <2>1. /\ phase = "running" /\ spreading' = FALSE /\ UNCHANGED <<reported, provenance>>
        /\ MakeTuple(Fresh, cells, {Slot(elements[k]) : k \in DOMAIN elements}, Len(elements), "tuple-literal")
    BY <1>5, CallIs DEF Tuple
  <2>2. n \in Nat /\ DOMAIN elements = 1 .. n
    BY SetupHas DEF RuntimeInv
  <2>3. Len(cells) \in Nat
    BY <2>2
  <2> HIDE DEF cells
  <2> QED BY <2>1, <2>3, MakeTupleExplains, OutcomeExplained
<1>6. ASSUME NEW s \in 1 .. Slots, NEW count \in 1 .. Width, Fanout(s, count) PROVE FailureInv'
  <2> DEFINE cells == [k \in 1 .. count |-> Zero]
  <2>1. /\ phase = "running" /\ spreading' = FALSE /\ UNCHANGED <<reported, provenance>>
        /\ MakeTuple(s, cells, {}, 0, "fanout")
    BY <1>6, CallIs DEF Fanout
  <2>2. count \in Nat
    BY SetupHas DEF RuntimeInv
  <2>3. Len(cells) \in Nat
    BY <2>2
  <2> HIDE DEF cells
  <2> QED BY <2>1, <2>3, MakeTupleExplains, OutcomeExplained
<1>7. ASSUME NEW f \in 1 .. Slots, NEW s \in 1 .. Slots, Transfer(f, s) PROVE FailureInv'
  <2>1. UNCHANGED <<phase, outcome, failure, spreading, provenance, reported>>
    BY <1>7 DEF Transfer, control
  <2> QED BY <2>1 DEF FailureInv
<1>8. ASSUME NEW s \in 1 .. Slots, BeginRelease(s) PROVE FailureInv'
  <2>1. phase = "running" /\ phase' = "releasing" /\ UNCHANGED <<outcome, failure, spreading, provenance, reported>>
    BY <1>8 DEF BeginRelease
  <2> QED BY <2>1 DEF FailureInv
<1>9. CASE Finish
  <2>1. phase = "running" /\ phase' = "printing" /\ UNCHANGED <<outcome, failure, spreading, provenance, reported>>
    BY <1>9 DEF Finish
  <2> QED BY <2>1 DEF FailureInv
<1> QED BY <1>1, <1>2, <1>3, <1>4, <1>5, <1>6, <1>7, <1>8, <1>9, <1>10, LocaleExplained DEF Step

\* The walks record no failure; the last step reports the one recorded.
LEMMA WalkExplains ==
  ASSUME RuntimeInv, FailureInv, Walk
  PROVE  FailureInv'
<1>1. CASE Descend \/ CleanNext
  <2>1. UNCHANGED <<phase, outcome, failure, spreading, provenance, reported>>
    BY <1>1 DEF Descend, CleanNext
  <2> QED BY <2>1 DEF FailureInv
<1>2. CASE Clear
  <2>1. /\ UNCHANGED <<outcome, failure, spreading, provenance, reported>>
        /\ phase' = phase \/ (phase = "releasing" /\ phase' = "running")
    BY <1>2 DEF Clear
  <2> QED BY <2>1 DEF FailureInv
<1>3. CASE NextRoot
  <2>1. /\ phase = "printing" /\ UNCHANGED <<failure, spreading, provenance, reported>>
        /\ \/ phase' = "cleaning" /\ outcome' = "ok"
           \/ phase' = "validating" /\ outcome' = outcome
    BY <1>3 DEF NextRoot
  <2> QED BY <2>1 DEF FailureInv
<1>4. CASE Validate \/ Write
  <2>1. /\ phase \in {"validating", "printing"} /\ UNCHANGED <<failure, spreading, provenance, reported>>
        /\ \/ phase' = "cleaning" /\ outcome' = "output"
           \/ phase' \in {"validating", "printing"} /\ outcome' = outcome
    <3>1. CASE Validate
      BY <3>1 DEF Validate, OutputFails
    <3>2. CASE Write
      BY <3>2 DEF Write, OutputFails
    <3> QED BY <1>4, <3>1, <3>2
  <2> QED BY <2>1 DEF FailureInv
<1>5. CASE Exit
  <2>1. /\ phase = "cleaning" /\ phase' = "done" /\ reported' = Report /\ UNCHANGED <<failure, spreading, provenance>>
        /\ outcome' \in IF outcome = "ok" THEN {"ok", "flush"} ELSE {outcome}
    BY <1>5 DEF Exit
  <2>2. CASE outcome = "failed" /\ Explained(failure, spreading) /\ provenance = spreading
    <3>1. ContextValid
      BY <2>2 DEF ContextValid, Explained
    <3>2. Report = IF failure.kind = "internal" THEN "InternalError" ELSE failure.kind
      BY <2>2, <3>1 DEF Report
    <3> QED BY <2>1, <2>2, <3>2 DEF FailureInv
  <2>3. CASE outcome \in {"ok", "output", "flush"} /\ failure = NoFailure
    <3>1. Report = IF outcome = "output" THEN "OutputError" ELSE "nothing"
      BY <2>3 DEF Report
    <3> QED BY <2>1, <2>3, <3>1 DEF FailureInv
  <2> QED BY <2>1, <2>2, <2>3 DEF FailureInv
<1> QED BY <1>1, <1>2, <1>3, <1>4, <1>5 DEF Walk

\* Whatever fails first is what is reported, by its own name: its context
\* passes bennu_failure_context_valid, so that InternalError is said only of
\* setlocale's failure and of a shape check given a slot that holds no vector,
\* which is no spread's; a limit named as the reason is below the usage before
\* and the refused charge together; and what bennu_prepare_spread_provenance
\* leaves is there when a call that spreads fails, and cleared, before the
\* next call and the next failure, when it succeeds.
THEOREM FailuresAreExplained == Spec => []FailureExplained
<1>1. Init => FailureInv
  BY DEF Init, FailureInv
<1>2. RuntimeInv /\ FailureInv /\ [Next]_vars => FailureInv'
  <2>1. ASSUME RuntimeInv, FailureInv, UNCHANGED vars PROVE FailureInv'
    <3>1. UNCHANGED <<phase, outcome, failure, spreading, provenance, reported>>
      BY <2>1 DEF vars, control
    <3> QED BY <2>1, <3>1 DEF FailureInv
  <2> QED BY <2>1, StepExplains, WalkExplains DEF Next
<1>3. RuntimeInv /\ FailureInv => FailureExplained
  BY InvIsExplained
<1> QED BY <1>1, <1>2, <1>3, RuntimeKeepsItsMemory, PTL DEF Spec

=============================================================================
