----------------------------- MODULE TupleValues -----------------------------
(***************************************************************************)
(* The structural values of src/src/value.cpp and src/src/resources.cpp:   *)
(* a tuple, however deep, is one flat arena (struct TupleValue).  Its      *)
(* nodes stand in postorder, a tuple node names its children by a range of *)
(* child_indexes, its table by an index into reservations, and a vector    *)
(* node its storage by an index into vector_payloads; the root is no       *)
(* element of nodes but sits in the TupleValue itself, with the index one  *)
(* past the last node.                                                     *)
(*                                                                         *)
(* Indexes are those of the code, from 0.  A scalar is a natural number,   *)
(* Blank for the scalar a container leaves empty.  An allocation is known  *)
(* by its address, 0 for a null pointer; bytes, ordinals and the ledger's  *)
(* bindings are in EvaluationResources.                                    *)
(***************************************************************************)
EXTENDS Naturals, Sequences, FiniteSets

Blank == 0

\* VectorValue and TupleTableReservation: the storage and what it was made for.
Payload(storage, length) == [storage |-> storage, length |-> length]
NoPayload == Payload(0, 0)

Node(container, scalar, first, count, table, payload) ==
  [container |-> container, scalar |-> scalar, first_child |-> first,
   child_count |-> count, tuple_reservation_index |-> table,
   vector_payload_index |-> payload]

NoTuple ==
  [nodes |-> <<>>, child_indexes |-> <<>>, vector_payloads |-> <<>>,
   reservations |-> <<>>, root_index |-> 0, root_reservation |-> NoPayload,
   first_child |-> 0, child_count |-> 0]

Value(container, scalar, vector, tuple) ==
  [claimed |-> TRUE, container |-> container, scalar |-> scalar,
   vector |-> vector, tuple |-> tuple]

ScalarValue(k) == Value("scalar", k, NoPayload, NoTuple)
VectorValue(payload) == Value("vector", Blank, payload, NoTuple)
TupleValue(tuple) == Value("tuple", Blank, NoPayload, tuple)

\* invalid_construction_value: what a move leaves behind.
Unclaimed == [ScalarValue(Blank) EXCEPT !.claimed = FALSE]

At(s, index) == s[index + 1]

\* A node of a tuple by index, the root included.
NodeAt(tuple, index) ==
  IF index = tuple.root_index
  THEN Node("tuple", Blank, tuple.first_child, tuple.child_count,
            Len(tuple.reservations), 0)
  ELSE At(tuple.nodes, index)

TableAt(tuple, index) ==
  IF index = Len(tuple.reservations) THEN tuple.root_reservation
  ELSE At(tuple.reservations, index)

ChildrenOf(tuple, node) ==
  [k \in 1 .. node.child_count |-> At(tuple.child_indexes, node.first_child + k - 1)]

(***************************************************************************)
(* Building an arena: what make_tuple_value and publish_preadmitted_tuple  *)
(* do with each element.  Draft is the arena so far and the roots of the   *)
(* elements moved into it.                                                 *)
(***************************************************************************)

NoDraft == [tuple |-> NoTuple, roots |-> <<>>]

\* A node of a nested tuple, renumbered for the arena it moves into.
Moved(node, edges, tables, payloads) ==
  CASE node.container = "tuple" ->
         [node EXCEPT !.first_child = @ + edges,
                      !.tuple_reservation_index = @ + tables]
    [] node.container = "vector" -> [node EXCEPT !.vector_payload_index = @ + payloads]
    [] OTHER -> node

\* An element that is a scalar or a vector becomes one node.  The two builders
\* differ in the payload index of a scalar node: idle is what they write there.
MoveLeaf(draft, element, idle) ==
  LET t == draft.tuple
      vector == element.container = "vector"
      place == IF vector THEN Len(t.vector_payloads) ELSE idle
  IN  [tuple |-> [t EXCEPT
         !.nodes = Append(@, Node(element.container, element.scalar, 0, 0, 0, place)),
         !.vector_payloads = IF vector THEN Append(@, element.vector) ELSE @],
       roots |-> Append(draft.roots, Len(t.nodes))]

\* The tables of a nested tuple in the order they move: the root's last.
TablesOf(tuple) == Append(tuple.reservations, tuple.root_reservation)

\* A tuple brings its nodes, then its root as a node of its own.
MoveTuple(draft, element) ==
  LET t == draft.tuple
      e == element.tuple
      nodes == Len(t.nodes)
      tables == Len(t.reservations)
      inner == [k \in DOMAIN e.nodes |->
                  Moved(e.nodes[k], Len(t.child_indexes), tables,
                        Len(t.vector_payloads))]
      root == Node("tuple", Blank, e.first_child + Len(t.child_indexes),
                   e.child_count, tables + Len(e.reservations), 0)
  IN  [tuple |-> [t EXCEPT
         !.nodes = @ \o Append(inner, root),
         !.child_indexes = @ \o [k \in DOMAIN e.child_indexes |->
                                   e.child_indexes[k] + nodes],
         !.vector_payloads = @ \o e.vector_payloads,
         !.reservations = @ \o TablesOf(e)],
       roots |-> Append(draft.roots, nodes + Len(e.nodes))]

MoveElement(draft, element, idle) ==
  IF element.container = "tuple" THEN MoveTuple(draft, element)
  ELSE MoveLeaf(draft, element, idle)

\* Mutant: the roots' range starts at the first edge.
CloseTuple_FirstEdge(draft, table) ==
  [draft.tuple EXCEPT
     !.first_child = 0,
     !.child_indexes = @ \o draft.roots,
     !.child_count = Len(draft.roots),
     !.root_index = Len(draft.tuple.nodes),
     !.root_reservation = table]

\* The edges of the root come last.
CloseTuple(draft, table) ==
  [draft.tuple EXCEPT
     !.first_child = Len(draft.tuple.child_indexes),
     !.child_indexes = @ \o draft.roots,
     !.child_count = Len(draft.roots),
     !.root_index = Len(draft.tuple.nodes),
     !.root_reservation = table]

(***************************************************************************)
(* The reference: the tree a value stands for.                             *)
(***************************************************************************)

LeafTree(container, scalar, payload) ==
  IF container = "scalar" THEN <<"scalar", scalar>> ELSE <<"vector", payload>>

TupleTree(table, children) == <<"tuple", table, children>>

\* The tree below each node; a node's children come before it.
TreesOf(t) ==
  LET tree[n \in 0 .. t.root_index] ==
        LET node == NodeAt(t, n) IN
        CASE node.container = "scalar" -> LeafTree("scalar", node.scalar, NoPayload)
          [] node.container = "vector" ->
               LeafTree("vector", Blank, At(t.vector_payloads, node.vector_payload_index))
          [] OTHER ->
               TupleTree(TableAt(t, node.tuple_reservation_index),
                         [k \in 1 .. node.child_count |->
                            tree[At(t.child_indexes, node.first_child + k - 1)]])
  IN  tree

TreeOf(value) ==
  IF value.container = "tuple" THEN TreesOf(value.tuple)[value.tuple.root_index]
  ELSE LeafTree(value.container, value.scalar, value.vector)

(***************************************************************************)
(* The reference for validate_value: an owner whose vectors are sound and, *)
(* if it is a tuple, whose edges, ranges, payloads and tables are each the *)
(* business of exactly one node, with every node but the root a child of   *)
(* exactly one later one.                                                  *)
(***************************************************************************)

SoundPayload(p) == (p.length = 0) = (p.storage = 0)

SoundTable(p, count) == p.length = count /\ SoundPayload(p)

Edges(node) == {node.first_child + k - 1 : k \in 1 .. node.child_count}

\* Exactly one x in S is related to y by Rel, for every y in T.
ExactlyOne(S, T, Rel(_, _)) ==
  \A y \in T : Cardinality({x \in S : Rel(x, y)}) = 1

Distinct(bag) == \A i, j \in DOMAIN bag : i # j /\ bag[i] # 0 => bag[i] # bag[j]

Pointers(payloads) == [k \in DOMAIN payloads |-> payloads[k].storage]

\* The storages of an arena, in no particular order.
Storages(t) ==
  Pointers(t.vector_payloads) \o Pointers(t.reservations) \o <<t.root_reservation.storage>>

IdleFieldsClear(node) ==
  /\ node.container # "scalar" => node.scalar = Blank
  /\ node.container # "tuple" => node.first_child = 0 /\ node.child_count = 0
                                 /\ node.tuple_reservation_index = 0
  /\ node.container # "vector" => node.vector_payload_index = 0

WellFormedArena(t) ==
  LET Indexes == 0 .. Len(t.nodes)
      EdgeIndexes == 0 .. Len(t.child_indexes) - 1
      Nd(n) == NodeAt(t, n)
      Tuples == {n \in Indexes : Nd(n).container = "tuple"}
      Vectors == {n \in Indexes : Nd(n).container = "vector"}
      HasEdge(n, e) == e \in Edges(Nd(n))
      HasPayload(n, p) == Nd(n).vector_payload_index = p
      HasTable(n, r) == Nd(n).tuple_reservation_index = r
  IN  /\ t.root_index = Len(t.nodes)
      /\ \A n \in Indexes : IdleFieldsClear(Nd(n))
      /\ \A n \in Tuples : Nd(n).first_child + Nd(n).child_count <= Len(t.child_indexes)
      /\ \A n \in Tuples : \A e \in Edges(Nd(n)) : At(t.child_indexes, e) < n
      /\ ExactlyOne(Tuples, EdgeIndexes, HasEdge)
      /\ ExactlyOne(EdgeIndexes, 0 .. Len(t.nodes) - 1,
                    LAMBDA e, c : At(t.child_indexes, e) = c)
      /\ \A n \in Tuples \ {t.root_index} :
           Nd(n).tuple_reservation_index < Len(t.reservations)
      /\ ExactlyOne(Tuples, 0 .. Len(t.reservations), HasTable)
      /\ \A n \in Vectors : Nd(n).vector_payload_index < Len(t.vector_payloads)
      /\ ExactlyOne(Vectors, 0 .. Len(t.vector_payloads) - 1, HasPayload)
      /\ \A k \in DOMAIN t.vector_payloads : SoundPayload(t.vector_payloads[k])
      /\ \A n \in Tuples :
           SoundTable(TableAt(t, Nd(n).tuple_reservation_index), Nd(n).child_count)
      /\ Distinct(Storages(t))

WellFormed(value) ==
  /\ value.claimed
  /\ value.container # "scalar" => value.scalar = Blank
  /\ value.container # "vector" => value.vector = NoPayload
  /\ value.container # "tuple" => value.tuple = NoTuple
  /\ value.container = "vector" => SoundPayload(value.vector)
  /\ value.container = "tuple" => WellFormedArena(value.tuple)

\* Every allocation a value owns, with repetition, 0 where a pointer is null.
OwnedBy(value) ==
  IF ~value.claimed THEN <<>>
  ELSE <<value.vector.storage>> \o Storages(value.tuple)
=============================================================================
