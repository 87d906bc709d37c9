----------------------------- MODULE MCTupleWalks -----------------------------
(***************************************************************************)
(* Values for TupleWalks: every value of tuples of at most Wide elements,  *)
(* nested at most Depth deep and of at most MaxNodes nodes, over a scalar, *)
(* a vector and perhaps an empty vector.                                   *)
(***************************************************************************)
EXTENDS TupleWalks

CONSTANTS Depth, Wide, MaxNodes, EmptyVectors

MCLeaves ==
  {ScalarValue(1), VectorValue(Payload(1, 1))}
    \cup (IF EmptyVectors THEN {VectorValue(NoPayload)} ELSE {})

\* make_tuple_value on some elements; storages are given numbers afterwards.
Build(elements) ==
  LET draft[k \in 0 .. Len(elements)] ==
        IF k = 0 THEN NoDraft ELSE MoveElement(draft[k - 1], elements[k], 0)
  IN  TupleValue(CloseTuple(draft[Len(elements)], Payload(0, Len(elements))))

MCBuilt ==
  LET level[d \in 0 .. Depth] ==
        IF d = 0 THEN MCLeaves
        ELSE MCLeaves \cup {Build(e) : e \in UNION {[1 .. n -> level[d - 1]] : n \in 0 .. Wide}}
  IN  level[Depth]

\* A storage of its own for every vector and table that has one.
Numbered(v) ==
  LET t == v.tuple
      Own(p, s) == Payload(IF p.length = 0 THEN 0 ELSE s, p.length)
      payloads == Len(t.vector_payloads)
  IN  IF v.container # "tuple" THEN v
      ELSE [v EXCEPT
              !.tuple.vector_payloads = [k \in DOMAIN @ |-> Own(@[k], k)],
              !.tuple.reservations = [k \in DOMAIN @ |-> Own(@[k], payloads + k)],
              !.tuple.root_reservation = Own(@, payloads + Len(t.reservations) + 1)]

MCValues == {Numbered(v) : v \in {w \in MCBuilt : Len(w.tuple.nodes) <= MaxNodes}}
=============================================================================
