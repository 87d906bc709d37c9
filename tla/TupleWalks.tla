------------------------------ MODULE TupleWalks ------------------------------
(***************************************************************************)
(* The walks over a value in src/src/value.cpp and src/src/resources.cpp:  *)
(* validate_value, which everything else calls first, and then one of      *)
(* value_type (of the value or of a view of one of its nodes),             *)
(* format_value and destroy_value.  All four are loops over a scratch      *)
(* array or, for destroy_value, over fields of the arena itself, never     *)
(* recursive.  One step is one iteration.                                  *)
(*                                                                         *)
(* A Value is a plain struct: validate_value has to refuse whatever a      *)
(* caller did to one.  The inputs are built values with at most            *)
(* Corruptions fields changed.                                             *)
(*                                                                         *)
(*   value     the argument; original keeps it as it was                   *)
(*   work      the operation and how far it is; view is value_type's node  *)
(*   stack     the scratch stack of the walk under way, top last           *)
(*   seen      nodes visited; of validate_value also the edges, children,  *)
(*             payloads and tables that have an owner                      *)
(*   path      the parent and the child offset each node was reached by    *)
(*   result    of validate_value: the invariant broken, where, and the path*)
(*   output    value_type's arena, or what format_value has written, one   *)
(*             item per scalar, vector or mark                             *)
(*   freed     the storages destroy_value has released, in order           *)
(***************************************************************************)
EXTENDS TupleValues

CONSTANTS
  Values,
  Corruptions,   \* fields changed in a value, at most
  SmallNodes     \* only in a value of at most this many nodes more than one

ASSUME WalksAssumption == Corruptions \in Nat /\ SmallNodes \in Nat

VARIABLES value, original, work, stack, seen, path, result, output, freed

vars == <<value, original, work, stack, seen, path, result, output, freed>>

NothingSeen == [nodes |-> {}, edges |-> {}, children |-> {}, payloads |-> {},
                tables |-> {}]
NoResult == [invariant |-> "none", node |-> 0, path |-> <<>>]
NoParent == Len(value.tuple.nodes) + 1
Pending == [op |-> "validate", stage |-> "input", changes |-> 0, view |-> 0, at |-> 0]

Init ==
  /\ value \in Values
  /\ original = value
  /\ work = Pending
  /\ stack = <<>>
  /\ seen = NothingSeen
  /\ path = <<>>
  /\ result = NoResult
  /\ output = <<>>
  /\ freed = <<>>

(***************************************************************************)
(* Inputs.                                                                 *)
(***************************************************************************)

Numbers == 0 .. Len(value.tuple.nodes) + 1

WithNode(t) ==
  UNION {{[t EXCEPT !.nodes[k][f] = x] : x \in Numbers,
            f \in {"scalar", "first_child", "child_count", "tuple_reservation_index",
                   "vector_payload_index"}}
         \cup {[t EXCEPT !.nodes[k].container = c] : c \in {"scalar", "vector", "tuple"}} :
         k \in DOMAIN t.nodes}

WithField(t) ==
  {[t EXCEPT ![f] = x] : f \in {"first_child", "child_count", "root_index"}, x \in Numbers}
    \cup {[t EXCEPT !.child_indexes[k] = x] : k \in DOMAIN t.child_indexes, x \in Numbers}

Lists == {"nodes", "child_indexes", "vector_payloads", "reservations"}

\* One entry too few, or the last one twice.
WithLength(t) ==
  {[t EXCEPT ![f] = SubSeq(t[f], 1, Len(t[f]) - 1)] : f \in {g \in Lists : t[g] # <<>>}}
    \cup {[t EXCEPT ![f] = Append(t[f], t[f][Len(t[f])])] : f \in {g \in Lists : t[g] # <<>>}}

WithHandle(t) ==
  {[t EXCEPT !.vector_payloads[k].length = x] : k \in DOMAIN t.vector_payloads, x \in {0, 1}}
    \cup {[t EXCEPT !.reservations[k].length = x] : k \in DOMAIN t.reservations, x \in 0 .. 2}
    \cup {[t EXCEPT !.reservations[k].storage = x] : k \in DOMAIN t.reservations, x \in 0 .. 2}
    \cup {[t EXCEPT !.root_reservation.length = x] : x \in 0 .. 2}

\* The caller changes a field.
Change ==
  /\ work.stage = "input"
  /\ work.changes < Corruptions
  /\ work.changes = 0 \/ Len(value.tuple.nodes) <= SmallNodes
  /\ value' \in
       {[value EXCEPT !.tuple = t] :
          t \in WithNode(value.tuple) \cup WithField(value.tuple)
                  \cup WithLength(value.tuple) \cup WithHandle(value.tuple)}
       \cup {[value EXCEPT !.container = c] : c \in {"scalar", "vector", "tuple"}}
       \cup {[value EXCEPT !.scalar = 1], [value EXCEPT !.claimed = FALSE],
             [value EXCEPT !.vector.length = 1]}
  /\ original' = value'
  /\ work' = [work EXCEPT !.changes = @ + 1]
  /\ UNCHANGED <<stack, seen, path, result, output, freed>>

(***************************************************************************)
(* validate_value.                                                         *)
(***************************************************************************)

RootIndex == value.tuple.root_index
Nd(n) == NodeAt(value.tuple, n)
Below(n) == ChildrenOf(value.tuple, Nd(n))

\* What the struct itself must satisfy, before any node is looked at.
OwnerVerdict ==
  LET t == value.tuple IN
  IF ~value.claimed THEN "empty_owner"
  ELSE IF value.container # "scalar" /\ value.scalar # Blank THEN "inactive_scalar_field"
  ELSE IF value.container # "vector" /\ value.vector # NoPayload THEN "inactive_vector_payload"
  ELSE IF value.container # "tuple" /\ t # NoTuple THEN "inactive_tuple_field"
  ELSE IF value.container = "vector" /\ ~SoundPayload(value.vector)
  THEN "invalid_vector_payload_handle"
  ELSE IF value.container = "tuple" /\ t.root_index > Len(t.nodes) THEN "invalid_value_root"
  ELSE IF value.container = "tuple" /\ t.root_index # Len(t.nodes) THEN "nonfinal_value_root"
  ELSE "none"

Finish(invariant, node, route) ==
  /\ result' = [invariant |-> invariant, node |-> node, path |-> route]
  /\ work' = [work EXCEPT !.stage = IF invariant = "none" THEN "valid" ELSE "done"]
  /\ stack' = <<>>

Begin ==
  /\ work.stage = "input"
  /\ work' = [work EXCEPT !.stage = "begun"]
  /\ UNCHANGED <<value, original, stack, seen, path, result, output, freed>>

\* Host memory for the scratch arrays is refused.
Refused ==
  /\ work.stage \in {"begun", "valid"}
  /\ result' = [NoResult EXCEPT !.invariant = "refused"]
  /\ work' = [work EXCEPT !.stage = "done"]
  /\ UNCHANGED <<value, original, stack, seen, path, output, freed>>

Entry(node, parent, offset) == [node |-> node, parent |-> parent, offset |-> offset]

ValidationCapacity == Len(value.tuple.child_indexes) + 1

BeginValidate ==
  /\ work.stage = "begun"
  /\ seen' = NothingSeen
  /\ IF OwnerVerdict # "none" \/ value.container # "tuple"
     THEN Finish(OwnerVerdict, 0, <<>>) /\ path' = path
     ELSE IF ValidationCapacity = 0
     THEN Finish("size_overflow", RootIndex, <<>>) /\ path' = path
     ELSE /\ stack' = <<Entry(RootIndex, NoParent, 0)>>
          /\ path' = [n \in 0 .. RootIndex |-> [parent |-> NoParent, offset |-> 0]]
          /\ work' = [work EXCEPT !.stage = "validating"]
          /\ result' = result
  /\ UNCHANGED <<value, original, output, freed>>

\* invalid_at: the child offsets from the root to n.
RouteTo(n, p) ==
  LET route[m \in DOMAIN p, left \in 0 .. Cardinality(DOMAIN p)] ==
        IF p[m].parent = NoParent \/ left = 0 THEN <<>>
        ELSE Append(route[p[m].parent, left - 1], p[m].offset)
  IN  route[n, Cardinality(DOMAIN p)]

\* The storages of the payloads and tables that already have an owner.
ClaimedStorages ==
  {At(value.tuple.vector_payloads, p).storage : p \in seen.payloads}
    \cup {TableAt(value.tuple, r).storage : r \in seen.tables}

Aliased(storage) == storage # 0 /\ storage \in ClaimedStorages

LeafVerdict(node) ==
  LET p == node.vector_payload_index IN
  IF node.container = "vector" /\ node.scalar # Blank THEN "inactive_scalar_field"
  ELSE IF node.first_child # 0 \/ node.child_count # 0 \/ node.tuple_reservation_index # 0
  THEN "inactive_tuple_field"
  ELSE IF node.container = "scalar" /\ p # 0 THEN "inactive_tuple_field"
  ELSE IF node.container = "scalar" THEN "none"
  ELSE IF p >= Len(value.tuple.vector_payloads) THEN "invalid_vector_payload_handle"
  ELSE IF p \in seen.payloads THEN "aliased_vector_payload"
  ELSE IF Aliased(At(value.tuple.vector_payloads, p).storage) THEN "aliased_vector_payload"
  ELSE IF ~SoundPayload(At(value.tuple.vector_payloads, p)) THEN "invalid_vector_payload_handle"
  ELSE "none"

\* What is wrong with the k-th edge of n, given the ones before it.
EdgeVerdict(n, k) ==
  LET edge == Nd(n).first_child + k - 1
      child == At(value.tuple.child_indexes, edge)
  IN  IF edge \in seen.edges THEN "overlapping_tuple_range"
      ELSE IF child > RootIndex THEN "invalid_tuple_child_index"
      ELSE IF child >= n THEN "non_postorder_tuple_child"
      ELSE IF child \in seen.children \/ \E j \in 1 .. k - 1 : Below(n)[j] = child
      THEN "aliased_tuple_child"
      ELSE "none"

\* Mutant: a table nobody has claimed yet is enough, whoever made it.
TableVerdict_AnyCount(n) ==
  LET r == Nd(n).tuple_reservation_index IN
  IF r > Len(value.tuple.reservations) THEN "missing_tuple_reservation"
  ELSE IF r \in seen.tables \/ Aliased(TableAt(value.tuple, r).storage)
  THEN "aliased_tuple_reservation"
  ELSE "none"

TableVerdict(n) ==
  LET r == Nd(n).tuple_reservation_index IN
  IF r > Len(value.tuple.reservations) THEN "missing_tuple_reservation"
  ELSE IF r \in seen.tables \/ Aliased(TableAt(value.tuple, r).storage)
  THEN "aliased_tuple_reservation"
  ELSE IF ~SoundTable(TableAt(value.tuple, r), Nd(n).child_count)
  THEN "invalid_tuple_reservation_count"
  ELSE "none"

Top == stack[Len(stack)]
Rest == SubSeq(stack, 1, Len(stack) - 1)

\* Pushing onto a full scratch array is a failure of its own.
Push(more, entries, capacity) ==
  /\ stack' = IF more THEN Rest \o entries ELSE Rest
  /\ IF Len(stack') > capacity
     THEN /\ result' = [NoResult EXCEPT !.invariant = "size_overflow"]
          /\ work' = [work EXCEPT !.stage = "done"]
     ELSE UNCHANGED <<result, work>>

\* The children of n, last first, so that the first is visited next.
ValidationEntries(n) ==
  [k \in 1 .. Nd(n).child_count |->
     Entry(Below(n)[Nd(n).child_count + 1 - k], n, Nd(n).child_count - k)]

Found(invariant, node, p) == [invariant |-> invariant, node |-> node, path |-> RouteTo(node, p)]

TupleFinding(n, p) ==
  LET node == Nd(n)
      bad == {k \in 1 .. node.child_count : EdgeVerdict(n, k) # "none"}
      first == CHOOSE k \in bad : \A j \in bad : k <= j
      child == Below(n)[first]
      reached == [p EXCEPT ![child] = [parent |-> n, offset |-> first - 1]]
  IN  IF node.scalar # Blank THEN Found("inactive_scalar_field", n, p)
      ELSE IF node.vector_payload_index # 0 THEN Found("inactive_vector_payload", n, p)
      ELSE IF node.first_child + node.child_count > Len(value.tuple.child_indexes)
      THEN Found("invalid_tuple_range", n, p)
      ELSE IF bad # {}
      THEN IF EdgeVerdict(n, first) = "aliased_tuple_child"
           THEN Found("aliased_tuple_child", child, reached)
           ELSE Found(EdgeVerdict(n, first), n, p)
      ELSE Found(TableVerdict(n), n, p)

Finding(n, p) ==
  IF n \in seen.nodes THEN Found("aliased_tuple_child", n, p)
  ELSE IF Nd(n).container = "tuple" THEN TupleFinding(n, p)
  ELSE Found(LeafVerdict(Nd(n)), n, p)

Claimed(n) ==
  LET node == Nd(n) IN
  CASE node.container = "tuple" ->
         [seen EXCEPT !.nodes = @ \cup {n},
                      !.edges = @ \cup Edges(node),
                      !.children = @ \cup {Below(n)[k] : k \in 1 .. node.child_count},
                      !.tables = @ \cup {node.tuple_reservation_index}]
    [] node.container = "vector" ->
         [seen EXCEPT !.nodes = @ \cup {n}, !.payloads = @ \cup {node.vector_payload_index}]
    [] OTHER -> [seen EXCEPT !.nodes = @ \cup {n}]

Visit ==
  /\ work.stage = "validating" /\ stack # <<>>
  /\ path' = [path EXCEPT ![Top.node] = [parent |-> Top.parent, offset |-> Top.offset]]
  /\ LET finding == Finding(Top.node, path') IN
     IF finding.invariant # "none"
     THEN Finish(finding.invariant, finding.node, finding.path) /\ UNCHANGED seen
     ELSE /\ seen' = Claimed(Top.node)
          /\ Push(Nd(Top.node).container = "tuple", ValidationEntries(Top.node),
                  ValidationCapacity)
  /\ UNCHANGED <<value, original, output, freed>>

\* The last four loops: everything in the arena belongs to somebody.
OrphanVerdict ==
  LET t == value.tuple IN
  IF seen.nodes # 0 .. RootIndex THEN "orphan_value_node"
  ELSE IF seen.edges # 0 .. Len(t.child_indexes) - 1 THEN "orphan_tuple_edge"
  ELSE IF seen.payloads # 0 .. Len(t.vector_payloads) - 1 THEN "orphan_vector_payload_handle"
  ELSE IF seen.tables # 0 .. Len(t.reservations) THEN "orphan_tuple_reservation"
  ELSE "none"

Orphans == IF seen.nodes = 0 .. RootIndex THEN {RootIndex} ELSE (0 .. RootIndex) \ seen.nodes

EndValidate ==
  /\ work.stage = "validating" /\ stack = <<>>
  /\ Finish(OrphanVerdict, CHOOSE n \in Orphans : \A m \in Orphans : n <= m, <<>>)
  /\ UNCHANGED <<value, original, seen, path, output, freed>>

(***************************************************************************)
(* value_type.  The type of a scalar is its number, that of a vector its   *)
(* payload, so that two of either are told apart.                          *)
(***************************************************************************)

LeafType(container, of) == [container |-> container, of |-> of, first_child |-> 0, child_count |-> 0]

\* The result for a value that is not a tuple, or the walk's beginning.
BeginType ==
  /\ work.stage = "valid"
  /\ seen' = NothingSeen
  /\ IF value.container # "tuple"
     THEN /\ output' = [nodes |-> <<LeafType(value.container,
                          IF value.container = "scalar" THEN value.scalar ELSE value.vector)>>,
                        child_indexes |-> <<>>, root_index |-> 0]
          /\ work' = [work EXCEPT !.op = "type", !.stage = "done"]
          /\ UNCHANGED stack
     ELSE \E n \in 0 .. RootIndex :
            /\ stack' = <<n>>
            /\ work' = [work EXCEPT !.op = "type", !.stage = "marking", !.view = n]
            /\ UNCHANGED output
  /\ UNCHANGED <<value, original, path, result, freed>>

Mark ==
  /\ work.stage = "marking" /\ stack # <<>>
  /\ seen' = [seen EXCEPT !.nodes = @ \cup {Top}]
  /\ Push(Top \notin seen.nodes, Below(Top), RootIndex + 1)
  /\ UNCHANGED <<value, original, path, output, freed>>

TypeEdges(node, map) == [k \in 1 .. node.child_count |-> map[ChildrenOf(value.tuple, node)[k]]]

EndMark ==
  /\ work.stage = "marking" /\ stack = <<>>
  /\ output' = [nodes |-> <<>>, child_indexes |-> <<>>, map |-> [n \in 0 .. RootIndex |-> 0]]
  /\ work' = [work EXCEPT !.stage = "renumbering"]
  /\ UNCHANGED <<value, original, stack, seen, path, result, freed>>

\* The type of node n, after the edges already written.
TypeNode(n) ==
  LET node == Nd(n) IN
  CASE node.container = "scalar" -> LeafType("scalar", node.scalar)
    [] node.container = "vector" ->
         LeafType("vector", At(value.tuple.vector_payloads, node.vector_payload_index))
    [] OTHER -> [container |-> "tuple", of |-> Blank,
                 first_child |-> Len(output.child_indexes), child_count |-> node.child_count]

\* The nodes reached are renumbered, in order; index_map keeps the old numbers.
Renumber ==
  /\ work.stage = "renumbering" /\ work.at <= work.view
  /\ output' = IF work.at \notin seen.nodes THEN output
               ELSE [nodes |-> Append(output.nodes, TypeNode(work.at)),
                     child_indexes |-> IF Nd(work.at).container = "tuple"
                                       THEN output.child_indexes
                                              \o TypeEdges(Nd(work.at), output.map)
                                       ELSE output.child_indexes,
                     map |-> [output.map EXCEPT ![work.at] = Len(output.nodes)]]
  /\ work' = [work EXCEPT !.at = @ + 1]
  /\ UNCHANGED <<value, original, stack, seen, path, result, freed>>

EndType ==
  /\ work.stage = "renumbering" /\ work.at > work.view
  /\ output' = [nodes |-> output.nodes, child_indexes |-> output.child_indexes,
                root_index |-> output.map[work.view]]
  /\ work' = [work EXCEPT !.stage = "done"]
  /\ UNCHANGED <<value, original, stack, seen, path, result, freed>>

(***************************************************************************)
(* format_value.                                                           *)
(***************************************************************************)

LeafText(container, scalar, payload) ==
  IF container = "scalar" THEN <<"scalar", scalar>> ELSE <<"vector", payload>>

BeginFormat ==
  /\ work.stage = "valid"
  /\ IF value.container = "tuple"
     THEN stack' = <<[kind |-> "node", node |-> RootIndex]>> /\ output' = output
     ELSE stack' = stack /\ output' = <<LeafText(value.container, value.scalar, value.vector)>>
  /\ work' = [work EXCEPT !.op = "format", !.stage = "formatting"]
  /\ UNCHANGED <<value, original, seen, path, result, freed>>

Sign(kind) == [kind |-> kind, node |-> 0]

\* The closing mark, then the elements last first, a separator under each but
\* the first.
FormatEntries(n) ==
  LET count == Nd(n).child_count
  IN  <<Sign("]")>> \o
      [k \in 1 .. (IF count = 0 THEN 0 ELSE 2 * count - 1) |->
         IF k % 2 = 0 THEN Sign(" ")
         ELSE [kind |-> "node", node |-> Below(n)[count - (k - 1) \div 2]]]

FormatStep ==
  /\ work.stage = "formatting" /\ stack # <<>>
  /\ LET node == Nd(Top.node)
         leaf == LeafText(node.container, node.scalar,
                          IF node.container = "vector"
                          THEN At(value.tuple.vector_payloads, node.vector_payload_index)
                          ELSE NoPayload)
         tuple == Top.kind = "node" /\ node.container = "tuple"
     IN  /\ output' = Append(output, CASE Top.kind # "node" -> Top.kind
                                       [] tuple -> "["
                                       [] OTHER -> leaf)
         /\ Push(tuple, FormatEntries(Top.node),
                 Len(value.tuple.nodes) + 2 * Len(value.tuple.child_indexes) + 1)
  /\ UNCHANGED <<value, original, seen, path, freed>>

EndFormat ==
  /\ work.stage = "formatting" /\ stack = <<>>
  /\ work' = [work EXCEPT !.stage = "done"]
  /\ UNCHANGED <<value, original, stack, seen, path, result, output, freed>>

(***************************************************************************)
(* destroy_value.  It needs no memory: the parent of a node is written     *)
(* into a field the node does not use, and a tuple's child_count counts the*)
(* children still to be freed.                                             *)
(***************************************************************************)

\* Where set_parent writes.
ParentField(node) == IF node.container = "tuple" THEN "vector_payload_index" ELSE "first_child"

ParentOf(n) ==
  CHOOSE m \in 0 .. RootIndex :
    Nd(m).container = "tuple" /\ \E k \in 1 .. Nd(m).child_count : Below(m)[k] = n

Linked(nodes) ==
  [k \in DOMAIN nodes |-> [nodes[k] EXCEPT ![ParentField(nodes[k])] = ParentOf(k - 1)]]

Release(storage) == freed' = IF storage = 0 THEN freed ELSE Append(freed, storage)

BeginDestroy ==
  /\ work.stage = "valid"
  /\ IF value.container = "tuple"
     THEN /\ value' = [value EXCEPT !.tuple.nodes = Linked(value.tuple.nodes)]
          /\ work' = [work EXCEPT !.op = "destroy", !.stage = "destroying", !.at = RootIndex]
          /\ freed' = freed
     ELSE /\ Release(value.vector.storage)
          /\ value' = Unclaimed
          /\ work' = [work EXCEPT !.op = "destroy", !.stage = "done"]
  /\ UNCHANGED <<original, stack, seen, path, result, output>>

\* Mutant: the children already freed are not counted off.
Descend_NotCounted ==
  /\ work.stage = "destroying"
  /\ Nd(work.at).container = "tuple" /\ Nd(work.at).child_count > 0
  /\ work' = [work EXCEPT !.at = Below(work.at)[Nd(work.at).child_count]]
  /\ UNCHANGED <<value, original, stack, seen, path, result, output, freed>>

\* Mutant: the count is left out of the lookup.
Descend_FirstChild ==
  /\ work.stage = "destroying"
  /\ Nd(work.at).container = "tuple" /\ Nd(work.at).child_count > 0
  /\ work' = [work EXCEPT !.at = Below(work.at)[1]]
  /\ value' = IF work.at = RootIndex THEN [value EXCEPT !.tuple.child_count = @ - 1]
              ELSE [value EXCEPT !.tuple.nodes[work.at + 1].child_count = @ - 1]
  /\ UNCHANGED <<original, stack, seen, path, result, output, freed>>

\* Down to the last child that is left.
Descend ==
  /\ work.stage = "destroying"
  /\ Nd(work.at).container = "tuple" /\ Nd(work.at).child_count > 0
  /\ work' = [work EXCEPT !.at = Below(work.at)[Nd(work.at).child_count]]
  /\ value' = IF work.at = RootIndex THEN [value EXCEPT !.tuple.child_count = @ - 1]
              ELSE [value EXCEPT !.tuple.nodes[work.at + 1].child_count = @ - 1]
  /\ UNCHANGED <<original, stack, seen, path, result, output, freed>>

StorageAt(node) ==
  CASE node.container = "tuple" -> TableAt(value.tuple, node.tuple_reservation_index).storage
    [] node.container = "vector" -> At(value.tuple.vector_payloads, node.vector_payload_index).storage
    [] OTHER -> 0

Ascend ==
  /\ work.stage = "destroying"
  /\ LET node == Nd(work.at) IN
     /\ node.container = "tuple" => node.child_count = 0
     /\ Release(StorageAt(node))
     /\ IF work.at = RootIndex
        THEN value' = Unclaimed /\ work' = [work EXCEPT !.stage = "done"]
        ELSE value' = value /\ work' = [work EXCEPT !.at = node[ParentField(node)]]
  /\ UNCHANGED <<original, stack, seen, path, result, output>>

Walk ==
  \/ BeginValidate \/ Visit \/ EndValidate
  \/ BeginType \/ Mark \/ EndMark \/ Renumber \/ EndType
  \/ BeginFormat \/ FormatStep \/ EndFormat
  \/ BeginDestroy \/ Descend \/ Ascend

Next == Change \/ Begin \/ Refused \/ Walk

Spec == Init /\ [][Next]_vars /\ WF_vars(Walk)

(***************************************************************************)
(* Properties.                                                             *)
(***************************************************************************)

Done == work.stage = "done"
Succeeded == Done /\ result.invariant = "none"

\* The value was refused before any of its nodes was looked at.
OwnerRefused == original.container # "tuple" \/ path = <<>>

PathLeadsToNode ==
  ~OwnerRefused /\ result.invariant \notin {"none", "orphan_value_node"} =>
    LET at[k \in 0 .. Len(result.path)] ==
          IF k = 0 THEN original.tuple.root_index
          ELSE At(original.tuple.child_indexes,
                  NodeAt(original.tuple, at[k - 1]).first_child + result.path[k])
    IN  at[Len(result.path)] = result.node

\* validate_value accepts exactly the values that are a tree laid out in
\* postorder with every edge, vector and table owned once, and where it refuses
\* a node the path it reports leads from the root to that node.
AcceptsExactlyTrees ==
  Done /\ result.invariant \notin {"refused", "size_overflow"} =>
    /\ (result.invariant = "none") <=> WellFormed(original)
    /\ PathLeadsToNode

\* The scratch arrays are as large as the walks need, for every value and view.
ScratchSuffices == result.invariant # "size_overflow"

TypeTrees(a) ==
  LET tree[n \in 0 .. a.root_index] ==
        LET node == At(a.nodes, n) IN
        IF node.container = "tuple"
        THEN TupleTree(NoPayload, [k \in 1 .. node.child_count |->
                                     tree[At(a.child_indexes, node.first_child + k - 1)]])
        ELSE <<node.container, node.of>>
  IN  tree

WithoutTables(t) ==
  [t EXCEPT !.root_reservation = NoPayload,
            !.reservations = [k \in DOMAIN @ |-> NoPayload]]

RECURSIVE TextOf(_), FreedOf(_)

\* The reference for format_value and for the order of release.
TextOf(tree) ==
  IF tree[1] # "tuple" THEN <<tree>>
  ELSE LET kids == tree[3]
           upto[k \in 0 .. Len(kids)] ==
             CASE k = 0 -> <<>>
               [] k = 1 -> TextOf(kids[1])
               [] OTHER -> Append(upto[k - 1], " ") \o TextOf(kids[k])
       IN  <<"[">> \o upto[Len(kids)] \o <<"]">>

FreedOf(tree) ==
  LET storage == CASE tree[1] = "scalar" -> 0
                   [] tree[1] = "vector" -> tree[2].storage
                   [] OTHER -> tree[2].storage
      kids == IF tree[1] = "tuple" THEN tree[3] ELSE <<>>
      upto[k \in 0 .. Len(kids)] ==
        IF k = 0 THEN <<>> ELSE FreedOf(kids[k]) \o upto[k - 1]
  IN  upto[Len(kids)] \o (IF storage = 0 THEN <<>> ELSE <<storage>>)

\* The type of a value, or of any node of one, has the shape of its tree.
TypeReadsTree ==
  (Succeeded /\ work.op = "type") =>
    TypeTrees(output)[output.root_index] =
      IF original.container = "tuple" THEN TreesOf(WithoutTables(original.tuple))[work.view]
      ELSE TreeOf(original)

\* The text is the tree's, whatever the order of the nodes in the arena.
TextReadsTree == (Succeeded /\ work.op = "format") => output = TextOf(TreeOf(original))

\* Every storage is released once, a later element before an earlier one and a
\* table after what it holds, although the walk overwrites the arena as it goes.
ReleasedInOrder == (Succeeded /\ work.op = "destroy") => freed = FreedOf(TreeOf(original))

\* Each walk of an accepted value has the scratch it needs and gives what the
\* tree gives: value_type its shape, format_value its text, and destroy_value
\* its storages, each once and in order.
WalksReadTree == ScratchSuffices /\ TypeReadsTree /\ TextReadsTree /\ ReleasedInOrder

\* Every walk comes to its end, of any value.
Terminates == work.stage = "begun" ~> Done
=============================================================================
