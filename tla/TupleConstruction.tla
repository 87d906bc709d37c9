-------------------------- MODULE TupleConstruction --------------------------
(***************************************************************************)
(* How src/src/resources.cpp puts elements together into one tuple:        *)
(* make_tuple_value on elements the caller holds, the same under           *)
(* execute_tuple_construction, which has each element produced by a        *)
(* callback, and the three operations of a preadmitted assembly, which     *)
(* reserves every array before the elements exist and fills it afterwards. *)
(*                                                                         *)
(*   pool      the values the caller owns, each with the tree it stands for*)
(*   scratch   the caller's element storage                                *)
(*   live      the storages of vectors and tuple tables not yet freed      *)
(*   call      the operation under way: its stage, the function the caller *)
(*             called, the number of elements and of those dealt with      *)
(*   table     the reservation of the tuple being made                     *)
(*   draft     the arena being filled, and the roots of its elements       *)
(*   capacity  what a preadmitted assembly has reserved: nodes, edges below*)
(*             the root, vectors, nested tables                            *)
(*   moved     what the transfers into the assembly have counted so far    *)
(*                                                                         *)
(* Refusals (a profile, the byte budget, the host) are nondeterministic;   *)
(* when they happen is in EvaluationResources.  A storage is known by its  *)
(* address, which any later allocation may be given once it is freed.      *)
(***************************************************************************)
EXTENDS TupleValues

CONSTANTS Width, PoolSize, Addresses, Scalars

ASSUME ConstructionAssumption ==
  /\ {Width, PoolSize} \subseteq Nat
  /\ 0 \notin Addresses
  /\ Scalars \subseteq Nat \ {Blank}

VARIABLES pool, scratch, live, call, table, draft, capacity, moved

vars == <<pool, scratch, live, call, table, draft, capacity, moved>>

Positions == 1 .. Width
Owner(value, tree) == [value |-> value, tree |-> tree]
NoOwner == Owner(Unclaimed, <<>>)
Holding(value) == Owner(value, TreeOf(value))

Idle == [stage |-> "idle", by |-> "none", width |-> 0, done |-> 0]

Counts(nodes, edges, payloads, tables) ==
  [nodes |-> nodes, edges |-> edges, payloads |-> payloads, tables |-> tables]
NoCounts == Counts(0, 0, 0, 0)
Plus(a, b) == [f \in DOMAIN a |-> a[f] + b[f]]
Within(a, b) == \A f \in DOMAIN a : a[f] <= b[f]

Total(counts, n) ==
  LET sum[i \in 0 .. n] == IF i = 0 THEN NoCounts ELSE Plus(sum[i - 1], counts[i])
  IN  sum[n]

Init ==
  /\ pool = {}
  /\ scratch = [i \in Positions |-> NoOwner]
  /\ live = {}
  /\ call = Idle
  /\ table = NoPayload
  /\ draft = NoDraft
  /\ capacity = NoCounts
  /\ moved = NoCounts

(***************************************************************************)
(* Storage.                                                                *)
(***************************************************************************)

Free == Addresses \ live

\* The storages among these pointers.
Elements(bag) == {bag[i] : i \in DOMAIN bag} \ {0}

\* destroy_proven_value and destroy_value: the storages they free.
Destroyed(values) == UNION {Elements(OwnedBy(v)) : v \in values}

\* Values nobody had to build: a scalar, an empty vector, a vector.
Literals ==
  {ScalarValue(k) : k \in Scalars} \cup {VectorValue(NoPayload)}
    \cup {VectorValue(Payload(s, 1)) : s \in Free}

\* An owner that validate_value refuses: a vector shorter than its storage.
Broken == {[v EXCEPT !.vector.length = 0] : v \in {w \in Literals : w.vector.storage # 0}}

\* The bound on what the caller holds, the owners in its scratch included.
Claimed == {i \in Positions : scratch[i].value.claimed}
Room == Cardinality(pool) + Cardinality(Claimed) < PoolSize

\* The caller makes a literal, or lets go of a value.
Literal ==
  /\ call = Idle /\ Room
  /\ \E v \in Literals :
       /\ pool' = pool \cup {Holding(v)}
       /\ live' = live \cup Elements(OwnedBy(v))
  /\ UNCHANGED <<scratch, call, table, draft, capacity, moved>>

\* destroy_value refuses an owner that validate_value refuses.
Destroy ==
  /\ call = Idle
  /\ \E o \in pool :
       /\ WellFormed(o.value)
       /\ pool' = pool \ {o}
       /\ live' = live \ Destroyed({o.value})
  /\ UNCHANGED <<scratch, call, table, draft, capacity, moved>>

(***************************************************************************)
(* execute_tuple_construction.                                             *)
(***************************************************************************)

Held(n) == {scratch[i].value : i \in 1 .. n}
Emptied(n) == [i \in Positions |-> IF i <= n THEN NoOwner ELSE scratch[i]]

\* What an earlier call left in the scratch is destroyed, unless it is no sound
\* value, or its validation is refused: then the call fails and leaves it there.
BeginExecute ==
  /\ call = Idle /\ Cardinality(pool) < PoolSize
  /\ \E n \in 0 .. Width :
       /\ \A v \in Held(n) : v.claimed => WellFormed(v)
       /\ live' = live \ Destroyed(Held(n))
       /\ scratch' = Emptied(n)
       /\ call' = [stage |-> "producing", by |-> "execute", width |-> n, done |-> 0]
  /\ UNCHANGED <<pool, table, draft, capacity, moved>>

\* The callback returns a literal, or one of the caller's values, and it is sound.
Produce ==
  /\ call.stage = "producing" /\ call.done < call.width
  /\ \E o \in pool \cup {Holding(v) : v \in Literals} :
       /\ WellFormed(o.value)
       /\ scratch' = [scratch EXCEPT ![call.done + 1] = o]
       /\ pool' = pool \ {o}
       /\ live' = live \cup Elements(OwnedBy(o.value))
  /\ call' = [call EXCEPT !.done = @ + 1]
  /\ UNCHANGED <<table, draft, capacity, moved>>

\* The callback fails, with no value or with a sound one, which is destroyed.
\* Then release_completed, as below.
CallbackFails ==
  /\ call.stage = "producing" /\ call.done < call.width
  /\ \E gone \in {{}} \cup {{o} : o \in {p \in pool : WellFormed(p.value)}} :
       /\ pool' = pool \ gone
       /\ live' = live \ (Destroyed(Held(call.done)) \cup Destroyed({o.value : o \in gone}))
  /\ scratch' = Emptied(call.done + 1)
  /\ call' = Idle
  /\ UNCHANGED <<table, draft, capacity, moved>>

\* What a callback may return that its call keeps: an owner validate_value
\* refuses, or a tuple, for validating a tuple takes memory the host may refuse.
Refusable == {Holding(v) : v \in Broken} \cup {o \in pool : o.value.container = "tuple"}

\* A value whose validation failed is not destroyed: the call leaves it in the
\* caller's scratch, whether the callback had failed or not.
OwnerKept ==
  /\ call.stage = "producing" /\ call.done < call.width
  /\ \E kept \in Refusable :
       /\ pool' = pool \ {kept}
       /\ scratch' = [Emptied(call.done) EXCEPT ![call.done + 1] = kept]
       /\ live' = (live \ Destroyed(Held(call.done))) \cup Elements(OwnedBy(kept.value))
  /\ call' = Idle
  /\ UNCHANGED <<table, draft, capacity, moved>>

BeginMake ==
  /\ call.stage = "producing" /\ call.done = call.width
  /\ call' = [call EXCEPT !.stage = "making", !.done = 0]
  /\ UNCHANGED <<pool, scratch, live, table, draft, capacity, moved>>

(***************************************************************************)
(* make_tuple_value.  The evaluator calls it on values it has taken out of *)
(* its slots (tuple_arguments), which are its own again when it fails.     *)
(***************************************************************************)

CallMake ==
  /\ call = Idle /\ \A v \in Held(Width) : ~v.claimed
  /\ \E n \in {k \in 0 .. Width : k > 0 \/ Room} :
     \E taken \in {f \in [1 .. n -> pool] : \A i, j \in 1 .. n : i # j => f[i] # f[j]} :
       /\ scratch' = [i \in Positions |-> IF i <= n THEN taken[i] ELSE NoOwner]
       /\ pool' = pool \ {taken[i] : i \in 1 .. n}
       /\ call' = [stage |-> "making", by |-> "caller", width |-> n, done |-> 0]
  /\ UNCHANGED <<live, table, draft, capacity, moved>>

\* Both callers after a failure: the elements were not touched.
MakeFails(freed) ==
  /\ IF call.by = "execute"
     THEN /\ live' = live \ (freed \cup Destroyed(Held(call.width)))
          /\ pool' = pool
     ELSE /\ live' = live \ freed
          /\ pool' = pool \cup {scratch[i] : i \in 1 .. call.width}
  /\ scratch' = Emptied(call.width)
  /\ call' = Idle
  /\ table' = NoPayload
  /\ UNCHANGED <<draft, capacity, moved>>

\* The table of the root: no storage for an empty tuple.
NewTables(n) == IF n = 0 THEN {NoPayload} ELSE {Payload(s, n) : s \in Free}

Admitted(n) ==
  /\ table' \in NewTables(n)
  /\ live' = live \cup ({table'.storage} \ {0})

\* Every element was validated before.
ReserveTable ==
  /\ call.stage = "making"
  /\ \A v \in Held(call.width) : WellFormed(v)
  /\ Admitted(call.width)
  /\ call' = [call EXCEPT !.stage = "reserved"]
  /\ UNCHANGED <<pool, scratch, draft, capacity, moved>>

\* The table is refused, or an element, or the memory to validate one.
TableRefused == call.stage = "making" /\ MakeFails({})

\* Mutant: the table is not given back when an array is refused.
ArraysRefused_TableKept == call.stage = "reserved" /\ MakeFails({})

\* metadata_failure: the table goes back; nothing has been moved yet.
ArraysRefused ==
  /\ call.stage = "reserved"
  /\ MakeFails({table.storage})

ArraysAllocated ==
  /\ call.stage = "reserved"
  /\ call' = [call EXCEPT !.stage = "moving"]
  /\ draft' = NoDraft
  /\ UNCHANGED <<pool, scratch, live, table, capacity, moved>>

\* make_tuple_value clears the payload index of a scalar node;
\* publish_preadmitted_tuple leaves the payload cursor in it.
IdlePayload ==
  IF call.stage = "publishing" THEN Len(draft.tuple.vector_payloads) ELSE 0

\* The next element; what it owned is the arena's, and it is unclaimed.
MoveIn ==
  /\ call.stage \in {"moving", "publishing"} /\ call.done < call.width
  /\ draft' = MoveElement(draft, scratch[call.done + 1].value, IdlePayload)
  /\ scratch' = [scratch EXCEPT ![call.done + 1].value = Unclaimed]
  /\ call' = [call EXCEPT !.done = @ + 1]
  /\ UNCHANGED <<pool, live, table, capacity, moved>>

\* The new tuple stands for the tree of its elements' trees.
Deliver(tuple) ==
  /\ pool' = pool \cup {Owner(TupleValue(tuple),
                              TupleTree(table, [i \in 1 .. call.width |-> scratch[i].tree]))}
  /\ scratch' = Emptied(call.width)
  /\ draft' = NoDraft
  /\ table' = NoPayload
  /\ call' = Idle

Made ==
  /\ call.stage = "moving" /\ call.done = call.width
  /\ Deliver(CloseTuple(draft, table))
  /\ UNCHANGED <<live, capacity, moved>>

(***************************************************************************)
(* A preadmitted assembly: the evaluator's fan-outs.                       *)
(***************************************************************************)

\* preadmitted_value_counts.
CountsOf(value) ==
  LET t == value.tuple IN
  IF value.container # "tuple"
  THEN Counts(1, 0, IF value.container = "vector" THEN 1 ELSE 0, 0)
  ELSE Counts(Len(t.nodes) + 1, Len(t.child_indexes), Len(t.vector_payloads),
              Len(t.reservations) + 1)

\* preadmitted_value_layout_safe: indexes may be followed without a test.
LayoutSafe(value) ==
  LET t == value.tuple
      Range(first, count) == first + count <= Len(t.child_indexes)
  IN  /\ value.claimed
      /\ value.container # "vector" => value.vector = NoPayload
      /\ value.container # "tuple" => t = NoTuple
      /\ value.container = "tuple" =>
           /\ t.root_index = Len(t.nodes)
           /\ \A n \in 0 .. Len(t.nodes) :
                LET node == NodeAt(t, n) IN
                CASE node.container = "tuple" ->
                       /\ Range(node.first_child, node.child_count)
                       /\ n < Len(t.nodes) =>
                            node.tuple_reservation_index < Len(t.reservations)
                       /\ \A k \in 1 .. node.child_count :
                            At(t.child_indexes, node.first_child + k - 1) < n
                  [] node.container = "vector" ->
                       node.vector_payload_index < Len(t.vector_payloads)
                  [] OTHER -> TRUE

\* What a fan-out's branches will bring, as their types tell: a scalar, a
\* vector, an empty tuple, or a tuple of a scalar and a vector.
Planned ==
  {Counts(1, 0, 0, 0), Counts(1, 0, 1, 0), Counts(1, 0, 0, 1), Counts(3, 2, 1, 1)}

Preadmit ==
  /\ call = Idle /\ Room /\ \A v \in Held(Width) : ~v.claimed
  /\ \E n \in 0 .. Width : \E plan \in [1 .. n -> Planned] :
       /\ Admitted(n)
       /\ capacity' = Total(plan, n)
       /\ call' = [stage |-> "assembling", by |-> "caller", width |-> n, done |-> 0]
  /\ moved' = NoCounts
  /\ UNCHANGED <<pool, scratch, draft>>

Fits(value) == LayoutSafe(value) /\ Within(Plus(moved, CountsOf(value)), capacity)

\* transfer_preadmitted_tuple_element; refused, it leaves the element alone.
Transfer ==
  /\ call.stage = "assembling" /\ call.done < call.width
  /\ \E o \in pool :
       /\ Fits(o.value)
       /\ scratch' = [scratch EXCEPT ![call.done + 1] = o]
       /\ pool' = pool \ {o}
       /\ moved' = Plus(moved, CountsOf(o.value))
  /\ call' = [call EXCEPT !.done = @ + 1]
  /\ UNCHANGED <<live, table, draft, capacity>>

\* Meanwhile the branches run.
Branch ==
  /\ call.stage = "assembling" /\ Room
  /\ \E v \in Literals :
       /\ pool' = pool \cup {Holding(v)}
       /\ live' = live \cup Elements(OwnedBy(v))
  /\ UNCHANGED <<scratch, call, table, draft, capacity, moved>>

\* What the slots really hold.
Recount == Total([i \in 1 .. call.width |-> CountsOf(scratch[i].value)], call.width)

\* publish_preadmitted_tuple begins: every slot taken, every array full.
Complete == call.done = call.width /\ moved = capacity /\ Recount = capacity

BeginPublish ==
  /\ call.stage = "assembling" /\ Complete
  /\ call' = [call EXCEPT !.stage = "publishing", !.done = 0]
  /\ UNCHANGED <<pool, scratch, live, table, draft, capacity, moved>>

\* What preadmission filled the arrays with, where nothing was written over it.
Filler(n, used, blank) == [i \in 1 .. n - used |-> blank]

\* The arrays have the sizes they were given; the root's edges end theirs.
Published(t) ==
  LET d == draft.tuple IN
  [t EXCEPT
     !.nodes = d.nodes \o Filler(capacity.nodes, Len(d.nodes), Node("scalar", Blank, 0, 0, 0, 0)),
     !.child_indexes = d.child_indexes \o Filler(capacity.edges, Len(d.child_indexes), 0) \o draft.roots,
     !.vector_payloads = d.vector_payloads
                           \o Filler(capacity.payloads, Len(d.vector_payloads), NoPayload),
     !.reservations = d.reservations
                        \o Filler(capacity.tables, Len(d.reservations), NoPayload),
     !.first_child = capacity.edges,
     !.root_index = capacity.nodes]

Publish ==
  /\ call.stage = "publishing" /\ call.done = call.width
  /\ Deliver(Published(CloseTuple(draft, table)))
  /\ capacity' = NoCounts
  /\ moved' = NoCounts
  /\ UNCHANGED live

\* release_preadmitted_tuple_assembly: after a refusal, or any other failure
\* of the program; the slots filled so far, then the table.
Abandon ==
  /\ call.stage = "assembling"
  /\ live' = live \ ({table.storage} \cup Destroyed(Held(call.done)))
  /\ scratch' = Emptied(call.width)
  /\ table' = NoPayload
  /\ capacity' = NoCounts
  /\ moved' = NoCounts
  /\ call' = Idle
  /\ UNCHANGED <<pool, draft>>

Next ==
  \/ Literal \/ Destroy
  \/ BeginExecute \/ Produce \/ CallbackFails \/ OwnerKept \/ BeginMake
  \/ CallMake \/ ReserveTable \/ TableRefused \/ ArraysRefused \/ ArraysAllocated
  \/ MoveIn \/ Made
  \/ Preadmit \/ Transfer \/ Branch \/ BeginPublish \/ Publish \/ Abandon

Spec == Init /\ [][Next]_vars

(***************************************************************************)
(* Properties.                                                             *)
(***************************************************************************)

\* Everything that may own storage at this moment, and what it owns.
Owners ==
  {<<"pool", o>> : o \in pool} \cup {<<"scratch", i>> : i \in Positions} \cup {<<"call", 0>>}

Owned(x) ==
  CASE x[1] = "pool" -> OwnedBy(x[2].value)
    [] x[1] = "scratch" -> OwnedBy(scratch[x[2]].value)
    [] OTHER -> Storages(draft.tuple) \o <<table.storage>>

\* After a call the scratch owns nothing, but for a callback's value that was
\* not destroyed because it could not be validated.
LeftBehind(v) == v.claimed => v.container = "tuple" \/ ~WellFormed(v)
ScratchIsEmpty == call = Idle => \A v \in Held(Width) : LeftBehind(v)

\* At every moment, half-way through a move included, each storage that is not
\* freed has exactly one owner, and nothing owns a freed one: no refusal, failing
\* callback or abandoned assembly leaks a vector or a table or frees one twice.
\* A call that has returned leaves nothing in the scratch but a value whose
\* validation failed: an owner that is no value, or a tuple the host had no memory
\* to validate.
OneOwner ==
  /\ live = UNION {Elements(Owned(x)) : x \in Owners}
  /\ \A x \in Owners : Distinct(Owned(x))
  /\ \A x, y \in Owners : x # y => Elements(Owned(x)) \cap Elements(Owned(y)) = {}
  /\ ScratchIsEmpty

\* Filling a preadmitted assembly writes to its arrays unchecked: it stays
\* inside them.
CursorsInRange ==
  call.stage = "publishing" =>
    Within(Counts(Len(draft.tuple.nodes), Len(draft.tuple.child_indexes),
                  Len(draft.tuple.vector_payloads), Len(draft.tuple.reservations)),
           capacity)

\* A value but for the payload indexes of its scalar nodes.
ScalarsCleared(value) ==
  [value EXCEPT !.tuple.nodes =
     [k \in DOMAIN @ |-> IF @[k].container = "scalar"
                         THEN [@[k] EXCEPT !.vector_payload_index = 0] ELSE @[k]]]

\* In the order of the arena a scalar comes after a vector.
ScalarAfterVector(value) ==
  LET nodes == value.tuple.nodes IN
  \E i, j \in DOMAIN nodes :
    i < j /\ nodes[i].container = "vector" /\ nodes[j].container = "scalar"

\* However a tuple was put together, the arena it is moved into is large enough,
\* every offset, range and index is renumbered, and it reads back as the tree of
\* the elements it was made of, in order, with their own storages and tables at
\* every depth.  It is one validate_value accepts, but for the payload index that
\* a published scalar node keeps, and then only where it comes after a vector.
TreeKept ==
  /\ CursorsInRange
  /\ \A o \in pool :
       /\ TreeOf(o.value) = o.tree
       /\ \/ WellFormed(o.value)
          \/ ScalarAfterVector(o.value) /\ WellFormed(ScalarsCleared(o.value))
=============================================================================
