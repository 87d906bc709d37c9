---------------------------- MODULE NativeRuntime ----------------------------
(***************************************************************************)
(* The runtime of a generated program (src/src/rewrite_c_runtime.cpp), as  *)
(* bennu_execute calls it.  Every value of the program is a BennuValue     *)
(* cell: one of the static array bennu_values, or one of a tuple's table.  *)
(* A cell holds raw pointers: to the payload or table it owns and, inside  *)
(* a table, to the cell of the tuple around it.  Validation, printing and  *)
(* bennu_release are loops that follow these pointers with no stack; one   *)
(* step is one iteration.                                                  *)
(*                                                                         *)
(*   setup     what the program uses, and the profile: its limits and the  *)
(*             ordinal made to fail, each a set of at most one number      *)
(*   memory    the cells that exist: <<0, s>> is bennu_values[s], and      *)
(*             <<b, k>> is cell k of the table that allocation b is        *)
(*   live      the allocations not yet freed, by their ordinals, from 1    *)
(*   usage     live_bytes, work_units and reservation_ordinal              *)
(*   failure   the first failure and its context                           *)
(*   provenance  whether resources holds where a spread operand came from  *)
(*   written   the slots the program has written                           *)
(*   spreading  whether the call made last spreads a tuple                 *)
(*   phase, outcome   where bennu_execute is, and how it leaves            *)
(*   at, stage, slot  the cell a walk is at, whether the walk enters or    *)
(*             leaves it, and the slot the walk or the loop is about       *)
(*   output    what stdout has taken, one item per call of fputs           *)
(*   reported  what went to stderr                                         *)
(*                                                                         *)
(* The payload of a vector and the value of a scalar are the number of the *)
(* slot that first held them.                                              *)
(***************************************************************************)
EXTENDS Integers, Sequences, FiniteSets, FiniteSetsExt, SequencesExt

CONSTANTS Width,     \* the most elements of a tuple
          SizeMax,   \* SIZE_MAX
          Setups     \* the programs, by what they use, and configurations

\* A program has slots (the length of bennu_values), vectors of some lengths
\* and atoms of some types; a limit is one number or not set.
ASSUME RuntimeAssumption ==
  /\ Width \in Nat \ {0} /\ SizeMax \in Nat
  /\ Setups \subseteq [slots : Nat \ {0}, counts : SUBSET Nat,
                       types : SUBSET {"Bool", "Int"},
                       limits : [vector : SUBSET Nat, live : SUBSET Nat, work : SUBSET Nat,
                                 tuple : SUBSET Nat, fail_at : SUBSET Nat]]
  /\ \A s \in Setups : \A limit \in {"vector", "live", "work", "tuple"} :
       \A m, n \in s.limits[limit] : m = n

VARIABLES setup, memory, live, usage, failure, provenance, written, spreading,
          phase, outcome, at, stage, slot, output, reported

control == <<phase, outcome, at, stage, slot>>
vars == <<setup, memory, live, usage, failure, provenance, written, spreading,
          control, output, reported>>

Slots == setup.slots
Counts == setup.counts
Types == setup.types
limits == setup.limits

NULL == <<>>
Slot(s) == <<0, s>>

Cell(container, type, count, value, data) ==
  [container |-> container, type |-> type, count |-> count, value |-> value,
   data |-> data, parent |-> NULL, parent_index |-> 0, cleanup_index |-> 0]

Zero == Cell("none", "none", 0, 0, 0)
ScalarCell(type, value) == Cell("scalar", type, 1, value, 0)

SlotBytes == 16
ByteWidth(type) == IF type = "Bool" THEN 1 ELSE 8
Bytes(c) ==
  CASE c.container = "vector" -> c.count * ByteWidth(c.type)
    [] c.container = "tuple" -> c.count * SlotBytes
    [] OTHER -> 0

NoFailure ==
  [kind |-> "none", point |-> "none", elements |-> {}, bytes |-> {}, limit |-> "none",
   configured |-> 0, before |-> 0, charge |-> 0, index |-> {}]

Init ==
  /\ setup \in Setups
  /\ memory = [a \in {Slot(s) : s \in 1 .. Slots} |-> Zero]
  /\ live = {}
  /\ usage = [live_bytes |-> 0, work_units |-> 0, ordinal |-> 1]
  /\ failure = NoFailure /\ provenance = FALSE
  /\ written = {} /\ spreading = FALSE
  /\ phase = "running" /\ outcome = "none"
  /\ at = NULL /\ stage = "enter" /\ slot = 0
  /\ output = <<>>
  /\ reported = "nothing"

(***************************************************************************)
(* Admission.  A verdict names what refuses a request, "none" if nothing   *)
(* does.                                                                   *)
(***************************************************************************)

Exceeds(n, limit) == \E m \in limit : n > m

\* bennu_charge_work
WorkVerdict(u, work) ==
  IF work > SizeMax - u.work_units THEN "size"
  ELSE IF Exceeds(u.work_units + work, limits.work) THEN "max_work_units"
  ELSE "none"

\* Mutant: the live limit is tested before the limit on the vector itself.
VectorVerdict_LiveFirst(u, type, count, work) ==
  LET bytes == count * ByteWidth(type) IN
  IF count > SizeMax \div ByteWidth(type) THEN "size"
  ELSE IF work > SizeMax - u.work_units \/ bytes > SizeMax - u.live_bytes THEN "size"
  ELSE IF Exceeds(u.live_bytes + bytes, limits.live) THEN "max_live_evaluation_bytes"
  ELSE IF Exceeds(bytes, limits.vector) THEN "max_vector_bytes"
  ELSE IF Exceeds(u.work_units + work, limits.work) THEN "max_work_units"
  ELSE "none"

\* bennu_allocate, before it allocates
VectorVerdict(u, type, count, work) ==
  LET bytes == count * ByteWidth(type) IN
  IF count > SizeMax \div ByteWidth(type) THEN "size"
  ELSE IF work > SizeMax - u.work_units \/ bytes > SizeMax - u.live_bytes THEN "size"
  ELSE IF Exceeds(bytes, limits.vector) THEN "max_vector_bytes"
  ELSE IF Exceeds(u.live_bytes + bytes, limits.live) THEN "max_live_evaluation_bytes"
  ELSE IF Exceeds(u.work_units + work, limits.work) THEN "max_work_units"
  ELSE "none"

\* bennu_tuple, before it allocates
TableVerdict(u, count) ==
  LET bytes == count * SlotBytes IN
  IF count > SizeMax \div SlotBytes THEN "size"
  ELSE IF bytes > SizeMax - u.live_bytes THEN "size"
  ELSE IF Exceeds(bytes, limits.tuple) THEN "max_tuple_table_bytes"
  ELSE IF Exceeds(u.live_bytes + bytes, limits.live) THEN "max_live_evaluation_bytes"
  ELSE "none"

\* The injected failure; malloc's own is a choice of the action.
Injected(u) == u.ordinal \in limits.fail_at

ConfiguredLimit(verdict) ==
  CASE verdict = "max_vector_bytes" -> limits.vector
    [] verdict = "max_live_evaluation_bytes" -> limits.live
    [] verdict = "max_work_units" -> limits.work
    [] verdict = "max_tuple_table_bytes" -> limits.tuple

\* Mutant: no usage before is reported for the live limit.
UsageBefore_WorkOnly(verdict) == IF verdict = "max_work_units" THEN usage.work_units ELSE 0

UsageBefore(verdict) ==
  CASE verdict = "max_live_evaluation_bytes" -> usage.live_bytes
    [] verdict = "max_work_units" -> usage.work_units
    [] OTHER -> 0

\* bennu_set_resource_failure and bennu_set_profile_failure: the first failure
\* stays; elements and bytes are {} when they are not known.
Refusal(verdict, point, elements, bytes, charge) ==
  IF failure.kind # "none" THEN failure
  ELSE IF verdict \in {"size", "allocation"}
  THEN [NoFailure EXCEPT !.kind = verdict, !.point = point, !.elements = elements,
                         !.bytes = bytes]
  ELSE [NoFailure EXCEPT !.kind = "profile", !.point = point, !.elements = elements,
                         !.bytes = bytes, !.limit = verdict,
                         !.configured = Max(ConfiguredLimit(verdict)),
                         !.before = UsageBefore(verdict), !.charge = charge]

\* goto bennu_failure
Fail(f) ==
  /\ failure' = f
  /\ phase' = "cleaning" /\ outcome' = "failed" /\ slot' = Slots
  /\ UNCHANGED <<at, stage>>

Succeed == UNCHANGED <<failure, control>>

(***************************************************************************)
(* The calls a generated program makes.  Slots are written once, in their  *)
(* order, but a fan-out's is written when its operand is done: before      *)
(* those of its branches, which are lower.                                 *)
(***************************************************************************)

Unwritten == (1 .. Slots) \ written
Fresh == Min(Unwritten)
Container(s) == memory[Slot(s)].container

\* A tuple whose every cell has been filled.
Complete(s) ==
  LET c == memory[Slot(s)] IN
  c.container # "none" /\ (c.container = "tuple" => c.cleanup_index = c.count)

Writes(s, spread) ==
  /\ phase = "running"
  /\ s \in Unwritten
  /\ written' = written \cup {s}
  /\ spreading' = spread

\* Mutant: a spread call that succeeds leaves the provenance it prepared.
Wrapped_NotCleared(spread) == provenance' = (provenance \/ (spread /\ failure.kind = "none"))

\* What bennu_apply_spread and bennu_require_spread_shape do around the call
\* they make: bennu_prepare_spread_provenance, unless something has failed, and
\* bennu_clear_spread_provenance if the call succeeds.
Wrapped(spread) ==
  provenance' = IF spread /\ phase' = "running" THEN FALSE
                ELSE provenance \/ (spread /\ failure.kind = "none")

\* setlocale, before the program's first value.
LocaleRefused ==
  /\ phase = "running" /\ written = {}
  /\ Fail([NoFailure EXCEPT !.kind = "internal"])
  /\ spreading' = FALSE
  /\ UNCHANGED <<memory, live, setup, usage, provenance, written, output, reported>>

Scalar(type) ==
  /\ Unwritten # {} /\ Writes(Fresh, FALSE)
  /\ memory' = [memory EXCEPT ![Slot(Fresh)] = ScalarCell(type, Fresh)]
  /\ Succeed
  /\ UNCHANGED <<live, setup, usage, provenance, output, reported>>

\* The ordinal is spent on an allocation that fails, nothing else.
RefusedByHost(bytes, work) == [usage EXCEPT !.ordinal = @ + 1]

\* bennu_allocate, into slot s
Allocate(s, type, count, work, point) ==
  LET verdict == VectorVerdict(usage, type, count, work)
      bytes == count * ByteWidth(type)
      known == IF count > SizeMax \div ByteWidth(type) THEN {} ELSE {bytes}
      charge == IF verdict = "max_work_units" THEN work ELSE bytes
      charged == [usage EXCEPT !.live_bytes = @ + bytes, !.work_units = @ + work]
  IN  IF verdict # "none"
      THEN /\ Fail(Refusal(verdict, point, {count}, known, charge))
           /\ UNCHANGED <<memory, live, usage>>
      ELSE \/ /\ bytes # 0
              /\ Fail(Refusal("allocation", point, {count}, {bytes}, 0))
              /\ usage' = RefusedByHost(bytes, work)
              /\ UNCHANGED <<memory, live>>
           \/ LET block == IF bytes = 0 THEN 0 ELSE usage.ordinal IN
              /\ bytes = 0 \/ ~Injected(usage)
              /\ usage' = [charged EXCEPT !.ordinal = IF bytes = 0 THEN @ ELSE @ + 1]
              /\ live' = live \cup ({block} \ {0})
              /\ memory' = [memory EXCEPT ![Slot(s)] = Cell("vector", type, count, s, block)]
              /\ Succeed

Literal(type, count) ==
  /\ Unwritten # {} /\ Writes(Fresh, FALSE)
  /\ Allocate(Fresh, type, count, 0, "vector-literal")
  /\ UNCHANGED <<setup, provenance, output, reported>>

\* The cells a call reads: slots, or the elements of the tuple it spreads.
Elements(a) == [k \in 1 .. memory[a].count |-> <<memory[a].data, k - 1>>]

Operands(spread) ==
  IF spread
  THEN {Elements(Slot(t)) : t \in {t \in written : Container(t) = "tuple" /\ Complete(t)}}
  ELSE UNION {[1 .. n -> {Slot(s) : s \in {t \in written : Complete(t)}}] : n \in {1, 2}}

\* Typing leaves no tuple among the operands.
Atoms(cells) == Len(cells) \in {1, 2} /\ \A k \in DOMAIN cells :
                   memory[cells[k]].container \in {"scalar", "vector"}
VectorsAmong(cells) == {k \in DOMAIN cells : memory[cells[k]].container = "vector"}

\* bennu_require_shape and bennu_require_spread_shape, before a call of two
\* operands: operand k must have the length of the other one.  A placeholder
\* among slots stands with its own, which holds a scalar; the elements of a
\* table are the values themselves, and vectors.
RequireShape(cells, k, spread) ==
  LET argument == memory[cells[k]]
      expected == memory[cells[3 - k]].count
  IN  /\ phase = "running" /\ spreading' = spread
      /\ Len(cells) = 2 /\ Atoms(cells)
      /\ spread => VectorsAmong(cells) = {1, 2}
      /\ \/ /\ argument.container # "vector"
            /\ Fail([NoFailure EXCEPT !.kind = "internal"])
         \/ /\ argument.container = "vector" /\ argument.count = expected
            /\ Succeed
         \/ /\ argument.container = "vector" /\ argument.count # expected
            /\ Fail([NoFailure EXCEPT !.kind = "shape", !.point = "apply",
                       !.configured = expected, !.before = argument.count, !.charge = k])
      /\ Wrapped(spread)
      /\ UNCHANGED <<memory, live, setup, usage, written, output, reported>>

DomainFailure(index) ==
  [NoFailure EXCEPT !.kind = "domain", !.point = "apply", !.index = index]

\* The scalar branch of bennu_apply.
ApplyScalar(s, type) ==
  LET verdict == WorkVerdict(usage, 1) IN
  IF verdict # "none"
  THEN /\ Fail(Refusal(verdict, "apply", {}, {}, 1))
       /\ UNCHANGED <<memory, live, usage>>
  ELSE /\ usage' = [usage EXCEPT !.work_units = @ + 1]
       /\ \/ /\ memory' = [memory EXCEPT ![Slot(s)] = ScalarCell(type, s)]
             /\ Succeed
          \/ /\ type = "Int"
             /\ Fail(DomainFailure({}))
             /\ UNCHANGED memory
       /\ UNCHANGED live

\* The kernel refuses an element after the result is allocated: the result is
\* released at once, the work stays charged.
KernelFails(s, type, count, index) ==
  /\ VectorVerdict(usage, type, count, count) = "none" /\ ~Injected(usage)
  /\ usage' = [usage EXCEPT !.work_units = @ + count, !.ordinal = @ + 1]
  /\ Fail(DomainFailure({index}))
  /\ UNCHANGED <<memory, live>>

\* A vector shorter than the last one is read past its end: if that does not
\* end the process, what is read is any number.
ReadPastEnd(cells, type, count) ==
  /\ VectorVerdict(usage, type, count, count) = "none" /\ ~Injected(usage)
  /\ \E k \in VectorsAmong(cells) : memory[cells[k]].count < count
  /\ phase' = "crashed"
  /\ UNCHANGED <<memory, live, usage, failure, outcome, at, stage, slot>>

\* bennu_apply or bennu_apply_spread, whose result is as long as the last
\* vector.  The kernel of a Bool primitive never fails.
Apply(cells, type, spread) ==
  /\ Unwritten # {} /\ Writes(Fresh, spread)
  /\ Atoms(cells)
  /\ LET vectors == VectorsAmong(cells)
         count == memory[cells[Max(vectors)]].count
     IN  IF vectors = {} THEN ApplyScalar(Fresh, type)
         ELSE \/ Allocate(Fresh, type, count, count, "apply")
              \/ type = "Int" /\ \E index \in 0 .. count - 1 :
                   KernelFails(Fresh, type, count, index)
              \/ ReadPastEnd(cells, type, count)
  /\ Wrapped(spread)
  /\ UNCHANGED <<setup, output, reported>>

\* The first branch of bennu_apply: the count is the operand's integer, which
\* is zero in a vector.
Iota(cells, count, spread) ==
  /\ Unwritten # {} /\ Writes(Fresh, spread)
  /\ Len(cells) = 1 /\ Atoms(cells) /\ memory[cells[1]].type = "Int"
  /\ VectorsAmong(cells) # {} => count = 0
  /\ Allocate(Fresh, "Int", count, count, "iota")
  /\ Wrapped(spread)
  /\ UNCHANGED <<setup, output, reported>>

(***************************************************************************)
(* Tuples.                                                                 *)
(***************************************************************************)

NestedCells(c) == {<<c.data, k>> : k \in IF c.container = "tuple" THEN 0 .. c.count - 1 ELSE {}}

\* Mutant: the elements of a nested tuple keep pointing at the old cell.
Placed_StaleParents(m, c, a, p, k) ==
  [x \in DOMAIN m \cup {a} |->
     IF x = a THEN [c EXCEPT !.parent = p, !.parent_index = k] ELSE m[x]]

\* The body of the loop of bennu_tuple, and bennu_tuple_transfer: cell c is
\* copied to address a, element k of the tuple at p, and the elements it has
\* itself are pointed at its new address.
Placed(m, c, a, p, k) ==
  [x \in DOMAIN m \cup {a} |->
     IF x = a THEN [c EXCEPT !.parent = p, !.parent_index = k]
     ELSE IF x \in NestedCells(c) THEN [m[x] EXCEPT !.parent = a, !.parent_index = x[2]]
     ELSE m[x]]

\* The table of the tuple at p, filled with cells in order.
Filled(m, p, block, cells) ==
  LET fill[k \in 0 .. Len(cells)] ==
        IF k = 0 THEN m ELSE Placed(fill[k - 1], cells[k], <<block, k - 1>>, p, k - 1)
  IN  fill[Len(cells)]

\* bennu_tuple.  sources are the slots emptied, cells what goes into the table.
MakeTuple(s, cells, sources, cleanup, point) ==
  LET count == Len(cells)
      bytes == count * SlotBytes
      verdict == TableVerdict(usage, count)
      known == IF count > SizeMax \div SlotBytes THEN {} ELSE {bytes}
      block == IF count = 0 THEN 0 ELSE usage.ordinal
      tuple == [Cell("tuple", "none", count, 0, block) EXCEPT !.cleanup_index = cleanup]
  IN  IF verdict # "none"
      THEN /\ Fail(Refusal(verdict, point, {count}, known, bytes))
           /\ UNCHANGED <<memory, live, usage>>
      ELSE \/ /\ count # 0
              /\ Fail(Refusal("allocation", point, {count}, {bytes}, 0))
              /\ usage' = RefusedByHost(bytes, 0)
              /\ UNCHANGED <<memory, live>>
           \/ /\ count = 0 \/ ~Injected(usage)
              /\ usage' = [usage EXCEPT !.live_bytes = @ + bytes,
                                        !.ordinal = IF count = 0 THEN @ ELSE @ + 1]
              /\ live' = live \cup ({block} \ {0})
              /\ LET table == Filled([memory EXCEPT ![Slot(s)] = tuple], Slot(s), block, cells)
                 IN  memory' = [a \in DOMAIN table |-> IF a \in sources THEN Zero ELSE table[a]]
              /\ Succeed

Tuple(elements) ==
  /\ Unwritten # {} /\ Writes(Fresh, FALSE)
  /\ \A k \in DOMAIN elements : elements[k] \in written /\ Complete(elements[k])
  /\ \A j, k \in DOMAIN elements : j # k => elements[j] # elements[k]
  /\ MakeTuple(Fresh, [k \in DOMAIN elements |-> memory[Slot(elements[k])]],
               {Slot(elements[k]) : k \in DOMAIN elements}, Len(elements), "tuple-literal")
  /\ UNCHANGED <<setup, provenance, output, reported>>

\* bennu_fanout: a table of empty cells, none of them to be cleaned up.
Fanout(s, count) ==
  /\ Writes(s, FALSE)
  /\ MakeTuple(s, [k \in 1 .. count |-> Zero], {}, 0, "fanout")
  /\ UNCHANGED <<setup, provenance, output, reported>>

\* bennu_tuple_transfer: branches are done in order, so the index of the next
\* one is the cleanup index.
Transfer(f, s) ==
  LET c == memory[Slot(f)]
      to == <<c.data, c.cleanup_index>>
  IN  /\ phase = "running"
      /\ f \in written /\ c.container = "tuple" /\ c.cleanup_index < c.count
      /\ s \in written /\ s < f /\ Complete(s)
      /\ memory' = [Placed(memory, memory[Slot(s)], to, Slot(f), c.cleanup_index)
                      EXCEPT ![Slot(f)].cleanup_index = @ + 1, ![Slot(s)] = Zero]
      /\ UNCHANGED <<live, setup, usage, failure, provenance, written, spreading,
                     control, output, reported>>

(***************************************************************************)
(* bennu_release.                                                          *)
(***************************************************************************)

\* The program ends a value it no longer uses.
BeginRelease(s) ==
  /\ phase = "running" /\ s \in written /\ Complete(s)
  /\ phase' = "releasing" /\ at' = Slot(s) /\ slot' = s
  /\ UNCHANGED <<memory, live, setup, usage, failure, provenance, written, spreading, outcome,
                 stage, output, reported>>

Walking == phase \in {"releasing", "cleaning"} /\ at # NULL

\* Into the last element that is still there.
Descend ==
  LET c == memory[at] IN
  /\ Walking
  /\ c.container = "tuple" /\ c.cleanup_index # 0
  /\ memory' = [memory EXCEPT ![at].cleanup_index = @ - 1]
  /\ at' = <<c.data, c.cleanup_index - 1>>
  /\ UNCHANGED <<live, setup, usage, failure, provenance, written, spreading, phase, outcome,
                 stage, slot, output, reported>>

\* The cell gives up what it owns and is cleared; back to the tuple around it.
Freed ==
  LET c == memory[at] IN
  /\ live' = live \ {c.data}
  /\ memory' = [a \in DOMAIN memory \ NestedCells(c) |-> IF a = at THEN Zero ELSE memory[a]]
  /\ usage' = [usage EXCEPT !.live_bytes = IF Bytes(c) <= @ THEN @ - Bytes(c) ELSE @]
  /\ at' = c.parent

Clear ==
  /\ Walking
  /\ ~(memory[at].container = "tuple" /\ memory[at].cleanup_index # 0)
  /\ Freed
  /\ phase' = IF phase = "releasing" /\ at' = NULL THEN "running" ELSE phase
  /\ slot' = IF phase = "releasing" /\ at' = NULL THEN 0 ELSE slot
  /\ UNCHANGED <<setup, failure, provenance, written, spreading, outcome, stage,
                 output, reported>>

(***************************************************************************)
(* Printing the roots: bennu_print_value, which begins with                *)
(* bennu_value_valid.                                                      *)
(***************************************************************************)

Roots == {s \in 1 .. Slots : Container(s) # "none"}
RootsLeft == {s \in Roots : s > slot}

Finish ==
  /\ phase = "running"
  /\ \A s \in Roots : Complete(s)
  /\ phase' = "printing"
  /\ UNCHANGED <<memory, live, setup, usage, failure, provenance, written, spreading, outcome,
                 at, stage, slot, output, reported>>

NextRoot ==
  /\ phase = "printing" /\ at = NULL
  /\ IF RootsLeft = {}
     THEN /\ phase' = "cleaning" /\ outcome' = "ok" /\ slot' = Slots
          /\ UNCHANGED at
     ELSE /\ phase' = "validating" /\ slot' = Min(RootsLeft) /\ at' = Slot(slot')
          /\ UNCHANGED outcome
  /\ stage' = "enter"
  /\ UNCHANGED <<memory, live, setup, usage, failure, provenance, written, spreading,
                 output, reported>>

\* goto bennu_output_failure
OutputFails ==
  /\ phase' = "cleaning" /\ outcome' = "output" /\ slot' = Slots /\ at' = NULL
  /\ UNCHANGED <<stage, output>>

CellValid(a) ==
  LET c == memory[a] IN
  CASE c.container = "scalar" ->
         c.type \in Types /\ c.count = 1 /\ c.data = 0 /\ c.cleanup_index = 0
    [] c.container = "vector" ->
         c.type \in Types /\ (c.count # 0 => c.data # 0) /\ c.cleanup_index = 0
    [] c.container = "tuple" ->
         /\ (c.count = 0) = (c.data = 0)
         /\ c.cleanup_index = c.count
         /\ \A k \in 0 .. c.count - 1 :
              memory[<<c.data, k>>].parent = a /\ memory[<<c.data, k>>].parent_index = k
    [] OTHER -> FALSE

\* The cell after a (its mutant does not advance): the next element of the tuple around it.
HasNext(a) == memory[a].parent_index + 1 < memory[memory[a].parent].count
NextSibling_Same(a) == <<memory[memory[a].parent].data, memory[a].parent_index>>
NextSibling(a) == <<memory[memory[a].parent].data, memory[a].parent_index + 1>>
Enters(a) == memory[a].container = "tuple" /\ memory[a].count # 0

Validate ==
  /\ phase = "validating"
  /\ IF stage = "enter" /\ ~CellValid(at) THEN OutputFails
     ELSE IF stage = "enter" /\ Enters(at)
     THEN at' = <<memory[at].data, 0>> /\ UNCHANGED <<phase, outcome, stage, slot, output>>
     ELSE IF stage = "enter" THEN stage' = "leave" /\ UNCHANGED <<phase, outcome, at, slot, output>>
     ELSE IF memory[at].parent = NULL
     THEN /\ phase' = "printing" /\ at' = Slot(slot) /\ stage' = "enter"
          /\ UNCHANGED <<outcome, slot, output>>
     ELSE IF HasNext(at)
     THEN /\ at' = NextSibling(at) /\ stage' = "enter"
          /\ UNCHANGED <<phase, outcome, slot, output>>
     ELSE at' = memory[at].parent /\ UNCHANGED <<phase, outcome, stage, slot, output>>
  /\ UNCHANGED <<memory, live, setup, usage, failure, provenance, written, spreading,
                 reported>>

Atom(c) == <<c.container, c.type, c.value, c.count>>

\* What the walk writes next; an empty tuple is entered and left at once.
Token ==
  LET c == memory[at] IN
  CASE stage = "enter" -> IF c.container = "tuple" THEN "[" ELSE Atom(c)
    [] stage = "empty" -> "]"
    [] stage = "leave" -> IF c.parent = NULL THEN "newline" ELSE IF HasNext(at) THEN " " ELSE "]"

\* Mutant: the walk leaves an empty tuple as if it had been printed.
AfterToken_NoEmpty ==
  IF stage = "enter" /\ Enters(at) THEN at' = <<memory[at].data, 0>> /\ UNCHANGED stage
  ELSE IF stage \in {"enter", "empty"} THEN stage' = "leave" /\ UNCHANGED at
  ELSE IF memory[at].parent = NULL THEN at' = NULL /\ stage' = "enter"
  ELSE IF HasNext(at) THEN at' = NextSibling(at) /\ stage' = "enter"
  ELSE at' = memory[at].parent /\ UNCHANGED stage

AfterToken ==
  IF stage = "enter" /\ Enters(at) THEN at' = <<memory[at].data, 0>> /\ UNCHANGED stage
  ELSE IF stage = "enter" /\ memory[at].container = "tuple" THEN stage' = "empty" /\ UNCHANGED at
  ELSE IF stage \in {"enter", "empty"} THEN stage' = "leave" /\ UNCHANGED at
  ELSE IF memory[at].parent = NULL THEN at' = NULL /\ stage' = "enter"
  ELSE IF HasNext(at) THEN at' = NextSibling(at) /\ stage' = "enter"
  ELSE at' = memory[at].parent /\ UNCHANGED stage

\* One write; stdout may refuse any of them.
Write ==
  /\ phase = "printing" /\ at # NULL
  /\ \/ /\ output' = Append(output, Token)
        /\ AfterToken
        /\ UNCHANGED <<phase, outcome, slot>>
     \/ OutputFails
  /\ UNCHANGED <<memory, live, setup, usage, failure, provenance, written, spreading,
                 reported>>

(***************************************************************************)
(* The end of bennu_execute: every slot is released, the last first, and   *)
(* what went wrong is reported.                                            *)
(***************************************************************************)

CleanNext ==
  /\ phase = "cleaning" /\ at = NULL /\ slot # 0
  /\ at' = Slot(slot) /\ slot' = slot - 1
  /\ UNCHANGED <<memory, live, setup, usage, failure, provenance, written, spreading, phase,
                 outcome, stage, output, reported>>

\* bennu_failure_context_valid; the spans and the names are never missing.
ContextValid ==
  CASE failure.kind = "profile" -> failure.limit # "none"
    [] failure.kind = "shape" -> failure.configured # failure.before /\ failure.charge # 0
    [] failure.kind = "allocation" -> failure.elements # {} /\ failure.bytes # {}
    [] OTHER -> TRUE

Report ==
  CASE outcome = "failed" ->
         IF failure.kind # "internal" /\ ContextValid THEN failure.kind ELSE "InternalError"
    [] outcome = "output" -> "OutputError"
    [] OTHER -> "nothing"

\* On success the last thing is fflush, whose failure is the exit status.
Exit ==
  /\ phase = "cleaning" /\ at = NULL /\ slot = 0
  /\ phase' = "done"
  /\ reported' = Report
  /\ outcome' \in IF outcome = "ok" THEN {"ok", "flush"} ELSE {outcome}
  /\ UNCHANGED <<memory, live, setup, usage, failure, provenance, written, spreading, at, stage,
                 slot, output>>

Step ==
  \/ LocaleRefused
  \/ \E type \in Types : Scalar(type)
  \/ \E type \in Types, count \in Counts : Literal(type, count)
  \/ \E spread \in BOOLEAN : \E cells \in Operands(spread) :
       \/ \E k \in {1, 2} : RequireShape(cells, k, spread)
       \/ \E type \in Types : Apply(cells, type, spread)
       \/ \E count \in Counts : Iota(cells, count, spread)
  \/ \E n \in 0 .. Width : \E elements \in [1 .. n -> 1 .. Slots] : Tuple(elements)
  \/ \E s \in 1 .. Slots, count \in 1 .. Width : Fanout(s, count)
  \/ \E f, s \in 1 .. Slots : Transfer(f, s)
  \/ \E s \in 1 .. Slots : BeginRelease(s)
  \/ Finish

Walk == Descend \/ Clear \/ NextRoot \/ Validate \/ Write \/ CleanNext \/ Exit

Next == Step \/ Walk

\* The runtime is one thread: a loop it is in goes on.
Spec == Init /\ [][Next]_vars /\ WF_vars(Walk)

(***************************************************************************)
(* Properties.                                                             *)
(***************************************************************************)

Addresses == DOMAIN memory
CellOK(c) ==
  /\ c.container \in {"none", "scalar", "vector", "tuple"}
  /\ c.type \in Types \cup {"none"}
  /\ c.count \in Counts \cup 0 .. Width \cup {1}
  /\ c.value \in 0 .. Slots
  /\ c.data \in Nat
  /\ c.parent \in {NULL} \cup Addresses
  /\ {c.parent_index, c.cleanup_index} \subseteq 0 .. Width

\* The cells have their types, every pointer to a tuple leads to a cell that
\* exists, and so does the walk: no loop of the runtime leaves the memory of
\* the program.
TypeOK ==
  /\ \A a \in Addresses : CellOK(memory[a])
  /\ {Slot(s) : s \in 1 .. Slots} \subseteq Addresses
  /\ live \subseteq 1 .. usage.ordinal
  /\ usage \in [live_bytes : 0 .. SizeMax, work_units : 0 .. SizeMax, ordinal : Nat \ {0}]
  /\ written \subseteq 1 .. Slots
  /\ phase \in {"running", "crashed", "releasing", "validating", "printing", "cleaning", "done"}
  /\ provenance \in BOOLEAN /\ spreading \in BOOLEAN
  /\ outcome \in {"none", "ok", "failed", "output", "flush"}
  /\ at \in {NULL} \cup Addresses
  /\ stage \in {"enter", "empty", "leave"}
  /\ slot \in 0 .. Slots

\* Every allocation is owned by exactly one cell, and no cell owns one that has
\* been freed: nothing is freed twice, lost or read after it is freed, however
\* cells were copied from slot to table and from table to table.
OneOwner ==
  /\ \A b \in live : Cardinality({a \in Addresses : memory[a].data = b}) = 1
  /\ \A a \in Addresses : memory[a].data \in live \cup {0}
  /\ \A a \in Addresses : a[1] \in live \cup {0}

\* An element that a tuple has still to clean up points at the cell the tuple
\* is in now, with its position; bennu_release has no other way back.
ParentsPointBack ==
  \A a \in Addresses :
    LET c == memory[a] IN
    c.container = "tuple" =>
      \A k \in 0 .. c.cleanup_index - 1 :
        memory[<<c.data, k>>].parent = a /\ memory[<<c.data, k>>].parent_index = k

\* The bytes of the payloads and tables that cells own.
OwnedBytes ==
  UNION {{<<memory[a].data, i>> : i \in 1 .. Bytes(memory[a])} : a \in Addresses}

\* live_bytes is what the cells own, at every step of every walk: the guard in
\* bennu_release that keeps it from going below zero never hides an error.
LiveBytesExact == usage.live_bytes = Cardinality(OwnedBytes)

\* When the program ends, however it ends, nothing is left.
NothingLeft ==
  phase = "done" =>
    /\ live = {} /\ usage.live_bytes = 0
    /\ \A a \in Addresses : memory[a] = Zero

\* The memory of the program is sound: typed, owned once, linked the way
\* bennu_release needs it, accounted to the byte, and empty at the end.
HeapSound == TypeOK /\ OneOwner /\ ParentsPointBack /\ LiveBytesExact /\ NothingLeft

\* A failure is reported as what it is: the recorded context is one that
\* bennu_failure_context_valid accepts, so that only a failure recorded as
\* internal is reported as one; a limit named as the reason was exceeded by
\* what is said to have been used and refused, and two lengths named differ.
\* The provenance of a spread operand is there exactly if the call that failed
\* spreads one, and never between the calls of a program that goes on; no
\* shape check of a spread operand is an internal failure.
FailureExplained ==
  /\ phase = "running" => ~provenance
  /\ failure.kind # "none" => provenance = spreading
  /\ failure.kind = "internal" => ~provenance
  /\ failure.kind = "profile" => failure.before + failure.charge > failure.configured
  /\ failure.kind = "shape" => failure.configured # failure.before
  /\ phase = "done" /\ outcome = "failed" =>
       reported = IF failure.kind = "internal" THEN "InternalError" ELSE failure.kind
  /\ reported = "InternalError" => failure.kind = "internal"

\* What stdout has been given is a prefix of the roots' canonical texts, in
\* their order, whole when printing is over; an empty tuple, a tuple moved
\* into another and a completed fan-out print as what they are.
Text(s) ==
  LET text[d \in 0 .. Slots + 1, a \in Addresses] ==
        LET c == memory[a]
            element == [k \in 1 .. c.count |->
                          (IF k = 1 THEN <<>> ELSE <<" ">>) \o text[d - 1, <<c.data, k - 1>>]]
        IN  IF c.container # "tuple" \/ d = 0 THEN <<Atom(c)>>
            ELSE <<"[">> \o FlattenSeq(element) \o <<"]">>
  IN  text[Slots + 1, Slot(s)] \o <<"newline">>

RootsUpTo(s) == SelectSeq([k \in 1 .. s |-> k], LAMBDA k : k \in Roots)
TextUpTo(s) ==
  LET roots == RootsUpTo(s) IN FlattenSeq([k \in DOMAIN roots |-> Text(roots[k])])

PrintsRoots ==
  /\ phase \in {"running", "releasing"} => output = <<>>
  /\ phase \in {"validating", "printing"} => IsPrefix(output, TextUpTo(Slots))
  /\ phase = "printing" /\ at = NULL => output = TextUpTo(slot)
  /\ phase = "cleaning" /\ outcome = "failed" => output = <<>>

\* Each loop ends: the walks over cells, the prints, the cleanup.
LoopsEnd == (phase \in {"releasing", "validating", "printing", "cleaning"})
              ~> (phase \in {"running", "done"})

(***************************************************************************)
(* The interpreter's admission of the same requests, in                    *)
(* src/src/resources.cpp.                                                  *)
(***************************************************************************)

\* preflight
InterpreterPreflight(u, bytes, vector, work) ==
  IF bytes > SizeMax - u.live_bytes \/ work > SizeMax - u.work_units THEN "size"
  ELSE IF vector /\ Exceeds(bytes, limits.vector) THEN "max_vector_bytes"
  ELSE IF Exceeds(u.live_bytes + bytes, limits.live) THEN "max_live_evaluation_bytes"
  ELSE IF Exceeds(u.work_units + work, limits.work) THEN "max_work_units"
  ELSE "none"

InterpreterVector(u, type, count, work) ==
  IF count > SizeMax \div ByteWidth(type) THEN "size"
  ELSE InterpreterPreflight(u, count * ByteWidth(type), TRUE, work)

\* reserve_tuple_table_impl: its own limit comes before preflight.
InterpreterTable(u, count) ==
  IF count > SizeMax \div SlotBytes THEN "size"
  ELSE IF Exceeds(count * SlotBytes, limits.tuple) THEN "max_tuple_table_bytes"
  ELSE InterpreterPreflight(u, count * SlotBytes, FALSE, 0)

Requests == Counts \cup 0 .. Width

\* Every vector the two back ends could be asked for next is admitted, or
\* refused for the same reason, by both; so is every table, as long as live
\* usage stays representable (the interpreter tests the table's own limit
\* before it computes live usage, the runtime after it).
AdmissionsAgree ==
  /\ \A type \in Types, count \in Requests : \A work \in {0, count} :
       VectorVerdict(usage, type, count, work) = InterpreterVector(usage, type, count, work)
  /\ \A count \in Requests :
       usage.live_bytes + count * SlotBytes <= SizeMax =>
         TableVerdict(usage, count) = InterpreterTable(usage, count)

=============================================================================
