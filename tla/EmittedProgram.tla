---------------------------- MODULE EmittedProgram ----------------------------
(***************************************************************************)
(* The C back end of src/src/rewrite.cpp and the runtime it emits          *)
(* (src/src/rewrite_c_runtime.cpp).  The emitter walks the lowered nodes   *)
(* once, counts their uses down, and writes for each node a block of       *)
(* straight-line code with every release at a fixed place; at run time     *)
(* there are no counts, and nothing checks that a slot still holds the     *)
(* value it is read for.                                                   *)
(*                                                                         *)
(*   emit_uses      the emitter's remaining_uses                           *)
(*   code           the block of each node emitted so far                  *)
(*   block, line    the instruction that runs next                         *)
(*   slots          entries of bennu_values that are not zeroed            *)
(*   table          the cells of each tuple's table, 0 for an empty one    *)
(*   cleanup_index  how many cells of it bennu_release will visit          *)
(*   freed          every owner released so far, in order                  *)
(*                                                                         *)
(* An instruction names the slot it writes (a shape check the slot of its  *)
(* call), the slots it reads or moves, and the releases its own failure    *)
(* path performs before it jumps to bennu_failure.                         *)
(***************************************************************************)
EXTENDS FlatProgram

VARIABLES emit_uses, code, block, line, slots, table, cleanup_index, freed,
          native

emittedVars == <<emit_uses, code, block, line, slots, table, cleanup_index,
                 freed, native>>

Instruction(op, node, from, releases) ==
  [op |-> op, node |-> node, from |-> from, releases |-> releases]

Operations == {"store", "literal", "tuple", "fanout", "require", "apply",
               "transfer", "release"}

\* The emitter's and the emitted program's variables have their types.
EmittedTypeOK ==
  /\ emit_uses \in [Nodes -> Nat]
  /\ Len(code) <= Len(program.kind)
  /\ \A b \in DOMAIN code : \A i \in DOMAIN code[b] :
       code[b][i] \in [op : Operations, node : Nodes, from : Seq(Nodes),
                       releases : Seq(Nodes)]
  /\ block \in 1 .. Len(program.kind) + 1
  /\ line \in Nat \ {0}
  /\ slots \subseteq Nodes
  /\ table \in [Nodes -> Seq(Nodes \cup {0})]
  /\ cleanup_index \in [Nodes -> Nat]
  /\ freed \in Seq(Nodes)
  /\ native \in {"emitting", "refused", "executing", "ok", "failed"}

EmittedInit ==
  /\ emit_uses = [n \in Nodes |-> UseCount(n)]
  /\ code = <<>>
  /\ block = 1
  /\ line = 1
  /\ slots = {}
  /\ table = [n \in Nodes |-> <<>>]
  /\ cleanup_index = [n \in Nodes |-> 0]
  /\ freed = <<>>
  /\ native = "emitting"

(***************************************************************************)
(* The emitter.                                                            *)
(***************************************************************************)

Releases(nodes) == [i \in DOMAIN nodes |-> Instruction("release", nodes[i], <<>>, <<>>)]

\* The uses a node's own code accounts for.
UsesEmitted(n, uses) ==
  CASE Kind(n) \in {"call", "tuple"} -> UsesAfter(uses, Args(n))
    [] Kind(n) = "fanout" -> UsesAfter(uses, <<Operand(n)>>)
    [] OTHER -> uses

\* The slots a call reads: those of its arguments' owners.
OwnersRead(n) == [i \in DOMAIN Args(n) |-> OwnerOf(Args(n)[i])]

\* The check of lengths before a call.  It looks at the owner of a tuple it
\* spreads, but at the arguments' own slots otherwise.
ShapeCheck(n, final) ==
  IF RuntimeShapeCheck(n)
  THEN <<Instruction("require", n,
                     IF Spreads(n) THEN OwnersRead(n) ELSE Descending(DynamicArgs(n)),
                     final)>>
  ELSE <<>>

\* Mutant: a failing call jumps to the failure label without its releases.
CallCode_FailsBare(n, final) ==
  ShapeCheck(n, <<>>) \o <<Instruction("apply", n, OwnersRead(n), <<>>)>>
    \o Releases(final)

\* Mutant: a call that reads a fan-out's operand through a placeholder frees
\* the operand.
CallCode_FreesOperand(n, final) ==
  LET owned == [i \in DOMAIN final |-> OwnerOf(final[i])]
  IN  ShapeCheck(n, owned) \o <<Instruction("apply", n, OwnersRead(n), owned)>>
        \o Releases(owned)

\* The check and the call are separate instructions; each has the releases of
\* the call on its failure path, and they follow the call.
CallCode(n, final) ==
  ShapeCheck(n, final) \o <<Instruction("apply", n, OwnersRead(n), final)>>
    \o Releases(final)

\* The code of one node, given the uses left after it.  A tuple literal moves
\* its elements; a completed fan-out only ends its operand.
NodeCode(n, uses) ==
  CASE Kind(n) \in {"scalar", "placeholder"} ->
         <<Instruction("store", n, <<>>, <<>>)>>
    [] Kind(n) = "vector" -> <<Instruction("literal", n, <<>>, <<>>)>>
    [] Kind(n) = "tuple" -> <<Instruction("tuple", n, Args(n), <<>>)>>
    [] Kind(n) = "fanout" -> Releases(FinalUses(uses, <<Operand(n)>>))
    [] Kind(n) = "call" -> CallCode(n, FinalUses(uses, Args(n)))

\* A branch root moves into its fan-out's table, at its position.
TransferCode(n) ==
  LET moves == BranchPositions(n)
  IN  IF moves = {} THEN <<>>
      ELSE LET e == CHOOSE e \in moves : TRUE
           IN  <<Instruction("transfer", e[1], <<n>>, <<>>)>>

\* A value nobody uses is released as soon as it exists.
UnusedCode(n) ==
  IF UseCount(n) = 0 /\ ~RetainedRoot(n) THEN Releases(<<n>>) ELSE <<>>

\* The result tables of the fan-outs that node n is the operand of.
AdmissionCode(n) ==
  LET order == Reverse(Descending(AdmittedBefore(n + 1)))
  IN  [i \in DOMAIN order |-> Instruction("fanout", order[i], <<>>, <<>>)]

EmitNode ==
  LET n == Len(code) + 1
      uses == UsesEmitted(n, emit_uses)
  IN  /\ native = "emitting"
      /\ n \in Nodes
      /\ Succeeds(<<"start", 0>>)
      /\ code' = Append(code, NodeCode(n, uses) \o TransferCode(n)
                                \o UnusedCode(n) \o AdmissionCode(n))
      /\ emit_uses' = IF BranchPositions(n) = {} THEN uses
                      ELSE [uses EXCEPT ![n] = @ - 1]
      /\ UNCHANGED <<block, line, slots, table, cleanup_index, freed, native>>

\* A program refused before lowering is not emitted.
Refuse ==
  /\ native = "emitting"
  /\ ~Succeeds(<<"start", 0>>)
  /\ native' = "refused"
  /\ UNCHANGED <<emit_uses, code, block, line, slots, table, cleanup_index,
                 freed>>

Launch ==
  /\ native = "emitting"
  /\ Len(code) = Len(program.kind)
  /\ Succeeds(<<"start", 0>>)
  /\ native' = "executing"
  /\ UNCHANGED <<emit_uses, code, block, line, slots, table, cleanup_index,
                 freed>>

(***************************************************************************)
(* The emitted program.                                                    *)
(***************************************************************************)

Current == code[block][line]

\* Control falls through to the next instruction, or to the next block.
Advance ==
  IF line < Len(code[block])
  THEN line' = line + 1 /\ UNCHANGED block
  ELSE line' = 1 /\ block' = block + 1

AtInstruction(op) ==
  /\ native = "executing"
  /\ block \in DOMAIN code
  /\ line \in DOMAIN code[block]
  /\ Current.op = op

\* bennu_release zeroes a slot; a zeroed slot is left alone.
Freeing(nodes) ==
  At(nodes, Reverse(Descending({i \in DOMAIN nodes : nodes[i] \in slots})))

\* The three cleanup loops at the end of bennu_execute: every slot, from the
\* last to the first.
CleanUp(remaining, first, outcome) ==
  /\ freed' = freed \o first \o Descending(remaining)
  /\ slots' = {}
  /\ native' = outcome

\* goto bennu_failure, after the instruction's own releases.
Abort ==
  LET first == Freeing(Current.releases)
  IN  /\ CleanUp(slots \ ToSet(first), first, "failed")
      /\ UNCHANGED <<emit_uses, code, block, line, table, cleanup_index>>

ExecuteStore ==
  /\ AtInstruction("store")
  /\ slots' = slots \cup {Current.node}
  /\ Advance
  /\ UNCHANGED <<emit_uses, code, table, cleanup_index, freed, native>>

ExecuteLiteral ==
  /\ AtInstruction("literal")
  /\ IF Succeeds(<<"node", Current.node>>)
     THEN /\ slots' = slots \cup {Current.node}
          /\ Advance
          /\ UNCHANGED <<emit_uses, code, table, cleanup_index, freed, native>>
     ELSE Abort

\* The second of two dynamic arguments, or the only one, is checked.
ChecksDummy(n) ==
  /\ Misled(n)
  /\ Kind(Args(n)[Max({i \in DOMAIN Args(n) : Args(n)[i] \in DynamicArgs(n)})])
       = "placeholder"

\* bennu_require_shape fails when the lengths differ, and when it is given the
\* dummy of a placeholder, which is no vector.  A length compared with that of
\* a dummy may differ or not, whatever the length of the operand is.
ExecuteRequire ==
  LET n == Current.node
  IN  /\ AtInstruction("require")
      /\ \/ /\ ~ChecksDummy(n)
            /\ Advance
            /\ UNCHANGED <<emit_uses, code, slots, table, cleanup_index, freed, native>>
         \/ /\ ~Succeeds(<<"node", n>>) \/ Misled(n)
            /\ Abort

\* bennu_apply compares no lengths and takes any argument of iota for a scalar,
\* so what only the evaluator refuses passes.
ExecuteApply ==
  LET n == Current.node
  IN  /\ AtInstruction("apply")
      /\ \/ /\ Succeeds(<<"node", n>>) \/ Unchecked(n) \/ Misled(n)
            /\ slots' = slots \cup {n}
            /\ Advance
            /\ UNCHANGED <<emit_uses, code, table, cleanup_index, freed, native>>
         \/ /\ ~Succeeds(<<"node", n>>)
            /\ Abort

\* bennu_tuple: the elements move into a new table, or stay where they are.
ExecuteTuple ==
  /\ AtInstruction("tuple")
  /\ IF Succeeds(<<"node", Current.node>>)
     THEN /\ slots' = (slots \ ToSet(Current.from)) \cup {Current.node}
          /\ table' = [table EXCEPT ![Current.node] = Current.from]
          /\ cleanup_index' = [cleanup_index EXCEPT ![Current.node] = Len(Current.from)]
          /\ Advance
          /\ UNCHANGED <<emit_uses, code, freed, native>>
     ELSE Abort

\* bennu_fanout: a table of empty cells that no release will visit yet.
ExecuteFanout ==
  LET f == Current.node
  IN  /\ AtInstruction("fanout")
      /\ IF Succeeds(<<"admit", f>>)
         THEN /\ slots' = slots \cup {f}
              /\ table' = [table EXCEPT ![f] = [i \in DOMAIN Args(f) |-> 0]]
              /\ cleanup_index' = [cleanup_index EXCEPT ![f] = 0]
              /\ Advance
              /\ UNCHANGED <<emit_uses, code, freed, native>>
         ELSE Abort

\* Mutant: a transferred result does not move the cleanup index.
ExecuteTransfer_NotCounted ==
  LET f == Current.node
      child == Current.from[1]
      position == CHOOSE i \in DOMAIN Args(f) : Args(f)[i] = child
  IN  /\ AtInstruction("transfer")
      /\ table' = [table EXCEPT ![f][position] = child]
      /\ slots' = slots \ {child}
      /\ Advance
      /\ UNCHANGED <<emit_uses, code, cleanup_index, freed, native>>

\* bennu_tuple_transfer: the branch result is written to its position and the
\* cleanup index grows by one, wherever that position is.
ExecuteTransfer ==
  LET f == Current.node
      child == Current.from[1]
      position == CHOOSE i \in DOMAIN Args(f) : Args(f)[i] = child
  IN  /\ AtInstruction("transfer")
      /\ table' = [table EXCEPT ![f][position] = child]
      /\ cleanup_index' = [cleanup_index EXCEPT ![f] = @ + 1]
      /\ slots' = slots \ {child}
      /\ Advance
      /\ UNCHANGED <<emit_uses, code, freed, native>>

ExecuteRelease ==
  /\ AtInstruction("release")
  /\ freed' = freed \o Freeing(<<Current.node>>)
  /\ slots' = slots \ {Current.node}
  /\ Advance
  /\ UNCHANGED <<emit_uses, code, table, cleanup_index, native>>

\* The roots are printed from their slots; then everything is released, with
\* the same loop whether printing succeeded or not.
ExecutePrint ==
  /\ native = "executing"
  /\ block = Len(program.kind) + 1
  /\ CleanUp(slots, <<>>, IF Succeeds(<<"output", 0>>) THEN "ok" ELSE "failed")
  /\ UNCHANGED <<emit_uses, code, block, line, table, cleanup_index>>

EmittedNext ==
  \/ EmitNode
  \/ Refuse
  \/ Launch
  \/ ExecuteStore
  \/ ExecuteLiteral
  \/ ExecuteRequire
  \/ ExecuteApply
  \/ ExecuteTuple
  \/ ExecuteFanout
  \/ ExecuteTransfer
  \/ ExecuteRelease
  \/ ExecutePrint

EmittedSpec ==
  /\ ProgramInit /\ EmittedInit
  /\ [][EmittedNext /\ UNCHANGED <<program, fault>>]_<<program, fault, emittedVars>>

(***************************************************************************)
(* Properties.                                                             *)
(***************************************************************************)

\* The places that own the value of node n in the emitted program.  Only the
\* cells below the cleanup index are ever released.
NativeOwners(n) ==
  {<<"slot", n, 0>> : x \in {n} \cap slots}
    \cup (UNION {{<<"cell", c, i>> : i \in {j \in 1 .. cleanup_index[c] :
                                              table[c][j] = n}} : c \in Nodes})
    \cup {<<"freed", 0, i>> : i \in {j \in DOMAIN freed : freed[j] = n}}

\* Every value the emitted program has made has exactly one owner: its slot,
\* a cell that bennu_release visits, or the log of releases.  No buffer is
\* freed twice or leaked, on any path to bennu_failure.
NativeOneOwner ==
  /\ EmittedTypeOK
  /\ \A n \in Nodes :
       /\ Cardinality(NativeOwners(n)) <= 1
       /\ n < block => NativeOwners(n) # {}

\* Nothing in the emitted C checks its slots: each instruction finds the
\* values it reads or moves in them, never the dummy of a placeholder unless it
\* is a misled shape check, and every root is there to be printed.
SlotsReadAreFilled ==
  /\ native = "executing" /\ block \in DOMAIN code =>
       \A n \in ToSet(Current.from) :
         /\ n \in slots
         /\ Kind(n) = "placeholder" => Current.op = "require" /\ Misled(Current.node)
  /\ native = "executing" /\ block = Len(program.kind) + 1 =>
       ToSet(program.roots) \subseteq slots

=============================================================================
