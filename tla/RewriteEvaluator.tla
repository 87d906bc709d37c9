--------------------------- MODULE RewriteEvaluator ---------------------------
(***************************************************************************)
(* The evaluator of src/src/rewrite.cpp (evaluate_rewrite_source_impl): it *)
(* walks the node arena once, keeps every value in the slot of the node    *)
(* that made it, counts down the uses of each node, and hands values on by *)
(* moving them (into a tuple, a fan-out's result table, the result list)   *)
(* or ends them by releasing them.  Nothing is reference counted: that     *)
(* each value has exactly one owner, on every path out of the loop, is     *)
(* what this module is about.                                              *)
(*                                                                         *)
(*   node_index      the next iteration of the loop                        *)
(*   remaining_uses  uses of each node still to come                       *)
(*   node_live       the slots that hold a value                           *)
(*   assemblies      fan-outs whose result table is admitted and not yet   *)
(*                   published (fanout_assembly_live)                      *)
(*   inside          what has been moved into a tuple or result table, in  *)
(*                   slot order                                            *)
(*   values          the root values taken for the caller                  *)
(*   released        every owner given to a release so far, in order       *)
(*   status          "internal" is an invalid_primitive_table failure of   *)
(*                   the evaluator's own checks                            *)
(*                                                                         *)
(* A tuple or table is released together with what is inside it, so its    *)
(* contents do not appear in released themselves.  The release of a tuple  *)
(* that validate_value refuses (IllFormed) gives nothing back to the       *)
(* accounting, but its owner is gone like any other.                       *)
(***************************************************************************)
EXTENDS FlatProgram

VARIABLES node_index, remaining_uses, node_live, assemblies, inside, values,
          released, status

evaluatorVars == <<node_index, remaining_uses, node_live, assemblies, inside,
                   values, released, status>>

\* The evaluator's variables have their types.
EvaluatorTypeOK ==
  /\ node_index \in 1 .. Len(program.kind) + 1
  /\ remaining_uses \in [Nodes -> Nat]
  /\ node_live \subseteq Nodes
  /\ assemblies \subseteq Fanouts
  /\ inside \in [Nodes -> Seq(Nodes)]
  /\ values \in Seq(Nodes)
  /\ released \in Seq(Nodes)
  /\ status \in {"idle", "running", "ok", "failed", "internal", "done"}

EvaluatorInit ==
  /\ node_index = 1
  /\ remaining_uses = [n \in Nodes |-> UseCount(n)]
  /\ node_live = {}
  /\ assemblies = {}
  /\ inside = [n \in Nodes |-> <<>>]
  /\ values = <<>>
  /\ released = <<>>
  /\ status = "idle"

(***************************************************************************)
(* Shared pieces.                                                          *)
(***************************************************************************)

\* Mutant: the cleanup of a failed evaluation forgets the result tables.
ReleaseExecutionState_ForgetsTables(tables, live) == Descending(live)

\* Mutant: the slots are emptied before the result tables.
ReleaseExecutionState_SlotsFirst(tables, live) ==
  Descending(live) \o Descending(tables)

\* release_execution_state: live result tables, latest first, then the live
\* slots, latest first.
ReleaseExecutionState(tables, live) == Descending(tables) \o Descending(live)

\* A failure releases first, then everything still owned, and returns.
Fail(outcome, first, live) ==
  /\ released' = released \o first \o ReleaseExecutionState(assemblies, live)
  /\ node_live' = {}
  /\ assemblies' = {}
  /\ status' = outcome
  /\ UNCHANGED <<node_index, values>>

\* The result of node n goes to its slot, and is released at once when no
\* use of it is left.
Store(n, uses, live, first) ==
  /\ remaining_uses' = uses
  /\ node_live' = IF uses[n] = 0 THEN live \ {n} ELSE live \cup {n}
  /\ released' = released \o first \o (IF uses[n] = 0 THEN <<n>> ELSE <<>>)
  /\ node_index' = n + 1

\* The loop reaches node n once the result tables due before it are there.
AtNode(n, kind) ==
  /\ status = "running"
  /\ node_index = n
  /\ n \in Nodes
  /\ Kind(n) = kind
  /\ AdmittedBefore(n) \subseteq assemblies

(***************************************************************************)
(* The loop.                                                               *)
(***************************************************************************)

\* Parsing, resolution, lowering, parameters and the resource context, each
\* of which returns before any value exists.
Start ==
  /\ status = "idle"
  /\ status' = IF Succeeds(<<"start", 0>>) THEN "running" ELSE "failed"
  /\ UNCHANGED <<node_index, remaining_uses, node_live, assemblies, inside,
                 values, released>>

AdmitFanout(f) ==
  /\ status = "running"
  /\ f \in AdmittedBefore(node_index) \ assemblies
  /\ \/ /\ Succeeds(<<"admit", f>>)
        /\ assemblies' = assemblies \cup {f}
        /\ UNCHANGED <<node_index, node_live, values, released, status>>
     \/ /\ ~Succeeds(<<"admit", f>>)
        /\ Fail("failed", <<>>, node_live)
  /\ UNCHANGED <<remaining_uses, inside>>

EvaluateScalar(n) ==
  /\ AtNode(n, "scalar")
  /\ Store(n, remaining_uses, node_live, <<>>)
  /\ UNCHANGED <<assemblies, inside, values, status>>

\* The slot of a placeholder gets a dummy scalar; calls read the operand.
EvaluatePlaceholder(n) ==
  /\ AtNode(n, "placeholder")
  /\ node_live' = node_live \cup {n}
  /\ node_index' = n + 1
  /\ UNCHANGED <<remaining_uses, assemblies, inside, values, released, status>>

EvaluateVector(n) ==
  /\ AtNode(n, "vector")
  /\ \/ /\ Succeeds(<<"node", n>>)
        /\ Store(n, remaining_uses, node_live, <<>>)
        /\ UNCHANGED <<assemblies, values, status>>
     \/ /\ ~Succeeds(<<"node", n>>)
        /\ Fail("failed", <<>>, node_live)
        /\ UNCHANGED remaining_uses
  /\ UNCHANGED inside

\* The elements a tuple literal, or the roots the result list, can take: up
\* to the first that is not in its slot or has another use.
Movable(nodes) ==
  LET good(k) == \A i \in 1 .. k :
                   /\ nodes[i] \in node_live
                   /\ remaining_uses[nodes[i]] = 1
                   /\ \A j \in 1 .. i - 1 : nodes[j] # nodes[i]
  IN  SubSeq(nodes, 1, Max({k \in 0 .. Len(nodes) : good(k)}))

\* Mutant: the elements stay live in their slots after the move.
EvaluateTuple_CopiesElements(n) ==
  LET moved == Movable(Args(n))
      uses == UsesAfter(remaining_uses, moved)
  IN  /\ AtNode(n, "tuple")
      /\ \/ /\ Succeeds(<<"node", n>>)
            /\ \A i \in DOMAIN moved : ~IllFormed(moved[i])
            /\ inside' = [inside EXCEPT ![n] = moved]
            /\ Store(n, uses, node_live, <<>>)
            /\ UNCHANGED <<assemblies, values, status>>
         \/ /\ ~Succeeds(<<"node", n>>) \/ \E i \in DOMAIN moved : IllFormed(moved[i])
            /\ Fail("failed", Reverse(moved), node_live)
            /\ remaining_uses' = uses
            /\ UNCHANGED inside

\* Elements are moved out of their slots before the tuple is built; a tuple
\* that cannot be built has them released, last first, ahead of the rest.
\* make_tuple_value validates every element.
EvaluateTuple(n) ==
  LET moved == Movable(Args(n))
      uses == UsesAfter(remaining_uses, moved)
      live == node_live \ ToSet(moved)
      valid == moved = Args(n) /\ \A i \in DOMAIN moved : ~IllFormed(moved[i])
  IN  /\ AtNode(n, "tuple")
      /\ \/ /\ valid
            /\ Succeeds(<<"node", n>>)
            /\ inside' = [inside EXCEPT ![n] = moved]
            /\ Store(n, uses, live, <<>>)
            /\ UNCHANGED <<assemblies, values, status>>
         \/ /\ ~valid \/ ~Succeeds(<<"node", n>>)
            /\ Fail(IF valid THEN "failed" ELSE "internal", Reverse(moved), live)
            /\ remaining_uses' = uses
            /\ UNCHANGED inside

\* The fan-out's table becomes its value once every branch is in it, and the
\* operand is released, whatever other use it may have.
EvaluateFanout(n) ==
  LET complete == n \in assemblies /\ inside[n] = Args(n)
      operand == Operand(n)
      uses == [remaining_uses EXCEPT ![operand] = IF @ # 0 THEN @ - 1 ELSE 0]
      dropped == IF operand \in node_live THEN <<operand>> ELSE <<>>
  IN  /\ AtNode(n, "fanout")
      /\ \/ /\ complete
            /\ assemblies' = assemblies \ {n}
            /\ Store(n, uses, node_live \ {operand}, dropped)
            /\ UNCHANGED <<values, status>>
         \/ /\ ~complete
            /\ Fail("internal", <<>>, node_live)
            /\ UNCHANGED remaining_uses
      /\ UNCHANGED inside

\* complete_rewrite_consumer_attempt refuses arguments that are not in their
\* slots or have been counted down too far.
Completes(args) ==
  \A i \in DOMAIN args :
    /\ args[i] \in node_live
    /\ remaining_uses[args[i]] > Occurrences(SubSeq(args, 1, i - 1), args[i])

\* value_tuple_arity validates the tuple a call spreads; when it refuses, or is
\* refused the memory it needs, the evaluator reports its own failure.
SpreadsInvalid(n) == Spreads(n) /\ IllFormed(OwnerOf(Args(n)[1]))

\* The application fails with the fault, and where a vector is not the scalar
\* argument that lowering took it for.
Applies(n) == Succeeds(<<"node", n>>) /\ ~Mistyped(n)

\* A call reads its arguments in place, then counts the uses and releases
\* what it used last, whether it succeeded or not.  The result of a branch
\* root moves on into the table of its fan-out.
EvaluateCall(n) ==
  LET args == Args(n)
      valid == /\ \A i \in DOMAIN args : /\ OwnerOf(args[i]) \in node_live
                                         /\ remaining_uses[args[i]] # 0
               /\ ~SpreadsInvalid(n)
      used == UsesAfter(remaining_uses, args)
      final == FinalUses(used, args)
      live == node_live \ ToSet(final)
      branch == BranchPositions(n)
      accepted == \A e \in branch : /\ e[1] \in assemblies
                                    /\ e[2] = Len(inside[e[1]]) + 1
                                    /\ used[n] = 1
                                    /\ ~Overfills(e[1], e[2])
  IN  /\ AtNode(n, "call")
      /\ \/ /\ ~valid \/ (Spreads(n) /\ ~Succeeds(<<"node", n>>))
            /\ Fail("internal", <<>>, node_live)
            /\ UNCHANGED <<remaining_uses, inside>>
         \/ /\ valid /\ ~Completes(args)
            /\ Fail("internal", IF Applies(n) THEN <<n>> ELSE <<>>, node_live)
            /\ UNCHANGED <<remaining_uses, inside>>
         \/ /\ valid /\ Completes(args)
            /\ ~Applies(n)
            /\ Fail("failed", final, live)
            /\ remaining_uses' = used
            /\ UNCHANGED inside
         \/ /\ valid /\ Completes(args)
            /\ Applies(n)
            /\ ~accepted
            /\ Fail("internal", final \o <<n>>, live)
            /\ remaining_uses' = used
            /\ UNCHANGED inside
         \/ /\ valid /\ Completes(args)
            /\ Applies(n)
            /\ branch = {}
            /\ Store(n, used, live, final)
            /\ UNCHANGED <<assemblies, inside, values, status>>
         \/ \E e \in branch :
              /\ valid /\ Completes(args)
              /\ Applies(n)
              /\ accepted
              /\ inside' = [inside EXCEPT ![e[1]] = Append(@, n)]
              /\ remaining_uses' = [used EXCEPT ![n] = 0]
              /\ node_live' = live
              /\ released' = released \o final
              /\ node_index' = n + 1
              /\ UNCHANGED <<assemblies, values, status>>

\* The roots move into the result list, which is formatted; when that fails,
\* as it does for a tuple validate_value refuses, the list is released, last
\* root first.
Finish ==
  LET roots == Movable(program.roots)
      whole == roots = program.roots
      live == node_live \ ToSet(roots)
      formatted == /\ Succeeds(<<"output", 0>>)
                   /\ \A i \in DOMAIN roots : ~IllFormed(roots[i])
  IN  /\ status = "running"
      /\ node_index = Len(program.kind) + 1
      /\ remaining_uses' = UsesAfter(remaining_uses, roots)
      /\ \/ /\ whole /\ formatted
            /\ values' = roots
            /\ node_live' = live
            /\ status' = "ok"
            /\ UNCHANGED <<node_index, assemblies, released>>
         \/ /\ ~whole \/ ~formatted
            /\ Fail(IF whole THEN "failed" ELSE "internal", Reverse(roots), live)
      /\ UNCHANGED inside

\* release_rewrite_evaluation_result, by the caller of a successful
\* evaluation.
ReleaseResult ==
  /\ status = "ok"
  /\ released' = released \o Reverse(values)
  /\ values' = <<>>
  /\ status' = "done"
  /\ UNCHANGED <<node_index, remaining_uses, node_live, assemblies, inside>>

EvaluatorNext ==
  \/ Start
  \/ \E f \in Fanouts : AdmitFanout(f)
  \/ \E n \in Nodes : \/ EvaluateScalar(n)
                      \/ EvaluatePlaceholder(n)
                      \/ EvaluateVector(n)
                      \/ EvaluateTuple(n)
                      \/ EvaluateFanout(n)
                      \/ EvaluateCall(n)
  \/ Finish
  \/ ReleaseResult

EvaluatorSpec ==
  /\ ProgramInit /\ EvaluatorInit
  /\ [][EvaluatorNext /\ UNCHANGED <<program, fault>>]_<<program, fault, evaluatorVars>>

(***************************************************************************)
(* Properties.                                                             *)
(***************************************************************************)

\* The places that own the value of node n.
Owners(n) ==
  {<<"slot", n, 0>> : x \in {n} \cap (node_live \cup assemblies)}
    \cup (UNION {{<<"inside", c, i>> : i \in {j \in DOMAIN inside[c] : inside[c][j] = n}}
                  : c \in Nodes})
    \cup {<<"result", 0, i>> : i \in {j \in DOMAIN values : values[j] = n}}
    \cup {<<"released", 0, i>> : i \in {j \in DOMAIN released : released[j] = n}}

\* Every value made so far has exactly one owner: the slot it was stored in,
\* the tuple or result table it was moved into, the result list, or the log
\* of releases.  Nothing is released twice, moved after it was released, or
\* dropped, on any path through the loop of evaluate_rewrite_source_impl.
EvaluatorOneOwner ==
  /\ EvaluatorTypeOK
  /\ \A n \in Nodes : Cardinality(Owners(n)) \in
                         IF n < node_index THEN {1} ELSE {0, 1}

\* When the evaluator has failed, or its caller has released the results,
\* it owns nothing: no slot, no result table, no result, and every value was
\* released itself or with the tuple or table that contains it.
EvaluatorOwnsNothing ==
  status \in {"failed", "internal", "done"} =>
    /\ node_live = {} /\ assemblies = {} /\ values = <<>>
    /\ \A n \in Nodes : \A o \in Owners(n) :
         o[1] = "inside" => Owners(o[2]) # {}

\* What makes the evaluator report a failure of its own: a branch result its
\* table has no room for, an ill-formed tuple that a call spreads or a tuple
\* literal takes, or the failing spread of a tuple.
Irregular ==
  \/ \E n \in Nodes : \E e \in BranchPositions(n) : Overfills(e[1], e[2])
  \/ \E f \in Fanouts : IllFormed(f)
  \/ \E n \in Nodes : Spreads(n) /\ fault = <<"node", n>>

\* Remaining uses end lifetimes, no later and no earlier than the last use:
\* whatever is live between two iterations still has a use to come, and the
\* evaluator's own checks (a value used after its release or before its
\* creation, an exclusive element with another use, a fan-out published out of
\* order, a root that is gone) never fire for a program that lowering accepts:
\* where it fails for a reason of its own, it is one of Irregular.
UsesEndLifetimes ==
  /\ status = "running" => \A n \in node_live : remaining_uses[n] # 0
  /\ status = "internal" => Irregular

\* spec 0007, section 8.3, item 4: when a branch fails, the operand that all
\* branches share is released after the result table.
OperandOutlivesTable ==
  \A f \in Fanouts : \A i, j \in DOMAIN released :
    /\ status \in {"failed", "internal"}
    /\ released[i] = f
    /\ released[j] = Operand(f)
    /\ node_index \in Operand(f) + 1 .. f
    => i < j

=============================================================================
