---------------------------- MODULE BackendParity ----------------------------
(***************************************************************************)
(* The evaluator and the emitted C program on the same program, with the   *)
(* same operation failing.  They are separate processes that share nothing *)
(* but what they read, so their steps are not interleaved: the emitted     *)
(* program is emitted and run once the evaluator has finished.             *)
(***************************************************************************)
EXTENDS RewriteEvaluator, EmittedProgram

vars == <<program, fault, evaluatorVars, emittedVars>>

Init == ProgramInit /\ EvaluatorInit /\ EmittedInit

Evaluate ==
  /\ EvaluatorNext
  /\ UNCHANGED <<program, fault, emittedVars>>

EmitAndRun ==
  /\ status \in {"failed", "internal", "done"}
  /\ EmittedNext
  /\ UNCHANGED <<program, fault, evaluatorVars>>

Next == Evaluate \/ EmitAndRun

Spec == Init /\ [][Next]_vars

(***************************************************************************)
(* Properties.                                                             *)
(***************************************************************************)

BothFinished ==
  /\ status \in {"failed", "internal", "done"}
  /\ native \in {"refused", "ok", "failed"}

\* The operation that fails is a tuple literal in the branch of a fan-out.
TupleInBranchFails ==
  \E f \in Fanouts : \E n \in Operand(f) + 1 .. f - 1 :
    Kind(n) = "tuple" /\ fault = <<"node", n>>

Ascends(s) == \A i, j \in DOMAIN s : i < j => s[i] < s[j]

\* What the parser's programs have and prepared inputs need not: roots and the
\* elements of a tuple literal are in the order of their nodes, and what was
\* made after an element is used up when the literal is.
Nested ==
  /\ Ascends(program.roots)
  /\ \A n \in Nodes : Kind(n) = "tuple" =>
       /\ Ascends(Args(n))
       /\ \A element \in ToSet(Args(n)) : \A m \in element + 1 .. n - 1 :
            ~RetainedRoot(m) /\ \A consumer \in n + 1 .. Len(program.kind) :
                                  m \notin ToSet(Args(consumer))

\* No call or fan-out of the program is one that the back ends treat
\* differently: a shape check that looks into a placeholder's slot, lengths
\* that only the evaluator compares, a vector that iota takes for a scalar, a
\* fan-out the evaluator cannot fill or publishes ill-formed.
Regular ==
  /\ \A n \in Nodes : ~Misled(n) /\ ~Unchecked(n) /\ ~Mistyped(n)
  /\ \A f \in Fanouts : /\ ~IllFormed(f)
                        /\ \A i \in DOMAIN Args(f) : ~Overfills(f, i)

\* issue-52 and issue-53: the emitted program performs the releases of the
\* evaluator, in the same order, and succeeds exactly when it does, whether
\* the program succeeds or any of its operations fails.  Excepted are a tuple
\* literal that fails in a branch (the evaluator has taken its elements out of
\* their slots and releases them before the result table, the emitted program
\* after it), a spread whose failure the evaluator reports as its own, without
\* the releases of the call, and programs with a call or fan-out that the back
\* ends disagree about.
SameReleases ==
  BothFinished /\ status # "internal" /\ ~TupleInBranchFails /\ Nested /\ Regular =>
    /\ freed = released
    /\ native = "ok" <=> status = "done"

\* spec 0007, section 10.5: native execution selects the fault of the evaluator,
\* so it succeeds where the evaluator does.  It does not: the emitted shape
\* check of a placeholder looks at its dummy.
NativeFollows == BothFinished /\ status = "done" => native = "ok"

=============================================================================
