# Bennu: a TLA+ model of its resources, values, parser and back ends

Bennu is a small array language. A program is parsed into a flat arena of
nodes, resolved and typed, and then either evaluated in process or translated
to one C11 file that is compiled and run. Values (scalars, vectors, tuples) are
owned linearly: nothing in an evaluation is reference counted, and each back
end frees every value by hand on every path. Storage is admitted and accounted
by *evaluation resource contexts*, a thread-safe C++ library whose lifetime
observers may call back into the context that notifies them.

The project models the parts where correctness depends on orders of steps, or
on combinations of data, that a unit test hardly reaches: the resource contexts
(threads, callbacks, stale aliases, values that outlive their context); how
nested tuples are put into flat arenas, checked, walked and freed; the parser's
interleaved lists; the ownership of values in the evaluator and in the emitted
C (every failure of every operation); the pointers, admissions and kernels of
the runtime that generated programs carry with them, against the interpreter's;
the primitive table; and the publication of files by `emit-c` and `build`
(concurrent commands, failing system calls, kills).
Paths below are relative to the repository root, which is `src/` here.

## Inventory

| Component | State | Operations | Interacts with |
|---|---|---|---|
| Evaluation resources (`src/resources.cpp`) | registry of states by token, reference count, lease flag, transaction mutex, policy, live bytes, work units, ordinal cursor; snapshot records in client hands | make, copy, release, refresh, update configuration, set observer; allocate vector, reserve table or workspace, charge work; release, detach, destroy, abandon | host ledger (bindings), clients' observers (callbacks), evaluator (every allocation) |
| Host allocation ledger (`src/host_storage.cpp`) | record per address, semantic binding | register, bind, consume, remove, deleter | resources |
| Lexer and parser (`src/rewrite.cpp` 427-1990) | frame stack, arenas | tokenize, parse | produces the flat program |
| Resolution, typing, lowering (`rewrite.cpp` 2079-3455, `type.cpp`) | typed nodes, use counts, retained roots | resolve, select overloads, lower | consumed by both back ends |
| Prepared-input validation (`rewrite.cpp` 3456-3946) | none | check the arenas | evaluator, emitter |
| Evaluator (`rewrite.cpp` 3947-5333) | node slots, remaining uses, fan-out result tables, result list | one iteration per node, cleanup, release of the result | resources, primitives |
| C11 emitter and its runtime (`rewrite.cpp` 5413-6815, `rewrite_c_runtime.cpp`) | emitter's remaining uses; at run time `bennu_values`, tables, `cleanup_index` | emit a node, run a node, clean up | mirrors the evaluator |
| Primitive table (`primitive.cpp` 20-658) | descriptors, signatures | validate, find, select a signature | lowering, application |
| Application, primitives (`application.cpp`, `primitive.cpp` 660-1160) | the call's result vector | check, admit, convert, run a kernel per element | evaluator, resources |
| Values and tuple arenas (`value.cpp`, part of `resources.cpp`) | flat arena of a nested tuple | build, validate, walk and free | resources, evaluator |
| Parameters and runner arguments (`rewrite.cpp` 2386-2629, `runner_arguments.hpp`) | none | decode texts | evaluator, emitted `main` |
| Native builder (`native_builder.cpp`) | temporary directory | compile, publish by rename | CLI |
| CLI and REPL (`main.cpp`, `cli_output.cpp`) | files, stdout | run, emit-c, build, repl | all |
| Errors, path encoding, release scripts | none | formatting, conversion, packaging | all |

What is hard, and what makes each part correct:

- **Concurrency and re-entrance.** Operations of several threads meet on one
  context, through aliases of one lease. Inside a transaction the mutex is
  dropped for a callback and the working copy in the caller's record is stale
  afterwards. Correct means: live bytes are exactly those of the outstanding
  reservations, ordinals are never reused, a stale alias's policy is never
  used, nobody waits for a waiter.
- **Lifetime.** A state must outlive its lease while operations or values hold
  it, be freed by whoever lets go last, and its token must never come back.
- **Failure paths.** Any node of a program can fail while values sit in slots,
  half-built tables and argument lists. Correct means: one owner per value on
  every path, nothing left behind, nothing freed twice.
- **Two implementations of one discipline.** The emitter decides at compile
  time what the evaluator decides with counters at run time; the documents ask
  for the same releases in the same order.
- **Persistence.** `emit-c` and `build` stage a file next to the output and
  rename it. Correct means: whatever fails or is killed, the output is the old
  one or a whole new one, other files are left alone, and staged files do not
  pile up.
- **Flat arenas.** A tuple of any depth is one struct of index ranges; making
  one renumbers those of its elements, and `validate_value` guards every
  function that follows them. Correct means: what is made validates, what
  validates is a tree, and every walk gives what the tree gives.
- **Loops without recursion.** The parser, the walks over values and the whole
  generated runtime are loops over explicit stacks, or over pointers written
  into the data. Correct means: they end, at the right place, on every input.
- **Two implementations of one arithmetic.** Checked integers, conversions and
  comparisons of Doubles exist twice, and the generated program recovers the
  types of a call from lists of its own. Correct means: both compute what the
  numbers do, and fail at the same element.

`PROJECT.json` lists every hazard at its line, with the properties that would
catch it going wrong, and why one has none.

## Modules

| Module | Models |
|---|---|
| `EvaluationResources` | `resources.cpp` with the bindings of `host_storage.cpp` |
| `ResourceLedger` | abstract specification: what a context promises, atomically, with no locks, pins or aliases |
| `ResourceRefinement` | the refinement mapping and `ImplementsLedger` |
| `EvaluationResourcesProofs` | theorems about `EvaluationResources`: lifetime, stale aliases, no wait for a waiter |
| `ResourceAccountingProofs` | the working copy of a transaction: counters grow, the policy is enforced; what operations rely on, that ordinals are unique, and that live bytes are exact; then snapshots, that no configuration is rolled back, and that `ResourceLedger` is implemented |
| `MCResources` | the instances of four runs |
| `FlatProgram` | the program both back ends read; use counts, owners, prepared-input invariants, cardinalities and shape checks; the operation that fails |
| `RewriteEvaluator` | the evaluator's loop and its exits |
| `EmittedProgram` | the emitter, and the run of what it emitted |
| `BackendParity` | both on the same program and the same failure |
| `EvaluatorProofs` | theorems about flat programs and their uses, and about ownership in the evaluator |
| `EmittedProofs` | theorems about the emitted code, about ownership in the emitted program, and about the order of releases in both back ends |
| `MCBackends` | enumerates the programs of two runs |
| `NativeRuntime` | the runtime of a generated program: cells, pointers, admissions, walks, printing, failure contexts (`rewrite_c_runtime.cpp`, and `main` of `rewrite.cpp` 6720-6792) |
| `NativeRuntimeProofs` | theorems about the runtime's memory, its admissions and its failure reports |
| `MCNativeRuntime` | the programs and limits of one run |
| `RewriteParser` | `parse_rewrite`, `parse_parameter_header`, `parse_vector_literal`, `resolve_rewrite_primitives` |
| `RewriteGrammar` | abstract specification: the grammar as the specification documents write it |
| `MCParser` | the sources of one run |
| `PrimitiveTable` | the production table, `validate_primitive_table`, `select_primitive_signature` |
| `ScalarKernels` | `invoke_scalar_kernel`, conversions and comparisons of `primitive.cpp`, at any width and format |
| `NativeKernels` | the kernels and the element loop of the generated runtime |
| `PrimitiveApplication` | `apply_primitive` and `apply_typed_primitive` (`application.cpp`) |
| `PrimitiveApplicationProofs` | theorems: the checked integer kernels of both back ends, and integer arithmetic in every application |
| `MCPrimitives` | arguments and tables of one run |
| `TupleValues` | the flat arena of a tuple, what makes one well formed, and the tree it stands for |
| `TupleConstruction` | `make_tuple_value`, `execute_tuple_construction`, the preadmitted assembly |
| `TupleProofs` | theorems: who owns each storage while tuples are made |
| `TupleWalks` | `validate_value`, `value_type`, `format_value`, `destroy_value`, step by step |
| `MCTuples`, `MCTupleWalks` | the instances of one run each |
| `Publication` | `write_file_atomically` (`main.cpp`) and `build_native` (`native_builder.cpp`) on POSIX |
| `PublicationProofs` | theorems about `Publication` |
| `MCPublication` | the instance of one run |

### EvaluationResources

`registry`, `reference_count`, `context_active` and `next_resource_token` are
the registry's fields; `shared[tok]` is what `transaction_mutex[tok]` protects;
`owner[t]` and `record[t]` are the `EvaluationResources` record of client
thread `t`; `buffer[b]` joins the ledger's binding (`bound`) with the public
reservation record (`owner`). A *frame* `<<t, d>>` is an activation on thread
`t`'s stack: depth 1 is the client's call, depth `d + 1` a call made by the
observer that depth `d` is running.

A step is what runs between two synchronisation points. A section under the
registry mutex or a ledger bucket mutex calls nothing and is one step; a
transaction is several: `Lock` (with `begin_resource_record_sync`), the body,
the unlock that publishes the working copy, the callback, `Lock` again, `Unpin`.

| Action | Code |
|---|---|
| `MakeContext`, `CopyRecord` | `make_resource_record`; a bitwise copy of the record |
| `ReleaseContext`, `ReleaseContextBody` | the two sections of `release_evaluation_resources`; the lease's reference becomes the operation's pin |
| `BeginSnapshotCall`, `RefreshBody`, `SetObserverBody` | `refresh_evaluation_resources`, `set_evaluation_resource_lifetime_observer` |
| `BeginUpdate`, `UpdateBody` | `update_evaluation_resource_configuration`: stale, exhausted, updated |
| `BeginCharge`, `ChargeWithoutStorage`, `AllocationFails`, `AllocationSucceeds` | `allocate_vector`, `reserve_tuple_table`, `reserve_workspace`, `charge_work` |
| `BeginRelease`, `ReleaseBody`, `ReleaseWorkspaceBody` | `release_vector_reservation`, `release_tuple_table`, `release_workspace` |
| `AggregateConsume`, `AggregateDrop`, `AggregateReset` | one reservation of `release_value_reservations` or `detach_value_reservations`, with a callback between the steps |
| `BeginCleanup`, `Consume`, `RefundPin`, `RefundBody`, `DropOwner`, `FreeStorage` | `destroy_value` and `release_abandoned_semantic_allocation`, which need no context |
| `EndCallback`, `Leave`, `Unpin` | return of the observer, `ResourceRecordSyncGuard` and unlock, `ResourceStatePin` |

Abstractions: sizes, work units and limits are small naturals with the width of
`std::size_t` as `MaxSize`; a host allocation failure is a nondeterministic
choice; the order in which a tuple's arena is walked is "some reservation not
visited yet"; the records of a value are assumed to be the ones the library
wrote (validation of forged metadata is not modelled). A buffer is used by one
call at a time: clients may not release one value from two threads, which the
code does not support either.

### FlatProgram, RewriteEvaluator, EmittedProgram

A value is named by the node that makes it. The evaluator's state is its own:
`remaining_uses`, `node_live`, `assemblies`, what is `inside` each tuple or
table, the result `values`; `released` is the log of releases, and `status`
separates a program's failure from the evaluator's internal errors. There is
one action per node kind, one for the admission of a fan-out's result table,
`Finish` for the roots and `ReleaseResult` for the caller.

`EmitNode` appends the block of C that one node becomes, with the releases it
writes on the failure path and after the call; `Execute...` runs the blocks.
`CleanUp` is the loop at `bennu_failure`. There are no counters at run time,
as in the generated program.

`fault` is the one operation of the execution that fails, chosen in the initial
state among all that can. Both back ends read it, which is how "the same
failure" is expressed. It stands for a failure that both meet: an error value,
unequal lengths, a limit, an injected allocation failure. What only one of them
refuses is a condition on the program instead, and follows from what is vector
and what lowering takes for one. `IsVector` is the former. `Provisional` is the
cardinality of a node while phase 5 selects implementations, when every call
but one of `iota` counts as scalar; `Extent` is the one after phase 6, which
renews those of calls and not those of placeholders. From them come the
run-time shape checks (`RuntimeShapeCheck`), the arguments of `iota` that are
accepted (`CallTypesHold`), and four ways in which the back ends part:

| Condition | What happens |
|---|---|
| `Misled(n)` | the emitted check of call `n` looks into a placeholder's own slot, where there is a dummy scalar; the evaluator looks at the operand |
| `Mistyped(n)` | `iota` is given a vector that counted as scalar; only the evaluator refuses it |
| `Unchecked(n)` | two vectors meet, one of which counted as scalar, so that no shape check is emitted; only the evaluator compares them |
| `Overfills(f, i)`, `IllFormed(f)` | the evaluator cannot transfer a vector result, or publishes a tuple that `validate_value` refuses; the generated program has no such limit or check |

The shape check is an instruction of its own (`require`), with the slots the
emitter names in it, the releases of its own failure path, and two ways to end:
`ChecksDummy` is the certain failure with `BENNU_FAILURE_INTERNAL`, and a length
compared with a dummy's may differ or not. What a primitive computes, spans and
texts are left out.

### NativeRuntime

`memory` has one record per `BennuValue`: the slots of `bennu_values` and the
cells of each table. A program is whatever sequence of operations the setup
allows: an action per function of the runtime that `bennu_execute` calls, one
step per iteration of a walk. `RequireShape` is `bennu_require_shape` with all
of its three ends, on any operand (a placeholder's slot holds a scalar);
`Wrapped` is what `bennu_apply_spread` and `bennu_require_spread_shape` do around
the call they make: `provenance` is set before it unless something has failed,
and cleared when it succeeds. `LocaleRefused` is the only other way to an internal
failure. `ReadPastEnd` is `bennu_apply` on vectors of unequal lengths, which
reads past the shorter one: undefined, so that either anything is read or the
process ends.

### TupleValues, TupleConstruction

A tuple is the record of arrays that `value.hpp` declares. `MoveElement` moves
one owner into a draft, `MoveLeaf` a scalar or a vector, with the payload index
that its builder gives to a scalar: zero from `make_tuple_value`, the cursor
from `publish_preadmitted_tuple` (`IdlePayload`). `pool` is what the caller holds,
each with the tree that it was made as; `scratch` the element storage of a call
or the slots of an assembly. `CallbackFails` and `OwnerKept` are the ends of a
callback: the value it returned is absent or destroyed, or kept in the
caller's slot because `validate_value` refused it or was refused the memory it
takes for a tuple (`Refusable`).

### Publication

`dir` is the output's parent directory: for the output and for each name a
command may try, who made the entry and whether it is whole. `pc`, `attempt`,
`directory` and `temporary` are a command's control point and the locals of the
two functions; `result` is its exit status. `stuck` records the removals that
failed. One entry stands for the whole isolated build directory.

| Action | Code |
|---|---|
| `StartEmission`, `StartBuild` | everything before the first creation: reading the source, the alias check, emission, choice of the compiler |
| `CreateTemporary`, `WriteTemporary` | the probe loop of `write_file_atomically`; `fdopen`, `fwrite` and `fclose` |
| `Isolate`, `WriteSource`, `Compile`, `Verify` | the build directory, `program.c`, `run_process`, `is_usable_native_output` |
| `Reserve`, `Move`, `Unreserve` | the loop over replacement names: `reserve_replacement_path`, `replace_output` into it, its removal |
| `Clear`, `Publish`, `Discard`, `Cleanup` | removal of the build directory, the rename over the output, removal of the staged file, `failure_with_cleanup` |
| `Kill` | the process ends between two system calls |

The files of the user are there from the start and nobody else writes to the
directory. No output path is another command's temporary name. A killed build's
compiler may go on inside the build directory; nobody looks there, so the model
stops it too. Power loss is not modelled (the code does not call `fsync`), nor
is the Windows branch, which compiles in a second workspace.

## Runs

Deadlock is not checked where the system may stop: a client may stop making
calls at any time, and a back end, a walk or a command stops when it has
finished.

| Run | Question | Bounds | Distinct states |
|---|---|---|---|
| `lifetime` | do contexts, aliases and values outlive each other correctly? | 2 threads, 2 contexts with v1 and v2 profiles, 2 tokens, every kind of reservation, sizes up to 2 | 1,726,229 |
| `reentrant` | does accounting survive observers that call back? | 2 threads, 2 levels, 2 buffers, a tuple of 2 reservations, 3 ordinals | 805,059 |
| `ledger` | do two aliases that allocate and republish limits behave like the atomic ledger? | 2 threads, 2 buffers, 3 versions, 2 editable limits | 294,954 |
| `drain` | does a released context come to an end? | 2 threads, 2 levels, 1 buffer, refreshed snapshots, fairness | 67,267 |
| `backends` | ownership and parity of every small program | all parsed programs of at most 6 nodes (4 with scalars and every choice of `iota`), all single fan-outs of at most 8 (7 with scalars and `iota`), all arenas of at most 3 nodes with shared values | 418,052 |
| `native` | are the runtime's pointers, accounts, failures and output right? | 3 values under each limit, 4 without, 2 of other widths; tuples of 2 | 287,456 |
| `parser` | does the parser return, keep every node, and accept the grammar? | all sources of at most 4 of 11 tokens, and every single edit of 6 programs of 12 to 25 tokens | 66,927 |
| `primitives` | do both sets of kernels compute the numbers, and do table, lowering and application agree? | Int of 5 bits, Double of 6, every scalar; vectors of at most 2; 294 tables | 374,761 |
| `tuples` | is every storage owned once while tuples are made, and is the result the tree? | tuples of 2, nested as 3 addresses allow, up to a renaming of these | 193,320 |
| `tuple_walks` | is exactly a tree accepted, and walked as one? | 2 levels, at most 6 nodes below the root, 1 field changed; 2 fields up to 2 nodes | 324,903 |
| `publication` | do concurrent, failing and killed commands keep the output whole and other files alone? | 2 emissions, 2 builds, 2 names of each kind, 3 initial directories | 1,347,626 |
| `native_follows` | violation: the evaluator succeeds and the generated program does not | as `backends`, 3 nodes or one fan-out of at most 6 | |

Why the bounds are enough. *Contexts*: two threads and one nested level produce
every pairwise race (validate/release, callback/transaction, refund/release), and
one buffer more than the case needs lets a freed address be reused. Tokens,
ordinals, versions and sizes are small so that each *runs out* in a run.
*Programs*: six nodes are enough for a fan-out inside a tuple or spread into a
call, and eight for fan-outs with two branches and a temporary, or with one
branch that nests calls and tuples beside the placeholder; seven with scalars
and `iota` for a vector result before a scalar one, and for a placeholder whose
operand is a call of either cardinality. *Runtime*: three
values with elements give a tuple that moves into a tuple and a fan-out that
receives one; four scalars a third level, where a parent pointer of an element's
element could go wrong. *Parser*: four tokens reach every error of an expression,
and one edit of a whole program every error while other contexts are open.
*Kernels*: five bits and an exponent of four make the Int range wider than the
integers a Double holds exactly, so that conversion rounds, ties and carries;
the theorems carry the integer checks to 64 bits. *Tables*: two signatures are
what an ambiguity or a duplicate needs. *Arenas*: two levels have an inner table,
an inner vector and an inner edge range, and one field changed reaches every
check of `validate_value`; two are needed for arenas no builder makes that are
trees all the same, such as one with two edges exchanged. *Publication*: two
commands of each kind collide on every kind of name, and the initial directory
is empty, has the first name of each kind taken, or all of them, so that the
probe loops succeed, go on and run out (100 names in the code, 2 here). The
symmetry of threads, buffers, commands and the addresses of `tuples` is used only
in runs without liveness.

Passing properties, by what they are about:

- *Lifetime*: `ReclaimedWhenUnheld`, `StaleAliasStaysStale`.
- *Accounting*: `LiveBytesExact`, `OrdinalsUnique`, `CountersNeverRunBack`,
  `PolicyEnforced`, `NoConfigurationRollback`, and all of it at once as
  `ImplementsLedger`.
- *Progress*: `NoWaitForWaiter`, `CallsReturnAfterRelease`,
  `ReleasedContextReclaimed`; `LoopsEnd` and `Terminates` for the loops of the
  runtime, the parser and the walks.
- *Ownership in the evaluator*: `EvaluatorOneOwner`, `EvaluatorOwnsNothing`,
  `UsesEndLifetimes`, `OperandOutlivesTable`.
- *Ownership in the emitted C*: `NativeOneOwner`, `SlotsReadAreFilled`; inside
  its runtime `HeapSound`, which joins one owner per allocation, parent pointers
  that lead back, exact usage, and nothing left at the end.
- *Parity of the back ends*: `SameReleases` for the order of releases and for
  success, outside the calls and fan-outs of the table above (`Regular`),
  `AdmissionsAgree` for what is refused and why, `BackendsAgree` for results and
  domain errors.
- *What is said to the user*: `FailureExplained`, `PrintsRoots`.
- *Source*: `AcceptsTheGrammar`; `RoundTrip`, which joins that no node is lost or
  held twice at any step, that the arena is in postorder, that fan-outs own their
  branches, and that the arenas read back as the source.
- *Primitives*: `KernelsMeetReference` (checked, rounded and compared as
  numbers), `AcceptedTablesServe` and `LoweredCallsAreAccepted` (what was accepted
  early is not refused late, as long as an argument is of the type it was counted
  as).
- *Tuples*: `OneOwner`, `TreeKept`, `AcceptsExactlyTrees`, `WalksReadTree`.
- *Publication*: `OutputWhole`, `OnlySuccessPublishes`, `CollisionsHarmNobody`,
  `NothingLeftBehind`. They are what the decision diary promises
  (`doc/decisions/legacy-decision-diary.md` 112-125): "an output failure must
  never truncate an existing destination", exclusive creation "prevents
  collisions from overwriting unrelated files", and "publish-last ordering
  preserve output bytes for every pre-publication failure".

Every property has a mutant of the code it is about, kept next to the
definition it mutates, that breaks it.

### Fairness

`drain` assumes weak fairness of `Step(f)`, the code of a call that has begun:
threads are not stopped inside the library. It does not assume strong fairness
of taking a mutex, because `std::mutex` does not promise it: on an open context
other threads may overtake a waiting call for ever. After the lease is released
no new operation validates, so the calls in flight are finitely many and weak
fairness is enough; the liveness properties say exactly that. Reclaiming also
needs the client's documented duty to destroy the values it holds
(`DestroysValues`), which is an assumption about clients, not about the library.

`NativeRuntime` and `TupleWalks` assume weak fairness of `Walk`, the iterations
of a loop that has begun, and `RewriteParser` of `Next`: one thread runs each of
them, without waiting for anything. No fairness is assumed of what starts a
loop: the next operation of a program, or the next call of a client.

### Disagreements between documents and code

1. `native_follows` shows it. The emitted shape check names an argument's own slot
   (`rewrite.cpp` 6178, 6187), the call after it that of the argument's owner
   (6331). For a placeholder the former holds `bennu_scalar_int(0)`, so
   `fanout[iota[3] {add[_ (1 2 3)]}]` is `[(2 4 6)]` in the evaluator and an
   `InternalError` in the generated program; BENNU-SPEC-0007 line 694 asks for
   the same fault and the same releases. `SameReleases` leaves out `Misled`.

The others have no run of their own; the property named states what holds
besides them.

2. While implementations are selected a lifted call counts as scalar
   (`rewrite.cpp` 3378), so lowering accepts `iota[inc[(1 2)]]`. The evaluator
   reports the `TypeError` of BENNU-SPEC-0001 line 235 when it runs; the
   generated program takes a field of the vector for the bound and prints `()`.
   `SameReleases` leaves out `Mistyped`, and `Unchecked`, where two vectors meet.
3. A placeholder copies its operand's cardinality before calls get theirs
   (`rewrite.cpp` 3169). The table of `fanout[inc[(1 2 3)] {inc[_]}]` is admitted
   without room for a vector, and the evaluator fails to transfer the result;
   BENNU-SPEC-0007 line 475 rules such a step out. The generated program prints
   `[(3 4 5)]`. `UsesEndLifetimes` has `Overfills` among the reasons of an internal
   failure.
4. `publish_preadmitted_tuple` writes the payload cursor into scalar nodes
   (`resources.cpp` 2569), `validate_value` wants zero there (`value.cpp` 751), and
   BENNU-SPEC-0007 line 557 wants an ordinary tuple. The evaluator cannot format
   `fanout[5 {iota[_]} {inc[_]}]`, spread it or put it into a tuple. `TreeKept`
   states what holds of such a tuple, and where it may arise.
5. A root that is a declared parameter with a space after it is taken for a
   prefix call and refused (`rewrite.cpp` 1941), although the grammar derives it
   (BENNU-SPEC-0002 line 179). `AcceptsTheGrammar` states agreement for every other
   source.
6. BENNU-SPEC-0007 section 8.3 has a failing branch destroy its temporaries
   before the transferred results and the table. `release_execution_state`
   (`rewrite.cpp` 4766) releases tables before slots, and a branch's finished
   temporaries are in slots. `OperandOutlivesTable` states the part of the order
   that holds.
7. The issue-53 record calls cleanup identical across the back ends. When a
   tuple literal inside a branch cannot be built the evaluator releases its
   moved elements before the table (`rewrite.cpp` 5015), the generated C after
   it: hence `~TupleInBranchFails` in `SameReleases`.
8. The interpreter tests `max_tuple_table_bytes` (`resources.cpp` 1561) before it
   knows that live usage is representable; BENNU-SPEC-0006 line 627, and the
   generated runtime, compute usage first. `AdmissionsAgree` leaves out tables
   whose live usage is not representable.
9. A generated program whose last `fflush` fails exits with status 1 and says
   nothing (`rewrite.cpp` 6763); BENNU-SPEC-0005 line 966 asks for a report.
   `outcome = "flush"` in `NativeRuntime` is that exit.

A last difference cannot be reached from source text: the evaluator releases a
fan-out's operand unconditionally (`rewrite.cpp` 5026-5033), the emitter only at
its last use (6473-6477). The parser gives the operand no other use and
`InvariantsHold` states it, so both models read it as given.

## Proofs

`EvaluationResourcesProofs` proves, for every set of threads, buffers and
configurations and every bound, from `BoundsAssumption`, `FiniteAssumption`
(finitely many threads and buffers) and `ConfigurationsAssumption`:

| Theorem | Statement |
|---|---|
| `Invariance` | `Spec => []InductiveInvariant` |
| `TypeCorrect` | `Spec => []TypeOK` |
| `ReclamationSound` | `Spec => []ReclaimedWhenUnheld` |
| `NoDeadlockOnContexts` | `Spec => []NoWaitForWaiter` |
| `StaleAliasesRefused` | `Spec => StaleAliasStaysStale` |

*The argument.* "The count is the number of holders" is not inductive alone: a
step that drops a reference must know that it was a holder and stops being one.
`LabelsInv` therefore says which control points hold a pin, `BuffersInv` that a
reservation under cleanup belongs to one frame and has lost its owner exactly
where the code has dropped its reference, `TokensInv` that every token in use
was issued earlier (so a new context never collides), `MutexInv` that a frame is
under its mutex exactly at the labels in `Holding`, and `NestingInv` that only
the innermost activation of a thread is out of its observers, so that a mutex
holder has no callback under way. `Holders(tok)` is a finite set; four lemmas
(`PinTaken`, `PinDropped`, `OwnerTaken`, `OwnerDropped`) say how its cardinality
moves, and each action's lemma cites the one it needs.

`ResourceAccountingProofs` builds on that invariant for what a context accounts
for. It needs no further assumption, but for the last three theorems, which are
proved for `Depth = 1`:

| Theorem | Statement |
|---|---|
| `WorkingCopiesInOrder` | `Spec => []WorkingCopyInv` |
| `CountersGrow`, `ChargesWithinPolicy` | `Spec => CountersNeverRunBack`, `Spec => PolicyEnforced` |
| `OrdinalsAreUnique` | `Spec => []OrdinalsUnique` |
| `LiveBytesAreExact` | `Spec => []LiveBytesExact` |
| `SnapshotsInOrder` | `Depth = 1` implies `Spec => []SnapshotInv` |
| `ConfigurationsNeverRollBack` | `Depth = 1` implies `Spec => NoConfigurationRollback` |
| `LedgerImplemented` | `Depth = 1` implies `Spec => ImplementsLedger` |

*The argument.* A transaction counts in the record of its thread, which other
activations of that thread write too, and publishes the result over the shared
state. `WorkingCopyInv` says that an open working copy has the shared policy and
is ahead of the shared counters by charges that this policy allows, and by
refunds. It is kept because only one activation of a thread is out of its
observers (`RunningAlone`) and only the holder of the mutex writes the shared
state (`Local`); growth of the counters and enforcement of the policy follow for
every publication. `OperationsInv` collects what a body relies on when it runs:
it has opened its copy, the record names the context it has pinned, and so do
the reservations it was given. `View(f)` is the counters that the step of `f`
works on, and `Sees` what the step makes of them, so that each body is described
once: `ReservationSeen`, `ReleaseSeen`, `RefundSeen`, `ChargeSeen`,
`FailureSeen`, `NothingCharged`. An ordinal is drawn from the cursor and moves
it, hence uniqueness. For the bytes, `Charges(b, tok)` says that `b` is charged
to `tok`: while its binding is active, or while a cleanup that consumed the
binding is on its way to the refund. A step either keeps the charge of every
reservation (`KeepsCharge`), or adds that of one (`ReservationCharges`) or takes
that of one (`GivesBack`), and moves the counter by the same number of bytes;
`MoreBytes` and `FewerBytes` count the sets.

`SnapshotInv` says that a record with the context's current version has its
current configuration, but for the edit its client is about to publish; a
publication that passes the version test then changes that one field only. With
it, exact bytes, and `UnissuedInv` (a context that is still to be made has no
counters), each step maps to one operation of the ledger or to none:
`AllocationSucceeds` to `Admit`, `AllocationFails` to `Fail`,
`ChargeWithoutStorage` to `Spend`, the bodies that give back to `Refund`,
`UpdateBody` to `Configure`, `MakeContext` to `Open`, `ReleaseContext` to
`Close`. *Why `Depth = 1`*: an observer may give its thread's record to another
context (release it and make a new one) while an outer call of the thread is
under way; the outer call refreshes that record from the context it has pinned
(`resources.cpp` 755-780), and a later publication through it would carry one
context's configuration into the other. The three
theorems say nothing of such clients; observers that make no calls may
interleave with everything. The other theorems hold at every depth.

`PublicationProofs` proves, for every set of commands, number of names and set
of files of the user, from `PublicationAssumption`:

| Theorem | Statement |
|---|---|
| `PublicationInvariance` | `Spec => []PublicationInvariant` |
| `PublishedWhole` | `Spec => []OutputWhole` |
| `NoLitter` | `Spec => []NothingLeftBehind` |
| `FailureKeepsOutput` | `Spec => OnlySuccessPublishes` |
| `CollisionsSafe` | `Spec => CollisionsHarmNobody` |

*The argument.* A command renames or removes by name, so it must know that the
name still means its own file. `Holdings` says that at each control point the
entries named by `temporary` and `directory` are the command's, and whole where
the code relies on it; `Leftovers` that it has made nothing else that is still
there, but for failed removals. For each action a lemma shows these for the
command that steps, and `KeepsToItself`: it changes only free names, its own
entries, and the output when it succeeds. `OthersUndisturbed` turns that into
the invariant of every other command, and the two action properties follow from
`KeepsToItself` as it stands.

`PrimitiveApplicationProofs` proves, for every width of `Int`, from `PowersAssumption`
(the prover does not interpret exponentiation; TLC evaluates the assumption):

| Theorem | Statement |
|---|---|
| `AdditionIsExact`, `SubtractionIsExact`, `MultiplicationIsExact` | the check fails exactly when the sum, difference or product is not an `Int` |
| `IntegerKernelsAreExact` | likewise for every integer kernel, and without an overflow the wrapped result is the exact one |
| `NativeIntegersAgree` | the kernels of the generated program fail for the same operands and return the same results |

*The argument.* The bounds that the additive checks subtract are `Int`s because
of the sign tested before them (`AdditiveBounds`), so nothing wraps; each sign
case of the multiplication check compares with a truncated quotient, and
`DivisionBoundsProduct` turns that into a comparison with the product.

The same module composes this with the application, for every
primitive table and every arguments, from `TrialsAssumption` (arguments are
values: an `Int` is within range, a scalar has one component):
`IntegerArithmeticIsChecked` is `Spec => []CheckedArithmetic`, the first conjunct
of `KernelsMeetReference`. Its invariant `ArithmeticInv` says what the checks
before admission leave for the loop: every parameter accepts its argument and all
vectors are as long as the first (`ArgumentsFit`). With the invocation check of
the loop, the operands of an integer kernel are then `Int`s (`OperandsAreInts`):
the implementation has `Int` parameters only, and `Int` accepts only `Int`.

`EvaluatorProofs` and `EmittedProofs` prove, for every set of flat programs that
satisfies `ProgramsAssumption` (what `rewrite_lowering_invariants_hold` checks,
what the parser guarantees of branches and placeholders, and the arities and
argument containers of calls), and for every operation that may fail:

| Theorem | Statement |
|---|---|
| `EvaluatorInvariant` | `EvaluatorSpec => []EvaluatorInv` |
| `EvaluatorOneOwnerAlways`, `EvaluatorOwnsNothingAlways` | `EvaluatorSpec => []EvaluatorOneOwner`, `[]EvaluatorOwnsNothing` |
| `UsesEndLifetimesAlways`, `OperandOutlivesTableAlways` | `EvaluatorSpec => []UsesEndLifetimes`, `[]OperandOutlivesTable` |
| `EmittedInvariant` | `EmittedSpec => []EmittedInv` |
| `NativeOneOwnerAlways`, `SlotsReadAreFilledAlways` | `EmittedSpec => []NativeOneOwner`, `[]SlotsReadAreFilled` |
| `BackendsInvariant` | `Spec => [](EvaluatorInv /\ EmittedInv)`, for the two one after the other |
| `ParityInvariant`, `SameReleasesAlways` | `Spec => []ParityInv`, `Spec => []SameReleases` |

*The argument.* One owner per value is not inductive: a release is right because
of uses that have not happened yet. `UsesLeft(n, k)` therefore says of the
program alone how often the nodes from `k` on will use `n`; `UsesAtStart`,
`UsesStep` and `UsesAtEnd` tie it to the counts that lowering writes and to the
retained roots, and `UsesFound` says what a node can rely on when it is reached.
`LoopHolds` then fixes the whole state between two nodes: the counts are
`UsesLeft`, the live slots are the nodes made with a use left, a result table
holds the branches made so far. `OwnersApart` and `InsideHolds` are ownership
itself; `FailureReleasesAll` keeps them on every exit from the loop,
`StoreKeepsInvariant` and `IterationKeepsInvariant` when the loop goes on. That
no internal error is reported, but for a spread, an ill-formed tuple or a table
with too little room (`Irregular`), is part of the invariant, because each of the
evaluator's other checks is shown to pass.

The generated program has no counts, so the same facts must be read off its
text. `Block(n)` is the code the emitter writes for node `n`: at most one shape
check, which moves nothing, at most one instruction that makes the value
(`Leading`), a release for each value used for
the last time (`Ended`), and at most one that hands the value on (`Closing`);
`Removals` says that a block takes a value out of its slot exactly when
`UsesLeft` drops to zero in it, and takes it once. `MadeAt` and `RemovedAt`
extend that to a line of a block. `EmittedInv` says that the slots are what is
made and not removed before the current line, that everything made is owned, and
that the cells below a cleanup index are a first part of the elements. Each
instruction's lemma shows what it makes and takes (`LineByOp`, `StepKeeps`), and
`CleanUpKeeps` covers every jump to `bennu_failure`. `ReadsFound` is the fact
that no slot need be checked.

*Parity.* It is proved of programs that are `Regular`, those without a call or
fan-out of the table above, for every fault the evaluator does not report as its
own. The two back ends share nothing at run time, so `SameReleases` cannot
be shown by following one beside the other. `ParityInv` says that there is a log,
indexed by node, that both are tied to: `Given(k)` is what node `k` gives up
(`Ended(k)`, then the node itself when nothing uses it), which is a function of
the program, and `History` adds it up. While the evaluator runs it has released
the log at `node_index` (`EvaluatorMovesOn`, `StoreGives`); at line `l` of block
`b` the generated program has released the log at `b` and a first part of
`Given(b)` (`NextLog`, `RunsOn`), none of it while the block is at its shape check. `Unmet` and `Before` keep both short of the node
where the failing operation is, and `StaysBefore` finds the instruction that
fails there. What is left then is `Alive(k)`: the evaluator lets go of tables
before slots and of moved values before both, the generated program of one array
downwards, and the orders agree because a live table is later than every live
slot (`AliveIsOwned`, `DescendingJoins`), and the elements of a failing tuple
later than whatever else is live (`TupleLetsGo`, the one place that needs
`Nested` and `~TupleInBranchFails`, with the roots in `RootsAreLeft`).

`NativeRuntimeProofs` proves, for every number of slots, width of tuples,
`SIZE_MAX`, program and configuration, from `RuntimeAssumption` (a program has
slots, its vectors have natural lengths, each limit is one number or not set):

| Theorem | Statement |
|---|---|
| `RuntimeKeepsItsMemory` | `Spec => []RuntimeInv` |
| `MemoryIsSound` | `Spec => []HeapSound` |
| `BackEndsAdmitAlike` | `Spec => []AdmissionsAgree` |
| `FailuresAreExplained` | `Spec => []FailureExplained` |

*The argument.* `HeapSound` speaks of one cell and its owner; a release climbs
from the innermost element back to its slot by pointers that were written when
tuples were put together, moved and taken apart. `MemoryInv` is what makes that
right. `Heap` says of the cells that each is a slot or an element of one tuple
(`Reachable`), that no two have the same storage (`OwnedApart`) and that what
they have is what was allocated and not freed (`Allocated`), that an element
which the cleanup has still to come to leads back to its tuple, and one behind
the `cleanup_index` is empty (`Linked`), and that no tuple is inside itself
(`Acyclic`: there is a depth that grows from a tuple to its elements). `OnTrail`
adds the cells that a release under way has gone into: from the slot down, each
is the one at its parent's `cleanup_index`, so that the pointers followed on the
way back are those of the way down. Making a tuple, a fan-out and a tuple
transfer all copy cells into new places, re-link the elements of what they
moved, and clear where it was; that is described and shown to keep `Heap` once
(`MovesKeepHeap`), going into an element and clearing it likewise
(`DescendKeepsHeap`, `ClearKeepsHeap`). That a release cannot end with a cell
left over is an argument about depth: of the cells that still have storage one
has the least depth (`Outermost`), and it would have to be in a slot.

`UsageInv` counts: the bytes in use are a set of pairs of an allocation and an
offset (`BytesOf`), finite, and as many as `live_bytes` says; each step adds or
removes the pairs of one allocation (`BytesAdded`, `BytesRemoved`) or keeps them,
since moves only change which cell has them. `SlotsInv` says that what was never
written is empty and what the cleanup has passed is zero; `ControlInv` which
phase has a cell to be at. Filling a tuple is a recursive function over its
elements (`Filled`); what it computes after `k` of them, `FirstPlaced`, is shown
by taking the least `k` where it would fail (`FilledIs`, from `LeastOf`).

That both back ends refuse the same requests needs of the runtime only that the
work it has counted is within its limit and within `SIZE_MAX`: one back end then
tests a request for no work against a limit that it cannot exceed, the other
does not test it, and both agree. `FailureExplained` needs in
addition that no failure is recorded before the one that ends the run
(`FailureInv`), and, for each way to fail, which limit or operand it was about:
`VectorRefusal`, `TableRefusal` and `WorkRefusal` for refusals. Between the steps
of a running program no provenance is left, because `Wrapped` clears it wherever
a call succeeds; a call that fails ends the run with what it prepared.

`TupleProofs` proves, for every width of tuples, bound on what the caller holds,
set of addresses and set of scalars, from `ConstructionAssumption` (no address is
the null pointer 0):

| Theorem | Statement |
|---|---|
| `OwnershipInvariant` | `Spec => []OwnershipInv` |
| `EveryStorageHasOneOwner` | `Spec => []OneOwner` |

*The argument.* A storage is owned by a value of the caller, by one in the
scratch of a construction, by the draft, or by the call itself while its table
is reserved and not yet given to a node. `OneOwner` looks at the sequences of
pointers that `destroy_value` would follow; `OwnershipInv` at the sets
(`HeldOnce`, `HeldApart`, `LiveIsHeld`), with the stage of the call saying where
storage may be: the slots before `done` are moved from, those behind it are not
filled yet, and the draft and the table are empty outside their stages
(`CallHolds`, `SlotsOf`). Appending an element's arena to a draft appends its
pointers (`ElementMoves`, `ConcatPointers`), hence what the draft has afterwards is
what both had before. A value that a callback has broken owns what it owned, but
is refused by every builder (`BrokenIsRefused`), and so stays with its owner. Beyond
the width of a call the scratch holds only what an earlier call left there,
because it could not be validated (`LeftBehind`).

*Only model-checked*: the conversions and Doubles of `KernelsMeetReference`;
`BackendsAgree`, which compares Doubles too; what is accepted early and late
(`AcceptedTablesServe`, `LoweredCallsAreAccepted`), where the production table is
a constant that TLC reads whole; the parser against the grammar; what the runtime prints
(`PrintsRoots`); the tree a made tuple stands for (`TreeKept`) and the walks over
tuples; and all liveness, which is outside the proof system's reach. What these
invariants compare with is defined by recursion over syntax or trees, and
induction over such data is outside it too. Recursion over a number is not,
where the claim is about one function: it has a least counterexample, as for
`Filled` above. `RuntimeInv` itself is no invariant for TLC, for it asks for a
depth of every cell among all functions; the run checks `HeapSound`, which says
of the pointers and accounts what it implies.

## Not modelled

- `move_evaluation_resources`, and the hash buckets of the host ledger.
- `tokenize_rewrite` and the decoding of parameter texts: loops over characters
  with no state beyond the position; the parser starts from tokens.
- Lowering beyond use counts and signatures: the type arena of static types and
  the order in which static failures are preferred.
- The text of the emitted C, and the formatting of numbers.
- `publish_stdout`, argument dispatch and the prompt loop: one writer, one call
  after another, with three outcomes that tests enumerate.
- Publication on Windows, path encoding, release scripts.

`PROJECT.json` gives the status and the reason for each component.

## Plan

1. `TupleConstruction` composed with the evaluator, so that a moved element is a
   range of an arena there too.
2. Lowering: the order of static failures, against the specification's.
