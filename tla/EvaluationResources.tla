------------------------ MODULE EvaluationResources ------------------------
(***************************************************************************)
(* The evaluation-resource contexts of src/src/resources.cpp and the       *)
(* semantic bindings of src/src/host_storage.cpp they rest on.             *)
(*                                                                         *)
(* A context is an EvaluationResourceState, registered under a 64-bit      *)
(* token and counted by reference_count: one reference for the context's   *)
(* lease, one per operation that is running on it (a pin) and one per      *)
(* positive reservation whose public metadata names it (its                *)
(* accounting_owner).  Clients hold plain snapshots (EvaluationResources   *)
(* records); a bitwise copy is an alias of the same lease.                 *)
(*                                                                         *)
(* The step granularity is that of the locks.  A section under the         *)
(* registry mutex or a ledger bucket mutex calls nothing and is one step.  *)
(* A transaction is several steps: taking the mutex, the body under it,    *)
(* giving it back, the observer callback, taking it again, dropping the    *)
(* pin.  Threads interleave between any two of them.                       *)
(*                                                                         *)
(* A frame <<t, d>> is one activation on thread t's stack: <<t, 1>> is the *)
(* call the client makes, <<t, d+1>> a call made by the lifetime observer  *)
(* that <<t, d>> is running.  The frames of a thread share its record.     *)
(***************************************************************************)
EXTENDS Integers, FiniteSets

CONSTANTS
  Threads,          \* client threads
  Depth,            \* how deep observer callbacks may nest calls
  Buffers,          \* payload addresses the host allocator can return
  MaxToken,         \* the last 64-bit token
  MaxOrdinal,       \* the last std::size_t reservation ordinal
  MaxSize,          \* the last std::size_t of live bytes and of work units
  MaxVersion,       \* the last 64-bit configuration version
  Configurations,   \* what clients pass to the make_*_resources factories
  Edits,            \* [field, value]: what clients change in a snapshot
  Sizes,            \* canonical byte counts of requests
  Works,            \* work units of requests
  AggregateSize,    \* the most reservations of one tuple value
  Calls             \* the API calls the clients make

ASSUME BoundsAssumption ==
  /\ Depth \in Nat \ {0} /\ MaxToken \in Nat \ {0} /\ MaxOrdinal \in Nat
  /\ MaxSize \in Nat /\ MaxVersion \in Nat \ {0} /\ AggregateSize \in Nat
  /\ Sizes \subseteq Nat /\ Works \subseteq Nat

ASSUME FiniteAssumption == IsFiniteSet(Buffers) /\ IsFiniteSet(Threads)

VARIABLES
  next_resource_token,  \* 0 once every token has been issued
  registry,             \* tokens of the registered states
  reference_count,      \* per token
  context_active,       \* tokens whose lease has not been released
  transaction_mutex,    \* per token: the frames that hold it
  shared,               \* per token: what transaction_mutex protects
  owner,                \* per thread: the token of its record, 0 if none
  record,               \* per thread: the snapshot in its record
  buffer,               \* per address: ledger binding and public metadata
  pc, call, pin, current, syncing   \* per frame

registryVars == <<next_resource_token, registry, reference_count, context_active>>
frameVars    == <<pc, call, pin, current, syncing>>
vars == <<registryVars, transaction_mutex, shared, owner, record, buffer, frameVars>>

Tokens == 1 .. MaxToken
NoToken == 0
Frames == Threads \X (1 .. Depth)
Thread(f) == f[1]

Kinds == {"vector_payload", "tuple_table", "workspace"}
LimitFields == {"max_vector_bytes", "max_live_evaluation_bytes",
                "max_work_units", "max_tuple_table_bytes"}

(***************************************************************************)
(* ExecutionProfile, ResourceLimits and AllocationFailureInjection.  A     *)
(* std::optional is a set of at most one element.                          *)
(***************************************************************************)
Configuration ==
  [profile : {"trusted_local_v1", "bounded_v1", "trusted_local_v2", "bounded_v2"},
   max_vector_bytes : SUBSET Nat, max_live_evaluation_bytes : SUBSET Nat,
   max_work_units : SUBSET Nat, max_tuple_table_bytes : SUBSET Nat,
   fail_at_reservation_ordinal : SUBSET Nat]

ASSUME ConfigurationsAssumption ==
  /\ Configurations \subseteq Configuration
  /\ \A e \in Edits : /\ e.field \in LimitFields \cup {"fail_at_reservation_ordinal"}
                      /\ e.value \in SUBSET Nat

EvaluationResourceState ==
  [config : Configuration, version : Nat, live : Nat, work : Nat,
   ordinal : Nat, observer : BOOLEAN]

\* failed_profile, failed_limits, ...: the record of a context that could
\* not be made
FailedRecord ==
  [config |-> [profile |-> "trusted_local_v1", max_vector_bytes |-> {},
               max_live_evaluation_bytes |-> {}, max_work_units |-> {},
               max_tuple_table_bytes |-> {}, fail_at_reservation_ordinal |-> {}],
   version |-> 0, live |-> 0, work |-> 0, ordinal |-> 0, observer |-> FALSE]

(***************************************************************************)
(* A buffer is in the ledger while allocated.  user holds the frame whose  *)
(* call has it, and is empty while it is in a client's hands.  bound is    *)
(* the owner_token of the ledger's binding, 0 when the binding is not      *)
(* active; owner is the accounting_owner of the public reservation record, *)
(* whose bytes, ordinal and kind equal the binding's.                      *)
(***************************************************************************)
Buffer ==
  [allocated : BOOLEAN, user : SUBSET Frames, kind : Kinds, bytes : Nat,
   ordinal : Nat, bound : 0 .. MaxToken, owner : 0 .. MaxToken,
   observer : BOOLEAN]

FreeBuffer ==
  [allocated |-> FALSE, user |-> {}, kind |-> "workspace", bytes |-> 0,
   ordinal |-> 0, bound |-> NoToken, owner |-> NoToken, observer |-> FALSE]

NewCall(op, bytes, work, resume) ==
  [op |-> op, bytes |-> bytes, work |-> work, resume |-> resume, observer |-> FALSE]
NoCall == NewCall("none", 0, 0, "idle")

HasLimit(c) == \E field \in LimitFields : c[field] # {}

\* validate_profile_configuration_locked, validate_tuple_profile_locked
ProfileAdmits(c, kind) ==
  /\ \/ c.profile \in {"trusted_local_v1", "trusted_local_v2"} /\ ~HasLimit(c)
     \/ c.profile = "bounded_v1" /\ HasLimit(c) /\ c.max_tuple_table_bytes = {}
     \/ c.profile = "bounded_v2" /\ HasLimit(c)
  /\ kind = "tuple_table" => c.profile \in {"trusted_local_v2", "bounded_v2"}

Within(n, limit) == \A m \in limit : n <= m

\* Mutant of Preflight: the live-byte limit is tested on the request alone.
Preflight_RequestOnly(s, kind, bytes, work) ==
  /\ bytes <= MaxSize - s.live
  /\ work <= MaxSize - s.work
  /\ kind = "vector_payload" => Within(bytes, s.config.max_vector_bytes)
  /\ kind = "tuple_table" => Within(bytes, s.config.max_tuple_table_bytes)
  /\ Within(bytes, s.config.max_live_evaluation_bytes)
  /\ Within(s.work + work, s.config.max_work_units)

\* preflight, with the per-request limit that its caller tests beside it
Preflight(s, kind, bytes, work) ==
  /\ bytes <= MaxSize - s.live
  /\ work <= MaxSize - s.work
  /\ kind = "vector_payload" => Within(bytes, s.config.max_vector_bytes)
  /\ kind = "tuple_table" => Within(bytes, s.config.max_tuple_table_bytes)
  /\ Within(s.live + bytes, s.config.max_live_evaluation_bytes)
  /\ Within(s.work + work, s.config.max_work_units)

-----------------------------------------------------------------------------
(***************************************************************************)
(* References.  AcquireReference and ReleaseReference are the registry     *)
(* sections of acquire_accounting_owner / retain_accounting_owner and of   *)
(* release_accounting_owner / release_acquired_resource_state.             *)
(***************************************************************************)
AcquireReference(tok) ==
  reference_count' = [reference_count EXCEPT ![tok] = @ + 1]

ReleaseReference(tok) ==
  IF tok \in registry
  THEN /\ reference_count' = [reference_count EXCEPT ![tok] = @ - 1]
       /\ registry' = IF reference_count[tok] = 1 THEN registry \ {tok} ELSE registry
  ELSE UNCHANGED <<reference_count, registry>>

(***************************************************************************)
(* Where a frame is.                                                       *)
(*   lock     pinned, waiting for the transaction mutex                    *)
(*   work     under the mutex, the body of the call                        *)
(*   callback a lifetime observer is running, no mutex held by the frame   *)
(*   drop, reset  cleanup of one reservation, under the mutex              *)
(*   unlock   returning: record-sync guard and unlock                      *)
(*   unpin    the operation reference is dropped, the mutex is free again  *)
(*   consume, refund, owner, free  context-free cleanup of one reservation *)
(***************************************************************************)
Holding == {"work", "drop", "reset", "unlock"}
PCs == Holding \cup {"idle", "lock", "callback", "unpin", "consume",
                     "refund", "owner", "free"}

SyncCalls == {"allocate_vector", "reserve_tuple_table", "reserve_workspace",
              "charge_work", "release_vector_reservation",
              "release_tuple_table", "release_workspace",
              "release_value_reservations", "detach_value_reservations"}
SnapshotCalls == {"refresh", "update_configuration", "set_lifetime_observer"}

\* Mutant of Publish: the ordinal cursor is not written back.
Publish_ForgetsOrdinal(s, r) == [s EXCEPT !.live = r.live, !.work = r.work]

Publish(s, r) == [s EXCEPT !.live = r.live, !.work = r.work, !.ordinal = r.ordinal]

\* finish_resource_record_sync with the record's contents r
FinishSync(f, r) ==
  /\ shared' = IF syncing[f]
               THEN [shared EXCEPT ![pin[f]] = Publish(@, r)] ELSE shared
  /\ syncing' = [syncing EXCEPT ![f] = FALSE]

\* Mutant of Unlock: the mutex is kept until the call returns.
Unlock_Deferred(f) ==
  transaction_mutex' = IF pc[f] = "unlock"
                       THEN [transaction_mutex EXCEPT ![pin[f]] = {}]
                       ELSE transaction_mutex

Unlock(f) == transaction_mutex' = [transaction_mutex EXCEPT ![pin[f]] = {}]

Goto(f, label) == pc' = [pc EXCEPT ![f] = label]

\* The observer runs, then the frame goes on at label.
Notify(f, observer, label) ==
  /\ pc' = [pc EXCEPT ![f] = "callback"]
  /\ call' = [call EXCEPT ![f].resume = label, ![f].observer = observer]

Claimed(f) == {b \in Buffers : f \in buffer[b].user}

\* A frame may begin a call: it is not in one, and for a nested frame the
\* observer it belongs to is running.
MayCall(f) ==
  /\ pc[f] = "idle"
  /\ f[2] > 1 => LET outer == <<f[1], f[2] - 1>>
                 IN  pc[outer] = "callback" /\ call[outer].observer

InnerIdle(f) == f[2] < Depth => pc[<<f[1], f[2] + 1>>] = "idle"

\* Mutant of Validated: a released lease still validates.
Validated_IgnoresLease(f) == owner[Thread(f)] \in registry

\* acquire_validated_resource_state succeeds
Validated(f) == owner[Thread(f)] \in registry /\ owner[Thread(f)] \in context_active

BeginPinned(f, op, bytes, work) ==
  /\ Validated(f)
  /\ AcquireReference(owner[Thread(f)])
  /\ pin' = [pin EXCEPT ![f] = owner[Thread(f)]]
  /\ Goto(f, "lock")
  /\ call' = [call EXCEPT ![f] = NewCall(op, bytes, work, "work")]

-----------------------------------------------------------------------------
(***************************************************************************)
(* Contexts and their records.                                             *)
(***************************************************************************)

\* Mutant of NextToken: the sequence starts over.
NextToken_Wraps(tok) == IF tok = MaxToken THEN 1 ELSE tok + 1

\* issue_resource_token_locked
NextToken(tok) == IF tok = MaxToken THEN NoToken ELSE tok + 1

\* make_resource_record.  When malloc fails or the tokens are exhausted the
\* caller gets a record without a token, which is what it had.
MakeContext(f, c) ==
  /\ "make" \in Calls
  /\ MayCall(f)
  /\ owner[Thread(f)] = NoToken
  /\ next_resource_token # NoToken
  /\ LET tok == next_resource_token
         s   == [config |-> c, version |-> 1, live |-> 0, work |-> 0,
                 ordinal |-> 0, observer |-> FALSE]
     IN  /\ next_resource_token' = NextToken(tok)
         /\ registry' = registry \cup {tok}
         /\ reference_count' = [reference_count EXCEPT ![tok] = 1]
         /\ context_active' = context_active \cup {tok}
         /\ shared' = [shared EXCEPT ![tok] = s]
         /\ owner' = [owner EXCEPT ![Thread(f)] = tok]
         /\ record' = [record EXCEPT ![Thread(f)] = s]
  /\ UNCHANGED <<transaction_mutex, buffer, frameVars>>

\* A client copies another thread's record: a second alias of one lease.
CopyRecord(t, u) ==
  /\ "copy" \in Calls
  /\ t # u /\ owner[t] = NoToken /\ owner[u] # NoToken
  /\ \A f \in Frames : Thread(f) \in {t, u} => pc[f] = "idle"
  /\ owner' = [owner EXCEPT ![t] = owner[u]]
  /\ record' = [record EXCEPT ![t] = record[u]]
  /\ UNCHANGED <<registryVars, transaction_mutex, shared, buffer, frameVars>>

\* Mutant of ReleaseContext: the operation takes a pin of its own and the
\* lease's reference is forgotten.
ReleaseContext_ForgetsLease(f) ==
  /\ "release_context" \in Calls
  /\ MayCall(f)
  /\ owner[Thread(f)] # NoToken
  /\ IF Validated(f)
     THEN /\ context_active' = context_active \ {owner[Thread(f)]}
          /\ AcquireReference(owner[Thread(f)])
          /\ pin' = [pin EXCEPT ![f] = owner[Thread(f)]]
          /\ Goto(f, "lock")
          /\ call' = [call EXCEPT ![f] = NewCall("release_context", 0, 0, "work")]
          /\ UNCHANGED owner
     ELSE /\ owner' = [owner EXCEPT ![Thread(f)] = NoToken]
          /\ UNCHANGED <<context_active, pin, pc, call, reference_count>>
  /\ UNCHANGED <<next_resource_token, registry, transaction_mutex, shared, record,
                 buffer, current, syncing>>

\* release_evaluation_resources, first registry section: the lease's own
\* reference becomes the operation's pin.  An alias whose lease is gone only
\* loses its token.
ReleaseContext(f) ==
  /\ "release_context" \in Calls
  /\ MayCall(f)
  /\ owner[Thread(f)] # NoToken
  /\ IF Validated(f)
     THEN /\ context_active' = context_active \ {owner[Thread(f)]}
          /\ pin' = [pin EXCEPT ![f] = owner[Thread(f)]]
          /\ Goto(f, "lock")
          /\ call' = [call EXCEPT ![f] = NewCall("release_context", 0, 0, "work")]
          /\ UNCHANGED owner
     ELSE /\ owner' = [owner EXCEPT ![Thread(f)] = NoToken]
          /\ UNCHANGED <<context_active, pin, pc, call>>
  /\ UNCHANGED <<next_resource_token, registry, reference_count, transaction_mutex,
                 shared, record, buffer, current, syncing>>

\* Mutant of ReleaseContextBody: the transaction is not given back.
ReleaseContextBody_KeepsLock(f) ==
  /\ pc[f] = "work" /\ call[f].op = "release_context"
  /\ record' = [record EXCEPT ![Thread(f)] = shared[pin[f]]]
  /\ owner' = [owner EXCEPT ![Thread(f)] = NoToken]
  /\ Goto(f, "unpin")
  /\ UNCHANGED <<registryVars, transaction_mutex, shared, buffer, call, pin,
                 current, syncing>>

\* ... and its transaction: the last snapshot, and the tokens are cleared.
ReleaseContextBody(f) ==
  /\ pc[f] = "work" /\ call[f].op = "release_context"
  /\ record' = [record EXCEPT ![Thread(f)] = shared[pin[f]]]
  /\ owner' = [owner EXCEPT ![Thread(f)] = NoToken]
  /\ Unlock(f)
  /\ Goto(f, "unpin")
  /\ UNCHANGED <<registryVars, shared, buffer, call, pin, current, syncing>>

\* refresh_evaluation_resources, set_evaluation_resource_lifetime_observer
BeginSnapshotCall(f, op) ==
  /\ op \in Calls \cap {"refresh", "set_lifetime_observer"}
  /\ MayCall(f)
  /\ BeginPinned(f, op, 0, 0)
  /\ UNCHANGED <<next_resource_token, registry, context_active, transaction_mutex,
                 shared, owner, record, buffer, current, syncing>>

\* The client changes one field of its snapshot and publishes it.
BeginUpdate(f, e) ==
  /\ "update_configuration" \in Calls
  /\ MayCall(f)
  /\ BeginPinned(f, "update_configuration", 0, 0)
  /\ record' = [record EXCEPT ![Thread(f)].config[e.field] = e.value]
  /\ UNCHANGED <<next_resource_token, registry, context_active, transaction_mutex,
                 shared, owner, buffer, current, syncing>>

RefreshBody(f) ==
  /\ pc[f] = "work" /\ call[f].op = "refresh"
  /\ record' = [record EXCEPT ![Thread(f)] = shared[pin[f]]]
  /\ Unlock(f)
  /\ Goto(f, "unpin")
  /\ UNCHANGED <<registryVars, shared, owner, buffer, call, pin, current, syncing>>

SetObserverBody(f) ==
  /\ pc[f] = "work" /\ call[f].op = "set_lifetime_observer"
  /\ \E observer \in BOOLEAN :
       /\ shared' = [shared EXCEPT ![pin[f]].observer = observer]
       /\ record' = [record EXCEPT ![Thread(f)].observer = observer]
  /\ Unlock(f)
  /\ Goto(f, "unpin")
  /\ UNCHANGED <<registryVars, owner, buffer, call, pin, current, syncing>>

\* Mutant of UpdateBody: the last writer wins, whatever its version.
UpdateBody_LastWriterWins(f) ==
  LET tok == pin[f]
      t   == Thread(f)
  IN  /\ pc[f] = "work" /\ call[f].op = "update_configuration"
      /\ IF shared[tok].version = MaxVersion
         THEN UNCHANGED <<record, shared>>
         ELSE /\ shared' = [shared EXCEPT ![tok].config = record[t].config,
                                          ![tok].version = @ + 1]
              /\ record' = [record EXCEPT ![t].version = shared[tok].version + 1]
      /\ Unlock(f)
      /\ Goto(f, "unpin")
      /\ UNCHANGED <<registryVars, owner, buffer, call, pin, current, syncing>>

\* update_evaluation_resource_configuration: stale_snapshot,
\* version_exhausted, updated
UpdateBody(f) ==
  LET tok == pin[f]
      t   == Thread(f)
  IN  /\ pc[f] = "work" /\ call[f].op = "update_configuration"
      /\ \/ /\ record[t].version # shared[tok].version
            /\ record' = [record EXCEPT ![t] = shared[tok]]
            /\ UNCHANGED shared
         \/ /\ record[t].version = shared[tok].version
            /\ shared[tok].version = MaxVersion
            /\ UNCHANGED <<record, shared>>
         \/ /\ record[t].version = shared[tok].version
            /\ shared[tok].version # MaxVersion
            /\ shared' = [shared EXCEPT ![tok].config = record[t].config,
                                        ![tok].version = @ + 1]
            /\ record' = [record EXCEPT ![t].version = @ + 1]
      /\ Unlock(f)
      /\ Goto(f, "unpin")
      /\ UNCHANGED <<registryVars, owner, buffer, call, pin, current, syncing>>

-----------------------------------------------------------------------------
(***************************************************************************)
(* Reservations.                                                           *)
(***************************************************************************)
AllocationCalls == {"allocate_vector", "reserve_tuple_table", "reserve_workspace"}

KindOf(op) == CASE op = "allocate_vector"     -> "vector_payload"
                [] op = "reserve_tuple_table" -> "tuple_table"
                [] OTHER                      -> "workspace"

\* allocate_vector, reserve_tuple_table, reserve_workspace and charge_work
\* validate the record and pin the state; a refusal here changes nothing.
BeginCharge(f, op, bytes, work) ==
  /\ op \in Calls \cap (AllocationCalls \cup {"charge_work"})
  /\ MayCall(f)
  /\ op = "reserve_tuple_table" => work = 0
  /\ op = "charge_work" => bytes = 0
  /\ BeginPinned(f, op, bytes, work)
  /\ UNCHANGED <<next_resource_token, registry, context_active, transaction_mutex,
                 shared, owner, record, buffer, current, syncing>>

\* Mutants of Lock: an alias keeps its own policy at entry; the working copy
\* is not refreshed after a callback.
Lock_TrustsAlias(f) ==
  /\ pc[f] = "lock"
  /\ transaction_mutex[pin[f]] = {}
  /\ transaction_mutex' = [transaction_mutex EXCEPT ![pin[f]] = {f}]
  /\ Goto(f, call[f].resume)
  /\ IF call[f].op \in SyncCalls /\ call[f].resume # "unlock"
     THEN /\ record' = [record EXCEPT ![Thread(f)] =
                         [shared[pin[f]] EXCEPT !.config = record[Thread(f)].config]]
          /\ syncing' = [syncing EXCEPT ![f] = TRUE]
     ELSE UNCHANGED <<record, syncing>>
  /\ UNCHANGED <<registryVars, shared, owner, buffer, call, pin, current>>

Lock_KeepsWorkingCopy(f) ==
  /\ pc[f] = "lock"
  /\ transaction_mutex[pin[f]] = {}
  /\ transaction_mutex' = [transaction_mutex EXCEPT ![pin[f]] = {f}]
  /\ Goto(f, call[f].resume)
  /\ IF call[f].op \in SyncCalls /\ call[f].resume # "unlock"
     THEN /\ record' = IF call[f].resume = "work"
                       THEN [record EXCEPT ![Thread(f)] = shared[pin[f]]] ELSE record
          /\ syncing' = [syncing EXCEPT ![f] = TRUE]
     ELSE UNCHANGED <<record, syncing>>
  /\ UNCHANGED <<registryVars, shared, owner, buffer, call, pin, current>>

\* transaction.lock(), and begin_resource_record_sync where the code begins
\* one: at entry and after each callback of an aggregate cleanup.
Lock(f) ==
  /\ pc[f] = "lock"
  /\ transaction_mutex[pin[f]] = {}
  /\ transaction_mutex' = [transaction_mutex EXCEPT ![pin[f]] = {f}]
  /\ Goto(f, call[f].resume)
  /\ IF call[f].op \in SyncCalls /\ call[f].resume # "unlock"
     THEN /\ record' = [record EXCEPT ![Thread(f)] = shared[pin[f]]]
          /\ syncing' = [syncing EXCEPT ![f] = TRUE]
     ELSE UNCHANGED <<record, syncing>>
  /\ UNCHANGED <<registryVars, shared, owner, buffer, call, pin, current>>

\* commit_admission
Commit(r, bytes, work) == [r EXCEPT !.live = @ + bytes, !.work = @ + work]

\* What decides a request under the lock, on the refreshed record r.
Admissible(r, c) ==
  /\ ProfileAdmits(r.config, KindOf(c.op))
  /\ Preflight(r, KindOf(c.op), c.bytes, c.work)

\* A refusal, and an admission that reserves no storage: zero bytes, or work.
ChargeWithoutStorage(f) ==
  LET c == call[f]
      r == record[Thread(f)]
  IN  /\ pc[f] = "work" /\ c.op \in AllocationCalls \cup {"charge_work"}
      /\ \/ /\ ~Admissible(r, c) \/ (c.bytes # 0 /\ r.ordinal = MaxOrdinal)
            /\ UNCHANGED record
         \/ /\ Admissible(r, c) /\ c.bytes = 0
            /\ record' = [record EXCEPT ![Thread(f)] = Commit(@, 0, c.work)]
      /\ Goto(f, "unlock")
      /\ UNCHANGED <<registryVars, transaction_mutex, shared, owner, buffer,
                     call, pin, current, syncing>>

\* The attempt has drawn its ordinal when the injected failure, or the host
\* allocator, refuses the storage.
AllocationFails(f) ==
  LET c == call[f]
      r == record[Thread(f)]
  IN  /\ pc[f] = "work" /\ c.op \in AllocationCalls
      /\ Admissible(r, c) /\ c.bytes # 0 /\ r.ordinal # MaxOrdinal
      /\ record' = [record EXCEPT ![Thread(f)].ordinal = @ + 1]
      /\ Goto(f, "unlock")
      /\ UNCHANGED <<registryVars, transaction_mutex, shared, owner, buffer,
                     call, pin, current, syncing>>

\* allocate_tracked_host_buffer retains the owner and binds the buffer, the
\* admission is committed, and vectors and tuple tables publish it before
\* their observer runs.
AllocationSucceeds(f, b) ==
  LET c == call[f]
      t == Thread(f)
      r == [Commit(record[t], c.bytes, c.work) EXCEPT !.ordinal = @ + 1]
  IN  /\ pc[f] = "work" /\ c.op \in AllocationCalls
      /\ Admissible(record[t], c) /\ c.bytes # 0 /\ record[t].ordinal # MaxOrdinal
      /\ record[t].ordinal \notin record[t].config.fail_at_reservation_ordinal
      /\ ~buffer[b].allocated
      /\ owner[t] \in registry
      /\ AcquireReference(owner[t])
      /\ buffer' = [buffer EXCEPT ![b] =
           [allocated |-> TRUE, user |-> {f}, kind |-> KindOf(c.op), bytes |-> c.bytes,
            ordinal |-> record[t].ordinal, bound |-> owner[t], owner |-> owner[t],
            observer |-> c.op # "reserve_workspace" /\ record[t].observer]]
      /\ record' = [record EXCEPT ![t] = r]
      /\ IF c.op = "reserve_workspace"
         THEN /\ Goto(f, "unlock")
              /\ UNCHANGED <<shared, syncing, transaction_mutex, call>>
         ELSE /\ FinishSync(f, r)
              /\ Unlock(f)
              /\ Notify(f, r.observer,
                        IF c.op = "allocate_vector" THEN "unlock" ELSE "unpin")
      /\ UNCHANGED <<next_resource_token, registry, context_active, owner, pin, current>>

-----------------------------------------------------------------------------
(***************************************************************************)
(* Release through a context.                                              *)
(***************************************************************************)
ReleaseCallOf(kind) == CASE kind = "vector_payload" -> "release_vector_reservation"
                         [] kind = "tuple_table"    -> "release_tuple_table"
                         [] OTHER                   -> "release_workspace"

ReleaseCalls == {"release_vector_reservation", "release_tuple_table", "release_workspace"}
AggregateCalls == {"release_value_reservations", "detach_value_reservations"}

InClientHands(b) == buffer[b].allocated /\ buffer[b].user = {}

\* The value of a call: one reservation, or the reservations of a tuple.
IsValue(B) ==
  /\ B # {} /\ \A b \in B : InClientHands(b)
  /\ \A b \in B : buffer[b].kind = "workspace" => B = {b}
  /\ Cardinality(B) > 1 => /\ Cardinality(B) <= AggregateSize
                           /\ \E b \in B : buffer[b].kind = "tuple_table"

Claim(f, B) == buffer' = [b \in Buffers |->
                 IF b \in B THEN [buffer[b] EXCEPT !.user = {f}] ELSE buffer[b]]

\* same_owner, over the active reservations of the value
SameOwner(f, B) == \A b \in B : buffer[b].owner \in {NoToken, owner[Thread(f)]}

BeginRelease(f, B) ==
  /\ MayCall(f)
  /\ IsValue(B)
  /\ \E op \in Calls \cap (ReleaseCalls \cup AggregateCalls) :
       /\ op \in ReleaseCalls => \A b \in B : op = ReleaseCallOf(buffer[b].kind)
       /\ op \in ReleaseCalls => Cardinality(B) = 1
       /\ op \in AggregateCalls => \A b \in B : buffer[b].kind # "workspace"
       \* a lone vector is handed to release_vector_reservation
       /\ op = "release_value_reservations" =>
            \E b \in B : buffer[b].kind = "tuple_table"
       \* resource_context_mismatch is decided before the transaction, except
       \* for workspaces; a vector or table without an owner has no mismatch.
       /\ op # "release_workspace" => SameOwner(f, B)
       /\ BeginPinned(f, op, 0, 0)
  /\ Claim(f, B)
  /\ UNCHANGED <<next_resource_token, registry, context_active, transaction_mutex,
                 shared, owner, record, current, syncing>>

\* consume_allocation_binding
Consumable(b) == buffer[b].owner # NoToken /\ buffer[b].bound = buffer[b].owner

\* release_vector_reservation and release_tuple_table under the lock:
\* consume, refund, drop the reservation's reference, free, publish; then
\* both release events with the mutex free.
ReleaseBody(f, b) ==
  LET r == [record[Thread(f)] EXCEPT !.live = IF buffer[b].bytes <= @
                                              THEN @ - buffer[b].bytes ELSE @]
  IN  /\ pc[f] = "work" /\ b \in Claimed(f)
      /\ call[f].op \in {"release_vector_reservation", "release_tuple_table"}
      /\ IF Consumable(b)
         THEN /\ record' = [record EXCEPT ![Thread(f)] = r]
              /\ ReleaseReference(buffer[b].owner)
              /\ buffer' = [buffer EXCEPT ![b] = FreeBuffer]
              /\ FinishSync(f, r)
              /\ Unlock(f)
              /\ Notify(f, buffer[b].observer, "unlock")
         ELSE /\ Goto(f, "unlock")
              /\ UNCHANGED <<record, registry, reference_count, buffer, shared,
                             syncing, transaction_mutex, call>>
      /\ UNCHANGED <<next_resource_token, context_active, owner, pin, current>>

\* release_workspace has no observer and tests the owner under the lock.
ReleaseWorkspaceBody(f, b) ==
  /\ pc[f] = "work" /\ b \in Claimed(f) /\ call[f].op = "release_workspace"
  /\ IF /\ buffer[b].owner = owner[Thread(f)]
        /\ buffer[b].bytes <= record[Thread(f)].live
        /\ Consumable(b)
     THEN /\ record' = [record EXCEPT ![Thread(f)].live = @ - buffer[b].bytes]
          /\ ReleaseReference(buffer[b].owner)
          /\ buffer' = [buffer EXCEPT ![b] = FreeBuffer]
     ELSE UNCHANGED <<record, registry, reference_count, buffer>>
  /\ Goto(f, "unlock")
  /\ UNCHANGED <<next_resource_token, context_active, transaction_mutex, shared,
                 owner, call, pin, current, syncing>>

-----------------------------------------------------------------------------
(***************************************************************************)
(* Cleanup of a tuple, one reservation after another.  The walk order of   *)
(* the flat arena is abstracted to "some reservation not yet visited".     *)
(***************************************************************************)

\* Mutant of AggregateConsume: the observer runs before the refund is
\* published, and the refresh after it takes the refund back.
AggregateConsume_PublishesLate(f, b) ==
  LET t == Thread(f)
      r == [record[t] EXCEPT !.live = @ - buffer[b].bytes]
  IN  /\ pc[f] = "work" /\ call[f].op \in AggregateCalls /\ b \in Claimed(f)
      /\ Consumable(b) /\ buffer[b].bytes <= record[t].live
      /\ buffer' = [buffer EXCEPT ![b].bound = NoToken]
      /\ current' = [current EXCEPT ![f] = {b}]
      /\ record' = [record EXCEPT ![t] = r]
      /\ syncing' = [syncing EXCEPT ![f] = FALSE]
      /\ Unlock(f)
      /\ Notify(f, buffer[b].observer, "drop")
      /\ UNCHANGED <<registryVars, shared, owner, pin>>

\* consume, refund, and logical_release through observe_lifetime_unlocked
AggregateConsume(f, b) ==
  LET t == Thread(f)
      r == [record[t] EXCEPT !.live = @ - buffer[b].bytes]
  IN  /\ pc[f] = "work" /\ call[f].op \in AggregateCalls /\ b \in Claimed(f)
      /\ IF ~Consumable(b)
         THEN /\ Goto(f, "unlock")
              /\ UNCHANGED <<record, buffer, shared, syncing, transaction_mutex,
                             call, current>>
         ELSE /\ buffer' = [buffer EXCEPT ![b].bound = NoToken]
              /\ current' = [current EXCEPT ![f] = {b}]
              /\ IF buffer[b].bytes <= record[t].live
                 THEN /\ record' = [record EXCEPT ![t] = r]
                      /\ FinishSync(f, r)
                      /\ Unlock(f)
                      /\ Notify(f, buffer[b].observer, "drop")
                 ELSE /\ Goto(f, "drop")
                      /\ UNCHANGED <<record, shared, syncing, transaction_mutex, call>>
      /\ UNCHANGED <<registryVars, owner, pin>>

\* The reservation's reference; a release goes on to physical_release.
AggregateDrop(f, b) ==
  /\ pc[f] = "drop" /\ b \in current[f]
  /\ ReleaseReference(buffer[b].owner)
  /\ IF call[f].op = "release_value_reservations"
     THEN /\ buffer' = [buffer EXCEPT ![b].owner = NoToken]
          /\ FinishSync(f, record[Thread(f)])
          /\ Unlock(f)
          /\ Notify(f, buffer[b].observer, "reset")
          /\ UNCHANGED current
     ELSE /\ buffer' = [buffer EXCEPT ![b].owner = NoToken, ![b].user = {}]
          /\ current' = [current EXCEPT ![f] = {}]
          /\ Goto(f, IF Claimed(f) = {b} THEN "unlock" ELSE "work")
          /\ UNCHANGED <<shared, syncing, transaction_mutex, call>>
  /\ UNCHANGED <<next_resource_token, context_active, owner, record, pin>>

AggregateReset(f, b) ==
  /\ pc[f] = "reset" /\ b \in current[f]
  /\ buffer' = [buffer EXCEPT ![b] = FreeBuffer]
  /\ current' = [current EXCEPT ![f] = {}]
  /\ Goto(f, IF Claimed(f) = {b} THEN "unlock" ELSE "work")
  /\ UNCHANGED <<registryVars, transaction_mutex, shared, owner, record, call,
                 pin, syncing>>

-----------------------------------------------------------------------------
(***************************************************************************)
(* Context-free cleanup.  destroy_value walks the value and, for each      *)
(* reservation, consumes the binding, refunds under a pin of its own, and  *)
(* drops the reservation's reference.  A reservation whose storage handle  *)
(* is simply dropped reaches release_abandoned_semantic_allocation from    *)
(* the deleter; there the pin outlives the reservation's reference.        *)
(***************************************************************************)
CleanupCalls == {"destroy_value", "abandon"}

BeginCleanup(f, B) ==
  /\ MayCall(f)
  /\ IsValue(B)
  /\ \E op \in Calls \cap CleanupCalls :
       /\ op = "destroy_value" => \A b \in B : buffer[b].kind # "workspace"
       /\ op = "abandon" => Cardinality(B) = 1
       /\ call' = [call EXCEPT ![f] = NewCall(op, 0, 0, "idle")]
  /\ Claim(f, B)
  /\ Goto(f, "consume")
  /\ UNCHANGED <<registryVars, transaction_mutex, shared, owner, record, pin,
                 current, syncing>>

\* refund_resource_state_bytes consumes first; remove_host_allocation takes
\* the record out of the ledger.  A detached reservation has no binding.
Consume(f, b) ==
  /\ pc[f] = "consume" /\ b \in Claimed(f)
  /\ current' = [current EXCEPT ![f] = {b}]
  /\ buffer' = [buffer EXCEPT ![b].bound = NoToken]
  /\ Goto(f, IF Consumable(b) THEN "refund" ELSE "owner")
  /\ UNCHANGED <<registryVars, transaction_mutex, shared, owner, record, call,
                 pin, syncing>>

\* Mutant of RefundPin: a value that outlives its lease is not refunded.
RefundPin_NeedsLease(f, b) ==
  /\ pc[f] = "refund" /\ b \in current[f]
  /\ IF buffer[b].owner \in registry \cap context_active
     THEN /\ AcquireReference(buffer[b].owner)
          /\ pin' = [pin EXCEPT ![f] = buffer[b].owner]
          /\ Goto(f, "lock")
          /\ call' = [call EXCEPT ![f].resume = "work"]
     ELSE /\ Goto(f, "owner")
          /\ UNCHANGED <<reference_count, pin, call>>
  /\ UNCHANGED <<next_resource_token, registry, context_active, transaction_mutex,
                 shared, owner, record, buffer, current, syncing>>

\* acquire_accounting_owner needs no active lease.
RefundPin(f, b) ==
  /\ pc[f] = "refund" /\ b \in current[f]
  /\ IF buffer[b].owner \in registry
     THEN /\ AcquireReference(buffer[b].owner)
          /\ pin' = [pin EXCEPT ![f] = buffer[b].owner]
          /\ Goto(f, "lock")
          /\ call' = [call EXCEPT ![f].resume = "work"]
     ELSE /\ Goto(f, "owner")
          /\ UNCHANGED <<reference_count, pin, call>>
  /\ UNCHANGED <<next_resource_token, registry, context_active, transaction_mutex,
                 shared, owner, record, buffer, current, syncing>>

RefundBody(f, b) ==
  /\ pc[f] = "work" /\ call[f].op \in CleanupCalls /\ b \in current[f]
  /\ shared' = [shared EXCEPT ![pin[f]].live = IF buffer[b].bytes <= @
                                               THEN @ - buffer[b].bytes ELSE @]
  /\ Unlock(f)
  /\ Goto(f, IF call[f].op = "abandon" THEN "owner" ELSE "unpin")
  /\ UNCHANGED <<registryVars, owner, record, buffer, call, pin, current, syncing>>

\* release_accounting_owner; for destroy_value physical_release follows.
DropOwner(f, b) ==
  /\ pc[f] = "owner" /\ b \in current[f]
  /\ ReleaseReference(buffer[b].owner)
  /\ buffer' = [buffer EXCEPT ![b].owner = NoToken]
  /\ IF call[f].op = "abandon"
     THEN /\ Goto(f, IF pin[f] = NoToken THEN "free" ELSE "unpin")
          /\ UNCHANGED call
     ELSE Notify(f, buffer[b].observer, "free")
  /\ UNCHANGED <<next_resource_token, context_active, transaction_mutex, shared,
                 owner, record, pin, current, syncing>>

Return(f) ==
  /\ pc' = [pc EXCEPT ![f] = "idle"]
  /\ call' = [call EXCEPT ![f] = NoCall]

FreeStorage(f, b) ==
  /\ pc[f] = "free" /\ b \in current[f]
  /\ buffer' = [buffer EXCEPT ![b] = FreeBuffer]
  /\ current' = [current EXCEPT ![f] = {}]
  /\ IF Claimed(f) = {b}
     THEN Return(f)
     ELSE Goto(f, "consume") /\ UNCHANGED call
  /\ UNCHANGED <<registryVars, transaction_mutex, shared, owner, record, pin, syncing>>

-----------------------------------------------------------------------------
(***************************************************************************)
(* Callbacks and the way out of a call.                                    *)
(***************************************************************************)

\* The observer returns; its own calls have returned.  What follows is
\* under the mutex again unless the call is past its last transaction.
EndCallback(f) ==
  /\ pc[f] = "callback" /\ InnerIdle(f)
  /\ Goto(f, IF call[f].resume \in Holding THEN "lock" ELSE call[f].resume)
  /\ call' = [call EXCEPT ![f].observer = FALSE]
  /\ UNCHANGED <<registryVars, transaction_mutex, shared, owner, record, buffer,
                 pin, current, syncing>>

\* ResourceRecordSyncGuard, then the unique_lock
Leave(f) ==
  /\ pc[f] = "unlock"
  /\ FinishSync(f, record[Thread(f)])
  /\ Unlock(f)
  /\ Goto(f, "unpin")
  /\ UNCHANGED <<registryVars, owner, record, buffer, call, pin, current>>

\* ResourceStatePin: release_acquired_resource_state
Unpin(f) ==
  /\ pc[f] = "unpin"
  /\ ReleaseReference(pin[f])
  /\ pin' = [pin EXCEPT ![f] = NoToken]
  /\ CASE call[f].op = "destroy_value" ->
            /\ \E b \in current[f] : Notify(f, buffer[b].observer, "owner")
            /\ UNCHANGED buffer
       [] call[f].op = "abandon" ->
            Goto(f, "free") /\ UNCHANGED <<call, buffer>>
       [] OTHER ->
            /\ Return(f)
            /\ buffer' = [b \in Buffers |-> [buffer[b] EXCEPT !.user = @ \ {f}]]
  /\ UNCHANGED <<next_resource_token, context_active, transaction_mutex, shared,
                 owner, record, current, syncing>>

-----------------------------------------------------------------------------
Init ==
  /\ next_resource_token = 1
  /\ registry = {}
  /\ reference_count = [tok \in Tokens |-> 0]
  /\ context_active = {}
  /\ transaction_mutex = [tok \in Tokens |-> {}]
  /\ shared = [tok \in Tokens |-> FailedRecord]
  /\ record = [t \in Threads |-> FailedRecord]
  /\ owner = [t \in Threads |-> NoToken]
  /\ buffer = [b \in Buffers |-> FreeBuffer]
  /\ pc = [f \in Frames |-> "idle"]
  /\ call = [f \in Frames |-> NoCall]
  /\ pin = [f \in Frames |-> NoToken]
  /\ current = [f \in Frames |-> {}]
  /\ syncing = [f \in Frames |-> FALSE]

\* A client, or an observer, begins a call.
Begin(f) ==
  \/ \E c \in Configurations : MakeContext(f, c)
  \/ ReleaseContext(f)
  \/ \E op \in {"refresh", "set_lifetime_observer"} : BeginSnapshotCall(f, op)
  \/ \E e \in Edits : BeginUpdate(f, e)
  \/ \E op \in AllocationCalls \cup {"charge_work"}, bytes \in Sizes, work \in Works :
       BeginCharge(f, op, bytes, work)
  \/ \E B \in SUBSET Buffers : BeginRelease(f, B) \/ BeginCleanup(f, B)

\* The code of a call that has begun.
Step(f) ==
  \/ Lock(f) \/ Leave(f) \/ Unpin(f) \/ EndCallback(f)
  \/ ReleaseContextBody(f) \/ RefreshBody(f) \/ SetObserverBody(f) \/ UpdateBody(f)
  \/ ChargeWithoutStorage(f) \/ AllocationFails(f)
  \/ \E b \in Buffers :
       \/ AllocationSucceeds(f, b)
       \/ ReleaseBody(f, b) \/ ReleaseWorkspaceBody(f, b)
       \/ AggregateConsume(f, b) \/ AggregateDrop(f, b) \/ AggregateReset(f, b)
       \/ Consume(f, b) \/ RefundPin(f, b) \/ RefundBody(f, b)
       \/ DropOwner(f, b) \/ FreeStorage(f, b)

Next ==
  \/ \E f \in Frames : Begin(f) \/ Step(f)
  \/ \E t, u \in Threads : CopyRecord(t, u)

Spec == Init /\ [][Next]_vars

\* A call that has begun keeps running: threads are not stopped inside the
\* library, and no mutex is needed to enter a registry section.
FairSpec == Spec /\ \A f \in Frames : WF_vars(Step(f))

\* The documented duty of a client: it destroys the values it holds.
DestroysValues == \E t \in Threads, B \in SUBSET Buffers : BeginCleanup(<<t, 1>>, B)

DisciplinedSpec == FairSpec /\ WF_vars(DestroysValues)

-----------------------------------------------------------------------------
(***************************************************************************)
(* Properties.                                                             *)
(***************************************************************************)
Operations == SyncCalls \cup SnapshotCalls \cup CleanupCalls \cup {"none", "release_context"}
Call == [op : Operations, bytes : Nat, work : Nat, resume : PCs, observer : BOOLEAN]

\* Every variable has its type.
TypeOK ==
  /\ next_resource_token \in 0 .. MaxToken
  /\ registry \in SUBSET Tokens
  /\ reference_count \in [Tokens -> Nat]
  /\ context_active \in SUBSET Tokens
  /\ transaction_mutex \in [Tokens -> SUBSET Frames]
  /\ shared \in [Tokens -> EvaluationResourceState]
  /\ owner \in [Threads -> 0 .. MaxToken]
  /\ record \in [Threads -> EvaluationResourceState]
  /\ buffer \in [Buffers -> Buffer]
  /\ pc \in [Frames -> PCs]
  /\ call \in [Frames -> Call]
  /\ pin \in [Frames -> 0 .. MaxToken]
  /\ current \in [Frames -> SUBSET Buffers]
  /\ syncing \in [Frames -> BOOLEAN]

\* What holds a reference to a state: its lease, the operations pinned to it
\* and the reservations whose public record names it.
Holders(tok) ==
  {h \in {<<"lease", tok>>} : tok \in context_active}
    \cup {<<"pin", f>> : f \in {g \in Frames : pin[g] = tok}}
    \cup {<<"reservation", b>> : b \in {c \in Buffers : buffer[c].owner = tok}}

\* The reference count is the number of holders, and a state is destroyed
\* exactly when the last of them lets go: no leaked state, and no pinned
\* operation, live value or held mutex of a destroyed one.
ReclaimedWhenUnheld ==
  \A tok \in Tokens :
    /\ reference_count[tok] = Cardinality(Holders(tok))
    /\ tok \in registry <=> Holders(tok) # {}
    /\ transaction_mutex[tok] # {} => tok \in registry

\* A cleanup has consumed b's binding and not refunded its bytes yet.
Refunding(b) ==
  \E f \in Frames : /\ call[f].op \in CleanupCalls /\ b \in current[f]
                    /\ pc[f] \in {"refund", "lock", "work"}

\* The bytes, one by one, that reservations still charge to tok.
ChargedBytes(tok) ==
  {byte \in Buffers \X (1 .. MaxSize) :
     LET b == byte[1]
     IN  /\ byte[2] <= buffer[b].bytes
         /\ buffer[b].bound = tok \/ (buffer[b].owner = tok /\ Refunding(b))}

\* The authoritative counters: the working copy of the transaction that is
\* open, the shared state otherwise.
Counters(tok) ==
  IF \E f \in Frames : syncing[f] /\ pin[f] = tok
  THEN record[Thread(CHOOSE f \in Frames : syncing[f] /\ pin[f] = tok)]
  ELSE shared[tok]

\* live_evaluation_bytes is exactly what the outstanding reservations were
\* charged, whatever callbacks, aliases and releases interleave.
LiveBytesExact ==
  \A tok \in registry : Counters(tok).live = Cardinality(ChargedBytes(tok))

\* No two outstanding reservations of a context carry the same ordinal, and
\* the next one to be drawn is above them all.
OrdinalsUnique ==
  \A b, c \in Buffers :
    /\ buffer[b].owner # NoToken => buffer[b].ordinal < Counters(buffer[b].owner).ordinal
    /\ (b # c /\ buffer[b].owner = buffer[c].owner /\ buffer[b].owner # NoToken)
         => buffer[b].ordinal # buffer[c].ordinal

\* The holder of a transaction mutex is running, never waiting for a mutex
\* or for its observer, so a waiting call always waits for a running one.
NoWaitForWaiter ==
  \A tok \in Tokens : \A f \in transaction_mutex[tok] :
    /\ pc[f] \in Holding /\ pin[f] = tok /\ InnerIdle(f)
    /\ transaction_mutex[tok] = {f}

\* Work and ordinals of a context never run back: no transaction writes a
\* working copy over what another one published.
CountersNeverRunBack ==
  [][\A tok \in registry \cap registry' :
       /\ shared[tok].work <= shared'[tok].work
       /\ shared[tok].ordinal <= shared'[tok].ordinal]_vars

\* A charge is admitted under the shared policy of that moment, not under
\* the one in a stale alias.
PolicyEnforced ==
  [][\A tok \in registry \cap registry' :
       /\ shared[tok].live < shared'[tok].live =>
            Within(shared'[tok].live, shared[tok].config.max_live_evaluation_bytes)
       /\ shared[tok].work < shared'[tok].work =>
            Within(shared'[tok].work, shared[tok].config.max_work_units)]_vars

\* A publication changes the one field its client edited: a stale snapshot
\* never rolls back what another alias published, and versions only grow.
NoConfigurationRollback ==
  [][\A tok \in registry \cap registry' :
       LET old == shared[tok]
           new == shared'[tok]
       IN  /\ old.version <= new.version
           /\ old.config # new.config =>
                /\ old.version < new.version
                /\ \E e \in Edits : new.config = [old.config EXCEPT ![e.field] = e.value]]_vars

\* An alias whose lease has been released is refused for ever: no later
\* context is given its token, not even when the tokens run out.
StaleAliasStaysStale ==
  [][\A t \in Threads :
       (/\ owner[t] # NoToken /\ owner[t] \notin context_active
        /\ owner'[t] = owner[t]) => owner[t] \notin context_active']_vars

\* A call that is under way when its context is released returns, its
\* observers included.  (On an open context std::mutex promises no fairness,
\* and another thread's calls may overtake a waiting one forever.)
CallsReturnAfterRelease ==
  \A f \in Frames :
    (pin[f] # NoToken /\ pin[f] \notin context_active) ~> pc[f] = "idle"

\* A released context is reclaimed: operations that were under way drain,
\* and clients that destroy the values they hold leave nothing behind.
ReleasedContextReclaimed ==
  \A tok \in Tokens :
    (tok \in registry /\ tok \notin context_active) ~> tok \notin registry

-----------------------------------------------------------------------------
(***************************************************************************)
(* The inductive invariant behind the theorems.                            *)
(***************************************************************************)

\* Where a frame will go on once it has its mutex or its observer returns.
Label(f) == IF pc[f] \in {"lock", "callback"} THEN call[f].resume ELSE pc[f]

ReferencesInv ==
  \A tok \in Tokens :
    /\ IsFiniteSet(Holders(tok))
    /\ reference_count[tok] = Cardinality(Holders(tok))
    /\ tok \in registry <=> Holders(tok) # {}

\* Every token in use has been issued.
TokensInv ==
  next_resource_token # NoToken =>
    /\ \A tok \in registry : tok < next_resource_token
    /\ \A t \in Threads : owner[t] < next_resource_token

\* Which frames are pinned, and what they are running.
LabelOK(f) ==
  /\ pc[f] = "lock" => call[f].resume \in Holding
  /\ pc[f] = "callback" => call[f].resume \in Holding \cup {"unpin", "owner", "free"}
  /\ Label(f) \in Holding \cup {"unpin"} => pin[f] # NoToken
  /\ Label(f) \in {"idle", "consume", "refund", "free"} => pin[f] = NoToken
  /\ Label(f) \in {"consume", "refund", "owner", "free"} => call[f].op \in CleanupCalls
  /\ Label(f) \in {"drop", "reset", "unlock"} => call[f].op \notin CleanupCalls
  /\ Label(f) = "owner" /\ pin[f] # NoToken => call[f].op = "abandon"

LabelsInv == \A f \in Frames : LabelOK(f)

\* A frame holds the mutex of its pin exactly at the labels under the lock.
MutexInv ==
  /\ \A tok \in Tokens : \A f \in transaction_mutex[tok] : pc[f] \in Holding /\ pin[f] = tok
  /\ \A f \in Frames : pc[f] \in Holding => transaction_mutex[pin[f]] = {f}

\* A buffer belongs to one call at a time.
BufferOK(b) ==
  /\ ~buffer[b].allocated => buffer[b].owner = NoToken
  /\ \A f \in buffer[b].user : buffer[b].user = {f} /\ buffer[b].allocated

\* A frame cleans up one reservation of its own at a time, and the one it is
\* freeing has no owner any more.
CurrentOK(f) ==
  /\ \A b \in current[f] : buffer[b].allocated /\ buffer[b].user = {f}
  /\ \A b, c \in current[f] : b = c
  /\ Label(f) \in {"reset", "free"} \/ (Label(f) = "unpin" /\ call[f].op = "abandon")
       => \A b \in current[f] : buffer[b].owner = NoToken
  /\ Label(f) \in {"idle", "consume"} => current[f] = {}
  /\ Label(f) \in {"work", "unlock", "unpin"} /\ call[f].op \notin CleanupCalls
       => current[f] = {}

BuffersInv ==
  /\ \A b \in Buffers : BufferOK(b)
  /\ \A f \in Frames : CurrentOK(f)

\* Only the innermost activation of a thread is out of its observers.
NestingInv ==
  \A f \in Frames : f[2] > 1 /\ pc[f] # "idle" => pc[<<f[1], f[2] - 1>>] = "callback"

\* The invariant that every step preserves.
InductiveInvariant ==
  /\ TypeOK /\ ReferencesInv /\ TokensInv /\ LabelsInv /\ MutexInv /\ BuffersInv
  /\ NestingInv

=============================================================================
