---------------------- MODULE ResourceAccountingProofs ----------------------
(***************************************************************************)
(* What a context accounts for, for every number of threads, depth of      *)
(* callbacks, buffers, tokens and bounds.  First its counters never run    *)
(* back and its policy is enforced at the moment of a charge: the shared   *)
(* counters are written from the working copy in the caller's record, so   *)
(* the argument is about that copy.  Then every reservation of a context   *)
(* has an ordinal of its own, and its live bytes are those of the          *)
(* reservations still charged to it.  Last, the contexts implement the     *)
(* abstract ledger, for which what operations rely on (OperationsInv) and  *)
(* how the counters of a context move with each step (View, Sees) are      *)
(* stated.                                                                 *)
(***************************************************************************)
EXTENDS EvaluationResourcesProofs, ResourceRefinement, NaturalsInduction, WellFoundedInduction

\* new is old after charges that old's policy allows, and refunds.
Charged(old, new) ==
  /\ old.work <= new.work
  /\ old.ordinal <= new.ordinal
  /\ old.live < new.live => Within(new.live, old.config.max_live_evaluation_bytes)
  /\ old.work < new.work => Within(new.work, old.config.max_work_units)

\* The working copy of an open transaction has the policy of the shared
\* state, and is ahead of it by charges and refunds only.
WorkingCopyOK(f) ==
  syncing[f] => /\ pc[f] \in Holding
                /\ call[f].op \in SyncCalls
                /\ record[Thread(f)].config = shared[pin[f]].config
                /\ Charged(shared[pin[f]], record[Thread(f)])

WorkingCopyInv == \A f \in Frames : WorkingCopyOK(f)

-----------------------------------------------------------------------------
(***************************************************************************)
(* Who else can be running on a thread.                                    *)
(***************************************************************************)

\* f may act, other than by returning from its observer.
Active(f) == MayCall(f) \/ pc[f] \notin {"idle", "callback"}

\* Every activation below one that is in a call is running its observer.
LEMMA OuterFramesWait ==
  ASSUME TypeOK, NestingInv, NEW f \in Frames, NEW g \in Frames,
         f[1] = g[1], g[2] < f[2], pc[f] # "idle"
  PROVE  pc[g] = "callback"
<1> DEFINE at(n) == <<f[1], f[2] - n>>
           S == {n \in Nat : 1 <= n /\ n <= f[2] - g[2] /\ pc[at(n)] # "callback"}
<1>1. /\ f = <<f[1], f[2]>> /\ g = <<g[1], g[2]>>
      /\ f[1] \in Threads /\ f[2] \in 1 .. Depth /\ g[2] \in 1 .. Depth
  BY DEF Frames
<1>2. ASSUME NEW n \in Nat, n < f[2] - g[2], pc[at(n)] # "idle"
      PROVE  pc[at(n + 1)] = "callback"
  <2>1. at(n) \in Frames /\ at(n)[2] > 1 /\ at(n)[1] = f[1] /\ at(n)[2] - 1 = f[2] - (n + 1)
    BY <1>1, <1>2, BoundsAssumption DEF Frames
  <2>2. pc[<<at(n)[1], at(n)[2] - 1>>] = "callback"
    BY <1>2, <2>1 DEF NestingInv
  <2> QED
    BY <2>1, <2>2
<1>3. S = {}
  <2> SUFFICES ASSUME S # {} PROVE FALSE
    OBVIOUS
  <2>1. \E n \in S : \A m \in S : ~(<<m, n>> \in OpToRel(<, Nat))
    <3>1. S \in SUBSET Nat
      OBVIOUS
    <3> HIDE DEF S
    <3> QED
      BY <3>1, NatLessThanWellFounded, WFMin, Zenon
  <2>2. PICK n \in S : \A m \in S : ~(<<m, n>> \in OpToRel(<, Nat))
    BY <2>1
  <2>3. \A m \in S : ~(m < n)
    <3>1. S \in SUBSET Nat
      OBVIOUS
    <3> HIDE DEF S
    <3> QED
      BY <3>1, <2>2, Zenon DEF OpToRel
  <2>4. n - 1 \in Nat /\ n - 1 < f[2] - g[2] /\ n - 1 + 1 = n
    BY <1>1
  <2>5. pc[at(n - 1)] # "idle"
    <3>1. CASE n = 1
      <4>1. at(n - 1) = f
        BY <1>1, <3>1
      <4> QED
        BY <4>1
    <3>2. CASE n # 1
      <4>1. n - 1 \notin S
        <5>1. n \in Nat /\ n - 1 < n
          OBVIOUS
        <5> HIDE DEF S
        <5> QED
          BY <2>3, <5>1
      <4>2. 1 <= n - 1 /\ n - 1 <= f[2] - g[2]
        BY <1>1, <2>4, <3>2
      <4> QED
        BY <2>4, <4>1, <4>2
    <3> QED
      BY <3>1, <3>2
  <2>6. pc[at(n)] = "callback"
    BY <1>2, <2>4, <2>5
  <2> QED
    BY <2>6
<1>4. f[2] - g[2] \in Nat /\ 1 <= f[2] - g[2] /\ at(f[2] - g[2]) = g
  BY <1>1
<1> QED
  BY <1>3, <1>4

\* While one activation of a thread acts, the others are idle or in their
\* observers.
LEMMA RunningAlone ==
  ASSUME TypeOK, NestingInv, NEW f \in Frames, NEW g \in Frames,
         f # g, Thread(f) = Thread(g), Active(f)
  PROVE  pc[g] \in {"idle", "callback"}
<1>1. /\ f = <<f[1], f[2]>> /\ g = <<g[1], g[2]>> /\ f[1] = g[1]
      /\ f[2] \in 1 .. Depth /\ g[2] \in 1 .. Depth
  BY DEF Frames, Thread
<1>2. CASE f[2] < g[2]
  <2>1. pc[g] # "idle" => pc[f] = "callback"
    BY <1>1, <1>2, OuterFramesWait
  <2> QED
    BY <2>1 DEF Active, MayCall
<1>3. CASE g[2] < f[2]
  <2>1. CASE pc[f] # "idle"
    BY <1>1, <1>3, <2>1, OuterFramesWait
  <2>2. CASE MayCall(f)
    <3> DEFINE o == <<f[1], f[2] - 1>>
    <3>1. o \in Frames /\ pc[o] = "callback" /\ o[1] = f[1] /\ o[2] = f[2] - 1
      BY <1>1, <1>3, <2>2, BoundsAssumption DEF MayCall, Frames
    <3> HIDE DEF o
    <3>2. CASE g[2] = o[2]
      <4>1. g = o
        BY <1>1, <3>1, <3>2 DEF o
      <4> QED
        BY <3>1, <4>1
    <3>3. CASE g[2] < o[2]
      BY <1>1, <3>1, <3>3, OuterFramesWait
    <3> QED
      BY <1>1, <1>3, <3>1, <3>2, <3>3, BoundsAssumption
  <2> QED
    BY <2>1, <2>2 DEF Active
<1> QED
  BY <1>1, <1>2, <1>3, BoundsAssumption

-----------------------------------------------------------------------------
(***************************************************************************)
(* What a step of one frame leaves alone.                                  *)
(***************************************************************************)

\* The variables of the other frames, and the records of other threads.
OthersKept(f) ==
  /\ \A g \in Frames : g # f => /\ pc'[g] = pc[g] /\ call'[g] = call[g]
                                /\ pin'[g] = pin[g] /\ syncing'[g] = syncing[g]
  /\ \A t \in Threads : t # Thread(f) => record'[t] = record[t] /\ owner'[t] = owner[t]

\* The record and the owner of a thread change only when a frame of it acts.
OwnKept(f) == Active(f) \/ UNCHANGED <<record, owner>>

\* The state of a context changes only under its mutex.
SharedKept(f) ==
  \A tok \in registry :
    shared'[tok] # shared[tok] => tok = pin[f] /\ pc[f] \in Holding

Local(f) == OthersKept(f) /\ OwnKept(f) /\ SharedKept(f)

\* A frame that begins a call.
LEMMA BeginLocal ==
  ASSUME InductiveInvariant, NEW f \in Frames, Begin(f)
  PROVE  Local(f)
<1>0. TypeOK /\ TokensInv
  BY DEF InductiveInvariant
<1>1. MayCall(f)
  BY DEF Begin, MakeContext, ReleaseContext, BeginSnapshotCall, BeginUpdate, BeginCharge,
         BeginRelease, BeginCleanup
<1>2. OwnKept(f)
  BY <1>1 DEF OwnKept, Active
<1>3. CASE \E c \in Configurations : MakeContext(f, c)
  <2>1. \A tok \in registry : tok # next_resource_token
    BY <1>0, <1>3 DEF TokensInv, TypeOK, Tokens, MakeContext
  <2>2. SharedKept(f)
    BY <1>0, <1>3, <2>1 DEF TypeOK, SharedKept, MakeContext
  <2>3. OthersKept(f)
    BY <1>0, <1>3 DEF TypeOK, OthersKept, MakeContext, frameVars
  <2> QED
    BY <1>2, <2>2, <2>3 DEF Local
<1>4. CASE ReleaseContext(f)
  <2>1. OthersKept(f)
    BY <1>0, <1>4 DEF TypeOK, OthersKept, ReleaseContext, Goto
  <2> QED
    BY <1>2, <1>4, <2>1 DEF Local, SharedKept, ReleaseContext
<1>5. CASE \/ \E op \in {"refresh", "set_lifetime_observer"} : BeginSnapshotCall(f, op)
           \/ \E e \in Edits : BeginUpdate(f, e)
           \/ \E op \in AllocationCalls \cup {"charge_work"}, bytes \in Sizes, work \in Works :
                BeginCharge(f, op, bytes, work)
  <2>1. OthersKept(f)
    BY <1>0, <1>5 DEF TypeOK, OthersKept, BeginSnapshotCall, BeginUpdate, BeginCharge,
                      BeginPinned, Goto
  <2> QED
    BY <1>2, <1>5, <2>1 DEF Local, SharedKept, BeginSnapshotCall, BeginUpdate, BeginCharge
<1>6. CASE \E B \in SUBSET Buffers : BeginRelease(f, B) \/ BeginCleanup(f, B)
  <2>1. OthersKept(f)
    BY <1>0, <1>6 DEF TypeOK, OthersKept, BeginRelease, BeginCleanup, BeginPinned, Goto
  <2> QED
    BY <1>2, <1>6, <2>1 DEF Local, SharedKept, BeginRelease, BeginCleanup
<1> QED
  BY <1>3, <1>4, <1>5, <1>6 DEF Begin

\* A frame in a call.
LEMMA StepLocal ==
  ASSUME InductiveInvariant, NEW f \in Frames, Step(f)
  PROVE  Local(f)
<1>0. TypeOK
  BY DEF InductiveInvariant
<1>1. CASE Lock(f)
  BY <1>0, <1>1 DEF Lock, TypeOK, Local, OthersKept, OwnKept, SharedKept, Active, Goto
<1>2. CASE Leave(f)
  BY <1>0, <1>2 DEF Leave, TypeOK, Local, OthersKept, OwnKept, SharedKept, Active, Goto,
                    FinishSync, Holding
<1>3. CASE Unpin(f)
  <2>1. /\ pc[f] = "unpin" /\ UNCHANGED <<shared, owner, record, syncing>>
        /\ \A g \in Frames : g # f => pc'[g] = pc[g] /\ call'[g] = call[g] /\ pin'[g] = pin[g]
    BY <1>0, <1>3 DEF Unpin, TypeOK, Goto, Notify, Return
  <2> QED
    BY <2>1 DEF Local, OthersKept, OwnKept, SharedKept, Active
<1>4. CASE EndCallback(f)
  BY <1>0, <1>4 DEF EndCallback, TypeOK, Local, OthersKept, OwnKept, SharedKept, Goto
<1>5. CASE ReleaseContextBody(f) \/ RefreshBody(f) \/ SetObserverBody(f)
  BY <1>0, <1>5 DEF ReleaseContextBody, RefreshBody, SetObserverBody, TypeOK, Local,
                    OthersKept, OwnKept, SharedKept, Active, Goto, Holding
<1>6. CASE UpdateBody(f)
  BY <1>0, <1>6 DEF UpdateBody, TypeOK, Local,
                    OthersKept, OwnKept, SharedKept, Active, Goto, Holding
<1>7. CASE ChargeWithoutStorage(f) \/ AllocationFails(f)
  BY <1>0, <1>7 DEF ChargeWithoutStorage, AllocationFails, TypeOK, Local,
                    OthersKept, OwnKept, SharedKept, Active, Goto
<1>8. ASSUME NEW b \in Buffers, AllocationSucceeds(f, b)
      PROVE  Local(f)
  BY <1>0, <1>8 DEF AllocationSucceeds, TypeOK, Local, OthersKept, OwnKept, SharedKept,
                    Active, Goto, FinishSync, Notify, Holding
<1>9. ASSUME NEW b \in Buffers, ReleaseBody(f, b) \/ ReleaseWorkspaceBody(f, b)
      PROVE  Local(f)
  BY <1>0, <1>9 DEF ReleaseBody, ReleaseWorkspaceBody, TypeOK, Local, OthersKept, OwnKept,
                    SharedKept, Active, Goto, FinishSync, Notify, Holding
<1>10. ASSUME NEW b \in Buffers,
              AggregateConsume(f, b) \/ AggregateDrop(f, b) \/ AggregateReset(f, b)
       PROVE  Local(f)
  BY <1>0, <1>10 DEF AggregateConsume, AggregateDrop, AggregateReset, TypeOK, Local,
                     OthersKept, OwnKept, SharedKept, Active, Goto, FinishSync, Notify, Holding
<1>11. ASSUME NEW b \in Buffers,
              \/ Consume(f, b) \/ RefundPin(f, b) \/ RefundBody(f, b)
              \/ DropOwner(f, b) \/ FreeStorage(f, b)
       PROVE  Local(f)
  BY <1>0, <1>11 DEF Consume, RefundPin, RefundBody, DropOwner, FreeStorage, TypeOK, Local,
                     OthersKept, OwnKept, SharedKept, Active, Goto, Notify, Return, Holding
<1> QED
  BY <1>1, <1>2, <1>3, <1>4, <1>5, <1>6, <1>7, <1>8, <1>9, <1>10, <1>11 DEF Step

-----------------------------------------------------------------------------
(***************************************************************************)
(* The working copies.                                                     *)
(***************************************************************************)

\* An operation's pin keeps its state registered.
LEMMA PinRegistered ==
  ASSUME InductiveInvariant, NEW f \in Frames, pin[f] \in Tokens
  PROVE  pin[f] \in registry
<1>1. <<"pin", f>> \in Holders(pin[f])
  BY HolderKinds
<1> QED
  BY <1>1 DEF InductiveInvariant, ReferencesInv

\* commit_admission after a preflight that passed.
LEMMA CommitCharged ==
  ASSUME NEW s \in EvaluationResourceState, NEW r \in EvaluationResourceState,
         NEW kind, NEW m \in Nat, NEW n \in Nat,
         r.config = s.config, Charged(s, r), Preflight(r, kind, m, n)
  PROVE  /\ Commit(r, m, n).config = s.config /\ Charged(s, Commit(r, m, n))
         /\ Commit(r, m, n) \in EvaluationResourceState
         /\ Commit(r, m, n).ordinal = r.ordinal
<1> DEFINE c == Commit(r, m, n)
<1>1. /\ c.config = r.config /\ c.live = r.live + m /\ c.work = r.work + n
      /\ c.ordinal = r.ordinal
  BY DEF Commit, EvaluationResourceState
<1>2. c \in EvaluationResourceState
  BY CommitType
<1> HIDE DEF c
<1>3. Charged(s, c)
  BY <1>1 DEF Charged, Preflight, EvaluationResourceState
<1> QED
  BY <1>1, <1>2, <1>3 DEF c

\* A reservation attempt draws an ordinal.
LEMMA DrawCharged ==
  ASSUME NEW s \in EvaluationResourceState, NEW r \in EvaluationResourceState,
         r.config = s.config, Charged(s, r)
  PROVE  LET d == [r EXCEPT !.ordinal = r.ordinal + 1]
         IN  d.config = s.config /\ Charged(s, d) /\ d \in EvaluationResourceState
<1> DEFINE d == [r EXCEPT !.ordinal = r.ordinal + 1]
<1>1. /\ d.config = r.config /\ d.live = r.live /\ d.work = r.work
      /\ d.ordinal = r.ordinal + 1
  BY DEF EvaluationResourceState
<1>2. d \in EvaluationResourceState
  BY Updates DEF EvaluationResourceState
<1> HIDE DEF d
<1>3. Charged(s, d)
  BY <1>1 DEF Charged, EvaluationResourceState
<1> QED
  BY <1>1, <1>2, <1>3 DEF d

\* A refund of bytes the context has.
LEMMA RefundCharged ==
  ASSUME NEW s \in EvaluationResourceState, NEW r \in EvaluationResourceState,
         r.config = s.config, Charged(s, r), NEW n \in Nat, n <= r.live
  PROVE  LET d == [r EXCEPT !.live = r.live - n]
         IN  d.config = s.config /\ Charged(s, d) /\ d \in EvaluationResourceState
<1> DEFINE d == [r EXCEPT !.live = r.live - n]
<1>1. /\ d.config = r.config /\ d.live = r.live - n /\ d.work = r.work
      /\ d.ordinal = r.ordinal
  BY DEF EvaluationResourceState
<1>2. d \in EvaluationResourceState
  <2>1. r.live - n \in Nat
    BY DEF EvaluationResourceState
  <2> QED
    BY <2>1, Updates
<1> HIDE DEF d
<1>3. s.config \in Configuration /\ r.live - n <= r.live
  BY DEF EvaluationResourceState
<1>4. s.live < d.live => Within(d.live, s.config.max_live_evaluation_bytes)
  <2> SUFFICES ASSUME s.live < d.live, NEW m \in s.config.max_live_evaluation_bytes
               PROVE  d.live <= m
    BY DEF Within
  <2>1. s.live < r.live /\ m \in Nat
    BY <1>1, <1>3 DEF EvaluationResourceState, Configuration
  <2>2. r.live <= m
    BY <2>1 DEF Charged, Within
  <2> QED
    BY <1>1, <2>1, <2>2 DEF EvaluationResourceState
<1>5. Charged(s, d)
  BY <1>1, <1>4 DEF Charged
<1> QED
  BY <1>1, <1>2, <1>5 DEF d

\* A state is a working copy of itself, and publishing a working copy makes
\* the shared state one of those.
LEMMA SelfCharged ==
  ASSUME NEW s \in EvaluationResourceState
  PROVE  Charged(s, s)
  BY DEF Charged, EvaluationResourceState

LEMMA PublishCharged ==
  ASSUME NEW s \in EvaluationResourceState, NEW r \in EvaluationResourceState,
         Charged(s, r)
  PROVE  /\ Charged(s, Publish(s, r)) /\ Publish(s, r).ordinal = r.ordinal
         /\ Publish(s, r).config = s.config
<1>1. /\ Publish(s, r).live = r.live /\ Publish(s, r).work = r.work
      /\ Publish(s, r).ordinal = r.ordinal /\ Publish(s, r).config = s.config
  BY DEF Publish, EvaluationResourceState
<1> QED
  BY <1>1 DEF Charged

\* The other frames' working copies survive a step.
LEMMA CopiesKept ==
  ASSUME InductiveInvariant, WorkingCopyInv, NEW f \in Frames, Local(f),
         WorkingCopyOK(f)'
  PROVE  WorkingCopyInv'
<1> SUFFICES ASSUME NEW g \in Frames, g # f, syncing[g]
             PROVE  WorkingCopyOK(g)'
  BY DEF WorkingCopyInv, WorkingCopyOK, Local, OthersKept
<1>1. /\ pc'[g] = pc[g] /\ call'[g] = call[g] /\ pin'[g] = pin[g] /\ syncing'[g] = syncing[g]
  BY DEF Local, OthersKept
<1>2. WorkingCopyOK(g) /\ pc[g] \in Holding
  BY DEF WorkingCopyInv, WorkingCopyOK
<1>3. pin[g] \in registry /\ transaction_mutex[pin[g]] = {g}
  <2>1. pin[g] \in Tokens
    BY <1>2, Pinned DEF InductiveInvariant, Label, Holding
  <2> QED
    BY <1>2, <2>1, PinRegistered DEF InductiveInvariant, MutexInv
<1>4. shared'[pin[g]] = shared[pin[g]]
  BY <1>3 DEF Local, SharedKept, InductiveInvariant, MutexInv
<1>5. record'[Thread(g)] = record[Thread(g)]
  <2>1. CASE Thread(g) # Thread(f)
    BY <2>1 DEF Local, OthersKept, Frames, Thread
  <2>2. CASE Thread(g) = Thread(f)
    <3>1. ~Active(f)
      BY <1>2, <2>2, RunningAlone DEF InductiveInvariant, Holding
    <3> QED
      BY <3>1 DEF Local, OwnKept
  <2> QED
    BY <2>1, <2>2
<1> QED
  BY <1>1, <1>2, <1>4, <1>5 DEF WorkingCopyOK

\* What f's own step does to its working copy and to the shared counters.
Accounts(f) ==
  /\ WorkingCopyOK(f)'
  /\ \A tok \in registry : Charged(shared[tok], shared'[tok])

\* A frame that is not in a transaction afterwards, and publishes nothing.
LEMMA NothingOpen ==
  ASSUME InductiveInvariant, NEW f \in Frames, ~syncing'[f],
         \A tok \in registry : shared'[tok] = shared[tok]
  PROVE  Accounts(f)
<1>1. \A tok \in registry : shared[tok] \in EvaluationResourceState
  BY DEF InductiveInvariant, TypeOK
<1> QED
  BY <1>1, SelfCharged DEF Accounts, WorkingCopyOK

\* A frame stays under the mutex and keeps its working copy in order.
LEMMA StaysOpen ==
  ASSUME InductiveInvariant, NEW f \in Frames,
         UNCHANGED <<shared, pin, syncing>>, call'[f].op = call[f].op,
         syncing[f] => /\ pc'[f] \in Holding /\ call[f].op \in SyncCalls
                       /\ record'[Thread(f)].config = shared[pin[f]].config
                       /\ Charged(shared[pin[f]], record'[Thread(f)])
  PROVE  Accounts(f)
<1>1. \A tok \in registry : shared[tok] \in EvaluationResourceState
  BY DEF InductiveInvariant, TypeOK
<1> QED
  BY <1>1, SelfCharged DEF Accounts, WorkingCopyOK

\* finish_resource_record_sync publishes a working copy in order.
LEMMA Publishes ==
  ASSUME InductiveInvariant, NEW f \in Frames, NEW r \in EvaluationResourceState,
         FinishSync(f, r), syncing[f] => Charged(shared[pin[f]], r)
  PROVE  Accounts(f)
<1>1. TypeOK
  BY DEF InductiveInvariant
<1>2. ~syncing'[f]
  BY <1>1 DEF FinishSync, TypeOK
<1>3. ASSUME NEW tok \in registry
      PROVE  Charged(shared[tok], shared'[tok])
  <2>1. tok \in Tokens /\ shared[tok] \in EvaluationResourceState
    BY <1>1 DEF TypeOK
  <2>2. CASE syncing[f] /\ pin[f] = tok
    <3>1. shared'[tok] = Publish(shared[tok], r)
      BY <1>1, <2>1, <2>2 DEF FinishSync, TypeOK
    <3> QED
      BY <2>1, <2>2, <3>1, PublishCharged
  <2>3. CASE ~(syncing[f] /\ pin[f] = tok)
    <3>1. shared'[tok] = shared[tok]
      BY <1>1, <2>1, <2>3 DEF FinishSync, TypeOK
    <3> QED
      BY <2>1, <3>1, SelfCharged
  <2> QED
    BY <2>2, <2>3
<1> QED
  BY <1>2, <1>3 DEF Accounts, WorkingCopyOK

\* The beginning of a call opens no transaction.
LEMMA BeginAccounts ==
  ASSUME InductiveInvariant, WorkingCopyInv, NEW f \in Frames, Begin(f)
  PROVE  Accounts(f)
<1>1. MayCall(f) /\ UNCHANGED syncing
  BY DEF Begin, MakeContext, ReleaseContext, BeginSnapshotCall, BeginUpdate, BeginCharge,
         BeginRelease, BeginCleanup, frameVars
<1>2. ~syncing[f]
  BY <1>1 DEF MayCall, WorkingCopyInv, WorkingCopyOK, Holding
<1>3. \A tok \in registry : shared'[tok] = shared[tok]
  BY <1>1, BeginLocal DEF Local, SharedKept, MayCall, Holding
<1> QED
  BY <1>1, <1>2, <1>3, NothingOpen

\* Types of what a body works on.
LEMMA BodyTypes ==
  ASSUME InductiveInvariant, NEW f \in Frames, pc[f] \in Holding
  PROVE  /\ pin[f] \in registry /\ pin[f] \in Tokens
         /\ shared[pin[f]] \in EvaluationResourceState
         /\ record[Thread(f)] \in EvaluationResourceState
         /\ Thread(f) \in Threads /\ call[f] \in Call
         /\ call[f].bytes \in Nat /\ call[f].work \in Nat
         /\ record[Thread(f)].ordinal \in Nat
<1>1. TypeOK /\ LabelsInv
  BY DEF InductiveInvariant
<1>2. pin[f] \in Tokens
  BY <1>1, Pinned DEF Label, Holding
<1>3. Thread(f) \in Threads
  BY DEF Frames, Thread
<1>4. pin[f] \in registry
  BY <1>2, PinRegistered
<1> QED
  BY <1>1, <1>2, <1>3, <1>4 DEF TypeOK, Call, EvaluationResourceState

\* transaction.lock and the refresh of the working copy.
LEMMA LockAccounts ==
  ASSUME InductiveInvariant, WorkingCopyInv, NEW f \in Frames, Lock(f)
  PROVE  Accounts(f)
<1>1. TypeOK /\ LabelsInv
  BY DEF InductiveInvariant
<1>2. /\ pc[f] = "lock" /\ UNCHANGED <<shared, call, pin>> /\ Thread(f) \in Threads
      /\ ~syncing[f] /\ call[f].resume \in Holding /\ pc'[f] = call[f].resume
  BY <1>1 DEF Lock, WorkingCopyInv, WorkingCopyOK, Holding, LabelsInv, LabelOK,
              TypeOK, Goto, Frames, Thread
<1>3. pin[f] \in Tokens /\ shared[pin[f]] \in EvaluationResourceState
  <2>1. pin[f] \in Tokens
    BY <1>1, <1>2, Pinned DEF Label
  <2> QED
    BY <1>1, <2>1 DEF TypeOK
<1>4. CASE call[f].op \in SyncCalls /\ call[f].resume # "unlock"
  <2>1. record'[Thread(f)] = shared[pin[f]]
    BY <1>1, <1>2, <1>4 DEF Lock, TypeOK
  <2>2. \A tok \in registry : Charged(shared[tok], shared[tok])
    BY <1>1, SelfCharged DEF TypeOK
  <2> QED
    BY <1>2, <1>3, <1>4, <2>1, <2>2, SelfCharged DEF Accounts, WorkingCopyOK
<1>5. CASE ~(call[f].op \in SyncCalls /\ call[f].resume # "unlock")
  <2>1. ~syncing'[f]
    BY <1>2, <1>5 DEF Lock
  <2> QED
    BY <1>2, <2>1, NothingOpen
<1> QED
  BY <1>4, <1>5

\* The bodies that write the shared configuration or observer.
LEMMA UpdateBodyAccounts ==
  ASSUME InductiveInvariant, WorkingCopyInv, NEW f \in Frames, UpdateBody(f)
  PROVE  Accounts(f)
<1>1. TypeOK /\ pin[f] \in Tokens /\ record[Thread(f)].config \in Configuration
  BY BodyTypes DEF InductiveInvariant, UpdateBody, Holding, EvaluationResourceState
<1>2. ~syncing'[f]
  BY DEF UpdateBody, WorkingCopyInv, WorkingCopyOK, SyncCalls
<1>3. ASSUME NEW tok \in registry
      PROVE  Charged(shared[tok], shared'[tok])
  <2>1. tok \in Tokens /\ shared[tok] \in EvaluationResourceState
    BY <1>1 DEF TypeOK
  <2>2. /\ shared'[tok].live = shared[tok].live /\ shared'[tok].work = shared[tok].work
        /\ shared'[tok].ordinal = shared[tok].ordinal
    BY <1>1, <2>1 DEF UpdateBody, TypeOK, EvaluationResourceState
  <2> QED
    BY <2>1, <2>2 DEF Charged, EvaluationResourceState
<1> QED
  BY <1>2, <1>3 DEF Accounts, WorkingCopyOK

LEMMA SetObserverBodyAccounts ==
  ASSUME InductiveInvariant, WorkingCopyInv, NEW f \in Frames, SetObserverBody(f)
  PROVE  Accounts(f)
<1>1. TypeOK /\ pin[f] \in Tokens
  BY BodyTypes DEF InductiveInvariant, SetObserverBody, Holding
<1>2. ~syncing'[f]
  BY DEF SetObserverBody, WorkingCopyInv, WorkingCopyOK, SyncCalls
<1>3. ASSUME NEW tok \in registry
      PROVE  Charged(shared[tok], shared'[tok])
  <2>1. tok \in Tokens /\ shared[tok] \in EvaluationResourceState
    BY <1>1 DEF TypeOK
  <2>2. /\ shared'[tok].live = shared[tok].live /\ shared'[tok].work = shared[tok].work
        /\ shared'[tok].ordinal = shared[tok].ordinal
    BY <1>1, <2>1 DEF SetObserverBody, TypeOK, EvaluationResourceState
  <2> QED
    BY <2>1, <2>2 DEF Charged, EvaluationResourceState
<1> QED
  BY <1>2, <1>3 DEF Accounts, WorkingCopyOK

\* A charge that is refused, or needs no storage.
LEMMA ChargeWithoutStorageAccounts ==
  ASSUME InductiveInvariant, WorkingCopyInv, NEW f \in Frames, ChargeWithoutStorage(f)
  PROVE  Accounts(f)
<1> DEFINE s == shared[pin[f]]
           r == record[Thread(f)]
           c == call[f]
<1>1. TypeOK /\ pc[f] = "work" /\ pc'[f] = "unlock" /\ UNCHANGED <<shared, pin, syncing, call>>
  BY DEF InductiveInvariant, ChargeWithoutStorage, TypeOK, Goto
<1>2. /\ s \in EvaluationResourceState /\ r \in EvaluationResourceState
      /\ Thread(f) \in Threads /\ c.bytes \in Nat /\ c.work \in Nat
  BY <1>1, BodyTypes DEF Holding
<1>3. ASSUME syncing[f]
      PROVE  record'[Thread(f)].config = s.config /\ Charged(s, record'[Thread(f)])
  <2>1. r.config = s.config /\ Charged(s, r)
    BY <1>3 DEF WorkingCopyInv, WorkingCopyOK
  <2>2. CASE UNCHANGED record
    BY <2>1, <2>2
  <2>3. CASE /\ Admissible(r, c) /\ c.bytes = 0
             /\ record' = [record EXCEPT ![Thread(f)] = Commit(@, 0, c.work)]
    <3>1. record'[Thread(f)] = Commit(r, 0, c.work) /\ Preflight(r, KindOf(c.op), 0, c.work)
      BY <1>1, <1>2, <2>3 DEF TypeOK, Admissible
    <3> HIDE DEF s, r, c
    <3> QED
      BY <1>2, <2>1, <3>1, CommitCharged
  <2> QED
    BY <2>2, <2>3 DEF ChargeWithoutStorage
<1>4. syncing[f] => call[f].op \in SyncCalls
  BY DEF WorkingCopyInv, WorkingCopyOK
<1> QED
  BY <1>1, <1>3, <1>4, StaysOpen DEF Holding

\* An attempt that has drawn its ordinal and finds no storage.
LEMMA AllocationFailsAccounts ==
  ASSUME InductiveInvariant, WorkingCopyInv, NEW f \in Frames, AllocationFails(f)
  PROVE  Accounts(f)
<1> DEFINE s == shared[pin[f]]
           r == record[Thread(f)]
<1>1. TypeOK /\ pc[f] = "work" /\ pc'[f] = "unlock" /\ UNCHANGED <<shared, pin, syncing, call>>
  BY DEF InductiveInvariant, AllocationFails, TypeOK, Goto
<1>2. s \in EvaluationResourceState /\ r \in EvaluationResourceState /\ Thread(f) \in Threads
  BY <1>1, BodyTypes DEF Holding
<1>3. record'[Thread(f)] = [r EXCEPT !.ordinal = r.ordinal + 1]
  BY <1>1, <1>2 DEF AllocationFails, TypeOK
<1>4. syncing[f] => call[f].op \in SyncCalls /\ r.config = s.config /\ Charged(s, r)
  BY DEF WorkingCopyInv, WorkingCopyOK
<1>5. syncing[f] => record'[Thread(f)].config = s.config /\ Charged(s, record'[Thread(f)])
  <2> HIDE DEF s, r
  <2> QED
    BY <1>2, <1>3, <1>4, DrawCharged
<1> QED
  BY <1>1, <1>4, <1>5, StaysOpen DEF Holding

\* A reservation is committed; vectors and tables are published at once.
LEMMA AllocationSucceedsAccounts ==
  ASSUME InductiveInvariant, WorkingCopyInv, NEW f \in Frames, NEW b \in Buffers,
         AllocationSucceeds(f, b)
  PROVE  Accounts(f)
<1> DEFINE s == shared[pin[f]]
           r == record[Thread(f)]
           c == call[f]
           m == Commit(r, c.bytes, c.work)
           n == [m EXCEPT !.ordinal = r.ordinal + 1]
<1>1. TypeOK /\ pc[f] = "work" /\ UNCHANGED pin /\ Preflight(r, KindOf(c.op), c.bytes, c.work)
  BY DEF InductiveInvariant, AllocationSucceeds, Admissible
<1>2. /\ s \in EvaluationResourceState /\ r \in EvaluationResourceState
      /\ Thread(f) \in Threads /\ c.bytes \in Nat /\ c.work \in Nat
  BY <1>1, BodyTypes DEF Holding
<1>3. m.ordinal = r.ordinal /\ m \in EvaluationResourceState
  <2>1. m \in EvaluationResourceState
    BY <1>2, CommitType
  <2> QED
    BY <2>1, <1>2 DEF Commit, EvaluationResourceState
<1>4. n = [Commit(record[Thread(f)], c.bytes, c.work) EXCEPT !.ordinal = @ + 1]
  BY <1>3
<1>5. record' = [record EXCEPT ![Thread(f)] = n]
  BY <1>4 DEF AllocationSucceeds
<1>6. syncing[f] => c.op \in SyncCalls /\ r.config = s.config /\ Charged(s, r)
  BY DEF WorkingCopyInv, WorkingCopyOK
<1>7. n \in EvaluationResourceState
  <2>1. r.ordinal + 1 \in Nat
    BY <1>2 DEF EvaluationResourceState
  <2> HIDE DEF m
  <2> QED
    BY <1>3, <2>1, Updates
<1>8. syncing[f] => n.config = s.config /\ Charged(s, n)
  <2> SUFFICES ASSUME syncing[f] PROVE n.config = s.config /\ Charged(s, n)
    OBVIOUS
  <2>1. m.config = s.config /\ Charged(s, m)
    <3> HIDE DEF s, r, c
    <3> QED
      BY <1>1, <1>2, <1>6, CommitCharged DEF m
  <2> HIDE DEF s, r, c, m
  <2>2. n = [m EXCEPT !.ordinal = m.ordinal + 1]
    BY <1>3
  <2> QED
    BY <1>2, <1>3, <2>1, <2>2, DrawCharged
<1>9. CASE c.op = "reserve_workspace"
  <2>1. UNCHANGED <<shared, syncing, call>> /\ pc'[f] = "unlock" /\ record'[Thread(f)] = n
    BY <1>1, <1>2, <1>5, <1>9 DEF AllocationSucceeds, TypeOK, Goto
  <2> HIDE DEF n, s
  <2> QED
    BY <1>1, <1>6, <1>8, <2>1, StaysOpen DEF s, Holding
<1>10. CASE c.op # "reserve_workspace"
  <2>1. FinishSync(f, n)
    BY <1>4, <1>10 DEF AllocationSucceeds
  <2> HIDE DEF n, s
  <2> QED
    BY <1>7, <1>8, <2>1, Publishes DEF s
<1> QED
  BY <1>9, <1>10

\* A release through a context refunds and publishes, or is refused.
LEMMA ReleaseBodyAccounts ==
  ASSUME InductiveInvariant, WorkingCopyInv, NEW f \in Frames, NEW b \in Buffers,
         ReleaseBody(f, b)
  PROVE  Accounts(f)
<1> DEFINE s == shared[pin[f]]
           r == record[Thread(f)]
           n == buffer[b].bytes
           d == [r EXCEPT !.live = r.live - n]
<1>1. TypeOK /\ pc[f] = "work" /\ UNCHANGED pin /\ n \in Nat
  BY DEF InductiveInvariant, ReleaseBody, TypeOK, Buffer
<1>2. s \in EvaluationResourceState /\ r \in EvaluationResourceState /\ Thread(f) \in Threads
  BY <1>1, BodyTypes DEF Holding
<1>3. syncing[f] => call[f].op \in SyncCalls /\ r.config = s.config /\ Charged(s, r)
  BY DEF WorkingCopyInv, WorkingCopyOK
<1>4. CASE Consumable(b)
  <2> DEFINE e == IF n <= r.live THEN d ELSE r
  <2>1. e = [record[Thread(f)] EXCEPT !.live = IF n <= @ THEN @ - n ELSE @]
    BY <1>2 DEF EvaluationResourceState
  <2>2. FinishSync(f, e)
    BY <1>4, <2>1 DEF ReleaseBody
  <2>3. e \in EvaluationResourceState
    <3>1. n <= r.live => r.live - n \in Nat
      BY <1>1, <1>2 DEF EvaluationResourceState
    <3> HIDE DEF r
    <3> QED
      BY <1>2, <3>1, Updates
  <2>4. syncing[f] => Charged(s, e)
    <3> HIDE DEF s, r, n
    <3> QED
      BY <1>1, <1>2, <1>3, RefundCharged
  <2> HIDE DEF e
  <2> QED
    BY <2>2, <2>3, <2>4, Publishes
<1>5. CASE ~Consumable(b)
  <2>1. UNCHANGED <<record, shared, syncing, call>> /\ pc'[f] = "unlock"
    BY <1>1, <1>5 DEF ReleaseBody, TypeOK, Goto
  <2> QED
    BY <1>1, <1>3, <2>1, StaysOpen DEF Holding
<1> QED
  BY <1>4, <1>5

LEMMA ReleaseWorkspaceBodyAccounts ==
  ASSUME InductiveInvariant, WorkingCopyInv, NEW f \in Frames, NEW b \in Buffers,
         ReleaseWorkspaceBody(f, b)
  PROVE  Accounts(f)
<1> DEFINE s == shared[pin[f]]
           r == record[Thread(f)]
           n == buffer[b].bytes
<1>1. /\ TypeOK /\ pc[f] = "work" /\ UNCHANGED <<shared, pin, syncing, call>> /\ n \in Nat
      /\ pc'[f] = "unlock"
  BY DEF InductiveInvariant, ReleaseWorkspaceBody, TypeOK, Buffer, Goto
<1>2. s \in EvaluationResourceState /\ r \in EvaluationResourceState /\ Thread(f) \in Threads
  BY <1>1, BodyTypes DEF Holding
<1>3. syncing[f] => call[f].op \in SyncCalls /\ r.config = s.config /\ Charged(s, r)
  BY DEF WorkingCopyInv, WorkingCopyOK
<1>4. \/ record'[Thread(f)] = r
      \/ n <= r.live /\ record'[Thread(f)] = [r EXCEPT !.live = r.live - n]
  BY <1>1, <1>2 DEF ReleaseWorkspaceBody, TypeOK
<1>5. syncing[f] => record'[Thread(f)].config = s.config /\ Charged(s, record'[Thread(f)])
  <2> DEFINE d == [r EXCEPT !.live = r.live - n]
  <2>1. syncing[f] /\ n <= r.live => d.config = s.config /\ Charged(s, d)
    <3> HIDE DEF s, r, n
    <3> QED
      BY <1>1, <1>2, <1>3, RefundCharged
  <2> HIDE DEF s, r, d
  <2> QED
    BY <1>3, <1>4, <2>1 DEF d
<1> QED
  BY <1>1, <1>3, <1>5, StaysOpen DEF Holding

\* One reservation of an aggregate.
LEMMA AggregateConsumeAccounts ==
  ASSUME InductiveInvariant, WorkingCopyInv, NEW f \in Frames, NEW b \in Buffers,
         AggregateConsume(f, b)
  PROVE  Accounts(f)
<1> DEFINE s == shared[pin[f]]
           r == record[Thread(f)]
           n == buffer[b].bytes
           d == [r EXCEPT !.live = r.live - n]
<1>1. TypeOK /\ pc[f] = "work" /\ UNCHANGED pin /\ n \in Nat
  BY DEF InductiveInvariant, AggregateConsume, TypeOK, Buffer
<1>2. s \in EvaluationResourceState /\ r \in EvaluationResourceState /\ Thread(f) \in Threads
  BY <1>1, BodyTypes DEF Holding
<1>3. syncing[f] => call[f].op \in SyncCalls /\ r.config = s.config /\ Charged(s, r)
  BY DEF WorkingCopyInv, WorkingCopyOK
<1>4. CASE Consumable(b) /\ n <= r.live
  <2>1. FinishSync(f, d)
    BY <1>2, <1>4 DEF AggregateConsume, EvaluationResourceState
  <2>2. d \in EvaluationResourceState
    <3>1. r.live - n \in Nat
      BY <1>1, <1>2, <1>4 DEF EvaluationResourceState
    <3> HIDE DEF r
    <3> QED
      BY <1>2, <3>1, Updates
  <2>3. syncing[f] => Charged(s, d)
    <3> HIDE DEF s, r, n
    <3> QED
      BY <1>1, <1>2, <1>3, <1>4, RefundCharged
  <2> HIDE DEF d
  <2> QED
    BY <2>1, <2>2, <2>3, Publishes
<1>5. CASE ~(Consumable(b) /\ n <= r.live)
  <2>1. UNCHANGED <<record, shared, syncing, call>> /\ pc'[f] \in {"unlock", "drop"}
    BY <1>1, <1>5 DEF AggregateConsume, TypeOK, Goto
  <2> QED
    BY <1>1, <1>3, <2>1, StaysOpen DEF Holding
<1> QED
  BY <1>4, <1>5

LEMMA AggregateDropAccounts ==
  ASSUME InductiveInvariant, WorkingCopyInv, NEW f \in Frames, NEW b \in Buffers,
         AggregateDrop(f, b)
  PROVE  Accounts(f)
<1>1. TypeOK /\ pc[f] = "drop" /\ UNCHANGED <<pin, record>>
  BY DEF InductiveInvariant, AggregateDrop
<1>2. record[Thread(f)] \in EvaluationResourceState
  BY <1>1, BodyTypes DEF Holding
<1>3. syncing[f] => /\ call[f].op \in SyncCalls
                    /\ record[Thread(f)].config = shared[pin[f]].config
                    /\ Charged(shared[pin[f]], record[Thread(f)])
  BY DEF WorkingCopyInv, WorkingCopyOK
<1>4. CASE call[f].op = "release_value_reservations"
  BY <1>2, <1>3, <1>4, Publishes DEF AggregateDrop
<1>5. CASE call[f].op # "release_value_reservations"
  <2>1. UNCHANGED <<shared, syncing, call>> /\ pc'[f] \in {"unlock", "work"}
    BY <1>1, <1>5 DEF AggregateDrop, TypeOK, Goto
  <2> QED
    BY <1>1, <1>3, <2>1, StaysOpen DEF Holding
<1> QED
  BY <1>4, <1>5

LEMMA AggregateResetAccounts ==
  ASSUME InductiveInvariant, WorkingCopyInv, NEW f \in Frames, NEW b \in Buffers,
         AggregateReset(f, b)
  PROVE  Accounts(f)
<1>1. /\ TypeOK /\ UNCHANGED <<pin, record, shared, syncing, call>>
      /\ pc'[f] \in {"unlock", "work"}
  BY DEF InductiveInvariant, AggregateReset, TypeOK, Goto
<1>2. syncing[f] => /\ call[f].op \in SyncCalls
                    /\ record[Thread(f)].config = shared[pin[f]].config
                    /\ Charged(shared[pin[f]], record[Thread(f)])
  BY DEF WorkingCopyInv, WorkingCopyOK
<1> QED
  BY <1>1, <1>2, StaysOpen DEF Holding

\* The context-free refund writes the shared state itself.
LEMMA RefundBodyAccounts ==
  ASSUME InductiveInvariant, WorkingCopyInv, NEW f \in Frames, NEW b \in Buffers,
         RefundBody(f, b)
  PROVE  Accounts(f)
<1>1. TypeOK /\ pc[f] = "work" /\ buffer[b].bytes \in Nat
  BY DEF InductiveInvariant, RefundBody, TypeOK, Buffer
<1>2. pin[f] \in Tokens
  BY <1>1, BodyTypes DEF Holding
<1>3. ~syncing'[f]
  BY DEF RefundBody, WorkingCopyInv, WorkingCopyOK, SyncCalls, CleanupCalls
<1>4. ASSUME NEW tok \in registry
      PROVE  Charged(shared[tok], shared'[tok])
  <2>1. tok \in Tokens /\ shared[tok] \in EvaluationResourceState
    BY <1>1 DEF TypeOK
  <2>2. /\ shared'[tok].live <= shared[tok].live /\ shared'[tok].work = shared[tok].work
        /\ shared'[tok].live \in Nat
        /\ shared'[tok].ordinal = shared[tok].ordinal
    BY <1>1, <1>2, <2>1 DEF RefundBody, TypeOK, EvaluationResourceState
  <2> QED
    BY <2>1, <2>2 DEF Charged, EvaluationResourceState
<1> QED
  BY <1>3, <1>4 DEF Accounts, WorkingCopyOK

\* Every step of a call.
LEMMA StepAccounts ==
  ASSUME InductiveInvariant, WorkingCopyInv, NEW f \in Frames, Step(f)
  PROVE  Accounts(f)
<1>0. TypeOK /\ WorkingCopyOK(f)
  BY DEF InductiveInvariant, WorkingCopyInv
<1>1. CASE Leave(f)
  <2>1. pc[f] = "unlock" /\ FinishSync(f, record[Thread(f)])
    BY <1>1 DEF Leave
  <2>2. record[Thread(f)] \in EvaluationResourceState
    BY <2>1, BodyTypes DEF Holding
  <2> QED
    BY <1>0, <2>1, <2>2, Publishes DEF WorkingCopyOK
<1>2. CASE Unpin(f) \/ EndCallback(f)
  <2>1. pc[f] \notin Holding /\ UNCHANGED <<shared, syncing>>
    BY <1>2 DEF Unpin, EndCallback, Holding
  <2> QED
    BY <1>0, <2>1, NothingOpen DEF WorkingCopyOK
<1>3. CASE ReleaseContextBody(f) \/ RefreshBody(f)
  <2>1. call[f].op \notin SyncCalls /\ UNCHANGED <<shared, syncing>>
    BY <1>3 DEF ReleaseContextBody, RefreshBody, SyncCalls
  <2> QED
    BY <1>0, <2>1, NothingOpen DEF WorkingCopyOK
<1>4. ASSUME NEW b \in Buffers,
             Consume(f, b) \/ RefundPin(f, b) \/ DropOwner(f, b) \/ FreeStorage(f, b)
      PROVE  Accounts(f)
  <2>1. pc[f] \notin Holding /\ UNCHANGED <<shared, syncing>>
    BY <1>4 DEF Consume, RefundPin, DropOwner, FreeStorage, Holding
  <2> QED
    BY <1>0, <2>1, NothingOpen DEF WorkingCopyOK
<1>5. ASSUME NEW b \in Buffers,
             \/ AllocationSucceeds(f, b) \/ ReleaseBody(f, b) \/ ReleaseWorkspaceBody(f, b)
             \/ AggregateConsume(f, b) \/ AggregateDrop(f, b) \/ AggregateReset(f, b)
             \/ RefundBody(f, b)
      PROVE  Accounts(f)
  BY <1>5, AllocationSucceedsAccounts, ReleaseBodyAccounts, ReleaseWorkspaceBodyAccounts,
     AggregateConsumeAccounts, AggregateDropAccounts, AggregateResetAccounts,
     RefundBodyAccounts
<1>6. CASE \/ Lock(f) \/ SetObserverBody(f) \/ UpdateBody(f)
           \/ ChargeWithoutStorage(f) \/ AllocationFails(f)
  BY <1>6, LockAccounts, SetObserverBodyAccounts, UpdateBodyAccounts,
     ChargeWithoutStorageAccounts, AllocationFailsAccounts
<1> QED
  BY <1>1, <1>2, <1>3, <1>4, <1>5, <1>6 DEF Step

\* A client's copy of a record changes no working copy.
LEMMA CopyRecordKeepsCopies ==
  ASSUME InductiveInvariant, WorkingCopyInv,
         NEW t \in Threads, NEW u \in Threads, CopyRecord(t, u)
  PROVE  WorkingCopyInv' /\ UNCHANGED shared
<1>1. UNCHANGED <<shared, pc, call, pin, syncing>>
  BY DEF CopyRecord, frameVars
<1>2. ASSUME NEW g \in Frames, syncing[g]
      PROVE  record'[Thread(g)] = record[Thread(g)]
  <2>1. pc[g] # "idle" /\ Thread(g) \in Threads
    BY <1>2 DEF WorkingCopyInv, WorkingCopyOK, Holding, Frames, Thread
  <2>2. Thread(g) # t
    BY <2>1 DEF CopyRecord
  <2> QED
    BY <2>1, <2>2 DEF CopyRecord, InductiveInvariant, TypeOK
<1> QED
  BY <1>1, <1>2 DEF WorkingCopyInv, WorkingCopyOK

\* A step of any kind.
LEMMA NextAccounts ==
  ASSUME InductiveInvariant, WorkingCopyInv, Next
  PROVE  /\ WorkingCopyInv'
         /\ \A tok \in registry : Charged(shared[tok], shared'[tok])
<1>1. ASSUME NEW f \in Frames, Begin(f) \/ Step(f)
      PROVE  /\ WorkingCopyInv'
             /\ \A tok \in registry : Charged(shared[tok], shared'[tok])
  <2>1. Local(f)
    BY <1>1, BeginLocal, StepLocal
  <2>2. Accounts(f)
    BY <1>1, BeginAccounts, StepAccounts
  <2> QED
    BY <2>1, <2>2, CopiesKept DEF Accounts
<1>2. ASSUME NEW t \in Threads, NEW u \in Threads, CopyRecord(t, u)
      PROVE  /\ WorkingCopyInv'
             /\ \A tok \in registry : Charged(shared[tok], shared'[tok])
  <2>1. \A tok \in registry : Charged(shared[tok], shared[tok])
    BY SelfCharged DEF InductiveInvariant, TypeOK
  <2> QED
    BY <1>2, <2>1, CopyRecordKeepsCopies
<1> QED
  BY <1>1, <1>2 DEF Next

\* Every open transaction's working copy is the shared state plus what the
\* transaction has charged and refunded (begin_resource_record_sync to
\* finish_resource_record_sync), whatever other threads, aliases and
\* observers have done in between.
THEOREM WorkingCopiesInOrder == Spec => []WorkingCopyInv
<1>1. Init => WorkingCopyInv
  BY DEF Init, WorkingCopyInv, WorkingCopyOK
<1>2. InductiveInvariant /\ WorkingCopyInv /\ [Next]_vars => WorkingCopyInv'
  <2>1. ASSUME WorkingCopyInv, UNCHANGED vars
        PROVE  WorkingCopyInv'
    BY <2>1 DEF WorkingCopyInv, WorkingCopyOK, vars, frameVars
  <2> QED
    BY <2>1, NextAccounts
<1> QED
  BY <1>1, <1>2, Invariance, PTL DEF Spec

\* No transaction writes a working copy over what another one published:
\* the work counter and the reservation ordinal of a context only grow.
THEOREM CountersGrow == Spec => CountersNeverRunBack
<1> DEFINE Grow == \A tok \in registry \cap registry' :
                     /\ shared[tok].work <= shared'[tok].work
                     /\ shared[tok].ordinal <= shared'[tok].ordinal
<1>1. InductiveInvariant /\ WorkingCopyInv /\ [Next]_vars => [Grow]_vars
  BY NextAccounts DEF Charged
<1> QED
  BY <1>1, Invariance, WorkingCopiesInOrder, PTL DEF Spec, CountersNeverRunBack

\* Every charge that becomes visible is within the limits that the shared
\* policy has at that moment (preflight on the refreshed record), not within
\* those of a stale alias.
THEOREM ChargesWithinPolicy == Spec => PolicyEnforced
<1> DEFINE Enforced == \A tok \in registry \cap registry' :
       /\ shared[tok].live < shared'[tok].live =>
            Within(shared'[tok].live, shared[tok].config.max_live_evaluation_bytes)
       /\ shared[tok].work < shared'[tok].work =>
            Within(shared'[tok].work, shared[tok].config.max_work_units)
<1>1. InductiveInvariant /\ WorkingCopyInv /\ [Next]_vars => [Enforced]_vars
  BY NextAccounts DEF Charged
<1> QED
  BY <1>1, Invariance, WorkingCopiesInOrder, PTL DEF Spec, PolicyEnforced

-----------------------------------------------------------------------------
(***************************************************************************)
(* What an operation relies on when its body runs: it has opened its       *)
(* working copy, the record of its thread names the context it has pinned, *)
(* and so do the reservations it has been given.  The reservation under    *)
(* cleanup has been consumed.  An idle frame has no reservations.          *)
(***************************************************************************)
OperationOK(f) ==
  /\ pc[f] = "idle" => Claimed(f) = {}
  /\ pc[f] = "callback" => call[f].resume # "work"
  /\ Label(f) \in {"drop", "reset"} => call[f].op \in AggregateCalls
  /\ pc[f] \in {"work", "drop", "reset"} /\ call[f].op \in SyncCalls => syncing[f]
  /\ Label(f) = "work" /\ call[f].op \in AllocationCalls \cup {"release_workspace"}
       => owner[Thread(f)] = pin[f]
  /\ (/\ Label(f) \in {"work", "drop", "reset"}
      /\ call[f].op \in AggregateCalls \cup (ReleaseCalls \ {"release_workspace"}))
       => \A b \in Claimed(f) : buffer[b].owner \in {NoToken, pin[f]}
  /\ \A b \in current[f] :
       /\ buffer[b].bound = NoToken
       /\ call[f].op \in CleanupCalls /\ Label(f) = "refund" => buffer[b].owner # NoToken
       /\ call[f].op \in CleanupCalls /\ Label(f) = "work" => buffer[b].owner = pin[f]

\* A binding names the owner in the public record, and its bytes fit.
ReservationOK(b) ==
  buffer[b].bytes <= MaxSize /\ buffer[b].bound \in {NoToken, buffer[b].owner}

OperationsInv ==
  /\ \A f \in Frames : OperationOK(f)
  /\ \A b \in Buffers : ReservationOK(b)

\* What becomes of a buffer: its binding is consumed, its owner is dropped, or
\* it is detached from the call that has it.
Consumed(x) == [x EXCEPT !.bound = NoToken]
Dropped(x)  == [x EXCEPT !.owner = NoToken]
Detached(x) == [x EXCEPT !.owner = NoToken, !.user = {}]

LEMMA BufferForms ==
  ASSUME NEW x \in Buffer
  PROVE  /\ Consumed(x).allocated = x.allocated /\ Consumed(x).user = x.user
         /\ Consumed(x).bytes = x.bytes /\ Consumed(x).ordinal = x.ordinal
         /\ Consumed(x).bound = NoToken /\ Consumed(x).owner = x.owner
         /\ Dropped(x).allocated = x.allocated /\ Dropped(x).user = x.user
         /\ Dropped(x).bytes = x.bytes /\ Dropped(x).ordinal = x.ordinal
         /\ Dropped(x).bound = x.bound /\ Dropped(x).owner = NoToken
         /\ Detached(x).allocated = x.allocated /\ Detached(x).user = {}
         /\ Detached(x).bytes = x.bytes /\ Detached(x).ordinal = x.ordinal
         /\ Detached(x).bound = x.bound /\ Detached(x).owner = NoToken
         /\ FreeBuffer.user = {} /\ FreeBuffer.bytes = 0 /\ FreeBuffer.bound = NoToken
         /\ FreeBuffer.owner = NoToken /\ ~FreeBuffer.allocated
  BY DEF Buffer, Consumed, Dropped, Detached, FreeBuffer

\* b becomes x, and the other buffers stay as they are.
Becomes(b, x) ==
  buffer'[b] = x /\ \A c \in Buffers : c # b => buffer'[c] = buffer[c]

\* What each body does to the reservation it is about.
LEMMA BodyBuffers ==
  ASSUME TypeOK, NEW f \in Frames, NEW b \in Buffers
  PROVE  /\ ReleaseBody(f, b) \/ ReleaseWorkspaceBody(f, b) =>
              UNCHANGED buffer \/ Becomes(b, FreeBuffer)
         /\ AggregateConsume(f, b) => UNCHANGED buffer \/ Becomes(b, Consumed(buffer[b]))
         /\ Consume(f, b) => Becomes(b, Consumed(buffer[b]))
         /\ AggregateDrop(f, b) =>
              IF call[f].op = "release_value_reservations"
              THEN Becomes(b, Dropped(buffer[b])) ELSE Becomes(b, Detached(buffer[b]))
         /\ DropOwner(f, b) => Becomes(b, Dropped(buffer[b]))
         /\ AggregateReset(f, b) \/ FreeStorage(f, b) => Becomes(b, FreeBuffer)
<1>1. buffer \in [Buffers -> Buffer]
  BY DEF TypeOK
<1>2. buffer' = [buffer EXCEPT ![b] = FreeBuffer] => Becomes(b, FreeBuffer)
  BY <1>1 DEF Becomes
<1>3. buffer' = [buffer EXCEPT ![b].bound = NoToken] => Becomes(b, Consumed(buffer[b]))
  BY <1>1 DEF Becomes, Consumed
<1>4. buffer' = [buffer EXCEPT ![b].owner = NoToken] => Becomes(b, Dropped(buffer[b]))
  BY <1>1 DEF Becomes, Dropped
<1>5. buffer' = [buffer EXCEPT ![b].owner = NoToken, ![b].user = {}]
        => Becomes(b, Detached(buffer[b]))
  BY <1>1 DEF Becomes, Detached
<1>6. ReleaseBody(f, b) \/ ReleaseWorkspaceBody(f, b) =>
        UNCHANGED buffer \/ Becomes(b, FreeBuffer)
  BY <1>2 DEF ReleaseBody, ReleaseWorkspaceBody
<1>7. /\ AggregateConsume(f, b) => UNCHANGED buffer \/ Becomes(b, Consumed(buffer[b]))
      /\ Consume(f, b) => Becomes(b, Consumed(buffer[b]))
  BY <1>3 DEF AggregateConsume, Consume
<1>8. AggregateDrop(f, b) =>
        IF call[f].op = "release_value_reservations"
        THEN Becomes(b, Dropped(buffer[b])) ELSE Becomes(b, Detached(buffer[b]))
  BY <1>4, <1>5 DEF AggregateDrop
<1>9. /\ DropOwner(f, b) => Becomes(b, Dropped(buffer[b]))
      /\ AggregateReset(f, b) \/ FreeStorage(f, b) => Becomes(b, FreeBuffer)
  BY <1>2, <1>4 DEF DropOwner, AggregateReset, FreeStorage
<1> QED
  BY <1>6, <1>7, <1>8, <1>9

-----------------------------------------------------------------------------
(***************************************************************************)
(* The operations of the other frames.                                     *)
(***************************************************************************)

\* What others have claimed is not touched, and nothing is claimed for them.
BuffersLocal(f) ==
  /\ \A g \in Frames : g # f => current'[g] = current[g]
  /\ \A b \in Buffers : \A g \in Frames : g # f =>
       /\ g \in buffer[b].user => buffer'[b] = buffer[b]
       /\ g \in buffer'[b].user => g \in buffer[b].user

LEMMA BeginBuffersLocal ==
  ASSUME InductiveInvariant, NEW f \in Frames, Begin(f)
  PROVE  BuffersLocal(f)
<1>0. TypeOK
  BY DEF InductiveInvariant
<1>1. CASE \E B \in SUBSET Buffers : BeginRelease(f, B) \/ BeginCleanup(f, B)
  <2>1. PICK B \in SUBSET Buffers : BeginRelease(f, B) \/ BeginCleanup(f, B)
    BY <1>1
  <2>2. UNCHANGED current /\ Claim(f, B) /\ \A b \in B : buffer[b].user = {}
    BY <2>1 DEF BeginRelease, BeginCleanup, IsValue, InClientHands
  <2>3. \A b \in Buffers : /\ b \notin B => buffer'[b] = buffer[b]
                           /\ b \in B => buffer'[b].user = {f}
    BY <1>0, <2>2 DEF Claim, TypeOK, Buffer
  <2> QED
    BY <2>2, <2>3 DEF BuffersLocal
<1>2. CASE ~\E B \in SUBSET Buffers : BeginRelease(f, B) \/ BeginCleanup(f, B)
  <2>1. UNCHANGED <<current, buffer>>
    BY <1>2 DEF Begin, MakeContext, ReleaseContext, BeginSnapshotCall, BeginUpdate,
                BeginCharge, frameVars
  <2> QED
    BY <2>1 DEF BuffersLocal
<1> QED
  BY <1>1, <1>2

LEMMA StepBuffersLocal ==
  ASSUME InductiveInvariant, NEW f \in Frames, Step(f)
  PROVE  BuffersLocal(f)
<1>0. /\ TypeOK
      /\ \A b \in Buffers : \A g \in buffer[b].user : buffer[b].user = {g} /\ buffer[b].allocated
      /\ \A b \in current[f] : b \in Buffers /\ buffer[b].user = {f}
  BY DEF InductiveInvariant, BuffersInv, BufferOK, CurrentOK, TypeOK
<1>1. CASE Unpin(f)
  <2>1. UNCHANGED current
    BY <1>1 DEF Unpin
  <2>2. \/ UNCHANGED buffer
        \/ buffer' = [b \in Buffers |-> [buffer[b] EXCEPT !.user = @ \ {f}]]
    BY <1>1 DEF Unpin
  <2>3. ASSUME NEW b \in Buffers, NEW g \in Frames, g # f
        PROVE  /\ g \in buffer[b].user => buffer'[b] = buffer[b]
               /\ g \in buffer'[b].user => g \in buffer[b].user
    <3>1. CASE UNCHANGED buffer
      BY <3>1
    <3>2. CASE buffer' = [c \in Buffers |-> [buffer[c] EXCEPT !.user = @ \ {f}]]
      <4>1. buffer'[b] = [buffer[b] EXCEPT !.user = buffer[b].user \ {f}]
        BY <3>2
      <4>2. buffer[b] \in Buffer
        BY <1>0 DEF TypeOK
      <4>3. buffer'[b].user = buffer[b].user \ {f}
        BY <4>1, <4>2 DEF Buffer
      <4>4. f \notin buffer[b].user => buffer'[b] = buffer[b]
        BY <4>1, <4>2 DEF Buffer
      <4> QED
        BY <2>3, <4>3, <4>4, <1>0
    <3> QED
      BY <2>2, <3>1, <3>2
  <2> QED
    BY <2>1, <2>3 DEF BuffersLocal
<1>2. CASE \/ Lock(f) \/ Leave(f) \/ EndCallback(f) \/ ReleaseContextBody(f) \/ RefreshBody(f)
           \/ SetObserverBody(f) \/ UpdateBody(f) \/ ChargeWithoutStorage(f)
           \/ AllocationFails(f) \/ \E b \in Buffers : RefundPin(f, b) \/ RefundBody(f, b)
  <2>1. UNCHANGED <<current, buffer>>
    BY <1>2 DEF Lock, Leave, EndCallback, ReleaseContextBody, RefreshBody, SetObserverBody,
                UpdateBody, ChargeWithoutStorage, AllocationFails, RefundPin, RefundBody
  <2> QED
    BY <2>1 DEF BuffersLocal
<1>3. ASSUME NEW b \in Buffers,
             \/ AllocationSucceeds(f, b) \/ ReleaseBody(f, b) \/ ReleaseWorkspaceBody(f, b)
             \/ AggregateConsume(f, b) \/ AggregateDrop(f, b) \/ AggregateReset(f, b)
             \/ Consume(f, b) \/ DropOwner(f, b) \/ FreeStorage(f, b)
      PROVE  BuffersLocal(f)
  <2>1. \A g \in Frames : g # f => current'[g] = current[g]
    BY <1>0, <1>3 DEF AllocationSucceeds, ReleaseBody, ReleaseWorkspaceBody, AggregateConsume,
               AggregateDrop, AggregateReset, Consume, DropOwner, FreeStorage, TypeOK
  <2>2. /\ \A c \in Buffers : c # b => buffer'[c] = buffer[c]
        /\ buffer[b].user \in {{}, {f}} /\ buffer'[b].user \subseteq {f}
    <3>1. CASE AllocationSucceeds(f, b)
      <4>1. buffer[b].user = {}
        BY <1>0, <3>1 DEF AllocationSucceeds
      <4>2. /\ \A c \in Buffers : c # b => buffer'[c] = buffer[c]
            /\ buffer'[b].user = {f}
        BY <1>0, <3>1 DEF AllocationSucceeds, TypeOK
      <4> QED
        BY <4>1, <4>2
    <3>2. CASE ~AllocationSucceeds(f, b)
      <4>1. buffer[b].user = {f}
        BY <1>0, <1>3, <3>2 DEF ReleaseBody, ReleaseWorkspaceBody, AggregateConsume, Consume,
               AggregateDrop, AggregateReset, DropOwner, FreeStorage, Claimed
      <4>2. \/ UNCHANGED buffer \/ Becomes(b, FreeBuffer) \/ Becomes(b, Consumed(buffer[b]))
            \/ Becomes(b, Dropped(buffer[b])) \/ Becomes(b, Detached(buffer[b]))
        BY <1>0, <1>3, <3>2, BodyBuffers
      <4>3. buffer[b] \in Buffer
        BY <1>0 DEF TypeOK
      <4> QED
        BY <4>1, <4>2, <4>3, BufferForms DEF Becomes
    <3> QED
      BY <3>1, <3>2
  <2> QED
    BY <2>1, <2>2 DEF BuffersLocal
<1> QED
  BY <1>1, <1>2, <1>3 DEF Step

\* So the others' operations still have what they rely on.
LEMMA OperationsKept ==
  ASSUME InductiveInvariant, OperationsInv, NEW f \in Frames, Local(f), BuffersLocal(f),
         NEW g \in Frames, g # f
  PROVE  OperationOK(g)'
<1>1. /\ pc'[g] = pc[g] /\ call'[g] = call[g] /\ pin'[g] = pin[g]
      /\ syncing'[g] = syncing[g] /\ current'[g] = current[g]
  BY DEF Local, OthersKept, BuffersLocal
<1>2. OperationOK(g)
  BY DEF OperationsInv
<1>3. Label(g)' = Label(g)
  BY <1>1 DEF Label
<1>4. \A b \in Claimed(g)' : b \in Claimed(g) /\ buffer'[b] = buffer[b]
  BY DEF BuffersLocal, Claimed
<1>5. \A b \in current[g] : buffer'[b] = buffer[b]
  BY DEF BuffersLocal, InductiveInvariant, BuffersInv, CurrentOK, TypeOK
<1>6. Label(g) = "work" => owner'[Thread(g)] = owner[Thread(g)]
  <2>1. CASE Thread(g) # Thread(f)
    BY <2>1 DEF Local, OthersKept, Frames, Thread
  <2>2. CASE Thread(g) = Thread(f)
    <3>1. Active(f) => pc[g] \in {"idle", "callback"}
      BY <2>2, RunningAlone DEF InductiveInvariant
    <3> QED
      BY <3>1, <1>2 DEF Local, OwnKept, OperationOK, Label
  <2> QED
    BY <2>1, <2>2
<1> QED
  BY <1>1, <1>2, <1>3, <1>4, <1>5, <1>6 DEF OperationOK

-----------------------------------------------------------------------------
(***************************************************************************)
(* A frame's own operation.                                                *)
(***************************************************************************)
OwnOperation(f) == OperationOK(f)' /\ \A b \in Buffers : ReservationOK(b)'

\* Buffers that keep all that OperationOK and ReservationOK read.
LEMMA ReservationsKept ==
  ASSUME OperationsInv,
         \A b \in Buffers : /\ buffer'[b].bytes = buffer[b].bytes
                            /\ buffer'[b].bound = buffer[b].bound
                            /\ buffer'[b].owner = buffer[b].owner
  PROVE  \A b \in Buffers : ReservationOK(b)'
  BY DEF OperationsInv, ReservationOK

\* One reservation consumed, dropped, detached or freed.
LEMMA ReservationChanged ==
  ASSUME OperationsInv, TypeOK, NEW b \in Buffers,
         \/ Becomes(b, FreeBuffer) \/ Becomes(b, Consumed(buffer[b]))
         \/ (Becomes(b, Dropped(buffer[b])) /\ buffer[b].bound = NoToken)
         \/ (Becomes(b, Detached(buffer[b])) /\ buffer[b].bound = NoToken)
  PROVE  \A c \in Buffers : ReservationOK(c)'
<1>1. buffer[b] \in Buffer
  BY DEF TypeOK
<1>2. ReservationOK(b)'
  BY <1>1, BufferForms, BoundsAssumption DEF Becomes, OperationsInv, ReservationOK
<1> QED
  BY <1>2 DEF Becomes, OperationsInv, ReservationOK

\* A frame that has just been pinned to the context of its record.
LEMMA PinnedOperation ==
  ASSUME InductiveInvariant, OperationsInv, NEW f \in Frames, MayCall(f),
         NEW op, NEW bytes, NEW work, BeginPinned(f, op, bytes, work),
         UNCHANGED <<owner, current>>,
         \A b \in Claimed(f)' : buffer'[b].owner \in {NoToken, owner[Thread(f)]}
  PROVE  OperationOK(f)'
<1>1. TypeOK /\ current[f] = {}
  BY DEF InductiveInvariant, MayCall, BuffersInv, CurrentOK, Label
<1>2. pc'[f] = "lock" /\ call'[f].resume = "work" /\ pin'[f] = owner[Thread(f)]
  BY <1>1 DEF BeginPinned, Goto, NewCall, TypeOK
<1> QED
  BY <1>1, <1>2 DEF OperationOK, Label

LEMMA BeginOperation ==
  ASSUME InductiveInvariant, OperationsInv, NEW f \in Frames, Begin(f)
  PROVE  OwnOperation(f)
<1>0. TypeOK /\ OperationOK(f)
  BY DEF InductiveInvariant, OperationsInv
<1>1. MayCall(f)
  BY DEF Begin, MakeContext, ReleaseContext, BeginSnapshotCall, BeginUpdate, BeginCharge,
         BeginRelease, BeginCleanup
<1>2. Claimed(f) = {} /\ current[f] = {} /\ pc[f] = "idle"
  BY <1>0, <1>1 DEF MayCall, OperationOK, InductiveInvariant, BuffersInv, CurrentOK, Label
<1>3. CASE (\E c \in Configurations : MakeContext(f, c)) \/ ReleaseContext(f)
  <2>1. UNCHANGED <<buffer, current>>
    BY <1>3 DEF MakeContext, ReleaseContext, frameVars
  <2>2. \/ pc'[f] = "idle"
        \/ pc'[f] = "lock" /\ call'[f].op = "release_context" /\ call'[f].resume = "work"
    BY <1>0, <1>2, <1>3 DEF MakeContext, ReleaseContext, frameVars, Goto, NewCall, TypeOK
  <2>3. OperationOK(f)'
    BY <1>2, <2>1, <2>2 DEF OperationOK, Label, Claimed, AllocationCalls, ReleaseCalls,
                            AggregateCalls, CleanupCalls
  <2> QED
    BY <2>1, <2>3, ReservationsKept DEF OwnOperation
<1>4. CASE \/ \E op \in {"refresh", "set_lifetime_observer"} : BeginSnapshotCall(f, op)
           \/ \E e \in Edits : BeginUpdate(f, e)
           \/ \E op \in AllocationCalls \cup {"charge_work"}, bytes \in Sizes, work \in Works :
                BeginCharge(f, op, bytes, work)
  <2>1. UNCHANGED <<buffer, current, owner>>
    BY <1>4 DEF BeginSnapshotCall, BeginUpdate, BeginCharge
  <2>2. \E op, bytes, work : BeginPinned(f, op, bytes, work)
    BY <1>4 DEF BeginSnapshotCall, BeginUpdate, BeginCharge
  <2>3. Claimed(f)' = {}
    BY <1>2, <2>1 DEF Claimed
  <2>4. OperationOK(f)'
    BY <1>1, <2>1, <2>2, <2>3, PinnedOperation
  <2> QED
    BY <2>1, <2>4, ReservationsKept DEF OwnOperation
<1>5. ASSUME NEW B \in SUBSET Buffers, BeginRelease(f, B) \/ BeginCleanup(f, B)
      PROVE  OwnOperation(f)
  <2>1. UNCHANGED <<current, owner>> /\ Claim(f, B)
    BY <1>5 DEF BeginRelease, BeginCleanup
  <2>2. \A b \in Buffers : /\ buffer'[b].bytes = buffer[b].bytes
                           /\ buffer'[b].bound = buffer[b].bound
                           /\ buffer'[b].owner = buffer[b].owner
                           /\ b \notin B => buffer'[b] = buffer[b]
    BY <1>0, <2>1 DEF Claim, TypeOK, Buffer
  <2>3. Claimed(f)' \in SUBSET B
    BY <1>2, <2>2 DEF Claimed
  <2>4. CASE BeginRelease(f, B)
    <3>1. PICK op : /\ op \in ReleaseCalls \cup AggregateCalls
                    /\ op # "release_workspace" => SameOwner(f, B)
                    /\ BeginPinned(f, op, 0, 0)
      BY <2>4 DEF BeginRelease
    <3>2. ASSUME op # "release_workspace"
          PROVE  OperationOK(f)'
      <4>1. \A b \in Claimed(f)' : buffer'[b].owner \in {NoToken, owner[Thread(f)]}
        BY <2>2, <2>3, <3>1, <3>2 DEF SameOwner
      <4> QED
        BY <1>1, <2>1, <3>1, <4>1, PinnedOperation
    <3>3. ASSUME op = "release_workspace"
          PROVE  OperationOK(f)'
      <4>1. /\ pc'[f] = "lock" /\ call'[f].resume = "work" /\ pin'[f] = owner[Thread(f)]
            /\ call'[f].op = "release_workspace"
        BY <1>0, <3>1, <3>3 DEF BeginPinned, Goto, NewCall, TypeOK
      <4> QED
        BY <1>2, <2>1, <4>1 DEF OperationOK, Label, ReleaseCalls, AggregateCalls, CleanupCalls
    <3>4. OperationOK(f)'
      BY <3>2, <3>3
    <3> QED
      BY <2>2, <3>4, ReservationsKept DEF OwnOperation
  <2>5. CASE BeginCleanup(f, B)
    <3>1. pc'[f] = "consume"
      BY <1>0, <2>5 DEF BeginCleanup, Goto, TypeOK
    <3>2. OperationOK(f)'
      BY <1>2, <2>1, <3>1 DEF OperationOK, Label
    <3> QED
      BY <2>2, <3>2, ReservationsKept DEF OwnOperation
  <2> QED
    BY <1>5, <2>4, <2>5
<1> QED
  BY <1>3, <1>4, <1>5 DEF Begin

\* Labels at which an operation relies on nothing but consumed bindings.
LEMMA QuietLabel ==
  ASSUME NEW f \in Frames,
         Label(f)' \in {"unlock", "unpin", "owner", "free", "consume"},
         \A b \in current'[f] : buffer'[b].bound = NoToken
  PROVE  OperationOK(f)'
  BY DEF OperationOK, Label

\* What holds of a frame under the lock that cleans nothing up.
LEMMA BodyFacts ==
  ASSUME InductiveInvariant, OperationsInv, NEW f \in Frames
  PROVE  /\ pc[f] \in {"work", "unlock"} /\ call[f].op \notin CleanupCalls => current[f] = {}
         /\ \A b \in current[f] : buffer[b].bound = NoToken /\ b \in Buffers
         /\ \A b \in current[f] : \A c \in current[f] : b = c
         /\ \A b \in Buffers : buffer[b] \in Buffer
  BY DEF InductiveInvariant, BuffersInv, CurrentOK, Label, OperationsInv, OperationOK, TypeOK

LEMMA LockOperation ==
  ASSUME InductiveInvariant, OperationsInv, NEW f \in Frames, Lock(f)
  PROVE  OwnOperation(f)
<1>1. OperationOK(f) /\ TypeOK /\ LabelOK(f)
  BY DEF OperationsInv, InductiveInvariant, LabelsInv
<1>2. UNCHANGED <<owner, buffer, call, pin, current>>
  BY DEF Lock
<1>3. /\ pc[f] = "lock" /\ pc'[f] = call[f].resume /\ call[f].resume \in Holding
      /\ call[f].op \in SyncCalls /\ call[f].resume # "unlock" => syncing'[f]
  BY <1>1 DEF Lock, Goto, TypeOK, LabelOK
<1>4. Label(f)' = Label(f) /\ Claimed(f)' = Claimed(f)
  BY <1>2, <1>3 DEF Label, Claimed, Holding
<1>5. OperationOK(f)'
  BY <1>1, <1>2, <1>3, <1>4 DEF OperationOK, Holding
<1> QED
  BY <1>2, <1>5, ReservationsKept DEF OwnOperation

LEMMA EndCallbackOperation ==
  ASSUME InductiveInvariant, OperationsInv, NEW f \in Frames, EndCallback(f)
  PROVE  OwnOperation(f)
<1>1. OperationOK(f) /\ TypeOK /\ LabelOK(f)
  BY DEF OperationsInv, InductiveInvariant, LabelsInv
<1>2. UNCHANGED <<owner, buffer, pin, current, syncing>>
  BY DEF EndCallback
<1>3. /\ pc[f] = "callback" /\ call'[f].resume = call[f].resume /\ call'[f].op = call[f].op
      /\ pc'[f] = IF call[f].resume \in Holding THEN "lock" ELSE call[f].resume
      /\ call[f].resume \in Holding \cup {"unpin", "owner", "free"}
  BY <1>1 DEF EndCallback, Goto, TypeOK, LabelOK, Call
<1>4. /\ Label(f)' = Label(f) /\ Claimed(f)' = Claimed(f)
      /\ pc'[f] \in {"lock", "unpin", "owner", "free"}
  BY <1>2, <1>3 DEF Label, Claimed, Holding
<1>5. OperationOK(f)'
  BY <1>1, <1>2, <1>3, <1>4 DEF OperationOK, Holding
<1> QED
  BY <1>2, <1>5, ReservationsKept DEF OwnOperation

LEMMA UnpinOperation ==
  ASSUME InductiveInvariant, OperationsInv, NEW f \in Frames, Unpin(f)
  PROVE  OwnOperation(f)
<1>1. TypeOK /\ pc[f] = "unpin" /\ UNCHANGED current
  BY DEF InductiveInvariant, Unpin
<1>2. \A b \in Buffers : /\ buffer'[b].bytes = buffer[b].bytes
                         /\ buffer'[b].bound = buffer[b].bound
                         /\ buffer'[b].owner = buffer[b].owner
  BY <1>1 DEF Unpin, TypeOK, Buffer
<1>3. CASE call[f].op \in CleanupCalls
  <2>1. Label(f)' \in {"owner", "free"}
    BY <1>1, <1>3 DEF Unpin, CleanupCalls, Notify, Goto, TypeOK, Label, Call
  <2> QED
    BY <1>1, <1>2, <2>1, BodyFacts, QuietLabel, ReservationsKept DEF OwnOperation
<1>4. CASE call[f].op \notin CleanupCalls
  <2>1. current[f] = {}
    BY <1>1, <1>4 DEF InductiveInvariant, BuffersInv, CurrentOK, Label
  <2>2. Return(f) /\ buffer' = [b \in Buffers |-> [buffer[b] EXCEPT !.user = @ \ {f}]]
    BY <1>4 DEF Unpin, CleanupCalls
  <2>3. \A b \in Buffers : f \notin buffer'[b].user
    BY <1>1, <2>2 DEF TypeOK, Buffer
  <2>4. pc'[f] = "idle" /\ Claimed(f)' = {}
    BY <1>1, <2>2, <2>3 DEF Return, TypeOK, Claimed
  <2>5. OperationOK(f)'
    BY <1>1, <2>1, <2>4 DEF OperationOK, Label
  <2> QED
    BY <1>2, <2>5, ReservationsKept DEF OwnOperation
<1> QED
  BY <1>3, <1>4

\* Bodies that leave the buffers alone and go on to the way out.
LEMMA PlainBodyOperation ==
  ASSUME InductiveInvariant, OperationsInv, NEW f \in Frames,
         \/ Leave(f) \/ ReleaseContextBody(f) \/ RefreshBody(f) \/ SetObserverBody(f)
         \/ UpdateBody(f) \/ ChargeWithoutStorage(f) \/ AllocationFails(f)
         \/ \E b \in Buffers : RefundBody(f, b)
  PROVE  OwnOperation(f)
<1>1. TypeOK
  BY DEF InductiveInvariant
<1>2. UNCHANGED <<buffer, current>>
  BY DEF Leave, ReleaseContextBody, RefreshBody, SetObserverBody, UpdateBody,
         ChargeWithoutStorage, AllocationFails, RefundBody
<1>3. pc'[f] \in {"unlock", "unpin", "owner"}
  BY <1>1 DEF Leave, ReleaseContextBody, RefreshBody, SetObserverBody, UpdateBody,
              ChargeWithoutStorage, AllocationFails, RefundBody, Goto, TypeOK
<1>4. OperationOK(f)'
  BY <1>2, <1>3, BodyFacts, QuietLabel DEF Label
<1> QED
  BY <1>2, <1>4, ReservationsKept DEF OwnOperation

LEMMA AllocationSucceedsOperation ==
  ASSUME InductiveInvariant, OperationsInv, NEW f \in Frames, NEW b \in Buffers,
         AllocationSucceeds(f, b)
  PROVE  OwnOperation(f)
<1>1. TypeOK /\ pc[f] = "work" /\ call[f].op \in AllocationCalls
  BY DEF InductiveInvariant, AllocationSucceeds
<1>2. current'[f] = {}
  BY <1>1, BodyFacts DEF AllocationSucceeds, AllocationCalls, CleanupCalls
<1>3. Label(f)' \in {"unlock", "unpin"}
  BY <1>1 DEF AllocationSucceeds, Notify, Goto, TypeOK, Label, Call
<1>4. /\ buffer'[b].bytes = call[f].bytes /\ buffer'[b].bound = owner[Thread(f)]
      /\ buffer'[b].owner = owner[Thread(f)]
      /\ \A c \in Buffers : c # b => buffer'[c] = buffer[c]
  BY <1>1 DEF AllocationSucceeds, TypeOK
<1>5. call[f].bytes <= MaxSize
  <2>1. call[f].bytes <= MaxSize - record[Thread(f)].live
    BY DEF AllocationSucceeds, Admissible, Preflight
  <2>2. call[f].bytes \in Nat /\ record[Thread(f)].live \in Nat
    BY <1>1, BodyTypes DEF Holding, EvaluationResourceState
  <2> QED
    BY <2>1, <2>2, BoundsAssumption
<1>6. \A c \in Buffers : ReservationOK(c)'
  BY <1>4, <1>5 DEF OperationsInv, ReservationOK
<1> QED
  BY <1>2, <1>3, <1>6, QuietLabel DEF OwnOperation

LEMMA ReleaseBodyOperation ==
  ASSUME InductiveInvariant, OperationsInv, NEW f \in Frames, NEW b \in Buffers,
         ReleaseBody(f, b) \/ ReleaseWorkspaceBody(f, b)
  PROVE  OwnOperation(f)
<1>1. TypeOK /\ pc[f] = "work" /\ call[f].op \in ReleaseCalls /\ UNCHANGED current
  BY DEF InductiveInvariant, ReleaseBody, ReleaseWorkspaceBody, ReleaseCalls
<1>2. current'[f] = {}
  BY <1>1, BodyFacts DEF ReleaseCalls, CleanupCalls
<1>3. Label(f)' = "unlock"
  BY <1>1 DEF ReleaseBody, ReleaseWorkspaceBody, Notify, Goto, TypeOK, Label, Call
<1>4. UNCHANGED buffer \/ Becomes(b, FreeBuffer)
  BY <1>1, BodyBuffers
<1>5. \A c \in Buffers : ReservationOK(c)'
  BY <1>1, <1>4, ReservationsKept, ReservationChanged
<1> QED
  BY <1>2, <1>3, <1>5, QuietLabel DEF OwnOperation

LEMMA AggregateConsumeOperation ==
  ASSUME InductiveInvariant, OperationsInv, NEW f \in Frames, NEW b \in Buffers,
         AggregateConsume(f, b)
  PROVE  OwnOperation(f)
<1>1. /\ TypeOK /\ OperationOK(f) /\ pc[f] = "work" /\ call[f].op \in AggregateCalls
      /\ UNCHANGED <<owner, pin>>
  BY DEF InductiveInvariant, OperationsInv, AggregateConsume
<1>2. CASE ~Consumable(b)
  <2>1. UNCHANGED <<buffer, current>> /\ Label(f)' = "unlock"
    BY <1>1, <1>2 DEF AggregateConsume, Goto, TypeOK, Label
  <2>2. current'[f] = {}
    BY <1>1, <2>1, BodyFacts DEF AggregateCalls, CleanupCalls
  <2> QED
    BY <2>1, <2>2, QuietLabel, ReservationsKept DEF OwnOperation
<1>3. CASE Consumable(b)
  <2>1. current'[f] = {b} /\ buffer' = [buffer EXCEPT ![b].bound = NoToken]
    BY <1>1, <1>3 DEF AggregateConsume, TypeOK
  <2>2. Becomes(b, Consumed(buffer[b])) /\ buffer[b] \in Buffer
    BY <1>1, <2>1 DEF Becomes, Consumed, TypeOK
  <2>3. /\ Label(f)' = "drop" /\ call'[f].op = call[f].op
        /\ \/ pc'[f] = "callback" /\ call'[f].resume = "drop"
           \/ pc'[f] = "drop" /\ UNCHANGED syncing
    BY <1>1, <1>3 DEF AggregateConsume, Goto, Notify, TypeOK, Label, Call
  <2>4. /\ Claimed(f)' = Claimed(f)
        /\ \A c \in Claimed(f) : buffer'[c].owner = buffer[c].owner
        /\ buffer'[b].bound = NoToken
    BY <2>2, BufferForms DEF Becomes, Claimed
  <2>5. /\ \A c \in Claimed(f) : buffer[c].owner \in {NoToken, pin[f]}
        /\ call[f].op \in SyncCalls => syncing[f]
    BY <1>1 DEF OperationOK, Label
  <2>6. OperationOK(f)'
    BY <1>1, <2>1, <2>3, <2>4, <2>5 DEF OperationOK
  <2> QED
    BY <1>1, <2>2, <2>6, ReservationChanged DEF OwnOperation
<1> QED
  BY <1>2, <1>3

LEMMA AggregateDropOperation ==
  ASSUME InductiveInvariant, OperationsInv, NEW f \in Frames, NEW b \in Buffers,
         AggregateDrop(f, b)
  PROVE  OwnOperation(f)
<1>1. /\ TypeOK /\ OperationOK(f) /\ LabelOK(f) /\ pc[f] = "drop" /\ UNCHANGED <<owner, pin>>
      /\ b \in current[f] /\ buffer[b] \in Buffer
  BY DEF InductiveInvariant, OperationsInv, AggregateDrop, LabelsInv, TypeOK
<1>2. buffer[b].bound = NoToken /\ call[f].op \notin CleanupCalls
  BY <1>1 DEF OperationOK, LabelOK, Label
<1>3. \/ Becomes(b, Dropped(buffer[b])) \/ Becomes(b, Detached(buffer[b]))
  BY <1>1, BodyBuffers
<1>4. \A c \in Buffers : ReservationOK(c)'
  BY <1>1, <1>2, <1>3, ReservationChanged
<1>5. \A c \in Claimed(f)' : c \in Claimed(f) /\ buffer'[c].owner \in {NoToken, buffer[c].owner}
  BY <1>1, <1>3, BufferForms DEF Becomes, Claimed
<1>6. /\ call[f].op \in SyncCalls => syncing[f]
      /\ call[f].op \in AggregateCalls \cup (ReleaseCalls \ {"release_workspace"})
           => \A c \in Claimed(f) : buffer[c].owner \in {NoToken, pin[f]}
  BY <1>1 DEF OperationOK, Label
<1>7. CASE call[f].op = "release_value_reservations"
  <2>1. /\ pc'[f] = "callback" /\ call'[f].op = call[f].op /\ call'[f].resume = "reset"
        /\ UNCHANGED current
    BY <1>1, <1>7 DEF AggregateDrop, Notify, TypeOK, Call
  <2>2. \A c \in current[f] : buffer'[c].bound = NoToken
    <3>1. \A c \in current[f] : c = b
      BY <1>1, BodyFacts
    <3> QED
      BY <1>1, <1>2, <1>3, <3>1, BufferForms DEF Becomes
  <2>3. Label(f)' = "reset"
    BY <2>1 DEF Label
  <2>4. call[f].op \in AggregateCalls
    BY <1>1 DEF OperationOK, Label
  <2>5. OperationOK(f)'
    BY <1>1, <1>2, <1>5, <1>6, <2>1, <2>2, <2>3, <2>4 DEF OperationOK
  <2> QED
    BY <1>4, <2>5 DEF OwnOperation
<1>8. CASE call[f].op # "release_value_reservations"
  <2>1. pc'[f] \in {"unlock", "work"} /\ UNCHANGED <<call, syncing>> /\ current'[f] = {}
    BY <1>1, <1>8 DEF AggregateDrop, Goto, TypeOK
  <2>2. OperationOK(f)'
    <3>1. CASE pc'[f] = "unlock"
      BY <2>1, <3>1, QuietLabel DEF Label
    <3>2. CASE pc'[f] = "work"
      <4>1. call[f].op \in AggregateCalls
        BY <1>1 DEF OperationOK, Label
      <4> QED
        BY <1>1, <1>5, <1>6, <2>1, <3>2, <4>1 DEF OperationOK, Label, AggregateCalls,
           AllocationCalls
    <3> QED
      BY <2>1, <3>1, <3>2
  <2> QED
    BY <1>4, <2>2 DEF OwnOperation
<1> QED
  BY <1>7, <1>8

LEMMA AggregateResetOperation ==
  ASSUME InductiveInvariant, OperationsInv, NEW f \in Frames, NEW b \in Buffers,
         AggregateReset(f, b)
  PROVE  OwnOperation(f)
<1>1. /\ TypeOK /\ OperationOK(f) /\ pc[f] = "reset" /\ UNCHANGED <<owner, pin, call, syncing>>
      /\ current'[f] = {} /\ pc'[f] \in {"unlock", "work"} /\ buffer[b] \in Buffer
  BY DEF InductiveInvariant, OperationsInv, AggregateReset, TypeOK, Goto
<1>2. Becomes(b, FreeBuffer)
  BY <1>1, BodyBuffers
<1>3. \A c \in Buffers : ReservationOK(c)'
  BY <1>1, <1>2, ReservationChanged
<1>4. \A c \in Claimed(f)' : c \in Claimed(f) /\ buffer'[c].owner \in {NoToken, buffer[c].owner}
  BY <1>1, <1>2, BufferForms DEF Becomes, Claimed
<1>5. /\ call[f].op \in AggregateCalls /\ call[f].op \in SyncCalls => syncing[f]
      /\ \A c \in Claimed(f) : buffer[c].owner \in {NoToken, pin[f]}
  BY <1>1 DEF OperationOK, Label
<1>6. OperationOK(f)'
  <2>1. CASE pc'[f] = "unlock"
    BY <1>1, <2>1, QuietLabel DEF Label
  <2>2. CASE pc'[f] = "work"
    BY <1>1, <1>4, <1>5, <2>2 DEF OperationOK, Label, AggregateCalls, AllocationCalls
  <2> QED
    BY <1>1, <2>1, <2>2
<1> QED
  BY <1>3, <1>6 DEF OwnOperation

LEMMA ConsumeOperation ==
  ASSUME InductiveInvariant, OperationsInv, NEW f \in Frames, NEW b \in Buffers,
         Consume(f, b)
  PROVE  OwnOperation(f)
<1>1. /\ TypeOK /\ current'[f] = {b} /\ UNCHANGED call /\ buffer[b] \in Buffer
      /\ pc'[f] = IF Consumable(b) THEN "refund" ELSE "owner"
  BY DEF InductiveInvariant, Consume, TypeOK, Goto
<1>2. Becomes(b, Consumed(buffer[b]))
  BY <1>1, BodyBuffers
<1>3. buffer'[b].bound = NoToken /\ buffer'[b].owner = buffer[b].owner
  BY <1>1, <1>2, BufferForms DEF Becomes
<1>4. OperationOK(f)'
  BY <1>1, <1>3 DEF OperationOK, Label, Consumable
<1> QED
  BY <1>1, <1>2, <1>4, ReservationChanged DEF OwnOperation

LEMMA RefundPinOperation ==
  ASSUME InductiveInvariant, OperationsInv, NEW f \in Frames, NEW b \in Buffers,
         RefundPin(f, b)
  PROVE  OwnOperation(f)
<1>1. /\ TypeOK /\ OperationOK(f) /\ LabelOK(f) /\ pc[f] = "refund" /\ b \in current[f]
      /\ UNCHANGED <<buffer, current>>
  BY DEF InductiveInvariant, OperationsInv, LabelsInv, RefundPin
<1>2. call[f].op \in CleanupCalls
  BY <1>1 DEF LabelOK, Label
<1>3. \A c \in current[f] : buffer[c].bound = NoToken /\ c = b
  BY <1>1, BodyFacts
<1>4. CASE pc'[f] = "owner"
  BY <1>1, <1>3, <1>4, QuietLabel, ReservationsKept DEF OwnOperation, Label
<1>5. CASE pc'[f] # "owner"
  <2>1. /\ pc'[f] = "lock" /\ call'[f].resume = "work" /\ call'[f].op = call[f].op
        /\ pin'[f] = buffer[b].owner
    BY <1>1, <1>5 DEF RefundPin, Goto, TypeOK, Call
  <2>2. OperationOK(f)'
    BY <1>1, <1>2, <1>3, <2>1 DEF OperationOK, Label, CleanupCalls, AllocationCalls,
       AggregateCalls, ReleaseCalls
  <2> QED
    BY <1>1, <2>2, ReservationsKept DEF OwnOperation
<1> QED
  BY <1>4, <1>5

LEMMA DropOwnerOperation ==
  ASSUME InductiveInvariant, OperationsInv, NEW f \in Frames, NEW b \in Buffers,
         DropOwner(f, b)
  PROVE  OwnOperation(f)
<1>1. /\ TypeOK /\ UNCHANGED current /\ b \in current[f] /\ buffer[b] \in Buffer
      /\ Label(f)' \in {"free", "unpin"}
  BY DEF InductiveInvariant, DropOwner, TypeOK, Goto, Notify, Label, Call
<1>2. \A c \in current[f] : buffer[c].bound = NoToken /\ c = b
  BY <1>1, BodyFacts
<1>3. Becomes(b, Dropped(buffer[b]))
  BY <1>1, BodyBuffers
<1>4. buffer'[b].bound = NoToken
  BY <1>1, <1>2, <1>3, BufferForms DEF Becomes
<1>5. OperationOK(f)'
  BY <1>1, <1>2, <1>4, QuietLabel
<1> QED
  BY <1>1, <1>2, <1>3, <1>5, ReservationChanged DEF OwnOperation

LEMMA FreeStorageOperation ==
  ASSUME InductiveInvariant, OperationsInv, NEW f \in Frames, NEW b \in Buffers,
         FreeStorage(f, b)
  PROVE  OwnOperation(f)
<1>1. /\ TypeOK /\ current'[f] = {} /\ buffer[b] \in Buffer
      /\ pc'[f] = IF Claimed(f) = {b} THEN "idle" ELSE "consume"
  BY DEF InductiveInvariant, FreeStorage, TypeOK, Goto, Return
<1>2. Becomes(b, FreeBuffer)
  BY <1>1, BodyBuffers
<1>3. Claimed(f)' = Claimed(f) \ {b}
  BY <1>2, BufferForms, <1>1 DEF Becomes, Claimed
<1>4. OperationOK(f)'
  BY <1>1, <1>3 DEF OperationOK, Label
<1> QED
  BY <1>1, <1>2, <1>4, ReservationChanged DEF OwnOperation

LEMMA StepOperation ==
  ASSUME InductiveInvariant, OperationsInv, NEW f \in Frames, Step(f)
  PROVE  OwnOperation(f)
<1>1. CASE \/ Lock(f) \/ Leave(f) \/ Unpin(f) \/ EndCallback(f)
           \/ ReleaseContextBody(f) \/ RefreshBody(f) \/ SetObserverBody(f) \/ UpdateBody(f)
           \/ ChargeWithoutStorage(f) \/ AllocationFails(f)
           \/ \E b \in Buffers : RefundBody(f, b)
  BY <1>1, LockOperation, UnpinOperation, EndCallbackOperation, PlainBodyOperation
<1>2. ASSUME NEW b \in Buffers,
             \/ AllocationSucceeds(f, b)
             \/ ReleaseBody(f, b) \/ ReleaseWorkspaceBody(f, b)
             \/ AggregateConsume(f, b) \/ AggregateDrop(f, b) \/ AggregateReset(f, b)
             \/ Consume(f, b) \/ RefundPin(f, b) \/ DropOwner(f, b) \/ FreeStorage(f, b)
      PROVE  OwnOperation(f)
  BY <1>2, AllocationSucceedsOperation, ReleaseBodyOperation, AggregateConsumeOperation,
     AggregateDropOperation, AggregateResetOperation, ConsumeOperation, RefundPinOperation,
     DropOwnerOperation, FreeStorageOperation
<1> QED
  BY <1>1, <1>2 DEF Step

\* Operations have what they rely on, whatever the others do.
LEMMA OperationsInvariance == Spec => []OperationsInv
<1>1. Init => OperationsInv
  <2>1. Init => \A f \in Frames : OperationOK(f)
    BY FreeBufferType DEF Init, OperationOK, Label, Claimed
  <2>2. Init => \A b \in Buffers : ReservationOK(b)
    BY BoundsAssumption DEF Init, ReservationOK, FreeBuffer
  <2> QED
    BY <2>1, <2>2 DEF OperationsInv
<1>2. InductiveInvariant /\ OperationsInv /\ [Next]_vars => OperationsInv'
  <2> SUFFICES ASSUME InductiveInvariant, OperationsInv, [Next]_vars
               PROVE  OperationsInv'
    OBVIOUS
  <2>1. ASSUME NEW f \in Frames, Begin(f) \/ Step(f)
        PROVE  OperationsInv'
    <3>1. Local(f) /\ BuffersLocal(f)
      BY <2>1, BeginLocal, StepLocal, BeginBuffersLocal, StepBuffersLocal
    <3>2. OwnOperation(f)
      BY <2>1, BeginOperation, StepOperation
    <3>3. \A g \in Frames : g # f => OperationOK(g)'
      BY <3>1, OperationsKept
    <3> QED
      BY <3>2, <3>3 DEF OwnOperation, OperationsInv
  <2>2. ASSUME NEW t \in Threads, NEW u \in Threads, CopyRecord(t, u)
        PROVE  OperationsInv'
    <3>1. UNCHANGED <<buffer, pc, call, pin, current, syncing>>
      BY <2>2 DEF CopyRecord, frameVars
    <3>2. ASSUME NEW f \in Frames
          PROVE  OperationOK(f)'
      <4>1. OperationOK(f) /\ Thread(f) \in Threads
        BY DEF OperationsInv, Frames, Thread
      <4>2. Label(f) = "work" => owner'[Thread(f)] = owner[Thread(f)]
        BY <2>2, <4>1 DEF CopyRecord, Label, InductiveInvariant, TypeOK
      <4> QED
        BY <3>1, <4>1, <4>2 DEF OperationOK, Label, Claimed
    <3> QED
      BY <3>1, <3>2 DEF OperationsInv, ReservationOK
  <2>3. CASE UNCHANGED vars
    BY <2>3 DEF vars, frameVars, OperationsInv, OperationOK, ReservationOK, Label, Claimed
  <2> QED
    BY <2>1, <2>2, <2>3 DEF Next
<1> QED
  BY <1>1, <1>2, Invariance, PTL DEF Spec

-----------------------------------------------------------------------------
(***************************************************************************)
(* The authoritative counters through the step of one frame.               *)
(***************************************************************************)

\* What f sees of the context it is pinned to, while it has the mutex.
View(f) == IF syncing[f] THEN record[Thread(f)] ELSE shared[pin[f]]

LEMMA OpenCounters ==
  ASSUME NEW tok, NEW f \in Frames, syncing[f], pin[f] = tok,
         \A g \in Frames : syncing[g] /\ pin[g] = tok => g = f
  PROVE  Counters(tok) = record[Thread(f)]
  BY DEF Counters

LEMMA OpenCountersNext ==
  ASSUME NEW tok, NEW f \in Frames, syncing'[f], pin'[f] = tok,
         \A g \in Frames : syncing'[g] /\ pin'[g] = tok => g = f
  PROVE  Counters(tok)' = record'[Thread(f)]
  BY DEF Counters, Thread

LEMMA ClosedCounters ==
  ASSUME NEW tok
  PROVE  /\ (\A g \in Frames : ~(syncing[g] /\ pin[g] = tok)) => Counters(tok) = shared[tok]
         /\ (\A g \in Frames : ~(syncing'[g] /\ pin'[g] = tok)) => Counters(tok)' = shared'[tok]
  BY DEF Counters

\* Under the mutex of a state there is no other working copy of it.
LEMMA OneCopy ==
  ASSUME InductiveInvariant, WorkingCopyInv, NEW f \in Frames, NEW g \in Frames,
         pc[f] \in Holding, syncing[g], pin[g] = pin[f]
  PROVE  g = f
<1>1. pc[g] \in Holding
  BY DEF WorkingCopyInv, WorkingCopyOK
<1>2. transaction_mutex[pin[f]] = {f} /\ transaction_mutex[pin[g]] = {g}
  BY <1>1 DEF InductiveInvariant, MutexInv
<1> QED
  BY <1>2

\* The working copy of another frame, of a state that f has not locked.
LEMMA CopyOfAnother ==
  ASSUME InductiveInvariant, WorkingCopyInv, NEW f \in Frames, Local(f),
         NEW g \in Frames, g # f, syncing[g]
  PROVE  record'[Thread(g)] = record[Thread(g)]
<1>1. pc[g] \in Holding /\ Thread(g) \in Threads
  BY DEF WorkingCopyInv, WorkingCopyOK, Frames, Thread
<1>2. CASE Thread(g) # Thread(f)
  BY <1>1, <1>2 DEF Local, OthersKept
<1>3. CASE Thread(g) = Thread(f)
  <2>1. ~Active(f)
    BY <1>1, <1>3, RunningAlone DEF InductiveInvariant, Holding
  <2> QED
    BY <2>1 DEF Local, OwnKept
<1> QED
  BY <1>2, <1>3

\* f opens a working copy only with the mutex, and keeps its pin under it.
LEMMA CopyOpened ==
  ASSUME TypeOK, NEW f \in Frames, Begin(f) \/ Step(f)
  PROVE  /\ syncing'[f] => syncing[f] \/ Lock(f)
         /\ pc[f] \in Holding \/ Lock(f) => UNCHANGED pin
<1>1. ASSUME Begin(f)
      PROVE  UNCHANGED syncing /\ pc[f] \notin Holding
  BY <1>1 DEF Begin, MakeContext, ReleaseContext, BeginSnapshotCall, BeginUpdate, BeginCharge,
              BeginRelease, BeginCleanup, frameVars, MayCall, Holding
<1>2. ASSUME Step(f), ~Lock(f)
      PROVE  /\ syncing'[f] => syncing[f]
             /\ pc[f] \in Holding => UNCHANGED pin
  BY <1>2 DEF Step, Leave, Unpin, EndCallback, ReleaseContextBody, RefreshBody,
       SetObserverBody, UpdateBody, ChargeWithoutStorage, AllocationFails, AllocationSucceeds,
       ReleaseBody, ReleaseWorkspaceBody, AggregateConsume, AggregateDrop, AggregateReset,
       Consume, RefundPin, RefundBody, DropOwner, FreeStorage, FinishSync, TypeOK, Holding
<1>3. pc[f] \in Holding => ~Lock(f)
  BY DEF Lock, Holding
<1>4. Lock(f) => UNCHANGED pin
  BY DEF Lock
<1> QED
  BY <1>1, <1>2, <1>3, <1>4

\* Under its mutex f sees the authoritative counters of its state, before the
\* step and after it.
LEMMA CountersHere ==
  ASSUME InductiveInvariant, WorkingCopyInv, NEW f \in Frames, Begin(f) \/ Step(f),
         pc[f] \in Holding \/ Lock(f)
  PROVE  Counters(pin[f]) = View(f) /\ Counters(pin[f])' = View(f)'
<1>1. Local(f) /\ UNCHANGED pin
  BY BeginLocal, StepLocal, CopyOpened DEF InductiveInvariant
<1>2. \A g \in Frames : g # f => ~(syncing[g] /\ pin[g] = pin[f])
  <2>1. CASE pc[f] \in Holding
    BY <2>1, OneCopy
  <2>2. CASE Lock(f)
    BY <2>2 DEF Lock, WorkingCopyInv, WorkingCopyOK, InductiveInvariant, MutexInv
  <2> QED
    BY <2>1, <2>2
<1>3. \A g \in Frames : g # f => ~(syncing'[g] /\ pin'[g] = pin'[f])
  BY <1>1, <1>2 DEF Local, OthersKept
<1>4. Counters(pin[f]) = View(f)
  BY <1>2, OpenCounters, ClosedCounters DEF View
<1>5. ASSUME NEW tok, tok = pin[f]
      PROVE  Counters(tok)' = View(f)'
  BY <1>1, <1>3, <1>5, OpenCountersNext, ClosedCounters DEF View
<1>6. Counters(pin[f])' = View(f)'
  BY <1>5, <1>1 DEF Counters
<1> QED
  BY <1>4, <1>6

\* The counters of every other state stay as they are.
LEMMA CountersElsewhere ==
  ASSUME InductiveInvariant, WorkingCopyInv, NEW f \in Frames, Begin(f) \/ Step(f),
         NEW tok \in registry, tok = pin[f] => pc[f] \notin Holding /\ ~Lock(f)
  PROVE  Counters(tok)' = Counters(tok)
<1>1. Local(f)
  BY BeginLocal, StepLocal
<1>2. /\ ~(syncing[f] /\ pin[f] = tok)
      /\ ~(syncing'[f] /\ pin'[f] = tok)
  BY CopyOpened DEF WorkingCopyInv, WorkingCopyOK, InductiveInvariant
<1>3. shared'[tok] = shared[tok]
  BY <1>1 DEF Local, SharedKept
<1>4. \A g \in Frames : syncing'[g] /\ pin'[g] = tok <=> syncing[g] /\ pin[g] = tok
  BY <1>1, <1>2 DEF Local, OthersKept
<1>5. CASE \E g \in Frames : syncing[g] /\ pin[g] = tok
  <2>1. PICK g \in Frames : syncing[g] /\ pin[g] = tok
    BY <1>5
  <2>2. \A h \in Frames : syncing[h] /\ pin[h] = tok => h = g
    BY <2>1, OneCopy DEF WorkingCopyInv, WorkingCopyOK
  <2>3. Counters(tok) = record[Thread(g)] /\ Counters(tok)' = record'[Thread(g)]
    BY <1>4, <2>1, <2>2, OpenCounters, OpenCountersNext
  <2>4. g # f
    BY <1>2, <2>1
  <2> QED
    BY <1>1, <2>1, <2>3, <2>4, CopyOfAnother
<1>6. CASE ~\E g \in Frames : syncing[g] /\ pin[g] = tok
  BY <1>3, <1>4, <1>6, ClosedCounters
<1> QED
  BY <1>5, <1>6

\* After the step f sees the amounts of r.
Sees(f, r) ==
  /\ View(f)'.live = r.live /\ View(f)'.work = r.work /\ View(f)'.ordinal = r.ordinal

LEMMA ViewType ==
  ASSUME InductiveInvariant, NEW f \in Frames, pc[f] \in Holding
  PROVE  View(f) \in EvaluationResourceState
  BY BodyTypes DEF View

\* A working copy that is published, or kept open.
LEMMA Publication ==
  ASSUME InductiveInvariant, NEW f \in Frames, pc[f] \in Holding, UNCHANGED pin, syncing[f],
         NEW r \in EvaluationResourceState,
         FinishSync(f, r) \/ (UNCHANGED syncing /\ record'[Thread(f)] = r)
  PROVE  Sees(f, r)
<1>1. pin[f] \in Tokens /\ shared[pin[f]] \in EvaluationResourceState /\ TypeOK
  BY BodyTypes DEF InductiveInvariant
<1>2. CASE FinishSync(f, r)
  <2>1. ~syncing'[f] /\ shared'[pin[f]] = Publish(shared[pin[f]], r)
    BY <1>1, <1>2 DEF FinishSync, TypeOK
  <2> QED
    BY <1>1, <2>1 DEF Sees, View, Publish, EvaluationResourceState
<1>3. CASE UNCHANGED syncing /\ record'[Thread(f)] = r
  BY <1>3 DEF Sees, View
<1> QED
  BY <1>2, <1>3

\* Taking the mutex, giving it back, the calls about the context itself, and
\* the parts of an aggregate cleanup after its refund.
LEMMA NothingCharged ==
  ASSUME InductiveInvariant, WorkingCopyInv, OperationsInv, NEW f \in Frames,
         \/ Lock(f) \/ Leave(f) \/ ReleaseContextBody(f) \/ RefreshBody(f)
         \/ SetObserverBody(f) \/ UpdateBody(f)
         \/ \E b \in Buffers : AggregateDrop(f, b) \/ AggregateReset(f, b)
  PROVE  Sees(f, View(f))
<1>0. TypeOK /\ WorkingCopyOK(f) /\ OperationOK(f)
  BY DEF InductiveInvariant, WorkingCopyInv, OperationsInv
<1>1. CASE Lock(f)
  <2>1. UNCHANGED <<shared, pin>> /\ ~syncing[f] /\ Thread(f) \in Threads
    BY <1>0, <1>1 DEF Lock, WorkingCopyOK, Holding, Frames, Thread
  <2>2. syncing'[f] => record'[Thread(f)] = shared[pin[f]]
    BY <1>0, <1>1, <2>1 DEF Lock, TypeOK
  <2> QED
    BY <2>1, <2>2 DEF Sees, View
<1>2. CASE Leave(f)
  <2>1. pc[f] \in Holding /\ UNCHANGED <<pin, record>> /\ FinishSync(f, record[Thread(f)])
    BY <1>2 DEF Leave, Holding
  <2>2. CASE syncing[f]
    <3>1. Sees(f, record[Thread(f)])
      BY <2>1, <2>2, BodyTypes, Publication
    <3> QED
      BY <2>2, <3>1 DEF Sees, View
  <2>3. CASE ~syncing[f]
    BY <1>0, <2>1, <2>3 DEF FinishSync, Sees, View, TypeOK
  <2> QED
    BY <2>2, <2>3
<1>3. CASE ReleaseContextBody(f) \/ RefreshBody(f) \/ SetObserverBody(f) \/ UpdateBody(f)
  <2>1. /\ pc[f] \in Holding /\ UNCHANGED <<pin, syncing>> /\ call[f].op \notin SyncCalls
        /\ pin[f] \in Tokens
    BY <1>3, BodyTypes DEF ReleaseContextBody, RefreshBody, SetObserverBody, UpdateBody,
                           SyncCalls, Holding
  <2>2. ~syncing[f] /\ shared[pin[f]] \in EvaluationResourceState
    BY <1>0, <2>1 DEF WorkingCopyOK, TypeOK
  <2>3. \/ UNCHANGED shared
        \/ \E o \in BOOLEAN : shared' = [shared EXCEPT ![pin[f]].observer = o]
        \/ shared' = [shared EXCEPT ![pin[f]].config = record[Thread(f)].config,
                                    ![pin[f]].version = @ + 1]
    BY <1>3 DEF ReleaseContextBody, RefreshBody, SetObserverBody, UpdateBody
  <2> QED
    BY <1>0, <2>1, <2>2, <2>3 DEF Sees, View, TypeOK, EvaluationResourceState
<1>4. ASSUME NEW b \in Buffers, AggregateDrop(f, b) \/ AggregateReset(f, b)
      PROVE  Sees(f, View(f))
  <2>1. /\ pc[f] \in Holding /\ UNCHANGED <<pin, record>>
        /\ FinishSync(f, record[Thread(f)]) \/ UNCHANGED syncing
    BY <1>4 DEF AggregateDrop, AggregateReset, Holding
  <2>2. syncing[f]
    BY <1>0, <1>4 DEF AggregateDrop, AggregateReset, OperationOK, Label, AggregateCalls, SyncCalls
  <2>3. Sees(f, record[Thread(f)])
    BY <2>1, <2>2, BodyTypes, Publication
  <2> QED
    BY <2>2, <2>3 DEF Sees, View
<1> QED
  BY <1>1, <1>2, <1>3, <1>4

\* A charge, admitted on what f sees.
LEMMA ChargeSeen ==
  ASSUME InductiveInvariant, WorkingCopyInv, OperationsInv, NEW f \in Frames,
         ChargeWithoutStorage(f)
  PROVE  \/ Sees(f, View(f))
         \/ /\ Admissible(View(f), call[f]) /\ call[f].bytes = 0
            /\ Sees(f, Commit(View(f), 0, call[f].work))
<1>1. /\ TypeOK /\ pc[f] = "work" /\ UNCHANGED <<pin, syncing>>
      /\ call[f].op \in SyncCalls
  BY DEF InductiveInvariant, ChargeWithoutStorage, SyncCalls, AllocationCalls
<1>2. syncing[f] /\ View(f) = record[Thread(f)]
  BY <1>1 DEF OperationsInv, OperationOK, View
<1>3. View(f) \in EvaluationResourceState /\ Thread(f) \in Threads /\ call[f].work \in Nat
  BY <1>1, BodyTypes, ViewType DEF Holding
<1>4. CASE UNCHANGED record
  BY <1>1, <1>2, <1>3, <1>4, Publication DEF Holding
<1>5. CASE /\ Admissible(record[Thread(f)], call[f]) /\ call[f].bytes = 0
           /\ record' = [record EXCEPT ![Thread(f)] = Commit(@, 0, call[f].work)]
  <2>1. record'[Thread(f)] = Commit(View(f), 0, call[f].work)
    BY <1>1, <1>2, <1>3, <1>5 DEF TypeOK
  <2>2. Commit(View(f), 0, call[f].work) \in EvaluationResourceState
    BY <1>3, CommitType
  <2>3. Sees(f, Commit(View(f), 0, call[f].work))
    BY <1>1, <1>2, <2>1, <2>2, Publication DEF Holding
  <2> QED
    BY <1>2, <1>5, <2>3
<1> QED
  BY <1>4, <1>5 DEF ChargeWithoutStorage

LEMMA FailureSeen ==
  ASSUME InductiveInvariant, WorkingCopyInv, OperationsInv, NEW f \in Frames, AllocationFails(f)
  PROVE  Sees(f, [View(f) EXCEPT !.ordinal = View(f).ordinal + 1])
<1>1. /\ TypeOK /\ pc[f] = "work" /\ UNCHANGED <<pin, syncing>>
      /\ call[f].op \in SyncCalls
  BY DEF InductiveInvariant, AllocationFails, SyncCalls, AllocationCalls
<1>2. syncing[f] /\ View(f) = record[Thread(f)]
  BY <1>1 DEF OperationsInv, OperationOK, View
<1>3. View(f) \in EvaluationResourceState /\ Thread(f) \in Threads
  BY <1>1, BodyTypes, ViewType DEF Holding
<1>4. record'[Thread(f)] = [View(f) EXCEPT !.ordinal = View(f).ordinal + 1]
  BY <1>1, <1>2, <1>3 DEF AllocationFails, TypeOK
<1>5. [View(f) EXCEPT !.ordinal = View(f).ordinal + 1] \in EvaluationResourceState
  BY <1>3, Updates DEF EvaluationResourceState
<1> QED
  BY <1>1, <1>2, <1>4, <1>5, Publication DEF Holding

\* What an admitted reservation leaves behind.
Reserved(v, c) == [Commit(v, c.bytes, c.work) EXCEPT !.ordinal = v.ordinal + 1]

LEMMA ReservationSeen ==
  ASSUME InductiveInvariant, WorkingCopyInv, OperationsInv, NEW f \in Frames, NEW b \in Buffers,
         AllocationSucceeds(f, b)
  PROVE  /\ Admissible(View(f), call[f]) /\ owner[Thread(f)] = pin[f]
         /\ Sees(f, Reserved(View(f), call[f]))
         /\ buffer'[b].ordinal = View(f).ordinal /\ buffer'[b].bytes = call[f].bytes
         /\ buffer'[b].bound = pin[f] /\ buffer'[b].owner = pin[f]
         /\ \A c \in Buffers : c # b => buffer'[c] = buffer[c]
         /\ ~buffer[b].allocated
         /\ Reserved(View(f), call[f]).live = View(f).live + call[f].bytes
         /\ Reserved(View(f), call[f]).work = View(f).work + call[f].work
         /\ Reserved(View(f), call[f]).ordinal = View(f).ordinal + 1
<1> DEFINE v == View(f)
           c == call[f]
           m == Commit(v, c.bytes, c.work)
<1>1. /\ TypeOK /\ pc[f] = "work" /\ UNCHANGED pin /\ c.op \in SyncCalls
      /\ c.op \in AllocationCalls
  BY DEF InductiveInvariant, AllocationSucceeds, SyncCalls, AllocationCalls
<1>2. syncing[f] /\ v = record[Thread(f)] /\ owner[Thread(f)] = pin[f]
  BY <1>1 DEF OperationsInv, OperationOK, View, Label
<1>3. v \in EvaluationResourceState /\ Thread(f) \in Threads /\ c.work \in Nat /\ c.bytes \in Nat
  BY <1>1, BodyTypes, ViewType DEF Holding
<1>4. m \in EvaluationResourceState
  BY <1>3, CommitType
<1>5. m.live = v.live + c.bytes /\ m.work = v.work + c.work /\ m.ordinal = v.ordinal
  BY <1>3 DEF Commit, EvaluationResourceState
<1>6. Reserved(v, c) = [Commit(record[Thread(f)], c.bytes, c.work) EXCEPT !.ordinal = @ + 1]
  BY <1>2, <1>5 DEF Reserved
<1>7. /\ record' = [record EXCEPT ![Thread(f)] = Reserved(v, c)]
      /\ FinishSync(f, Reserved(v, c)) \/ UNCHANGED syncing
  BY <1>6 DEF AllocationSucceeds
<1>8. record'[Thread(f)] = Reserved(v, c)
  BY <1>1, <1>3, <1>7 DEF TypeOK
<1>9. /\ Reserved(v, c) \in EvaluationResourceState
      /\ Reserved(v, c).live = v.live + c.bytes /\ Reserved(v, c).work = v.work + c.work
      /\ Reserved(v, c).ordinal = v.ordinal + 1
  <2>1. v.ordinal + 1 \in Nat
    BY <1>3 DEF EvaluationResourceState
  <2> HIDE DEF v, c
  <2>2. Reserved(v, c) = [m EXCEPT !.ordinal = v.ordinal + 1]
    BY DEF Reserved
  <2> HIDE DEF m
  <2> QED
    BY <1>4, <1>5, <2>1, <2>2, Updates DEF EvaluationResourceState
<1>10. Sees(f, Reserved(v, c))
  BY <1>1, <1>2, <1>7, <1>8, <1>9, Publication DEF Holding
<1>11. /\ buffer'[b].ordinal = v.ordinal /\ buffer'[b].bytes = c.bytes
       /\ buffer'[b].bound = pin[f] /\ buffer'[b].owner = pin[f]
       /\ \A d \in Buffers : d # b => buffer'[d] = buffer[d]
  BY <1>1, <1>2 DEF AllocationSucceeds, TypeOK
<1>12. Admissible(v, c) /\ ~buffer[b].allocated
  BY <1>2 DEF AllocationSucceeds
<1> QED
  BY <1>2, <1>9, <1>10, <1>11, <1>12

\* What a refund of n bytes leaves behind.
Refunded(v, n) == [v EXCEPT !.live = IF n <= v.live THEN v.live - n ELSE v.live]

LEMMA RefundedType ==
  ASSUME NEW v \in EvaluationResourceState, NEW n \in Nat
  PROVE  /\ Refunded(v, n) \in EvaluationResourceState
         /\ Refunded(v, n).live = IF n <= v.live THEN v.live - n ELSE v.live
         /\ Refunded(v, n).work = v.work /\ Refunded(v, n).ordinal = v.ordinal
<1>1. v.live \in Nat /\ (n <= v.live => v.live - n \in Nat)
  BY DEF EvaluationResourceState
<1> DEFINE l == IF n <= v.live THEN v.live - n ELSE v.live
<1>2. l \in Nat /\ Refunded(v, n) = [v EXCEPT !.live = l]
  BY <1>1 DEF Refunded
<1> HIDE DEF l
<1> QED
  BY <1>2, Updates DEF EvaluationResourceState, l

\* A release through the context, one reservation at a time: it is refused, or
\* the binding of a reservation of this context is consumed and its bytes are
\* taken off what f sees.
LEMMA ReleaseSeen ==
  ASSUME InductiveInvariant, WorkingCopyInv, OperationsInv, NEW f \in Frames, NEW b \in Buffers,
         ReleaseBody(f, b) \/ ReleaseWorkspaceBody(f, b) \/ AggregateConsume(f, b)
  PROVE  \/ UNCHANGED <<buffer, current>> /\ Sees(f, View(f))
         \/ /\ Consumable(b) /\ buffer[b].owner = pin[f]
            /\ Becomes(b, FreeBuffer) \/ Becomes(b, Consumed(buffer[b]))
            /\ Sees(f, Refunded(View(f), buffer[b].bytes))
<1> DEFINE v == View(f)
           n == buffer[b].bytes
<1>1. /\ TypeOK /\ OperationOK(f) /\ pc[f] = "work" /\ UNCHANGED pin
      /\ call[f].op \in SyncCalls /\ b \in Claimed(f)
  BY DEF InductiveInvariant, OperationsInv, ReleaseBody, ReleaseWorkspaceBody,
         AggregateConsume, SyncCalls, AggregateCalls
<1>2. syncing[f] /\ v = record[Thread(f)]
  BY <1>1 DEF OperationOK, View
<1>3. /\ v \in EvaluationResourceState /\ Thread(f) \in Threads /\ n \in Nat
      /\ record[Thread(f)] \in EvaluationResourceState
  BY <1>1, BodyTypes, ViewType DEF Holding, TypeOK, Buffer
<1>4. Refunded(v, n) \in EvaluationResourceState
  BY <1>3, RefundedType
<1>5. ASSUME UNCHANGED <<buffer, current, syncing, record>>
      PROVE  UNCHANGED <<buffer, current>> /\ Sees(f, View(f))
  BY <1>1, <1>2, <1>3, <1>5, Publication DEF Holding
<1>6. CASE ReleaseBody(f, b) /\ Consumable(b)
  <2>1. buffer[b].owner = pin[f] /\ Becomes(b, FreeBuffer)
    BY <1>1, <1>6 DEF ReleaseBody, OperationOK, Label, Consumable, ReleaseCalls, Becomes, TypeOK
  <2>2. FinishSync(f, Refunded(v, n))
    BY <1>2, <1>6 DEF ReleaseBody, Refunded
  <2> QED
    BY <1>1, <1>2, <1>4, <1>6, <2>1, <2>2, Publication DEF Holding
<1>7. CASE ReleaseBody(f, b) /\ ~Consumable(b)
  BY <1>5, <1>7 DEF ReleaseBody
<1>8. CASE ReleaseWorkspaceBody(f, b)
  <2>1. CASE /\ buffer[b].owner = owner[Thread(f)] /\ n <= record[Thread(f)].live
             /\ Consumable(b)
    <3>1. buffer[b].owner = pin[f] /\ Becomes(b, FreeBuffer) /\ UNCHANGED syncing
      BY <1>1, <1>8, <2>1 DEF ReleaseWorkspaceBody, OperationOK, Label, Becomes, TypeOK
    <3>2. record'[Thread(f)] = Refunded(v, n)
      BY <1>1, <1>2, <1>3, <1>8, <2>1 DEF ReleaseWorkspaceBody, Refunded, TypeOK
    <3> QED
      BY <1>1, <1>2, <1>4, <2>1, <3>1, <3>2, Publication DEF Holding
  <2>2. CASE ~(/\ buffer[b].owner = owner[Thread(f)] /\ n <= record[Thread(f)].live
               /\ Consumable(b))
    BY <1>5, <1>8, <2>2 DEF ReleaseWorkspaceBody
  <2> QED
    BY <2>1, <2>2
<1>9. CASE AggregateConsume(f, b) /\ Consumable(b)
  <2>1. buffer[b].owner = pin[f] /\ Becomes(b, Consumed(buffer[b]))
    <3>1. buffer[b].owner = pin[f]
      BY <1>1, <1>9 DEF AggregateConsume, OperationOK, Label, Consumable
    <3>2. buffer' = [buffer EXCEPT ![b].bound = NoToken]
      BY <1>9 DEF AggregateConsume
    <3> QED
      BY <1>1, <3>1, <3>2 DEF Becomes, Consumed, TypeOK
  <2>2. CASE n <= v.live
    <3>1. FinishSync(f, Refunded(v, n))
      BY <1>2, <1>9, <2>2 DEF AggregateConsume, Refunded
    <3> QED
      BY <1>1, <1>2, <1>4, <1>9, <2>1, <3>1, Publication DEF Holding
  <2>3. CASE ~(n <= v.live)
    <3>1. UNCHANGED <<syncing, record>>
      BY <1>2, <1>9, <2>3 DEF AggregateConsume
    <3>2. Sees(f, v)
      BY <1>1, <1>2, <1>3, <3>1, Publication DEF Holding
    <3>3. Sees(f, Refunded(v, n))
      BY <1>3, <2>3, <3>2, RefundedType DEF Sees
    <3> QED
      BY <1>9, <2>1, <3>3
  <2> QED
    BY <2>2, <2>3
<1>10. CASE AggregateConsume(f, b) /\ ~Consumable(b)
  BY <1>5, <1>10 DEF AggregateConsume
<1> QED
  BY <1>6, <1>7, <1>8, <1>9, <1>10

\* The context-free refund.
LEMMA RefundSeen ==
  ASSUME InductiveInvariant, WorkingCopyInv, OperationsInv, NEW f \in Frames, NEW b \in Buffers,
         RefundBody(f, b)
  PROVE  /\ buffer[b].owner = pin[f] /\ Sees(f, Refunded(View(f), buffer[b].bytes))
         /\ UNCHANGED <<buffer, current, call>> /\ pc'[f] \in {"owner", "unpin"}
<1> DEFINE n == buffer[b].bytes
<1>1. /\ TypeOK /\ OperationOK(f) /\ pc[f] = "work" /\ call[f].op \in CleanupCalls
      /\ b \in current[f] /\ UNCHANGED <<pin, syncing, buffer, current, call>> /\ n \in Nat
  BY DEF InductiveInvariant, OperationsInv, RefundBody, TypeOK, Buffer
<1>2. ~syncing[f] /\ View(f) = shared[pin[f]]
  BY <1>1 DEF WorkingCopyInv, WorkingCopyOK, SyncCalls, CleanupCalls, View
<1>3. pin[f] \in Tokens /\ View(f) \in EvaluationResourceState
  BY <1>1, BodyTypes, ViewType DEF Holding
<1>4. shared'[pin[f]] = Refunded(View(f), n)
  BY <1>1, <1>2, <1>3 DEF RefundBody, Refunded, TypeOK
<1>5. Sees(f, Refunded(View(f), n))
  BY <1>1, <1>2, <1>4 DEF Sees, View
<1>6. buffer[b].owner = pin[f]
  BY <1>1 DEF OperationOK, Label
<1>7. pc'[f] \in {"owner", "unpin"}
  BY <1>1 DEF RefundBody, Goto, TypeOK
<1> QED
  BY <1>1, <1>5, <1>6, <1>7

-----------------------------------------------------------------------------
(***************************************************************************)
(* Ordinals.                                                               *)
(***************************************************************************)

\* A reservation that names an owner keeps its state registered.
LEMMA OwnerRegistered ==
  ASSUME InductiveInvariant, NEW b \in Buffers, buffer[b].owner # NoToken
  PROVE  buffer[b].owner \in registry /\ buffer[b].owner \in Tokens
<1>1. buffer[b].owner \in Tokens
  BY BoundsAssumption DEF InductiveInvariant, TypeOK, Buffer, Tokens, NoToken
<1>2. <<"reservation", b>> \in Holders(buffer[b].owner)
  BY HolderKinds
<1> QED
  BY <1>1, <1>2 DEF InductiveInvariant, ReferencesInv

LEMMA CountersType ==
  ASSUME InductiveInvariant, WorkingCopyInv, NEW tok \in registry
  PROVE  Counters(tok) \in EvaluationResourceState
<1>1. TypeOK
  BY DEF InductiveInvariant
<1>2. CASE \E g \in Frames : syncing[g] /\ pin[g] = tok
  <2>1. PICK g \in Frames : syncing[g] /\ pin[g] = tok
    BY <1>2
  <2>2. \A h \in Frames : syncing[h] /\ pin[h] = tok => h = g
    BY <2>1, OneCopy DEF WorkingCopyInv, WorkingCopyOK
  <2>3. Counters(tok) = record[Thread(g)] /\ Thread(g) \in Threads
    BY <2>1, <2>2, OpenCounters DEF Frames, Thread
  <2> QED
    BY <1>1, <2>3 DEF TypeOK
<1>3. CASE ~\E g \in Frames : syncing[g] /\ pin[g] = tok
  BY <1>1, <1>3, ClosedCounters DEF TypeOK
<1> QED
  BY <1>2, <1>3

\* The counters of the context that a reservation names.
OwnersCounted ==
  \A b \in Buffers : buffer[b].owner # NoToken =>
    Counters(buffer[b].owner) \in EvaluationResourceState

LEMMA OwnerCounters == InductiveInvariant /\ WorkingCopyInv => OwnersCounted
  BY OwnerRegistered, CountersType DEF OwnersCounted

LEMMA CountersTypeNext ==
  ASSUME InductiveInvariant', WorkingCopyInv', NEW b \in Buffers, buffer'[b].owner # NoToken,
         NEW tok, tok = buffer'[b].owner
  PROVE  Counters(tok)' \in EvaluationResourceState
<1>1. InductiveInvariant' /\ WorkingCopyInv' => OwnersCounted'
  BY OwnerCounters, PTL
<1>2. Counters(buffer[b].owner)' = Counters(tok)'
  BY DEF Counters
<1>3. Counters(buffer[b].owner)' \in EvaluationResourceState
  BY <1>1 DEF OwnersCounted
<1> QED
  BY <1>2, <1>3

\* The steps under a mutex, and taking it.
LEMMA LockedSteps ==
  ASSUME TypeOK, NEW f \in Frames, Begin(f) \/ Step(f), pc[f] \in Holding \/ Lock(f)
  PROVE  \/ Lock(f) \/ Leave(f) \/ ReleaseContextBody(f) \/ RefreshBody(f)
         \/ SetObserverBody(f) \/ UpdateBody(f) \/ ChargeWithoutStorage(f) \/ AllocationFails(f)
         \/ \E b \in Buffers :
              \/ AllocationSucceeds(f, b) \/ ReleaseBody(f, b) \/ ReleaseWorkspaceBody(f, b)
              \/ AggregateConsume(f, b) \/ AggregateDrop(f, b) \/ AggregateReset(f, b)
              \/ RefundBody(f, b)
<1>1. CASE Begin(f)
  <2>1. pc[f] = "idle"
    BY <1>1 DEF Begin, MakeContext, ReleaseContext, BeginSnapshotCall, BeginUpdate,
                BeginCharge, BeginRelease, BeginCleanup, MayCall
  <2> QED
    BY <2>1 DEF Holding, Lock
<1>2. CASE Step(f)
  BY <1>2 DEF Step, Unpin, EndCallback, Consume, RefundPin, DropOwner, FreeStorage, Holding, Lock
<1> QED
  BY <1>1, <1>2

\* Under a mutex the ordinal that f sees does not run back.
LEMMA OrdinalSeen ==
  ASSUME InductiveInvariant, WorkingCopyInv, OperationsInv, NEW f \in Frames,
         Begin(f) \/ Step(f), pc[f] \in Holding \/ Lock(f)
  PROVE  View(f).ordinal <= View(f)'.ordinal
<1> DEFINE v == View(f)
<1>1. v \in EvaluationResourceState
  <2>1. CASE Lock(f)
    <3>1. Label(f) \in Holding /\ ~syncing[f]
      BY <2>1 DEF Lock, Label, InductiveInvariant, LabelsInv, LabelOK, WorkingCopyInv,
                  WorkingCopyOK, Holding
    <3>2. pin[f] \in Tokens
      BY <3>1, Pinned DEF InductiveInvariant
    <3> QED
      BY <3>1, <3>2 DEF View, InductiveInvariant, TypeOK
  <2> QED
    BY <2>1, ViewType
<1>2. v.ordinal \in Nat /\ v.live \in Nat
  BY <1>1 DEF EvaluationResourceState
<1>3. CASE Sees(f, v)
  BY <1>2, <1>3 DEF Sees
<1>4. CASE ChargeWithoutStorage(f)
  <2>1. Sees(f, v) \/ Sees(f, Commit(v, 0, call[f].work))
    BY <1>4, ChargeSeen
  <2>2. Commit(v, 0, call[f].work).ordinal = v.ordinal
    BY <1>1 DEF Commit, EvaluationResourceState
  <2> QED
    BY <1>2, <2>1, <2>2 DEF Sees
<1>5. CASE AllocationFails(f)
  <2>1. Sees(f, [v EXCEPT !.ordinal = v.ordinal + 1])
    BY <1>5, FailureSeen
  <2>2. [v EXCEPT !.ordinal = v.ordinal + 1].ordinal = v.ordinal + 1
    BY <1>1 DEF EvaluationResourceState
  <2> QED
    BY <1>2, <2>1, <2>2 DEF Sees
<1>6. ASSUME NEW b \in Buffers, AllocationSucceeds(f, b)
      PROVE  v.ordinal <= View(f)'.ordinal
  <2>1. View(f)'.ordinal = v.ordinal + 1
    BY <1>6, ReservationSeen DEF Sees
  <2> QED
    BY <1>2, <2>1
<1>7. ASSUME NEW b \in Buffers,
             \/ ReleaseBody(f, b) \/ ReleaseWorkspaceBody(f, b) \/ AggregateConsume(f, b)
             \/ RefundBody(f, b)
      PROVE  v.ordinal <= View(f)'.ordinal
  <2>1. Sees(f, v) \/ Sees(f, Refunded(v, buffer[b].bytes))
    BY <1>7, ReleaseSeen, RefundSeen
  <2>2. buffer[b].bytes \in Nat
    BY DEF InductiveInvariant, TypeOK, Buffer
  <2>3. Refunded(v, buffer[b].bytes).ordinal = v.ordinal
    BY <1>1, <2>2, RefundedType
  <2> QED
    BY <1>2, <2>1, <2>3 DEF Sees
<1>8. CASE \/ Lock(f) \/ Leave(f) \/ ReleaseContextBody(f) \/ RefreshBody(f)
           \/ SetObserverBody(f) \/ UpdateBody(f)
           \/ \E b \in Buffers : AggregateDrop(f, b) \/ AggregateReset(f, b)
  BY <1>3, <1>8, NothingCharged
<1> QED
  BY <1>4, <1>5, <1>6, <1>7, <1>8, LockedSteps DEF InductiveInvariant

LEMMA CountersOrdinal ==
  ASSUME InductiveInvariant, WorkingCopyInv, OperationsInv, NEW f \in Frames,
         Begin(f) \/ Step(f), NEW tok \in registry
  PROVE  Counters(tok).ordinal <= Counters(tok)'.ordinal
<1>1. CASE tok = pin[f] /\ (pc[f] \in Holding \/ Lock(f))
  <2>1. Counters(tok) = View(f) /\ Counters(tok)' = View(f)'
    <3>1. Counters(pin[f]) = View(f) /\ Counters(pin[f])' = View(f)' /\ UNCHANGED pin
      BY <1>1, CountersHere, CopyOpened DEF InductiveInvariant
    <3> QED
      BY <1>1, <3>1 DEF Counters
  <2> QED
    BY <1>1, <2>1, OrdinalSeen
<1>2. CASE tok = pin[f] => pc[f] \notin Holding /\ ~Lock(f)
  <2>1. Counters(tok)' = Counters(tok)
    BY <1>2, CountersElsewhere
  <2>2. Counters(tok).ordinal \in Nat
    BY CountersType DEF EvaluationResourceState
  <2> QED
    BY <2>1, <2>2
<1> QED
  BY <1>1, <1>2

\* A reservation keeps its owner and its ordinal, or gives its owner up.
LEMMA ReservationsStay ==
  ASSUME InductiveInvariant, NEW f \in Frames, Begin(f) \/ Step(f), NEW b \in Buffers
  PROVE  \/ buffer'[b].owner = NoToken
         \/ buffer'[b].owner = buffer[b].owner /\ buffer'[b].ordinal = buffer[b].ordinal
         \/ AllocationSucceeds(f, b)
<1>1. TypeOK /\ buffer[b] \in Buffer
  BY DEF InductiveInvariant, TypeOK
<1>2. CASE Begin(f)
  BY <1>1, <1>2 DEF Begin, MakeContext, ReleaseContext, BeginSnapshotCall, BeginUpdate,
     BeginCharge, BeginRelease, BeginCleanup, Claim, frameVars, Buffer
<1>3. CASE Unpin(f)
  BY <1>1, <1>3 DEF Unpin, Buffer
<1>4. CASE \/ Lock(f) \/ Leave(f) \/ EndCallback(f) \/ ReleaseContextBody(f) \/ RefreshBody(f)
           \/ SetObserverBody(f) \/ UpdateBody(f) \/ ChargeWithoutStorage(f)
           \/ AllocationFails(f) \/ \E c \in Buffers : RefundPin(f, c) \/ RefundBody(f, c)
  BY <1>4 DEF Lock, Leave, EndCallback, ReleaseContextBody, RefreshBody, SetObserverBody,
              UpdateBody, ChargeWithoutStorage, AllocationFails, RefundPin, RefundBody
<1>5. ASSUME NEW c \in Buffers, AllocationSucceeds(f, c)
      PROVE  \/ buffer'[b].owner = buffer[b].owner /\ buffer'[b].ordinal = buffer[b].ordinal
             \/ AllocationSucceeds(f, b)
  BY <1>1, <1>5 DEF AllocationSucceeds, TypeOK
<1>6. ASSUME NEW c \in Buffers,
             \/ ReleaseBody(f, c) \/ ReleaseWorkspaceBody(f, c)
             \/ AggregateConsume(f, c) \/ AggregateDrop(f, c) \/ AggregateReset(f, c)
             \/ Consume(f, c) \/ DropOwner(f, c) \/ FreeStorage(f, c)
      PROVE  \/ buffer'[b].owner = NoToken
             \/ buffer'[b].owner = buffer[b].owner /\ buffer'[b].ordinal = buffer[b].ordinal
  <2>1. \/ UNCHANGED buffer \/ Becomes(c, FreeBuffer) \/ Becomes(c, Consumed(buffer[c]))
        \/ Becomes(c, Dropped(buffer[c])) \/ Becomes(c, Detached(buffer[c]))
    BY <1>1, <1>6, BodyBuffers
  <2> QED
    BY <1>1, <2>1, BufferForms DEF Becomes
<1> QED
  BY <1>2, <1>3, <1>4, <1>5, <1>6 DEF Step

\* A reservation is drawn above every ordinal of its context, and the counter
\* is moved past it.
LEMMA OrdinalDrawn ==
  ASSUME InductiveInvariant, WorkingCopyInv, OperationsInv, NEW f \in Frames, Begin(f) \/ Step(f),
         NEW b \in Buffers, AllocationSucceeds(f, b)
  PROVE  /\ buffer'[b].owner = pin[f] /\ pin[f] \in registry
         /\ buffer'[b].ordinal = Counters(pin[f]).ordinal
         /\ \A tok : tok = pin[f] => Counters(pin[f]).ordinal < Counters(tok)'.ordinal
         /\ \A c \in Buffers : c # b => buffer'[c] = buffer[c]
<1>1. pc[f] \in Holding /\ OperationOK(f) /\ call[f].op \in AllocationCalls /\ pc[f] = "work"
  BY DEF AllocationSucceeds, Holding, OperationsInv
<1>2. Counters(pin[f]) = View(f) /\ Counters(pin[f])' = View(f)' /\ UNCHANGED pin
  BY <1>1, CountersHere, CopyOpened DEF InductiveInvariant
<1>3. /\ buffer'[b].owner = pin[f] /\ buffer'[b].ordinal = View(f).ordinal
      /\ View(f)'.ordinal = View(f).ordinal + 1
      /\ \A c \in Buffers : c # b => buffer'[c] = buffer[c]
  BY ReservationSeen DEF Sees
<1>4. View(f).ordinal \in Nat
  BY <1>1, ViewType DEF EvaluationResourceState
<1>5. \A tok : tok = pin[f] => Counters(tok)' = View(f)'
  BY <1>2 DEF Counters
<1>6. pin[f] \in registry
  BY <1>1 DEF AllocationSucceeds, OperationOK, Label
<1> QED
  BY <1>2, <1>3, <1>4, <1>5, <1>6

LEMMA CopyRecordKeepsCounters ==
  ASSUME InductiveInvariant, WorkingCopyInv,
         NEW t \in Threads, NEW u \in Threads, CopyRecord(t, u), NEW tok
  PROVE  Counters(tok)' = Counters(tok)
<1>1. UNCHANGED <<shared, pin, syncing>>
  BY DEF CopyRecord, frameVars
<1>2. ASSUME NEW g \in Frames, syncing[g]
      PROVE  record'[Thread(g)] = record[Thread(g)]
  <2>1. pc[g] # "idle" /\ Thread(g) \in Threads
    BY <1>2 DEF WorkingCopyInv, WorkingCopyOK, Holding, Frames, Thread
  <2>2. Thread(g) # t
    BY <2>1 DEF CopyRecord
  <2> QED
    BY <2>1, <2>2 DEF CopyRecord, InductiveInvariant, TypeOK
<1>3. CASE \E g \in Frames : syncing[g] /\ pin[g] = tok
  <2>1. PICK g \in Frames : syncing[g] /\ pin[g] = tok
    BY <1>3
  <2>2. \A h \in Frames : syncing[h] /\ pin[h] = tok => h = g
    BY <2>1, OneCopy DEF WorkingCopyInv, WorkingCopyOK
  <2>3. Counters(tok) = record[Thread(g)] /\ Counters(tok)' = record'[Thread(g)]
    BY <1>1, <2>1, <2>2, OpenCounters, OpenCountersNext
  <2> QED
    BY <1>2, <2>1, <2>3
<1>4. CASE ~\E g \in Frames : syncing[g] /\ pin[g] = tok
  BY <1>1, <1>4, ClosedCounters
<1> QED
  BY <1>3, <1>4

\* No two outstanding reservations of a context are drawn with the same
\* ordinal, and the next one drawn is above them all, whatever operations of
\* other threads and of observers run between the draw and the publication
\* (reservation_ordinal of allocate_tracked_host_buffer).
THEOREM OrdinalsAreUnique == Spec => []OrdinalsUnique
<1>1. Init => OrdinalsUnique
  BY FreeBufferType DEF Init, OrdinalsUnique, FreeBuffer
<1>2. ASSUME InductiveInvariant, WorkingCopyInv, OperationsInv, OrdinalsUnique,
             NEW f \in Frames, Begin(f) \/ Step(f)
      PROVE  OrdinalsUnique'
  <2>1. ASSUME NEW b \in Buffers, ~AllocationSucceeds(f, b), buffer'[b].owner # NoToken
        PROVE  /\ buffer[b].owner = buffer'[b].owner /\ buffer[b].ordinal = buffer'[b].ordinal
               /\ buffer[b].owner \in registry
               /\ buffer[b].ordinal < Counters(buffer[b].owner).ordinal
               /\ Counters(buffer[b].owner).ordinal \in Nat
    <3>1. buffer[b].owner = buffer'[b].owner /\ buffer[b].ordinal = buffer'[b].ordinal
      BY <1>2, <2>1, ReservationsStay
    <3>2. buffer[b].owner \in registry
      BY <1>2, <2>1, <3>1, OwnerRegistered
    <3>3. Counters(buffer[b].owner).ordinal \in Nat
      BY <1>2, <3>2, CountersType DEF EvaluationResourceState
    <3> QED
      BY <1>2, <2>1, <3>1, <3>2, <3>3 DEF OrdinalsUnique
  <2>2. \A b \in Buffers : buffer[b].ordinal \in Nat /\ buffer'[b].ordinal \in Nat
    BY <1>2, BeginPreserves, StepPreserves DEF InductiveInvariant, TypeOK, Buffer
  <2>3. ASSUME NEW b \in Buffers, buffer'[b].owner # NoToken
        PROVE  \A tok : tok = buffer'[b].owner => buffer'[b].ordinal < Counters(tok)'.ordinal
    <3> SUFFICES ASSUME NEW tok, tok = buffer'[b].owner
                 PROVE  buffer'[b].ordinal < Counters(tok)'.ordinal
      OBVIOUS
    <3>1. CASE AllocationSucceeds(f, b)
      BY <1>2, <3>1, OrdinalDrawn
    <3>2. CASE ~AllocationSucceeds(f, b)
      <4>1. /\ buffer[b].owner = tok /\ buffer[b].ordinal = buffer'[b].ordinal
            /\ tok \in registry /\ buffer[b].ordinal < Counters(tok).ordinal
            /\ Counters(tok).ordinal \in Nat
        BY <2>1, <2>3, <3>2
      <4>2. Counters(tok).ordinal <= Counters(tok)'.ordinal
        BY <1>2, <4>1, CountersOrdinal
      <4>3. Counters(tok)'.ordinal \in Nat
        <5>1. InductiveInvariant' /\ WorkingCopyInv'
          BY <1>2, BeginPreserves, StepPreserves, NextAccounts DEF Next
        <5> QED
          BY <2>3, <5>1, CountersTypeNext DEF EvaluationResourceState
      <4> QED
        BY <2>2, <4>1, <4>2, <4>3
    <3> QED
      BY <3>1, <3>2
  <2>4. ASSUME NEW b \in Buffers, NEW c \in Buffers, b # c,
               buffer'[b].owner = buffer'[c].owner, buffer'[b].owner # NoToken
        PROVE  buffer'[b].ordinal # buffer'[c].ordinal
    <3>1. ASSUME NEW x \in Buffers, NEW y \in Buffers, x # y, AllocationSucceeds(f, x),
                 buffer'[x].owner = buffer'[y].owner, buffer'[x].owner # NoToken
          PROVE  buffer'[x].ordinal # buffer'[y].ordinal
      <4>1. /\ buffer'[x].owner = pin[f] /\ buffer'[x].ordinal = Counters(pin[f]).ordinal
            /\ buffer'[y] = buffer[y] /\ pin[f] \in registry
        BY <1>2, <3>1, OrdinalDrawn
      <4>2. buffer[y].owner = pin[f] /\ buffer[y].owner # NoToken
        BY <3>1, <4>1
      <4>3. buffer[y].ordinal < Counters(pin[f]).ordinal
        BY <1>2, <4>2 DEF OrdinalsUnique
      <4>4. Counters(pin[f]).ordinal \in Nat
        BY <1>2, <4>1, CountersType DEF EvaluationResourceState
      <4> QED
        BY <2>2, <4>1, <4>3, <4>4
    <3>2. CASE ~AllocationSucceeds(f, b) /\ ~AllocationSucceeds(f, c)
      BY <1>2, <2>1, <2>4, <3>2 DEF OrdinalsUnique
    <3> QED
      BY <2>4, <3>1, <3>2
  <2> QED
    BY <2>3, <2>4 DEF OrdinalsUnique
<1>3. ASSUME InductiveInvariant, WorkingCopyInv, OrdinalsUnique,
             NEW t \in Threads, NEW u \in Threads, CopyRecord(t, u)
      PROVE  OrdinalsUnique'
  <2>1. UNCHANGED buffer
    BY <1>3 DEF CopyRecord
  <2>2. \A tok : Counters(tok)' = Counters(tok)
    BY <1>3, CopyRecordKeepsCounters
  <2> QED
    BY <1>3, <2>1, <2>2 DEF OrdinalsUnique
<1>4. OrdinalsUnique /\ UNCHANGED vars => OrdinalsUnique'
  BY DEF OrdinalsUnique, Counters, Thread, vars, frameVars
<1>5. InductiveInvariant /\ WorkingCopyInv /\ OperationsInv /\ OrdinalsUnique /\ [Next]_vars
        => OrdinalsUnique'
  BY <1>2, <1>3, <1>4 DEF Next
<1> QED
  BY <1>1, <1>5, Invariance, WorkingCopiesInOrder, OperationsInvariance, PTL DEF Spec

(***************************************************************************)
(* The live bytes of a context are the bytes of the reservations that are  *)
(* still charged to it.                                                    *)
(***************************************************************************)


\* A reservation is charged to tok while its binding is active, and while a
\* context-free cleanup of g that has consumed the binding is on its way to
\* the refund.
RefundingAt(g, b) ==
  call[g].op \in CleanupCalls /\ b \in current[g] /\ pc[g] \in {"refund", "lock", "work"}

Charges(b, tok) == buffer[b].bound = tok \/ (buffer[b].owner = tok /\ Refunding(b))

LEMMA RefundingSomewhere ==
  ASSUME NEW b
  PROVE  /\ Refunding(b) <=> \E g \in Frames : RefundingAt(g, b)
         /\ Refunding(b)' <=> \E g \in Frames : RefundingAt(g, b)'
  BY DEF Refunding, RefundingAt

\* Only the call that has a reservation can be refunding it.
LEMMA RefundingByUser ==
  ASSUME InductiveInvariant, NEW f \in Frames, NEW b \in Buffers,
         f \in buffer[b].user \/ buffer[b].user = {} \/ b \in current[f],
         NEW g \in Frames, g # f
  PROVE  ~RefundingAt(g, b)
<1>1. b \in current[g] => buffer[b].user = {g}
  BY DEF InductiveInvariant, BuffersInv, CurrentOK
<1>2. b \in current[f] => buffer[b].user = {f}
  BY DEF InductiveInvariant, BuffersInv, CurrentOK
<1> QED
  BY <1>1, <1>2 DEF RefundingAt

\* The refunds of the other frames go on.
LEMMA OtherRefunds ==
  ASSUME NEW f \in Frames, Local(f), BuffersLocal(f), NEW b, NEW g \in Frames, g # f
  PROVE  RefundingAt(g, b)' <=> RefundingAt(g, b)
  BY DEF RefundingAt, Local, OthersKept, BuffersLocal

-----------------------------------------------------------------------------
(***************************************************************************)
(* What a step of f does to the refund that f has under way.               *)
(***************************************************************************)

\* A call that begins has not got to a refund.
LEMMA BeginRefunds ==
  ASSUME InductiveInvariant, NEW f \in Frames, Begin(f), NEW b
  PROVE  ~RefundingAt(f, b) /\ ~RefundingAt(f, b)'
<1>1. TypeOK /\ pc[f] = "idle"
  BY DEF InductiveInvariant, Begin, MakeContext, ReleaseContext, BeginSnapshotCall, BeginUpdate,
         BeginCharge, BeginRelease, BeginCleanup, MayCall
<1>2. CASE \E c \in Configurations : MakeContext(f, c)
  BY <1>1, <1>2 DEF MakeContext, frameVars, RefundingAt
<1>3. CASE ReleaseContext(f)
  <2>1. pc'[f] = "idle" \/ call'[f].op = "release_context"
    BY <1>1, <1>3 DEF ReleaseContext, NewCall, TypeOK
  <2> QED
    BY <1>1, <2>1 DEF RefundingAt, CleanupCalls
<1>4. CASE \/ \E op \in {"refresh", "set_lifetime_observer"} : BeginSnapshotCall(f, op)
           \/ \E e \in Edits : BeginUpdate(f, e)
           \/ \E op \in AllocationCalls \cup {"charge_work"}, bytes \in Sizes, work \in Works :
                BeginCharge(f, op, bytes, work)
           \/ \E B \in SUBSET Buffers : BeginRelease(f, B)
  <2>1. \E op, bytes, work : op \notin CleanupCalls /\ BeginPinned(f, op, bytes, work)
    BY <1>4 DEF BeginSnapshotCall, BeginUpdate, BeginCharge, BeginRelease, CleanupCalls,
                AllocationCalls, ReleaseCalls, AggregateCalls
  <2>2. call'[f].op \notin CleanupCalls
    BY <1>1, <2>1 DEF BeginPinned, NewCall, TypeOK
  <2> QED
    BY <1>1, <2>2 DEF RefundingAt
<1>5. CASE \E B \in SUBSET Buffers : BeginCleanup(f, B)
  BY <1>1, <1>5 DEF BeginCleanup, Goto, RefundingAt, TypeOK
<1> QED
  BY <1>2, <1>3, <1>4, <1>5 DEF Begin

\* A call that is not a context-free cleanup refunds under its own lock.
LEMMA BodyRefunds ==
  ASSUME InductiveInvariant, OperationsInv, NEW f \in Frames,
         \/ ReleaseContextBody(f) \/ RefreshBody(f) \/ SetObserverBody(f) \/ UpdateBody(f)
         \/ ChargeWithoutStorage(f) \/ AllocationFails(f) \/ Leave(f)
         \/ \E c \in Buffers :
              \/ AllocationSucceeds(f, c) \/ ReleaseBody(f, c) \/ ReleaseWorkspaceBody(f, c)
              \/ AggregateConsume(f, c) \/ AggregateDrop(f, c) \/ AggregateReset(f, c),
         NEW b
  PROVE  ~RefundingAt(f, b) /\ ~RefundingAt(f, b)'
<1>1. TypeOK /\ OperationOK(f) /\ LabelOK(f)
  BY DEF InductiveInvariant, LabelsInv, OperationsInv
<1>2. call[f].op \notin CleanupCalls
  BY <1>1 DEF ReleaseContextBody, RefreshBody, SetObserverBody, UpdateBody, ChargeWithoutStorage,
         AllocationFails, Leave, AllocationSucceeds, ReleaseBody, ReleaseWorkspaceBody,
         AggregateConsume, AggregateDrop, AggregateReset, CleanupCalls, AllocationCalls,
         AggregateCalls, LabelOK, Label
<1>3. ASSUME NEW o, NEW l, Notify(f, o, l)
      PROVE  call'[f].op = call[f].op
  <2>1. call' = [call EXCEPT ![f].resume = l, ![f].observer = o]
    BY <1>3 DEF Notify
  <2>2. call \in [Frames -> Call]
    BY <1>1 DEF TypeOK
  <2> QED
    BY <2>1, <2>2 DEF Call
<1>4. call'[f].op = call[f].op
  <2>1. CASE UNCHANGED call
    BY <2>1
  <2>2. ASSUME NEW c \in Buffers, AllocationSucceeds(f, c)
        PROVE  call'[f].op = call[f].op
    <3>1. UNCHANGED call \/ \E o, l : Notify(f, o, l)
      BY <2>2, Zenon DEF AllocationSucceeds
    <3> QED
      BY <1>3, <3>1
  <2>3. ASSUME NEW c \in Buffers,
               ReleaseBody(f, c) \/ AggregateConsume(f, c) \/ AggregateDrop(f, c)
        PROVE  call'[f].op = call[f].op
    <3>1. UNCHANGED call \/ \E l : Notify(f, buffer[c].observer, l)
      BY <2>3 DEF ReleaseBody, AggregateConsume, AggregateDrop
    <3> QED
      BY <1>3, <3>1
  <2> QED
    BY <2>1, <2>2, <2>3 DEF ReleaseContextBody, RefreshBody, SetObserverBody, UpdateBody,
         ChargeWithoutStorage, AllocationFails, Leave, ReleaseWorkspaceBody, AggregateReset
<1> QED
  BY <1>2, <1>4 DEF RefundingAt

\* The rest, but for the two steps that start a refund and make it.
LEMMA PassageRefunds ==
  ASSUME InductiveInvariant, OperationsInv, NEW f \in Frames,
         \/ Lock(f) \/ Unpin(f) \/ EndCallback(f)
         \/ \E c \in Buffers : RefundPin(f, c) \/ DropOwner(f, c) \/ FreeStorage(f, c),
         NEW b
  PROVE  RefundingAt(f, b)' <=> RefundingAt(f, b)
<1>1. TypeOK /\ OperationOK(f) /\ LabelOK(f)
  BY DEF InductiveInvariant, LabelsInv, OperationsInv
<1>2. CASE Lock(f)
  <2>1. /\ UNCHANGED <<call, current>> /\ pc[f] = "lock" /\ pc'[f] = call[f].resume
    BY <1>1, <1>2 DEF Lock, Goto, TypeOK
  <2>2. call[f].op \in CleanupCalls => call[f].resume = "work"
    BY <1>1, <2>1 DEF LabelOK, Label, Holding
  <2> QED
    BY <2>1, <2>2 DEF RefundingAt
<1>3. CASE Unpin(f)
  <2>1. pc[f] = "unpin" /\ pc'[f] \in {"callback", "free", "idle"}
    BY <1>1, <1>3 DEF Unpin, Notify, Goto, Return, TypeOK
  <2> QED
    BY <2>1 DEF RefundingAt
<1>4. CASE EndCallback(f)
  <2>1. /\ pc[f] = "callback" /\ call'[f].op = call[f].op
        /\ pc'[f] = IF call[f].resume \in Holding THEN "lock" ELSE call[f].resume
    BY <1>1, <1>4 DEF EndCallback, Goto, TypeOK, Call
  <2>2. call[f].op \in CleanupCalls => call[f].resume \in {"unpin", "owner", "free"}
    BY <1>1, <2>1 DEF LabelOK, Label, Holding, OperationOK
  <2> QED
    BY <2>1, <2>2 DEF RefundingAt, Holding
<1>5. ASSUME NEW c \in Buffers, RefundPin(f, c)
      PROVE  RefundingAt(f, b)' <=> RefundingAt(f, b)
  <2>1. /\ pc[f] = "refund" /\ c \in current[f] /\ UNCHANGED current
    BY <1>5 DEF RefundPin
  <2>2. call[f].op \in CleanupCalls
    BY <1>1, <2>1 DEF LabelOK, Label
  <2>3. buffer[c].owner \in registry
    BY <1>1, <2>1, <2>2, OwnerRegistered DEF OperationOK, Label
  <2>4. pc'[f] = "lock" /\ call'[f].op = call[f].op
    BY <1>1, <1>5, <2>3 DEF RefundPin, Goto, TypeOK, Call
  <2> QED
    BY <2>1, <2>4 DEF RefundingAt
<1>6. ASSUME NEW c \in Buffers, DropOwner(f, c) \/ FreeStorage(f, c)
      PROVE  RefundingAt(f, b)' <=> RefundingAt(f, b)
  <2>1. /\ pc[f] \in {"owner", "free"}
        /\ pc'[f] \in {"free", "unpin", "callback", "idle", "consume"}
    BY <1>1, <1>6 DEF DropOwner, FreeStorage, Goto, Notify, Return, TypeOK
  <2> QED
    BY <2>1 DEF RefundingAt
<1> QED
  BY <1>2, <1>3, <1>4, <1>5, <1>6

-----------------------------------------------------------------------------
(***************************************************************************)
(* Steps that charge and refund nothing.                                   *)
(***************************************************************************)
KeepsCharge(b) ==
  \A tok \in Tokens : /\ Charges(b, tok)' <=> Charges(b, tok)
                      /\ Charges(b, tok) => buffer'[b].bytes = buffer[b].bytes

LEMMA ChargeKept ==
  ASSUME NEW f \in Frames, Local(f), BuffersLocal(f), NEW b \in Buffers,
         buffer'[b].bytes = buffer[b].bytes, buffer'[b].bound = buffer[b].bound,
         buffer'[b].owner = buffer[b].owner,
         RefundingAt(f, b)' <=> RefundingAt(f, b)
  PROVE  KeepsCharge(b)
<1>1. Refunding(b)' <=> Refunding(b)
  BY OtherRefunds, RefundingSomewhere
<1> QED
  BY <1>1 DEF KeepsCharge, Charges

\* What f alone is refunding.
LEMMA OwnRefund ==
  ASSUME InductiveInvariant, NEW f \in Frames, Local(f), BuffersLocal(f), NEW b \in Buffers,
         f \in buffer[b].user \/ buffer[b].user = {} \/ b \in current[f]
  PROVE  /\ Refunding(b) <=> RefundingAt(f, b)
         /\ Refunding(b)' <=> RefundingAt(f, b)'
  BY OtherRefunds, RefundingSomewhere, RefundingByUser

LEMMA BuffersElsewhere ==
  ASSUME NEW c, NEW x, Becomes(c, x), NEW b \in Buffers, b # c
  PROVE  buffer'[b] = buffer[b]
  BY DEF Becomes

\* The parts of a cleanup after the refund are about what is not charged.
LEMMA CleanedUp ==
  ASSUME InductiveInvariant, OperationsInv, NEW f \in Frames, Local(f), BuffersLocal(f),
         NEW c \in Buffers,
         \/ AggregateDrop(f, c) \/ AggregateReset(f, c)
         \/ DropOwner(f, c) \/ FreeStorage(f, c),
         NEW b \in Buffers
  PROVE  KeepsCharge(b)
<1>1. TypeOK /\ c \in current[f] /\ buffer[c].bound = NoToken /\ buffer[c] \in Buffer
  BY BodyFacts DEF InductiveInvariant, AggregateDrop, AggregateReset, DropOwner, FreeStorage
<1>2. \/ Becomes(c, FreeBuffer) \/ Becomes(c, Dropped(buffer[c]))
      \/ Becomes(c, Detached(buffer[c]))
  BY <1>1, BodyBuffers
<1>3. RefundingAt(f, b)' <=> RefundingAt(f, b)
  BY BodyRefunds, PassageRefunds
<1>4. CASE b # c
  BY <1>2, <1>3, <1>4, BuffersElsewhere, ChargeKept
<1>5. CASE b = c
  <2>1. buffer'[c].bound = NoToken /\ buffer'[c].owner = NoToken
    BY <1>1, <1>2, BufferForms DEF Becomes
  <2>2. ~RefundingAt(f, c)
    <3>1. CASE AggregateDrop(f, c) \/ AggregateReset(f, c)
      BY <3>1, BodyRefunds
    <3>2. CASE DropOwner(f, c) \/ FreeStorage(f, c)
      BY <3>2 DEF DropOwner, FreeStorage, RefundingAt
    <3> QED
      BY <3>1, <3>2
  <2>3. ~Refunding(c)
    BY <1>1, <2>2, OwnRefund
  <2>4. \A tok \in Tokens : ~Charges(c, tok) /\ ~Charges(c, tok)'
    BY <1>1, <2>1, <2>3 DEF Charges, Tokens, NoToken
  <2> QED
    BY <1>5, <2>4 DEF KeepsCharge
<1> QED
  BY <1>4, <1>5

\* A consumed binding is a refund under way (consume_allocation_binding).
LEMMA ConsumedIsRefunding ==
  ASSUME InductiveInvariant, OperationsInv, NEW f \in Frames, Local(f), BuffersLocal(f),
         NEW c \in Buffers, Consume(f, c), NEW b \in Buffers
  PROVE  KeepsCharge(b)
<1>1. /\ TypeOK /\ LabelOK(f) /\ ReservationOK(c) /\ buffer[c] \in Buffer
      /\ pc[f] = "consume" /\ f \in buffer[c].user /\ current'[f] = {c} /\ UNCHANGED call
      /\ pc'[f] = IF Consumable(c) THEN "refund" ELSE "owner"
  BY DEF InductiveInvariant, LabelsInv, OperationsInv, TypeOK, Consume, Goto, Claimed
<1>2. call[f].op \in CleanupCalls
  BY <1>1 DEF LabelOK, Label
<1>3. Becomes(c, Consumed(buffer[c]))
  BY <1>1, BodyBuffers
<1>4. \A x : ~RefundingAt(f, x)
  BY <1>1 DEF RefundingAt
<1>5. CASE b # c
  <2>1. ~RefundingAt(f, b)'
    BY <1>1, <1>5 DEF RefundingAt
  <2> QED
    BY <1>3, <1>4, <1>5, <2>1, BuffersElsewhere, ChargeKept
<1>6. CASE b = c
  <2>1. ~Refunding(c) /\ (Refunding(c)' <=> RefundingAt(f, c)')
    BY <1>1, <1>4, OwnRefund
  <2>2. RefundingAt(f, c)' <=> Consumable(c)
    BY <1>1, <1>2 DEF RefundingAt
  <2>3. /\ buffer'[c].bound = NoToken /\ buffer'[c].owner = buffer[c].owner
        /\ buffer'[c].bytes = buffer[c].bytes
    BY <1>1, <1>3, BufferForms DEF Becomes
  <2>4. \A tok \in Tokens : Charges(c, tok)' <=> Charges(c, tok)
    BY <1>1, <2>1, <2>2, <2>3 DEF Charges, Tokens, NoToken, ReservationOK, Consumable
  <2> QED
    BY <1>6, <2>3, <2>4 DEF KeepsCharge
<1> QED
  BY <1>5, <1>6

LEMMA QuietSteps ==
  ASSUME InductiveInvariant, OperationsInv, NEW f \in Frames, Begin(f) \/ Step(f),
         \A c \in Buffers : ~(\/ AllocationSucceeds(f, c) \/ ReleaseBody(f, c)
                              \/ ReleaseWorkspaceBody(f, c) \/ AggregateConsume(f, c)
                              \/ RefundBody(f, c)),
         NEW b \in Buffers
  PROVE  KeepsCharge(b)
<1>0. Local(f) /\ BuffersLocal(f) /\ TypeOK /\ buffer[b] \in Buffer
  BY BeginLocal, StepLocal, BeginBuffersLocal, StepBuffersLocal DEF InductiveInvariant, TypeOK
<1>1. CASE Begin(f)
  <2>1. /\ buffer'[b].bytes = buffer[b].bytes /\ buffer'[b].bound = buffer[b].bound
        /\ buffer'[b].owner = buffer[b].owner
    BY <1>0, <1>1 DEF Begin, MakeContext, ReleaseContext, BeginSnapshotCall, BeginUpdate,
       BeginCharge, BeginRelease, BeginCleanup, Claim, frameVars, Buffer
  <2> QED
    BY <1>0, <1>1, <2>1, BeginRefunds, ChargeKept
<1>2. CASE \/ ReleaseContextBody(f) \/ RefreshBody(f) \/ SetObserverBody(f) \/ UpdateBody(f)
           \/ ChargeWithoutStorage(f) \/ AllocationFails(f) \/ Leave(f)
  <2>1. UNCHANGED buffer
    BY <1>2 DEF ReleaseContextBody, RefreshBody, SetObserverBody, UpdateBody,
                ChargeWithoutStorage, AllocationFails, Leave
  <2> QED
    BY <1>0, <1>2, <2>1, BodyRefunds, ChargeKept
<1>3. CASE Lock(f) \/ EndCallback(f) \/ \E c \in Buffers : RefundPin(f, c)
  <2>1. UNCHANGED buffer
    BY <1>3 DEF Lock, EndCallback, RefundPin
  <2> QED
    BY <1>0, <1>3, <2>1, PassageRefunds, ChargeKept
<1>4. CASE Unpin(f)
  <2>1. /\ buffer'[b].bytes = buffer[b].bytes /\ buffer'[b].bound = buffer[b].bound
        /\ buffer'[b].owner = buffer[b].owner
    BY <1>0, <1>4 DEF Unpin, Buffer
  <2> QED
    BY <1>0, <1>4, <2>1, PassageRefunds, ChargeKept
<1>5. CASE \E c \in Buffers : \/ AggregateDrop(f, c) \/ AggregateReset(f, c)
                              \/ DropOwner(f, c) \/ FreeStorage(f, c)
  BY <1>0, <1>5, CleanedUp
<1>6. CASE \E c \in Buffers : Consume(f, c)
  BY <1>0, <1>6, ConsumedIsRefunding
<1> QED
  BY <1>1, <1>2, <1>3, <1>4, <1>5, <1>6 DEF Step

-----------------------------------------------------------------------------
(***************************************************************************)
(* Steps that charge and steps that refund.                                *)
(***************************************************************************)
LEMMA ReservationCharges ==
  ASSUME InductiveInvariant, WorkingCopyInv, OperationsInv, NEW f \in Frames, Step(f),
         NEW b \in Buffers, AllocationSucceeds(f, b)
  PROVE  /\ \A c \in Buffers : c # b => KeepsCharge(c)
         /\ \A tok \in Tokens : ~Charges(b, tok) /\ (Charges(b, tok)' <=> tok = pin[f])
         /\ buffer'[b].bytes = call[f].bytes /\ call[f].bytes \in 0 .. MaxSize
         /\ View(f)'.live = View(f).live + call[f].bytes
<1>1. Local(f) /\ BuffersLocal(f) /\ TypeOK /\ pc[f] \in Holding
  BY StepLocal, StepBuffersLocal DEF InductiveInvariant, AllocationSucceeds, Holding
<1>2. /\ Admissible(View(f), call[f]) /\ ~buffer[b].allocated
      /\ View(f)'.live = View(f).live + call[f].bytes
      /\ buffer'[b].bytes = call[f].bytes
      /\ buffer'[b].bound = pin[f] /\ buffer'[b].owner = pin[f]
      /\ \A c \in Buffers : c # b => buffer'[c] = buffer[c]
  BY ReservationSeen DEF Sees
<1>3. /\ \A x : ~RefundingAt(f, x) /\ ~RefundingAt(f, x)'
      /\ \A c \in Buffers : c # b => KeepsCharge(c)
  BY <1>1, <1>2, BodyRefunds, ChargeKept
<1>4. buffer[b].user = {} /\ buffer[b].owner = NoToken /\ buffer[b].bound = NoToken
  BY <1>1, <1>2 DEF InductiveInvariant, BuffersInv, BufferOK, OperationsInv, ReservationOK,
                    TypeOK, Buffer
<1>5. ~Refunding(b) /\ ~Refunding(b)'
  BY <1>1, <1>3, <1>4, OwnRefund
<1>6. \A tok \in Tokens : ~Charges(b, tok) /\ (Charges(b, tok)' <=> tok = pin[f])
  BY <1>2, <1>4, <1>5 DEF Charges, Tokens, NoToken
<1>7. View(f).live \in Nat /\ call[f].bytes \in Nat
  BY <1>1, ViewType DEF EvaluationResourceState, TypeOK, Call
<1>8. call[f].bytes <= MaxSize - View(f).live
  BY <1>2 DEF Admissible, Preflight
<1>9. call[f].bytes \in 0 .. MaxSize
  BY <1>7, <1>8, BoundsAssumption
<1> QED
  BY <1>2, <1>3, <1>6, <1>9

\* The reservation that f gives back was charged to the context that f has
\* pinned, and is not charged any more.
GivesBack(f, b) ==
  /\ \A c \in Buffers : c # b => KeepsCharge(c)
  /\ \A tok \in Tokens : ~Charges(b, tok)' /\ (Charges(b, tok) <=> tok = pin[f])
  /\ View(f)'.live = Refunded(View(f), buffer[b].bytes).live

LEMMA ReleaseGivesBack ==
  ASSUME InductiveInvariant, WorkingCopyInv, OperationsInv, NEW f \in Frames, Step(f),
         NEW b \in Buffers,
         ReleaseBody(f, b) \/ ReleaseWorkspaceBody(f, b) \/ AggregateConsume(f, b)
  PROVE  \/ (\A c \in Buffers : KeepsCharge(c)) /\ View(f)'.live = View(f).live
         \/ GivesBack(f, b)
<1>1. /\ Local(f) /\ BuffersLocal(f) /\ TypeOK /\ buffer[b] \in Buffer
      /\ f \in buffer[b].user
  BY StepLocal, StepBuffersLocal
     DEF InductiveInvariant, TypeOK, ReleaseBody, ReleaseWorkspaceBody, AggregateConsume, Claimed
<1>2. \A x : ~RefundingAt(f, x) /\ ~RefundingAt(f, x)'
  BY BodyRefunds
<1>3. CASE UNCHANGED <<buffer, current>> /\ Sees(f, View(f))
  BY <1>1, <1>2, <1>3, ChargeKept DEF Sees
<1>4. CASE /\ Consumable(b) /\ buffer[b].owner = pin[f]
           /\ Becomes(b, FreeBuffer) \/ Becomes(b, Consumed(buffer[b]))
           /\ Sees(f, Refunded(View(f), buffer[b].bytes))
  <2>1. ~Refunding(b) /\ ~Refunding(b)'
    BY <1>1, <1>2, OwnRefund
  <2>2. buffer[b].bound = pin[f] /\ buffer'[b].bound = NoToken
    BY <1>1, <1>4, BufferForms DEF Consumable, Becomes
  <2>3. \A tok \in Tokens : ~Charges(b, tok)' /\ (Charges(b, tok) <=> tok = pin[f])
    BY <2>1, <2>2 DEF Charges, Tokens, NoToken
  <2>4. \A c \in Buffers : c # b => KeepsCharge(c)
    BY <1>1, <1>2, <1>4, BuffersElsewhere, ChargeKept
  <2> QED
    BY <1>4, <2>3, <2>4 DEF GivesBack, Sees
<1> QED
  BY <1>3, <1>4, ReleaseSeen

LEMMA RefundGivesBack ==
  ASSUME InductiveInvariant, WorkingCopyInv, OperationsInv, NEW f \in Frames, Step(f),
         NEW b \in Buffers, RefundBody(f, b)
  PROVE  GivesBack(f, b)
<1>1. /\ Local(f) /\ BuffersLocal(f) /\ pc[f] = "work" /\ call[f].op \in CleanupCalls
      /\ b \in current[f] /\ buffer[b].bound = NoToken
      /\ \A c \in current[f] : c = b
  BY StepLocal, StepBuffersLocal, BodyFacts DEF RefundBody
<1>2. /\ buffer[b].owner = pin[f] /\ Sees(f, Refunded(View(f), buffer[b].bytes))
      /\ UNCHANGED <<buffer, current, call>> /\ pc'[f] \in {"owner", "unpin"}
  BY RefundSeen
<1>3. /\ RefundingAt(f, b) /\ ~RefundingAt(f, b)'
      /\ \A c : c # b => ~RefundingAt(f, c) /\ ~RefundingAt(f, c)'
  BY <1>1, <1>2 DEF RefundingAt
<1>4. Refunding(b) /\ ~Refunding(b)'
  BY <1>1, <1>3, OwnRefund
<1>5. \A tok \in Tokens : ~Charges(b, tok)' /\ (Charges(b, tok) <=> tok = pin[f])
  BY <1>1, <1>2, <1>4 DEF Charges, Tokens, NoToken
<1>6. \A c \in Buffers : c # b => KeepsCharge(c)
  BY <1>1, <1>2, <1>3, ChargeKept
<1> QED
  BY <1>2, <1>5, <1>6 DEF GivesBack, Sees

-----------------------------------------------------------------------------
(***************************************************************************)
(* Counting bytes.                                                         *)
(***************************************************************************)
LEMMA ChargedByte ==
  ASSUME NEW tok, NEW x
  PROVE  /\ x \in ChargedBytes(tok) <=>
              /\ x \in Buffers \X (1 .. MaxSize) /\ x[2] <= buffer[x[1]].bytes
              /\ Charges(x[1], tok)
         /\ x \in ChargedBytes(tok)' <=>
              /\ x \in Buffers \X (1 .. MaxSize) /\ x[2] <= buffer'[x[1]].bytes
              /\ Charges(x[1], tok)'
  BY DEF ChargedBytes, Charges

LEMMA FiniteCharges ==
  ASSUME NEW tok
  PROVE  IsFiniteSet(ChargedBytes(tok)) /\ IsFiniteSet(ChargedBytes(tok)')
<1>1. IsFiniteSet(Buffers \X (1 .. MaxSize))
  <2>1. IsFiniteSet(1 .. MaxSize)
    BY BoundsAssumption, FS_Interval
  <2>2. IsFiniteSet(Buffers)
    BY FiniteAssumption
  <2> QED
    BY <2>1, <2>2, FS_Product, Zenon
<1>2. /\ ChargedBytes(tok) \in SUBSET (Buffers \X (1 .. MaxSize))
      /\ ChargedBytes(tok)' \in SUBSET (Buffers \X (1 .. MaxSize))
  BY ChargedByte
<1> QED
  BY <1>1, <1>2, FS_Subset

\* n bytes of one reservation, added to a set that has none of them.
LEMMA BytesAdded ==
  ASSUME NEW S, IsFiniteSet(S), NEW b, NEW n \in Nat, \A k \in 1 .. n : <<b, k>> \notin S
  PROVE  Cardinality(S \cup ({b} \X (1 .. n))) = Cardinality(S) + n
<1> DEFINE R == {b} \X (1 .. n)
<1>1. IsFiniteSet({b}) /\ Cardinality({b}) = 1
  BY FS_Singleton
<1>2. IsFiniteSet(1 .. n) /\ Cardinality(1 .. n) = n
  BY FS_Interval
<1>3. IsFiniteSet(R) /\ Cardinality(R) = 1 * n
  <2> DEFINE I == 1 .. n
             J == {b}
  <2>1. IsFiniteSet(I) /\ IsFiniteSet(J)
    BY <1>1, <1>2
  <2> HIDE DEF I, J
  <2>2. IsFiniteSet(J \X I) /\ Cardinality(J \X I) = Cardinality(J) * Cardinality(I)
    BY <2>1, FS_Product
  <2> QED
    BY <1>1, <1>2, <2>2 DEF I, J
<1>4. S \cap R = {}
  OBVIOUS
<1>5. Cardinality({}) = 0
  BY FS_EmptySet
<1>6. Cardinality(S) \in Nat
  BY FS_CardinalityType
<1> HIDE DEF R
<1>7. Cardinality(S \cup R) = Cardinality(S) + Cardinality(R) - Cardinality(S \cap R)
  BY <1>3, FS_Union
<1>8. Cardinality(S \cup R) = Cardinality(S) + n
  <2>1. Cardinality(R) = n /\ Cardinality(S \cap R) = 0
    BY <1>3, <1>4, <1>5
  <2> QED
    BY <1>6, <1>7, <2>1
<1> QED
  BY <1>8 DEF R

\* The bytes charged to tok through each kind of step.
LEMMA SameBytes ==
  ASSUME NEW tok \in Tokens, \A b \in Buffers : KeepsCharge(b)
  PROVE  ChargedBytes(tok)' = ChargedBytes(tok)
<1>1. ASSUME NEW x \in Buffers \X (1 .. MaxSize)
      PROVE  x \in ChargedBytes(tok)' <=> x \in ChargedBytes(tok)
  <2>1. KeepsCharge(x[1])
    OBVIOUS
  <2> QED
    BY <2>1, ChargedByte DEF KeepsCharge
<1> QED
  BY <1>1, ChargedByte

LEMMA MoreBytes ==
  ASSUME NEW tok \in Tokens, NEW b \in Buffers, NEW n \in 0 .. MaxSize,
         \A c \in Buffers : c # b => KeepsCharge(c),
         ~Charges(b, tok), Charges(b, tok)', buffer'[b].bytes = n
  PROVE  Cardinality(ChargedBytes(tok)') = Cardinality(ChargedBytes(tok)) + n
<1>1. ChargedBytes(tok)' = ChargedBytes(tok) \cup ({b} \X (1 .. n))
  <2>1. ASSUME NEW x
        PROVE  x \in ChargedBytes(tok)' <=>
                 x \in ChargedBytes(tok) \/ x \in {b} \X (1 .. n)
    <3>1. CASE x \in Buffers \X (1 .. MaxSize) /\ x[1] # b
      <4>1. KeepsCharge(x[1]) /\ x \notin {b} \X (1 .. n)
        BY <3>1
      <4> QED
        BY <3>1, <4>1, ChargedByte DEF KeepsCharge
    <3>2. CASE x \in Buffers \X (1 .. MaxSize) /\ x[1] = b
      <4>1. x \in {b} \X (1 .. n) <=> x[2] <= n
        BY <3>2, BoundsAssumption
      <4> QED
        BY <3>2, <4>1, ChargedByte
    <3>3. CASE x \notin Buffers \X (1 .. MaxSize)
      <4>1. x \notin {b} \X (1 .. n)
        BY <3>3, BoundsAssumption
      <4> QED
        BY <3>3, <4>1, ChargedByte
    <3> QED
      BY <3>1, <3>2, <3>3
  <2> QED
    BY <2>1
<1>2. \A k \in 1 .. n : <<b, k>> \notin ChargedBytes(tok)
  BY ChargedByte
<1>3. IsFiniteSet(ChargedBytes(tok)) /\ n \in Nat
  BY FiniteCharges, BoundsAssumption
<1>4. Cardinality(ChargedBytes(tok) \cup ({b} \X (1 .. n))) =
        Cardinality(ChargedBytes(tok)) + n
  BY <1>2, <1>3, BytesAdded
<1> QED
  BY <1>1, <1>4

LEMMA FewerBytes ==
  ASSUME NEW tok \in Tokens, NEW b \in Buffers, NEW n \in 0 .. MaxSize,
         \A c \in Buffers : c # b => KeepsCharge(c),
         Charges(b, tok), ~Charges(b, tok)', buffer[b].bytes = n
  PROVE  Cardinality(ChargedBytes(tok)) = Cardinality(ChargedBytes(tok)') + n
<1>1. ChargedBytes(tok) = ChargedBytes(tok)' \cup ({b} \X (1 .. n))
  <2>1. ASSUME NEW x
        PROVE  x \in ChargedBytes(tok) <=>
                 x \in ChargedBytes(tok)' \/ x \in {b} \X (1 .. n)
    <3>1. CASE x \in Buffers \X (1 .. MaxSize) /\ x[1] # b
      <4>1. KeepsCharge(x[1]) /\ x \notin {b} \X (1 .. n)
        BY <3>1
      <4> QED
        BY <3>1, <4>1, ChargedByte DEF KeepsCharge
    <3>2. CASE x \in Buffers \X (1 .. MaxSize) /\ x[1] = b
      <4>1. x \in {b} \X (1 .. n) <=> x[2] <= n
        BY <3>2, BoundsAssumption
      <4> QED
        BY <3>2, <4>1, ChargedByte
    <3>3. CASE x \notin Buffers \X (1 .. MaxSize)
      <4>1. x \notin {b} \X (1 .. n)
        BY <3>3, BoundsAssumption
      <4> QED
        BY <3>3, <4>1, ChargedByte
    <3> QED
      BY <3>1, <3>2, <3>3
  <2> QED
    BY <2>1
<1>2. \A k \in 1 .. n : <<b, k>> \notin ChargedBytes(tok)'
  BY ChargedByte
<1>3. IsFiniteSet(ChargedBytes(tok)') /\ n \in Nat
  BY FiniteCharges, BoundsAssumption
<1>4. Cardinality(ChargedBytes(tok)' \cup ({b} \X (1 .. n))) =
        Cardinality(ChargedBytes(tok)') + n
  BY <1>2, <1>3, BytesAdded
<1> QED
  BY <1>1, <1>4

-----------------------------------------------------------------------------
(***************************************************************************)
(* The theorem.                                                            *)
(***************************************************************************)

\* The counter of a context through a step of f.
LiveKept(tok) ==
  Counters(tok).live = Cardinality(ChargedBytes(tok)) =>
    Counters(tok)'.live = Cardinality(ChargedBytes(tok)')

\* The state that f has locked, through a body that charges or refunds.
LEMMA LockedBody ==
  ASSUME InductiveInvariant, WorkingCopyInv, OperationsInv, NEW f \in Frames, Step(f),
         NEW b \in Buffers,
         \/ AllocationSucceeds(f, b) \/ ReleaseBody(f, b) \/ ReleaseWorkspaceBody(f, b)
         \/ AggregateConsume(f, b) \/ RefundBody(f, b),
         NEW tok \in registry
  PROVE  LiveKept(tok)
<1>1. /\ pc[f] \in Holding /\ tok \in Tokens /\ buffer[b].bytes \in 0 .. MaxSize
      /\ View(f) \in EvaluationResourceState
  <2>1. pc[f] \in Holding /\ tok \in Tokens
    BY DEF InductiveInvariant, TypeOK, AllocationSucceeds, ReleaseBody, ReleaseWorkspaceBody,
           AggregateConsume, RefundBody, Holding
  <2>2. buffer[b].bytes \in 0 .. MaxSize
    BY BoundsAssumption DEF InductiveInvariant, TypeOK, Buffer, OperationsInv, ReservationOK
  <2> QED
    BY <2>1, <2>2, ViewType
<1> DEFINE n == buffer[b].bytes
<1>2. View(f).live \in Nat
  BY <1>1 DEF EvaluationResourceState
<1>3. CASE tok = pin[f]
  <2>1. /\ Counters(tok) = View(f) /\ Counters(tok)' = View(f)'
    <3>1. Counters(pin[f]) = View(f) /\ Counters(pin[f])' = View(f)' /\ UNCHANGED pin
      BY <1>1, CountersHere, CopyOpened DEF InductiveInvariant
    <3> QED
      BY <1>3, <3>1 DEF Counters
  <2>2. CASE AllocationSucceeds(f, b)
    <3>1. Cardinality(ChargedBytes(tok)') = Cardinality(ChargedBytes(tok)) + call[f].bytes
      BY <1>1, <1>3, <2>2, ReservationCharges, MoreBytes
    <3>2. View(f)'.live = View(f).live + call[f].bytes
      BY <2>2, ReservationCharges
    <3> QED
      BY <2>1, <3>1, <3>2 DEF LiveKept
  <2>3. CASE (\A c \in Buffers : KeepsCharge(c)) /\ View(f)'.live = View(f).live
    <3>1. ChargedBytes(tok)' = ChargedBytes(tok)
      BY <1>1, <2>3, SameBytes
    <3> QED
      BY <2>1, <2>3, <3>1 DEF LiveKept
  <2>4. CASE GivesBack(f, b)
    <3>1. Cardinality(ChargedBytes(tok)) = Cardinality(ChargedBytes(tok)') + n
      BY <1>1, <1>3, <2>4, FewerBytes DEF GivesBack
    <3>2. Cardinality(ChargedBytes(tok)') \in Nat
      BY FiniteCharges, FS_CardinalityType
    <3>3. View(f)'.live = IF n <= View(f).live THEN View(f).live - n ELSE View(f).live
      BY <1>1, <2>4, RefundedType DEF GivesBack
    <3>4. View(f).live = Cardinality(ChargedBytes(tok)) =>
            View(f)'.live = Cardinality(ChargedBytes(tok)')
      BY <1>1, <1>2, <3>1, <3>2, <3>3
    <3> QED
      BY <2>1, <3>4 DEF LiveKept
  <2> QED
    BY <2>2, <2>3, <2>4, ReleaseGivesBack, RefundGivesBack
<1>4. CASE tok # pin[f]
  <2>1. Counters(tok)' = Counters(tok)
    BY <1>4, CountersElsewhere
  <2>2. \A c \in Buffers : c # b => KeepsCharge(c)
    BY ReservationCharges, ReleaseGivesBack, RefundGivesBack DEF GivesBack
  <2>3. ChargedBytes(tok)' = ChargedBytes(tok)
    <3>1. KeepsCharge(b) \/ (~Charges(b, tok) /\ ~Charges(b, tok)')
      BY <1>1, <1>4, ReservationCharges, ReleaseGivesBack, RefundGivesBack DEF GivesBack
    <3>2. ASSUME NEW x \in Buffers \X (1 .. MaxSize)
          PROVE  x \in ChargedBytes(tok)' <=> x \in ChargedBytes(tok)
      <4>1. KeepsCharge(x[1]) \/ (~Charges(x[1], tok) /\ ~Charges(x[1], tok)')
        BY <2>2, <3>1
      <4> QED
        BY <1>1, <4>1, ChargedByte DEF KeepsCharge
    <3> QED
      BY <3>2, ChargedByte
  <2> QED
    BY <2>1, <2>3 DEF LiveKept
<1> QED
  BY <1>3, <1>4

\* The other steps, for a context that was there before.
LEMMA QuietLive ==
  ASSUME InductiveInvariant, WorkingCopyInv, OperationsInv, NEW f \in Frames,
         Begin(f) \/ Step(f),
         \A c \in Buffers : ~(\/ AllocationSucceeds(f, c) \/ ReleaseBody(f, c)
                              \/ ReleaseWorkspaceBody(f, c) \/ AggregateConsume(f, c)
                              \/ RefundBody(f, c)),
         NEW tok \in registry
  PROVE  LiveKept(tok)
<1>1. tok \in Tokens /\ TypeOK
  BY DEF InductiveInvariant, TypeOK
<1>2. ChargedBytes(tok)' = ChargedBytes(tok)
  BY <1>1, QuietSteps, SameBytes
<1>3. Counters(tok)'.live = Counters(tok).live
  <2>1. CASE tok = pin[f] /\ (pc[f] \in Holding \/ Lock(f))
    <3>1. Counters(tok) = View(f) /\ Counters(tok)' = View(f)'
      <4>1. Counters(pin[f]) = View(f) /\ Counters(pin[f])' = View(f)' /\ UNCHANGED pin
        BY <1>1, <2>1, CountersHere, CopyOpened
      <4> QED
        BY <2>1, <4>1 DEF Counters
    <3>2. CASE \/ Lock(f) \/ Leave(f) \/ ReleaseContextBody(f) \/ RefreshBody(f)
               \/ SetObserverBody(f) \/ UpdateBody(f)
               \/ \E b \in Buffers : AggregateDrop(f, b) \/ AggregateReset(f, b)
      BY <3>1, <3>2, NothingCharged DEF Sees
    <3>3. CASE ChargeWithoutStorage(f)
      <4>1. View(f) \in EvaluationResourceState /\ View(f).live + 0 = View(f).live
        BY <2>1, <3>3, ViewType DEF ChargeWithoutStorage, Holding, EvaluationResourceState
      <4>2. Commit(View(f), 0, call[f].work).live = View(f).live
        BY <4>1 DEF Commit, EvaluationResourceState
      <4> QED
        BY <3>1, <3>3, <4>2, ChargeSeen DEF Sees
    <3>4. CASE AllocationFails(f)
      <4>1. View(f) \in EvaluationResourceState
        BY <3>4, ViewType DEF AllocationFails, Holding
      <4>2. [View(f) EXCEPT !.ordinal = View(f).ordinal + 1].live = View(f).live
        BY <4>1 DEF EvaluationResourceState
      <4> QED
        BY <3>1, <3>4, <4>2, FailureSeen DEF Sees
    <3> QED
      BY <1>1, <2>1, <3>2, <3>3, <3>4, LockedSteps
  <2>2. CASE tok = pin[f] => pc[f] \notin Holding /\ ~Lock(f)
    BY <2>2, CountersElsewhere
  <2> QED
    BY <2>1, <2>2
<1> QED
  BY <1>2, <1>3 DEF LiveKept

\* A context that has just been made.
LEMMA FreshContext ==
  ASSUME InductiveInvariant, WorkingCopyInv, OperationsInv, NEW f \in Frames,
         NEW c \in Configurations, MakeContext(f, c), NEW tok, tok = next_resource_token
  PROVE  Counters(tok)'.live = Cardinality(ChargedBytes(tok)')
<1>1. /\ TypeOK /\ tok \in Tokens /\ tok \notin registry
      /\ UNCHANGED <<buffer, pc, call, pin, current, syncing>>
  <2>1. TypeOK /\ TokensInv /\ tok \in 0 .. MaxToken /\ tok # NoToken
    BY DEF InductiveInvariant, TypeOK, MakeContext
  <2>2. tok \in Tokens
    BY <2>1, BoundsAssumption DEF Tokens, NoToken
  <2>3. tok \notin registry
    BY <2>1 DEF TokensInv
  <2>4. UNCHANGED <<buffer, pc, call, pin, current, syncing>>
    BY DEF MakeContext, frameVars
  <2> QED
    BY <2>1, <2>2, <2>3, <2>4
<1>2. shared'[tok].live = 0
  BY <1>1 DEF MakeContext, TypeOK
<1>3. \A g \in Frames : ~(syncing'[g] /\ pin'[g] = tok)
  <2>1. ASSUME NEW g \in Frames, pin[g] = tok
        PROVE  FALSE
    <3>1. <<"pin", g>> \in Holders(tok)
      BY <2>1, HolderKinds
    <3> QED
      BY <1>1, <3>1 DEF InductiveInvariant, ReferencesInv
  <2> QED
    BY <1>1, <2>1
<1>4. Counters(tok)' = shared'[tok]
  BY <1>3, ClosedCounters
<1>5. ASSUME NEW b \in Buffers
      PROVE  ~Charges(b, tok)'
  <2>1. buffer'[b].owner # tok
    BY <1>1, OwnerRegistered DEF Tokens, NoToken
  <2>2. buffer'[b].bound # tok
    BY <1>1, <2>1 DEF OperationsInv, ReservationOK, Tokens, NoToken
  <2> QED
    BY <2>1, <2>2 DEF Charges
<1>6. ChargedBytes(tok)' = {}
  BY <1>5, ChargedByte
<1>7. Cardinality({}) = 0
  BY FS_EmptySet
<1> QED
  BY <1>2, <1>4, <1>6, <1>7

\* Only a new context is registered.
LEMMA RegistryShrinks ==
  ASSUME TypeOK, NEW f \in Frames, Begin(f) \/ Step(f), NEW tok \in registry', tok \notin registry
  PROVE  tok = next_resource_token /\ \E c \in Configurations : MakeContext(f, c)
<1>1. Step(f) => registry' \subseteq registry
  BY DEF Step, Lock, Leave, Unpin, EndCallback, ReleaseContextBody, RefreshBody, SetObserverBody,
     UpdateBody, ChargeWithoutStorage, AllocationFails, AllocationSucceeds, ReleaseBody,
     ReleaseWorkspaceBody, AggregateConsume, AggregateDrop, AggregateReset, Consume, RefundPin,
     RefundBody, DropOwner, FreeStorage, ReleaseReference, registryVars
<1>2. Begin(f) => \/ UNCHANGED registry
                  \/ registry' = registry \cup {next_resource_token}
                       /\ \E c \in Configurations : MakeContext(f, c)
  BY DEF Begin, MakeContext, ReleaseContext, BeginSnapshotCall, BeginUpdate, BeginCharge,
         BeginRelease, BeginCleanup, registryVars
<1> QED
  BY <1>1, <1>2

\* live_evaluation_bytes of a context is, byte for byte, what its outstanding
\* reservations were charged: through charges and refunds of any number of
\* threads, release by value, by context or by a dropped handle, and calls made
\* by lifetime observers (commit_admission, refund_resource_state_bytes).
THEOREM LiveBytesAreExact == Spec => []LiveBytesExact
<1>1. Init => LiveBytesExact
  BY DEF Init, LiveBytesExact
<1>2. ASSUME InductiveInvariant, WorkingCopyInv, OperationsInv, LiveBytesExact,
             NEW f \in Frames, Begin(f) \/ Step(f)
      PROVE  LiveBytesExact'
  <2> SUFFICES ASSUME NEW tok \in registry'
               PROVE  Counters(tok)'.live = Cardinality(ChargedBytes(tok)')
    BY DEF LiveBytesExact
  <2>1. CASE tok \in registry
    <3>1. LiveKept(tok)
      <4>1. CASE \E c \in Buffers : \/ AllocationSucceeds(f, c) \/ ReleaseBody(f, c)
                                    \/ ReleaseWorkspaceBody(f, c) \/ AggregateConsume(f, c)
                                    \/ RefundBody(f, c)
        <5>1. Step(f)
          BY <4>1 DEF Step
        <5> QED
          BY <1>2, <2>1, <4>1, <5>1, LockedBody
      <4> QED
        BY <1>2, <2>1, <4>1, QuietLive
    <3> QED
      BY <1>2, <2>1, <3>1 DEF LiveBytesExact, LiveKept
  <2>2. CASE tok \notin registry
    BY <1>2, <2>2, RegistryShrinks, FreshContext DEF InductiveInvariant
  <2> QED
    BY <2>1, <2>2
<1>3. ASSUME InductiveInvariant, WorkingCopyInv, LiveBytesExact,
             NEW t \in Threads, NEW u \in Threads, CopyRecord(t, u)
      PROVE  LiveBytesExact'
  <2>1. UNCHANGED <<registry, buffer, pc, call, current>>
    BY <1>3 DEF CopyRecord, registryVars, frameVars
  <2>2. \A tok : Counters(tok)' = Counters(tok)
    BY <1>3, CopyRecordKeepsCounters
  <2>3. \A tok : ChargedBytes(tok)' = ChargedBytes(tok)
    BY <2>1 DEF ChargedBytes, Refunding
  <2> QED
    BY <1>3, <2>1, <2>2, <2>3 DEF LiveBytesExact
<1>4. LiveBytesExact /\ UNCHANGED vars => LiveBytesExact'
  <2> SUFFICES ASSUME LiveBytesExact, UNCHANGED vars
               PROVE  LiveBytesExact'
    OBVIOUS
  <2>1. UNCHANGED <<registry, shared, record, buffer, pc, call, pin, current, syncing>>
    BY DEF vars, registryVars, frameVars
  <2>2. \A tok : Counters(tok)' = Counters(tok) /\ ChargedBytes(tok)' = ChargedBytes(tok)
    BY <2>1 DEF Counters, Thread, ChargedBytes, Refunding
  <2> QED
    BY <2>1, <2>2 DEF LiveBytesExact
<1>5. InductiveInvariant /\ WorkingCopyInv /\ OperationsInv /\ LiveBytesExact /\ [Next]_vars
        => LiveBytesExact'
  BY <1>2, <1>3, <1>4 DEF Next
<1> QED
  BY <1>1, <1>5, Invariance, WorkingCopiesInOrder, OperationsInvariance, PTL DEF Spec

-----------------------------------------------------------------------------
(***************************************************************************)
(* The locked and pinned contexts of resources.cpp implement the ledger,   *)
(* and no publication rolls a configuration back, when observers make no   *)
(* calls of their own (Depth = 1).  An observer that does may give its     *)
(* thread's record to a context other than the one the outer call has      *)
(* pinned, and the outer call then refreshes that record from the wrong    *)
(* context.                                                                *)
(***************************************************************************)

\* A client's edit of its snapshot is on its way to publication.
Editing(f) == pc[f] \in {"lock", "work"} /\ call[f].op = "update_configuration"

Edited(old, new) == \E e \in Edits : new = [old EXCEPT ![e.field] = e.value]

\* A record that has the current version has the current configuration, but
\* for an edit on its way, or one that the last version refused.
SnapshotCurrent(f) ==
  LET s == shared[owner[Thread(f)]]
      r == record[Thread(f)]
  IN  /\ r.version <= s.version
      /\ r.version = s.version =>
           \/ r.config = s.config \/ s.version = MaxVersion
           \/ Editing(f) /\ Edited(s.config, r.config)

\* A call works on the context that its thread's record names.
SnapshotOK(f) ==
  /\ Label(f) \in Holding /\ call[f].op \notin CleanupCalls => owner[Thread(f)] = pin[f]
  /\ call[f].op = "update_configuration" => Label(f) \in {"work", "unpin"}
  /\ syncing[f] => record[Thread(f)].version = shared[pin[f]].version
  /\ owner[Thread(f)] # NoToken => SnapshotCurrent(f)

SnapshotInv == \A f \in Frames : SnapshotOK(f)

\* What can happen to the configuration of a context.
SameConfig(old, new) == new.version = old.version /\ new.config = old.config

Published(old, new, r) ==
  /\ old.version = r.version /\ old.version # MaxVersion
  /\ new.version = old.version + 1 /\ new.config = r.config

LEMMA AmountsKeepConfig ==
  ASSUME NEW s \in EvaluationResourceState, NEW r \in EvaluationResourceState,
         NEW n, NEW m, NEW o
  PROVE  /\ SameConfig(s, Publish(s, r))
         /\ SameConfig(s, [s EXCEPT !.observer = o])
         /\ SameConfig(s, [s EXCEPT !.live = n])
         /\ SameConfig(s, [s EXCEPT !.ordinal = n])
         /\ SameConfig(s, Commit(s, n, m))
         /\ SameConfig(s, [Commit(s, n, m) EXCEPT !.ordinal = o])
  BY DEF SameConfig, Publish, Commit, EvaluationResourceState

\* The shared configuration of a context changes only by a publication.
LEMMA SharedConfig ==
  ASSUME InductiveInvariant, NEW f \in Frames, Begin(f) \/ Step(f), NEW tok \in Tokens
  PROVE  \/ SameConfig(shared[tok], shared'[tok])
         \/ tok = next_resource_token /\ \E c \in Configurations : MakeContext(f, c)
         \/ /\ UpdateBody(f) /\ tok = pin[f]
            /\ Published(shared[tok], shared'[tok], record[Thread(f)])
<1>1. TypeOK /\ shared[tok] \in EvaluationResourceState /\ Thread(f) \in Threads
  BY DEF InductiveInvariant, TypeOK, Frames, Thread
<1>2. CASE shared' = shared
  BY <1>2 DEF SameConfig
<1>3. CASE \E c \in Configurations : MakeContext(f, c)
  BY <1>1, <1>3 DEF MakeContext, SameConfig, TypeOK
<1>4. CASE SetObserverBody(f)
  <2>1. PICK o \in BOOLEAN : shared' = [shared EXCEPT ![pin[f]].observer = o]
    BY <1>4 DEF SetObserverBody
  <2>2. shared'[tok] = shared[tok] \/ shared'[tok] = [shared[tok] EXCEPT !.observer = o]
    BY <1>1, <2>1 DEF TypeOK
  <2> QED
    BY <1>1, <2>2 DEF SameConfig, EvaluationResourceState
<1>5. CASE UpdateBody(f)
  <2>1. CASE UNCHANGED shared
    BY <2>1 DEF SameConfig
  <2>2. CASE ~UNCHANGED shared
    <3>1. /\ record[Thread(f)].version = shared[pin[f]].version
          /\ shared[pin[f]].version # MaxVersion
          /\ shared' = [shared EXCEPT ![pin[f]].config = record[Thread(f)].config,
                                      ![pin[f]].version = @ + 1]
      BY <1>5, <2>2 DEF UpdateBody
    <3>2. tok # pin[f] => shared'[tok] = shared[tok]
      BY <1>1, <3>1 DEF TypeOK
    <3>3. ASSUME tok = pin[f]
          PROVE  Published(shared[tok], shared'[tok], record[Thread(f)])
      <4>1. shared'[tok] = [shared[tok] EXCEPT !.config = record[Thread(f)].config,
                                               !.version = shared[tok].version + 1]
        BY <1>1, <3>1, <3>3 DEF TypeOK
      <4>2. /\ shared'[tok].version = shared[tok].version + 1
            /\ shared'[tok].config = record[Thread(f)].config
        BY <1>1, <4>1 DEF EvaluationResourceState
      <4> QED
        BY <3>1, <3>3, <4>2 DEF Published
    <3> QED
      BY <1>5, <3>2, <3>3 DEF SameConfig
  <2> QED
    BY <2>1, <2>2
<1>6. ASSUME NEW b \in Buffers, RefundBody(f, b)
      PROVE  SameConfig(shared[tok], shared'[tok])
  <2>1. \E n : shared' = [shared EXCEPT ![pin[f]].live = n]
    <3> DEFINE l == shared[pin[f]].live
               n == IF buffer[b].bytes <= l THEN l - buffer[b].bytes ELSE l
    <3>1. shared' = [shared EXCEPT ![pin[f]].live = n]
      BY <1>6 DEF RefundBody
    <3> HIDE DEF n
    <3> QED
      BY <3>1
  <2>2. PICK n : shared' = [shared EXCEPT ![pin[f]].live = n]
    BY <2>1
  <2>3. shared'[tok] = shared[tok] \/ shared'[tok] = [shared[tok] EXCEPT !.live = n]
    BY <1>1, <2>2 DEF TypeOK
  <2> QED
    BY <1>1, <2>3 DEF SameConfig, EvaluationResourceState
<1>7. ASSUME NEW r, FinishSync(f, r)
      PROVE  SameConfig(shared[tok], shared'[tok])
  <2>1. shared' = shared \/ shared' = [shared EXCEPT ![pin[f]] = Publish(shared[pin[f]], r)]
    BY <1>7 DEF FinishSync
  <2>2. shared'[tok] = shared[tok] \/ shared'[tok] = Publish(shared[tok], r)
    BY <1>1, <2>1 DEF TypeOK
  <2> QED
    BY <1>1, <2>2 DEF SameConfig, Publish, EvaluationResourceState
<1>8. CASE Step(f) /\ shared' # shared
  <2>1. ASSUME NEW b \in Buffers,
               \/ AllocationSucceeds(f, b) \/ ReleaseBody(f, b) \/ AggregateConsume(f, b)
               \/ AggregateDrop(f, b)
        PROVE  SameConfig(shared[tok], shared'[tok])
    <3>1. \E r : FinishSync(f, r)
      BY <1>8, <2>1, Zenon DEF AllocationSucceeds, ReleaseBody, AggregateConsume, AggregateDrop
    <3> QED
      BY <1>7, <3>1
  <2>2. Leave(f) => SameConfig(shared[tok], shared'[tok])
    BY <1>7 DEF Leave
  <2>3. \/ SetObserverBody(f) \/ UpdateBody(f) \/ Leave(f)
        \/ \E b \in Buffers : \/ AllocationSucceeds(f, b) \/ ReleaseBody(f, b)
                              \/ AggregateConsume(f, b) \/ AggregateDrop(f, b)
                              \/ RefundBody(f, b)
    BY <1>8 DEF Step, Lock, Unpin, EndCallback, ReleaseContextBody, RefreshBody,
       ChargeWithoutStorage, AllocationFails, ReleaseWorkspaceBody, AggregateReset, Consume,
       RefundPin, DropOwner, FreeStorage
  <2> QED
    BY <1>4, <1>5, <1>6, <2>1, <2>2, <2>3
<1>9. CASE Begin(f) /\ shared' # shared
  BY <1>3, <1>9 DEF Begin, ReleaseContext, BeginSnapshotCall, BeginUpdate, BeginCharge,
                    BeginRelease, BeginCleanup
<1> QED
  BY <1>2, <1>8, <1>9

-----------------------------------------------------------------------------
(***************************************************************************)
(* The snapshot of a thread through its own steps.                         *)
(***************************************************************************)

\* Neither the snapshot nor the context's configuration moves.
LEMMA SnapshotStays ==
  ASSUME NEW f \in Frames, SnapshotOK(f), UNCHANGED owner,
         SameConfig(record[Thread(f)], record'[Thread(f)]),
         owner[Thread(f)] # NoToken =>
           SameConfig(shared[owner[Thread(f)]], shared'[owner[Thread(f)]]),
         Editing(f) => Editing(f)'
  PROVE  owner'[Thread(f)] # NoToken => SnapshotCurrent(f)'
  BY DEF SnapshotOK, SnapshotCurrent, SameConfig, Thread

\* The snapshot is refreshed from its context.
LEMMA SnapshotRefreshed ==
  ASSUME InductiveInvariant, NEW f \in Frames, UNCHANGED <<owner, shared>>,
         owner[Thread(f)] \in Tokens, record'[Thread(f)] = shared[owner[Thread(f)]]
  PROVE  SnapshotCurrent(f)'
<1>1. shared[owner[Thread(f)]].version \in Nat
  BY DEF InductiveInvariant, TypeOK, EvaluationResourceState
<1> QED
  BY <1>1 DEF SnapshotCurrent, Thread

\* A record's own token is not one that is still to be issued.
LEMMA OwnTokenIssued ==
  ASSUME InductiveInvariant, NEW f \in Frames, owner[Thread(f)] # NoToken
  PROVE  /\ owner[Thread(f)] \in Tokens
         /\ next_resource_token # NoToken => owner[Thread(f)] # next_resource_token
<1>1. Thread(f) \in Threads
  BY DEF Frames, Thread
<1>2. owner[Thread(f)] \in Tokens
  BY <1>1, BoundsAssumption DEF InductiveInvariant, TypeOK, Tokens, NoToken
<1> QED
  BY <1>1, <1>2 DEF InductiveInvariant, TokensInv, Tokens, TypeOK

LEMMA BeginSnapshot ==
  ASSUME InductiveInvariant, WorkingCopyInv, NEW f \in Frames, SnapshotOK(f), Begin(f)
  PROVE  SnapshotOK(f)'
<1>1. /\ TypeOK /\ pc[f] = "idle" /\ ~syncing[f] /\ Thread(f) \in Threads /\ ~Editing(f)
      /\ call[f].op # "update_configuration"
  BY DEF InductiveInvariant, Begin, MakeContext, ReleaseContext, BeginSnapshotCall, BeginUpdate,
         BeginCharge, BeginRelease, BeginCleanup, MayCall, WorkingCopyInv, WorkingCopyOK, Holding,
         Frames, Thread, Editing, SnapshotOK, Label
<1>2. ~syncing'[f]
  BY <1>1, CopyOpened DEF Lock
<1>3. ASSUME NEW c \in Configurations, MakeContext(f, c)
      PROVE  SnapshotOK(f)'
  <2>1. UNCHANGED <<pc, call, syncing>>
    BY <1>3 DEF MakeContext, frameVars
  <2>2. /\ owner'[Thread(f)] = next_resource_token /\ next_resource_token \in Tokens
        /\ record'[Thread(f)] = shared'[next_resource_token]
        /\ shared'[next_resource_token].version = 1
    <3>1. next_resource_token \in Tokens
      BY <1>1, <1>3, BoundsAssumption DEF MakeContext, TypeOK, Tokens, NoToken
    <3> QED
      BY <1>1, <1>3, <3>1 DEF MakeContext, TypeOK
  <2>3. SnapshotCurrent(f)'
    BY <2>2 DEF SnapshotCurrent, Thread
  <2> QED
    BY <1>1, <1>2, <2>1, <2>3 DEF SnapshotOK, Label, Holding
<1>4. CASE ReleaseContext(f)
  <2>1. CASE Validated(f)
    <3>1. /\ pc'[f] = "lock" /\ call'[f].op = "release_context" /\ call'[f].resume = "work"
          /\ pin'[f] = owner[Thread(f)] /\ UNCHANGED <<owner, record, shared>>
      BY <1>1, <1>4, <2>1 DEF ReleaseContext, Goto, NewCall, TypeOK
    <3>2. owner'[Thread(f)] # NoToken => SnapshotCurrent(f)'
      BY <1>1, <3>1, SnapshotStays DEF SameConfig
    <3> QED
      BY <1>2, <3>1, <3>2 DEF SnapshotOK, Label, Thread
  <2>2. CASE ~Validated(f)
    <3>1. owner'[Thread(f)] = NoToken /\ UNCHANGED <<pc, call>>
      BY <1>1, <1>4, <2>2 DEF ReleaseContext, TypeOK
    <3> QED
      BY <1>1, <1>2, <3>1 DEF SnapshotOK, Label, Thread, Holding
  <2> QED
    BY <2>1, <2>2
<1>5. ASSUME NEW op, NEW bytes, NEW work, BeginPinned(f, op, bytes, work),
             UNCHANGED <<owner, shared>>
      PROVE  /\ pc'[f] = "lock" /\ call'[f].op = op /\ call'[f].resume = "work"
             /\ pin'[f] = owner'[Thread(f)] /\ owner[Thread(f)] \in Tokens
  <2>1. owner[Thread(f)] \in registry
    BY <1>5 DEF BeginPinned, Validated
  <2>2. /\ pc'[f] = "lock" /\ call'[f].op = op /\ call'[f].resume = "work"
        /\ pin'[f] = owner'[Thread(f)]
    BY <1>1, <1>5 DEF BeginPinned, Goto, NewCall, TypeOK
  <2> QED
    BY <1>1, <2>1, <2>2 DEF TypeOK
<1>6. CASE \/ \E op \in {"refresh", "set_lifetime_observer"} : BeginSnapshotCall(f, op)
           \/ \E op \in AllocationCalls \cup {"charge_work"}, bytes \in Sizes, work \in Works :
                BeginCharge(f, op, bytes, work)
           \/ \E B \in SUBSET Buffers : BeginRelease(f, B)
  <2>1. /\ UNCHANGED <<owner, record, shared>>
        /\ \E op, bytes, work : op # "update_configuration" /\ BeginPinned(f, op, bytes, work)
    BY <1>6 DEF BeginSnapshotCall, BeginCharge, BeginRelease, AllocationCalls, ReleaseCalls,
                AggregateCalls
  <2>2. owner'[Thread(f)] # NoToken => SnapshotCurrent(f)'
    BY <1>1, <2>1, SnapshotStays DEF SameConfig
  <2>3. /\ pc'[f] = "lock" /\ call'[f].op # "update_configuration"
        /\ call'[f].resume = "work" /\ pin'[f] = owner'[Thread(f)]
    BY <1>5, <2>1
  <2> QED
    BY <1>2, <2>2, <2>3 DEF SnapshotOK, Label, Thread
<1>7. ASSUME NEW e \in Edits, BeginUpdate(f, e)
      PROVE  SnapshotOK(f)'
  <2>1. /\ BeginPinned(f, "update_configuration", 0, 0) /\ UNCHANGED <<owner, shared>>
        /\ record' = [record EXCEPT ![Thread(f)].config[e.field] = e.value]
    BY <1>7 DEF BeginUpdate
  <2>2. /\ pc'[f] = "lock" /\ call'[f].op = "update_configuration"
        /\ call'[f].resume = "work" /\ pin'[f] = owner'[Thread(f)] /\ owner[Thread(f)] \in Tokens
    BY <1>5, <2>1
  <2>3. record[Thread(f)] \in EvaluationResourceState
    BY <1>1 DEF TypeOK
  <2>4. record'[Thread(f)] =
          [record[Thread(f)] EXCEPT !.config = [record[Thread(f)].config EXCEPT
                                                  ![e.field] = e.value]]
    BY <1>1, <2>1 DEF TypeOK
  <2>5. /\ record'[Thread(f)].version = record[Thread(f)].version
        /\ Edited(record[Thread(f)].config, record'[Thread(f)].config)
    BY <2>3, <2>4 DEF Edited, EvaluationResourceState
  <2>6. SnapshotCurrent(f) /\ Editing(f)'
    BY <2>2 DEF SnapshotOK, Editing, Tokens, NoToken
  <2>7. SnapshotCurrent(f)'
    BY <1>1, <2>1, <2>5, <2>6 DEF SnapshotCurrent, Thread
  <2> QED
    BY <1>2, <2>2, <2>7 DEF SnapshotOK, Label, Thread
<1>8. ASSUME NEW B \in SUBSET Buffers, BeginCleanup(f, B)
      PROVE  SnapshotOK(f)'
  <2>1. UNCHANGED <<owner, record, shared>> /\ pc'[f] = "consume"
    BY <1>1, <1>8 DEF BeginCleanup, Goto, TypeOK
  <2>2. call'[f].op # "update_configuration"
    BY <1>1, <1>8 DEF BeginCleanup, NewCall, TypeOK, CleanupCalls
  <2>3. owner'[Thread(f)] # NoToken => SnapshotCurrent(f)'
    BY <1>1, <2>1, SnapshotStays DEF SameConfig
  <2> QED
    BY <1>2, <2>1, <2>2, <2>3 DEF SnapshotOK, Label, Thread, Holding
<1> QED
  BY <1>3, <1>4, <1>6, <1>7, <1>8 DEF Begin

\* A call stays the call it is until it returns.
LEMMA OpKept ==
  ASSUME TypeOK, NEW f \in Frames, Step(f)
  PROVE  call'[f].op = call[f].op \/ (pc'[f] = "idle" /\ call'[f].op = "none")
<1>1. call \in [Frames -> Call] /\ pc \in [Frames -> PCs]
  BY DEF TypeOK
<1>2. ASSUME NEW o, NEW l, Notify(f, o, l)
      PROVE  call'[f].op = call[f].op
  <2>1. call' = [call EXCEPT ![f].resume = l, ![f].observer = o]
    BY <1>2 DEF Notify
  <2> QED
    BY <1>1, <2>1 DEF Call
<1>3. Return(f) => pc'[f] = "idle" /\ call'[f].op = "none"
  BY <1>1 DEF Return, NoCall, NewCall
<1>4. CASE UNCHANGED call
  BY <1>4
<1>5. CASE Unpin(f)
  <2>1. \/ UNCHANGED call \/ Return(f) \/ \E b \in current[f] : Notify(f, buffer[b].observer, "owner")
    BY <1>5 DEF Unpin
  <2> QED
    BY <1>2, <1>3, <2>1
<1>6. CASE EndCallback(f)
  BY <1>1, <1>6 DEF EndCallback, Call
<1>7. ASSUME NEW b \in Buffers, AllocationSucceeds(f, b)
      PROVE  call'[f].op = call[f].op
  <2>1. UNCHANGED call \/ \E o, l : Notify(f, o, l)
    BY <1>7, Zenon DEF AllocationSucceeds
  <2> QED
    BY <1>2, <2>1
<1>8. ASSUME NEW b \in Buffers,
             \/ ReleaseBody(f, b) \/ AggregateConsume(f, b) \/ AggregateDrop(f, b)
             \/ DropOwner(f, b)
      PROVE  call'[f].op = call[f].op
  <2>1. UNCHANGED call \/ \E l : Notify(f, buffer[b].observer, l)
    BY <1>8 DEF ReleaseBody, AggregateConsume, AggregateDrop, DropOwner
  <2> QED
    BY <1>2, <2>1
<1>9. ASSUME NEW b \in Buffers, RefundPin(f, b)
      PROVE  call'[f].op = call[f].op
  BY <1>1, <1>9 DEF RefundPin, Call
<1>10. ASSUME NEW b \in Buffers, FreeStorage(f, b), ~UNCHANGED call
       PROVE  Return(f)
  BY <1>10 DEF FreeStorage
<1>11. \/ UNCHANGED call \/ Unpin(f) \/ EndCallback(f)
       \/ \E b \in Buffers :
            \/ AllocationSucceeds(f, b) \/ ReleaseBody(f, b) \/ AggregateConsume(f, b)
            \/ AggregateDrop(f, b) \/ DropOwner(f, b) \/ RefundPin(f, b) \/ FreeStorage(f, b)
  BY DEF Step, Lock, Leave, ReleaseContextBody, RefreshBody, SetObserverBody, UpdateBody,
         ChargeWithoutStorage, AllocationFails, ReleaseWorkspaceBody, AggregateReset, Consume,
         RefundBody
<1> QED
  BY <1>3, <1>4, <1>5, <1>6, <1>7, <1>8, <1>9, <1>10, <1>11

\* A step of a call that publishes nothing leaves configurations alone.
LEMMA StepConfig ==
  ASSUME InductiveInvariant, NEW f \in Frames, Step(f), ~UpdateBody(f), NEW tok \in Tokens
  PROVE  SameConfig(shared[tok], shared'[tok])
<1>1. pc[f] # "idle"
  BY DEF Step, Lock, Leave, Unpin, EndCallback, ReleaseContextBody, RefreshBody,
         SetObserverBody, UpdateBody, ChargeWithoutStorage, AllocationFails, AllocationSucceeds,
         ReleaseBody, ReleaseWorkspaceBody, AggregateConsume, AggregateDrop, AggregateReset,
         Consume, RefundPin, RefundBody, DropOwner, FreeStorage
<1>2. \A c : ~MakeContext(f, c)
  BY <1>1 DEF MakeContext, MayCall
<1> QED
  BY <1>2, SharedConfig

\* Bodies that work on an open working copy.
LEMMA SyncBodySnapshot ==
  ASSUME InductiveInvariant, WorkingCopyInv, OperationsInv, NEW f \in Frames, SnapshotOK(f),
         Step(f),
         \/ ChargeWithoutStorage(f) \/ AllocationFails(f)
         \/ \E b \in Buffers :
              \/ AllocationSucceeds(f, b) \/ ReleaseBody(f, b) \/ ReleaseWorkspaceBody(f, b)
              \/ AggregateConsume(f, b) \/ AggregateDrop(f, b) \/ AggregateReset(f, b)
  PROVE  SnapshotOK(f)'
<1>1. /\ TypeOK /\ OperationOK(f) /\ pc[f] \in {"work", "drop", "reset"}
      /\ UNCHANGED <<pin, owner>>
  BY DEF InductiveInvariant, OperationsInv, ChargeWithoutStorage, AllocationFails,
         AllocationSucceeds, ReleaseBody, ReleaseWorkspaceBody, AggregateConsume, AggregateDrop,
         AggregateReset
<1>2. call[f].op \in SyncCalls
  BY <1>1 DEF ChargeWithoutStorage, AllocationFails, AllocationSucceeds, ReleaseBody,
         ReleaseWorkspaceBody, AggregateConsume, AggregateDrop, AggregateReset, SyncCalls,
         AllocationCalls, AggregateCalls, OperationOK, Label
<1>3. /\ call[f].op \notin CleanupCalls /\ call[f].op # "update_configuration"
      /\ call[f].op # "none"
  BY <1>2 DEF SyncCalls, CleanupCalls
<1>4. call'[f].op = call[f].op \/ call'[f].op = "none"
  BY <1>1, OpKept
<1>5. /\ owner[Thread(f)] = pin[f] /\ syncing[f] /\ ~Editing(f) /\ pin[f] \in Tokens
      /\ record[Thread(f)].version = shared[pin[f]].version
      /\ record[Thread(f)] \in EvaluationResourceState /\ Thread(f) \in Threads
      /\ ~UpdateBody(f)
  BY <1>1, <1>2, <1>3, BodyTypes
     DEF SnapshotOK, Label, Holding, OperationOK, Editing, UpdateBody
<1>6. SameConfig(record[Thread(f)], record'[Thread(f)])
  <2> DEFINE r == record[Thread(f)]
  <2>1. ASSUME NEW x, record' = [record EXCEPT ![Thread(f)] = x], SameConfig(r, x)
        PROVE  SameConfig(r, record'[Thread(f)])
    BY <1>1, <1>5, <2>1 DEF TypeOK
  <2>2. CASE UNCHANGED record
    BY <2>2 DEF SameConfig
  <2>3. CASE ChargeWithoutStorage(f) /\ ~UNCHANGED record
    <3>1. record' = [record EXCEPT ![Thread(f)] = Commit(r, 0, call[f].work)]
      BY <2>3 DEF ChargeWithoutStorage
    <3> QED
      BY <1>5, <2>1, <3>1, AmountsKeepConfig
  <2>4. CASE AllocationFails(f)
    <3>1. record' = [record EXCEPT ![Thread(f)] = [r EXCEPT !.ordinal = r.ordinal + 1]]
      BY <2>4 DEF AllocationFails
    <3> QED
      BY <1>5, <2>1, <3>1, AmountsKeepConfig
  <2>5. ASSUME NEW b \in Buffers, AllocationSucceeds(f, b)
        PROVE  SameConfig(r, record'[Thread(f)])
    <3> DEFINE m == Commit(r, call[f].bytes, call[f].work)
    <3>1. record' = [record EXCEPT ![Thread(f)] = [m EXCEPT !.ordinal = m.ordinal + 1]]
      BY <2>5 DEF AllocationSucceeds
    <3> QED
      BY <1>5, <2>1, <3>1, AmountsKeepConfig
  <2>6. ASSUME NEW b \in Buffers, ReleaseBody(f, b), ~UNCHANGED record
        PROVE  SameConfig(r, record'[Thread(f)])
    <3> DEFINE n == IF buffer[b].bytes <= r.live THEN r.live - buffer[b].bytes ELSE r.live
    <3>1. record' = [record EXCEPT ![Thread(f)] = [r EXCEPT !.live = n]]
      BY <2>6 DEF ReleaseBody
    <3> HIDE DEF n
    <3> QED
      BY <1>5, <2>1, <3>1, AmountsKeepConfig
  <2>7. ASSUME NEW b \in Buffers, ReleaseWorkspaceBody(f, b) \/ AggregateConsume(f, b),
               ~UNCHANGED record
        PROVE  SameConfig(r, record'[Thread(f)])
    <3>1. record' = [record EXCEPT ![Thread(f)] = [r EXCEPT !.live = r.live - buffer[b].bytes]]
      BY <2>7 DEF ReleaseWorkspaceBody, AggregateConsume
    <3> QED
      BY <1>5, <2>1, <3>1, AmountsKeepConfig
  <2>8. ASSUME NEW b \in Buffers, AggregateDrop(f, b) \/ AggregateReset(f, b)
        PROVE  UNCHANGED record
    BY <2>8 DEF AggregateDrop, AggregateReset
  <2> QED
    BY <2>2, <2>3, <2>4, <2>5, <2>6, <2>7, <2>8
<1>7. SameConfig(shared[pin[f]], shared'[pin[f]])
  BY <1>5, StepConfig
<1>8. owner'[Thread(f)] # NoToken => SnapshotCurrent(f)'
  BY <1>1, <1>5, <1>6, <1>7, SnapshotStays
<1>9. syncing'[f] => record'[Thread(f)].version = shared'[pin'[f]].version
  BY <1>1, <1>5, <1>6, <1>7 DEF SameConfig
<1>10. call'[f].op # "update_configuration"
  BY <1>3, <1>4
<1> QED
  BY <1>1, <1>5, <1>8, <1>9, <1>10 DEF SnapshotOK, Thread

\* Calls about the context itself.
LEMMA ContextBodySnapshot ==
  ASSUME InductiveInvariant, WorkingCopyInv, NEW f \in Frames, SnapshotOK(f), Step(f),
         \/ ReleaseContextBody(f) \/ RefreshBody(f) \/ SetObserverBody(f) \/ UpdateBody(f)
  PROVE  SnapshotOK(f)'
<1>1. /\ TypeOK /\ pc[f] = "work" /\ pc'[f] = "unpin" /\ UNCHANGED <<pin, call, syncing>>
      /\ call[f].op \notin CleanupCalls \cup SyncCalls
  BY DEF InductiveInvariant, TypeOK, ReleaseContextBody, RefreshBody, SetObserverBody, UpdateBody,
         Goto, CleanupCalls, SyncCalls
<1>2. /\ owner[Thread(f)] = pin[f] /\ ~syncing'[f] /\ pin[f] \in Tokens /\ Thread(f) \in Threads
      /\ record[Thread(f)] \in EvaluationResourceState
      /\ shared[pin[f]] \in EvaluationResourceState
  BY <1>1, BodyTypes DEF SnapshotOK, Label, Holding, WorkingCopyInv, WorkingCopyOK
<1>3. SnapshotCurrent(f)
  BY <1>2 DEF SnapshotOK, Tokens, NoToken
<1>4. owner'[Thread(f)] # NoToken => SnapshotCurrent(f)'
  <2>1. CASE ReleaseContextBody(f)
    BY <1>1, <1>2, <2>1 DEF ReleaseContextBody, TypeOK
  <2>2. CASE RefreshBody(f)
    <3>1. UNCHANGED <<owner, shared>> /\ record'[Thread(f)] = shared[owner[Thread(f)]]
      BY <1>1, <1>2, <2>2 DEF RefreshBody, TypeOK
    <3> QED
      BY <1>2, <3>1, SnapshotRefreshed
  <2>3. CASE SetObserverBody(f)
    <3>1. UNCHANGED owner /\ ~Editing(f)
      BY <2>3 DEF SetObserverBody, Editing
    <3>2. PICK o \in BOOLEAN : record' = [record EXCEPT ![Thread(f)].observer = o]
      BY <2>3 DEF SetObserverBody
    <3>3. SameConfig(record[Thread(f)], record'[Thread(f)])
      BY <1>1, <1>2, <3>2 DEF SameConfig, TypeOK, EvaluationResourceState
    <3>4. SameConfig(shared[pin[f]], shared'[pin[f]])
      <4>1. ~UpdateBody(f)
        BY <2>3 DEF SetObserverBody, UpdateBody
      <4> QED
        BY <1>2, <4>1, StepConfig
    <3> QED
      BY <1>2, <3>1, <3>3, <3>4, SnapshotStays
  <2>4. CASE UpdateBody(f)
    <3>0. UNCHANGED owner
      BY <2>4 DEF UpdateBody
    <3>1. CASE record[Thread(f)].version # shared[pin[f]].version
      <4>1. UNCHANGED shared /\ record'[Thread(f)] = shared[owner[Thread(f)]]
        BY <1>1, <1>2, <2>4, <3>1 DEF UpdateBody, TypeOK
      <4> QED
        BY <1>2, <3>0, <4>1, SnapshotRefreshed
    <3>2. CASE UNCHANGED <<record, shared>> /\ shared[pin[f]].version = MaxVersion
      BY <1>2, <1>3, <3>0, <3>2 DEF SnapshotCurrent, Thread
    <3>3. CASE /\ record[Thread(f)].version = shared[pin[f]].version
               /\ shared' = [shared EXCEPT ![pin[f]].config = record[Thread(f)].config,
                                           ![pin[f]].version = @ + 1]
               /\ record' = [record EXCEPT ![Thread(f)].version = @ + 1]
      <4> DEFINE s == shared[pin[f]]
                 r == record[Thread(f)]
      <4>1. /\ shared'[pin[f]] = [s EXCEPT !.config = r.config, !.version = s.version + 1]
            /\ record'[Thread(f)] = [r EXCEPT !.version = r.version + 1]
        BY <1>1, <1>2, <3>3 DEF TypeOK
      <4>2. /\ shared'[pin[f]].version = s.version + 1 /\ shared'[pin[f]].config = r.config
            /\ record'[Thread(f)].version = s.version + 1 /\ record'[Thread(f)].config = r.config
            /\ s.version + 1 \in Nat
        <5>1. /\ shared'[pin[f]].version = s.version + 1 /\ shared'[pin[f]].config = r.config
              /\ s.version + 1 \in Nat
          BY <1>2, <4>1 DEF EvaluationResourceState
        <5>2. record'[Thread(f)].version = r.version + 1 /\ record'[Thread(f)].config = r.config
          BY <1>2, <4>1 DEF EvaluationResourceState
        <5> QED
          BY <3>3, <5>1, <5>2
      <4> QED
        BY <1>2, <3>0, <4>2 DEF SnapshotCurrent, Thread
    <3> QED
      BY <2>4, <3>1, <3>2, <3>3 DEF UpdateBody
  <2> QED
    BY <2>1, <2>2, <2>3, <2>4
<1> QED
  BY <1>1, <1>2, <1>4 DEF SnapshotOK, Label, Holding, Thread

\* Taking the mutex, giving it back, and what runs without it.
LEMMA PassageSnapshot ==
  ASSUME InductiveInvariant, WorkingCopyInv, OperationsInv, NEW f \in Frames, SnapshotOK(f),
         Step(f),
         \/ Lock(f) \/ Leave(f) \/ Unpin(f) \/ EndCallback(f)
         \/ \E b \in Buffers : \/ Consume(f, b) \/ RefundPin(f, b) \/ RefundBody(f, b)
                               \/ DropOwner(f, b) \/ FreeStorage(f, b)
  PROVE  SnapshotOK(f)'
<1>1. /\ TypeOK /\ LabelOK(f) /\ Thread(f) \in Threads /\ UNCHANGED owner /\ ~UpdateBody(f)
  BY DEF InductiveInvariant, LabelsInv, Frames, Thread, UpdateBody, Lock, Leave, Unpin,
         EndCallback, Consume, RefundPin, RefundBody, DropOwner, FreeStorage, CleanupCalls
<1>2. owner[Thread(f)] # NoToken => SameConfig(shared[owner[Thread(f)]], shared'[owner[Thread(f)]])
  BY <1>1, OwnTokenIssued, StepConfig
<1>3. CASE Lock(f)
  <2>1. /\ pc[f] = "lock" /\ pc'[f] = call[f].resume /\ UNCHANGED <<call, pin, shared>>
        /\ call[f].resume \in Holding
    BY <1>1, <1>3 DEF Lock, Goto, TypeOK, LabelOK
  <2>2. Label(f)' = Label(f) /\ Label(f) \in Holding
    BY <2>1 DEF Label, Holding
  <2>3. CASE syncing'[f] /\ record'[Thread(f)] = shared[pin[f]] /\ call[f].op \in SyncCalls
    <3>1. owner[Thread(f)] = pin[f] /\ pin[f] \in Tokens
      BY <1>1, <2>2, <2>3, Pinned DEF SnapshotOK, SyncCalls, CleanupCalls, InductiveInvariant
    <3>2. SnapshotCurrent(f)'
      BY <1>1, <2>1, <2>3, <3>1, SnapshotRefreshed
    <3> QED
      BY <1>1, <2>1, <2>2, <2>3, <3>1, <3>2 DEF SnapshotOK, Thread
  <2>4. CASE ~syncing'[f] /\ UNCHANGED record
    <3>1. Editing(f) => Editing(f)'
      BY <2>1, <2>2 DEF SnapshotOK, Editing, Label, Holding
    <3>2. owner'[Thread(f)] # NoToken => SnapshotCurrent(f)'
      BY <1>1, <1>2, <2>4, <3>1, SnapshotStays DEF SameConfig
    <3> QED
      BY <1>1, <2>1, <2>2, <2>4, <3>2 DEF SnapshotOK, Thread
  <2>5. ~syncing[f]
    BY <2>1 DEF WorkingCopyInv, WorkingCopyOK, Holding
  <2> QED
    BY <1>1, <1>3, <2>3, <2>4, <2>5 DEF Lock, TypeOK
<1>4. CASE ~Lock(f)
  <2>1. UNCHANGED record /\ (pc[f] = "work" => call[f].op \in CleanupCalls) /\ pc[f] # "lock"
    BY <1>4 DEF Leave, Unpin, EndCallback, Consume, RefundPin, RefundBody, DropOwner, FreeStorage
  <2>2. ~Editing(f)
    BY <2>1 DEF Editing, CleanupCalls
  <2>3. owner'[Thread(f)] # NoToken => SnapshotCurrent(f)'
    BY <1>1, <1>2, <2>1, <2>2, SnapshotStays DEF SameConfig
  <2>4. ~syncing'[f]
    <3>1. Leave(f) => ~syncing'[f]
      BY <1>1 DEF Leave, FinishSync, TypeOK
    <3>2. ~Leave(f) => ~syncing[f] /\ UNCHANGED syncing
      BY <1>4 DEF Unpin, EndCallback, Consume, RefundPin, RefundBody, DropOwner, FreeStorage,
                  WorkingCopyInv, WorkingCopyOK, Holding, SyncCalls, CleanupCalls
    <3> QED
      BY <3>1, <3>2
  <2>5. call'[f].op = call[f].op \/ (pc'[f] = "idle" /\ call'[f].op = "none")
    BY <1>1, OpKept
  <2>6. CASE EndCallback(f)
    <3>1. Label(f)' = Label(f) /\ UNCHANGED pin
      <4>1. /\ pc[f] = "callback" /\ call'[f].resume = call[f].resume
            /\ pc'[f] = IF call[f].resume \in Holding THEN "lock" ELSE call[f].resume
        BY <1>1, <2>6 DEF EndCallback, Goto, TypeOK, Call
      <4> QED
        BY <1>1, <2>6, <4>1 DEF EndCallback, Label, LabelOK, Holding
    <3>2. call'[f].op = call[f].op
      BY <1>1, <2>6 DEF EndCallback, TypeOK, Call
    <3> QED
      BY <1>1, <2>3, <2>4, <3>1, <3>2 DEF SnapshotOK, Thread
  <2>7. CASE Leave(f) \/ Unpin(f)
    <3>1. pc[f] \in {"unlock", "unpin"}
      BY <2>7 DEF Leave, Unpin
    <3>2. CASE Leave(f)
      <4>1. pc'[f] = "unpin" /\ UNCHANGED call
        BY <1>1, <3>2 DEF Leave, Goto, TypeOK
      <4> QED
        BY <2>3, <2>4, <4>1 DEF SnapshotOK, Label, Holding
    <3>3. CASE Unpin(f)
      <4>1. CASE call[f].op \in CleanupCalls
        <5>1. call'[f].op \in CleanupCalls \cup {"none"} /\ call'[f].op # "update_configuration"
          BY <2>5, <4>1 DEF CleanupCalls
        <5>2. call'[f].op = "none" => Label(f)' = "idle"
          BY <2>5, <4>1 DEF Label, CleanupCalls
        <5> QED
          BY <2>3, <2>4, <5>1, <5>2 DEF SnapshotOK, Holding
      <4>2. CASE call[f].op \notin CleanupCalls
        <5>1. pc'[f] = "idle" /\ call'[f].op = "none"
          BY <1>1, <3>3, <4>2 DEF Unpin, CleanupCalls, Return, NoCall, NewCall, TypeOK
        <5> QED
          BY <2>3, <2>4, <5>1 DEF SnapshotOK, Label, Holding
      <4> QED
        BY <4>1, <4>2
    <3> QED
      BY <2>7, <3>2, <3>3
  <2>8. CASE \E b \in Buffers : \/ Consume(f, b) \/ RefundPin(f, b) \/ RefundBody(f, b)
                                \/ DropOwner(f, b) \/ FreeStorage(f, b)
    <3>1. call[f].op \in CleanupCalls
      BY <1>1, <2>8 DEF Consume, RefundPin, RefundBody, DropOwner, FreeStorage, LabelOK, Label
    <3>2. call'[f].op \in CleanupCalls \cup {"none"} /\ call'[f].op # "update_configuration"
      BY <2>5, <3>1 DEF CleanupCalls
    <3>3. call'[f].op = "none" => Label(f)' = "idle"
      BY <2>5, <3>1 DEF Label, CleanupCalls
    <3> QED
      BY <2>3, <2>4, <3>2, <3>3 DEF SnapshotOK, Holding
  <2> QED
    BY <1>4, <2>6, <2>7, <2>8
<1> QED
  BY <1>3, <1>4

LEMMA StepSnapshot ==
  ASSUME InductiveInvariant, WorkingCopyInv, OperationsInv, NEW f \in Frames, SnapshotOK(f),
         Step(f)
  PROVE  SnapshotOK(f)'
  BY SyncBodySnapshot, ContextBodySnapshot, PassageSnapshot DEF Step

-----------------------------------------------------------------------------
(***************************************************************************)
(* The snapshots of the other threads.                                     *)
(***************************************************************************)
LEMMA OneFramePerThread ==
  ASSUME Depth = 1, NEW f \in Frames, NEW g \in Frames, Thread(f) = Thread(g)
  PROVE  f = g
  BY DEF Frames, Thread

LEMMA OtherSnapshots ==
  ASSUME Depth = 1, InductiveInvariant, WorkingCopyInv, NEW f \in Frames, Begin(f) \/ Step(f),
         NEW g \in Frames, g # f, SnapshotOK(g)
  PROVE  SnapshotOK(g)'
<1>1. Local(f) /\ TypeOK
  BY BeginLocal, StepLocal DEF InductiveInvariant
<1>2. Thread(g) # Thread(f) /\ Thread(g) \in Threads
  BY OneFramePerThread DEF Frames, Thread
<1>3. /\ pc'[g] = pc[g] /\ call'[g] = call[g] /\ pin'[g] = pin[g] /\ syncing'[g] = syncing[g]
      /\ record'[Thread(g)] = record[Thread(g)] /\ owner'[Thread(g)] = owner[Thread(g)]
  BY <1>1, <1>2 DEF Local, OthersKept
<1>4. Label(g)' = Label(g) /\ (Editing(g)' <=> Editing(g))
  BY <1>3 DEF Label, Editing
<1>5. syncing[g] => shared'[pin[g]] = shared[pin[g]]
  <2>1. ASSUME syncing[g]
        PROVE  pin[g] \in registry /\ pc[g] \in Holding
    BY <2>1, BodyTypes DEF WorkingCopyInv, WorkingCopyOK
  <2>2. ASSUME syncing[g], shared'[pin[g]] # shared[pin[g]]
        PROVE  FALSE
    <3>1. pin[g] = pin[f] /\ pc[f] \in Holding
      BY <1>1, <2>1, <2>2 DEF Local, SharedKept
    <3> QED
      BY <2>2, <3>1, OneCopy
  <2> QED
    BY <2>2
<1>6. ASSUME owner[Thread(g)] # NoToken
      PROVE  SnapshotCurrent(g)'
  <2> DEFINE tok == owner[Thread(g)]
  <2>1. tok \in Tokens /\ (next_resource_token # NoToken => tok # next_resource_token)
    BY <1>6, OwnTokenIssued
  <2>2. \/ SameConfig(shared[tok], shared'[tok])
        \/ Published(shared[tok], shared'[tok], record[Thread(f)])
    <3>1. (\E c \in Configurations : MakeContext(f, c)) => tok # next_resource_token
      BY <2>1 DEF MakeContext
    <3> QED
      BY <2>1, <3>1, SharedConfig
  <2>3. SnapshotCurrent(g)
    BY <1>6 DEF SnapshotOK
  <2>4. shared[tok].version \in Nat /\ record[Thread(g)].version \in Nat
    BY <1>1, <1>2, <2>1 DEF TypeOK, EvaluationResourceState
  <2>5. CASE SameConfig(shared[tok], shared'[tok])
    BY <1>3, <1>4, <2>3, <2>5 DEF SnapshotCurrent, SameConfig, Thread
  <2>6. CASE Published(shared[tok], shared'[tok], record[Thread(f)])
    <3>1. record[Thread(g)].version < shared'[tok].version
      BY <2>3, <2>4, <2>6 DEF SnapshotCurrent, Published
    <3>2. shared'[tok].version \in Nat
      BY <2>4, <2>6 DEF Published
    <3> QED
      BY <1>3, <2>4, <3>1, <3>2 DEF SnapshotCurrent, Thread
  <2> QED
    BY <2>2, <2>5, <2>6
<1> QED
  BY <1>3, <1>4, <1>5, <1>6 DEF SnapshotOK, Thread

\* A copied record is as current as the one it is copied from.
LEMMA CopyRecordSnapshot ==
  ASSUME Depth = 1, InductiveInvariant, WorkingCopyInv, SnapshotInv,
         NEW t \in Threads, NEW u \in Threads, CopyRecord(t, u)
  PROVE  SnapshotInv'
<1>1. /\ TypeOK /\ UNCHANGED <<shared, pc, call, pin, syncing>>
      /\ owner' = [owner EXCEPT ![t] = owner[u]] /\ record' = [record EXCEPT ![t] = record[u]]
  BY DEF InductiveInvariant, CopyRecord, frameVars
<1> SUFFICES ASSUME NEW f \in Frames PROVE SnapshotOK(f)'
  BY DEF SnapshotInv
<1>2. SnapshotOK(f) /\ Label(f)' = Label(f) /\ (Editing(f)' <=> Editing(f))
  BY <1>1 DEF SnapshotInv, Label, Editing
<1>3. CASE Thread(f) # t
  <2>1. owner'[Thread(f)] = owner[Thread(f)] /\ record'[Thread(f)] = record[Thread(f)]
    BY <1>1, <1>3 DEF TypeOK, Frames, Thread
  <2> QED
    BY <1>1, <1>2, <2>1 DEF SnapshotOK, SnapshotCurrent, Thread
<1>4. CASE Thread(f) = t
  <2> DEFINE g == <<u, 1>>
  <2>1. g \in Frames /\ Thread(g) = u
    BY DEF Frames, Thread
  <2> HIDE DEF g
  <2>2. pc[f] = "idle" /\ pc[g] = "idle" /\ SnapshotOK(g)
    BY <1>4, <2>1 DEF CopyRecord, SnapshotInv
  <2>3. owner'[Thread(f)] = owner[Thread(g)] /\ record'[Thread(f)] = record[Thread(g)]
    BY <1>1, <1>4, <2>1 DEF TypeOK
  <2>4. ~syncing[f] /\ ~Editing(g)
    BY <2>2 DEF WorkingCopyInv, WorkingCopyOK, Holding, Editing
  <2>5. owner'[Thread(f)] # NoToken => SnapshotCurrent(f)'
    BY <1>1, <2>2, <2>3, <2>4 DEF SnapshotOK, SnapshotCurrent, Thread
  <2> QED
    BY <1>1, <1>2, <2>2, <2>4, <2>5 DEF SnapshotOK, Label, Holding, Thread
<1> QED
  BY <1>3, <1>4

\* While observers make no calls, a record that carries the current version
\* carries the current configuration, but for the edit its client is about
\* to publish, whichever aliases publish (configuration_version of
\* refresh_evaluation_resources and update_evaluation_resource_configuration).
THEOREM SnapshotsInOrder ==
  ASSUME Depth = 1
  PROVE  Spec => []SnapshotInv
<1>1. Init => SnapshotInv
  BY DEF Init, SnapshotInv, SnapshotOK, Label, Holding, NoCall, NewCall, Frames, Thread
<1>2. InductiveInvariant /\ WorkingCopyInv /\ OperationsInv /\ SnapshotInv /\ [Next]_vars
        => SnapshotInv'
  <2> SUFFICES ASSUME InductiveInvariant, WorkingCopyInv, OperationsInv, SnapshotInv, [Next]_vars
               PROVE  SnapshotInv'
    OBVIOUS
  <2>1. ASSUME NEW f \in Frames, Begin(f) \/ Step(f)
        PROVE  SnapshotInv'
    <3>1. SnapshotOK(f)'
      BY <2>1, BeginSnapshot, StepSnapshot DEF SnapshotInv
    <3>2. \A g \in Frames : g # f => SnapshotOK(g)'
      BY <2>1, OtherSnapshots DEF SnapshotInv
    <3> QED
      BY <3>1, <3>2 DEF SnapshotInv
  <2>2. ASSUME UNCHANGED vars
        PROVE  SnapshotInv'
    BY <2>2 DEF vars, frameVars, SnapshotInv, SnapshotOK, SnapshotCurrent, Label, Editing, Thread
  <2> QED
    BY <2>1, <2>2, CopyRecordSnapshot DEF Next
<1> QED
  BY <1>1, <1>2, Invariance, WorkingCopiesInOrder, OperationsInvariance, PTL DEF Spec

\* A publication changes the one field its client edited, from the
\* configuration that is published at that moment; versions only grow
\* (update_evaluation_resource_configuration).
LEMMA PublishesOneEdit ==
  ASSUME Depth = 1, InductiveInvariant, SnapshotInv, NEW f \in Frames, UpdateBody(f),
         Published(shared[pin[f]], shared'[pin[f]], record[Thread(f)])
  PROVE  \/ shared'[pin[f]].config = shared[pin[f]].config
         \/ Edited(shared[pin[f]].config, shared'[pin[f]].config)
<1>1. /\ pc[f] = "work" /\ call[f].op = "update_configuration" /\ SnapshotOK(f)
      /\ pin[f] \in Tokens
  BY BodyTypes DEF UpdateBody, SnapshotInv, Holding
<1>2. owner[Thread(f)] = pin[f]
  BY <1>1 DEF SnapshotOK, Label, Holding, CleanupCalls
<1>3. SnapshotCurrent(f)
  BY <1>1, <1>2 DEF SnapshotOK, Tokens, NoToken
<1> QED
  BY <1>2, <1>3 DEF SnapshotCurrent, Published

\* No publication of update_evaluation_resource_configuration rolls back what
\* another alias has published: it changes one field, from the configuration
\* that is in force, and raises the version.
THEOREM ConfigurationsNeverRollBack ==
  ASSUME Depth = 1
  PROVE  Spec => NoConfigurationRollback
<1> DEFINE Kept == \A tok \in registry \cap registry' :
       LET old == shared[tok]
           new == shared'[tok]
       IN  /\ old.version <= new.version
           /\ old.config # new.config =>
                /\ old.version < new.version
                /\ \E e \in Edits : new.config = [old.config EXCEPT ![e.field] = e.value]
<1>1. InductiveInvariant /\ SnapshotInv /\ [Next]_vars => [Kept]_vars
  <2> SUFFICES ASSUME InductiveInvariant, SnapshotInv, Next PROVE Kept
    OBVIOUS
  <2> SUFFICES ASSUME NEW tok \in registry
               PROVE  /\ shared[tok].version <= shared'[tok].version
                      /\ shared[tok].config # shared'[tok].config =>
                           /\ shared[tok].version < shared'[tok].version
                           /\ Edited(shared[tok].config, shared'[tok].config)
    BY DEF Edited
  <2>1. tok \in Tokens /\ tok # next_resource_token /\ shared[tok].version \in Nat
    <3>1. TypeOK /\ TokensInv /\ tok \in Tokens
      BY DEF InductiveInvariant, TypeOK
    <3>2. shared[tok].version \in Nat
      BY <3>1 DEF TypeOK, EvaluationResourceState
    <3>3. tok # next_resource_token
      BY <3>1 DEF TokensInv, Tokens, NoToken
    <3> QED
      BY <3>1, <3>2, <3>3
  <2>2. CASE SameConfig(shared[tok], shared'[tok])
    BY <2>1, <2>2 DEF SameConfig
  <2>3. ASSUME NEW f \in Frames, Begin(f) \/ Step(f), ~SameConfig(shared[tok], shared'[tok])
        PROVE  /\ shared[tok].version < shared'[tok].version
               /\ shared[tok].version <= shared'[tok].version
               /\ \/ shared[tok].config = shared'[tok].config
                  \/ Edited(shared[tok].config, shared'[tok].config)
    <3>1. /\ UpdateBody(f) /\ tok = pin[f]
          /\ Published(shared[tok], shared'[tok], record[Thread(f)])
      BY <2>1, <2>3, SharedConfig
    <3>2. /\ shared[tok].version < shared'[tok].version
          /\ shared[tok].version <= shared'[tok].version
      BY <2>1, <3>1 DEF Published
    <3> QED
      BY <3>1, <3>2, PublishesOneEdit
  <2>4. ASSUME NEW t \in Threads, NEW u \in Threads, CopyRecord(t, u)
        PROVE  SameConfig(shared[tok], shared'[tok])
    BY <2>4 DEF CopyRecord, SameConfig
  <2> QED
    BY <2>1, <2>2, <2>3, <2>4 DEF Next
<1> QED
  BY <1>1, Invariance, SnapshotsInOrder, PTL DEF Spec, NoConfigurationRollback

-----------------------------------------------------------------------------
(***************************************************************************)
(* What each operation of the ledger asks of a step.                       *)
(***************************************************************************)

\* Nothing that the ledger keeps about a context, or a reservation, changes.
SameAmounts(tok) ==
  Counters(tok)'.work = Counters(tok).work /\ Counters(tok)'.ordinal = Counters(tok).ordinal

SamePolicies == \A tok \in Tokens : shared'[tok].config = shared[tok].config
SameTokens == UNCHANGED <<next_resource_token, context_active>>
SameCharges == \A b \in Buffers : ChargeOf(b)' = ChargeOf(b)

LEMMA LedgerStutters ==
  ASSUME SameTokens, SamePolicies, SameCharges, \A tok \in Tokens : SameAmounts(tok)
  PROVE  UNCHANGED Ledger!vars
  BY DEF Ledger!vars, SameTokens, SamePolicies, SameCharges, SameAmounts

\* A context that is registered has been issued.
Issued(p) ==
  p <= (IF next_resource_token = NoToken THEN MaxToken ELSE next_resource_token - 1)

LEMMA RegisteredIssued ==
  ASSUME InductiveInvariant, NEW p \in registry
  PROVE  p \in Tokens /\ Issued(p)
<1>1. p \in Tokens /\ next_resource_token \in 0 .. MaxToken
  BY DEF InductiveInvariant, TypeOK
<1> QED
  BY <1>1, BoundsAssumption DEF Issued, InductiveInvariant, TokensInv, Tokens, NoToken

LEMMA LedgerAdmits ==
  ASSUME SameTokens, SamePolicies, NEW p \in Tokens, Issued(p),
         NEW b \in Buffers, NEW bytes, NEW units, NEW o,
         \A tok \in Tokens : tok # p => SameAmounts(tok),
         \A tok : tok = p => /\ Counters(tok)'.work = Counters(p).work + units
                             /\ Counters(tok)'.ordinal = Counters(p).ordinal + 1,
         \A c \in Buffers : c # b => ChargeOf(c)' = ChargeOf(c),
         ChargeOf(b) = [token |-> 0, bytes |-> 0],
         ChargeOf(b)' = [token |-> p, bytes |-> bytes],
         Ledger!Allowed(Ledger!LiveBytes(p) + bytes, shared[p].config.max_live_evaluation_bytes),
         Ledger!Allowed(Counters(p).work + units, shared[p].config.max_work_units)
  PROVE  Ledger!Admit(p, b, bytes, units)
<1>1. [tok \in Tokens |-> Counters(tok).work]'
        = [[tok \in Tokens |-> Counters(tok).work] EXCEPT ![p] = @ + units]
  BY DEF SameAmounts
<1>2. [tok \in Tokens |-> Counters(tok).ordinal]'
        = [[tok \in Tokens |-> Counters(tok).ordinal] EXCEPT ![p] = @ + 1]
  BY DEF SameAmounts
<1>3. [c \in Buffers |-> ChargeOf(c)]'
        = [[c \in Buffers |-> ChargeOf(c)] EXCEPT ![b] = [token |-> p, bytes |-> bytes]]
  OBVIOUS
<1>4. /\ UNCHANGED [tok \in Tokens |-> shared[tok].config]
      /\ UNCHANGED <<IF next_resource_token = NoToken THEN MaxToken ELSE next_resource_token - 1,
                     context_active>>
  BY DEF SameTokens, SamePolicies
<1> QED
  BY <1>1, <1>2, <1>3, <1>4 DEF Ledger!Admit, Issued, Ledger!NoCharge

LEMMA LedgerFails ==
  ASSUME SameTokens, SamePolicies, SameCharges, NEW p \in Tokens, Issued(p),
         \A tok \in Tokens : tok # p => SameAmounts(tok),
         \A tok : tok = p => /\ Counters(tok)'.work = Counters(p).work
                             /\ Counters(tok)'.ordinal = Counters(p).ordinal + 1
  PROVE  Ledger!Fail(p)
<1>1. UNCHANGED [tok \in Tokens |-> Counters(tok).work]
  BY DEF SameAmounts
<1>2. [tok \in Tokens |-> Counters(tok).ordinal]'
        = [[tok \in Tokens |-> Counters(tok).ordinal] EXCEPT ![p] = @ + 1]
  BY DEF SameAmounts
<1>3. /\ UNCHANGED <<[tok \in Tokens |-> shared[tok].config], [c \in Buffers |-> ChargeOf(c)]>>
      /\ UNCHANGED <<IF next_resource_token = NoToken THEN MaxToken ELSE next_resource_token - 1,
                     context_active>>
  BY DEF SameTokens, SamePolicies, SameCharges
<1> QED
  BY <1>1, <1>2, <1>3 DEF Ledger!Fail, Issued

LEMMA LedgerSpends ==
  ASSUME SameTokens, SamePolicies, SameCharges, NEW p \in Tokens, Issued(p), NEW units,
         \A tok \in Tokens : tok # p => SameAmounts(tok),
         \A tok : tok = p => /\ Counters(tok)'.work = Counters(p).work + units
                             /\ Counters(tok)'.ordinal = Counters(p).ordinal,
         Ledger!Allowed(Counters(p).work + units, shared[p].config.max_work_units)
  PROVE  Ledger!Spend(p, units)
<1>1. [tok \in Tokens |-> Counters(tok).work]'
        = [[tok \in Tokens |-> Counters(tok).work] EXCEPT ![p] = @ + units]
  BY DEF SameAmounts
<1>2. UNCHANGED [tok \in Tokens |-> Counters(tok).ordinal]
  BY DEF SameAmounts
<1>3. /\ UNCHANGED <<[tok \in Tokens |-> shared[tok].config], [c \in Buffers |-> ChargeOf(c)]>>
      /\ UNCHANGED <<IF next_resource_token = NoToken THEN MaxToken ELSE next_resource_token - 1,
                     context_active>>
  BY DEF SameTokens, SamePolicies, SameCharges
<1> QED
  BY <1>1, <1>2, <1>3 DEF Ledger!Spend, Issued

LEMMA LedgerRefunds ==
  ASSUME SameTokens, SamePolicies, \A tok \in Tokens : SameAmounts(tok), NEW b \in Buffers,
         \A c \in Buffers : c # b => ChargeOf(c)' = ChargeOf(c),
         ChargeOf(b).token # 0, ChargeOf(b)' = [token |-> 0, bytes |-> 0]
  PROVE  Ledger!Refund(b)
<1>1. [c \in Buffers |-> ChargeOf(c)]'
        = [[c \in Buffers |-> ChargeOf(c)] EXCEPT ![b] = [token |-> 0, bytes |-> 0]]
  OBVIOUS
<1>2. /\ UNCHANGED <<[tok \in Tokens |-> shared[tok].config],
                     [tok \in Tokens |-> Counters(tok).work],
                     [tok \in Tokens |-> Counters(tok).ordinal]>>
      /\ UNCHANGED <<IF next_resource_token = NoToken THEN MaxToken ELSE next_resource_token - 1,
                     context_active>>
  BY DEF SameTokens, SamePolicies, SameAmounts
<1> QED
  BY <1>1, <1>2 DEF Ledger!Refund, Ledger!NoCharge

LEMMA LedgerConfigures ==
  ASSUME SameTokens, SameCharges, \A tok \in Tokens : SameAmounts(tok),
         NEW p \in Tokens, Issued(p), NEW e,
         \A tok \in Tokens : tok # p => shared'[tok].config = shared[tok].config,
         shared'[p].config = [shared[p].config EXCEPT ![e.field] = e.value]
  PROVE  Ledger!Configure(p, e)
<1>1. [tok \in Tokens |-> shared[tok].config]'
        = [[tok \in Tokens |-> shared[tok].config] EXCEPT ![p][e.field] = e.value]
  OBVIOUS
<1>2. /\ UNCHANGED <<[tok \in Tokens |-> Counters(tok).work], [c \in Buffers |-> ChargeOf(c)],
                     [tok \in Tokens |-> Counters(tok).ordinal]>>
      /\ UNCHANGED <<IF next_resource_token = NoToken THEN MaxToken ELSE next_resource_token - 1,
                     context_active>>
  BY DEF SameTokens, SameCharges, SameAmounts
<1> QED
  BY <1>1, <1>2 DEF Ledger!Configure, Issued

-----------------------------------------------------------------------------
(***************************************************************************)
(* The charge of a reservation.                                            *)
(***************************************************************************)

\* A reservation is charged to one context, or to none.
ChargeNamed(b) ==
  /\ \A tok \in Tokens : Charges(b, tok) <=> ChargeOf(b).token = tok
  /\ ChargeOf(b).token \in 0 .. MaxToken
  /\ ChargeOf(b) = IF ChargeOf(b).token = 0 THEN [token |-> 0, bytes |-> 0]
                   ELSE [token |-> ChargeOf(b).token, bytes |-> buffer[b].bytes]

ChargesNamed == \A b \in Buffers : ChargeNamed(b)

LEMMA RefundHasOwner ==
  ASSUME InductiveInvariant, OperationsInv, NEW b \in Buffers, Refunding(b)
  PROVE  buffer[b].owner # NoToken
<1>1. PICK g \in Frames : RefundingAt(g, b)
  BY RefundingSomewhere
<1>2. /\ LabelOK(g) /\ OperationOK(g) /\ call[g].op \in CleanupCalls /\ b \in current[g]
      /\ pc[g] \in {"refund", "lock", "work"}
  BY <1>1 DEF RefundingAt, InductiveInvariant, LabelsInv, OperationsInv
<1>3. CASE pc[g] = "refund"
  BY <1>2, <1>3 DEF OperationOK, Label
<1>4. CASE pc[g] # "refund"
  <2>1. Label(g) = "work"
    BY <1>2, <1>4 DEF LabelOK, Label, Holding
  <2> QED
    BY <1>2, <2>1 DEF OperationOK, LabelOK, Holding
<1> QED
  BY <1>3, <1>4

LEMMA ChargesHaveNames == InductiveInvariant /\ OperationsInv => ChargesNamed
<1> SUFFICES ASSUME InductiveInvariant, OperationsInv, NEW b \in Buffers PROVE ChargeNamed(b)
  BY DEF ChargesNamed
<1>1. /\ buffer[b].owner \in 0 .. MaxToken /\ buffer[b].bound \in {NoToken, buffer[b].owner}
  BY DEF InductiveInvariant, TypeOK, Buffer, OperationsInv, ReservationOK
<1>2. CASE buffer[b].bound # NoToken
  BY <1>1, <1>2 DEF ChargeNamed, ChargeOf, Charges, NoToken
<1>3. CASE buffer[b].bound = NoToken /\ Refunding(b)
  BY <1>1, <1>3, RefundHasOwner DEF ChargeNamed, ChargeOf, Charges, Tokens, NoToken
<1>4. CASE buffer[b].bound = NoToken /\ ~Refunding(b)
  BY <1>1, <1>4, BoundsAssumption DEF ChargeNamed, ChargeOf, Charges, Tokens, NoToken
<1> QED
  BY <1>2, <1>3, <1>4

LEMMA ChargesHaveNamesNext ==
  ASSUME InductiveInvariant', OperationsInv', NEW b \in Buffers
  PROVE  /\ \A tok \in Tokens : Charges(b, tok)' <=> ChargeOf(b)'.token = tok
         /\ ChargeOf(b)'.token \in 0 .. MaxToken
         /\ ChargeOf(b)' = IF ChargeOf(b)'.token = 0 THEN [token |-> 0, bytes |-> 0]
                           ELSE [token |-> ChargeOf(b)'.token, bytes |-> buffer'[b].bytes]
<1>1. ChargesNamed'
  BY ChargesHaveNames, PTL
<1> QED
  BY <1>1 DEF ChargesNamed, ChargeNamed, Tokens

\* What the ledger sees of a reservation that keeps its charge.
LEMMA KeptCharge ==
  ASSUME InductiveInvariant, OperationsInv, InductiveInvariant', OperationsInv',
         NEW b \in Buffers, KeepsCharge(b)
  PROVE  ChargeOf(b)' = ChargeOf(b)
<1>1. ChargeNamed(b)
  BY ChargesHaveNames DEF ChargesNamed
<1>2. \A tok \in Tokens : ChargeOf(b)'.token = tok <=> ChargeOf(b).token = tok
  BY <1>1, ChargesHaveNamesNext DEF ChargeNamed, KeepsCharge
<1>3. ChargeOf(b)'.token = ChargeOf(b).token
  BY <1>1, <1>2, ChargesHaveNamesNext DEF ChargeNamed, Tokens
<1>4. CASE ChargeOf(b).token = 0
  BY <1>1, <1>3, <1>4, ChargesHaveNamesNext DEF ChargeNamed
<1>5. CASE ChargeOf(b).token # 0
  <2>1. ChargeOf(b).token \in Tokens
    BY <1>1, <1>5 DEF ChargeNamed, Tokens
  <2>2. buffer'[b].bytes = buffer[b].bytes
    BY <1>1, <2>1 DEF ChargeNamed, KeepsCharge
  <2> QED
    BY <1>1, <1>3, <1>5, <2>2, ChargesHaveNamesNext DEF ChargeNamed
<1> QED
  BY <1>4, <1>5

\* The bytes that the ledger adds up are those of the implementation.
LEMMA LedgerBytes ==
  ASSUME InductiveInvariant, OperationsInv, NEW p \in Tokens
  PROVE  Ledger!LiveBytes(p) = Cardinality(ChargedBytes(p))
<1>1. ASSUME NEW x \in Buffers \X (1 .. MaxSize)
      PROVE  x \in Ledger!ChargedTo(p) <=> x \in ChargedBytes(p)
  <2>1. ChargeNamed(x[1]) /\ x[1] \in Buffers /\ p # 0
    BY ChargesHaveNames DEF ChargesNamed, Tokens
  <2>2. x \in Ledger!ChargedTo(p) <=>
          ChargeOf(x[1]).token = p /\ x[2] <= ChargeOf(x[1]).bytes
    BY <2>1 DEF Ledger!ChargedTo
  <2>3. Charges(x[1], p) <=> ChargeOf(x[1]).token = p
    BY <2>1 DEF ChargeNamed
  <2>4. ChargeOf(x[1]).token = p => ChargeOf(x[1]).bytes = buffer[x[1]].bytes
    BY <2>1 DEF ChargeNamed
  <2> QED
    BY <2>2, <2>3, <2>4, ChargedByte
<1>2. Ledger!ChargedTo(p) = ChargedBytes(p)
  <2>1. Ledger!ChargedTo(p) \subseteq Buffers \X (1 .. MaxSize)
    BY DEF Ledger!ChargedTo
  <2>2. ChargedBytes(p) \subseteq Buffers \X (1 .. MaxSize)
    BY DEF ChargedBytes
  <2> QED
    BY <1>1, <2>1, <2>2
<1> QED
  BY <1>2, Zenon DEF Ledger!LiveBytes, Ledger!Cardinality, Cardinality

-----------------------------------------------------------------------------
(***************************************************************************)
(* Contexts that are not registered.                                       *)
(***************************************************************************)

\* A context that is still to be made has charged nothing and drawn nothing.
UnissuedInv ==
  next_resource_token # NoToken =>
    \A tok \in Tokens : next_resource_token <= tok => shared[tok] = FailedRecord

CopiesRegistered == \A g \in Frames : syncing[g] => pin[g] \in registry

LEMMA CopiesOfRegistered == InductiveInvariant /\ WorkingCopyInv => CopiesRegistered
  BY BodyTypes DEF CopiesRegistered, WorkingCopyInv, WorkingCopyOK

LEMMA UnregisteredShared ==
  ASSUME InductiveInvariant, NEW f \in Frames, Begin(f) \/ Step(f),
         NEW tok \in Tokens, tok \notin registry
  PROVE  \/ shared'[tok] = shared[tok]
         \/ tok = next_resource_token /\ \E c \in Configurations : MakeContext(f, c)
<1>1. TypeOK
  BY DEF InductiveInvariant
<1>2. ASSUME NEW r, FinishSync(f, r), pc[f] \in Holding
      PROVE  shared'[tok] = shared[tok]
  <2>1. tok # pin[f]
    BY <1>2, BodyTypes
  <2> QED
    BY <1>1, <1>2, <2>1 DEF FinishSync, TypeOK
<1>3. ASSUME NEW c \in Configurations, MakeContext(f, c)
      PROVE  tok = next_resource_token \/ shared'[tok] = shared[tok]
  BY <1>1, <1>3 DEF MakeContext, TypeOK
<1>4. ASSUME SetObserverBody(f) \/ UpdateBody(f) \/ \E b \in Buffers : RefundBody(f, b)
      PROVE  shared'[tok] = shared[tok]
  <2>1. pc[f] \in Holding
    BY <1>4 DEF SetObserverBody, UpdateBody, RefundBody, Holding
  <2>2. tok # pin[f]
    BY <2>1, BodyTypes
  <2> QED
    BY <1>1, <1>4, <2>2 DEF SetObserverBody, UpdateBody, RefundBody, TypeOK
<1>5. ASSUME NEW b \in Buffers,
             \/ AllocationSucceeds(f, b) \/ ReleaseBody(f, b) \/ AggregateConsume(f, b)
             \/ AggregateDrop(f, b)
      PROVE  shared'[tok] = shared[tok]
  <2>1. UNCHANGED shared \/ \E r : FinishSync(f, r)
    BY <1>5, Zenon DEF AllocationSucceeds, ReleaseBody, AggregateConsume, AggregateDrop
  <2>2. pc[f] \in Holding
    BY <1>5 DEF AllocationSucceeds, ReleaseBody, AggregateConsume, AggregateDrop, Holding
  <2> QED
    BY <1>2, <2>1, <2>2
<1>6. Leave(f) => shared'[tok] = shared[tok]
  BY <1>2 DEF Leave, Holding
<1>7. CASE Step(f)
  <2>1. \/ UNCHANGED shared
        \/ SetObserverBody(f) \/ UpdateBody(f) \/ Leave(f)
        \/ \E b \in Buffers : \/ AllocationSucceeds(f, b) \/ ReleaseBody(f, b)
                              \/ AggregateConsume(f, b) \/ AggregateDrop(f, b)
                              \/ RefundBody(f, b)
    BY <1>7 DEF Step, Lock, Unpin, EndCallback, ReleaseContextBody, RefreshBody,
       ChargeWithoutStorage, AllocationFails, ReleaseWorkspaceBody, AggregateReset, Consume,
       RefundPin, DropOwner, FreeStorage
  <2> QED
    BY <1>4, <1>5, <1>6, <2>1
<1>8. CASE Begin(f)
  BY <1>3, <1>8 DEF Begin, ReleaseContext, BeginSnapshotCall, BeginUpdate, BeginCharge,
                    BeginRelease, BeginCleanup
<1> QED
  BY <1>7, <1>8

\* A step disturbs the amounts of the one context it has locked, or makes.
LEMMA OtherAmounts ==
  ASSUME InductiveInvariant, WorkingCopyInv, InductiveInvariant', WorkingCopyInv',
         NEW f \in Frames, Begin(f) \/ Step(f),
         NEW tok \in Tokens, tok = pin[f] => pc[f] \notin Holding /\ ~Lock(f),
         ~(tok = next_resource_token /\ \E c \in Configurations : MakeContext(f, c))
  PROVE  SameAmounts(tok)
<1>1. CASE tok \in registry
  BY <1>1, CountersElsewhere DEF SameAmounts
<1>2. CASE tok \notin registry
  <2>1. TypeOK
    BY DEF InductiveInvariant
  <2>2. tok \notin registry'
    BY <1>2, <2>1, RegistryShrinks
  <2>3. CopiesRegistered
    BY CopiesOfRegistered
  <2>4. CopiesRegistered'
    BY CopiesOfRegistered, PTL
  <2>5. Counters(tok) = shared[tok]
    BY <1>2, <2>3, ClosedCounters DEF CopiesRegistered
  <2>6. Counters(tok)' = shared'[tok]
    BY <2>2, <2>4, ClosedCounters DEF CopiesRegistered
  <2> QED
    BY <1>2, <2>5, <2>6, UnregisteredShared DEF SameAmounts
<1> QED
  BY <1>1, <1>2

LEMMA UnissuedKept ==
  ASSUME InductiveInvariant, UnissuedInv, NEW f \in Frames, Begin(f) \/ Step(f)
  PROVE  UnissuedInv'
<1>1. next_resource_token \in 0 .. MaxToken /\ TokensInv
  BY DEF InductiveInvariant, TypeOK
<1>2. CASE \E c \in Configurations : MakeContext(f, c)
  <2> SUFFICES ASSUME next_resource_token' # NoToken, NEW tok \in Tokens,
                      next_resource_token' <= tok
               PROVE  shared'[tok] = FailedRecord
    BY DEF UnissuedInv
  <2>1. /\ next_resource_token # NoToken
        /\ next_resource_token' = next_resource_token + 1
    BY <1>2 DEF MakeContext, NextToken
  <2>2. tok > next_resource_token
    BY <1>1, <2>1 DEF Tokens
  <2>3. tok \notin registry /\ shared[tok] = FailedRecord
    BY <1>1, <2>1, <2>2 DEF TokensInv, UnissuedInv, Tokens
  <2> QED
    BY <1>1, <2>2, <2>3, UnregisteredShared DEF Tokens
<1>3. CASE ~\E c \in Configurations : MakeContext(f, c)
  <2>1. UNCHANGED next_resource_token
    BY <1>3 DEF Begin, ReleaseContext, BeginSnapshotCall, BeginUpdate, BeginCharge,
       BeginRelease, BeginCleanup, registryVars, Step, Lock, Leave, Unpin, EndCallback,
       ReleaseContextBody, RefreshBody, SetObserverBody, UpdateBody, ChargeWithoutStorage,
       AllocationFails, AllocationSucceeds, ReleaseBody, ReleaseWorkspaceBody,
       AggregateConsume, AggregateDrop, AggregateReset, Consume, RefundPin, RefundBody,
       DropOwner, FreeStorage
  <2> SUFFICES ASSUME next_resource_token # NoToken, NEW tok \in Tokens,
                      next_resource_token <= tok
               PROVE  shared'[tok] = FailedRecord
    BY <2>1 DEF UnissuedInv
  <2>2. tok \notin registry /\ shared[tok] = FailedRecord
    BY <1>1 DEF TokensInv, UnissuedInv, Tokens
  <2> QED
    BY <1>3, <2>2, UnregisteredShared
<1> QED
  BY <1>2, <1>3

LEMMA UnissuedInvariance == Spec => []UnissuedInv
<1>1. Init => UnissuedInv
  BY DEF Init, UnissuedInv
<1>2. InductiveInvariant /\ UnissuedInv /\ [Next]_vars => UnissuedInv'
  <2> SUFFICES ASSUME InductiveInvariant, UnissuedInv, [Next]_vars PROVE UnissuedInv'
    OBVIOUS
  <2>1. ASSUME NEW t \in Threads, NEW u \in Threads, CopyRecord(t, u)
        PROVE  UnissuedInv'
    BY <2>1 DEF CopyRecord, registryVars, UnissuedInv
  <2>2. ASSUME UNCHANGED vars
        PROVE  UnissuedInv'
    BY <2>2 DEF vars, registryVars, UnissuedInv
  <2> QED
    BY <2>1, <2>2, UnissuedKept DEF Next
<1> QED
  BY <1>1, <1>2, Invariance, PTL DEF Spec

-----------------------------------------------------------------------------
(***************************************************************************)
(* Each step is an operation of the ledger, or none.                       *)
(***************************************************************************)

\* What the refinement rests on.
LedgerInv ==
  /\ InductiveInvariant /\ WorkingCopyInv /\ OperationsInv /\ SnapshotInv
  /\ LiveBytesExact /\ UnissuedInv

LedgerStep == Ledger!Next \/ UNCHANGED Ledger!vars

\* What a step under the mutex of p leaves alone.
LEMMA LockedLeaves ==
  ASSUME LedgerInv, LedgerInv', NEW f \in Frames, Step(f), pc[f] \in Holding \/ Lock(f)
  PROVE  /\ SameTokens
         /\ ~UpdateBody(f) => SamePolicies
         /\ \A tok \in Tokens : tok # pin[f] => SameAmounts(tok)
         /\ \A tok : tok = pin[f] => Counters(tok) = View(f) /\ Counters(tok)' = View(f)'
<1>1. SameTokens
  BY DEF SameTokens, Step, Lock, Leave, Unpin, EndCallback,
       ReleaseContextBody, RefreshBody, SetObserverBody, UpdateBody, ChargeWithoutStorage,
       AllocationFails, AllocationSucceeds, ReleaseBody, ReleaseWorkspaceBody,
       AggregateConsume, AggregateDrop, AggregateReset, Consume, RefundPin, RefundBody,
       DropOwner, FreeStorage, registryVars
<1>2. ~UpdateBody(f) => SamePolicies
  BY StepConfig DEF LedgerInv, SamePolicies, SameConfig
<1>3. ASSUME NEW tok \in Tokens, tok # pin[f]
      PROVE  SameAmounts(tok)
  <2>1. ~\E c \in Configurations : MakeContext(f, c)
    BY DEF MakeContext, MayCall, Holding, Lock
  <2> QED
    BY <1>3, <2>1, OtherAmounts DEF LedgerInv
<1>4. ASSUME NEW tok, tok = pin[f]
      PROVE  Counters(tok) = View(f) /\ Counters(tok)' = View(f)'
  <2>1. Counters(pin[f]) = View(f) /\ Counters(pin[f])' = View(f)' /\ UNCHANGED pin
    BY CountersHere, CopyOpened DEF LedgerInv, InductiveInvariant
  <2> QED
    BY <1>4, <2>1 DEF Counters
<1> QED
  BY <1>1, <1>2, <1>3, <1>4

LEMMA QuietCharges ==
  ASSUME LedgerInv, LedgerInv', NEW f \in Frames, Begin(f) \/ Step(f),
         \A c \in Buffers : ~(\/ AllocationSucceeds(f, c) \/ ReleaseBody(f, c)
                              \/ ReleaseWorkspaceBody(f, c) \/ AggregateConsume(f, c)
                              \/ RefundBody(f, c))
  PROVE  SameCharges
  BY QuietSteps, KeptCharge DEF LedgerInv, SameCharges

\* The context that a frame has locked.
LEMMA LockedContext ==
  ASSUME LedgerInv, NEW f \in Frames, pc[f] \in Holding
  PROVE  /\ pin[f] \in Tokens /\ Issued(pin[f])
         /\ View(f) \in EvaluationResourceState
         /\ View(f).config = shared[pin[f]].config
         /\ View(f).live = Ledger!LiveBytes(pin[f])
<1>1. pin[f] \in registry /\ View(f) \in EvaluationResourceState
  BY BodyTypes, ViewType DEF LedgerInv
<1>2. pin[f] \in Tokens /\ Issued(pin[f])
  BY <1>1, RegisteredIssued DEF LedgerInv
<1>3. View(f).config = shared[pin[f]].config
  BY DEF View, LedgerInv, WorkingCopyInv, WorkingCopyOK
<1>4. Counters(pin[f]) = View(f)
  <2>1. CASE syncing[f]
    <3>1. \A g \in Frames : syncing[g] /\ pin[g] = pin[f] => g = f
      BY OneCopy DEF LedgerInv
    <3> QED
      BY <2>1, <3>1, OpenCounters DEF View
  <2>2. CASE ~syncing[f]
    <3>1. \A g \in Frames : ~(syncing[g] /\ pin[g] = pin[f])
      BY <2>2, OneCopy DEF LedgerInv
    <3> QED
      BY <2>2, <3>1, ClosedCounters DEF View
  <2> QED
    BY <2>1, <2>2
<1>5. View(f).live = Ledger!LiveBytes(pin[f])
  BY <1>1, <1>2, <1>4, LedgerBytes DEF LedgerInv, LiveBytesExact
<1> QED
  BY <1>1, <1>2, <1>3, <1>5

\* What the tests before an admission say of the ledger.
LEMMA AdmissionAllowed ==
  ASSUME NEW v \in EvaluationResourceState, NEW c, Admissible(v, c),
         c.bytes \in Nat, c.work \in Nat
  PROVE  /\ c.bytes \in 0 .. MaxSize /\ c.work \in 0 .. MaxSize
         /\ Ledger!Allowed(v.live + c.bytes, v.config.max_live_evaluation_bytes)
         /\ Ledger!Allowed(v.work + c.work, v.config.max_work_units)
  BY BoundsAssumption DEF Admissible, Preflight, Within, Ledger!Allowed, EvaluationResourceState

LEMMA AllocationAdmits ==
  ASSUME LedgerInv, LedgerInv', NEW f \in Frames, Step(f), NEW b \in Buffers,
         AllocationSucceeds(f, b)
  PROVE  Ledger!Next
<1> USE DEF LedgerInv
<1>1. pc[f] = "work" /\ pc[f] \in Holding /\ ~UpdateBody(f) /\ call[f].bytes # 0
  BY DEF AllocationSucceeds, Holding, UpdateBody, AllocationCalls
<1>2. PICK p \in Tokens : p = pin[f]
  BY <1>1, LockedContext
<1> DEFINE bytes == call[f].bytes
           units == call[f].work
<1>3. bytes \in Nat /\ units \in Nat
  BY <1>1, BodyTypes
<1>4. /\ bytes \in 1 .. MaxSize /\ units \in 0 .. MaxSize
      /\ Ledger!Allowed(View(f).live + bytes, View(f).config.max_live_evaluation_bytes)
      /\ Ledger!Allowed(View(f).work + units, View(f).config.max_work_units)
  <2>1. Admissible(View(f), call[f])
    BY ReservationSeen
  <2> QED
    BY <1>1, <1>3, <2>1, LockedContext, AdmissionAllowed
<1>5. /\ SameTokens /\ SamePolicies /\ \A tok \in Tokens : tok # p => SameAmounts(tok)
      /\ Counters(p) = View(f) /\ Counters(p)' = View(f)'
  BY <1>1, <1>2, LockedLeaves
<1>6. View(f)'.work = View(f).work + units /\ View(f)'.ordinal = View(f).ordinal + 1
  BY ReservationSeen DEF Sees
<1>7. /\ \A c \in Buffers : c # b => ChargeOf(c)' = ChargeOf(c)
      /\ \A tok \in Tokens : ~Charges(b, tok) /\ (Charges(b, tok)' <=> tok = p)
      /\ buffer'[b].bytes = bytes
  BY <1>2, ReservationCharges, KeptCharge
<1>8. ChargeOf(b) = [token |-> 0, bytes |-> 0]
  BY <1>7, ChargesHaveNames DEF ChargesNamed, ChargeNamed, Tokens
<1>9. ChargeOf(b)' = [token |-> p, bytes |-> bytes]
  BY <1>2, <1>7, ChargesHaveNamesNext DEF Tokens
<1>10. Ledger!Admit(p, b, bytes, units)
  <2>1. /\ Issued(p) /\ View(f).config = shared[p].config
        /\ View(f).live = Ledger!LiveBytes(p)
    BY <1>1, <1>2, LockedContext
  <2> HIDE DEF bytes, units, LedgerInv
  <2> QED
    BY <1>2, <1>4, <1>5, <1>6, <1>7, <1>8, <1>9, <2>1, LedgerAdmits
<1> QED
  BY <1>4, <1>10 DEF Ledger!Next

LEMMA FailureDraws ==
  ASSUME LedgerInv, LedgerInv', NEW f \in Frames, Step(f), AllocationFails(f), SameCharges
  PROVE  Ledger!Next
<1>1. /\ pc[f] = "work" /\ pc[f] \in Holding /\ ~UpdateBody(f)
  BY DEF AllocationFails, Holding, UpdateBody, AllocationCalls
<1>2. PICK p \in Tokens : p = pin[f]
  BY <1>1, LockedContext
<1>3. /\ SameTokens /\ SamePolicies /\ \A tok \in Tokens : tok # p => SameAmounts(tok)
      /\ Counters(p) = View(f) /\ Counters(p)' = View(f)'
  BY <1>1, <1>2, LockedLeaves
<1>4. View(f)'.work = View(f).work /\ View(f)'.ordinal = View(f).ordinal + 1
  <2>1. View(f) \in EvaluationResourceState
    BY <1>1, LockedContext
  <2> QED
    BY <2>1, FailureSeen DEF LedgerInv, Sees, EvaluationResourceState
<1>5. Ledger!Fail(p)
  BY <1>1, <1>2, <1>3, <1>4, LockedContext, LedgerFails
<1> QED
  BY <1>5 DEF Ledger!Next

LEMMA WorkSpends ==
  ASSUME LedgerInv, LedgerInv', NEW f \in Frames, Step(f), ChargeWithoutStorage(f),
         SameCharges
  PROVE  LedgerStep
<1>1. pc[f] = "work" /\ pc[f] \in Holding /\ ~UpdateBody(f)
  BY DEF ChargeWithoutStorage, Holding, UpdateBody, AllocationCalls
<1>2. PICK p \in Tokens : p = pin[f]
  BY <1>1, LockedContext
<1>3. /\ SameTokens /\ SamePolicies /\ \A tok \in Tokens : tok # p => SameAmounts(tok)
      /\ Counters(p) = View(f) /\ Counters(p)' = View(f)'
  BY <1>1, <1>2, LockedLeaves
<1>4. /\ View(f) \in EvaluationResourceState /\ Issued(p)
      /\ View(f).config = shared[p].config
      /\ call[f].bytes \in Nat /\ call[f].work \in Nat
  BY <1>1, <1>2, LockedContext, BodyTypes DEF LedgerInv
<1>5. CASE Sees(f, View(f))
  <2>1. \A tok \in Tokens : SameAmounts(tok)
    BY <1>3, <1>5 DEF Sees, SameAmounts
  <2> QED
    BY <1>3, <2>1, LedgerStutters DEF LedgerStep
<1>6. CASE Admissible(View(f), call[f]) /\ Sees(f, Commit(View(f), 0, call[f].work))
  <2> DEFINE units == call[f].work
  <2>1. /\ Counters(p)'.work = Counters(p).work + units
        /\ Counters(p)'.ordinal = Counters(p).ordinal
    BY <1>3, <1>4, <1>6 DEF Sees, Commit, EvaluationResourceState
  <2>2. /\ units \in 0 .. MaxSize
        /\ Ledger!Allowed(Counters(p).work + units, shared[p].config.max_work_units)
    BY <1>3, <1>4, <1>6, AdmissionAllowed
  <2>3. CASE units = 0
    <3>1. Counters(p).work \in Nat
      BY <1>3, <1>4 DEF EvaluationResourceState
    <3>2. SameAmounts(p)
      BY <2>1, <2>3, <3>1 DEF SameAmounts
    <3>3. \A tok \in Tokens : SameAmounts(tok)
      BY <1>3, <3>2
    <3> QED
      BY <1>3, <3>3, LedgerStutters DEF LedgerStep
  <2>4. CASE units # 0
    <3>1. units \in 1 .. MaxSize
      BY <2>2, <2>4, BoundsAssumption
    <3> HIDE DEF units
    <3>2. Ledger!Spend(p, units)
      BY <1>3, <1>4, <2>1, <2>2, LedgerSpends
    <3> QED
      BY <3>1, <3>2 DEF LedgerStep, Ledger!Next
  <2> QED
    BY <2>3, <2>4
<1> QED
  BY <1>5, <1>6, ChargeSeen DEF LedgerInv

\* A release through a context, or the refund of a cleanup.
LEMMA ReleaseRefunds ==
  ASSUME LedgerInv, LedgerInv', NEW f \in Frames, Step(f), NEW b \in Buffers,
         \/ ReleaseBody(f, b) \/ ReleaseWorkspaceBody(f, b) \/ AggregateConsume(f, b)
         \/ RefundBody(f, b)
  PROVE  LedgerStep
<1>1. /\ pc[f] = "work" /\ pc[f] \in Holding /\ ~UpdateBody(f)
  BY DEF ReleaseBody, ReleaseWorkspaceBody, AggregateConsume, RefundBody, Holding, UpdateBody,
         AggregateCalls, CleanupCalls
<1>2. PICK p \in Tokens : p = pin[f]
  BY <1>1, LockedContext
<1>3. /\ SameTokens /\ SamePolicies /\ \A tok \in Tokens : tok # p => SameAmounts(tok)
      /\ Counters(p) = View(f) /\ Counters(p)' = View(f)'
  BY <1>1, <1>2, LockedLeaves
<1>4. \A tok \in Tokens : SameAmounts(tok)
  <2>1. View(f) \in EvaluationResourceState /\ buffer[b].bytes \in Nat
    BY <1>1, LockedContext DEF LedgerInv, InductiveInvariant, TypeOK, Buffer
  <2>2. View(f)'.work = View(f).work /\ View(f)'.ordinal = View(f).ordinal
    BY <2>1, ReleaseSeen, RefundSeen, RefundedType DEF Sees, LedgerInv
  <2> QED
    BY <1>3, <2>2 DEF SameAmounts
<1>5. CASE \A c \in Buffers : KeepsCharge(c)
  <2>1. SameCharges
    BY <1>5, KeptCharge DEF LedgerInv, SameCharges
  <2> QED
    BY <1>3, <1>4, <2>1, LedgerStutters DEF LedgerStep
<1>6. CASE GivesBack(f, b)
  <2>1. \A c \in Buffers : c # b => ChargeOf(c)' = ChargeOf(c)
    BY <1>6, KeptCharge DEF LedgerInv, GivesBack
  <2>2. ChargeOf(b).token # 0
    <3>1. Charges(b, p) /\ ChargeNamed(b) /\ p # 0
      BY <1>2, <1>6, ChargesHaveNames DEF LedgerInv, GivesBack, ChargesNamed, Tokens
    <3> QED
      BY <3>1 DEF ChargeNamed
  <2>3. ChargeOf(b)' = [token |-> 0, bytes |-> 0]
    BY <1>6, ChargesHaveNamesNext DEF LedgerInv, GivesBack, Tokens
  <2>4. Ledger!Refund(b)
    BY <1>3, <1>4, <2>1, <2>2, <2>3, LedgerRefunds
  <2> QED
    BY <2>4 DEF LedgerStep, Ledger!Next
<1> QED
  BY <1>5, <1>6, ReleaseGivesBack, RefundGivesBack DEF LedgerInv

\* A publication changes one field of the policy.
LEMMA PublicationConfigures ==
  ASSUME Depth = 1, LedgerInv, LedgerInv', NEW f \in Frames, Step(f), UpdateBody(f), SameCharges
  PROVE  LedgerStep
<1>1. pc[f] = "work" /\ pc[f] \in Holding
  BY DEF UpdateBody, Holding
<1>2. PICK p \in Tokens : p = pin[f]
  BY <1>1, LockedContext
<1>3. /\ SameTokens /\ \A tok \in Tokens : tok # p => SameAmounts(tok)
      /\ Counters(p) = View(f) /\ Counters(p)' = View(f)'
  BY <1>1, <1>2, LockedLeaves
<1>4. \A tok \in Tokens : SameAmounts(tok)
  <2>1. Sees(f, View(f))
    BY NothingCharged DEF LedgerInv
  <2> QED
    BY <1>3, <2>1 DEF Sees, SameAmounts
<1>5. ~\E c \in Configurations : MakeContext(f, c)
  BY <1>1 DEF MakeContext, MayCall
<1>6. \A tok \in Tokens : tok # p => shared'[tok].config = shared[tok].config
  BY <1>2, <1>5, SharedConfig DEF LedgerInv, SameConfig
<1>7. CASE shared'[p].config = shared[p].config
  <2>1. SamePolicies
    BY <1>6, <1>7 DEF SamePolicies
  <2> QED
    BY <1>3, <1>4, <2>1, LedgerStutters DEF LedgerStep
<1>8. CASE shared'[p].config # shared[p].config
  <2>1. Published(shared[p], shared'[p], record[Thread(f)])
    BY <1>2, <1>5, <1>8, SharedConfig DEF LedgerInv, SameConfig
  <2>2. Edited(shared[p].config, shared'[p].config)
    BY <1>2, <1>8, <2>1, PublishesOneEdit DEF LedgerInv
  <2>3. PICK e \in Edits : shared'[p].config = [shared[p].config EXCEPT ![e.field] = e.value]
    BY <2>2 DEF Edited
  <2>4. Ledger!Configure(p, e)
    BY <1>1, <1>2, <1>3, <1>4, <1>6, <2>3, LockedContext, LedgerConfigures
  <2> QED
    BY <2>4 DEF LedgerStep, Ledger!Next
<1> QED
  BY <1>7, <1>8

LEMMA LockedRefines ==
  ASSUME Depth = 1, LedgerInv, LedgerInv', NEW f \in Frames, Step(f),
         pc[f] \in Holding \/ Lock(f)
  PROVE  LedgerStep
<1>1. CASE \E c \in Buffers : \/ AllocationSucceeds(f, c) \/ ReleaseBody(f, c)
                              \/ ReleaseWorkspaceBody(f, c) \/ AggregateConsume(f, c)
                              \/ RefundBody(f, c)
  BY <1>1, AllocationAdmits, ReleaseRefunds DEF LedgerStep
<1>2. CASE \A c \in Buffers : ~(\/ AllocationSucceeds(f, c) \/ ReleaseBody(f, c)
                                \/ ReleaseWorkspaceBody(f, c) \/ AggregateConsume(f, c)
                                \/ RefundBody(f, c))
  <2>1. SameCharges
    BY <1>2, QuietCharges
  <2>2. CASE (\/ Lock(f) \/ Leave(f) \/ ReleaseContextBody(f) \/ RefreshBody(f)
              \/ SetObserverBody(f)
              \/ \E b \in Buffers : AggregateDrop(f, b) \/ AggregateReset(f, b))
             /\ ~UpdateBody(f)
    <3>1. Sees(f, View(f))
      BY <2>2, NothingCharged DEF LedgerInv
    <3>2. \A tok \in Tokens : SameAmounts(tok)
      BY <3>1, LockedLeaves DEF Sees, SameAmounts
    <3> QED
      BY <2>1, <2>2, <3>2, LockedLeaves, LedgerStutters DEF LedgerStep
  <2>3. \/ Lock(f) \/ Leave(f) \/ ReleaseContextBody(f) \/ RefreshBody(f)
        \/ SetObserverBody(f) \/ UpdateBody(f) \/ ChargeWithoutStorage(f) \/ AllocationFails(f)
        \/ \E b \in Buffers : AggregateDrop(f, b) \/ AggregateReset(f, b)
    BY <1>2, LockedSteps DEF LedgerInv, InductiveInvariant
  <2> QED
    BY <2>1, <2>2, <2>3, PublicationConfigures, WorkSpends, FailureDraws DEF LedgerStep
<1> QED
  BY <1>1, <1>2

-----------------------------------------------------------------------------
(***************************************************************************)
(* The steps outside every transaction.                                    *)
(***************************************************************************)
LEMMA LedgerOpens ==
  ASSUME NEW p \in Tokens, next_resource_token = p, next_resource_token' = NextToken(p),
         context_active' = context_active \cup {p}, SameCharges,
         \A tok \in Tokens : SameAmounts(tok),
         \A tok \in Tokens : tok # p => shared'[tok].config = shared[tok].config,
         NEW c \in Configurations, shared'[p].config = c
  PROVE  Ledger!Open(p)
<1>1. /\ p = (IF next_resource_token = NoToken THEN MaxToken ELSE next_resource_token - 1) + 1
      /\ (IF next_resource_token = NoToken THEN MaxToken ELSE next_resource_token - 1)' = p
  BY BoundsAssumption DEF Tokens, NoToken, NextToken
<1>2. [tok \in Tokens |-> shared[tok].config]'
        = [[tok \in Tokens |-> shared[tok].config] EXCEPT ![p] = c]
  OBVIOUS
<1>3. UNCHANGED <<[tok \in Tokens |-> Counters(tok).work], [b \in Buffers |-> ChargeOf(b)],
                  [tok \in Tokens |-> Counters(tok).ordinal]>>
  BY DEF SameCharges, SameAmounts
<1> QED
  BY <1>1, <1>2, <1>3 DEF Ledger!Open

LEMMA LedgerCloses ==
  ASSUME NEW p \in context_active, UNCHANGED next_resource_token,
         context_active' = context_active \ {p}, SameCharges, SamePolicies,
         \A tok \in Tokens : SameAmounts(tok)
  PROVE  Ledger!Close(p)
<1>1. UNCHANGED <<[tok \in Tokens |-> Counters(tok).work], [b \in Buffers |-> ChargeOf(b)],
                  [tok \in Tokens |-> Counters(tok).ordinal],
                  [tok \in Tokens |-> shared[tok].config]>>
  BY DEF SameCharges, SameAmounts, SamePolicies
<1>2. UNCHANGED (IF next_resource_token = NoToken THEN MaxToken ELSE next_resource_token - 1)
  OBVIOUS
<1> QED
  BY <1>1, <1>2 DEF Ledger!Close

LEMMA MakeOpens ==
  ASSUME LedgerInv, LedgerInv', NEW f \in Frames, Begin(f),
         NEW c \in Configurations, MakeContext(f, c), SameCharges
  PROVE  LedgerStep
<1>1. TypeOK /\ TokensInv /\ UnissuedInv
  BY DEF LedgerInv, InductiveInvariant
<1>2. /\ next_resource_token \in 0 .. MaxToken /\ next_resource_token # NoToken
      /\ next_resource_token' = NextToken(next_resource_token)
      /\ context_active' = context_active \cup {next_resource_token}
      /\ UNCHANGED <<syncing, pin>>
      /\ \E s : /\ s.config = c /\ s.work = 0 /\ s.ordinal = 0
                /\ shared' = [shared EXCEPT ![next_resource_token] = s]
  BY <1>1 DEF MakeContext, frameVars, TypeOK
<1>3. PICK p \in Tokens : p = next_resource_token
  BY <1>2, BoundsAssumption DEF Tokens, NoToken
<1>4. p \notin registry /\ shared[p] = FailedRecord
  BY <1>1, <1>2, <1>3 DEF TokensInv, UnissuedInv, Tokens
<1>5. /\ shared'[p].config = c /\ shared'[p].work = 0 /\ shared'[p].ordinal = 0
      /\ \A tok \in Tokens : tok # p => shared'[tok] = shared[tok]
  BY <1>1, <1>2, <1>3 DEF TypeOK
<1>6. SameAmounts(p)
  <2>1. \A g \in Frames : ~(syncing[g] /\ pin[g] = p)
    BY <1>4, CopiesOfRegistered DEF LedgerInv, CopiesRegistered
  <2>2. Counters(p) = shared[p] /\ Counters(p)' = shared'[p]
    BY <1>2, <2>1, ClosedCounters
  <2> QED
    BY <1>4, <1>5, <2>2 DEF SameAmounts, FailedRecord
<1>7. \A tok \in Tokens : tok # p => SameAmounts(tok)
  <2>1. pc[f] \notin Holding /\ ~Lock(f)
    BY DEF MakeContext, MayCall, Holding, Lock
  <2> QED
    BY <1>3, <2>1, OtherAmounts DEF LedgerInv
<1>8. Ledger!Open(p)
  BY <1>2, <1>3, <1>5, <1>6, <1>7, LedgerOpens
<1> QED
  BY <1>8 DEF LedgerStep, Ledger!Next

LEMMA UnlockedRefines ==
  ASSUME LedgerInv, LedgerInv', NEW f \in Frames, Begin(f) \/ Step(f),
         ~(pc[f] \in Holding \/ Lock(f))
  PROVE  LedgerStep
<1>1. SameCharges
  <2>1. \A c \in Buffers : ~(\/ AllocationSucceeds(f, c) \/ ReleaseBody(f, c)
                             \/ ReleaseWorkspaceBody(f, c) \/ AggregateConsume(f, c)
                             \/ RefundBody(f, c))
    BY DEF AllocationSucceeds, ReleaseBody, ReleaseWorkspaceBody, AggregateConsume, RefundBody,
           Holding
  <2> QED
    BY <2>1, QuietCharges
<1>2. CASE \E c \in Configurations : MakeContext(f, c)
  <2>1. Begin(f)
    BY <1>2 DEF Begin
  <2> QED
    BY <1>1, <1>2, <2>1, MakeOpens
<1>3. CASE ~\E c \in Configurations : MakeContext(f, c)
  <2>1. \A tok \in Tokens : SameAmounts(tok)
    BY <1>3, OtherAmounts DEF LedgerInv
  <2>2. ~UpdateBody(f)
    BY DEF UpdateBody, Holding
  <2>3. SamePolicies
    BY <1>3, <2>2, SharedConfig DEF LedgerInv, SamePolicies, SameConfig
  <2>4. \/ SameTokens
        \/ /\ UNCHANGED next_resource_token /\ owner[Thread(f)] \in context_active
           /\ context_active' = context_active \ {owner[Thread(f)]}
    <3>1. ReleaseContext(f) =>
            /\ UNCHANGED next_resource_token
            /\ \/ UNCHANGED context_active
               \/ /\ owner[Thread(f)] \in context_active
                  /\ context_active' = context_active \ {owner[Thread(f)]}
      BY DEF ReleaseContext, Validated
    <3>2. Begin(f) /\ ~ReleaseContext(f) => SameTokens
      BY <1>3 DEF SameTokens, Begin, BeginSnapshotCall, BeginUpdate, BeginCharge, BeginRelease,
                  BeginCleanup, registryVars
    <3>3. Step(f) => SameTokens
      BY DEF SameTokens, Step, Lock, Leave, Unpin, EndCallback,
       ReleaseContextBody, RefreshBody, SetObserverBody, UpdateBody, ChargeWithoutStorage,
       AllocationFails, AllocationSucceeds, ReleaseBody, ReleaseWorkspaceBody,
       AggregateConsume, AggregateDrop, AggregateReset, Consume, RefundPin, RefundBody,
       DropOwner, FreeStorage, registryVars
    <3> QED
      BY <3>1, <3>2, <3>3 DEF SameTokens
  <2>5. CASE SameTokens
    BY <1>1, <2>1, <2>3, <2>5, LedgerStutters DEF LedgerStep
  <2>6. CASE /\ UNCHANGED next_resource_token /\ owner[Thread(f)] \in context_active
             /\ context_active' = context_active \ {owner[Thread(f)]}
    <3>1. PICK p \in context_active : p = owner[Thread(f)]
      BY <2>6
    <3>2. p \in Tokens
      BY DEF LedgerInv, InductiveInvariant, TypeOK
    <3>3. Ledger!Close(p)
      BY <1>1, <2>1, <2>3, <2>6, <3>1, LedgerCloses
    <3> QED
      BY <3>2, <3>3 DEF LedgerStep, Ledger!Next
  <2> QED
    BY <2>4, <2>5, <2>6
<1> QED
  BY <1>2, <1>3

\* A client's copy of a record is nothing to the ledger.
LEMMA CopyStutters ==
  ASSUME LedgerInv, NEW t \in Threads, NEW u \in Threads, CopyRecord(t, u)
  PROVE  UNCHANGED Ledger!vars
<1>1. UNCHANGED <<next_resource_token, context_active, shared, buffer, pc, call, current>>
  BY DEF CopyRecord, registryVars, frameVars
<1>2. \A tok \in Tokens : SameAmounts(tok)
  BY CopyRecordKeepsCounters DEF LedgerInv, SameAmounts
<1>3. SameCharges
  BY <1>1 DEF SameCharges, ChargeOf, Refunding
<1> QED
  BY <1>1, <1>2, <1>3, LedgerStutters DEF SameTokens, SamePolicies

\* The locked and pinned contexts implement the atomic ledger, while
\* observers make no calls: every admission (allocate_vector,
\* reserve_tuple_table, reserve_workspace, charge_work) sees the true sum of
\* the outstanding charges and the policy of that moment, every charge is
\* refunded once and to its own context, and the aliases, pins, working
\* copies and cleanups in between are invisible.
THEOREM LedgerImplemented ==
  ASSUME Depth = 1
  PROVE  Spec => ImplementsLedger
<1>1. Init => Ledger!Init
  <2> SUFFICES ASSUME Init PROVE Ledger!Init
    OBVIOUS
  <2>1. next_resource_token = 1 /\ context_active = {}
    BY DEF Init
  <2>2. \A b \in Buffers : ChargeOf(b) = [token |-> 0, bytes |-> 0]
    BY DEF Init, ChargeOf, Refunding, FreeBuffer, NoCall, NewCall, NoToken
  <2>3. \A tok \in Tokens : Counters(tok) = FailedRecord /\ shared[tok] = FailedRecord
    BY DEF Init, Counters
  <2> QED
    BY <2>1, <2>2, <2>3 DEF Ledger!Init, Ledger!NoCharge, FailedRecord, NoToken
<1>2. LedgerInv /\ LedgerInv' /\ [Next]_vars => [Ledger!Next]_(Ledger!vars)
  <2> SUFFICES ASSUME LedgerInv, LedgerInv', [Next]_vars PROVE LedgerStep
    BY DEF LedgerStep
  <2>1. ASSUME NEW f \in Frames, Begin(f) \/ Step(f)
        PROVE  LedgerStep
    <3>1. pc[f] \in Holding \/ Lock(f) => Step(f)
      BY <2>1 DEF Step, Begin, MakeContext, ReleaseContext, BeginSnapshotCall, BeginUpdate,
                  BeginCharge, BeginRelease, BeginCleanup, MayCall, Holding
    <3> QED
      BY <2>1, <3>1, LockedRefines, UnlockedRefines
  <2>2. CASE UNCHANGED vars
    <3>1. UNCHANGED <<next_resource_token, context_active, shared, buffer, pc, call, current>>
      BY <2>2 DEF vars, registryVars, frameVars
    <3>2. \A tok \in Tokens : SameAmounts(tok)
      BY <2>2 DEF vars, registryVars, frameVars, SameAmounts, Counters
    <3>3. SameCharges
      BY <3>1 DEF SameCharges, ChargeOf, Refunding
    <3> QED
      BY <3>1, <3>2, <3>3, LedgerStutters DEF SameTokens, SamePolicies, LedgerStep
  <2> QED
    BY <2>1, <2>2, CopyStutters DEF Next, LedgerStep
<1> QED
  BY <1>1, <1>2, Invariance, WorkingCopiesInOrder, OperationsInvariance, SnapshotsInOrder,
     LiveBytesAreExact, UnissuedInvariance, PTL DEF Spec, ImplementsLedger, Ledger!Spec, LedgerInv
=============================================================================
