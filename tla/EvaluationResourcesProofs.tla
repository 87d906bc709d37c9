--------------------- MODULE EvaluationResourcesProofs ---------------------
(***************************************************************************)
(* Theorems about EvaluationResources for every number of threads,         *)
(* nesting depth, buffers, tokens and bounds.                              *)
(***************************************************************************)
EXTENDS EvaluationResources, FiniteSetTheorems, TLAPS

-----------------------------------------------------------------------------
(***************************************************************************)
(* How the holders of a state change, and the reference count with them.   *)
(***************************************************************************)

\* Membership in Holders, by the kind of holder.
LEMMA HolderKinds ==
  ASSUME NEW tok, NEW h
  PROVE  h \in Holders(tok) <=>
           \/ tok \in context_active /\ h = <<"lease", tok>>
           \/ \E f \in Frames : pin[f] = tok /\ h = <<"pin", f>>
           \/ \E b \in Buffers : buffer[b].owner = tok /\ h = <<"reservation", b>>
  BY DEF Holders

\* A step that moves no lease, pin or owner keeps the count right.
LEMMA SameHolders ==
  ASSUME ReferencesInv, UNCHANGED <<registry, reference_count, context_active, pin>>,
         \A b \in Buffers : buffer'[b].owner = buffer[b].owner
  PROVE  ReferencesInv'
<1>1. \A tok : Holders(tok)' = Holders(tok)
  BY DEF Holders
<1> QED
  BY <1>1 DEF ReferencesInv

\* AcquireReference accounts for one new holder of a registered state.
LEMMA NewHolder ==
  ASSUME ReferencesInv, reference_count \in [Tokens -> Nat],
         NEW tok \in Tokens, NEW h, tok \in registry, h \notin Holders(tok),
         \A k \in Tokens : Holders(k)' = IF k = tok THEN Holders(k) \cup {h} ELSE Holders(k),
         AcquireReference(tok), UNCHANGED registry
  PROVE  ReferencesInv' /\ reference_count' \in [Tokens -> Nat]
<1>1. /\ IsFiniteSet(Holders(tok) \cup {h})
      /\ Cardinality(Holders(tok) \cup {h}) = Cardinality(Holders(tok)) + 1
  <2>1. IsFiniteSet(Holders(tok))
    BY DEF ReferencesInv
  <2> QED
    BY <2>1, FS_AddElement
<1>2. reference_count' \in [Tokens -> Nat]
  BY DEF AcquireReference
<1>3. ASSUME NEW k \in Tokens
      PROVE  /\ IsFiniteSet(Holders(k)')
             /\ reference_count'[k] = Cardinality(Holders(k)')
             /\ k \in registry' <=> Holders(k)' # {}
  <2>1. CASE k = tok
    BY <2>1, <1>1 DEF ReferencesInv, AcquireReference
  <2>2. CASE k # tok
    BY <2>2 DEF ReferencesInv, AcquireReference
  <2> QED
    BY <2>1, <2>2
<1> QED
  BY <1>2, <1>3 DEF ReferencesInv

\* ReleaseReference accounts for one holder that lets go, and destroys the
\* state exactly when it was the last.
LEMMA LostHolder ==
  ASSUME ReferencesInv, reference_count \in [Tokens -> Nat], registry \in SUBSET Tokens,
         NEW tok \in Tokens, NEW h, h \in Holders(tok),
         \A k \in Tokens : Holders(k)' = IF k = tok THEN Holders(k) \ {h} ELSE Holders(k),
         ReleaseReference(tok)
  PROVE  /\ ReferencesInv' /\ reference_count' \in [Tokens -> Nat]
         /\ registry' \in SUBSET registry
<1>1. tok \in registry
  BY DEF ReferencesInv
<1>2. /\ IsFiniteSet(Holders(tok) \ {h})
      /\ Cardinality(Holders(tok) \ {h}) = Cardinality(Holders(tok)) - 1
      /\ Cardinality(Holders(tok)) \in Nat
      /\ Cardinality(Holders(tok) \ {h}) \in Nat
      /\ Cardinality(Holders(tok) \ {h}) = 0 <=> Holders(tok) \ {h} = {}
  <2>1. IsFiniteSet(Holders(tok))
    BY DEF ReferencesInv
  <2> QED
    BY <2>1, FS_RemoveElement, FS_CardinalityType, FS_EmptySet
<1>3. reference_count[tok] = Cardinality(Holders(tok))
  BY DEF ReferencesInv
<1>4. reference_count' = [reference_count EXCEPT ![tok] = reference_count[tok] - 1]
  BY <1>1 DEF ReleaseReference
<1>5. reference_count' \in [Tokens -> Nat]
  BY <1>2, <1>3, <1>4
<1>6. registry' = IF reference_count[tok] = 1 THEN registry \ {tok} ELSE registry
  BY <1>1 DEF ReleaseReference
<1>7. ASSUME NEW k \in Tokens
      PROVE  /\ IsFiniteSet(Holders(k)')
             /\ reference_count'[k] = Cardinality(Holders(k)')
             /\ k \in registry' <=> Holders(k)' # {}
  <2>0. Holders(k)' = IF k = tok THEN Holders(k) \ {h} ELSE Holders(k)
    OBVIOUS
  <2>1. CASE k = tok
    <3>1. Holders(k)' = Holders(tok) \ {h}
      BY <2>0, <2>1
    <3>2. reference_count'[k] = Cardinality(Holders(tok)) - 1
      BY <2>1, <1>3, <1>4
    <3>3. k \in registry' <=> Cardinality(Holders(tok)) # 1
      BY <2>1, <1>1, <1>3, <1>6
    <3> QED
      BY <3>1, <3>2, <3>3, <1>2
  <2>2. CASE k # tok
    BY <2>0, <2>2, <1>4, <1>6 DEF ReferencesInv
  <2> QED
    BY <2>1, <2>2
<1> QED
  BY <1>5, <1>6, <1>7 DEF ReferencesInv

\* An operation pins a registered state.
LEMMA PinTaken ==
  ASSUME ReferencesInv, TypeOK, NEW f \in Frames, NEW tok \in registry,
         pin[f] = NoToken, pin' = [pin EXCEPT ![f] = tok],
         UNCHANGED <<context_active, registry>>,
         \A b \in Buffers : buffer'[b].owner = buffer[b].owner,
         AcquireReference(tok)
  PROVE  ReferencesInv' /\ reference_count' \in [Tokens -> Nat]
<1> DEFINE h == <<"pin", f>>
<1>1. tok \in Tokens /\ NoToken \notin Tokens
  BY DEF TypeOK, Tokens, NoToken
<1>2. h \notin Holders(tok)
  BY <1>1, HolderKinds
<1>3. ASSUME NEW k \in Tokens
      PROVE  Holders(k)' = IF k = tok THEN Holders(k) \cup {h} ELSE Holders(k)
  <2>1. {g \in Frames : pin'[g] = k} =
          IF k = tok THEN {g \in Frames : pin[g] = k} \cup {f}
                     ELSE {g \in Frames : pin[g] = k}
    BY <1>1 DEF TypeOK
  <2> QED
    BY <2>1 DEF Holders
<1> HIDE DEF h
<1> QED
  BY <1>1, <1>2, <1>3, NewHolder DEF TypeOK

\* An operation drops its pin.
LEMMA PinDropped ==
  ASSUME ReferencesInv, TypeOK, NEW f \in Frames, pin[f] \in Tokens,
         pin' = [pin EXCEPT ![f] = NoToken], UNCHANGED context_active,
         \A b \in Buffers : buffer'[b].owner = buffer[b].owner,
         ReleaseReference(pin[f])
  PROVE  /\ ReferencesInv' /\ reference_count' \in [Tokens -> Nat]
         /\ registry' \in SUBSET registry
<1> DEFINE h == <<"pin", f>>
           tok == pin[f]
<1>1. tok \in Tokens /\ NoToken \notin Tokens
  BY DEF Tokens, NoToken
<1>2. h \in Holders(tok)
  BY HolderKinds
<1>3. ASSUME NEW k \in Tokens
      PROVE  Holders(k)' = IF k = tok THEN Holders(k) \ {h} ELSE Holders(k)
  <2>1. {g \in Frames : pin'[g] = k} =
          IF k = tok THEN {g \in Frames : pin[g] = k} \ {f}
                     ELSE {g \in Frames : pin[g] = k}
    BY <1>1 DEF TypeOK
  <2> QED
    BY <2>1 DEF Holders
<1> HIDE DEF h, tok
<1>4. ReleaseReference(tok)
  BY DEF tok
<1> QED
  BY <1>1, <1>2, <1>3, <1>4, LostHolder DEF TypeOK

\* A reservation is bound to a registered state.
LEMMA OwnerTaken ==
  ASSUME ReferencesInv, TypeOK, NEW b \in Buffers, NEW tok \in registry,
         buffer[b].owner = NoToken,
         \A c \in Buffers : buffer'[c].owner = IF c = b THEN tok ELSE buffer[c].owner,
         UNCHANGED <<context_active, registry, pin>>,
         AcquireReference(tok)
  PROVE  ReferencesInv' /\ reference_count' \in [Tokens -> Nat]
<1> DEFINE h == <<"reservation", b>>
<1>1. tok \in Tokens /\ NoToken \notin Tokens
  BY DEF TypeOK, Tokens, NoToken
<1>2. h \notin Holders(tok)
  BY <1>1, HolderKinds
<1>3. ASSUME NEW k \in Tokens
      PROVE  Holders(k)' = IF k = tok THEN Holders(k) \cup {h} ELSE Holders(k)
  <2>1. {c \in Buffers : buffer'[c].owner = k} =
          IF k = tok THEN {c \in Buffers : buffer[c].owner = k} \cup {b}
                     ELSE {c \in Buffers : buffer[c].owner = k}
    BY <1>1
  <2> QED
    BY <2>1 DEF Holders
<1> HIDE DEF h
<1> QED
  BY <1>1, <1>2, <1>3, NewHolder DEF TypeOK

\* release_accounting_owner, for a reservation that names an owner and for
\* one that does not.
LEMMA OwnerDropped ==
  ASSUME ReferencesInv, TypeOK, NEW b \in Buffers,
         \A c \in Buffers : buffer'[c].owner = IF c = b THEN NoToken ELSE buffer[c].owner,
         UNCHANGED <<context_active, pin>>,
         ReleaseReference(buffer[b].owner)
  PROVE  /\ ReferencesInv' /\ reference_count' \in [Tokens -> Nat]
         /\ registry' \in SUBSET registry
<1> DEFINE h == <<"reservation", b>>
           tok == buffer[b].owner
<1>0. tok \in 0 .. MaxToken /\ NoToken \notin Tokens
  BY DEF TypeOK, Buffer, NoToken, Tokens
<1>1. CASE tok = NoToken
  <2>1. UNCHANGED <<registry, reference_count>>
    BY <1>0, <1>1 DEF ReleaseReference, TypeOK
  <2> QED
    BY <2>1, <1>1, SameHolders DEF TypeOK
<1>2. CASE tok # NoToken
  <2>1. tok \in Tokens
    BY <1>0, <1>2, BoundsAssumption DEF Tokens, NoToken
  <2>2. h \in Holders(tok)
    BY HolderKinds
  <2>3. ASSUME NEW k \in Tokens
        PROVE  Holders(k)' = IF k = tok THEN Holders(k) \ {h} ELSE Holders(k)
    <3>1. {c \in Buffers : buffer'[c].owner = k} =
            IF k = tok THEN {c \in Buffers : buffer[c].owner = k} \ {b}
                       ELSE {c \in Buffers : buffer[c].owner = k}
      BY <1>0
    <3> QED
      BY <3>1 DEF Holders
  <2> HIDE DEF h, tok
  <2>4. ReleaseReference(tok)
    BY DEF tok
  <2> QED
    BY <2>1, <2>2, <2>3, <2>4, LostHolder DEF TypeOK
<1> QED
  BY <1>1, <1>2

-----------------------------------------------------------------------------
(***************************************************************************)
(* How a step of one frame carries the parts of the invariant that speak   *)
(* of frames over to the next state.                                       *)
(***************************************************************************)

\* Every working copy is of the type of the shared state it is a copy of.
LEMMA Updates ==
  ASSUME NEW s \in EvaluationResourceState, NEW n \in Nat
  PROVE  /\ [s EXCEPT !.live = n] \in EvaluationResourceState
         /\ [s EXCEPT !.ordinal = n] \in EvaluationResourceState
         /\ [s EXCEPT !.version = n] \in EvaluationResourceState
         /\ \A c \in Configuration : [s EXCEPT !.config = c] \in EvaluationResourceState
         /\ \A o \in BOOLEAN : [s EXCEPT !.observer = o] \in EvaluationResourceState
  BY DEF EvaluationResourceState

\* commit_admission keeps a record a record.
LEMMA CommitType ==
  ASSUME NEW s \in EvaluationResourceState, NEW m \in Nat, NEW n \in Nat
  PROVE  Commit(s, m, n) \in EvaluationResourceState
<1> DEFINE a == [s EXCEPT !.live = s.live + m]
<1>1. a \in EvaluationResourceState /\ s.work + n \in Nat
  BY DEF EvaluationResourceState
<1>2. Commit(s, m, n) = [a EXCEPT !.work = s.work + n]
  BY DEF Commit
<1> HIDE DEF a
<1>3. [a EXCEPT !.work = s.work + n] \in EvaluationResourceState
  BY <1>1 DEF EvaluationResourceState
<1> QED
  BY <1>2, <1>3

\* finish_resource_record_sync keeps a state a state.
LEMMA PublishType ==
  ASSUME NEW s \in EvaluationResourceState, NEW r \in EvaluationResourceState
  PROVE  Publish(s, r) \in EvaluationResourceState
  BY DEF EvaluationResourceState, Publish

\* finish_resource_record_sync writes a state of the right type.
LEMMA FinishSyncType ==
  ASSUME TypeOK, NEW f \in Frames, NEW r \in EvaluationResourceState, FinishSync(f, r)
  PROVE  /\ shared' \in [Tokens -> EvaluationResourceState]
         /\ syncing' \in [Frames -> BOOLEAN]
  BY PublishType DEF TypeOK, FinishSync

\* A frame under the lock, waiting for it, or about to unpin has a pin.
LEMMA Pinned ==
  ASSUME TypeOK, LabelsInv, NEW f \in Frames, Label(f) \in Holding \cup {"unpin"}
  PROVE  pin[f] \in Tokens
<1>1. pin[f] # NoToken /\ pin[f] \in 0 .. MaxToken
  BY DEF LabelsInv, LabelOK, TypeOK
<1> QED
  BY <1>1, BoundsAssumption DEF NoToken, Tokens

\* MutexInv over a step that takes, gives back or keeps the mutex.
LEMMA MutexTaken ==
  ASSUME TypeOK, MutexInv, NEW f \in Frames, pin[f] \in Tokens, NEW label \in Holding,
         transaction_mutex[pin[f]] = {}, pc[f] \notin Holding,
         transaction_mutex' = [transaction_mutex EXCEPT ![pin[f]] = {f}],
         pc' = [pc EXCEPT ![f] = label], UNCHANGED pin
  PROVE  MutexInv'
  BY DEF TypeOK, MutexInv

\* Giving the mutex back and leaving the labels under the lock.
LEMMA MutexDropped ==
  ASSUME TypeOK, MutexInv, NEW f \in Frames, pin[f] \in Tokens, NEW label,
         label \notin Holding, pc[f] \in Holding, Unlock(f),
         pc' = [pc EXCEPT ![f] = label], UNCHANGED pin
  PROVE  MutexInv'
  BY DEF TypeOK, MutexInv, Unlock

\* Moving between labels without touching a mutex.
LEMMA MutexKept ==
  ASSUME TypeOK, MutexInv, NEW f \in Frames, NEW label,
         pc' = [pc EXCEPT ![f] = label], UNCHANGED transaction_mutex,
         pc[f] \in Holding <=> label \in Holding,
         \A g \in Frames : g # f \/ pc[g] \in Holding => pin'[g] = pin[g]
  PROVE  MutexInv'
  BY DEF TypeOK, MutexInv

\* A call begins only when the outer activation is in its observer, and an
\* observer returns only after the calls it made.
LEMMA NestingStep ==
  ASSUME TypeOK, NestingInv, NEW f \in Frames, NEW label \in PCs,
         pc' = [pc EXCEPT ![f] = label],
         MayCall(f) \/ pc[f] # "idle",
         pc[f] = "callback" => InnerIdle(f)
  PROVE  NestingInv'
<1> SUFFICES ASSUME NEW g \in Frames, g[2] > 1, pc'[g] # "idle"
             PROVE  pc'[<<g[1], g[2] - 1>>] = "callback"
  BY DEF NestingInv
<1> DEFINE o == <<g[1], g[2] - 1>>
<1>1. /\ g = <<g[1], g[2]>> /\ f = <<f[1], f[2]>>
      /\ g[2] \in 1 .. Depth /\ f[2] \in 1 .. Depth /\ o \in Frames
  BY BoundsAssumption DEF Frames
<1>2. o # g
  BY <1>1
<1>3. CASE g = f
  <2>1. pc[o] = "callback"
    BY <1>3 DEF MayCall, NestingInv
  <2> QED
    BY <1>1, <1>2, <1>3, <2>1 DEF TypeOK
<1>4. CASE g # f
  <2>1. pc[o] = "callback"
    BY <1>4 DEF NestingInv, TypeOK
  <2>2. o # f
    <3> SUFFICES ASSUME o = f PROVE FALSE
      OBVIOUS
    <3>1. f[1] = g[1] /\ f[2] + 1 = g[2] /\ f[2] < Depth
      BY <1>1, BoundsAssumption
    <3>2. pc[g] = "idle"
      BY <2>1, <3>1, <1>1 DEF InnerIdle
    <3> QED
      BY <3>2, <1>4 DEF TypeOK
  <2> QED
    BY <2>1, <2>2, <1>1 DEF TypeOK
<1> QED
  BY <1>3, <1>4

\* The labels of the other frames do not change.
LEMMA LabelStep ==
  ASSUME LabelsInv, NEW f \in Frames,
         \A g \in Frames : g # f => /\ pc'[g] = pc[g] /\ call'[g] = call[g]
                                   /\ pin'[g] = pin[g],
         LabelOK(f)'
  PROVE  LabelsInv'
  BY DEF LabelsInv, LabelOK, Label

\* A frame touches its own buffers, free ones and those in client hands.
LEMMA BufferStep ==
  ASSUME TypeOK, BuffersInv, NEW f \in Frames,
         \A g \in Frames : g # f => /\ pc'[g] = pc[g] /\ call'[g] = call[g]
                                   /\ current'[g] = current[g],
         \A b \in Buffers : \A g \in buffer[b].user : g # f =>
           /\ buffer'[b].allocated = buffer[b].allocated
           /\ buffer'[b].user = buffer[b].user
           /\ buffer'[b].owner = buffer[b].owner,
         \A b \in Buffers : BufferOK(b)',
         CurrentOK(f)'
  PROVE  BuffersInv'
<1>1. ASSUME NEW g \in Frames, g # f
      PROVE  CurrentOK(g)'
  <2>1. CurrentOK(g)
    BY DEF BuffersInv
  <2>2. \A b \in current[g] : /\ buffer'[b].allocated = buffer[b].allocated
                              /\ buffer'[b].user = buffer[b].user
                              /\ buffer'[b].owner = buffer[b].owner
    BY <1>1, <2>1 DEF TypeOK, CurrentOK
  <2>3. pc'[g] = pc[g] /\ call'[g] = call[g] /\ current'[g] = current[g]
    BY <1>1
  <2> QED
    BY <2>1, <2>2, <2>3 DEF CurrentOK, Label
<1> QED
  BY <1>1 DEF BuffersInv

-----------------------------------------------------------------------------
(***************************************************************************)
(* One lemma per kind of step.                                             *)
(***************************************************************************)

\* A call begins: it validates its record and pins the state.  It may take
\* buffers that were in client hands.
LEMMA PinnedCall ==
  ASSUME InductiveInvariant, NEW f \in Frames, MayCall(f),
         NEW op \in Operations, NEW bytes \in Nat, NEW work \in Nat,
         BeginPinned(f, op, bytes, work),
         UNCHANGED <<next_resource_token, registry, context_active, transaction_mutex,
                     shared, owner, current, syncing>>,
         record' \in [Threads -> EvaluationResourceState],
         buffer' \in [Buffers -> Buffer],
         \A b \in Buffers :
           /\ buffer'[b].allocated = buffer[b].allocated
           /\ buffer'[b].owner = buffer[b].owner
           /\ \/ buffer'[b].user = buffer[b].user
              \/ InClientHands(b) /\ buffer'[b].user = {f}
  PROVE  InductiveInvariant'
<1> DEFINE tok == owner[Thread(f)]
<1> USE DEF InductiveInvariant
<1>1. pc[f] = "idle" /\ pin[f] = NoToken /\ tok \in registry /\ current[f] = {}
  BY DEF MayCall, BeginPinned, Validated, LabelsInv, LabelOK, Label, BuffersInv, CurrentOK
<1>2. tok \in Tokens /\ tok # NoToken
  BY <1>1 DEF TypeOK, Tokens, NoToken
<1>3. /\ pc' = [pc EXCEPT ![f] = "lock"] /\ pin' = [pin EXCEPT ![f] = tok]
      /\ call' = [call EXCEPT ![f] = [op |-> op, bytes |-> bytes, work |-> work,
                                      resume |-> "work", observer |-> FALSE]]
      /\ AcquireReference(tok)
  BY DEF BeginPinned, Goto, NewCall
<1> HIDE DEF tok
<1>4. ReferencesInv' /\ reference_count' \in [Tokens -> Nat]
  BY <1>1, <1>3, PinTaken
<1>5. TypeOK'
  BY <1>2, <1>3, <1>4 DEF TypeOK, Tokens, Call, PCs, Holding
<1>6. TokensInv'
  BY DEF TokensInv
<1>7. LabelsInv'
  <2>1. LabelOK(f)'
    BY <1>2, <1>3 DEF LabelOK, Label, Holding, TypeOK
  <2> QED
    BY <2>1, <1>3, LabelStep DEF TypeOK
<1>8. MutexInv'
  BY <1>1, <1>3, MutexKept DEF Holding, TypeOK
<1>9. BuffersInv'
  <2>1. CurrentOK(f)'
    BY <1>1, <1>3 DEF CurrentOK
  <2>2. \A b \in Buffers : BufferOK(b)'
    BY DEF BuffersInv, BufferOK, InClientHands
  <2>3. \A b \in Buffers : \A g \in buffer[b].user : buffer'[b].user = buffer[b].user
    BY DEF InClientHands
  <2> QED
    BY <2>1, <2>2, <2>3, <1>3, BufferStep DEF TypeOK
<1>10. NestingInv'
  BY <1>1, <1>3, NestingStep DEF PCs
<1> QED
  BY <1>4, <1>5, <1>6, <1>7, <1>8, <1>9, <1>10

\* The end of a call's body: the mutex is given back and the unpin follows.
LEMMA UnlockStep ==
  ASSUME InductiveInvariant, NEW f \in Frames,
         pc[f] \in {"work", "unlock"}, call[f].op \notin CleanupCalls,
         Unlock(f), Goto(f, "unpin"),
         UNCHANGED <<registryVars, buffer, call, pin, current>>,
         record' \in [Threads -> EvaluationResourceState],
         shared' \in [Tokens -> EvaluationResourceState],
         syncing' \in [Frames -> BOOLEAN],
         owner' \in [Threads -> 0 .. MaxToken],
         \A t \in Threads : owner'[t] \in {NoToken, owner[t]}
  PROVE  InductiveInvariant'
<1> USE DEF InductiveInvariant
<1>1. pin[f] \in Tokens /\ pin[f] # NoToken
  BY Pinned DEF Label, Holding, NoToken, Tokens
<1>2. pc' = [pc EXCEPT ![f] = "unpin"]
  BY DEF Goto
<1>3. TypeOK'
  BY <1>1, <1>2 DEF TypeOK, Unlock, registryVars, PCs
<1>4. ReferencesInv'
  BY SameHolders DEF registryVars
<1>5. TokensInv'
  <2>1. CASE next_resource_token # NoToken
    BY <2>1, BoundsAssumption DEF TokensInv, registryVars, NoToken, TypeOK
  <2> QED
    BY <2>1 DEF TokensInv, registryVars
<1>6. LabelsInv'
  <2>1. LabelOK(f)'
    BY <1>1, <1>2 DEF LabelOK, Label, Holding, TypeOK
  <2> QED
    BY <2>1, <1>2, LabelStep DEF TypeOK
<1>7. MutexInv'
  BY <1>1, <1>2, MutexDropped DEF Holding
<1>8. BuffersInv'
  <2>1. CurrentOK(f)'
    BY <1>2 DEF BuffersInv, CurrentOK, Label, TypeOK, CleanupCalls
  <2> QED
    BY <2>1, <1>2, BufferStep DEF BuffersInv, BufferOK, TypeOK
<1>9. NestingInv'
  BY <1>2, NestingStep DEF PCs
<1> QED
  BY <1>3, <1>4, <1>5, <1>6, <1>7, <1>8, <1>9

\* A body that is refused, or charges without storage, only moves on.
LEMMA WorkStep ==
  ASSUME InductiveInvariant, NEW f \in Frames,
         pc[f] = "work", call[f].op \notin CleanupCalls, Goto(f, "unlock"),
         UNCHANGED <<registryVars, transaction_mutex, shared, owner, buffer, call,
                     pin, current, syncing>>,
         record' \in [Threads -> EvaluationResourceState]
  PROVE  InductiveInvariant'
<1> USE DEF InductiveInvariant
<1>1. pc' = [pc EXCEPT ![f] = "unlock"]
  BY DEF Goto
<1>2. TypeOK'
  BY <1>1 DEF TypeOK, registryVars, PCs, Holding
<1>3. ReferencesInv'
  BY SameHolders DEF registryVars
<1>4. TokensInv'
  BY DEF TokensInv, registryVars
<1>5. LabelsInv'
  <2>1. LabelOK(f)'
    BY <1>1 DEF LabelsInv, LabelOK, Label, Holding, TypeOK
  <2> QED
    BY <2>1, <1>1, LabelStep DEF TypeOK
<1>6. MutexInv'
  BY <1>1, MutexKept DEF Holding
<1>7. BuffersInv'
  <2>1. CurrentOK(f)'
    BY <1>1 DEF BuffersInv, CurrentOK, Label, TypeOK
  <2> QED
    BY <2>1, <1>1, BufferStep DEF BuffersInv, BufferOK, TypeOK
<1>8. NestingInv'
  BY <1>1, NestingStep DEF PCs, Holding
<1> QED
  BY <1>2, <1>3, <1>4, <1>5, <1>6, <1>7, <1>8

\* A call description with typed arguments is a Call.
LEMMA NewCallType ==
  ASSUME NEW op \in Operations, NEW bytes \in Nat, NEW work \in Nat, NEW label \in PCs
  PROVE  /\ NewCall(op, bytes, work, label) \in Call
         /\ NewCall(op, bytes, work, label).op = op
         /\ NewCall(op, bytes, work, label).resume = label
  BY DEF NewCall, Call

\* The description of a frame that is in no call.
LEMMA NoCallType == NoCall \in Call
<1>1. "none" \in Operations /\ "idle" \in PCs
  BY DEF Operations, PCs
<1> QED
  BY <1>1, NewCallType DEF NoCall

\* make_resource_record registers a fresh token with its lease as the only
\* holder.
LEMMA MakeContextStep ==
  ASSUME InductiveInvariant, NEW f \in Frames, NEW c \in Configurations, MakeContext(f, c)
  PROVE  InductiveInvariant'
<1> DEFINE tok == next_resource_token
           s == [config |-> c, version |-> 1, live |-> 0, work |-> 0,
                 ordinal |-> 0, observer |-> FALSE]
<1> USE DEF InductiveInvariant
<1>1. /\ tok # NoToken /\ next_resource_token' = NextToken(tok)
      /\ registry' = registry \cup {tok}
      /\ reference_count' = [reference_count EXCEPT ![tok] = 1]
      /\ context_active' = context_active \cup {tok}
      /\ shared' = [shared EXCEPT ![tok] = s]
      /\ owner' = [owner EXCEPT ![Thread(f)] = tok]
      /\ record' = [record EXCEPT ![Thread(f)] = s]
      /\ UNCHANGED <<transaction_mutex, buffer, pc, call, pin, current, syncing>>
  BY DEF MakeContext, frameVars
<1>2. s \in EvaluationResourceState
  BY ConfigurationsAssumption DEF EvaluationResourceState
<1>3. tok \in Tokens /\ tok \notin registry /\ Thread(f) \in Threads
  BY <1>1, BoundsAssumption DEF TypeOK, Tokens, NoToken, TokensInv, Frames, Thread
<1>4. /\ NextToken(tok) \in 0 .. MaxToken
      /\ NextToken(tok) # NoToken => NextToken(tok) > tok
  BY <1>3, BoundsAssumption DEF NextToken, Tokens, NoToken
<1> HIDE DEF tok, s
<1>5. TypeOK'
  BY <1>1, <1>2, <1>3, <1>4 DEF TypeOK, Tokens
<1>6. ReferencesInv'
  <2>1. Holders(tok) = {}
    BY <1>3 DEF ReferencesInv
  <2>2. ASSUME NEW k \in Tokens
        PROVE  Holders(k)' = IF k = tok THEN {<<"lease", tok>>} ELSE Holders(k)
    <3>1. CASE k = tok
      <4>1. {g \in Frames : pin'[g] = tok} = {} /\ {b \in Buffers : buffer'[b].owner = tok} = {}
        BY <2>1, <1>1 DEF Holders
      <4>2. tok \in context_active'
        BY <1>1
      <4> QED
        BY <3>1, <4>1, <4>2 DEF Holders
    <3>2. CASE k # tok
      BY <3>2, <1>1 DEF Holders
    <3> QED
      BY <3>1, <3>2
  <2>3. IsFiniteSet({<<"lease", tok>>}) /\ Cardinality({<<"lease", tok>>}) = 1
    BY FS_Singleton
  <2> QED
    BY <2>2, <2>3, <1>1 DEF ReferencesInv, TypeOK
<1>7. TokensInv'
  <2> SUFFICES ASSUME NextToken(tok) # NoToken
               PROVE  /\ \A k \in registry' : k < NextToken(tok)
                      /\ \A t \in Threads : owner'[t] < NextToken(tok)
    BY <1>1 DEF TokensInv
  <2>1. /\ \A k \in registry : k < tok
        /\ \A t \in Threads : owner[t] < tok
    BY <1>1 DEF TokensInv, tok
  <2> QED
    BY <2>1, <1>1, <1>3, <1>4 DEF TypeOK, Tokens
<1>8. LabelsInv' /\ MutexInv' /\ BuffersInv' /\ NestingInv'
  BY <1>1 DEF LabelsInv, LabelOK, Label, MutexInv, BuffersInv, BufferOK, CurrentOK, NestingInv
<1> QED
  BY <1>5, <1>6, <1>7, <1>8

\* A bitwise copy of a record takes no reference.
LEMMA CopyRecordStep ==
  ASSUME InductiveInvariant, NEW t \in Threads, NEW u \in Threads, CopyRecord(t, u)
  PROVE  InductiveInvariant'
<1> USE DEF InductiveInvariant
<1>1. /\ owner' = [owner EXCEPT ![t] = owner[u]]
      /\ record' = [record EXCEPT ![t] = record[u]]
      /\ UNCHANGED <<next_resource_token, registry, reference_count, context_active,
                     transaction_mutex, shared, buffer, pc, call, pin, current, syncing>>
  BY DEF CopyRecord, registryVars, frameVars
<1>2. TypeOK'
  BY <1>1 DEF TypeOK
<1>3. ReferencesInv'
  BY <1>1, SameHolders
<1>4. TokensInv'
  BY <1>1 DEF TokensInv, TypeOK
<1>5. LabelsInv' /\ MutexInv' /\ BuffersInv' /\ NestingInv'
  BY <1>1 DEF LabelsInv, LabelOK, Label, MutexInv, BuffersInv, BufferOK, CurrentOK, NestingInv
<1> QED
  BY <1>2, <1>3, <1>4, <1>5

\* The lease's reference becomes the operation's: one holder takes the place
\* of another and the count does not move.
LEMMA ReleaseContextStep ==
  ASSUME InductiveInvariant, NEW f \in Frames, ReleaseContext(f)
  PROVE  InductiveInvariant'
<1> DEFINE tok == owner[Thread(f)]
<1> USE DEF InductiveInvariant
<1>1. /\ UNCHANGED <<next_resource_token, registry, reference_count, transaction_mutex,
                     shared, record, buffer, current, syncing>>
      /\ pc[f] = "idle" /\ pin[f] = NoToken /\ current[f] = {} /\ Thread(f) \in Threads
  BY DEF ReleaseContext, MayCall, LabelsInv, LabelOK, Label, BuffersInv, CurrentOK,
         Frames, Thread
<1>2. CASE Validated(f)
  <2>1. /\ context_active' = context_active \ {tok} /\ tok \in registry
        /\ tok \in context_active
        /\ pin' = [pin EXCEPT ![f] = tok] /\ pc' = [pc EXCEPT ![f] = "lock"]
        /\ UNCHANGED owner
    BY <1>2 DEF ReleaseContext, Validated, Goto
  <2>2. tok \in Tokens /\ tok # NoToken /\ NoToken \notin Tokens
    <3>1. tok \in Tokens
      BY <2>1 DEF TypeOK
    <3> QED
      BY <3>1, BoundsAssumption DEF Tokens, NoToken
  <2>3. \E c \in Call : /\ call' = [call EXCEPT ![f] = c]
                         /\ c.resume = "work" /\ c.op = "release_context"
    <3>1. call' = [call EXCEPT ![f] = NewCall("release_context", 0, 0, "work")]
      BY <1>2 DEF ReleaseContext
    <3>2. "work" \in PCs /\ "release_context" \in Operations
      BY DEF PCs, Holding, Operations
    <3> QED
      <4>1. /\ NewCall("release_context", 0, 0, "work") \in Call
            /\ NewCall("release_context", 0, 0, "work").op = "release_context"
            /\ NewCall("release_context", 0, 0, "work").resume = "work"
        BY <3>2, NewCallType
      <4> QED
        BY <3>1, <4>1
  <2> PICK c \in Call : /\ call' = [call EXCEPT ![f] = c]
                         /\ c.resume = "work" /\ c.op = "release_context"
    BY <2>3
  <2> HIDE DEF tok
  <2>4. TypeOK'
    BY <2>1, <2>2, <2>3, <1>1 DEF TypeOK, Tokens, PCs
  <2>5. ReferencesInv'
    <3> DEFINE l == <<"lease", tok>>
               h == <<"pin", f>>
    <3>1. l \in Holders(tok) /\ h \notin Holders(tok)
      BY <1>1, <2>1, <2>2, HolderKinds
    <3>2. ASSUME NEW k \in Tokens
          PROVE  Holders(k)' = IF k = tok THEN (Holders(k) \ {l}) \cup {h} ELSE Holders(k)
      <4>1. {g \in Frames : pin'[g] = k} =
              IF k = tok THEN {g \in Frames : pin[g] = k} \cup {f}
                         ELSE {g \in Frames : pin[g] = k}
        BY <2>1, <2>2, <1>1 DEF TypeOK
      <4> QED
        BY <4>1, <2>1, <1>1 DEF Holders
    <3>3. IsFiniteSet(Holders(tok))
      BY <2>2 DEF ReferencesInv
    <3> HIDE DEF l, h
    <3>4. /\ IsFiniteSet(Holders(tok) \ {l})
          /\ Cardinality(Holders(tok) \ {l}) = Cardinality(Holders(tok)) - 1
          /\ Cardinality(Holders(tok)) \in Nat
      BY <3>1, <3>3, FS_RemoveElement, FS_CardinalityType
    <3>5. /\ IsFiniteSet((Holders(tok) \ {l}) \cup {h})
          /\ Cardinality((Holders(tok) \ {l}) \cup {h}) = Cardinality(Holders(tok))
      BY <3>1, <3>4, FS_AddElement
    <3> QED
      BY <3>1, <3>2, <3>5, <2>1, <1>1 DEF ReferencesInv
  <2>6. TokensInv'
    BY <1>1, <2>1 DEF TokensInv
  <2>7. LabelsInv'
    <3>1. LabelOK(f)'
      BY <2>1, <2>2, <2>3 DEF LabelOK, Label, Holding, TypeOK
    <3> QED
      BY <3>1, <2>1, LabelStep DEF TypeOK
  <2>8. MutexInv'
    BY <1>1, <2>1, MutexKept DEF Holding, TypeOK
  <2>9. BuffersInv'
    <3>1. CurrentOK(f)'
      BY <1>1, <2>1 DEF CurrentOK
    <3> QED
      BY <3>1, <1>1, <2>1, BufferStep DEF BuffersInv, BufferOK, TypeOK
  <2>10. NestingInv'
    BY <1>1, <2>1, NestingStep DEF PCs, ReleaseContext
  <2> QED
    BY <2>4, <2>5, <2>6, <2>7, <2>8, <2>9, <2>10
<1>3. CASE ~Validated(f)
  <2>1. /\ owner' = [owner EXCEPT ![Thread(f)] = NoToken]
        /\ UNCHANGED <<context_active, pin, pc, call>>
    BY <1>3 DEF ReleaseContext
  <2>2. TypeOK'
    BY <1>1, <2>1, BoundsAssumption DEF TypeOK, NoToken
  <2>3. ReferencesInv'
    BY <1>1, <2>1, SameHolders
  <2>4. TokensInv'
    BY <1>1, <2>1, BoundsAssumption DEF TokensInv, TypeOK, NoToken
  <2>5. LabelsInv' /\ MutexInv' /\ BuffersInv' /\ NestingInv'
    BY <1>1, <2>1 DEF LabelsInv, LabelOK, Label, MutexInv, BuffersInv, BufferOK,
                      CurrentOK, NestingInv
  <2> QED
    BY <2>2, <2>3, <2>4, <2>5
<1> QED
  BY <1>2, <1>3

\* release_evaluation_resources under the mutex.
LEMMA ReleaseContextBodyStep ==
  ASSUME InductiveInvariant, NEW f \in Frames, ReleaseContextBody(f)
  PROVE  InductiveInvariant'
<1>1. pin[f] \in Tokens /\ Thread(f) \in Threads
  BY Pinned DEF InductiveInvariant, ReleaseContextBody, Label, Holding, Frames, Thread
<1>2. /\ record' \in [Threads -> EvaluationResourceState]
      /\ owner' \in [Threads -> 0 .. MaxToken]
      /\ \A t \in Threads : owner'[t] \in {NoToken, owner[t]}
  BY <1>1, BoundsAssumption DEF InductiveInvariant, ReleaseContextBody, TypeOK, NoToken
<1> QED
  BY <1>2, UnlockStep DEF InductiveInvariant, ReleaseContextBody, TypeOK, CleanupCalls

\* refresh_evaluation_resources under the mutex.
LEMMA RefreshBodyStep ==
  ASSUME InductiveInvariant, NEW f \in Frames, RefreshBody(f)
  PROVE  InductiveInvariant'
<1>1. pin[f] \in Tokens
  BY Pinned DEF InductiveInvariant, RefreshBody, Label, Holding
<1>2. record' \in [Threads -> EvaluationResourceState]
  BY <1>1 DEF InductiveInvariant, RefreshBody, TypeOK
<1> QED
  BY <1>2, UnlockStep DEF InductiveInvariant, RefreshBody, TypeOK, CleanupCalls

\* set_evaluation_resource_lifetime_observer under the mutex.
LEMMA SetObserverBodyStep ==
  ASSUME InductiveInvariant, NEW f \in Frames, SetObserverBody(f)
  PROVE  InductiveInvariant'
<1>1. /\ shared' \in [Tokens -> EvaluationResourceState]
      /\ record' \in [Threads -> EvaluationResourceState]
  <2> PICK observer \in BOOLEAN :
             /\ shared' = [shared EXCEPT ![pin[f]].observer = observer]
             /\ record' = [record EXCEPT ![Thread(f)].observer = observer]
    BY DEF SetObserverBody
  <2> QED
    BY Updates DEF InductiveInvariant, TypeOK
<1> QED
  BY <1>1, UnlockStep DEF InductiveInvariant, SetObserverBody, TypeOK, CleanupCalls

\* update_evaluation_resource_configuration under the mutex.
LEMMA UpdateBodyStep ==
  ASSUME InductiveInvariant, NEW f \in Frames, UpdateBody(f)
  PROVE  InductiveInvariant'
<1> DEFINE tok == pin[f]
           t == Thread(f)
<1>1. tok \in Tokens /\ t \in Threads
  BY Pinned DEF InductiveInvariant, UpdateBody, Label, Holding, Frames, Thread
<1>2. /\ shared[tok] \in EvaluationResourceState /\ record[t] \in EvaluationResourceState
      /\ record[t].config \in Configuration
      /\ shared[tok].version + 1 \in Nat /\ record[t].version + 1 \in Nat
  BY <1>1 DEF InductiveInvariant, TypeOK, EvaluationResourceState
<1>3. /\ shared' \in [Tokens -> EvaluationResourceState]
      /\ record' \in [Threads -> EvaluationResourceState]
  <2>1. CASE UNCHANGED shared /\ record' = [record EXCEPT ![t] = shared[tok]]
    BY <2>1, <1>1 DEF InductiveInvariant, TypeOK
  <2>2. CASE UNCHANGED <<record, shared>>
    BY <2>2 DEF InductiveInvariant, TypeOK
  <2>3. CASE /\ shared' = [shared EXCEPT ![tok].config = record[t].config,
                                         ![tok].version = @ + 1]
             /\ record' = [record EXCEPT ![t].version = @ + 1]
    <3>1. record' \in [Threads -> EvaluationResourceState]
      BY <2>3, <1>2, Updates DEF InductiveInvariant, TypeOK
    <3>2. shared' \in [Tokens -> EvaluationResourceState]
      BY <2>3, <1>2, Updates DEF InductiveInvariant, TypeOK
    <3> QED
      BY <3>1, <3>2
  <2> QED
    BY <2>1, <2>2, <2>3 DEF UpdateBody
<1> QED
  BY <1>3, UnlockStep DEF InductiveInvariant, UpdateBody, TypeOK, CleanupCalls

\* The record-sync guard and the unlock on the way out.
LEMMA LeaveStep ==
  ASSUME InductiveInvariant, NEW f \in Frames, Leave(f)
  PROVE  InductiveInvariant'
<1>1. record[Thread(f)] \in EvaluationResourceState
  BY DEF InductiveInvariant, TypeOK, Frames, Thread
<1>2. shared' \in [Tokens -> EvaluationResourceState] /\ syncing' \in [Frames -> BOOLEAN]
  BY <1>1, FinishSyncType DEF InductiveInvariant, Leave
<1>3. call[f].op \notin CleanupCalls
  BY DEF InductiveInvariant, LabelsInv, LabelOK, Label, Leave
<1> QED
  BY <1>2, <1>3, UnlockStep DEF InductiveInvariant, Leave, TypeOK

\* Entry of refresh and of set_lifetime_observer: one more pin.
LEMMA BeginSnapshotCallStep ==
  ASSUME InductiveInvariant, NEW f \in Frames, NEW op, BeginSnapshotCall(f, op)
  PROVE  InductiveInvariant'
  BY PinnedCall DEF InductiveInvariant, BeginSnapshotCall, TypeOK, Operations, SnapshotCalls

\* Entry of an admission: one more pin.
LEMMA BeginChargeStep ==
  ASSUME InductiveInvariant, NEW f \in Frames, NEW op, NEW bytes \in Sizes, NEW work \in Works,
         BeginCharge(f, op, bytes, work)
  PROVE  InductiveInvariant'
  BY PinnedCall, BoundsAssumption
     DEF InductiveInvariant, BeginCharge, TypeOK, Operations, SyncCalls, AllocationCalls

\* Entry of a configuration update: one more pin.
LEMMA BeginUpdateStep ==
  ASSUME InductiveInvariant, NEW f \in Frames, NEW e \in Edits, BeginUpdate(f, e)
  PROVE  InductiveInvariant'
<1>1. ASSUME NEW c \in Configuration
      PROVE  [c EXCEPT ![e.field] = e.value] \in Configuration
  <2>1. e.value \in SUBSET Nat
    BY ConfigurationsAssumption
  <2>2. CASE e.field = "max_vector_bytes"
    BY <2>1, <2>2 DEF Configuration
  <2>3. CASE e.field = "max_live_evaluation_bytes"
    BY <2>1, <2>3 DEF Configuration
  <2>4. CASE e.field = "max_work_units"
    BY <2>1, <2>4 DEF Configuration
  <2>5. CASE e.field = "max_tuple_table_bytes"
    BY <2>1, <2>5 DEF Configuration
  <2>6. CASE e.field = "fail_at_reservation_ordinal"
    BY <2>1, <2>6 DEF Configuration
  <2> QED
    BY <2>2, <2>3, <2>4, <2>5, <2>6, ConfigurationsAssumption DEF LimitFields
<1>2. record' \in [Threads -> EvaluationResourceState]
  <2>1. record[Thread(f)] \in EvaluationResourceState
    BY DEF InductiveInvariant, TypeOK, Frames, Thread
  <2> DEFINE r == record[Thread(f)]
             c == [r.config EXCEPT ![e.field] = e.value]
  <2>2. c \in Configuration
    BY <2>1, <1>1 DEF EvaluationResourceState
  <2>3. record' = [record EXCEPT ![Thread(f)] = [r EXCEPT !.config = c]]
    BY DEF BeginUpdate
  <2> HIDE DEF c
  <2>4. [r EXCEPT !.config = c] \in EvaluationResourceState
    BY <2>1, <2>2, Updates
  <2> QED
    BY <2>3, <2>4 DEF InductiveInvariant, TypeOK
<1>3. "update_configuration" \in Operations
  BY DEF Operations, SnapshotCalls
<1> QED
  BY <1>2, <1>3, PinnedCall DEF InductiveInvariant, BeginUpdate, TypeOK

\* A call takes its value out of the client's hands.
LEMMA ClaimStep ==
  ASSUME TypeOK, NEW f \in Frames, NEW B, IsValue(B), Claim(f, B)
  PROVE  /\ buffer' \in [Buffers -> Buffer]
         /\ \A b \in Buffers :
              /\ buffer'[b].allocated = buffer[b].allocated
              /\ buffer'[b].owner = buffer[b].owner
              /\ \/ buffer'[b].user = buffer[b].user
                 \/ InClientHands(b) /\ buffer'[b].user = {f}
<1>1. ASSUME NEW b \in Buffers
      PROVE  /\ [buffer[b] EXCEPT !.user = {f}] \in Buffer
             /\ [buffer[b] EXCEPT !.user = {f}].allocated = buffer[b].allocated
             /\ [buffer[b] EXCEPT !.user = {f}].owner = buffer[b].owner
             /\ [buffer[b] EXCEPT !.user = {f}].user = {f}
  <2>1. buffer[b] \in Buffer
    BY DEF TypeOK
  <2> QED
    BY <2>1 DEF Buffer
<1>2. \A b \in Buffers : buffer'[b] = IF b \in B THEN [buffer[b] EXCEPT !.user = {f}]
                                                 ELSE buffer[b]
  BY DEF Claim
<1>3. buffer' \in [Buffers -> Buffer]
  BY <1>1 DEF Claim, TypeOK
<1> QED
  BY <1>1, <1>2, <1>3 DEF IsValue

\* Entry of a release through a context: one more pin, and a claimed value.
LEMMA BeginReleaseStep ==
  ASSUME InductiveInvariant, NEW f \in Frames, NEW B, BeginRelease(f, B)
  PROVE  InductiveInvariant'
<1>1. PICK op \in ReleaseCalls \cup AggregateCalls : BeginPinned(f, op, 0, 0)
  BY DEF BeginRelease
<1>2. op \in Operations
  BY DEF Operations, SyncCalls, ReleaseCalls, AggregateCalls
<1>3. /\ buffer' \in [Buffers -> Buffer]
      /\ \A b \in Buffers :
           /\ buffer'[b].allocated = buffer[b].allocated
           /\ buffer'[b].owner = buffer[b].owner
           /\ \/ buffer'[b].user = buffer[b].user
              \/ InClientHands(b) /\ buffer'[b].user = {f}
  BY ClaimStep DEF BeginRelease, InductiveInvariant
<1> QED
  BY <1>1, <1>2, <1>3, PinnedCall DEF InductiveInvariant, BeginRelease, TypeOK

\* A refusal, and an admission that reserves nothing.
LEMMA ChargeWithoutStorageStep ==
  ASSUME InductiveInvariant, NEW f \in Frames, ChargeWithoutStorage(f)
  PROVE  InductiveInvariant'
<1>1. /\ record[Thread(f)] \in EvaluationResourceState /\ call[f].work \in Nat
  BY DEF InductiveInvariant, TypeOK, Frames, Thread, Call
<1>2. Commit(record[Thread(f)], 0, call[f].work) \in EvaluationResourceState
  BY <1>1, CommitType
<1>3. record' \in [Threads -> EvaluationResourceState]
  BY <1>2 DEF InductiveInvariant, TypeOK, ChargeWithoutStorage
<1> QED
  BY <1>3, WorkStep DEF ChargeWithoutStorage, CleanupCalls, AllocationCalls

\* An admitted attempt whose storage is refused.
LEMMA AllocationFailsStep ==
  ASSUME InductiveInvariant, NEW f \in Frames, AllocationFails(f)
  PROVE  InductiveInvariant'
<1>1. record[Thread(f)] \in EvaluationResourceState /\ record[Thread(f)].ordinal + 1 \in Nat
  BY DEF InductiveInvariant, TypeOK, Frames, Thread, EvaluationResourceState
<1>2. record' \in [Threads -> EvaluationResourceState]
  BY <1>1, Updates DEF InductiveInvariant, TypeOK, AllocationFails
<1> QED
  BY <1>2, WorkStep DEF AllocationFails, CleanupCalls, AllocationCalls

\* Taking the transaction mutex, with the refresh that goes with it.
LEMMA LockStep ==
  ASSUME InductiveInvariant, NEW f \in Frames, Lock(f)
  PROVE  InductiveInvariant'
<1> USE DEF InductiveInvariant
<1>1. /\ pc[f] = "lock" /\ transaction_mutex[pin[f]] = {}
      /\ transaction_mutex' = [transaction_mutex EXCEPT ![pin[f]] = {f}]
      /\ pc' = [pc EXCEPT ![f] = call[f].resume]
      /\ UNCHANGED <<next_resource_token, registry, reference_count, context_active,
                     shared, owner, buffer, call, pin, current>>
  BY DEF Lock, Goto, registryVars
<1>2. call[f].resume \in Holding /\ LabelOK(f) /\ Label(f) = call[f].resume
  BY <1>1 DEF LabelsInv, LabelOK, Label
<1>3. pin[f] \in Tokens
  BY <1>2, Pinned
<1>4. TypeOK'
  <2>1. /\ record' \in [Threads -> EvaluationResourceState]
        /\ syncing' \in [Frames -> BOOLEAN]
    BY <1>3 DEF Lock, TypeOK
  <2>2. call[f].resume \in PCs
    BY <1>2 DEF PCs
  <2> QED
    BY <2>1, <2>2, <1>1, <1>3 DEF TypeOK
<1>5. ReferencesInv'
  BY <1>1, SameHolders
<1>6. TokensInv'
  BY <1>1 DEF TokensInv
<1>7. LabelsInv'
  <2>1. LabelOK(f)'
    BY <1>1, <1>2 DEF LabelOK, Label, Holding, TypeOK
  <2> QED
    BY <2>1, <1>1, LabelStep DEF TypeOK
<1>8. MutexInv'
  BY <1>1, <1>2, <1>3, MutexTaken DEF Holding
<1>9. BuffersInv'
  <2>1. CurrentOK(f)'
    BY <1>1, <1>2 DEF BuffersInv, CurrentOK, Label, TypeOK, Holding
  <2> QED
    BY <2>1, <1>1, BufferStep DEF BuffersInv, BufferOK, TypeOK
<1>10. NestingInv'
  BY <1>1, <1>2, NestingStep DEF PCs
<1> QED
  BY <1>4, <1>5, <1>6, <1>7, <1>8, <1>9, <1>10

\* The observer returns.
LEMMA EndCallbackStep ==
  ASSUME InductiveInvariant, NEW f \in Frames, EndCallback(f)
  PROVE  InductiveInvariant'
<1> DEFINE label == IF call[f].resume \in Holding THEN "lock" ELSE call[f].resume
<1> USE DEF InductiveInvariant
<1>1. /\ pc[f] = "callback" /\ InnerIdle(f)
      /\ pc' = [pc EXCEPT ![f] = label]
      /\ call' = [call EXCEPT ![f].observer = FALSE]
      /\ UNCHANGED <<next_resource_token, registry, reference_count, context_active,
                     transaction_mutex, shared, owner, record, buffer, pin, current, syncing>>
  BY DEF EndCallback, Goto, registryVars
<1>2. /\ call[f].resume \in Holding \cup {"unpin", "owner", "free"}
      /\ LabelOK(f) /\ Label(f) = call[f].resume
  BY <1>1 DEF LabelsInv, LabelOK, Label
<1>3. label \in PCs /\ label \notin Holding
  BY <1>2 DEF PCs, Holding
<1>4. call'[f].resume = call[f].resume /\ call'[f].op = call[f].op
  BY <1>1 DEF TypeOK, Call
<1>5. pc'[f] = label
  BY <1>1 DEF TypeOK
<1>6. Label(f)' = Label(f)
  BY <1>2, <1>4, <1>5 DEF Label, Holding
<1>7. TypeOK'
  BY <1>1, <1>3 DEF TypeOK, Call
<1> HIDE DEF label
<1>8. ReferencesInv'
  BY <1>1, SameHolders
<1>9. TokensInv'
  BY <1>1 DEF TokensInv
<1>10. LabelsInv'
  <2>1. LabelOK(f)'
    BY <1>1, <1>2, <1>4, <1>5, <1>6 DEF LabelOK, label, Holding
  <2> QED
    BY <2>1, <1>1, LabelStep DEF TypeOK
<1>11. MutexInv'
  BY <1>1, <1>3, MutexKept DEF Holding
<1>12. BuffersInv'
  <2>1. CurrentOK(f)'
    BY <1>1, <1>4, <1>6 DEF BuffersInv, CurrentOK
  <2> QED
    BY <2>1, <1>1, BufferStep DEF BuffersInv, BufferOK, TypeOK
<1>13. NestingInv'
  BY <1>1, <1>3, NestingStep
<1> QED
  BY <1>7, <1>8, <1>9, <1>10, <1>11, <1>12, <1>13

\* Entry of a context-free cleanup: a claimed value and no pin.
LEMMA BeginCleanupStep ==
  ASSUME InductiveInvariant, NEW f \in Frames, NEW B, BeginCleanup(f, B)
  PROVE  InductiveInvariant'
<1> USE DEF InductiveInvariant
<1>1. /\ MayCall(f) /\ pc[f] = "idle" /\ pin[f] = NoToken /\ current[f] = {}
      /\ pc' = [pc EXCEPT ![f] = "consume"]
      /\ UNCHANGED <<next_resource_token, registry, reference_count, context_active,
                     transaction_mutex, shared, owner, record, pin, current, syncing>>
  BY DEF BeginCleanup, MayCall, LabelsInv, LabelOK, Label, BuffersInv, CurrentOK,
         Goto, registryVars
<1>2. PICK op \in CleanupCalls : call' = [call EXCEPT ![f] = NewCall(op, 0, 0, "idle")]
  BY DEF BeginCleanup
<1>3. /\ NewCall(op, 0, 0, "idle") \in Call /\ NewCall(op, 0, 0, "idle").op \in CleanupCalls
  <2>1. op \in Operations /\ "idle" \in PCs
    BY DEF Operations, PCs
  <2> QED
    BY <2>1, NewCallType
<1>4. /\ buffer' \in [Buffers -> Buffer]
      /\ \A b \in Buffers :
           /\ buffer'[b].allocated = buffer[b].allocated
           /\ buffer'[b].owner = buffer[b].owner
           /\ \/ buffer'[b].user = buffer[b].user
              \/ InClientHands(b) /\ buffer'[b].user = {f}
  BY ClaimStep DEF BeginCleanup
<1>5. TypeOK'
  BY <1>1, <1>2, <1>3, <1>4 DEF TypeOK, PCs
<1>6. ReferencesInv'
  BY <1>1, <1>4, SameHolders
<1>7. TokensInv'
  BY <1>1 DEF TokensInv
<1>8. LabelsInv'
  <2>1. LabelOK(f)'
    BY <1>1, <1>2, <1>3 DEF LabelOK, Label, Holding, TypeOK
  <2> QED
    BY <2>1, <1>1, <1>2, LabelStep DEF TypeOK
<1>9. MutexInv'
  BY <1>1, MutexKept DEF Holding
<1>10. BuffersInv'
  <2>1. CurrentOK(f)'
    BY <1>1, <1>2 DEF CurrentOK
  <2>2. \A b \in Buffers : BufferOK(b)'
    BY <1>4 DEF BuffersInv, BufferOK, InClientHands
  <2>3. \A b \in Buffers : \A g \in buffer[b].user : buffer'[b].user = buffer[b].user
    BY <1>4 DEF InClientHands
  <2> QED
    BY <2>1, <2>2, <2>3, <1>1, <1>2, <1>4, BufferStep DEF TypeOK
<1>11. NestingInv'
  BY <1>1, NestingStep DEF PCs
<1> QED
  BY <1>5, <1>6, <1>7, <1>8, <1>9, <1>10, <1>11

\* The observer is called: what its frame goes on to do is recorded.
LEMMA NotifyStep ==
  ASSUME TypeOK, NEW f \in Frames, NEW observer \in BOOLEAN, NEW label \in PCs,
         Notify(f, observer, label)
  PROVE  /\ pc' \in [Frames -> PCs] /\ call' \in [Frames -> Call]
         /\ pc' = [pc EXCEPT ![f] = "callback"]
         /\ call'[f].resume = label /\ call'[f].op = call[f].op
         /\ \A g \in Frames : g # f => call'[g] = call[g]
         /\ Label(f)' = label
<1> DEFINE a == [call[f] EXCEPT !.resume = label]
           c == [a EXCEPT !.observer = observer]
<1>1. a \in Call /\ a.resume = label /\ a.op = call[f].op
  BY DEF TypeOK, Call
<1>2. c \in Call /\ c.resume = label /\ c.op = call[f].op
  <2> HIDE DEF a
  <2> QED
    BY <1>1 DEF Call
<1>3. call' = [call EXCEPT ![f] = c]
  BY DEF Notify, TypeOK
<1> HIDE DEF c
<1>4. pc' = [pc EXCEPT ![f] = "callback"] /\ "callback" \in PCs
  BY DEF Notify, PCs
<1> QED
  BY <1>2, <1>3, <1>4 DEF TypeOK, Label

\* Assignments to one buffer.
LEMMA BufferUpdates ==
  ASSUME NEW x \in Buffer
  PROVE  /\ x.owner \in 0 .. MaxToken /\ x.user \in SUBSET Frames /\ x.observer \in BOOLEAN
         /\ x.bytes \in Nat
         /\ [x EXCEPT !.bound = NoToken] \in Buffer
         /\ [x EXCEPT !.bound = NoToken].owner = x.owner
         /\ [x EXCEPT !.bound = NoToken].user = x.user
         /\ [x EXCEPT !.bound = NoToken].allocated = x.allocated
         /\ [x EXCEPT !.owner = NoToken] \in Buffer
         /\ [x EXCEPT !.owner = NoToken].owner = NoToken
         /\ [x EXCEPT !.owner = NoToken].user = x.user
         /\ [x EXCEPT !.owner = NoToken].allocated = x.allocated
  BY BoundsAssumption DEF Buffer, NoToken

\* Changing only the user of a buffer keeps its type.
LEMMA UserUpdate ==
  ASSUME NEW x \in Buffer, NEW u \in SUBSET Frames
  PROVE  /\ [x EXCEPT !.user = u] \in Buffer
         /\ [x EXCEPT !.user = u].user = u
         /\ [x EXCEPT !.user = u].owner = x.owner
         /\ [x EXCEPT !.user = u].allocated = x.allocated
  BY DEF Buffer

\* A free buffer is a buffer.
LEMMA FreeBufferType ==
  /\ FreeBuffer \in Buffer /\ FreeBuffer.user = {} /\ FreeBuffer.owner = NoToken
  BY BoundsAssumption DEF FreeBuffer, Buffer, Kinds, NoToken

\* BuffersInv over a step of f that changes one buffer, which is f's or free.
LEMMA OneBufferStep ==
  ASSUME TypeOK, BuffersInv, NEW f \in Frames, NEW b \in Buffers,
         buffer[b].user \in {{}, {f}},
         \A g \in Frames : g # f => /\ pc'[g] = pc[g] /\ call'[g] = call[g]
                                   /\ current'[g] = current[g],
         \A c \in Buffers : c # b => buffer'[c] = buffer[c],
         BufferOK(b)', CurrentOK(f)'
  PROVE  BuffersInv'
<1>1. \A c \in Buffers : BufferOK(c)'
  BY DEF BuffersInv, BufferOK
<1>2. \A c \in Buffers : \A g \in buffer[c].user : g # f => buffer'[c] = buffer[c]
  OBVIOUS
<1> QED
  BY <1>1, <1>2, BufferStep

\* What a frame has of its own at each label.
LEMMA ClaimedOwn ==
  ASSUME TypeOK, BuffersInv, NEW f \in Frames, NEW b \in Buffers,
         b \in Claimed(f) \cup current[f]
  PROVE  buffer[b].user = {f} /\ buffer[b].allocated
  BY DEF Claimed, BuffersInv, BufferOK, CurrentOK

\* What the invariant needs of the control of f in a step from under the
\* lock of f's pin, which the step keeps.
Moved(f, label) ==
  /\ pc' \in [Frames -> PCs] /\ call' \in [Frames -> Call]
  /\ shared' \in [Tokens -> EvaluationResourceState]
  /\ syncing' \in [Frames -> BOOLEAN]
  /\ transaction_mutex' \in [Tokens -> SUBSET Frames]
  /\ Label(f)' = label /\ call'[f].op = call[f].op
  /\ \A g \in Frames : g # f => pc'[g] = pc[g] /\ call'[g] = call[g]
  /\ LabelsInv' /\ MutexInv' /\ NestingInv'

\* The frame goes on under the lock.
LEMMA StaysLocked ==
  ASSUME InductiveInvariant, NEW f \in Frames, NEW label \in Holding,
         pc[f] \in Holding, call[f].op \notin CleanupCalls,
         Goto(f, label), UNCHANGED <<shared, syncing, transaction_mutex, call, pin>>
  PROVE  Moved(f, label)
<1> USE DEF InductiveInvariant
<1>1. pc' = [pc EXCEPT ![f] = label] /\ label \in PCs
  BY DEF Goto, PCs
<1>2. pin[f] # NoToken
  BY DEF LabelsInv, LabelOK, Label, Holding
<1>3. LabelOK(f)' /\ Label(f)' = label
  BY <1>1, <1>2 DEF LabelOK, Label, Holding, TypeOK
<1>4. MutexInv'
  BY <1>1, MutexKept
<1>5. NestingInv'
  BY <1>1, NestingStep DEF Holding
<1>6. LabelsInv'
  BY <1>1, <1>3, LabelStep DEF TypeOK
<1> QED
  BY <1>1, <1>3, <1>4, <1>5, <1>6 DEF Moved, TypeOK

\* The frame publishes, unlocks and calls its observer.
LEMMA PublishesAndNotifies ==
  ASSUME InductiveInvariant, NEW f \in Frames, NEW r \in EvaluationResourceState,
         NEW observer \in BOOLEAN, NEW label \in Holding \cup {"unpin"},
         pc[f] \in Holding, call[f].op \notin CleanupCalls,
         FinishSync(f, r), Unlock(f), Notify(f, observer, label), UNCHANGED pin
  PROVE  Moved(f, label)
<1> USE DEF InductiveInvariant
<1>1. /\ pc' \in [Frames -> PCs] /\ call' \in [Frames -> Call]
      /\ pc' = [pc EXCEPT ![f] = "callback"]
      /\ call'[f].resume = label /\ call'[f].op = call[f].op
      /\ \A g \in Frames : g # f => call'[g] = call[g]
      /\ Label(f)' = label
  <2>1. label \in PCs
    BY DEF PCs
  <2> QED
    BY <2>1, NotifyStep
<1>2. pin[f] \in Tokens /\ pin[f] # NoToken
  BY Pinned DEF LabelsInv, LabelOK, Label, Holding
<1>3. shared' \in [Tokens -> EvaluationResourceState] /\ syncing' \in [Frames -> BOOLEAN]
  BY FinishSyncType
<1>4. transaction_mutex' \in [Tokens -> SUBSET Frames]
  BY DEF Unlock, TypeOK
<1>5. LabelOK(f)'
  BY <1>1, <1>2 DEF LabelOK, Holding, TypeOK
<1>6. MutexInv'
  BY <1>1, <1>2, MutexDropped DEF Holding
<1>7. NestingInv'
  BY <1>1, NestingStep DEF PCs, Holding
<1>8. LabelsInv'
  BY <1>1, <1>5, LabelStep DEF TypeOK
<1> QED
  BY <1>1, <1>3, <1>4, <1>6, <1>7, <1>8 DEF Moved, TypeOK

\* A new reservation holds one more reference to its owner.
LEMMA AllocationSucceedsStep ==
  ASSUME InductiveInvariant, NEW f \in Frames, NEW b \in Buffers, AllocationSucceeds(f, b)
  PROVE  InductiveInvariant'
<1> DEFINE t == Thread(f)
           tok == owner[t]
           a == Commit(record[t], call[f].bytes, call[f].work)
           r == [a EXCEPT !.ordinal = a.ordinal + 1]
           x == [allocated |-> TRUE, user |-> {f}, kind |-> KindOf(call[f].op),
                 bytes |-> call[f].bytes, ordinal |-> record[t].ordinal, bound |-> tok,
                 owner |-> tok,
                 observer |-> call[f].op # "reserve_workspace" /\ record[t].observer]
<1> USE DEF InductiveInvariant
<1>1. /\ pc[f] = "work" /\ call[f].op \in AllocationCalls
      /\ ~buffer[b].allocated /\ tok \in registry /\ AcquireReference(tok)
      /\ buffer' = [buffer EXCEPT ![b] = x]
      /\ record' = [record EXCEPT ![t] = r]
      /\ UNCHANGED <<next_resource_token, registry, context_active, owner, pin, current>>
  BY DEF AllocationSucceeds
<1>2. /\ t \in Threads /\ record[t] \in EvaluationResourceState
      /\ call[f].bytes \in Nat /\ call[f].work \in Nat /\ tok \in Tokens
      /\ record[t].ordinal \in Nat /\ record[t].observer \in BOOLEAN
  BY <1>1 DEF TypeOK, Frames, Thread, Call, EvaluationResourceState
<1>3. r \in EvaluationResourceState
  <2>1. a \in EvaluationResourceState
    BY <1>2, CommitType
  <2> HIDE DEF a
  <2>2. a.ordinal + 1 \in Nat
    BY <2>1 DEF EvaluationResourceState
  <2> QED
    BY <2>1, <2>2, Updates
<1>4. x \in Buffer /\ x.owner = tok /\ x.user = {f} /\ x.allocated
  <2>1. KindOf(call[f].op) \in Kinds
    BY DEF KindOf, Kinds
  <2> QED
    BY <2>1, <1>2 DEF Buffer, Tokens
<1>5. call[f].op \notin CleanupCalls /\ current[f] = {} /\ pin[f] \in Tokens
  BY <1>1, Pinned DEF AllocationCalls, CleanupCalls, BuffersInv, CurrentOK, Label, Holding
<1>6. buffer[b].owner = NoToken /\ buffer[b].user = {}
  <2>1. buffer[b].user \in SUBSET Frames
    BY DEF TypeOK, Buffer
  <2> QED
    BY <1>1, <2>1 DEF BuffersInv, BufferOK
<1> HIDE DEF t, tok, r, x
<1>7. /\ buffer' \in [Buffers -> Buffer] /\ buffer'[b] = x
      /\ \A c \in Buffers : c # b => buffer'[c] = buffer[c]
  BY <1>1, <1>4 DEF TypeOK
<1>8. ReferencesInv' /\ reference_count' \in [Tokens -> Nat]
  BY <1>1, <1>4, <1>6, <1>7, OwnerTaken
<1>9. TokensInv'
  BY <1>1 DEF TokensInv
<1>10. \E l \in {"unlock", "unpin"} : Moved(f, l)
  <2>1. CASE call[f].op = "reserve_workspace"
    <3>1. Goto(f, "unlock") /\ UNCHANGED <<shared, syncing, transaction_mutex, call>>
      BY <2>1 DEF AllocationSucceeds
    <3>2. Moved(f, "unlock")
      BY <3>1, <1>1, <1>5, StaysLocked DEF Holding
    <3> QED
      BY <3>2
  <2>2. CASE call[f].op # "reserve_workspace"
    <3> DEFINE l == IF call[f].op = "allocate_vector" THEN "unlock" ELSE "unpin"
    <3>1. FinishSync(f, r) /\ Unlock(f) /\ Notify(f, r.observer, l)
      BY <2>2 DEF AllocationSucceeds, t, r
    <3>2. r.observer \in BOOLEAN
      BY <1>3 DEF EvaluationResourceState
    <3>3. l \in {"unlock", "unpin"}
      OBVIOUS
    <3> HIDE DEF l
    <3>4. Moved(f, l)
      BY <3>1, <3>2, <3>3, <1>1, <1>3, <1>5, PublishesAndNotifies DEF Holding
    <3> QED
      BY <3>3, <3>4
  <2> QED
    BY <2>1, <2>2
<1>11. TypeOK'
  BY <1>1, <1>2, <1>3, <1>7, <1>8, <1>10 DEF TypeOK, Moved
<1>13. BuffersInv'
  <2>1. CurrentOK(f)'
    BY <1>1, <1>5 DEF CurrentOK
  <2>2. BufferOK(b)'
    BY <1>4, <1>7 DEF BufferOK
  <2> QED
    BY <2>1, <2>2, <1>1, <1>6, <1>7, <1>10, OneBufferStep DEF Moved
<1> QED
  BY <1>8, <1>9, <1>10, <1>11, <1>13 DEF Moved

\* A vector or table released through its context drops its reference.
LEMMA ReleaseBodyStep ==
  ASSUME InductiveInvariant, NEW f \in Frames, NEW b \in Buffers, ReleaseBody(f, b)
  PROVE  InductiveInvariant'
<1> DEFINE t == Thread(f)
           n == IF buffer[b].bytes <= record[t].live
                THEN record[t].live - buffer[b].bytes ELSE record[t].live
           r == [record[t] EXCEPT !.live = n]
<1> USE DEF InductiveInvariant
<1>1. /\ pc[f] = "work" /\ b \in Claimed(f)
      /\ call[f].op \in {"release_vector_reservation", "release_tuple_table"}
      /\ UNCHANGED <<next_resource_token, context_active, owner, pin, current>>
  BY DEF ReleaseBody
<1>2. call[f].op \notin CleanupCalls /\ current[f] = {}
  BY <1>1 DEF CleanupCalls, BuffersInv, CurrentOK, Label
<1>3. CASE Consumable(b)
  <2>1. /\ record' = [record EXCEPT ![t] = r] /\ ReleaseReference(buffer[b].owner)
        /\ buffer' = [buffer EXCEPT ![b] = FreeBuffer]
        /\ FinishSync(f, r) /\ Unlock(f) /\ Notify(f, buffer[b].observer, "unlock")
    BY <1>3 DEF ReleaseBody
  <2>2. /\ buffer[b] \in Buffer /\ t \in Threads
        /\ record[t] \in EvaluationResourceState
    BY DEF TypeOK, Frames, Thread
  <2>3. n \in Nat /\ buffer[b].observer \in BOOLEAN
    BY <2>2 DEF Buffer, EvaluationResourceState
  <2> HIDE DEF n
  <2>4. r \in EvaluationResourceState
    BY <2>2, <2>3, Updates
  <2> HIDE DEF r, t
  <2>5. Moved(f, "unlock")
    BY <2>1, <2>3, <2>4, <1>1, <1>2, PublishesAndNotifies DEF Holding
  <2>6. /\ buffer' \in [Buffers -> Buffer] /\ buffer'[b] = FreeBuffer
        /\ \A c \in Buffers : c # b => buffer'[c] = buffer[c]
    BY <2>1, FreeBufferType DEF TypeOK
  <2>7. /\ ReferencesInv' /\ reference_count' \in [Tokens -> Nat]
        /\ registry' \in SUBSET registry
    BY <2>1, <2>6, <1>1, FreeBufferType, OwnerDropped
  <2>8. TypeOK'
    BY <2>1, <2>2, <2>4, <2>5, <2>6, <2>7, <1>1 DEF TypeOK, Moved
  <2>9. TokensInv'
    BY <2>7, <1>1 DEF TokensInv
  <2>10. BuffersInv'
    <3>1. CurrentOK(f)'
      BY <1>1, <1>2 DEF CurrentOK
    <3>2. BufferOK(b)'
      BY <2>6, FreeBufferType DEF BufferOK
    <3>3. buffer[b].user = {f}
      BY <1>1, ClaimedOwn
    <3> QED
      BY <3>1, <3>2, <3>3, <2>5, <2>6, <1>1, OneBufferStep DEF Moved
  <2> QED
    BY <2>5, <2>7, <2>8, <2>9, <2>10 DEF Moved
<1>4. CASE ~Consumable(b)
  <2>1. /\ Goto(f, "unlock")
        /\ UNCHANGED <<record, registry, reference_count, buffer, shared, syncing,
                       transaction_mutex, call>>
    BY <1>4 DEF ReleaseBody
  <2> QED
    BY <2>1, <1>1, <1>2, WorkStep DEF registryVars, TypeOK
<1> QED
  BY <1>3, <1>4

\* A workspace released through its context drops its reference.
LEMMA ReleaseWorkspaceBodyStep ==
  ASSUME InductiveInvariant, NEW f \in Frames, NEW b \in Buffers, ReleaseWorkspaceBody(f, b)
  PROVE  InductiveInvariant'
<1> DEFINE t == Thread(f)
           n == record[t].live - buffer[b].bytes
           r == [record[t] EXCEPT !.live = n]
<1> USE DEF InductiveInvariant
<1>1. /\ pc[f] = "work" /\ b \in Claimed(f) /\ call[f].op = "release_workspace"
      /\ Goto(f, "unlock")
      /\ UNCHANGED <<next_resource_token, context_active, transaction_mutex, shared,
                     owner, call, pin, current, syncing>>
  BY DEF ReleaseWorkspaceBody
<1>2. call[f].op \notin CleanupCalls /\ current[f] = {}
  BY <1>1 DEF CleanupCalls, BuffersInv, CurrentOK, Label
<1>3. CASE /\ buffer[b].bytes <= record[t].live
           /\ record' = [record EXCEPT ![t] = r] /\ ReleaseReference(buffer[b].owner)
           /\ buffer' = [buffer EXCEPT ![b] = FreeBuffer]
  <2>1. /\ buffer[b] \in Buffer /\ t \in Threads
        /\ record[t] \in EvaluationResourceState
    BY DEF TypeOK, Frames, Thread
  <2>2. n \in Nat
    BY <2>1, <1>3 DEF Buffer, EvaluationResourceState
  <2> HIDE DEF n
  <2>3. r \in EvaluationResourceState
    BY <2>1, <2>2, Updates
  <2> HIDE DEF r, t
  <2>4. Moved(f, "unlock")
    BY <1>1, <1>2, StaysLocked DEF Holding
  <2>5. /\ buffer' \in [Buffers -> Buffer] /\ buffer'[b] = FreeBuffer
        /\ \A c \in Buffers : c # b => buffer'[c] = buffer[c]
    BY <1>3, FreeBufferType DEF TypeOK
  <2>6. /\ ReferencesInv' /\ reference_count' \in [Tokens -> Nat]
        /\ registry' \in SUBSET registry
    BY <1>3, <2>5, <1>1, FreeBufferType, OwnerDropped
  <2>7. TypeOK'
    BY <1>3, <2>1, <2>3, <2>4, <2>5, <2>6, <1>1 DEF TypeOK, Moved
  <2>8. TokensInv'
    BY <2>6, <1>1 DEF TokensInv
  <2>9. BuffersInv'
    <3>1. CurrentOK(f)'
      BY <1>1, <1>2 DEF CurrentOK
    <3>2. BufferOK(b)'
      BY <2>5, FreeBufferType DEF BufferOK
    <3>3. buffer[b].user = {f}
      BY <1>1, ClaimedOwn
    <3> QED
      BY <3>1, <3>2, <3>3, <2>4, <2>5, <1>1, OneBufferStep DEF Moved
  <2> QED
    BY <2>4, <2>6, <2>7, <2>8, <2>9 DEF Moved
<1>4. CASE UNCHANGED <<record, registry, reference_count, buffer>>
  BY <1>1, <1>2, <1>4, WorkStep DEF registryVars, TypeOK
<1> QED
  BY <1>3, <1>4 DEF ReleaseWorkspaceBody

\* Consuming a binding keeps the reservation's reference.
LEMMA AggregateConsumeStep ==
  ASSUME InductiveInvariant, NEW f \in Frames, NEW b \in Buffers, AggregateConsume(f, b)
  PROVE  InductiveInvariant'
<1> DEFINE t == Thread(f)
           n == record[t].live - buffer[b].bytes
           r == [record[t] EXCEPT !.live = n]
<1> USE DEF InductiveInvariant
<1>1. /\ pc[f] = "work" /\ b \in Claimed(f) /\ call[f].op \in AggregateCalls
      /\ UNCHANGED <<registryVars, owner, pin>>
  BY DEF AggregateConsume
<1>2. call[f].op \notin CleanupCalls
  BY <1>1 DEF CleanupCalls, AggregateCalls
<1>3. CASE ~Consumable(b)
  <2>1. /\ Goto(f, "unlock")
        /\ UNCHANGED <<record, buffer, shared, syncing, transaction_mutex, call, current>>
    BY <1>3 DEF AggregateConsume
  <2> QED
    BY <2>1, <1>1, <1>2, WorkStep DEF TypeOK
<1>4. CASE Consumable(b)
  <2>1. /\ buffer' = [buffer EXCEPT ![b].bound = NoToken]
        /\ current' = [current EXCEPT ![f] = {b}]
    BY <1>4 DEF AggregateConsume
  <2>2. /\ buffer[b] \in Buffer /\ t \in Threads
        /\ record[t] \in EvaluationResourceState
    BY DEF TypeOK, Frames, Thread
  <2>3. Moved(f, "drop") /\ record' \in [Threads -> EvaluationResourceState]
    <3>1. CASE buffer[b].bytes <= record[t].live
      <4>1. /\ record' = [record EXCEPT ![t] = r] /\ FinishSync(f, r) /\ Unlock(f)
            /\ Notify(f, buffer[b].observer, "drop")
        BY <1>4, <3>1 DEF AggregateConsume
      <4>2. n \in Nat /\ buffer[b].observer \in BOOLEAN
        BY <2>2, <3>1 DEF Buffer, EvaluationResourceState
      <4> HIDE DEF n
      <4>3. r \in EvaluationResourceState
        BY <2>2, <4>2, Updates
      <4> HIDE DEF r, t
      <4>4. Moved(f, "drop")
        BY <4>1, <4>2, <4>3, <1>1, <1>2, PublishesAndNotifies DEF Holding
      <4> QED
        BY <4>1, <4>3, <4>4 DEF TypeOK
    <3>2. CASE ~(buffer[b].bytes <= record[t].live)
      <4>1. Goto(f, "drop") /\ UNCHANGED <<record, shared, syncing, transaction_mutex, call>>
        BY <1>4, <3>2 DEF AggregateConsume
      <4>2. Moved(f, "drop")
        BY <4>1, <1>1, <1>2, StaysLocked DEF Holding
      <4> QED
        BY <4>1, <4>2 DEF TypeOK
    <3> QED
      BY <3>1, <3>2
  <2> HIDE DEF t, n, r
  <2>4. /\ buffer' \in [Buffers -> Buffer]
        /\ \A c \in Buffers : c # b => buffer'[c] = buffer[c]
        /\ buffer'[b].owner = buffer[b].owner /\ buffer'[b].user = buffer[b].user
        /\ buffer'[b].allocated = buffer[b].allocated
    <3>1. buffer' = [buffer EXCEPT ![b] = [buffer[b] EXCEPT !.bound = NoToken]]
      BY <2>1
    <3> QED
      BY <3>1, <2>2, BufferUpdates DEF TypeOK
  <2>5. TypeOK'
    BY <2>1, <2>3, <2>4, <1>1 DEF TypeOK, Moved, registryVars
  <2>6. ReferencesInv'
    BY <2>4, <1>1, SameHolders DEF registryVars
  <2>7. TokensInv'
    BY <1>1 DEF TokensInv, registryVars
  <2>8. BuffersInv'
    <3>1. buffer[b].user = {f} /\ buffer[b].allocated
      BY <1>1, ClaimedOwn
    <3>2. current'[f] = {b}
      BY <2>1 DEF TypeOK
    <3>3. Label(f)' = "drop"
      BY <2>3 DEF Moved
    <3>4. CurrentOK(f)'
      BY <3>1, <3>2, <3>3, <2>4 DEF CurrentOK
    <3>5. BufferOK(b)'
      BY <3>1, <2>4 DEF BuffersInv, BufferOK
    <3> QED
      BY <3>1, <3>4, <3>5, <2>1, <2>3, <2>4, OneBufferStep DEF Moved, TypeOK
  <2> QED
    BY <2>3, <2>5, <2>6, <2>7, <2>8 DEF Moved
<1> QED
  BY <1>3, <1>4

\* A reservation of a tuple drops its reference while the call is pinned.
LEMMA AggregateDropStep ==
  ASSUME InductiveInvariant, NEW f \in Frames, NEW b \in Buffers, AggregateDrop(f, b)
  PROVE  InductiveInvariant'
<1> USE DEF InductiveInvariant
<1>1. /\ pc[f] = "drop" /\ b \in current[f] /\ ReleaseReference(buffer[b].owner)
      /\ UNCHANGED <<next_resource_token, context_active, owner, record, pin>>
  BY DEF AggregateDrop
<1>2. /\ call[f].op \notin CleanupCalls /\ current[f] = {b}
      /\ buffer[b].user = {f} /\ buffer[b].allocated
  BY <1>1, ClaimedOwn DEF LabelsInv, LabelOK, Label, BuffersInv, CurrentOK
<1>3. /\ buffer[b] \in Buffer /\ record[Thread(f)] \in EvaluationResourceState
      /\ buffer[b].observer \in BOOLEAN
  BY DEF TypeOK, Frames, Thread, Buffer
<1> DEFINE x == [buffer[b] EXCEPT !.owner = NoToken]
           y == [x EXCEPT !.user = {}]
<1>4. /\ x \in Buffer /\ x.owner = NoToken /\ x.user = {f} /\ x.allocated
      /\ y \in Buffer /\ y.owner = NoToken /\ y.user = {} /\ y.allocated
  <2>1. x \in Buffer /\ x.owner = NoToken /\ x.user = {f} /\ x.allocated
    BY <1>2, <1>3, BufferUpdates
  <2> HIDE DEF x
  <2>2. {} \in SUBSET Frames
    OBVIOUS
  <2> QED
    BY <2>1, <2>2, UserUpdate
<1>5. CASE call[f].op = "release_value_reservations"
  <2>1. /\ buffer' = [buffer EXCEPT ![b] = x] /\ UNCHANGED current
        /\ FinishSync(f, record[Thread(f)]) /\ Unlock(f)
        /\ Notify(f, buffer[b].observer, "reset")
    BY <1>1, <1>5 DEF AggregateDrop
  <2> HIDE DEF x, y
  <2>2. Moved(f, "reset")
    BY <2>1, <1>1, <1>2, <1>3, PublishesAndNotifies DEF Holding
  <2>3. /\ buffer' \in [Buffers -> Buffer] /\ buffer'[b] = x
        /\ \A c \in Buffers : c # b => buffer'[c] = buffer[c]
    BY <2>1, <1>4 DEF TypeOK
  <2>4. /\ ReferencesInv' /\ reference_count' \in [Tokens -> Nat]
        /\ registry' \in SUBSET registry
    BY <2>3, <1>1, <1>4, OwnerDropped
  <2>5. TypeOK'
    BY <2>1, <2>2, <2>3, <2>4, <1>1 DEF TypeOK, Moved
  <2>6. TokensInv'
    BY <2>4, <1>1 DEF TokensInv
  <2>7. BuffersInv'
    <3>1. Label(f)' = "reset"
      BY <2>2 DEF Moved
    <3>2. CurrentOK(f)'
      BY <3>1, <2>1, <2>3, <1>2, <1>4 DEF CurrentOK
    <3>3. BufferOK(b)'
      BY <2>3, <1>4 DEF BufferOK
    <3> QED
      BY <3>2, <3>3, <2>1, <2>2, <2>3, <1>2, OneBufferStep DEF Moved
  <2> QED
    BY <2>2, <2>4, <2>5, <2>6, <2>7 DEF Moved
<1>6. CASE call[f].op # "release_value_reservations"
  <2> DEFINE l == IF Claimed(f) = {b} THEN "unlock" ELSE "work"
  <2>1. /\ buffer' = [buffer EXCEPT ![b] = y] /\ current' = [current EXCEPT ![f] = {}]
        /\ Goto(f, l) /\ UNCHANGED <<shared, syncing, transaction_mutex, call>>
    BY <1>1, <1>6 DEF AggregateDrop
  <2>2. l \in {"unlock", "work"}
    OBVIOUS
  <2> HIDE DEF l, x, y
  <2>3. Moved(f, l)
    BY <2>1, <2>2, <1>1, <1>2, StaysLocked DEF Holding
  <2>4. /\ buffer' \in [Buffers -> Buffer] /\ buffer'[b] = y
        /\ \A c \in Buffers : c # b => buffer'[c] = buffer[c]
    BY <2>1, <1>4 DEF TypeOK
  <2>5. /\ ReferencesInv' /\ reference_count' \in [Tokens -> Nat]
        /\ registry' \in SUBSET registry
    BY <2>4, <1>1, <1>4, OwnerDropped
  <2>6. TypeOK'
    BY <2>1, <2>3, <2>4, <2>5, <1>1 DEF TypeOK, Moved
  <2>7. TokensInv'
    BY <2>5, <1>1 DEF TokensInv
  <2>8. BuffersInv'
    <3>1. CurrentOK(f)'
      BY <2>1 DEF CurrentOK, TypeOK
    <3>2. BufferOK(b)'
      BY <2>4, <1>4 DEF BufferOK
    <3> QED
      BY <3>1, <3>2, <2>1, <2>3, <2>4, <1>2, OneBufferStep DEF Moved, TypeOK
  <2> QED
    BY <2>3, <2>5, <2>6, <2>7, <2>8 DEF Moved
<1> QED
  BY <1>5, <1>6

\* Freeing storage whose owner was dropped moves no reference.
LEMMA AggregateResetStep ==
  ASSUME InductiveInvariant, NEW f \in Frames, NEW b \in Buffers, AggregateReset(f, b)
  PROVE  InductiveInvariant'
<1> DEFINE l == IF Claimed(f) = {b} THEN "unlock" ELSE "work"
<1> USE DEF InductiveInvariant
<1>1. /\ pc[f] = "reset" /\ b \in current[f]
      /\ buffer' = [buffer EXCEPT ![b] = FreeBuffer]
      /\ current' = [current EXCEPT ![f] = {}] /\ Goto(f, l)
      /\ UNCHANGED <<next_resource_token, registry, reference_count, context_active,
                     transaction_mutex, shared, owner, record, call, pin, syncing>>
  BY DEF AggregateReset, registryVars
<1>2. l \in {"unlock", "work"}
  OBVIOUS
<1> HIDE DEF l
<1>3. /\ call[f].op \notin CleanupCalls /\ buffer[b].owner = NoToken
      /\ buffer[b].user = {f}
  BY <1>1, ClaimedOwn DEF LabelsInv, LabelOK, Label, BuffersInv, CurrentOK
<1>4. Moved(f, l)
  BY <1>1, <1>2, <1>3, StaysLocked DEF Holding
<1>5. /\ buffer' \in [Buffers -> Buffer] /\ buffer'[b] = FreeBuffer
      /\ \A c \in Buffers : c # b => buffer'[c] = buffer[c]
  BY <1>1, FreeBufferType DEF TypeOK
<1>6. ReferencesInv'
  BY <1>1, <1>3, <1>5, FreeBufferType, SameHolders
<1>7. TypeOK'
  BY <1>1, <1>4, <1>5 DEF TypeOK, Moved
<1>8. TokensInv'
  BY <1>1 DEF TokensInv
<1>9. BuffersInv'
  <2>1. CurrentOK(f)'
    BY <1>1 DEF CurrentOK, TypeOK
  <2>2. BufferOK(b)'
    BY <1>5, FreeBufferType DEF BufferOK
  <2> QED
    BY <2>1, <2>2, <1>1, <1>3, <1>4, <1>5, OneBufferStep DEF Moved, TypeOK
<1> QED
  BY <1>4, <1>6, <1>7, <1>8, <1>9 DEF Moved

\* Context-free consumption of a binding moves no reference.
LEMMA ConsumeStep ==
  ASSUME InductiveInvariant, NEW f \in Frames, NEW b \in Buffers, Consume(f, b)
  PROVE  InductiveInvariant'
<1> DEFINE l == IF Consumable(b) THEN "refund" ELSE "owner"
<1> USE DEF InductiveInvariant
<1>1. /\ pc[f] = "consume" /\ b \in Claimed(f)
      /\ current' = [current EXCEPT ![f] = {b}]
      /\ buffer' = [buffer EXCEPT ![b] = [buffer[b] EXCEPT !.bound = NoToken]]
      /\ pc' = [pc EXCEPT ![f] = l]
      /\ UNCHANGED <<next_resource_token, registry, reference_count, context_active,
                     transaction_mutex, shared, owner, record, call, pin, syncing>>
  BY DEF Consume, Goto, registryVars
<1>2. l \in {"refund", "owner"} /\ l \in PCs
  BY DEF PCs
<1> HIDE DEF l
<1>3. /\ call[f].op \in CleanupCalls /\ pin[f] = NoToken
      /\ buffer[b].user = {f} /\ buffer[b].allocated
  BY <1>1, ClaimedOwn DEF LabelsInv, LabelOK, Label
<1>4. /\ buffer' \in [Buffers -> Buffer]
      /\ \A c \in Buffers : c # b => buffer'[c] = buffer[c]
      /\ buffer'[b].owner = buffer[b].owner /\ buffer'[b].user = {f}
      /\ buffer'[b].allocated
  <2> DEFINE x == [buffer[b] EXCEPT !.bound = NoToken]
  <2>1. /\ x \in Buffer /\ x.owner = buffer[b].owner /\ x.user = buffer[b].user
        /\ x.allocated = buffer[b].allocated
    BY BufferUpdates DEF TypeOK
  <2>2. buffer' = [buffer EXCEPT ![b] = x]
    BY <1>1
  <2> HIDE DEF x
  <2> QED
    BY <2>1, <2>2, <1>3 DEF TypeOK
<1>5. TypeOK'
  BY <1>1, <1>2, <1>4 DEF TypeOK
<1>6. ReferencesInv'
  BY <1>1, <1>4, SameHolders
<1>7. TokensInv'
  BY <1>1 DEF TokensInv
<1>8. Label(f)' = l
  BY <1>1, <1>2 DEF Label, TypeOK
<1>9. LabelsInv'
  <2>1. LabelOK(f)'
    BY <1>1, <1>2, <1>3, <1>8 DEF LabelOK, Holding, TypeOK
  <2> QED
    BY <2>1, <1>1, LabelStep DEF TypeOK
<1>10. MutexInv'
  BY <1>1, <1>2, MutexKept DEF Holding
<1>11. BuffersInv'
  <2>1. CurrentOK(f)'
    BY <1>1, <1>2, <1>3, <1>4, <1>8 DEF CurrentOK, TypeOK
  <2>2. BufferOK(b)'
    BY <1>4 DEF BufferOK
  <2> QED
    BY <2>1, <2>2, <1>1, <1>3, <1>4, OneBufferStep DEF TypeOK
<1>12. NestingInv'
  BY <1>1, <1>2, NestingStep
<1> QED
  BY <1>5, <1>6, <1>7, <1>9, <1>10, <1>11, <1>12

\* acquire_accounting_owner: the reservation keeps its owner registered.
LEMMA RefundPinStep ==
  ASSUME InductiveInvariant, NEW f \in Frames, NEW b \in Buffers, RefundPin(f, b)
  PROVE  InductiveInvariant'
<1> DEFINE tok == buffer[b].owner
           l == IF tok \in registry THEN "lock" ELSE "owner"
<1> USE DEF InductiveInvariant
<1>1. /\ pc[f] = "refund" /\ b \in current[f] /\ pc' = [pc EXCEPT ![f] = l]
      /\ UNCHANGED <<next_resource_token, registry, context_active, transaction_mutex,
                     shared, owner, record, buffer, current, syncing>>
  BY DEF RefundPin, Goto
<1>2. call[f].op \in CleanupCalls /\ pin[f] = NoToken /\ LabelOK(f) /\ CurrentOK(f)
  BY <1>1 DEF LabelsInv, LabelOK, Label, BuffersInv
<1>3. l \in PCs /\ l \notin Holding
  BY DEF PCs, Holding
<1>4. /\ ReferencesInv' /\ reference_count' \in [Tokens -> Nat]
      /\ pin' \in [Frames -> 0 .. MaxToken] /\ call' \in [Frames -> Call]
      /\ LabelOK(f)' /\ CurrentOK(f)'
      /\ \A g \in Frames : g # f => call'[g] = call[g] /\ pin'[g] = pin[g]
  <2>1. CASE tok \in registry
    <3>1. /\ AcquireReference(tok) /\ pin' = [pin EXCEPT ![f] = tok]
          /\ call' = [call EXCEPT ![f].resume = "work"] /\ pc' = [pc EXCEPT ![f] = "lock"]
      BY <2>1 DEF RefundPin, Goto
    <3>2. tok \in Tokens /\ tok # NoToken /\ tok \in 0 .. MaxToken
      <4>1. tok \in Tokens
        BY <2>1 DEF TypeOK
      <4> QED
        BY <4>1, BoundsAssumption DEF Tokens, NoToken
    <3> HIDE DEF tok
    <3>3. ReferencesInv' /\ reference_count' \in [Tokens -> Nat]
      BY <2>1, <3>1, <1>1, <1>2, PinTaken
    <3>4. /\ call' \in [Frames -> Call] /\ call'[f].resume = "work"
          /\ call'[f].op = call[f].op /\ \A g \in Frames : g # f => call'[g] = call[g]
      BY <3>1 DEF TypeOK, Call, PCs, Holding
    <3>5. pc'[f] = "lock" /\ pin'[f] = tok
      BY <3>1 DEF TypeOK
    <3>6. Label(f)' = "work"
      BY <3>4, <3>5 DEF Label
    <3>7. LabelOK(f)'
      BY <3>2, <3>4, <3>5, <3>6 DEF LabelOK, Holding
    <3>8. CurrentOK(f)'
      BY <3>4, <3>6, <1>1, <1>2 DEF CurrentOK
    <3> QED
      BY <3>1, <3>2, <3>3, <3>4, <3>7, <3>8 DEF TypeOK
  <2>2. CASE tok \notin registry
    <3>1. UNCHANGED <<reference_count, pin, call>> /\ pc' = [pc EXCEPT ![f] = "owner"]
      BY <2>2 DEF RefundPin, Goto
    <3>2. ReferencesInv'
      BY <3>1, <1>1, SameHolders
    <3>3. pc'[f] = "owner" /\ Label(f)' = "owner"
      BY <3>1 DEF Label, TypeOK
    <3>4. LabelOK(f)'
      BY <3>1, <3>3, <1>2 DEF LabelOK, Holding
    <3>5. CurrentOK(f)'
      BY <3>1, <3>3, <1>1, <1>2 DEF CurrentOK
    <3> QED
      BY <3>1, <3>2, <3>4, <3>5 DEF TypeOK
  <2> QED
    BY <2>1, <2>2
<1> HIDE DEF tok, l
<1>5. TypeOK'
  BY <1>1, <1>3, <1>4 DEF TypeOK
<1>6. TokensInv'
  BY <1>1 DEF TokensInv
<1>7. LabelsInv'
  BY <1>1, <1>4, LabelStep DEF TypeOK
<1>8. MutexInv'
  BY <1>1, <1>3, <1>4, MutexKept DEF Holding
<1>9. BuffersInv'
  BY <1>1, <1>4, BufferStep DEF BuffersInv, BufferOK, TypeOK
<1>10. NestingInv'
  BY <1>1, <1>3, NestingStep
<1> QED
  BY <1>4, <1>5, <1>6, <1>7, <1>8, <1>9, <1>10

\* The refund under the mutex.
LEMMA RefundBodyStep ==
  ASSUME InductiveInvariant, NEW f \in Frames, NEW b \in Buffers, RefundBody(f, b)
  PROVE  InductiveInvariant'
<1> DEFINE l == IF call[f].op = "abandon" THEN "owner" ELSE "unpin"
           s == shared[pin[f]]
           n == IF buffer[b].bytes <= s.live THEN s.live - buffer[b].bytes ELSE s.live
<1> USE DEF InductiveInvariant
<1>1. /\ pc[f] = "work" /\ call[f].op \in CleanupCalls /\ b \in current[f]
      /\ shared' = [shared EXCEPT ![pin[f]] = [s EXCEPT !.live = n]]
      /\ Unlock(f) /\ pc' = [pc EXCEPT ![f] = l]
      /\ UNCHANGED <<next_resource_token, registry, reference_count, context_active,
                     owner, record, buffer, call, pin, current, syncing>>
  BY DEF RefundBody, Goto, registryVars
<1>2. l \in PCs /\ l \notin Holding /\ l \in {"owner", "unpin"}
  BY DEF PCs, Holding
<1>3. pin[f] \in Tokens /\ pin[f] # NoToken /\ CurrentOK(f)
  BY <1>1, Pinned DEF LabelsInv, LabelOK, Label, Holding, BuffersInv
<1>4. shared' \in [Tokens -> EvaluationResourceState]
  <2>1. s \in EvaluationResourceState /\ buffer[b] \in Buffer
    BY <1>3 DEF TypeOK
  <2>2. n \in Nat
    BY <2>1 DEF Buffer, EvaluationResourceState
  <2> HIDE DEF n
  <2>3. [s EXCEPT !.live = n] \in EvaluationResourceState
    BY <2>1, <2>2, Updates
  <2> QED
    BY <2>3, <1>1 DEF TypeOK
<1>5. TypeOK'
  BY <1>1, <1>2, <1>4 DEF TypeOK, Unlock
<1>6. ReferencesInv'
  BY <1>1, SameHolders
<1>7. TokensInv'
  BY <1>1 DEF TokensInv
<1>8. pc'[f] = l /\ Label(f)' = l
  BY <1>1, <1>2 DEF Label, TypeOK
<1>9. LabelsInv'
  <2>1. LabelOK(f)'
    BY <1>1, <1>3, <1>8 DEF LabelOK, Holding, CleanupCalls
  <2> QED
    BY <2>1, <1>1, LabelStep DEF TypeOK
<1>10. MutexInv'
  BY <1>1, <1>2, <1>3, MutexDropped DEF Holding
<1>11. BuffersInv'
  <2>1. CurrentOK(f)'
    BY <1>1, <1>3, <1>8 DEF CurrentOK
  <2> QED
    BY <2>1, <1>1, BufferStep DEF BuffersInv, BufferOK, TypeOK
<1>12. NestingInv'
  BY <1>1, <1>2, NestingStep
<1> QED
  BY <1>5, <1>6, <1>7, <1>9, <1>10, <1>11, <1>12

\* release_accounting_owner: the reservation lets go.
LEMMA DropOwnerStep ==
  ASSUME InductiveInvariant, NEW f \in Frames, NEW b \in Buffers, DropOwner(f, b)
  PROVE  InductiveInvariant'
<1> DEFINE x == [buffer[b] EXCEPT !.owner = NoToken]
<1> USE DEF InductiveInvariant
<1>1. /\ pc[f] = "owner" /\ b \in current[f] /\ ReleaseReference(buffer[b].owner)
      /\ buffer' = [buffer EXCEPT ![b] = x]
      /\ UNCHANGED <<next_resource_token, context_active, transaction_mutex, shared,
                     owner, record, pin, current, syncing>>
  BY DEF DropOwner
<1>2. /\ call[f].op \in CleanupCalls /\ (pin[f] # NoToken => call[f].op = "abandon")
      /\ current[f] = {b} /\ buffer[b].user = {f} /\ buffer[b].allocated
  BY <1>1, ClaimedOwn DEF LabelsInv, LabelOK, Label, BuffersInv, CurrentOK
<1>3. /\ x \in Buffer /\ x.owner = NoToken /\ x.user = {f} /\ x.allocated
      /\ buffer[b].observer \in BOOLEAN
  BY <1>2, BufferUpdates DEF TypeOK
<1> HIDE DEF x
<1>4. /\ buffer' \in [Buffers -> Buffer] /\ buffer'[b] = x
      /\ \A c \in Buffers : c # b => buffer'[c] = buffer[c]
  BY <1>1, <1>3 DEF TypeOK
<1>5. /\ ReferencesInv' /\ reference_count' \in [Tokens -> Nat]
      /\ registry' \in SUBSET registry
  BY <1>1, <1>3, <1>4, OwnerDropped
<1>6. \E l \in PCs \ Holding :
        /\ pc' = [pc EXCEPT ![f] = l] /\ call' \in [Frames -> Call]
        /\ call'[f].op = call[f].op /\ \A g \in Frames : g # f => call'[g] = call[g]
        /\ Label(f)' = (IF pin[f] = NoToken THEN "free" ELSE "unpin")
        /\ LabelOK(f)'
  <2>1. CASE call[f].op = "abandon"
    <3> DEFINE l == IF pin[f] = NoToken THEN "free" ELSE "unpin"
    <3>1. pc' = [pc EXCEPT ![f] = l] /\ UNCHANGED call
      BY <2>1 DEF DropOwner, Goto
    <3>2. l \in PCs \ Holding /\ l \in {"free", "unpin"}
      BY DEF PCs, Holding
    <3>3. pc'[f] = l /\ Label(f)' = l
      BY <3>1, <3>2 DEF Label, TypeOK
    <3>4. LabelOK(f)'
      BY <3>1, <3>3, <1>1, <1>2 DEF LabelOK, Holding
    <3> QED
      BY <3>1, <3>2, <3>3, <3>4 DEF TypeOK
  <2>2. CASE call[f].op # "abandon"
    <3>1. Notify(f, buffer[b].observer, "free") /\ pin[f] = NoToken
      BY <2>2, <1>2 DEF DropOwner
    <3>2. "free" \in PCs /\ "callback" \in PCs \ Holding
      BY DEF PCs, Holding
    <3>3. /\ call' \in [Frames -> Call] /\ pc' = [pc EXCEPT ![f] = "callback"]
          /\ call'[f].resume = "free" /\ call'[f].op = call[f].op
          /\ \A g \in Frames : g # f => call'[g] = call[g]
          /\ Label(f)' = "free"
      BY <3>1, <3>2, <1>3, NotifyStep
    <3>4. LabelOK(f)'
      BY <3>1, <3>3, <1>1, <1>2 DEF LabelOK, Holding, TypeOK
    <3> QED
      BY <3>1, <3>2, <3>3, <3>4
  <2> QED
    BY <2>1, <2>2
<1>7. PICK l \in PCs \ Holding :
        /\ pc' = [pc EXCEPT ![f] = l] /\ call' \in [Frames -> Call]
        /\ call'[f].op = call[f].op /\ \A g \in Frames : g # f => call'[g] = call[g]
        /\ Label(f)' = (IF pin[f] = NoToken THEN "free" ELSE "unpin")
        /\ LabelOK(f)'
  BY <1>6
<1>8. TypeOK'
  BY <1>1, <1>4, <1>5, <1>7 DEF TypeOK
<1>9. TokensInv'
  BY <1>1, <1>5 DEF TokensInv
<1>10. LabelsInv'
  BY <1>1, <1>7, LabelStep DEF TypeOK
<1>11. MutexInv'
  BY <1>1, <1>7, MutexKept DEF Holding
<1>12. BuffersInv'
  <2>1. CurrentOK(f)'
    BY <1>1, <1>2, <1>3, <1>4, <1>7 DEF CurrentOK
  <2>2. BufferOK(b)'
    BY <1>3, <1>4 DEF BufferOK
  <2> QED
    BY <2>1, <2>2, <1>1, <1>2, <1>4, <1>7, OneBufferStep DEF TypeOK
<1>13. NestingInv'
  BY <1>1, <1>7, NestingStep
<1> QED
  BY <1>5, <1>8, <1>9, <1>10, <1>11, <1>12, <1>13

\* Freeing storage whose owner was dropped, and the next reservation.
LEMMA FreeStorageStep ==
  ASSUME InductiveInvariant, NEW f \in Frames, NEW b \in Buffers, FreeStorage(f, b)
  PROVE  InductiveInvariant'
<1> USE DEF InductiveInvariant
<1>1. /\ pc[f] = "free" /\ b \in current[f]
      /\ buffer' = [buffer EXCEPT ![b] = FreeBuffer]
      /\ current' = [current EXCEPT ![f] = {}]
      /\ UNCHANGED <<next_resource_token, registry, reference_count, context_active,
                     transaction_mutex, shared, owner, record, pin, syncing>>
  BY DEF FreeStorage, registryVars
<1>2. /\ call[f].op \in CleanupCalls /\ pin[f] = NoToken
      /\ buffer[b].user = {f} /\ buffer[b].owner = NoToken
  BY <1>1, ClaimedOwn DEF LabelsInv, LabelOK, Label, BuffersInv, CurrentOK
<1>3. /\ buffer' \in [Buffers -> Buffer] /\ buffer'[b] = FreeBuffer
      /\ \A c \in Buffers : c # b => buffer'[c] = buffer[c]
  BY <1>1, FreeBufferType DEF TypeOK
<1>4. \E l \in {"idle", "consume"} :
        /\ pc' = [pc EXCEPT ![f] = l] /\ call' \in [Frames -> Call]
        /\ \A g \in Frames : g # f => call'[g] = call[g]
        /\ l = "consume" => call'[f].op \in CleanupCalls
  <2>1. CASE Claimed(f) = {b}
    <3>1. pc' = [pc EXCEPT ![f] = "idle"] /\ call' = [call EXCEPT ![f] = NoCall]
      BY <2>1 DEF FreeStorage, Return
    <3> QED
      BY <3>1, NoCallType DEF TypeOK
  <2>2. CASE Claimed(f) # {b}
    <3>1. pc' = [pc EXCEPT ![f] = "consume"] /\ UNCHANGED call
      BY <2>2 DEF FreeStorage, Goto
    <3> QED
      BY <3>1, <1>2 DEF TypeOK
  <2> QED
    BY <2>1, <2>2
<1>5. PICK l \in {"idle", "consume"} :
        /\ pc' = [pc EXCEPT ![f] = l] /\ call' \in [Frames -> Call]
        /\ \A g \in Frames : g # f => call'[g] = call[g]
        /\ l = "consume" => call'[f].op \in CleanupCalls
  BY <1>4
<1>6. l \in PCs /\ l \notin Holding
  BY DEF PCs, Holding
<1>7. TypeOK'
  BY <1>1, <1>3, <1>5, <1>6 DEF TypeOK
<1>8. ReferencesInv'
  BY <1>1, <1>2, <1>3, FreeBufferType, SameHolders
<1>9. TokensInv'
  BY <1>1 DEF TokensInv
<1>10. LabelsInv'
  <2>1. pc'[f] = l /\ Label(f)' = l
    BY <1>5 DEF Label, TypeOK
  <2>2. LabelOK(f)'
    BY <2>1, <1>1, <1>2, <1>5 DEF LabelOK, Holding
  <2> QED
    BY <2>2, <1>1, <1>5, LabelStep DEF TypeOK
<1>11. MutexInv'
  BY <1>1, <1>5, <1>6, MutexKept DEF Holding
<1>12. BuffersInv'
  <2>1. CurrentOK(f)'
    BY <1>1 DEF CurrentOK, TypeOK
  <2>2. BufferOK(b)'
    BY <1>3, FreeBufferType DEF BufferOK
  <2> QED
    BY <2>1, <2>2, <1>1, <1>2, <1>3, <1>5, OneBufferStep DEF TypeOK
<1>13. NestingInv'
  BY <1>1, <1>5, <1>6, NestingStep
<1> QED
  BY <1>7, <1>8, <1>9, <1>10, <1>11, <1>12, <1>13

\* release_acquired_resource_state: the pin lets go.
LEMMA UnpinStep ==
  ASSUME InductiveInvariant, NEW f \in Frames, Unpin(f)
  PROVE  InductiveInvariant'
<1> USE DEF InductiveInvariant
<1>1. /\ pc[f] = "unpin" /\ ReleaseReference(pin[f])
      /\ pin' = [pin EXCEPT ![f] = NoToken]
      /\ UNCHANGED <<next_resource_token, context_active, transaction_mutex, shared,
                     owner, record, current, syncing>>
  BY DEF Unpin
<1>2. pin[f] \in Tokens /\ CurrentOK(f) /\ Label(f) = "unpin"
  BY <1>1, Pinned DEF Label, BuffersInv
<1>3. \E l \in PCs \ Holding :
        /\ pc' = [pc EXCEPT ![f] = l] /\ call' \in [Frames -> Call]
        /\ \A g \in Frames : g # f => call'[g] = call[g]
        /\ LabelOK(f)' /\ BuffersInv'
        /\ buffer' \in [Buffers -> Buffer]
        /\ \A c \in Buffers : buffer'[c].owner = buffer[c].owner
  <2>0. pin'[f] = NoToken
    BY <1>1 DEF TypeOK
  <2>1. CASE call[f].op = "destroy_value"
    <3>1. PICK b \in current[f] : Notify(f, buffer[b].observer, "owner")
      BY <2>1 DEF Unpin
    <3>2. UNCHANGED buffer /\ buffer[b].observer \in BOOLEAN
      BY <2>1 DEF Unpin, TypeOK, Buffer
    <3>3. "owner" \in PCs /\ "callback" \in PCs \ Holding
      BY DEF PCs, Holding
    <3>4. /\ call' \in [Frames -> Call] /\ pc' = [pc EXCEPT ![f] = "callback"]
          /\ call'[f].resume = "owner" /\ call'[f].op = call[f].op
          /\ \A g \in Frames : g # f => call'[g] = call[g]
          /\ Label(f)' = "owner"
      BY <3>1, <3>2, <3>3, NotifyStep
    <3>5. LabelOK(f)'
      BY <2>0, <2>1, <3>4 DEF LabelOK, Holding, CleanupCalls, TypeOK
    <3>6. CurrentOK(f)'
      BY <3>2, <3>4, <1>1, <1>2 DEF CurrentOK
    <3>7. BuffersInv'
      BY <3>2, <3>4, <3>6, <1>1, BufferStep DEF BuffersInv, BufferOK, TypeOK
    <3> QED
      BY <3>2, <3>3, <3>4, <3>5, <3>7 DEF TypeOK
  <2>2. CASE call[f].op = "abandon"
    <3>1. pc' = [pc EXCEPT ![f] = "free"] /\ UNCHANGED <<call, buffer>>
      BY <2>2 DEF Unpin, Goto
    <3>2. pc'[f] = "free" /\ Label(f)' = "free" /\ "free" \in PCs \ Holding
      BY <3>1 DEF Label, TypeOK, PCs, Holding
    <3>3. LabelOK(f)'
      BY <2>0, <2>2, <3>1, <3>2 DEF LabelOK, Holding, CleanupCalls
    <3>4. CurrentOK(f)'
      BY <2>2, <3>1, <3>2, <1>1, <1>2 DEF CurrentOK
    <3>5. BuffersInv'
      BY <3>1, <3>4, <1>1, BufferStep DEF BuffersInv, BufferOK, TypeOK
    <3> QED
      BY <3>1, <3>2, <3>3, <3>5 DEF TypeOK
  <2>3. CASE call[f].op \notin {"destroy_value", "abandon"}
    <3>1. /\ pc' = [pc EXCEPT ![f] = "idle"] /\ call' = [call EXCEPT ![f] = NoCall]
          /\ buffer' = [b \in Buffers |-> [buffer[b] EXCEPT !.user = buffer[b].user \ {f}]]
      BY <2>3 DEF Unpin, Return
    <3>2. pc'[f] = "idle" /\ Label(f)' = "idle" /\ "idle" \in PCs \ Holding
      BY <3>1 DEF Label, TypeOK, PCs, Holding
    <3>3. current[f] = {}
      BY <2>3, <1>2 DEF CurrentOK, CleanupCalls
    <3>4. LabelOK(f)'
      BY <2>0, <3>2 DEF LabelOK, Holding
    <3>5. CurrentOK(f)'
      BY <3>3, <1>1 DEF CurrentOK
    <3>6. ASSUME NEW c \in Buffers
          PROVE  /\ buffer'[c] \in Buffer /\ buffer'[c].owner = buffer[c].owner
                 /\ buffer'[c].user = buffer[c].user \ {f}
                 /\ buffer'[c].allocated = buffer[c].allocated
      <4> DEFINE u == buffer[c].user \ {f}
      <4>1. buffer[c] \in Buffer /\ u \in SUBSET Frames
        BY DEF TypeOK, Buffer
      <4>2. buffer'[c] = [buffer[c] EXCEPT !.user = u]
        BY <3>1
      <4> HIDE DEF u
      <4> QED
        BY <4>1, <4>2, UserUpdate DEF u
    <3>7. \A c \in Buffers : BufferOK(c)'
      BY <3>6 DEF BuffersInv, BufferOK
    <3>8. \A c \in Buffers : \A g \in buffer[c].user :
            g # f => buffer'[c].user = buffer[c].user
      <4> SUFFICES ASSUME NEW c \in Buffers, NEW g \in buffer[c].user, g # f
                   PROVE  buffer'[c].user = buffer[c].user
        OBVIOUS
      <4>1. buffer[c].user = {g}
        BY DEF BuffersInv, BufferOK
      <4> QED
        BY <4>1, <3>6
    <3>9. BuffersInv'
      BY <3>1, <3>5, <3>6, <3>7, <3>8, <1>1, BufferStep DEF TypeOK
    <3>10. buffer' \in [Buffers -> Buffer]
      BY <3>1, <3>6
    <3> QED
      BY <3>1, <3>2, <3>4, <3>6, <3>9, <3>10, NoCallType DEF TypeOK
  <2> QED
    BY <2>1, <2>2, <2>3
<1>4. PICK l \in PCs \ Holding :
        /\ pc' = [pc EXCEPT ![f] = l] /\ call' \in [Frames -> Call]
        /\ \A g \in Frames : g # f => call'[g] = call[g]
        /\ LabelOK(f)' /\ BuffersInv'
        /\ buffer' \in [Buffers -> Buffer]
        /\ \A c \in Buffers : buffer'[c].owner = buffer[c].owner
  BY <1>3
<1>5. /\ ReferencesInv' /\ reference_count' \in [Tokens -> Nat]
      /\ registry' \in SUBSET registry
  BY <1>1, <1>2, <1>4, PinDropped
<1>6. TypeOK'
  BY <1>1, <1>4, <1>5, BoundsAssumption DEF TypeOK, NoToken
<1>7. TokensInv'
  BY <1>1, <1>5 DEF TokensInv
<1>8. LabelsInv'
  BY <1>1, <1>4, LabelStep DEF TypeOK
<1>9. MutexInv'
  BY <1>1, <1>4, MutexKept DEF Holding, TypeOK
<1>10. NestingInv'
  BY <1>1, <1>4, NestingStep
<1> QED
  BY <1>4, <1>5, <1>6, <1>7, <1>8, <1>9, <1>10

-----------------------------------------------------------------------------
(***************************************************************************)
(* The inductive invariant, and what follows from it.                      *)
(***************************************************************************)
LEMMA InitInvariant == Init => InductiveInvariant
<1> SUFFICES ASSUME Init PROVE InductiveInvariant
  OBVIOUS
<1>1. FailedRecord \in EvaluationResourceState
  BY DEF FailedRecord, EvaluationResourceState, Configuration
<1>2. "idle" \in PCs /\ "idle" \notin Holding /\ NoToken \in 0 .. MaxToken /\ NoToken \notin Tokens
  BY BoundsAssumption DEF PCs, Holding, NoToken, Tokens
<1>3. TypeOK
  BY <1>1, <1>2, FreeBufferType, NoCallType, BoundsAssumption DEF Init, TypeOK
<1>4. ReferencesInv
  <2>1. \A tok \in Tokens : Holders(tok) = {}
    BY <1>2, FreeBufferType DEF Init, Holders
  <2> QED
    BY <2>1, FS_EmptySet DEF Init, ReferencesInv
<1>5. TokensInv
  BY DEF Init, TokensInv, NoToken
<1>6. LabelsInv
  BY DEF Init, LabelsInv, LabelOK, Label, Holding
<1>7. MutexInv
  BY <1>2 DEF Init, MutexInv
<1>8. BuffersInv
  BY FreeBufferType DEF Init, BuffersInv, BufferOK, CurrentOK
<1>9. NestingInv
  BY BoundsAssumption DEF Init, NestingInv
<1> QED
  BY <1>3, <1>4, <1>5, <1>6, <1>7, <1>8, <1>9 DEF InductiveInvariant

\* Every call may begin.
LEMMA BeginPreserves ==
  ASSUME InductiveInvariant, NEW f \in Frames, Begin(f)
  PROVE  InductiveInvariant'
  BY MakeContextStep, ReleaseContextStep, BeginSnapshotCallStep, BeginUpdateStep,
     BeginChargeStep, BeginReleaseStep, BeginCleanupStep DEF Begin

\* Every step of a call preserves the invariant.
LEMMA StepPreserves ==
  ASSUME InductiveInvariant, NEW f \in Frames, Step(f)
  PROVE  InductiveInvariant'
<1>1. CASE \/ Lock(f) \/ Leave(f) \/ Unpin(f) \/ EndCallback(f)
           \/ ReleaseContextBody(f) \/ RefreshBody(f) \/ SetObserverBody(f) \/ UpdateBody(f)
           \/ ChargeWithoutStorage(f) \/ AllocationFails(f)
  BY <1>1, LockStep, LeaveStep, UnpinStep, EndCallbackStep, ReleaseContextBodyStep,
     RefreshBodyStep, SetObserverBodyStep, UpdateBodyStep, ChargeWithoutStorageStep,
     AllocationFailsStep
<1>2. ASSUME NEW b \in Buffers,
             \/ AllocationSucceeds(f, b)
             \/ ReleaseBody(f, b) \/ ReleaseWorkspaceBody(f, b)
             \/ AggregateConsume(f, b) \/ AggregateDrop(f, b) \/ AggregateReset(f, b)
             \/ Consume(f, b) \/ RefundPin(f, b) \/ RefundBody(f, b)
             \/ DropOwner(f, b) \/ FreeStorage(f, b)
      PROVE  InductiveInvariant'
  BY <1>2, AllocationSucceedsStep, ReleaseBodyStep, ReleaseWorkspaceBodyStep,
     AggregateConsumeStep, AggregateDropStep, AggregateResetStep, ConsumeStep,
     RefundPinStep, RefundBodyStep, DropOwnerStep, FreeStorageStep
<1> QED
  BY <1>1, <1>2 DEF Step

\* So does a step that changes nothing.
LEMMA StutterPreserves ==
  ASSUME InductiveInvariant, UNCHANGED vars
  PROVE  InductiveInvariant'
<1> USE DEF InductiveInvariant, vars, registryVars, frameVars
<1>1. TypeOK'
  BY DEF TypeOK
<1>2. ReferencesInv'
  BY SameHolders
<1>3. TokensInv' /\ LabelsInv' /\ MutexInv' /\ BuffersInv' /\ NestingInv'
  BY DEF TokensInv, LabelsInv, LabelOK, Label, MutexInv, BuffersInv, BufferOK,
         CurrentOK, NestingInv
<1> QED
  BY <1>1, <1>2, <1>3

\* Every reachable state of the resource contexts satisfies the inductive
\* invariant: counts, tokens, labels, mutexes, buffers and callback nesting
\* stay consistent with each other through every interleaving.
THEOREM Invariance == Spec => []InductiveInvariant
<1>1. InductiveInvariant /\ [Next]_vars => InductiveInvariant'
  BY BeginPreserves, StepPreserves, CopyRecordStep, StutterPreserves DEF Next
<1> QED
  BY <1>1, InitInvariant, PTL DEF Spec

\* The variables of the resource contexts keep their types; in particular no
\* reference count, byte count or ordinal becomes negative.
THEOREM TypeCorrect == Spec => []TypeOK
<1>1. InductiveInvariant => TypeOK
  BY DEF InductiveInvariant
<1> QED
  BY <1>1, Invariance, PTL

\* A state is destroyed exactly when its last holder lets go, and no mutex
\* of a destroyed state is held (erase_and_destroy_resource_state_locked).
THEOREM ReclamationSound == Spec => []ReclaimedWhenUnheld
<1>1. InductiveInvariant => ReclaimedWhenUnheld
  <2> SUFFICES ASSUME InductiveInvariant, NEW tok \in Tokens
               PROVE  /\ reference_count[tok] = Cardinality(Holders(tok))
                      /\ tok \in registry <=> Holders(tok) # {}
                      /\ transaction_mutex[tok] # {} => tok \in registry
    BY DEF ReclaimedWhenUnheld
  <2>1. /\ reference_count[tok] = Cardinality(Holders(tok))
        /\ tok \in registry <=> Holders(tok) # {}
    BY DEF InductiveInvariant, ReferencesInv
  <2>2. ASSUME transaction_mutex[tok] # {}
        PROVE  tok \in registry
    <3>1. PICK f : f \in transaction_mutex[tok]
      BY <2>2
    <3>2. f \in Frames /\ pin[f] = tok
      BY <3>1 DEF InductiveInvariant, TypeOK, MutexInv
    <3>3. <<"pin", f>> \in Holders(tok)
      BY <3>2, HolderKinds
    <3> QED
      BY <3>3, <2>1
  <2> QED
    BY <2>1, <2>2
<1> QED
  BY <1>1, Invariance, PTL

\* Whoever holds a transaction mutex is running under it: it is not waiting
\* for a second mutex and no observer callback is under way, so waiting calls
\* never wait for each other.
THEOREM NoDeadlockOnContexts == Spec => []NoWaitForWaiter
<1>1. InductiveInvariant => NoWaitForWaiter
  <2> SUFFICES ASSUME InductiveInvariant, NEW tok \in Tokens, NEW f \in transaction_mutex[tok]
               PROVE  /\ pc[f] \in Holding /\ pin[f] = tok /\ InnerIdle(f)
                      /\ transaction_mutex[tok] = {f}
    BY DEF NoWaitForWaiter
  <2>1. f \in Frames /\ pc[f] \in Holding /\ pin[f] = tok /\ transaction_mutex[tok] = {f}
    BY DEF InductiveInvariant, TypeOK, MutexInv
  <2>2. InnerIdle(f)
    <3> SUFFICES ASSUME f[2] < Depth PROVE pc[<<f[1], f[2] + 1>>] = "idle"
      BY DEF InnerIdle
    <3> DEFINE g == <<f[1], f[2] + 1>>
    <3>1. g \in Frames /\ g[2] > 1 /\ <<g[1], g[2] - 1>> = f
      BY <2>1, BoundsAssumption DEF Frames
    <3> HIDE DEF g
    <3>2. pc[g] # "idle" => pc[f] = "callback"
      BY <3>1 DEF InductiveInvariant, NestingInv
    <3> QED
      BY <3>2, <2>1 DEF g, Holding
  <2> QED
    BY <2>1, <2>2
<1> QED
  BY <1>1, Invariance, PTL

\* Token issue never revives a released alias, whatever the number of
\* contexts and even when the 64-bit tokens run out.
THEOREM StaleAliasesRefused == Spec => StaleAliasStaysStale
<1> DEFINE Refused == \A t \in Threads :
             (/\ owner[t] # NoToken /\ owner[t] \notin context_active
              /\ owner'[t] = owner[t]) => owner[t] \notin context_active'
<1>1. InductiveInvariant /\ Next => Refused
  <2> SUFFICES ASSUME InductiveInvariant, Next, NEW t \in Threads,
                      owner[t] \notin context_active
               PROVE  owner[t] \notin context_active'
    OBVIOUS
  <2>1. ASSUME NEW f \in Frames, NEW c \in Configurations, MakeContext(f, c)
        PROVE  owner[t] \notin context_active'
    <3>1. /\ context_active' = context_active \cup {next_resource_token}
          /\ next_resource_token # NoToken
      BY <2>1 DEF MakeContext
    <3>2. owner[t] < next_resource_token
      BY <3>1 DEF InductiveInvariant, TokensInv
    <3> QED
      BY <3>1, <3>2 DEF InductiveInvariant, TypeOK
  <2>2. ASSUME NEW f \in Frames, ReleaseContext(f)
        PROVE  owner[t] \notin context_active'
    BY <2>2 DEF ReleaseContext
  <2>3. ASSUME NEW f \in Frames, Begin(f)
        PROVE  owner[t] \notin context_active'
    BY <2>1, <2>2, <2>3 DEF Begin, BeginSnapshotCall, BeginUpdate, BeginCharge,
                            BeginRelease, BeginCleanup, registryVars
  <2>4. ASSUME NEW f \in Frames, Step(f)
        PROVE  context_active' = context_active
    BY <2>4 DEF Step, Lock, Leave, Unpin, EndCallback, ReleaseContextBody, RefreshBody,
                SetObserverBody, UpdateBody, ChargeWithoutStorage, AllocationFails,
                AllocationSucceeds, ReleaseBody, ReleaseWorkspaceBody, AggregateConsume,
                AggregateDrop, AggregateReset, Consume, RefundPin, RefundBody,
                DropOwner, FreeStorage, registryVars
  <2>5. ASSUME NEW u \in Threads, NEW v \in Threads, CopyRecord(u, v)
        PROVE  context_active' = context_active
    BY <2>5 DEF CopyRecord, registryVars
  <2> QED
    BY <2>3, <2>4, <2>5 DEF Next
<1>2. InductiveInvariant /\ [Next]_vars => [Refused]_vars
  BY <1>1
<1> QED
  BY <1>2, Invariance, PTL DEF Spec, StaleAliasStaysStale
=============================================================================
