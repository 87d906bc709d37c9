------------------------- MODULE PublicationProofs -------------------------
(***************************************************************************)
(* Theorems about Publication for any number of commands, of names to try  *)
(* and of files of the user.                                               *)
(***************************************************************************)
EXTENDS Publication, TLAPS

\* What a step of p may do to what others see: p keeps to its own control
\* state, to names that are free or its own, and to the output when it
\* succeeds.
KeepsToItself(p) ==
  /\ \A q \in Processes \ {p} :
       /\ pc'[q] = pc[q] /\ attempt'[q] = attempt[q] /\ result'[q] = result[q]
       /\ directory'[q] = directory[q] /\ temporary'[q] = temporary[q]
  /\ stuck \subseteq stuck'
  /\ \A n \in Temporaries : dir'[n] # dir[n] =>
       /\ dir[n] = Absent \/ (dir[n].of = p /\ pc'[p] # pc[p])
       /\ dir'[n].of \in {p, Nobody}
  /\ dir'[Output] # dir[Output] =>
       result[p] = "running" /\ result'[p] = "ok" /\ dir'[Output] = Entry(p, TRUE)

\* What a step of p has to establish about p.
StepSafe(p) == TypeOK' /\ Holdings(p)' /\ Leftovers(p)' /\ KeepsToItself(p)

\* The names of the output, of temporary files and of build directories are
\* all different.
LEMMA NamesDiffer ==
  /\ Output \notin Temporaries
  /\ \A n \in Candidates("tmp") \cup Candidates("native") :
       n \in Temporaries /\ n \notin Candidates("build")
  /\ Candidates("build") \subseteq Temporaries
BY DEF Output, Temporaries, Candidates

\* The candidate of the current attempt is a name.
LEMMA CandidateNamed ==
  ASSUME NEW p \in Processes, TypeOK, attempt[p] < Attempts, NEW kind
  PROVE  <<kind, attempt[p]>> \in Candidates(kind)
BY PublicationAssumption DEF Candidates, TypeOK

\* A step that keeps to itself disturbs what no other command holds.
LEMMA OthersUndisturbed ==
  ASSUME PublicationInvariant, NEW p \in Processes, KeepsToItself(p),
         NEW q \in Processes \ {p}
  PROVE  Holdings(q)' /\ Leftovers(q)'
<1>1. q # p /\ q # Nobody /\ TypeOK /\ Holdings(q) /\ Leftovers(q)
  BY PublicationAssumption DEF PublicationInvariant
<1>2. ASSUME NEW n \in Temporaries, dir[n].of = q
      PROVE  dir'[n] = dir[n]
  BY <1>1, <1>2 DEF KeepsToItself, Absent, Entry
<1>3. Holdings(q)'
  <2>1. temporary[q] # Output => temporary[q] \in Temporaries
    BY <1>1, NamesDiffer DEF TypeOK
  <2>2. directory[q] # Output => directory[q] \in Temporaries
    BY <1>1, NamesDiffer DEF TypeOK
  <2>3. /\ pc'[q] = pc[q] /\ attempt'[q] = attempt[q] /\ result'[q] = result[q]
        /\ directory'[q] = directory[q] /\ temporary'[q] = temporary[q]
    BY DEF KeepsToItself
  <2>4. pc[q] \in HoldsTemporary => dir'[temporary[q]] = dir[temporary[q]]
    BY <1>1, <1>2, <2>1 DEF Holdings
  <2>5. pc[q] \in HoldsDirectory => dir'[directory[q]] = dir[directory[q]]
    BY <1>1, <1>2, <2>2 DEF Holdings
  <2> QED
    BY <1>1, <2>3, <2>4, <2>5 DEF Holdings, HoldsTemporary, HoldsDirectory
<1>4. Leftovers(q)'
  <2>1. ASSUME NEW n \in Temporaries, dir'[n].of = q
        PROVE  dir[n].of = q
    BY <1>1, <2>1 DEF KeepsToItself
  <2> QED
    BY <1>1, <2>1 DEF KeepsToItself, Leftovers
<1> QED
  BY <1>3, <1>4

-----------------------------------------------------------------------------
(***************************************************************************)
(* One lemma per action.                                                   *)
(***************************************************************************)

\* What writing one entry of the directory does to the others.
LEMMA OneEntry ==
  ASSUME TypeOK, NEW m \in Temporaries, NEW e \in Entries, dir' = [dir EXCEPT ![m] = e]
  PROVE  /\ dir' \in [Names -> Entries]
         /\ dir'[Output] = dir[Output] /\ dir'[m] = e
         /\ \A n \in Temporaries \ {m} : dir'[n] = dir[n]
BY NamesDiffer DEF TypeOK, Names

\* Entries are what Entry makes, and Absent is one.
LEMMA EntriesMade ==
  /\ \A p \in Processes, whole \in BOOLEAN :
       Entry(p, whole) \in Entries /\ Entry(p, whole).of = p /\ Entry(p, whole).whole = whole
  /\ Absent \in Entries /\ Absent.of = Nobody
BY DEF Entry, Entries, Absent

\* A step that leaves the directory alone keeps to itself.
LEMMA SameDirectory ==
  ASSUME NEW p \in Processes, TypeOK, TypeOK', UNCHANGED dir, stuck \subseteq stuck',
         \A q \in Processes \ {p} :
           /\ pc'[q] = pc[q] /\ attempt'[q] = attempt[q] /\ result'[q] = result[q]
           /\ directory'[q] = directory[q] /\ temporary'[q] = temporary[q]
  PROVE  KeepsToItself(p)
BY DEF KeepsToItself

\* Refusals before anything exists.
LEMMA StartSafe ==
  ASSUME PublicationInvariant, NEW p \in Processes, StartEmission(p) \/ StartBuild(p)
  PROVE  StepSafe(p)
<1>1. TypeOK /\ Holdings(p) /\ Leftovers(p)
  BY DEF PublicationInvariant
<1>2. TypeOK'
  BY <1>1 DEF TypeOK, StartEmission, StartBuild, Return, Goto, Labels
<1>3. Holdings(p)' /\ Leftovers(p)'
  BY <1>1 DEF TypeOK, Holdings, Leftovers, HoldsTemporary, HoldsDirectory,
              StartEmission, StartBuild, Return, Goto
<1>4. KeepsToItself(p)
  BY <1>1, <1>2, SameDirectory DEF TypeOK, StartEmission, StartBuild, Return, Goto
<1> QED
  BY <1>2, <1>3, <1>4 DEF StepSafe

\* A killed command stops where it is.
LEMMA KillSafe ==
  ASSUME PublicationInvariant, NEW p \in Processes, Kill(p)
  PROVE  StepSafe(p)
<1>1. TypeOK /\ Holdings(p) /\ Leftovers(p)
  BY DEF PublicationInvariant
<1>2. TypeOK'
  BY <1>1 DEF TypeOK, Kill, Labels
<1>3. Holdings(p)' /\ Leftovers(p)'
  BY <1>1 DEF TypeOK, Holdings, Leftovers, HoldsTemporary, HoldsDirectory, Kill
<1>4. KeepsToItself(p)
  BY <1>1, <1>2, SameDirectory DEF TypeOK, Kill
<1> QED
  BY <1>2, <1>3, <1>4 DEF StepSafe

\* The rename moves the whole file, or nothing.
LEMMA PublishSafe ==
  ASSUME PublicationInvariant, NEW p \in Processes, Publish(p)
  PROVE  StepSafe(p)
<1>1. TypeOK /\ Holdings(p) /\ Leftovers(p)
  BY DEF PublicationInvariant
<1> DEFINE m == temporary[p]
<1>2. /\ pc[p] = "publish" /\ result[p] = "running"
      /\ m \in Temporaries /\ dir[m].of = p /\ dir[m].whole
  BY <1>1, NamesDiffer DEF Publish, Holdings, HoldsTemporary, TypeOK
<1>3. dir[m] = Entry(p, TRUE)
  BY <1>1, <1>2 DEF TypeOK, Names, Entries, Entry
<1>4. CASE dir' = [dir EXCEPT ![Output] = dir[m], ![m] = Absent] /\ Return(p, "ok")
  <2>1. /\ dir' \in [Names -> Entries]
        /\ dir'[Output] = Entry(p, TRUE) /\ dir'[m] = Absent
        /\ \A n \in Temporaries \ {m} : dir'[n] = dir[n]
    BY <1>1, <1>2, <1>3, <1>4, NamesDiffer, EntriesMade DEF TypeOK, Names
  <2>2. TypeOK'
    BY <1>1, <1>4, <2>1 DEF TypeOK, Publish, Return, Goto, Labels
  <2>3. pc' = [pc EXCEPT ![p] = "done"] /\ result' = [result EXCEPT ![p] = "ok"]
    BY <1>4 DEF Return, Goto
  <2>4. Holdings(p)'
    BY <1>1, <2>3 DEF TypeOK, Holdings, HoldsTemporary, HoldsDirectory
  <2>5. Leftovers(p)'
    <3>1. \A n \in Temporaries : dir'[n].of = p => n # m /\ dir'[n] = dir[n]
      BY <2>1, EntriesMade, PublicationAssumption
    <3>2. stuck' = stuck
      BY DEF Publish
    <3> QED
      BY <1>1, <1>2, <2>3, <3>1, <3>2 DEF Leftovers, HoldsTemporary, HoldsDirectory, TypeOK
  <2>6. KeepsToItself(p)
    <3>1. ASSUME NEW n \in Temporaries, dir'[n] # dir[n]
          PROVE  dir[n].of = p /\ pc'[p] # pc[p] /\ dir'[n].of \in {p, Nobody}
      BY <1>1, <1>2, <2>1, <2>3, <3>1, EntriesMade DEF TypeOK
    <3> QED
      BY <1>1, <1>2, <2>1, <2>3, <3>1 DEF KeepsToItself, Publish, TypeOK
  <2> QED
    BY <2>2, <2>4, <2>5, <2>6 DEF StepSafe
<1>5. CASE Goto(p, "discard") /\ UNCHANGED <<dir, result>>
  <2>1. TypeOK'
    BY <1>1, <1>5 DEF TypeOK, Publish, Goto, Labels
  <2>2. Holdings(p)' /\ Leftovers(p)'
    BY <1>1, <1>2, <1>5 DEF TypeOK, Holdings, Leftovers, HoldsTemporary, HoldsDirectory,
                            Publish, Goto
  <2>3. KeepsToItself(p)
    BY <1>1, <1>5, <2>1, SameDirectory DEF TypeOK, Publish, Goto
  <2> QED
    BY <2>1, <2>2, <2>3 DEF StepSafe
<1> QED
  BY <1>4, <1>5 DEF Publish

\* A removal of p's own entry, done or failed.
LEMMA RemoveOwn ==
  ASSUME TypeOK, NEW p \in Processes, NEW m \in Temporaries, dir[m].of = p, Remove(m)
  PROVE  /\ dir' \in [Names -> Entries] /\ dir'[Output] = dir[Output]
         /\ stuck' \in SUBSET Temporaries /\ stuck \subseteq stuck'
         /\ \A n \in Temporaries : dir'[n] # dir[n] => n = m /\ dir'[n].of = Nobody
         /\ \A n \in Temporaries : dir'[n].of = p => dir[n].of = p /\ (n = m => n \in stuck')
<1>1. CASE dir' = [dir EXCEPT ![m] = Absent] /\ UNCHANGED stuck
  <2>1. /\ dir' \in [Names -> Entries]
        /\ dir'[Output] = dir[Output] /\ dir'[m] = Absent
        /\ \A n \in Temporaries \ {m} : dir'[n] = dir[n]
    BY <1>1, OneEntry, EntriesMade
  <2>2. dir'[m].of = Nobody /\ p # Nobody
    BY <2>1, EntriesMade, PublicationAssumption
  <2> QED
    BY <1>1, <2>1, <2>2 DEF TypeOK
<1>2. CASE stuck' = stuck \cup {m} /\ UNCHANGED dir
  BY <1>2, PublicationAssumption DEF TypeOK
<1> QED
  BY <1>1, <1>2 DEF Remove

\* The command that could not write, stage or publish removes its file.
LEMMA DiscardSafe ==
  ASSUME PublicationInvariant, NEW p \in Processes, Discard(p)
  PROVE  StepSafe(p)
<1>1. TypeOK /\ Holdings(p) /\ Leftovers(p)
  BY DEF PublicationInvariant
<1> DEFINE m == temporary[p]
<1>2. pc[p] = "discard" /\ result[p] = "running" /\ m \in Temporaries /\ dir[m].of = p
  BY <1>1, NamesDiffer DEF Discard, Holdings, HoldsTemporary, TypeOK
<1>3. /\ dir' \in [Names -> Entries] /\ dir'[Output] = dir[Output]
      /\ stuck' \in SUBSET Temporaries /\ stuck \subseteq stuck'
      /\ \A n \in Temporaries : dir'[n] # dir[n] => n = m /\ dir'[n].of = Nobody
      /\ \A n \in Temporaries : dir'[n].of = p => dir[n].of = p /\ (n = m => n \in stuck')
  BY <1>1, <1>2, RemoveOwn DEF Discard
<1>4. /\ pc' = [pc EXCEPT ![p] = "done"] /\ result' = [result EXCEPT ![p] = "failed"]
      /\ UNCHANGED <<attempt, directory, temporary>>
  BY DEF Discard, Return, Goto
<1>5. TypeOK'
  BY <1>1, <1>3, <1>4 DEF TypeOK, Labels
<1>6. Holdings(p)'
  BY <1>1, <1>4 DEF TypeOK, Holdings, HoldsTemporary, HoldsDirectory
<1>7. Leftovers(p)'
  BY <1>1, <1>2, <1>3, <1>4 DEF TypeOK, Leftovers, HoldsTemporary, HoldsDirectory
<1>8. KeepsToItself(p)
  BY <1>1, <1>2, <1>3, <1>4 DEF TypeOK, KeepsToItself
<1> QED
  BY <1>5, <1>6, <1>7, <1>8 DEF StepSafe

\* The command that could not reserve or fill a name gives it up.
LEMMA UnreserveSafe ==
  ASSUME PublicationInvariant, NEW p \in Processes, Unreserve(p)
  PROVE  StepSafe(p)
<1>1. TypeOK /\ Holdings(p) /\ Leftovers(p)
  BY DEF PublicationInvariant
<1> DEFINE m == temporary[p]
<1>2. /\ pc[p] = "unreserve" /\ result[p] = "running" /\ attempt[p] < Attempts
      /\ m \in Temporaries /\ dir[m].of = p
      /\ directory[p] \in Temporaries \ {m} /\ dir[directory[p]].of = p
      /\ directory[p] # Output /\ dir[directory[p]].whole
  BY <1>1, NamesDiffer DEF Unreserve, Holdings, HoldsTemporary, HoldsDirectory, TypeOK
<1>3. /\ dir' \in [Names -> Entries] /\ dir'[Output] = dir[Output]
      /\ stuck' \in SUBSET Temporaries /\ stuck \subseteq stuck'
      /\ \A n \in Temporaries : dir'[n] # dir[n] => n = m /\ dir'[n].of = Nobody
      /\ \A n \in Temporaries : dir'[n].of = p => dir[n].of = p /\ (n = m => n \in stuck')
  BY <1>1, <1>2, RemoveOwn DEF Unreserve
<1>4. /\ pc' = [pc EXCEPT ![p] = "stage"] /\ UNCHANGED <<directory, result>>
      /\ attempt' = [attempt EXCEPT ![p] = @ + 1]
      /\ temporary' = [temporary EXCEPT ![p] = Output]
  BY DEF Unreserve, Goto
<1>5. TypeOK'
  <2>1. attempt[p] + 1 \in 0 .. Attempts
    BY <1>1, <1>2, PublicationAssumption DEF TypeOK
  <2> QED
    BY <1>1, <1>3, <1>4, <2>1 DEF TypeOK, Labels
<1>6. Holdings(p)'
  BY <1>1, <1>2, <1>3, <1>4 DEF TypeOK, Holdings, HoldsTemporary, HoldsDirectory
<1>7. Leftovers(p)'
  BY <1>1, <1>2, <1>3, <1>4 DEF TypeOK, Leftovers, HoldsTemporary, HoldsDirectory
<1>8. KeepsToItself(p)
  BY <1>1, <1>2, <1>3, <1>4 DEF TypeOK, KeepsToItself
<1> QED
  BY <1>5, <1>6, <1>7, <1>8 DEF StepSafe

\* The build that failed removes its directory.
LEMMA CleanupSafe ==
  ASSUME PublicationInvariant, NEW p \in Processes, Cleanup(p)
  PROVE  StepSafe(p)
<1>1. TypeOK /\ Holdings(p) /\ Leftovers(p)
  BY DEF PublicationInvariant
<1> DEFINE m == directory[p]
<1>2. pc[p] = "cleanup" /\ result[p] = "running" /\ m \in Temporaries /\ dir[m].of = p
  BY <1>1, NamesDiffer DEF Cleanup, Holdings, HoldsDirectory, TypeOK
<1>3. /\ dir' \in [Names -> Entries] /\ dir'[Output] = dir[Output]
      /\ stuck' \in SUBSET Temporaries /\ stuck \subseteq stuck'
      /\ \A n \in Temporaries : dir'[n] # dir[n] => n = m /\ dir'[n].of = Nobody
      /\ \A n \in Temporaries : dir'[n].of = p => dir[n].of = p /\ (n = m => n \in stuck')
  BY <1>1, <1>2, RemoveOwn DEF Cleanup
<1>4. /\ pc' = [pc EXCEPT ![p] = "done"] /\ result' = [result EXCEPT ![p] = "failed"]
      /\ UNCHANGED <<attempt, directory, temporary>>
  BY DEF Cleanup, Return, Goto
<1>5. TypeOK'
  BY <1>1, <1>3, <1>4 DEF TypeOK, Labels
<1>6. Holdings(p)'
  BY <1>1, <1>4 DEF TypeOK, Holdings, HoldsTemporary, HoldsDirectory
<1>7. Leftovers(p)'
  BY <1>1, <1>2, <1>3, <1>4 DEF TypeOK, Leftovers, HoldsTemporary, HoldsDirectory
<1>8. KeepsToItself(p)
  BY <1>1, <1>2, <1>3, <1>4 DEF TypeOK, KeepsToItself
<1> QED
  BY <1>5, <1>6, <1>7, <1>8 DEF StepSafe

\* The build that is about to publish removes its directory, or turns back.
LEMMA ClearSafe ==
  ASSUME PublicationInvariant, NEW p \in Processes, Clear(p)
  PROVE  StepSafe(p)
<1>1. TypeOK /\ Holdings(p) /\ Leftovers(p)
  BY DEF PublicationInvariant
<1> DEFINE m == directory[p]
<1>2. /\ pc[p] = "clear" /\ result[p] = "running"
      /\ m \in Temporaries /\ dir[m].of = p
      /\ temporary[p] \in Temporaries \ {m} /\ dir[temporary[p]].of = p
      /\ temporary[p] # Output /\ dir[temporary[p]].whole
  BY <1>1, NamesDiffer DEF Clear, Holdings, HoldsTemporary, HoldsDirectory, TypeOK
<1>3. /\ dir' \in [Names -> Entries] /\ dir'[Output] = dir[Output]
      /\ stuck' \in SUBSET Temporaries /\ stuck \subseteq stuck'
      /\ \A n \in Temporaries : dir'[n] # dir[n] => n = m /\ dir'[n].of = Nobody
      /\ \A n \in Temporaries : dir'[n].of = p => dir[n].of = p /\ (n = m => n \in stuck')
  BY <1>1, <1>2, RemoveOwn DEF Clear
<1>4. /\ \E label \in {"discard", "publish"} : pc' = [pc EXCEPT ![p] = label]
      /\ UNCHANGED <<attempt, directory, temporary, result>>
  BY DEF Clear, Goto
<1>5. TypeOK'
  BY <1>1, <1>3, <1>4 DEF TypeOK, Labels
<1>6. Holdings(p)'
  BY <1>1, <1>2, <1>3, <1>4 DEF TypeOK, Holdings, HoldsTemporary, HoldsDirectory
<1>7. Leftovers(p)'
  BY <1>1, <1>2, <1>3, <1>4 DEF TypeOK, Leftovers, HoldsTemporary, HoldsDirectory
<1>8. KeepsToItself(p)
  BY <1>1, <1>2, <1>3, <1>4 DEF TypeOK, KeepsToItself
<1> QED
  BY <1>5, <1>6, <1>7, <1>8 DEF StepSafe

-----------------------------------------------------------------------------
(***************************************************************************)
(* Creation and writing.                                                   *)
(***************************************************************************)

\* An exclusive creation by p.
LEMMA CreateFree ==
  ASSUME TypeOK, NEW p \in Processes, NEW m \in Temporaries, Create(p, m)
  PROVE  /\ dir' \in [Names -> Entries] /\ dir'[Output] = dir[Output]
         /\ dir[m] = Absent /\ dir'[m] = Entry(p, FALSE)
         /\ \A n \in Temporaries \ {m} : dir'[n] = dir[n]
<1>1. Entry(p, FALSE) \in Entries
  BY EntriesMade
<1> QED
  BY <1>1, OneEntry DEF Create

\* A change of the contents of p's own entry.
LEMMA WriteOwn ==
  ASSUME TypeOK, NEW p \in Processes, NEW m \in Temporaries, dir[m].of = p,
         NEW whole \in BOOLEAN, dir' = [dir EXCEPT ![m].whole = whole]
  PROVE  /\ dir' \in [Names -> Entries] /\ dir'[Output] = dir[Output]
         /\ dir'[m].of = p /\ dir'[m].whole = whole
         /\ \A n \in Temporaries \ {m} : dir'[n] = dir[n]
<1>1. dir[m] \in Entries
  BY DEF TypeOK, Names
<1>2. [dir[m] EXCEPT !.whole = whole] \in Entries
  BY <1>1 DEF Entries
<1>3. dir' = [dir EXCEPT ![m] = [dir[m] EXCEPT !.whole = whole]]
  OBVIOUS
<1>4. /\ dir' \in [Names -> Entries] /\ dir'[Output] = dir[Output]
      /\ dir'[m] = [dir[m] EXCEPT !.whole = whole]
      /\ \A n \in Temporaries \ {m} : dir'[n] = dir[n]
  BY <1>2, <1>3, OneEntry
<1> QED
  BY <1>1, <1>4 DEF Entries

\* write_file_atomically's loop takes a free name, goes on or gives up.
LEMMA CreateTemporarySafe ==
  ASSUME PublicationInvariant, NEW p \in Processes, CreateTemporary(p)
  PROVE  StepSafe(p)
<1>1. TypeOK /\ Holdings(p) /\ Leftovers(p)
  BY DEF PublicationInvariant
<1> DEFINE m == <<"tmp", attempt[p]>>
<1>2. /\ pc[p] = "create" /\ result[p] = "running"
      /\ UNCHANGED <<directory, stuck>>
  BY <1>1 DEF CreateTemporary, Holdings, TypeOK
<1>3. CASE /\ Create(p, m) /\ temporary' = [temporary EXCEPT ![p] = m]
           /\ Goto(p, "write") /\ UNCHANGED <<attempt, result>>
  <2>1. m \in Candidates("tmp") /\ m \in Temporaries /\ m # Output
    BY <1>1, <1>3, CandidateNamed, NamesDiffer DEF Create
  <2>2. /\ dir' \in [Names -> Entries] /\ dir'[Output] = dir[Output]
        /\ dir[m] = Absent /\ dir'[m].of = p
        /\ \A n \in Temporaries \ {m} : dir'[n] = dir[n]
    BY <1>1, <1>3, <2>1, CreateFree, EntriesMade
  <2>3. pc' = [pc EXCEPT ![p] = "write"]
    BY <1>3 DEF Goto
  <2>4. TypeOK'
    BY <1>1, <1>2, <1>3, <2>1, <2>2, <2>3 DEF TypeOK, Labels
  <2>5. Holdings(p)'
    BY <1>1, <1>2, <1>3, <2>1, <2>2, <2>3 DEF TypeOK, Holdings, HoldsTemporary, HoldsDirectory
  <2>6. Leftovers(p)'
    BY <1>1, <1>2, <1>3, <2>1, <2>2, <2>3 DEF TypeOK, Leftovers, HoldsTemporary, HoldsDirectory
  <2>7. KeepsToItself(p)
    BY <1>1, <1>2, <1>3, <2>1, <2>2, <2>3 DEF TypeOK, KeepsToItself
  <2> QED
    BY <2>4, <2>5, <2>6, <2>7 DEF StepSafe
<1>4. CASE TryNext(p, m) /\ UNCHANGED <<dir, pc, temporary, result>>
  <2>1. attempt' = [attempt EXCEPT ![p] = @ + 1] /\ attempt[p] + 1 \in 0 .. Attempts
    BY <1>1, <1>4, PublicationAssumption DEF TryNext, TypeOK
  <2>2. TypeOK'
    BY <1>1, <1>2, <1>4, <2>1 DEF TypeOK
  <2>3. Holdings(p)' /\ Leftovers(p)'
    BY <1>1, <1>2, <1>4, <2>1 DEF TypeOK, Holdings, Leftovers, HoldsTemporary, HoldsDirectory
  <2>4. KeepsToItself(p)
    BY <1>1, <1>2, <1>4, <2>1, <2>2, SameDirectory DEF TypeOK
  <2> QED
    BY <2>2, <2>3, <2>4 DEF StepSafe
<1>5. CASE Return(p, "failed") /\ UNCHANGED <<dir, attempt, temporary>>
  <2>1. TypeOK'
    BY <1>1, <1>2, <1>5 DEF TypeOK, Return, Goto, Labels
  <2>2. Holdings(p)' /\ Leftovers(p)'
    BY <1>1, <1>2, <1>5 DEF TypeOK, Holdings, Leftovers, HoldsTemporary, HoldsDirectory,
                            Return, Goto
  <2>3. KeepsToItself(p)
    BY <1>1, <1>2, <1>5, <2>1, SameDirectory DEF TypeOK, Return, Goto
  <2> QED
    BY <2>1, <2>2, <2>3 DEF StepSafe
<1> QED
  BY <1>3, <1>4, <1>5 DEF CreateTemporary

\* build_native's first loop does the same with directories.
LEMMA IsolateSafe ==
  ASSUME PublicationInvariant, NEW p \in Processes, Isolate(p)
  PROVE  StepSafe(p)
<1>1. TypeOK /\ Holdings(p) /\ Leftovers(p)
  BY DEF PublicationInvariant
<1> DEFINE m == <<"build", attempt[p]>>
<1>2. /\ pc[p] = "isolate" /\ result[p] = "running"
      /\ UNCHANGED <<temporary, stuck>>
  BY <1>1 DEF Isolate, Holdings, TypeOK
<1>3. CASE /\ Create(p, m) /\ directory' = [directory EXCEPT ![p] = m]
           /\ Goto(p, "source") /\ UNCHANGED <<attempt, result>>
  <2>1. m \in Candidates("build") /\ m \in Temporaries /\ m # Output
    BY <1>1, <1>3, CandidateNamed, NamesDiffer DEF Create
  <2>2. /\ dir' \in [Names -> Entries] /\ dir'[Output] = dir[Output]
        /\ dir[m] = Absent /\ dir'[m].of = p
        /\ \A n \in Temporaries \ {m} : dir'[n] = dir[n]
    BY <1>1, <1>3, <2>1, CreateFree, EntriesMade
  <2>3. pc' = [pc EXCEPT ![p] = "source"]
    BY <1>3 DEF Goto
  <2>4. TypeOK'
    BY <1>1, <1>2, <1>3, <2>1, <2>2, <2>3 DEF TypeOK, Labels
  <2>5. Holdings(p)'
    BY <1>1, <1>2, <1>3, <2>1, <2>2, <2>3 DEF TypeOK, Holdings, HoldsTemporary, HoldsDirectory
  <2>6. Leftovers(p)'
    BY <1>1, <1>2, <1>3, <2>1, <2>2, <2>3 DEF TypeOK, Leftovers, HoldsTemporary, HoldsDirectory
  <2>7. KeepsToItself(p)
    BY <1>1, <1>2, <1>3, <2>1, <2>2, <2>3 DEF TypeOK, KeepsToItself
  <2> QED
    BY <2>4, <2>5, <2>6, <2>7 DEF StepSafe
<1>4. CASE TryNext(p, m) /\ UNCHANGED <<dir, pc, directory, result>>
  <2>1. attempt' = [attempt EXCEPT ![p] = @ + 1] /\ attempt[p] + 1 \in 0 .. Attempts
    BY <1>1, <1>4, PublicationAssumption DEF TryNext, TypeOK
  <2>2. TypeOK'
    BY <1>1, <1>2, <1>4, <2>1 DEF TypeOK
  <2>3. Holdings(p)' /\ Leftovers(p)'
    BY <1>1, <1>2, <1>4, <2>1 DEF TypeOK, Holdings, Leftovers, HoldsTemporary, HoldsDirectory
  <2>4. KeepsToItself(p)
    BY <1>1, <1>2, <1>4, <2>1, <2>2, SameDirectory DEF TypeOK
  <2> QED
    BY <2>2, <2>3, <2>4 DEF StepSafe
<1>5. CASE Return(p, "failed") /\ UNCHANGED <<dir, attempt, directory>>
  <2>1. TypeOK'
    BY <1>1, <1>2, <1>5 DEF TypeOK, Return, Goto, Labels
  <2>2. Holdings(p)' /\ Leftovers(p)'
    BY <1>1, <1>2, <1>5 DEF TypeOK, Holdings, Leftovers, HoldsTemporary, HoldsDirectory,
                            Return, Goto
  <2>3. KeepsToItself(p)
    BY <1>1, <1>2, <1>5, <2>1, SameDirectory DEF TypeOK, Return, Goto
  <2> QED
    BY <2>1, <2>2, <2>3 DEF StepSafe
<1> QED
  BY <1>3, <1>4, <1>5 DEF Isolate

\* build_native's second loop reserves a free name, goes on or gives up.
LEMMA ReserveSafe ==
  ASSUME PublicationInvariant, NEW p \in Processes, Reserve(p)
  PROVE  StepSafe(p)
<1>1. TypeOK /\ Holdings(p) /\ Leftovers(p)
  BY DEF PublicationInvariant
<1> DEFINE m == <<"native", attempt[p]>>
<1>2. /\ pc[p] = "stage" /\ result[p] = "running"
      /\ UNCHANGED <<directory, result, stuck>>
      /\ directory[p] \in Candidates("build") /\ directory[p] \in Temporaries
      /\ directory[p] # Output /\ dir[directory[p]].of = p /\ dir[directory[p]].whole
  BY <1>1, NamesDiffer DEF Reserve, Holdings, HoldsDirectory, TypeOK
<1>3. CASE /\ Create(p, m) /\ temporary' = [temporary EXCEPT ![p] = m]
           /\ Goto(p, "move") \/ Goto(p, "unreserve")
           /\ UNCHANGED attempt
  <2>1. m \in Candidates("native") /\ m \in Temporaries /\ m # Output /\ m # directory[p]
    BY <1>1, <1>2, <1>3, CandidateNamed, NamesDiffer DEF Create
  <2>2. /\ dir' \in [Names -> Entries] /\ dir'[Output] = dir[Output]
        /\ dir[m] = Absent /\ dir'[m].of = p
        /\ \A n \in Temporaries \ {m} : dir'[n] = dir[n]
    BY <1>1, <1>3, <2>1, CreateFree, EntriesMade
  <2>3. /\ \E label \in {"move", "unreserve"} : pc' = [pc EXCEPT ![p] = label]
        /\ attempt[p] < Attempts
    BY <1>3 DEF Goto, Create
  <2>4. TypeOK'
    BY <1>1, <1>2, <1>3, <2>1, <2>2, <2>3 DEF TypeOK, Labels
  <2>5. Holdings(p)'
    BY <1>1, <1>2, <1>3, <2>1, <2>2, <2>3 DEF TypeOK, Holdings, HoldsTemporary, HoldsDirectory
  <2>6. Leftovers(p)'
    BY <1>1, <1>2, <1>3, <2>1, <2>2, <2>3 DEF TypeOK, Leftovers, HoldsTemporary, HoldsDirectory
  <2>7. KeepsToItself(p)
    BY <1>1, <1>2, <1>3, <2>1, <2>2, <2>3 DEF TypeOK, KeepsToItself
  <2> QED
    BY <2>4, <2>5, <2>6, <2>7 DEF StepSafe
<1>4. CASE /\ attempt[p] < Attempts
           /\ attempt' = [attempt EXCEPT ![p] = @ + 1]
           /\ UNCHANGED <<dir, pc, temporary>>
  <2>1. attempt[p] + 1 \in 0 .. Attempts
    BY <1>1, <1>4, PublicationAssumption DEF TypeOK
  <2>2. TypeOK'
    BY <1>1, <1>2, <1>4, <2>1 DEF TypeOK
  <2>3. Holdings(p)' /\ Leftovers(p)'
    BY <1>1, <1>2, <1>4 DEF TypeOK, Holdings, Leftovers, HoldsTemporary, HoldsDirectory
  <2>4. KeepsToItself(p)
    BY <1>1, <1>2, <1>4, <2>2, SameDirectory DEF TypeOK
  <2> QED
    BY <2>2, <2>3, <2>4 DEF StepSafe
<1>5. CASE Goto(p, "cleanup") /\ UNCHANGED <<dir, attempt, temporary>>
  <2>1. TypeOK'
    BY <1>1, <1>2, <1>5 DEF TypeOK, Goto, Labels
  <2>2. Holdings(p)' /\ Leftovers(p)'
    BY <1>1, <1>2, <1>5 DEF TypeOK, Holdings, Leftovers, HoldsTemporary, HoldsDirectory, Goto
  <2>3. KeepsToItself(p)
    BY <1>1, <1>2, <1>5, <2>1, SameDirectory DEF TypeOK, Goto
  <2> QED
    BY <2>1, <2>2, <2>3 DEF StepSafe
<1> QED
  BY <1>3, <1>4, <1>5 DEF Reserve

\* Only a file that was written and closed goes on to the rename.
LEMMA WriteTemporarySafe ==
  ASSUME PublicationInvariant, NEW p \in Processes, WriteTemporary(p)
  PROVE  StepSafe(p)
<1>1. TypeOK /\ Holdings(p) /\ Leftovers(p)
  BY DEF PublicationInvariant
<1> DEFINE m == temporary[p]
<1>2. /\ pc[p] = "write" /\ result[p] = "running"
      /\ m \in Temporaries /\ m # Output /\ dir[m].of = p
      /\ UNCHANGED <<attempt, directory, temporary, result, stuck>>
  BY <1>1, NamesDiffer DEF WriteTemporary, Holdings, HoldsTemporary, TypeOK
<1>3. CASE dir' = [dir EXCEPT ![m].whole = TRUE] /\ Goto(p, "publish")
  <2>1. /\ dir' \in [Names -> Entries] /\ dir'[Output] = dir[Output]
        /\ dir'[m].of = p /\ dir'[m].whole
        /\ \A n \in Temporaries \ {m} : dir'[n] = dir[n]
    BY <1>1, <1>2, <1>3, WriteOwn
  <2>2. pc' = [pc EXCEPT ![p] = "publish"]
    BY <1>3 DEF Goto
  <2>3. TypeOK'
    BY <1>1, <1>2, <2>1, <2>2 DEF TypeOK, Labels
  <2>4. Holdings(p)' /\ Leftovers(p)'
    BY <1>1, <1>2, <2>1, <2>2 DEF TypeOK, Holdings, Leftovers, HoldsTemporary, HoldsDirectory
  <2>5. KeepsToItself(p)
    BY <1>1, <1>2, <2>1, <2>2 DEF TypeOK, KeepsToItself
  <2> QED
    BY <2>3, <2>4, <2>5 DEF StepSafe
<1>4. CASE Goto(p, "discard") /\ UNCHANGED dir
  <2>1. TypeOK'
    BY <1>1, <1>2, <1>4 DEF TypeOK, Goto, Labels
  <2>2. Holdings(p)' /\ Leftovers(p)'
    BY <1>1, <1>2, <1>4 DEF TypeOK, Holdings, Leftovers, HoldsTemporary, HoldsDirectory, Goto
  <2>3. KeepsToItself(p)
    BY <1>1, <1>2, <1>4, <2>1, SameDirectory DEF TypeOK, Goto
  <2> QED
    BY <2>1, <2>2, <2>3 DEF StepSafe
<1> QED
  BY <1>3, <1>4 DEF WriteTemporary

\* The compiler writes into the build directory only.
LEMMA CompileSafe ==
  ASSUME PublicationInvariant, NEW p \in Processes, Compile(p)
  PROVE  StepSafe(p)
<1>1. TypeOK /\ Holdings(p) /\ Leftovers(p)
  BY DEF PublicationInvariant
<1> DEFINE m == directory[p]
<1>2. /\ pc[p] = "compile" /\ result[p] = "running"
      /\ m \in Temporaries /\ m # Output /\ dir[m].of = p
      /\ UNCHANGED <<attempt, directory, temporary, result, stuck>>
  BY <1>1, NamesDiffer DEF Compile, Holdings, HoldsDirectory, TypeOK
<1>3. PICK whole \in BOOLEAN : dir' = [dir EXCEPT ![m].whole = whole]
  BY DEF Compile
<1>4. /\ dir' \in [Names -> Entries] /\ dir'[Output] = dir[Output] /\ dir'[m].of = p
      /\ \A n \in Temporaries \ {m} : dir'[n] = dir[n]
  BY <1>1, <1>2, <1>3, WriteOwn
<1>5. \E label \in {"verify", "cleanup"} : pc' = [pc EXCEPT ![p] = label]
  BY DEF Compile, Goto
<1>6. TypeOK'
  BY <1>1, <1>2, <1>4, <1>5 DEF TypeOK, Labels
<1>7. Holdings(p)' /\ Leftovers(p)'
  BY <1>1, <1>2, <1>4, <1>5 DEF TypeOK, Holdings, Leftovers, HoldsTemporary, HoldsDirectory
<1>8. KeepsToItself(p)
  BY <1>1, <1>2, <1>4, <1>5 DEF TypeOK, KeepsToItself
<1> QED
  BY <1>6, <1>7, <1>8 DEF StepSafe

\* program.c is written, and the executable looked at, in the build directory.
LEMMA WriteSourceVerifySafe ==
  ASSUME PublicationInvariant, NEW p \in Processes, WriteSource(p) \/ Verify(p)
  PROVE  StepSafe(p)
<1>1. TypeOK /\ Holdings(p) /\ Leftovers(p) /\ 0 \in 0 .. Attempts
  BY PublicationAssumption DEF PublicationInvariant
<1>2. TypeOK'
  BY <1>1 DEF TypeOK, WriteSource, Verify, Goto, Labels
<1>3. Holdings(p)' /\ Leftovers(p)'
  BY <1>1 DEF TypeOK, Holdings, Leftovers, HoldsTemporary, HoldsDirectory,
              WriteSource, Verify, Goto
<1>4. KeepsToItself(p)
  BY <1>1, <1>2, SameDirectory DEF TypeOK, WriteSource, Verify, Goto
<1> QED
  BY <1>2, <1>3, <1>4 DEF StepSafe

\* The finished executable replaces the reserved file.
LEMMA MoveSafe ==
  ASSUME PublicationInvariant, NEW p \in Processes, Move(p)
  PROVE  StepSafe(p)
<1>1. TypeOK /\ Holdings(p) /\ Leftovers(p)
  BY DEF PublicationInvariant
<1> DEFINE m == temporary[p]
           d == directory[p]
<1>2. /\ pc[p] = "move" /\ result[p] = "running"
      /\ m \in Temporaries /\ d \in Temporaries /\ m # d
      /\ m # Output /\ d # Output /\ dir[m].of = p /\ dir[d].of = p /\ dir[d].whole
      /\ UNCHANGED <<attempt, directory, temporary, result, stuck>>
  BY <1>1, NamesDiffer DEF Move, Holdings, HoldsTemporary, HoldsDirectory, TypeOK
<1>3. CASE /\ dir' = [dir EXCEPT ![m].whole = TRUE, ![d].whole = FALSE]
           /\ Goto(p, "clear")
  <2>1. /\ dir' \in [Names -> Entries] /\ dir'[Output] = dir[Output]
        /\ dir'[m].of = p /\ dir'[m].whole /\ dir'[d].of = p
        /\ \A n \in Temporaries \ {m, d} : dir'[n] = dir[n]
    <3>1. dir[m] \in Entries /\ dir[d] \in Entries
      BY <1>1, <1>2 DEF TypeOK, Names
    <3>2. /\ [dir[m] EXCEPT !.whole = TRUE] \in Entries
          /\ [dir[m] EXCEPT !.whole = TRUE].of = p
          /\ [dir[m] EXCEPT !.whole = TRUE].whole
          /\ [dir[d] EXCEPT !.whole = FALSE] \in Entries
          /\ [dir[d] EXCEPT !.whole = FALSE].of = p
      BY <1>2, <3>1 DEF Entries
    <3> QED
      BY <1>1, <1>2, <1>3, <3>2, NamesDiffer DEF TypeOK, Names
  <2>2. pc' = [pc EXCEPT ![p] = "clear"]
    BY <1>3 DEF Goto
  <2>3. TypeOK'
    BY <1>1, <1>2, <2>1, <2>2 DEF TypeOK, Labels
  <2>4. Holdings(p)' /\ Leftovers(p)'
    BY <1>1, <1>2, <2>1, <2>2 DEF TypeOK, Holdings, Leftovers, HoldsTemporary, HoldsDirectory
  <2>5. KeepsToItself(p)
    BY <1>1, <1>2, <2>1, <2>2 DEF TypeOK, KeepsToItself
  <2> QED
    BY <2>3, <2>4, <2>5 DEF StepSafe
<1>4. CASE Goto(p, "unreserve") /\ UNCHANGED dir
  <2>1. TypeOK'
    BY <1>1, <1>2, <1>4 DEF TypeOK, Goto, Labels
  <2>2. Holdings(p)' /\ Leftovers(p)'
    BY <1>1, <1>2, <1>4 DEF TypeOK, Holdings, Leftovers, HoldsTemporary, HoldsDirectory, Goto
  <2>3. KeepsToItself(p)
    BY <1>1, <1>2, <1>4, <2>1, SameDirectory DEF TypeOK, Goto
  <2> QED
    BY <2>1, <2>2, <2>3 DEF StepSafe
<1> QED
  BY <1>3, <1>4 DEF Move

-----------------------------------------------------------------------------
(***************************************************************************)
(* The theorems.                                                           *)
(***************************************************************************)

\* Every step of a command establishes what it must.
LEMMA EveryStepSafe ==
  ASSUME PublicationInvariant, NEW p \in Processes, Step(p) \/ Kill(p)
  PROVE  StepSafe(p)
BY StartSafe, KillSafe, PublishSafe, DiscardSafe, CreateTemporarySafe, WriteTemporarySafe,
   IsolateSafe, WriteSourceVerifySafe, CompileSafe, ReserveSafe, MoveSafe, UnreserveSafe,
   ClearSafe, CleanupSafe
   DEF Step

\* The invariant is inductive.
LEMMA InvariantPreserved ==
  ASSUME PublicationInvariant, [Next]_vars
  PROVE  PublicationInvariant'
<1>1. CASE Next
  <2>1. PICK p \in Processes : Step(p) \/ Kill(p)
    BY <1>1 DEF Next
  <2>2. TypeOK' /\ Holdings(p)' /\ Leftovers(p)' /\ KeepsToItself(p)
    BY <2>1, EveryStepSafe DEF StepSafe
  <2>3. \A q \in Processes : Holdings(q)' /\ Leftovers(q)'
    BY <2>2, OthersUndisturbed
  <2>4. OutputWhole'
    <3>1. CASE dir'[Output] = dir[Output]
      BY <3>1 DEF PublicationInvariant, OutputWhole
    <3>2. CASE dir'[Output] = Entry(p, TRUE)
      BY <3>2, EntriesMade DEF OutputWhole
    <3> QED
      BY <2>2, <3>1, <3>2 DEF KeepsToItself
  <2> QED
    BY <2>2, <2>3, <2>4 DEF PublicationInvariant
<1>2. CASE UNCHANGED vars
  BY <1>2 DEF vars, PublicationInvariant, TypeOK, OutputWhole, Holdings, Leftovers
<1> QED
  BY <1>1, <1>2

\* The invariant holds before any command has begun.
LEMMA InvariantInitially ==
  ASSUME Init PROVE PublicationInvariant
<1>1. PICK taken \in UserFiles :
        dir = [n \in Names |-> IF n \in taken THEN Entry(User, TRUE) ELSE Absent]
  BY DEF Init
<1>2. /\ Entry(User, TRUE) \in Entries /\ Absent \in Entries
      /\ Entry(User, TRUE).of = User /\ Entry(User, TRUE).whole /\ Absent.of = Nobody
  BY DEF Entry, Absent, Entries
<1>3. dir \in [Names -> Entries] /\ \A n \in Names : dir[n] = Entry(User, TRUE) \/ dir[n] = Absent
  BY <1>1, <1>2
<1>4. TypeOK
  <2>1. 0 \in 0 .. Attempts /\ {} \in SUBSET Temporaries
    BY PublicationAssumption
  <2> QED
    BY <1>3, <2>1 DEF TypeOK, Init, Labels
<1>5. OutputWhole
  BY <1>2, <1>3 DEF OutputWhole, Names
<1>6. \A p \in Processes : Holdings(p) /\ Leftovers(p)
  <2>1. \A p \in Processes : Holdings(p)
    BY DEF Init, Holdings, HoldsTemporary, HoldsDirectory
  <2>2. \A p \in Processes, n \in Temporaries : dir[n].of # p
    BY <1>2, <1>3, PublicationAssumption DEF Names
  <2> QED
    BY <2>1, <2>2 DEF Leftovers
<1> QED
  BY <1>4, <1>5, <1>6 DEF PublicationInvariant

\* What commands hold and have left behind agrees with their control state,
\* in every reachable state of write_file_atomically and build_native.
THEOREM PublicationInvariance == Spec => []PublicationInvariant
<1>1. Init => PublicationInvariant
  BY InvariantInitially
<1>2. PublicationInvariant /\ [Next]_vars => PublicationInvariant'
  BY InvariantPreserved
<1> QED
  BY <1>1, <1>2, PTL DEF Spec

\* The output is never an incomplete file, whichever call of emit-c or build
\* fails and whenever one is killed.
THEOREM PublishedWhole == Spec => []OutputWhole
<1>1. PublicationInvariant => OutputWhole
  BY DEF PublicationInvariant
<1> QED
  BY <1>1, PublicationInvariance, PTL

\* A command that returns has removed what it made, or tried to.
THEOREM NoLitter == Spec => []NothingLeftBehind
<1>1. PublicationInvariant => NothingLeftBehind
  BY DEF PublicationInvariant, Holdings, Leftovers, NothingLeftBehind,
         HoldsTemporary, HoldsDirectory
<1> QED
  BY <1>1, PublicationInvariance, PTL

\* Only the rename of a command that succeeds changes the output, and to what
\* that command made.
THEOREM FailureKeepsOutput == Spec => OnlySuccessPublishes
<1> DEFINE Published ==
      dir'[Output] # dir[Output] =>
        \E p \in Processes : /\ result[p] = "running" /\ result'[p] = "ok"
                             /\ dir'[Output] = Entry(p, TRUE)
<1>1. PublicationInvariant /\ [Next]_vars => [Published]_vars
  <2> SUFFICES ASSUME PublicationInvariant, Next PROVE Published
    OBVIOUS
  <2>1. PICK p \in Processes : Step(p) \/ Kill(p)
    BY DEF Next
  <2> QED
    BY <2>1, EveryStepSafe DEF StepSafe, KeepsToItself
<1> QED
  BY <1>1, PublicationInvariance, PTL DEF Spec, OnlySuccessPublishes

\* Exclusive creation keeps every command away from files it did not make.
THEOREM CollisionsSafe == Spec => CollisionsHarmNobody
<1> DEFINE Harmless ==
      \A n \in Temporaries :
        dir[n] # Absent /\ dir'[n] # dir[n] =>
          /\ dir[n].of \in Processes
          /\ pc'[dir[n].of] # pc[dir[n].of]
<1>1. PublicationInvariant /\ [Next]_vars => [Harmless]_vars
  <2> SUFFICES ASSUME PublicationInvariant, Next PROVE Harmless
    OBVIOUS
  <2>1. PICK p \in Processes : Step(p) \/ Kill(p)
    BY DEF Next
  <2> QED
    BY <2>1, EveryStepSafe DEF StepSafe, KeepsToItself
<1> QED
  BY <1>1, PublicationInvariance, PTL DEF Spec, CollisionsHarmNobody

=============================================================================
