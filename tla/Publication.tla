----------------------------- MODULE Publication -----------------------------
(***************************************************************************)
(* How `bennu emit-c` (write_file_atomically, src/src/main.cpp) and        *)
(* `bennu build` (build_native, src/src/native_builder.cpp) publish a file *)
(* on a POSIX system: several commands, one output path, and the directory *)
(* they share.                                                             *)
(*                                                                         *)
(* A step is one system call that other commands can see, or the run of    *)
(* the compiler.  Every call may fail, a command may be killed between any *)
(* two of them, and the directory may already hold files of the user, or   *)
(* of killed commands, under the names the commands try.                   *)
(*                                                                         *)
(* An entry says who made it and whether it is whole.  Of the isolated     *)
(* build directory, one entry stands for all: it is whole while it holds a *)
(* finished executable.                                                    *)
(***************************************************************************)
EXTENDS Integers

CONSTANTS
  Processes,   \* the commands that are ever run
  Command,     \* "emit-c" or "build", for each
  Attempts,    \* how many names a command tries (100 in the code)
  UserFiles,   \* the sets of names that files of the user may take
  User,        \* who made the files that no command made
  Nobody       \* who made a file that does not exist

VARIABLES
  dir,         \* the entries of the output's parent directory
  pc,          \* per command
  attempt,     \* per command: the loop counter of the names tried
  directory,   \* per command: temporary_directory
  temporary,   \* per command: temporary_path, candidate or replacement
  result,      \* per command: "running", "ok", "failed" or "killed"
  stuck        \* entries whose removal has failed

vars == <<dir, pc, attempt, directory, temporary, result, stuck>>

\* The output, its siblings .tmp.<n> of emit-c, and .bennu-build.tmp.<n> and
\* .bennu-native.tmp.<n> of build.
Output == <<"output", 0>>
Candidates(kind) == {kind} \X (0 .. Attempts - 1)
Temporaries == Candidates("tmp") \cup Candidates("build") \cup Candidates("native")
Names == {Output} \cup Temporaries

ASSUME PublicationAssumption ==
  /\ Command \in [Processes -> {"emit-c", "build"}]
  /\ Attempts \in Nat
  /\ UserFiles \subseteq SUBSET Names
  /\ User \notin Processes /\ Nobody \notin Processes /\ User # Nobody

Entry(p, whole) == [of |-> p, whole |-> whole]
Absent == Entry(Nobody, FALSE)
Entries == [of : Processes \cup {User, Nobody}, whole : BOOLEAN]

\* The names of the user's files are taken from the start.
Init ==
  /\ \E taken \in UserFiles :
       dir = [n \in Names |-> IF n \in taken THEN Entry(User, TRUE) ELSE Absent]
  /\ pc = [p \in Processes |-> "start"]
  /\ attempt = [p \in Processes |-> 0]
  /\ directory = [p \in Processes |-> Output]
  /\ temporary = [p \in Processes |-> Output]
  /\ result = [p \in Processes |-> "running"]
  /\ stuck = {}

Goto(p, label) == pc' = [pc EXCEPT ![p] = label]

Return(p, outcome) ==
  /\ Goto(p, "done")
  /\ result' = [result EXCEPT ![p] = outcome]

(***************************************************************************)
(* Exclusive creation under the next name.                                 *)
(***************************************************************************)

\* Mutant: a name that is taken is used all the same.
Create_Truncates(p, name) ==
  /\ attempt[p] < Attempts
  /\ dir' = [dir EXCEPT ![name] = Entry(p, FALSE)]

\* create_exclusive_file, create_directory, reserve_replacement_path
Create(p, name) ==
  /\ attempt[p] < Attempts
  /\ dir[name] = Absent
  /\ dir' = [dir EXCEPT ![name] = Entry(p, FALSE)]

\* The name is taken, and there are more.
TryNext(p, name) ==
  /\ attempt[p] < Attempts
  /\ dir[name] # Absent
  /\ attempt' = [attempt EXCEPT ![p] = @ + 1]

\* std::filesystem::remove and remove_all: the entry goes, or stays.
Remove(name) ==
  \/ /\ dir' = [dir EXCEPT ![name] = Absent]
     /\ UNCHANGED stuck
  \/ /\ stuck' = stuck \cup {name}
     /\ UNCHANGED dir

(***************************************************************************)
(* Both commands.                                                          *)
(***************************************************************************)

\* Reading the source, the source/output alias check and emission: refusals
\* before anything is created.
StartEmission(p) ==
  /\ pc[p] = "start" /\ Command[p] = "emit-c"
  /\ \/ Return(p, "failed")
     \/ Goto(p, "create") /\ UNCHANGED result
  /\ UNCHANGED <<dir, attempt, directory, temporary, stuck>>

\* The same for a build, and then the choice of the compiler and of the
\* absolute output path.
StartBuild(p) ==
  /\ pc[p] = "start" /\ Command[p] = "build"
  /\ \/ Return(p, "failed")
     \/ Goto(p, "isolate") /\ UNCHANGED result
  /\ UNCHANGED <<dir, attempt, directory, temporary, stuck>>

\* Mutant: the output is removed before the rename, and the rename may fail.
Publish_RemovesFirst(p) ==
  /\ pc[p] = "publish"
  /\ \/ /\ dir' = [dir EXCEPT ![Output] = dir[temporary[p]], ![temporary[p]] = Absent]
        /\ Return(p, "ok")
     \/ /\ dir' = [dir EXCEPT ![Output] = Absent]
        /\ Goto(p, "discard")
        /\ UNCHANGED result
  /\ UNCHANGED <<attempt, directory, temporary, stuck>>

\* replace_file, replace_output: rename over the output, or nothing.
Publish(p) ==
  /\ pc[p] = "publish"
  /\ \/ /\ dir' = [dir EXCEPT ![Output] = dir[temporary[p]], ![temporary[p]] = Absent]
        /\ Return(p, "ok")
     \/ /\ Goto(p, "discard")
        /\ UNCHANGED <<dir, result>>
  /\ UNCHANGED <<attempt, directory, temporary, stuck>>

\* The temporary file is removed and the command fails.
Discard(p) ==
  /\ pc[p] = "discard"
  /\ Remove(temporary[p])
  /\ Return(p, "failed")
  /\ UNCHANGED <<attempt, directory, temporary>>

\* The command is killed; what it made stays.
Kill(p) ==
  /\ result[p] = "running"
  /\ pc' = [pc EXCEPT ![p] = "done"]
  /\ result' = [result EXCEPT ![p] = "killed"]
  /\ UNCHANGED <<dir, attempt, directory, temporary, stuck>>

(***************************************************************************)
(* emit-c.                                                                 *)
(***************************************************************************)

\* The loop of write_file_atomically; an error other than EEXIST ends it.
CreateTemporary(p) ==
  LET name == <<"tmp", attempt[p]>>
  IN  /\ pc[p] = "create"
      /\ \/ /\ Create(p, name)
            /\ temporary' = [temporary EXCEPT ![p] = name]
            /\ Goto(p, "write")
            /\ UNCHANGED <<attempt, result>>
         \/ TryNext(p, name) /\ UNCHANGED <<dir, pc, temporary, result>>
         \/ Return(p, "failed") /\ UNCHANGED <<dir, attempt, temporary>>
      /\ UNCHANGED <<directory, stuck>>

\* Mutant: the close is not checked, and what it could not write is lost.
WriteTemporary_IgnoresClose(p) ==
  /\ pc[p] = "write"
  /\ \E whole \in BOOLEAN : dir' = [dir EXCEPT ![temporary[p]].whole = whole]
  /\ Goto(p, "publish")
  /\ UNCHANGED <<attempt, directory, temporary, result, stuck>>

\* fdopen, fwrite and fclose
WriteTemporary(p) ==
  /\ pc[p] = "write"
  /\ \/ /\ dir' = [dir EXCEPT ![temporary[p]].whole = TRUE]
        /\ Goto(p, "publish")
     \/ /\ Goto(p, "discard")
        /\ UNCHANGED dir
  /\ UNCHANGED <<attempt, directory, temporary, result, stuck>>

(***************************************************************************)
(* build.                                                                  *)
(***************************************************************************)

\* The loop over build directories; an error other than file_exists ends it.
Isolate(p) ==
  LET name == <<"build", attempt[p]>>
  IN  /\ pc[p] = "isolate"
      /\ \/ /\ Create(p, name)
            /\ directory' = [directory EXCEPT ![p] = name]
            /\ Goto(p, "source")
            /\ UNCHANGED <<attempt, result>>
         \/ TryNext(p, name) /\ UNCHANGED <<dir, pc, directory, result>>
         \/ Return(p, "failed") /\ UNCHANGED <<dir, attempt, directory>>
      /\ UNCHANGED <<temporary, stuck>>

\* write_bytes of program.c
WriteSource(p) ==
  /\ pc[p] = "source"
  /\ Goto(p, "compile") \/ Goto(p, "cleanup")
  /\ UNCHANGED <<dir, attempt, directory, temporary, result, stuck>>

\* run_process.  A compiler may fail and leave anything behind, or report
\* success without an executable.
Compile(p) ==
  /\ pc[p] = "compile"
  /\ \E whole \in BOOLEAN : dir' = [dir EXCEPT ![directory[p]].whole = whole]
  /\ Goto(p, "verify") \/ Goto(p, "cleanup")
  /\ UNCHANGED <<attempt, directory, temporary, result, stuck>>

\* is_usable_native_output
Verify(p) ==
  /\ pc[p] = "verify"
  /\ Goto(p, IF dir[directory[p]].whole THEN "stage" ELSE "cleanup")
  /\ attempt' = [attempt EXCEPT ![p] = 0]
  /\ UNCHANGED <<dir, directory, temporary, result, stuck>>

\* The loop over replacement names: whatever the reason one cannot be
\* reserved, the next is tried; a reserved one that cannot be closed is
\* removed first.
Reserve(p) ==
  LET name == <<"native", attempt[p]>>
  IN  /\ pc[p] = "stage"
      /\ \/ /\ Create(p, name)
            /\ temporary' = [temporary EXCEPT ![p] = name]
            /\ Goto(p, "move") \/ Goto(p, "unreserve")
            /\ UNCHANGED attempt
         \/ /\ attempt[p] < Attempts
            /\ attempt' = [attempt EXCEPT ![p] = @ + 1]
            /\ UNCHANGED <<dir, pc, temporary>>
         \/ /\ attempt[p] = Attempts
            /\ Goto(p, "cleanup")
            /\ UNCHANGED <<dir, attempt, temporary>>
      /\ UNCHANGED <<directory, result, stuck>>

\* The executable moves out of the build directory over the reserved name.
Move(p) ==
  /\ pc[p] = "move"
  /\ \/ /\ dir' = [dir EXCEPT ![temporary[p]].whole = TRUE,
                              ![directory[p]].whole = FALSE]
        /\ Goto(p, "clear")
     \/ Goto(p, "unreserve") /\ UNCHANGED dir
  /\ UNCHANGED <<attempt, directory, temporary, result, stuck>>

\* A reserved name that could not be replaced is given up for the next one.
Unreserve(p) ==
  /\ pc[p] = "unreserve"
  /\ Remove(temporary[p])
  /\ temporary' = [temporary EXCEPT ![p] = Output]
  /\ attempt' = [attempt EXCEPT ![p] = @ + 1]
  /\ Goto(p, "stage")
  /\ UNCHANGED <<directory, result>>

\* Mutant: the build directory is left when it cannot be removed at once, and
\* nobody is told.
Clear_GoesOn(p) ==
  /\ pc[p] = "clear"
  /\ \/ dir' = [dir EXCEPT ![directory[p]] = Absent]
     \/ UNCHANGED dir
  /\ Goto(p, "publish")
  /\ UNCHANGED <<attempt, directory, temporary, result, stuck>>

\* The build directory is removed before the output is replaced; when that
\* fails the replacement is removed instead.
Clear(p) ==
  /\ pc[p] = "clear"
  /\ Remove(directory[p])
  /\ Goto(p, IF dir' = dir THEN "discard" ELSE "publish")
  /\ UNCHANGED <<attempt, directory, temporary, result>>

\* failure_with_cleanup
Cleanup(p) ==
  /\ pc[p] = "cleanup"
  /\ Remove(directory[p])
  /\ Return(p, "failed")
  /\ UNCHANGED <<attempt, directory, temporary>>

Step(p) ==
  \/ StartEmission(p) \/ StartBuild(p) \/ Publish(p) \/ Discard(p)
  \/ CreateTemporary(p) \/ WriteTemporary(p)
  \/ Isolate(p) \/ WriteSource(p) \/ Compile(p) \/ Verify(p)
  \/ Reserve(p) \/ Move(p) \/ Unreserve(p) \/ Clear(p) \/ Cleanup(p)

Next == \E p \in Processes : Step(p) \/ Kill(p)

Spec == Init /\ [][Next]_vars

-----------------------------------------------------------------------------
(***************************************************************************)
(* Properties.                                                             *)
(***************************************************************************)
Labels == {"start", "create", "write", "publish", "discard", "isolate", "source",
           "compile", "verify", "stage", "move", "unreserve", "clear", "cleanup", "done"}

\* Every variable has its type.
TypeOK ==
  /\ dir \in [Names -> Entries]
  /\ pc \in [Processes -> Labels]
  /\ attempt \in [Processes -> 0 .. Attempts]
  /\ directory \in [Processes -> Candidates("build") \cup {Output}]
  /\ temporary \in [Processes -> Candidates("tmp") \cup Candidates("native") \cup {Output}]
  /\ result \in [Processes -> {"running", "ok", "failed", "killed"}]
  /\ stuck \in SUBSET Temporaries

\* Whatever fails or is killed, the output is what it was or the whole of
\* what one command made.
OutputWhole == dir[Output] = Absent \/ dir[Output].whole

\* The output changes only in the step in which a command succeeds, to what
\* that command made: a command that fails or is killed has not touched it.
OnlySuccessPublishes ==
  [][dir'[Output] # dir[Output] =>
       \E p \in Processes : /\ result[p] = "running" /\ result'[p] = "ok"
                            /\ dir'[Output] = Entry(p, TRUE)]_vars

\* A file that exists is changed or removed by the command that made it and
\* no other, the output aside: collisions of names harm neither the user's
\* files, nor other commands, nor what killed commands left.
CollisionsHarmNobody ==
  [][\A n \in Temporaries :
       dir[n] # Absent /\ dir'[n] # dir[n] =>
         /\ dir[n].of \in Processes
         /\ pc'[dir[n].of] # pc[dir[n].of]]_vars

\* A command that returns has left nothing behind but what could not be
\* removed.
NothingLeftBehind ==
  \A p \in Processes : result[p] \in {"ok", "failed"} =>
    \A n \in Temporaries : dir[n].of = p => n \in stuck

-----------------------------------------------------------------------------
(***************************************************************************)
(* The inductive invariant behind the theorems.                            *)
(***************************************************************************)
HoldsTemporary == {"write", "publish", "discard", "move", "unreserve", "clear"}
HoldsDirectory == {"source", "compile", "verify", "stage", "move", "unreserve",
                   "clear", "cleanup"}

\* What a running command has made is where its variables say.
Holdings(p) ==
  /\ pc[p] \in HoldsTemporary => temporary[p] # Output /\ dir[temporary[p]].of = p
  /\ pc[p] \in HoldsDirectory => directory[p] # Output /\ dir[directory[p]].of = p
  /\ pc[p] \in {"stage", "move", "unreserve"} => dir[directory[p]].whole
  /\ pc[p] \in {"publish", "clear"} => dir[temporary[p]].whole
  /\ pc[p] \in {"move", "unreserve"} => attempt[p] < Attempts
  /\ pc[p] = "done" <=> result[p] # "running"

\* ... and it has made nothing else that is still there.
Leftovers(p) ==
  \A n \in Temporaries : dir[n].of = p /\ result[p] # "killed" =>
    \/ n \in stuck
    \/ pc[p] \in HoldsTemporary /\ n = temporary[p]
    \/ pc[p] \in HoldsDirectory /\ n = directory[p]

\* In every state of write_file_atomically and build_native, what a command
\* has made is what its control state says, and the output is whole.
PublicationInvariant ==
  /\ TypeOK
  /\ OutputWhole
  /\ \A p \in Processes : Holdings(p) /\ Leftovers(p)

=============================================================================
