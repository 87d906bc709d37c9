---------------------------- MODULE MCPublication ----------------------------
(***************************************************************************)
(* Two emissions and two builds to one path, with two names to try of each *)
(* kind.                                                                   *)
(***************************************************************************)
EXTENDS Publication, TLC

CONSTANTS e1, e2, b1, b2

MCCommand == e1 :> "emit-c" @@ e2 :> "emit-c" @@ b1 :> "build" @@ b2 :> "build"
MCCommands == [p \in Processes |-> MCCommand[p]]

\* An empty directory; an old output and somebody's files under the names
\* that are tried first, and under all names.
FirstNames == {"tmp", "build", "native"} \X {0}
MCUserFiles == {{}, {Output} \cup FirstNames, Names}

Symmetry == Permutations({e1, e2} \cap Processes) \cup Permutations({b1, b2} \cap Processes)

=============================================================================
