--------------------------- MODULE MCNativeRuntime ---------------------------
(***************************************************************************)
(* Setups for NativeRuntime: three values under no limit, one of each      *)
(* limit and an injected failure; two values with elements of one and of   *)
(* eight bytes and a vector whose size is not representable; and four      *)
(* values, so that tuples and fan-outs nest three deep.                    *)
(***************************************************************************)
EXTENDS NativeRuntime

MCNoLimits == [vector |-> {}, live |-> {}, work |-> {}, tuple |-> {}, fail_at |-> {}]

MCLimits ==
  {MCNoLimits,
   [MCNoLimits EXCEPT !.vector = {8}, !.live = {20}],
   [MCNoLimits EXCEPT !.live = {40}, !.tuple = {16}],
   [MCNoLimits EXCEPT !.work = {2}],
   [MCNoLimits EXCEPT !.fail_at = {2}]}

MCSetup(n, lengths, atoms, chosen) ==
  [slots |-> n, counts |-> lengths, types |-> atoms, limits |-> chosen]

MCSetups ==
  {MCSetup(3, {0, 2}, {"Int"}, l) : l \in MCLimits}
    \cup {MCSetup(2, {0, 2, 8}, {"Bool", "Int"}, l) : l \in MCLimits}
    \cup {MCSetup(4, {}, {"Int"}, MCNoLimits)}
=============================================================================
