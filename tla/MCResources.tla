---------------------------- MODULE MCResources ----------------------------
(***************************************************************************)
(* Instances of EvaluationResources for TLC.                               *)
(***************************************************************************)
EXTENDS ResourceRefinement, TLC

Trusted2 ==
  [profile |-> "trusted_local_v2", max_vector_bytes |-> {},
   max_live_evaluation_bytes |-> {}, max_work_units |-> {},
   max_tuple_table_bytes |-> {}, fail_at_reservation_ordinal |-> {}]

Bounded1 == [Trusted2 EXCEPT !.profile = "bounded_v1", !.max_vector_bytes = {1}]
Bounded2 == [Trusted2 EXCEPT !.profile = "bounded_v2", !.max_live_evaluation_bytes = {1},
                             !.max_work_units = {1}]

TrustedOnly == {Trusted2}
BoundedOnly == {Bounded2}
BothVersions == {Bounded1, [Trusted2 EXCEPT !.profile = "bounded_v2",
                                            !.max_tuple_table_bytes = {1}]}

\* Two fields that clients publish independently.
LimitEdits == {[field |-> "max_work_units", value |-> {2}],
               [field |-> "max_live_evaluation_bytes", value |-> {2}]}
NoEdits == {}

\* Contexts, aliases, values that outlive their context, and each kind of
\* reservation, released through the right and the wrong context.
LifetimeCalls == {"make", "copy", "release_context", "allocate_vector",
                  "reserve_tuple_table", "reserve_workspace",
                  "release_vector_reservation", "release_tuple_table",
                  "release_workspace", "detach_value_reservations",
                  "destroy_value", "abandon"}

\* Observers that call back into the context that notifies them.
ReentrantCalls == {"make", "copy", "set_lifetime_observer", "charge_work",
                   "reserve_tuple_table", "release_value_reservations",
                   "release_context"}

\* Aliases of one lease that charge it and change its policy.
LedgerCalls == {"make", "copy", "release_context", "update_configuration",
                "allocate_vector", "reserve_workspace", "destroy_value"}

\* What has to come to an end.
DrainCalls == {"make", "copy", "release_context", "refresh",
               "set_lifetime_observer", "allocate_vector",
               "release_vector_reservation", "destroy_value"}

Symmetry == Permutations(Threads) \cup Permutations(Buffers)
=============================================================================
