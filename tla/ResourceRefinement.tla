------------------------- MODULE ResourceRefinement -------------------------
(***************************************************************************)
(* EvaluationResources implements ResourceLedger.                          *)
(*                                                                         *)
(* A reservation is charged from the step that binds its buffer to the     *)
(* step that takes its bytes off the counter.  Work and ordinals are those *)
(* of the open transaction's working copy while there is one.              *)
(***************************************************************************)
EXTENDS EvaluationResources

ChargeOf(b) ==
  IF buffer[b].bound # NoToken
  THEN [token |-> buffer[b].bound, bytes |-> buffer[b].bytes]
  ELSE IF Refunding(b)
       THEN [token |-> buffer[b].owner, bytes |-> buffer[b].bytes]
       ELSE [token |-> NoToken, bytes |-> 0]

Ledger == INSTANCE ResourceLedger WITH
  Tokens         <- Tokens,
  Reservations   <- Buffers,
  Policies       <- Configurations,
  UnopenedPolicy <- FailedRecord.config,
  Edits          <- Edits,
  MaxBytes       <- MaxSize,
  issued         <- IF next_resource_token = NoToken THEN MaxToken
                                                     ELSE next_resource_token - 1,
  open           <- context_active,
  policy         <- [tok \in Tokens |-> shared[tok].config],
  charge         <- [b \in Buffers |-> ChargeOf(b)],
  work           <- [tok \in Tokens |-> Counters(tok).work],
  drawn          <- [tok \in Tokens |-> Counters(tok).ordinal]

\* Every behaviour of the locked, pinned, re-entrant implementation is one
\* of the atomic ledger: admissions see the true sum of the outstanding
\* charges, each charge is refunded once and to its own context, ordinals
\* are drawn one at a time, tokens are issued once and policies change one
\* field at a time from their current value.
ImplementsLedger == Ledger!Spec
=============================================================================
