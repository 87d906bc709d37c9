--------------------------- MODULE ResourceLedger ---------------------------
(***************************************************************************)
(* What src/include/bennu/resources.hpp promises of evaluation resources,  *)
(* with no locks, pins, aliases, snapshots or callbacks: a context is a    *)
(* policy, the charges of its outstanding reservations, the work it has    *)
(* admitted and the ordinals it has drawn, and every operation is atomic.  *)
(* There is no byte counter: the bytes of a context are the bytes of its   *)
(* outstanding charges.                                                    *)
(***************************************************************************)
EXTENDS Integers, FiniteSets

CONSTANTS
  Tokens,          \* context identities, in the order they are issued
  Reservations,    \* what a charge can be attached to
  Policies,        \* what a context can be opened with
  UnopenedPolicy,  \* stands for the policy of a context that is not open yet
  Edits,           \* [field, value]: how a policy can be changed
  MaxBytes         \* the largest charge

VARIABLES
  issued,          \* how many contexts have ever been opened
  open,            \* contexts whose lease has not been given up
  policy,          \* per context
  charge,          \* per reservation: [token, bytes], token 0 when it has none
  work,            \* per context: admitted work units
  drawn            \* per context: reservation ordinals drawn

vars == <<issued, open, policy, charge, work, drawn>>

NoCharge == [token |-> 0, bytes |-> 0]

ChargedTo(tok) ==
  {byte \in Reservations \X (1 .. MaxBytes) :
     charge[byte[1]].token = tok /\ byte[2] <= charge[byte[1]].bytes}

LiveBytes(tok) == Cardinality(ChargedTo(tok))

Allowed(n, limit) == \A m \in limit : n <= m

Init ==
  /\ issued = 0
  /\ open = {}
  /\ charge = [r \in Reservations |-> NoCharge]
  /\ work = [tok \in Tokens |-> 0]
  /\ drawn = [tok \in Tokens |-> 0]
  /\ policy = [tok \in Tokens |-> UnopenedPolicy]

\* Identities are issued in order, each once.
Open(tok) ==
  /\ tok = issued + 1
  /\ issued' = tok
  /\ open' = open \cup {tok}
  /\ \E p \in Policies : policy' = [policy EXCEPT ![tok] = p]
  /\ UNCHANGED <<charge, work, drawn>>

Close(tok) ==
  /\ tok \in open
  /\ open' = open \ {tok}
  /\ UNCHANGED <<issued, policy, charge, work, drawn>>

\* An admission respects the policy for the sum of the outstanding charges.
Admit(tok, r, bytes, units) ==
  /\ tok <= issued
  /\ charge[r] = NoCharge
  /\ Allowed(LiveBytes(tok) + bytes, policy[tok].max_live_evaluation_bytes)
  /\ Allowed(work[tok] + units, policy[tok].max_work_units)
  /\ charge' = [charge EXCEPT ![r] = [token |-> tok, bytes |-> bytes]]
  /\ work' = [work EXCEPT ![tok] = @ + units]
  /\ drawn' = [drawn EXCEPT ![tok] = @ + 1]
  /\ UNCHANGED <<issued, open, policy>>

\* An attempt that fails after admission has drawn its ordinal all the same.
Fail(tok) ==
  /\ tok <= issued
  /\ drawn' = [drawn EXCEPT ![tok] = @ + 1]
  /\ UNCHANGED <<issued, open, policy, charge, work>>

Spend(tok, units) ==
  /\ tok <= issued
  /\ Allowed(work[tok] + units, policy[tok].max_work_units)
  /\ work' = [work EXCEPT ![tok] = @ + units]
  /\ UNCHANGED <<issued, open, policy, charge, drawn>>

\* A charge is refunded once, to the context it was made to.
Refund(r) ==
  /\ charge[r] # NoCharge
  /\ charge' = [charge EXCEPT ![r] = NoCharge]
  /\ UNCHANGED <<issued, open, policy, work, drawn>>

\* One field at a time, from the current policy.
Configure(tok, e) ==
  /\ tok <= issued
  /\ policy' = [policy EXCEPT ![tok][e.field] = e.value]
  /\ UNCHANGED <<issued, open, charge, work, drawn>>

Next ==
  \/ \E tok \in Tokens :
       \/ Open(tok) \/ Close(tok) \/ Fail(tok)
       \/ \E units \in 1 .. MaxBytes : Spend(tok, units)
       \/ \E r \in Reservations, bytes \in 1 .. MaxBytes, units \in 0 .. MaxBytes :
            Admit(tok, r, bytes, units)
       \/ \E e \in Edits : Configure(tok, e)
  \/ \E r \in Reservations : Refund(r)

Spec == Init /\ [][Next]_vars
=============================================================================
