----------------------------- MODULE AtomicBatch -----------------------------
(***************************************************************************)
(* What the on_shutdown mode promises: whole requests join one batch until *)
(* it is sealed, one request too many invalidates all of it, and the batch *)
(* is published once, complete, or never.                                  *)
(***************************************************************************)
CONSTANT Request

VARIABLES
  phase,                \* "open", "invalid", "sealed" or "settled"
  batch,                \* the accepted requests
  published             \* the batches published

vars == <<phase, batch, published>>

Init == phase = "open" /\ batch = {} /\ published = {}

\* A whole request is accepted.
Accept(r) ==
  /\ phase = "open"
  /\ batch' = batch \cup {r}
  /\ UNCHANGED <<phase, published>>

\* A request that does not fit invalidates what was accepted before it.
Invalidate ==
  /\ phase = "open"
  /\ phase' = "invalid"
  /\ UNCHANGED <<batch, published>>

\* No request is accepted any more.
Seal ==
  /\ phase = "open"
  /\ phase' = "sealed"
  /\ UNCHANGED <<batch, published>>

Publish ==
  /\ phase = "sealed"
  /\ phase' = "settled"
  /\ published' = published \cup {batch}
  /\ UNCHANGED batch

\* There is nothing to publish, or publication failed; it is not retried.
Abandon ==
  /\ phase \in {"open", "sealed"}
  /\ phase' = "settled"
  /\ UNCHANGED <<batch, published>>

Next ==
  \/ \E r \in Request : Accept(r)
  \/ Invalidate \/ Seal \/ Publish \/ Abandon

Spec == Init /\ [][Next]_vars
=============================================================================
