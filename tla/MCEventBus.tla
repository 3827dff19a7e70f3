----------------------------- MODULE MCEventBus -----------------------------
(* A small instance of EventBus for TLC. *)
EXTENDS EventBus, TLC

\* Subscriptions are interchangeable: Next quantifies over them, and no
\* property singles one out.
SubSymmetry == Permutations(Sub)

=============================================================================
