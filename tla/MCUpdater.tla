------------------------------ MODULE MCUpdater ------------------------------
(* Small instances of Updater for TLC. *)
EXTENDS Updater, TLC

\* Handlers are interchangeable.  Requests are not: NoRequest chooses one.
HandlerSymmetry == Permutations(Handler)

=============================================================================
