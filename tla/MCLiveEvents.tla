---------------------------- MODULE MCLiveEvents ----------------------------
(* Small instances of LiveEvents for TLC. *)
EXTENDS LiveEvents

\* Markers are small, every other event is twice as large as its neighbour.
MCEntryBytes == [q \in 0..MaxSequence |-> IF q = 0 THEN 1 ELSE 1 + (q % 2)]

=============================================================================
