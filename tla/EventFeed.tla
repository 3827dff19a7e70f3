----------------------------- MODULE EventFeed ------------------------------
(***************************************************************************)
(* What the live event stream promises the operator while the agent stays  *)
(* up and neither its window nor a channel overflows: every event is shown *)
(* exactly once, in the order of publication, whatever happens to the      *)
(* connection.                                                             *)
(***************************************************************************)
EXTENDS Naturals, Sequences

VARIABLES
    published,  \* number of events published
    shown       \* the events shown, in the order they were shown

feed == <<published, shown>>

Init == published = 0 /\ shown = <<>>

Publish == published' = published + 1 /\ UNCHANGED shown

Show ==
    /\ Len(shown) < published
    /\ shown' = Append(shown, Len(shown) + 1)
    /\ UNCHANGED published

Next == Publish \/ Show

Spec == Init /\ [][Next]_feed /\ WF_feed(Show)

=============================================================================
