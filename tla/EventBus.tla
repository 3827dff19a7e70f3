------------------------------ MODULE EventBus ------------------------------
(***************************************************************************)
(* The agent's in-memory event bus, internal/eventbus/eventbus.go: a       *)
(* window of the newest events, numbered from 1, fanned out to any number  *)
(* of subscribers over bounded channels.                                   *)
(*                                                                         *)
(* An event is its sequence number: nothing the bus does depends on the    *)
(* severity, source, kind or payload.  A channel is kept as the whole      *)
(* sequence sent on it and the number of its elements received so far,     *)
(* so that what a channel ever carried can be talked about; the elements   *)
(* buffered in it are those between the two.                               *)
(***************************************************************************)
EXTENDS Integers, Sequences, FiniteSets

CONSTANTS
    Sub,          \* identities of subscriptions (the values of nextSubID)
    MaxEvents,    \* events retained (maxEvents, 2000 by default)
    Slack,        \* free places of a new channel beyond its backlog (64)
    MaxSequence   \* bound on the number of events published (uint64 in Go)

ASSUME BusAssumption ==
    /\ MaxEvents \in Nat \ {0}
    /\ Slack \in Nat
    /\ MaxSequence \in Nat

VARIABLES
    nextSequence,  \* number of the newest event, 0 before the first
    retained,      \* the newest events, oldest first
    subs,          \* the live subscriptions: the keys of b.subs
    closed,        \* subscriptions whose channel unsubscribe has closed
    sent,          \* per subscription, everything sent on its channel
    taken,         \* per subscription, how many of them were received
    capacity,      \* per subscription, capacity of its channel
    cursor,        \* history: the afterSequence it subscribed with
    subscribedAt,  \* history: nextSequence when it subscribed
    missed         \* history: events it was not sent, its channel being full

chanVars == <<sent, taken, capacity, cursor, subscribedAt, missed>>
vars == <<nextSequence, retained, subs, closed, chanVars>>

Unused == Sub \ (subs \cup closed)

Init ==
    /\ nextSequence = 0
    /\ retained = <<>>
    /\ subs = {}
    /\ closed = {}
    /\ sent = [s \in Sub |-> <<>>]
    /\ taken = [s \in Sub |-> 0]
    /\ capacity = [s \in Sub |-> 0]
    /\ cursor = [s \in Sub |-> 0]
    /\ subscribedAt = [s \in Sub |-> 0]
    /\ missed = [s \in Sub |-> {}]

-----------------------------------------------------------------------------
(* Publish.  A definition whose name ends in _Fault is a faulty form of the *)
(* one that follows it: with it in place of the other, TLC finds the        *)
(* property named in its comment violated.                                  *)

\* b.nextSequence++, the number of the event being published.
EventNumber == nextSequence + 1

\* b.retained[len(b.retained)-b.maxEvents:], when it grew past the bound.
Newest(events) ==
    IF Len(events) > MaxEvents
    THEN SubSeq(events, Len(events) - MaxEvents + 1, Len(events))
    ELSE events

Buffered(s) == Len(sent[s]) - taken[s]

\* The send of "select { case ch <- event: default: }" finds room.
HasRoom(s) == Buffered(s) < capacity[s]

Publish ==
    LET event == EventNumber
    IN  /\ nextSequence < MaxSequence
        /\ nextSequence' = event
        /\ retained' = Newest(Append(retained, event))
        /\ sent' = [s \in Sub |-> IF s \in subs /\ HasRoom(s)
                                  THEN Append(sent[s], event) ELSE sent[s]]
        /\ missed' = [s \in Sub |-> IF s \in subs /\ ~HasRoom(s)
                                    THEN missed[s] \cup {event} ELSE missed[s]]
        /\ UNCHANGED <<subs, closed, taken, capacity, cursor, subscribedAt>>

-----------------------------------------------------------------------------
(* Subscribe, the receiver's loop, and unsubscribe *)

\* GapExact: a cursor right before the window is refused too.
HistoryGap_Fault(after) ==
    \/ after > nextSequence
    \/ Len(retained) > 0 /\ after < retained[1]

\* NothingElseLost: the window is not looked at.
HistoryGapUnchecked_Fault(after) == after > nextSequence

\* Subscribe answers ErrEventHistoryGap.
HistoryGap(after) ==
    \/ after > nextSequence
    \/ Len(retained) > 0 /\ after + 1 < retained[1]

\* DeliveredInOrder: the event at the cursor is sent again.
Backlog_Fault(after) ==
    LET skipped == Cardinality({i \in 1..Len(retained) : retained[i] < after})
    IN  SubSeq(retained, skipped + 1, Len(retained))

\* The retained events above the cursor.  retained is in increasing order, so
\* they follow those at or below it.
Backlog(after) ==
    LET skipped == Cardinality({i \in 1..Len(retained) : retained[i] <= after})
    IN  SubSeq(retained, skipped + 1, Len(retained))

\* FreshSubscriberMissesNothing: the backlog uses up the reserved places.
ChannelCapacity_Fault(backlog) == IF Len(backlog) > Slack THEN Len(backlog) ELSE Slack

\* make(chan controlplane.Event, len(backlog)+64).
ChannelCapacity(backlog) == Len(backlog) + Slack

Subscribe(s, after) ==
    /\ s \in Unused
    /\ ~HistoryGap(after)
    /\ subs' = subs \cup {s}
    /\ sent' = [sent EXCEPT ![s] = Backlog(after)]
    /\ capacity' = [capacity EXCEPT ![s] = ChannelCapacity(Backlog(after))]
    /\ cursor' = [cursor EXCEPT ![s] = after]
    /\ subscribedAt' = [subscribedAt EXCEPT ![s] = nextSequence]
    /\ UNCHANGED <<nextSequence, retained, closed, taken, missed>>

\* The subscriber receives one event; a closed channel is drained first.
Receive(s) ==
    /\ Buffered(s) > 0
    /\ taken' = [taken EXCEPT ![s] = @ + 1]
    /\ UNCHANGED <<nextSequence, retained, subs, closed, sent, capacity,
                   cursor, subscribedAt, missed>>

\* The context of the subscription is done.
Unsubscribe(s) ==
    /\ s \in subs
    /\ subs' = subs \ {s}
    /\ closed' = closed \cup {s}
    /\ UNCHANGED <<nextSequence, retained, chanVars>>

Next ==
    \/ Publish
    \/ \E s \in Sub : \/ \E after \in 0..MaxSequence : Subscribe(s, after)
                      \/ Receive(s)
                      \/ Unsubscribe(s)

Spec == Init /\ [][Next]_vars

-----------------------------------------------------------------------------
(* Correctness *)

SequenceNumber == 1..MaxSequence

\* Types of the bus.
TypeOK ==
    /\ nextSequence \in 0..MaxSequence
    /\ retained \in Seq(SequenceNumber)
    /\ subs \subseteq Sub
    /\ closed \subseteq Sub
    /\ sent \in [Sub -> Seq(SequenceNumber)]
    /\ taken \in [Sub -> Nat]
    /\ capacity \in [Sub -> Nat]
    /\ cursor \in [Sub -> 0..MaxSequence]
    /\ subscribedAt \in [Sub -> 0..MaxSequence]
    /\ missed \in [Sub -> SUBSET SequenceNumber]

\* What is retained is the newest MaxEvents events, without a hole (Publish
\* appends, then cuts the window).
RetainedIsNewest ==
    /\ Len(retained) = IF nextSequence < MaxEvents THEN nextSequence ELSE MaxEvents
    /\ \A i \in 1..Len(retained) :
           retained[i] = nextSequence - Len(retained) + i

IsRetained(q) == \E i \in 1..Len(retained) : retained[i] = q

\* Subscribe refuses a cursor exactly when it cannot serve it: the cursor was
\* never given out, or an event after it is no longer retained.
GapExact ==
    \A after \in 0..MaxSequence :
        HistoryGap(after) <=> \/ after > nextSequence
                              \/ \E q \in (after + 1)..nextSequence : ~IsRetained(q)

\* A channel carries events after the cursor, each once, in the order they
\* were published, whatever is published while Subscribe fills the backlog.
DeliveredInOrder ==
    \A s \in Sub : \A i \in 1..Len(sent[s]) :
        /\ cursor[s] < sent[s][i]
        /\ sent[s][i] <= nextSequence
        /\ \A j \in 1..Len(sent[s]) : i < j => sent[s][i] < sent[s][j]

WasSent(s, q) == \E i \in 1..Len(sent[s]) : sent[s][i] = q

\* Every event after a live subscriber's cursor was sent to it, unless its
\* channel was full at the time: none falls between backlog and live events.
NothingElseLost ==
    \A s \in subs : \A q \in (cursor[s] + 1)..nextSequence :
        WasSent(s, q) \/ q \in missed[s]

\* The backlog never takes the places reserved for new events: a subscriber
\* misses none of the first Slack events published after it subscribed, even
\* if it has received nothing yet.
FreshSubscriberMissesNothing ==
    \A s \in Sub : \A q \in missed[s] : q > subscribedAt[s] + Slack

\* A channel holds what was put in it: neither the sends of Subscribe, made
\* with the lock held, nor a receive can block for ever on it.
ChannelBounded ==
    \A s \in Sub : Buffered(s) \in 0..capacity[s]

\* A live subscription was made with a cursor at or below the newest event.
CursorPublished == \A s \in subs : cursor[s] <= nextSequence

\* What makes the two properties above inductive: an unused subscription has
\* no channel, and a channel was sent at most its backlog, which is its
\* capacity less Slack, and the events published since it subscribed.
ChannelAccount ==
    \A s \in Sub :
        IF s \in Unused
        THEN sent[s] = <<>> /\ taken[s] = 0 /\ capacity[s] = 0 /\ missed[s] = {}
        ELSE /\ subscribedAt[s] <= nextSequence
             /\ Len(sent[s]) + Slack <= capacity[s] + nextSequence - subscribedAt[s]

\* The inductive invariant of the bus.
IInv ==
    /\ TypeOK
    /\ RetainedIsNewest
    /\ DeliveredInOrder
    /\ NothingElseLost
    /\ FreshSubscriberMissesNothing
    /\ ChannelBounded
    /\ CursorPublished
    /\ ChannelAccount

-----------------------------------------------------------------------------
(* The comment on Publish (eventbus.go:40-42) *)

\* "a subscriber that can't keep up misses events ...; that gap is exactly
\* what the sequence cursor and ErrEventHistoryGap on the next Subscribe call
\* are for": a subscriber that missed an event and comes back with the cursor
\* it reached is told so.
MissIsReported ==
    \A s \in subs :
        LET reached == sent[s][taken[s]]
        IN  taken[s] > 0 /\ (\E q \in missed[s] : q < reached) => HistoryGap(reached)

=============================================================================
