----------------------------- MODULE LiveEvents -----------------------------
(***************************************************************************)
(* The live event stream from end to end: the agent's bus (EventBus), the  *)
(* goroutine of controlplane.Server.dispatch that forwards a subscription  *)
(* to a connection, the connection, the goroutine of Client.StreamEvents   *)
(* that reads it, and model.Client.Consume, which receives, records what   *)
(* it received and reopens the stream from the last sequence recorded.     *)
(*                                                                         *)
(* One operator watches one agent.  Connections fail and the agent         *)
(* restarts; a restart empties the bus, whose numbering begins again at 1, *)
(* so an event is identified by its sequence and the lifetime ("epoch") of *)
(* the agent that published it.                                            *)
(***************************************************************************)
EXTENDS Integers, Sequences, FiniteSets

CONSTANTS
    Sub, MaxEvents, Slack, MaxSequence,  \* as in EventBus
    NoSub,      \* the server side of the connection holds no subscription
    WireCap,    \* messages a connection holds between its two ends
    OutCap,     \* capacity of StreamEvents' channel of events (32)
    BufferEvents, BufferBytes,  \* BufferConfig, 5000 and 8 MiB unless set
    EntryBytes, \* size of the JSON form of each sequence number; 0 is a marker
    MaxFaults,  \* bound on failed dials and lost connections
    MaxMarkers, \* bound on history gaps recorded one after the other
    MaxEpochs   \* bound on lifetimes of the agent

ASSUME LiveAssumption ==
    /\ MaxEvents \in Nat \ {0}
    /\ Slack \in Nat
    /\ MaxSequence \in Nat
    /\ NoSub \notin Sub
    /\ WireCap \in Nat \ {0}
    /\ OutCap \in Nat \ {0}
    /\ BufferEvents \in Nat \ {0}
    /\ BufferBytes \in Nat \ {0}
    /\ EntryBytes \in [0..MaxSequence -> Nat]
    /\ MaxFaults \in Nat
    /\ MaxMarkers \in Nat /\ MaxMarkers > BufferEvents  \* more would change nothing
    /\ Cardinality(Sub) > MaxFaults  \* a subscription for each stream of an epoch
    /\ MaxEpochs \in Nat \ {0}

VARIABLES
    nextSequence, retained, subs, closed, sent, taken, capacity, cursor,
    subscribedAt, missed,  \* the bus
    epoch,         \* the current lifetime of the agent
    server,        \* subscription dispatch forwards to the connection, or NoSub
    up,            \* the connection is up
    wire,          \* messages on their way to the client
    reader,        \* StreamEvents' goroutine: "dialing", "reading" or "done"
    out,           \* its channel of events
    errs,          \* its channel of errors; both are closed when it is done
    consumer,      \* Consume: "receiving" or "waiting" to reconnect
    lastSequence,  \* the newest sequence recorded: Buffer.lastSequence
    log,           \* everything Consume recorded: events and history gaps
    dropped,       \* history: events of earlier epochs some channel had no room for
    faults         \* failures so far

busVars == <<nextSequence, retained, subs, closed, sent, taken, capacity,
             cursor, subscribedAt, missed>>
linkVars == <<server, up, wire>>
readerVars == <<reader, out, errs>>
clientVars == <<consumer, lastSequence, log>>
vars == <<busVars, linkVars, readerVars, clientVars, epoch, dropped, faults>>

Bus == INSTANCE EventBus

EventMessage(q) == [type |-> "event", epoch |-> epoch, sequence |-> q]
ResyncMessage == [type |-> "resync_required", epoch |-> 0, sequence |-> 0]

\* What Buffer.MarkHistoryGap appends.
HistoryGapMarker == [type |-> "event_history_gap", epoch |-> 0, sequence |-> 0]

Init ==
    /\ Bus!Init
    /\ epoch = 1
    /\ server = NoSub
    /\ up = FALSE
    /\ wire = <<>>
    /\ reader = "done"
    /\ out = <<>>
    /\ errs = <<>>
    /\ consumer = "waiting"
    /\ lastSequence = 0
    /\ log = <<>>
    /\ dropped = {}
    /\ faults = 0

-----------------------------------------------------------------------------
(* The agent *)

Publish ==
    /\ Bus!Publish
    /\ UNCHANGED <<linkVars, readerVars, clientVars, epoch, dropped, faults>>

\* SkippedOnlyIfDropped: the cursor a stream is reopened with is off by one.
ResumeCursor_Fault == lastSequence + 1

\* open(ctx, c.buffer.LastSequence()): the cursor sent with events_subscribe.
\* Nothing is recorded between opening a stream and its subscription, so it
\* is still the cursor when dispatch uses it.
ResumeCursor == lastSequence

\* The nextSubID of the bus.
NextSub == CHOOSE s \in Bus!Unused : TRUE

\* The client has connected and said hello; dispatch subscribes it.
Subscribe ==
    /\ reader = "dialing"
    /\ Bus!Unused # {}
    /\ Bus!Subscribe(NextSub, ResumeCursor)
    /\ server' = NextSub
    /\ up' = TRUE
    /\ reader' = "reading"
    /\ UNCHANGED <<wire, out, errs, clientVars, epoch, dropped, faults>>

\* The same, and dispatch answers resync_required.
Resync ==
    /\ reader = "dialing"
    /\ Bus!HistoryGap(ResumeCursor)
    /\ wire' = <<ResyncMessage>>
    /\ up' = TRUE
    /\ reader' = "reading"
    /\ UNCHANGED <<busVars, server, out, errs, clientVars, epoch, dropped, faults>>

\* "for e := range events { enc.Encode(...) }", blocked while the connection is
\* full.  The subscription of a connection that is gone is never ended (its
\* context is context.Background()): its events are read and Encode fails.
Forward(s) ==
    /\ Bus!Receive(s)
    /\ IF s = server /\ up
       THEN /\ Len(wire) < WireCap
            /\ wire' = Append(wire, EventMessage(sent[s][taken[s] + 1]))
       ELSE UNCHANGED wire
    /\ UNCHANGED <<server, up, readerVars, clientVars, epoch, dropped, faults>>

\* The connection ends; what has not left the sender's side is lost.
Hangup ==
    /\ up' = FALSE
    /\ \E k \in 0..Len(wire) : wire' = SubSeq(wire, 1, k)

\* The agent stops and starts again with an empty bus.
Restart ==
    /\ epoch < MaxEpochs
    /\ epoch' = epoch + 1
    /\ dropped' = dropped \cup {<<epoch, q>> : q \in UNION {missed[s] : s \in Sub}}
    /\ nextSequence' = 0
    /\ retained' = <<>>
    /\ subs' = {}
    /\ closed' = {}
    /\ sent' = [s \in Sub |-> <<>>]
    /\ taken' = [s \in Sub |-> 0]
    /\ capacity' = [s \in Sub |-> 0]
    /\ cursor' = [s \in Sub |-> 0]
    /\ subscribedAt' = [s \in Sub |-> 0]
    /\ missed' = [s \in Sub |-> {}]
    /\ server' = NoSub
    /\ Hangup
    /\ UNCHANGED <<readerVars, clientVars, faults>>

-----------------------------------------------------------------------------
(* The network *)

LoseConnection ==
    /\ up
    /\ faults < MaxFaults
    /\ faults' = faults + 1
    /\ Hangup
    /\ UNCHANGED <<busVars, server, readerVars, clientVars, epoch, dropped>>

-----------------------------------------------------------------------------
(* Client.StreamEvents *)

\* Dialing, the handshake or the hello fails.
DialFails ==
    /\ reader = "dialing"
    /\ faults < MaxFaults
    /\ faults' = faults + 1
    /\ errs' = <<"error">>
    /\ reader' = "done"
    /\ UNCHANGED <<busVars, linkVars, out, clientVars, epoch, dropped>>

ReadEvent ==
    /\ reader = "reading"
    /\ wire # <<>>
    /\ Head(wire).type = "event"
    /\ Len(out) < OutCap
    /\ out' = Append(out, Head(wire))
    /\ wire' = Tail(wire)
    /\ UNCHANGED <<busVars, server, up, reader, errs, clientVars, epoch, dropped, faults>>

\* The reader reports the gap and closes the connection.
ReadResync ==
    /\ reader = "reading"
    /\ wire # <<>>
    /\ Head(wire).type = "resync_required"
    /\ errs' = <<"resync">>
    /\ reader' = "done"
    /\ wire' = <<>>
    /\ up' = FALSE
    /\ UNCHANGED <<busVars, server, out, clientVars, epoch, dropped, faults>>

\* Decode fails: io.EOF, which is not reported, or another error, which is.
ReadEnd ==
    /\ reader = "reading"
    /\ ~up
    /\ wire = <<>>
    /\ errs' \in {<<>>, <<"error">>}
    /\ reader' = "done"
    /\ UNCHANGED <<busVars, linkVars, out, clientVars, epoch, dropped, faults>>

-----------------------------------------------------------------------------
(* The buffer, model/events.go.  It changes with each entry that is recorded *)
(* and with nothing else, so it is a function of the log.                    *)

OverflowMarker == [type |-> "client_buffer_overflow", epoch |-> 0, sequence |-> 0]

TotalBytes(entries) ==
    LET total[i \in 0..Len(entries)] ==
            IF i = 0 THEN 0 ELSE total[i - 1] + EntryBytes[entries[i].sequence]
    IN  total[Len(entries)]

\* BufferIsNewest: the marker is counted as one of the events.
Fits_Fault(entries, marked) ==
    Len(entries) <= BufferEvents /\ TotalBytes(entries) <= BufferBytes

\* The first "marked" entries, 0 or 1, are the marker of the overflow.
Fits(entries, marked) ==
    Len(entries) - marked <= BufferEvents /\ TotalBytes(entries) <= BufferBytes

\* trimToBoundsLocked: the oldest events go one by one until the rest fits or
\* only the marker is left.
TrimToBounds(entries, marked) ==
    LET after(k) == SubSeq(entries, 1, marked)
                        \o SubSeq(entries, marked + k + 1, Len(entries))
        all == Len(entries) - marked
        enough == {k \in 0..all : k = all \/ Fits(after(k), marked)}
    IN  after(CHOOSE k \in enough : \A j \in enough : k <= j)

\* trimLocked: the first time something is dropped the marker comes in front.
Trim(entries, overflowed) ==
    LET fitting == TrimToBounds(entries, 0)
    IN  IF overflowed
        THEN [events |-> TrimToBounds(entries, 1), overflowed |-> TRUE]
        ELSE IF fitting = entries
        THEN [events |-> entries, overflowed |-> FALSE]
        ELSE [events |-> TrimToBounds(<<OverflowMarker>> \o fitting, 1),
              overflowed |-> TRUE]

\* Buffer.Add and appendMarkerLocked, for each entry in turn.
Kept ==
    LET after[n \in 0..Len(log)] ==
            IF n = 0 THEN [events |-> <<>>, overflowed |-> FALSE]
            ELSE Trim(Append(after[n - 1].events, log[n]), after[n - 1].overflowed)
    IN  after[Len(log)]

-----------------------------------------------------------------------------
(* eventStream.Recv and Consume.  Recv's select chooses freely among the    *)
(* channels that are ready, a closed one included.                          *)

\* ShownInOrder, Feed: the cursor stays behind what is recorded.
Advanced_Fault(sequence) == lastSequence

\* "if event.Sequence > b.lastSequence { b.lastSequence = event.Sequence }"
Advanced(sequence) == IF sequence > lastSequence THEN sequence ELSE lastSequence

RecvEvent ==
    /\ consumer = "receiving"
    /\ out # <<>>
    /\ out' = Tail(out)
    /\ log' = Append(log, Head(out))
    /\ lastSequence' = Advanced(Head(out).sequence)
    /\ UNCHANGED <<busVars, linkVars, reader, errs, consumer, epoch, dropped, faults>>

\* CaughtUpOrTold: the gap is not recorded.
MarkHistoryGap_Fault(entries) == entries

\* The log ends in MaxMarkers markers.  These have taken the places of all events of
\* the buffer, and one more leaves it as it is.
FullOfMarkers(entries) ==
    /\ Len(entries) >= MaxMarkers
    /\ \A i \in (Len(entries) - MaxMarkers + 1)..Len(entries) : entries[i] = HistoryGapMarker

\* A marker for each ErrResyncRequired.  Nothing keeps the cursor from being refused
\* again, so a client out of step records one after the other.
MarkHistoryGap(entries) ==
    IF FullOfMarkers(entries) THEN entries ELSE Append(entries, HistoryGapMarker)

\* ErrResyncRequired: mark the gap and receive again from the same stream.
RecvResync ==
    /\ consumer = "receiving"
    /\ errs = <<"resync">>
    /\ errs' = <<>>
    /\ log' = MarkHistoryGap(log)
    /\ UNCHANGED <<busVars, linkVars, reader, out, consumer, lastSequence, epoch,
                   dropped, faults>>

RecvError ==
    /\ consumer = "receiving"
    /\ errs = <<"error">>
    /\ errs' = <<>>
    /\ consumer' = "waiting"
    /\ UNCHANGED <<busVars, linkVars, reader, out, lastSequence, log, epoch,
                   dropped, faults>>

\* io.EOF: one of the two channels is closed and empty.
RecvEOF ==
    /\ consumer = "receiving"
    /\ reader = "done"
    /\ out = <<>> \/ errs = <<>>
    /\ consumer' = "waiting"
    /\ UNCHANGED <<busVars, linkVars, readerVars, lastSequence, log, epoch,
                   dropped, faults>>

\* waitReconnect has elapsed: a new stream takes the place of the old one,
\* with whatever the old one still held.
Reopen ==
    /\ consumer = "waiting"
    /\ consumer' = "receiving"
    /\ reader' = "dialing"
    /\ out' = <<>>
    /\ errs' = <<>>
    /\ server' = NoSub
    /\ UNCHANGED <<busVars, up, wire, lastSequence, log, epoch, dropped, faults>>

-----------------------------------------------------------------------------

Next ==
    \/ Publish \/ Subscribe \/ Resync \/ Restart
    \/ \E s \in Sub : Forward(s)
    \/ LoseConnection \/ DialFails
    \/ ReadEvent \/ ReadResync \/ ReadEnd
    \/ RecvEvent \/ RecvResync \/ RecvError \/ RecvEOF \/ Reopen

\* Goroutines that can run do run, a message sent on a connection that stays
\* up arrives, and a dial that does not fail succeeds.  The
\* select of Recv picks among the ready channels at random, so it does not pass
\* over one of them for ever.  Nothing is assumed of publishing, of failures and
\* of restarts.
Fairness ==
    /\ WF_vars(Subscribe \/ Resync)
    /\ \A s \in Sub : WF_vars(Forward(s))
    /\ WF_vars(ReadEvent \/ ReadResync \/ ReadEnd)
    /\ WF_vars(RecvEvent \/ RecvResync \/ RecvError \/ RecvEOF)
    /\ SF_vars(RecvEvent)
    /\ SF_vars(RecvResync)
    /\ WF_vars(Reopen)

Spec == Init /\ [][Next]_vars
FairSpec == Spec /\ Fairness

-----------------------------------------------------------------------------
(* Correctness *)

SequenceNumber == 1..MaxSequence
Message == [type : {"event"}, epoch : 1..MaxEpochs, sequence : SequenceNumber]

\* Types of the stream; those of the bus are in EventBus.
TypeOK ==
    /\ Bus!TypeOK
    /\ epoch \in 1..MaxEpochs
    /\ server \in subs \cup {NoSub}
    /\ up \in BOOLEAN
    /\ wire \in Seq(Message \cup {ResyncMessage}) /\ Len(wire) <= WireCap
    /\ reader \in {"dialing", "reading", "done"}
    /\ out \in Seq(Message) /\ Len(out) <= OutCap
    /\ errs \in {<<>>, <<"resync">>, <<"error">>}
    /\ consumer \in {"receiving", "waiting"}
    /\ lastSequence \in 0..MaxSequence
    /\ log \in Seq(Message \cup {HistoryGapMarker})
    /\ dropped \subseteq (1..MaxEpochs) \X SequenceNumber
    /\ faults \in 0..MaxFaults

\* Across every reconnection and restart the operator sees sequence numbers
\* only grow: no event is recorded twice or out of order.
ShownInOrder ==
    \A i, j \in 1..Len(log) :
        i < j /\ log[i].type = "event" /\ log[j].type = "event" =>
            log[i].sequence < log[j].sequence

\* Events recorded next to each other, with no gap marker between them.
Adjacent(i) == log[i].type = "event" /\ log[i + 1].type = "event"

Dropped(e, q) ==
    <<e, q>> \in dropped \/ (e = epoch /\ \E s \in Sub : q \in missed[s])

\* A connection lost in whatever state of the stream hides nothing: the only
\* events skipped without a marker are those a full channel of the bus made a
\* subscriber miss, and those of an agent that restarted.
SkippedOnlyIfDropped ==
    \A i \in 1..(Len(log) - 1) :
        Adjacent(i) /\ log[i].epoch = log[i + 1].epoch =>
            \A q \in (log[i].sequence + 1)..(log[i + 1].sequence - 1) :
                Dropped(log[i].epoch, q)

\* An event published is eventually behind the cursor, unless the agent
\* restarted, the operator has been told of a gap or a full channel had no room
\* for it: no failure of a connection leaves the stream stuck.
CaughtUpOrTold ==
    \A e \in 1..MaxEpochs, q \in SequenceNumber :
        epoch = e /\ nextSequence = q ~>
            \/ epoch # e
            \/ lastSequence >= q
            \/ Dropped(e, q)
            \/ \E i \in 1..Len(log) : log[i] = HistoryGapMarker

\* The buffer holds the newest of what was recorded, as much of it as fits both
\* bounds, and in front of that the marker, once, if anything was dropped
\* (trimLocked, model/events.go:187-224).
BufferIsNewest ==
    LET buffer == Kept
        marked == IF buffer.overflowed THEN 1 ELSE 0
        content == SubSeq(buffer.events, marked + 1, Len(buffer.events))
        newest(n) == SubSeq(log, Len(log) - n + 1, Len(log))
    IN  /\ Len(content) <= Len(log)
        /\ content = newest(Len(content))
        /\ buffer.overflowed <=> content # log
        /\ buffer.overflowed =>
              /\ Head(buffer.events) = OverflowMarker
              /\ \/ Len(content) = BufferEvents
                 \/ TotalBytes(<<OverflowMarker>> \o newest(Len(content) + 1)) > BufferBytes
        /\ content # <<>> =>
              Len(content) <= BufferEvents /\ TotalBytes(buffer.events) <= BufferBytes

\* With room for everything and a single lifetime of the agent, the stream
\* implements EventFeed.  What is recorded is what is shown, so a marker in the
\* log, whose sequence is 0, would be no event of the feed.
Feed == INSTANCE EventFeed
            WITH published <- nextSequence,
                 shown <- [i \in 1..Len(log) |-> log[i].sequence]
FeedSpec == Feed!Spec

-----------------------------------------------------------------------------
(* What the comments of the code say *)

\* "A resync request is issued whenever the Pi reports a history gap; gaps are
\* never hidden" (controlplane/client.go:198-199): two events recorded next to
\* each other were published next to each other.
GapsNeverHidden ==
    \A i \in 1..(Len(log) - 1) :
        Adjacent(i) => /\ log[i + 1].epoch = log[i].epoch
                       /\ log[i + 1].sequence = log[i].sequence + 1

\* The same comment: after a reported gap the stream is brought back in step,
\* so that it is eventually subscribed again.
ResyncIssued ==
    errs = <<"resync">> ~> server # NoSub

=============================================================================
