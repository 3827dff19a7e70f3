--------------------------- MODULE LiveEventsProofs ---------------------------
(***************************************************************************)
(* Proofs about LiveEvents, for any capacities, any number of lost         *)
(* connections and any number of restarts of the agent: events are shown   *)
(* in order, none is skipped but those the agent had no room for, the      *)
(* buffer holds the newest of them, and, with room for everything, the     *)
(* stream implements EventFeed.  The invariant of the bus is that of       *)
(* EventBusProofs.                                                         *)
(***************************************************************************)
EXTENDS LiveEvents, SequenceTheorems, WellFoundedInduction, TLAPS

BusProofs == INSTANCE EventBusProofs

-------------------------------------------------------------------------------
(* The invariant *)

\* The current subscription still reaches the reader.
Live == up /\ server # NoSub

\* An event on its way to the log, and one that is still in the channel of the
\* current subscription.  The number of a resync message is 0.
InOut(q) == \E i \in 1..Len(out) : out[i].sequence = q
OnWire(q) == \E i \in 1..Len(wire) : wire[i].sequence = q
Pending(q) == \E k \in (taken[server] + 1)..Len(sent[server]) : sent[server][k] = q

\* How reader, connection and subscription go together.  A connection that is
\* not read is down and empty, and a resync message travels alone.
LinkInv ==
    /\ reader # "reading" => wire = <<>> /\ ~up
    /\ reader = "dialing" => out = <<>> /\ errs = <<>> /\ server = NoSub
    /\ errs # <<>> => reader = "done"
    /\ consumer = "waiting" => reader = "done"
    /\ \A i \in 1..Len(wire) :
           wire[i] = ResyncMessage => Len(wire) = 1 /\ out = <<>> /\ server = NoSub

\* The numbers grow along the log, the channel, the wire and the subscription.
OrderInv ==
    /\ ShownInOrder
    /\ \A i \in 1..Len(log) : log[i].type = "event" => log[i].sequence <= lastSequence
    /\ \A i \in 1..Len(out) : lastSequence < out[i].sequence
    /\ \A i, j \in 1..Len(out) : i < j => out[i].sequence < out[j].sequence
    /\ \A i \in 1..Len(wire) : wire[i] # ResyncMessage => lastSequence < wire[i].sequence
    /\ \A i, j \in 1..Len(wire) : i < j => wire[i].sequence < wire[j].sequence
    /\ \A i \in 1..Len(out), j \in 1..Len(wire) : out[i].sequence < wire[j].sequence

\* What is on its way comes before what the current subscription still holds.
AheadInv ==
    Live =>
        /\ lastSequence <= nextSequence
        /\ \A i \in 1..Len(out) : out[i].sequence <= nextSequence
        /\ \A i \in 1..Len(wire) : wire[i].sequence <= nextSequence
        /\ \A k \in (taken[server] + 1)..Len(sent[server]) :
               /\ lastSequence < sent[server][k]
               /\ \A i \in 1..Len(out) : out[i].sequence < sent[server][k]
               /\ \A i \in 1..Len(wire) : wire[i].sequence < sent[server][k]

\* Between the cursor and an event on its way there is nothing that is neither
\* dropped nor on its way too.
HoleInv ==
    /\ \A i \in 1..Len(out) : \A q \in (lastSequence + 1)..(out[i].sequence - 1) :
           Dropped(out[i].epoch, q) \/ InOut(q) \/ OnWire(q)
    /\ \A i \in 1..Len(wire) : \A q \in (lastSequence + 1)..(wire[i].sequence - 1) :
           Dropped(wire[i].epoch, q) \/ InOut(q) \/ OnWire(q)

\* Nor is there, as long as the subscription lives, up to the newest event.
LossInv ==
    Live => \A q \in (lastSequence + 1)..nextSequence :
                Dropped(epoch, q) \/ InOut(q) \/ OnWire(q) \/ Pending(q)

\* The cursor is the event recorded last.
CursorInv ==
    Len(log) > 0 /\ log[Len(log)].type = "event" => log[Len(log)].sequence = lastSequence

FlowInv ==
    OrderInv /\ AheadInv /\ HoleInv /\ LossInv /\ CursorInv /\ SkippedOnlyIfDropped

LInv == TypeOK /\ BusProofs!IInv /\ LinkInv /\ FlowInv


-------------------------------------------------------------------------------
(* Sequences *)

\* Append, as Publish, the sends and Consume use it.
LEMMA AppendEntry ==
  ASSUME NEW S, NEW s \in Seq(S), NEW e \in S
  PROVE  /\ Append(s, e) \in Seq(S)
         /\ Len(Append(s, e)) = Len(s) + 1
         /\ \A i \in 1..Len(s) : Append(s, e)[i] = s[i]
         /\ Append(s, e)[Len(s) + 1] = e
OBVIOUS

\* A message is taken from the front.
LEMMA TakeHead ==
  ASSUME NEW S, NEW s \in Seq(S), s # <<>>
  PROVE  /\ Len(s) \in Nat /\ Len(s) > 0
         /\ Head(s) = s[1] /\ Head(s) \in S
         /\ Tail(s) \in Seq(S) /\ Len(Tail(s)) = Len(s) - 1
         /\ \A i \in 1..Len(Tail(s)) : Tail(s)[i] = s[i + 1]
BY HeadTailProperties, Len(s) > 0

\* What Hangup leaves of a connection.
LEMMA Prefix ==
  ASSUME NEW S, NEW s \in Seq(S), NEW k \in 0..Len(s)
  PROVE  /\ SubSeq(s, 1, k) \in Seq(S) /\ Len(SubSeq(s, 1, k)) = k
         /\ \A i \in 1..k : SubSeq(s, 1, k)[i] = s[i]
OBVIOUS

-------------------------------------------------------------------------------
(* The bus *)

\* The constants of the stream are those of a bus.
LEMMA BusConstants == BusProofs!BusAssumption
BY LiveAssumption DEF BusProofs!BusAssumption

LEMMA SameCardinality == \A S : Bus!Cardinality(S) = BusProofs!Cardinality(S)
BY DEF Bus!Cardinality, BusProofs!Cardinality

\* The bus that the stream is built from is the one proved about.
LEMMA SameBus ==
  /\ Bus!Init <=> BusProofs!Init
  /\ Bus!Publish <=> BusProofs!Publish
  /\ \A s, after : Bus!Subscribe(s, after) <=> BusProofs!Subscribe(s, after)
  /\ \A s : Bus!Receive(s) <=> BusProofs!Receive(s)
  /\ Bus!TypeOK <=> BusProofs!TypeOK
<1>1. Bus!Init <=> BusProofs!Init
  BY DEF Bus!Init, BusProofs!Init
<1>2. Bus!Publish <=> BusProofs!Publish
  BY DEF Bus!Publish, BusProofs!Publish, Bus!EventNumber, BusProofs!EventNumber,
         Bus!Newest, BusProofs!Newest, Bus!HasRoom, BusProofs!HasRoom,
         Bus!Buffered, BusProofs!Buffered
<1>3. ASSUME NEW s, NEW after
      PROVE  Bus!Subscribe(s, after) <=> BusProofs!Subscribe(s, after)
  BY SameCardinality DEF Bus!Subscribe, BusProofs!Subscribe, Bus!Unused, BusProofs!Unused,
         Bus!HistoryGap, BusProofs!HistoryGap, Bus!Backlog, BusProofs!Backlog,
         Bus!ChannelCapacity, BusProofs!ChannelCapacity
<1>4. ASSUME NEW s PROVE Bus!Receive(s) <=> BusProofs!Receive(s)
  BY DEF Bus!Receive, BusProofs!Receive, Bus!Buffered, BusProofs!Buffered
<1>5. Bus!TypeOK <=> BusProofs!TypeOK
  BY DEF Bus!TypeOK, BusProofs!TypeOK, Bus!SequenceNumber, BusProofs!SequenceNumber
<1> QED BY <1>1, <1>2, <1>3, <1>4, <1>5

\* A restart leaves a bus in its initial state.
LEMMA FreshBus == BusProofs!Init' => BusProofs!IInv'
<1>1. BusProofs!Init => BusProofs!IInv
  BY BusConstants, BusProofs!InitIInv
<1> QED BY <1>1, PTL

LEMMA SameBusVars == busVars' = busVars => (BusProofs!IInv => BusProofs!IInv')
<1>1. [FALSE]_(BusProofs!vars) /\ BusProofs!IInv => BusProofs!IInv'
  BY DEF BusProofs!vars, BusProofs!chanVars, BusProofs!IInv, BusProofs!TypeOK, BusProofs!SequenceNumber,
     BusProofs!RetainedIsNewest, BusProofs!DeliveredInOrder, BusProofs!NothingElseLost, BusProofs!WasSent,
     BusProofs!FreshSubscriberMissesNothing, BusProofs!ChannelBounded, BusProofs!Buffered,
     BusProofs!CursorPublished, BusProofs!ChannelAccount, BusProofs!Unused
<1> QED BY <1>1 DEF busVars, BusProofs!vars, BusProofs!chanVars


\* What the stream uses of the invariant of the bus.
LEMMA BusFacts ==
  ASSUME BusProofs!IInv
  PROVE  /\ subs \subseteq Sub /\ nextSequence \in 0..MaxSequence
         /\ sent \in [Sub -> Seq(SequenceNumber)] /\ taken \in [Sub -> Nat]
         /\ missed \in [Sub -> SUBSET SequenceNumber]
         /\ \A s \in Sub : taken[s] <= Len(sent[s])
         /\ \A s \in Sub : \A i \in 1..Len(sent[s]) :
               /\ cursor[s] < sent[s][i] /\ sent[s][i] <= nextSequence
               /\ \A j \in 1..Len(sent[s]) : i < j => sent[s][i] < sent[s][j]
         /\ \A s \in subs : \A q \in (cursor[s] + 1)..nextSequence :
               (\E i \in 1..Len(sent[s]) : sent[s][i] = q) \/ q \in missed[s]
<1> USE DEF BusProofs!IInv, SequenceNumber
<1>1. /\ subs \subseteq Sub /\ nextSequence \in 0..MaxSequence
      /\ sent \in [Sub -> Seq(SequenceNumber)] /\ taken \in [Sub -> Nat]
      /\ capacity \in [Sub -> Nat] /\ missed \in [Sub -> SUBSET SequenceNumber]
  BY DEF BusProofs!TypeOK, BusProofs!SequenceNumber
<1>2. ASSUME NEW s \in Sub PROVE taken[s] <= Len(sent[s])
  <2>1. sent[s] \in Seq(SequenceNumber) /\ taken[s] \in Nat /\ capacity[s] \in Nat
    BY <1>1
  <2>2. Len(sent[s]) - taken[s] \in 0..capacity[s]
    BY DEF BusProofs!ChannelBounded, BusProofs!Buffered
  <2> QED BY <2>1, <2>2
<1>3. \A s \in Sub : \A i \in 1..Len(sent[s]) :
         /\ cursor[s] < sent[s][i] /\ sent[s][i] <= nextSequence
         /\ \A j \in 1..Len(sent[s]) : i < j => sent[s][i] < sent[s][j]
  BY DEF BusProofs!DeliveredInOrder
<1>4. \A s \in subs : \A q \in (cursor[s] + 1)..nextSequence :
         (\E i \in 1..Len(sent[s]) : sent[s][i] = q) \/ q \in missed[s]
  BY DEF BusProofs!NothingElseLost, BusProofs!WasSent
<1> QED BY <1>1, <1>2, <1>3, <1>4

-------------------------------------------------------------------------------
(* Typing *)

LEMMA Records ==
  /\ \A q \in SequenceNumber : epoch \in 1..MaxEpochs => EventMessage(q) \in Message
  /\ \A m \in Message : m.type = "event" /\ m.sequence \in SequenceNumber /\ m.epoch \in 1..MaxEpochs
  /\ ResyncMessage.type = "resync_required" /\ ResyncMessage.sequence = 0
  /\ HistoryGapMarker.type = "event_history_gap"
  /\ ResyncMessage \notin Message
BY DEF EventMessage, Message, ResyncMessage, HistoryGapMarker

LEMMA InitInv == Init => LInv
<1> SUFFICES ASSUME Init PROVE LInv
  OBVIOUS
<1>1. BusProofs!IInv
  BY BusConstants, SameBus, BusProofs!InitIInv DEF Init
<1>2. TypeOK
  <2>1. Bus!TypeOK
    BY <1>1, SameBus DEF BusProofs!IInv
  <2> QED BY <2>1, LiveAssumption DEF Init, TypeOK
<1>3. LinkInv /\ AheadInv /\ LossInv
  BY DEF Init, LinkInv, AheadInv, LossInv, Live
<1>4. OrderInv /\ HoleInv /\ CursorInv /\ SkippedOnlyIfDropped
  BY DEF Init, OrderInv, ShownInOrder, HoleInv, CursorInv, SkippedOnlyIfDropped, Adjacent
<1> QED BY <1>1, <1>2, <1>3, <1>4 DEF LInv, FlowInv

\* What an action of the bus or of the connection leaves of TypeOK.
LEMMA TypeStep ==
  ASSUME LInv, BusProofs!IInv', [Next]_vars PROVE TypeOK'
<1> USE DEF LInv, TypeOK
<1>0. Bus!TypeOK'
  BY DEF BusProofs!IInv, BusProofs!TypeOK, Bus!TypeOK, BusProofs!SequenceNumber,
         Bus!SequenceNumber
<1>a. /\ wire \in Seq(Message \cup {ResyncMessage}) /\ out \in Seq(Message)
      /\ log \in Seq(Message \cup {HistoryGapMarker})
      /\ Len(wire) \in Nat /\ Len(out) \in Nat
      /\ WireCap \in Nat \ {0} /\ OutCap \in Nat \ {0} /\ epoch \in 1..MaxEpochs
  BY LiveAssumption
<1>b. /\ sent \in [Sub -> Seq(SequenceNumber)] /\ taken \in [Sub -> Nat]
      /\ missed \in [Sub -> SUBSET SequenceNumber] /\ lastSequence \in 0..MaxSequence
  BY BusFacts
<1>1. CASE Publish
  BY <1>0, <1>1 DEF Publish, Bus!Publish, linkVars, readerVars, clientVars
<1>2. CASE Subscribe
  BY <1>0, <1>2 DEF Subscribe, Bus!Subscribe, clientVars
<1>3. CASE Resync
  <2>1. wire' \in Seq(Message \cup {ResyncMessage}) /\ Len(wire') = 1
    BY <1>3 DEF Resync
  <2> QED BY <1>0, <1>a, <1>3, <2>1 DEF Resync, busVars, clientVars
<1>4. CASE Restart
  <2>1. PICK k \in 0..Len(wire) : wire' = SubSeq(wire, 1, k)
    BY <1>4 DEF Restart, Hangup
  <2>2. wire' \in Seq(Message \cup {ResyncMessage}) /\ Len(wire') <= WireCap
    BY <1>a, <2>1, Prefix
  <2>3. {<<epoch, q>> : q \in UNION {missed[s] : s \in Sub}} \subseteq (1..MaxEpochs) \X SequenceNumber
    BY <1>a, <1>b
  <2>4. epoch' \in 1..MaxEpochs
    BY <1>a, <1>4, LiveAssumption DEF Restart
  <2> QED BY <1>0, <1>4, <2>2, <2>3, <2>4 DEF Restart, Hangup, readerVars, clientVars
<1>5. ASSUME NEW s \in Sub, Forward(s) PROVE TypeOK'
  <2>1. server' \in subs' \cup {NoSub}
    BY <1>5 DEF Forward, Bus!Receive
  <2>2. wire' \in Seq(Message \cup {ResyncMessage}) /\ Len(wire') <= WireCap
    <3>1. CASE s = server /\ up
      <4>1. Len(sent[s]) \in Nat /\ taken[s] \in Nat /\ Len(sent[s]) - taken[s] > 0
        BY <1>b, <1>5 DEF Forward, Bus!Receive, Bus!Buffered
      <4>2. sent[s][taken[s] + 1] \in SequenceNumber
        BY <1>b, <4>1
      <4>3. EventMessage(sent[s][taken[s] + 1]) \in Message \cup {ResyncMessage}
        BY <1>a, <4>2, Records
      <4>4. /\ wire' = Append(wire, EventMessage(sent[s][taken[s] + 1]))
            /\ Len(wire) < WireCap
        BY <1>5, <3>1 DEF Forward
      <4>5. Len(wire') = Len(wire) + 1 /\ wire' \in Seq(Message \cup {ResyncMessage})
        BY <1>a, <4>3, <4>4, AppendEntry
      <4> QED BY <1>a, <4>4, <4>5
    <3>2. CASE ~(s = server /\ up)
      BY <1>5, <3>2 DEF Forward
    <3> QED BY <3>1, <3>2
  <2> QED BY <1>0, <1>5, <2>1, <2>2 DEF Forward, readerVars, clientVars
<1>6. CASE LoseConnection
  <2>1. PICK k \in 0..Len(wire) : wire' = SubSeq(wire, 1, k)
    BY <1>6 DEF LoseConnection, Hangup
  <2>2. wire' \in Seq(Message \cup {ResyncMessage}) /\ Len(wire') <= WireCap
    BY <1>a, <2>1, Prefix
  <2>3. faults' \in 0..MaxFaults
    BY <1>6, LiveAssumption DEF LoseConnection
  <2> QED BY <1>0, <1>6, <2>2, <2>3 DEF LoseConnection, Hangup, busVars, readerVars, clientVars
<1>7. CASE DialFails
  <2>1. faults' \in 0..MaxFaults
    BY <1>7, LiveAssumption DEF DialFails
  <2> QED BY <1>0, <1>7, <2>1 DEF DialFails, busVars, linkVars, clientVars
<1>8. CASE ReadEvent
  <2>1. Head(wire) \in Message /\ Tail(wire) \in Seq(Message \cup {ResyncMessage})
        /\ Len(Tail(wire)) <= WireCap
    BY <1>8, <1>a, TakeHead, Records DEF ReadEvent
  <2>2. out' \in Seq(Message) /\ Len(out') <= OutCap
    BY <1>8, <1>a, <2>1, AppendEntry DEF ReadEvent
  <2> QED BY <1>0, <1>8, <2>1, <2>2 DEF ReadEvent, busVars, clientVars
<1>9. CASE ReadResync
  <2>1. wire' \in Seq(Message \cup {ResyncMessage}) /\ Len(wire') = 0
    BY <1>9 DEF ReadResync
  <2>2. Len(wire') <= WireCap
    BY <1>a, <2>1
  <2> QED BY <1>0, <1>9, <2>1, <2>2 DEF ReadResync, busVars, clientVars
<1>10. CASE ReadEnd
  BY <1>0, <1>10 DEF ReadEnd, busVars, linkVars, clientVars
<1>11. CASE RecvEvent
  <2>1. Head(out) \in Message /\ Tail(out) \in Seq(Message) /\ Len(Tail(out)) <= OutCap
    BY <1>11, <1>a, TakeHead DEF RecvEvent
  <2>2. log' \in Seq(Message \cup {HistoryGapMarker})
    BY <1>11, <1>a, <2>1, AppendEntry DEF RecvEvent
  <2>3. lastSequence' \in 0..MaxSequence
    BY <1>11, <1>b, <2>1, Records DEF RecvEvent, Advanced, SequenceNumber
  <2> QED BY <1>0, <1>11, <2>1, <2>2, <2>3 DEF RecvEvent, busVars, linkVars
<1>12. CASE RecvResync
  <2>1. log' \in Seq(Message \cup {HistoryGapMarker})
    BY <1>12, <1>a, AppendEntry DEF RecvResync, MarkHistoryGap
  <2> QED BY <1>0, <1>12, <2>1 DEF RecvResync, busVars, linkVars
<1>13. CASE RecvError
  BY <1>0, <1>13 DEF RecvError, busVars, linkVars
<1>14. CASE RecvEOF
  BY <1>0, <1>14 DEF RecvEOF, busVars, linkVars, readerVars
<1>15. CASE Reopen
  <2>1. out' \in Seq(Message) /\ Len(out') = 0
    BY <1>15 DEF Reopen
  <2> QED BY <1>0, <1>a, <1>15, <2>1 DEF Reopen, busVars
<1>16. CASE UNCHANGED vars
  BY <1>0, <1>16 DEF vars, busVars, linkVars, readerVars, clientVars
<1> QED
  BY <1>1, <1>2, <1>3, <1>4, <1>5, <1>6, <1>7, <1>8, <1>9, <1>10, <1>11, <1>12, <1>13,
     <1>14, <1>15, <1>16 DEF Next


-------------------------------------------------------------------------------
(* The reader, the connection and the subscription *)

LEMMA LinkStep == ASSUME LInv, [Next]_vars PROVE LinkInv'
<1> USE DEF LinkInv
<1>a. LinkInv
  BY DEF LInv
<1>b. /\ wire \in Seq(Message \cup {ResyncMessage}) /\ out \in Seq(Message)
      /\ Len(wire) \in Nat /\ Len(out) \in Nat
  BY DEF LInv, TypeOK
<1>c. server \in subs \cup {NoSub} /\ NoSub \notin Sub
  BY LiveAssumption DEF LInv, TypeOK
<1>1. CASE Publish
  BY <1>a, <1>1 DEF Publish, linkVars, readerVars, clientVars
<1>2. CASE Subscribe
  <2>1. wire = <<>> /\ out = <<>> /\ errs = <<>> /\ consumer # "waiting"
    BY <1>a, <1>2 DEF Subscribe
  <2> QED BY <1>2, <2>1 DEF Subscribe, clientVars
<1>3. CASE Resync
  <2>1. out = <<>> /\ errs = <<>> /\ server = NoSub /\ consumer # "waiting"
    BY <1>a, <1>3 DEF Resync
  <2>2. Len(wire') = 1
    BY <1>3 DEF Resync
  <2> QED BY <1>3, <2>1, <2>2 DEF Resync, clientVars
<1>4. CASE Restart \/ LoseConnection
  <2>1. PICK k \in 0..Len(wire) : wire' = SubSeq(wire, 1, k)
    BY <1>4 DEF Restart, LoseConnection, Hangup
  <2>2. Len(wire') = k /\ \A i \in 1..k : wire'[i] = wire[i]
    BY <1>b, <2>1, Prefix
  <2>3. wire = <<>> => wire' = <<>>
    BY <2>1, <1>b
  <2>4. ~up' /\ UNCHANGED <<reader, out, errs, consumer>> /\ server' \in {server, NoSub}
    BY <1>4 DEF Restart, LoseConnection, Hangup, readerVars, clientVars
  <2>5. \A i \in 1..Len(wire') : wire'[i] = ResyncMessage =>
           Len(wire') = 1 /\ out' = <<>> /\ server' = NoSub
    BY <1>a, <1>b, <2>2, <2>4
  <2> QED BY <1>a, <2>3, <2>4, <2>5
<1>5. ASSUME NEW s \in Sub, Forward(s) PROVE LinkInv'
  <2>1. CASE s = server /\ up
    <3>1. /\ wire' = Append(wire, EventMessage(sent[s][taken[s] + 1]))
          /\ UNCHANGED <<server, up, reader, out, errs, consumer>>
      BY <1>5, <2>1 DEF Forward, readerVars, clientVars
    <3>2. EventMessage(sent[s][taken[s] + 1]) # ResyncMessage
      BY DEF EventMessage, ResyncMessage
    <3>3. reader = "reading" /\ server # NoSub
      BY <1>a, <1>c, <2>1
    <3>4. \A i \in 1..Len(wire) : wire[i] # ResyncMessage
      BY <1>a, <3>3
    <3>5. \A i \in 1..Len(wire') : wire'[i] # ResyncMessage
      BY <1>b, <3>1, <3>2, <3>4
    <3> QED BY <1>a, <3>1, <3>3, <3>5
  <2>2. CASE ~(s = server /\ up)
    BY <1>a, <1>5, <2>2 DEF Forward, readerVars, clientVars
  <2> QED BY <2>1, <2>2
<1>6. CASE DialFails
  BY <1>a, <1>6 DEF DialFails, linkVars, clientVars
<1>7. CASE ReadEvent
  <2>1. wire # <<>> /\ Head(wire) # ResyncMessage /\ wire' = Tail(wire)
        /\ reader = "reading" /\ UNCHANGED <<reader, server, up, errs, consumer>>
    BY <1>7, Records DEF ReadEvent, clientVars
  <2>2. wire[1] # ResyncMessage /\ Len(wire) > 0 /\ Len(wire') = Len(wire) - 1
        /\ \A i \in 1..Len(wire') : wire'[i] = wire[i + 1]
    BY <1>b, <2>1, TakeHead
  <2>3. \A i \in 1..Len(wire) : wire[i] # ResyncMessage
    BY <1>a, <1>b, <2>2
  <2>4. \A i \in 1..Len(wire') : wire'[i] # ResyncMessage
    BY <1>b, <2>2, <2>3
  <2> QED BY <1>a, <2>1, <2>4
<1>8. CASE ReadResync
  BY <1>a, <1>8 DEF ReadResync, clientVars
<1>9. CASE ReadEnd
  BY <1>a, <1>9 DEF ReadEnd, linkVars, clientVars
<1>10. CASE RecvEvent
  <2>1. \A i \in 1..Len(wire) : wire[i] # ResyncMessage
    BY <1>a, <1>10 DEF RecvEvent
  <2>2. /\ UNCHANGED <<wire, server, up, reader, errs, consumer>>
        /\ reader # "dialing"
    BY <1>a, <1>10 DEF RecvEvent, linkVars
  <2> QED BY <1>a, <2>1, <2>2
<1>11. CASE RecvResync
  BY <1>a, <1>11 DEF RecvResync, linkVars
<1>12. CASE RecvError
  BY <1>a, <1>12 DEF RecvError, linkVars
<1>13. CASE RecvEOF
  BY <1>a, <1>13 DEF RecvEOF, linkVars, readerVars
<1>14. CASE Reopen
  BY <1>a, <1>14 DEF Reopen, busVars
<1>15. CASE UNCHANGED vars
  BY <1>a, <1>15 DEF vars, linkVars, readerVars, clientVars
<1> QED
  BY <1>1, <1>2, <1>3, <1>4, <1>5, <1>6, <1>7, <1>8, <1>9, <1>10, <1>11, <1>12, <1>13,
     <1>14, <1>15 DEF Next


-------------------------------------------------------------------------------
(* What is on its way *)

\* The types that the steps below need.
LEMMA FlowTypes ==
  ASSUME LInv
  PROVE  /\ wire \in Seq(Message \cup {ResyncMessage}) /\ Len(wire) \in Nat
         /\ out \in Seq(Message) /\ Len(out) \in Nat
         /\ log \in Seq(Message \cup {HistoryGapMarker}) /\ Len(log) \in Nat
         /\ \A i \in 1..Len(wire) : wire[i].sequence \in Nat
         /\ \A i \in 1..Len(out) : out[i].sequence \in SequenceNumber /\ out[i].type = "event"
         /\ \A i \in 1..Len(log) : log[i].sequence \in Nat
         /\ lastSequence \in 0..MaxSequence /\ nextSequence \in 0..MaxSequence
         /\ MaxSequence \in Nat
         /\ server # NoSub => server \in subs /\ server \in Sub
<1>1. /\ wire \in Seq(Message \cup {ResyncMessage}) /\ out \in Seq(Message)
      /\ log \in Seq(Message \cup {HistoryGapMarker})
      /\ lastSequence \in 0..MaxSequence /\ server \in subs \cup {NoSub}
  BY DEF LInv, TypeOK
<1>2. subs \subseteq Sub /\ nextSequence \in 0..MaxSequence
  BY BusFacts DEF LInv
<1>3. MaxSequence \in Nat
  BY LiveAssumption
<1>4. \A m \in Message \cup {ResyncMessage, HistoryGapMarker} : m.sequence \in Nat
  BY <1>3 DEF Message, ResyncMessage, HistoryGapMarker, SequenceNumber
<1>5. \A i \in 1..Len(wire) : wire[i].sequence \in Nat
  BY <1>1, <1>4
<1>6. \A i \in 1..Len(log) : log[i].sequence \in Nat
  BY <1>1, <1>4
<1>7. \A i \in 1..Len(out) : out[i].sequence \in SequenceNumber /\ out[i].type = "event"
  BY <1>1, Records
<1> QED BY <1>1, <1>2, <1>3, <1>5, <1>6, <1>7

\* What was dropped stays so.
LEMMA DroppedStays ==
  ASSUME epoch' = epoch, dropped' = dropped, \A s \in Sub : missed[s] \subseteq missed'[s],
         NEW e, NEW q, Dropped(e, q)
  PROVE  Dropped(e, q)'
BY DEF Dropped

LEMMA DroppedSurvives == ASSUME Restart, NEW e, NEW q, Dropped(e, q) PROVE Dropped(e, q)'
<1>1. \A s \in Sub : q \in missed[s] => <<epoch, q>> \in dropped'
  BY DEF Restart
<1>2. dropped \subseteq dropped'
  BY DEF Restart
<1> QED BY <1>1, <1>2 DEF Dropped

\* Steps that touch nothing an event passes through.
LEMMA QuietStep ==
  ASSUME LInv, UNCHANGED <<busVars, linkVars, out, lastSequence, log, epoch, dropped>>
  PROVE  FlowInv'
<1> USE DEF LInv, FlowInv, busVars, linkVars
<1>1. OrderInv' /\ AheadInv' /\ CursorInv'
  BY DEF OrderInv, ShownInOrder, AheadInv, Live, CursorInv
<1>2. HoleInv' /\ LossInv'
  BY DEF HoleInv, LossInv, Live, Dropped, InOut, OnWire, Pending
<1>3. SkippedOnlyIfDropped'
  BY DEF SkippedOnlyIfDropped, Adjacent, Dropped
<1> QED BY <1>1, <1>2, <1>3

\* Publish puts the event behind everything that is on its way.
LEMMA PublishStep == ASSUME LInv, BusProofs!IInv', Publish PROVE FlowInv'
<1>a. OrderInv /\ AheadInv /\ HoleInv /\ LossInv /\ CursorInv /\ SkippedOnlyIfDropped
  BY DEF LInv, FlowInv
<1>b. /\ sent \in [Sub -> Seq(SequenceNumber)] /\ taken \in [Sub -> Nat]
      /\ missed \in [Sub -> SUBSET SequenceNumber]
      /\ \A s \in Sub : taken[s] <= Len(sent[s])
  BY BusFacts DEF LInv
<1>c. /\ UNCHANGED <<linkVars, out, lastSequence, log, epoch, dropped, taken>>
      /\ nextSequence' = nextSequence + 1
  BY DEF Publish, Bus!Publish, Bus!EventNumber, readerVars, clientVars
<1>d. \A s \in Sub : /\ sent'[s] = sent[s] \/ sent'[s] = Append(sent[s], nextSequence + 1)
                     /\ missed[s] \subseteq missed'[s]
                     /\ s \in subs => \/ sent'[s] = Append(sent[s], nextSequence + 1)
                                      \/ nextSequence + 1 \in missed'[s]
  BY DEF Publish, Bus!Publish, Bus!EventNumber
<1>e. \A e, q : Dropped(e, q) => Dropped(e, q)'
  BY <1>c, <1>d, DroppedStays
<1>1. OrderInv' /\ CursorInv'
  BY <1>a, <1>c DEF OrderInv, ShownInOrder, CursorInv, linkVars
<1>2. SkippedOnlyIfDropped'
  BY <1>a, <1>c, <1>e DEF SkippedOnlyIfDropped, Adjacent
<1>3. HoleInv'
  BY <1>a, <1>c, <1>e DEF HoleInv, InOut, OnWire, linkVars
<1>4. ASSUME Live' PROVE AheadInv' /\ LossInv'
  <2>1. Live /\ server' = server /\ server \in Sub /\ server \in subs
    BY <1>4, <1>c, FlowTypes DEF Live, linkVars
  <2>2. sent[server] \in Seq(SequenceNumber) /\ taken[server] \in Nat
        /\ Len(sent[server]) \in Nat /\ taken[server] <= Len(sent[server])
    BY <1>b, <2>1
  <2>3. \/ sent'[server] = sent[server]
        \/ /\ Len(sent'[server]) = Len(sent[server]) + 1
           /\ \A k \in 1..Len(sent[server]) : sent'[server][k] = sent[server][k]
           /\ sent'[server][Len(sent[server]) + 1] = nextSequence + 1
    BY <1>d, <2>1, <2>2
  <2>4. AheadInv'
    <3>1. lastSequence <= nextSequence + 1
      BY <1>a, <2>1, FlowTypes DEF AheadInv
    <3>2. \A i \in 1..Len(out) : out[i].sequence <= nextSequence + 1
      BY <1>a, <2>1, FlowTypes DEF AheadInv, SequenceNumber
    <3>3. \A i \in 1..Len(wire) : wire[i].sequence <= nextSequence + 1
      BY <1>a, <2>1, FlowTypes DEF AheadInv
    <3>4. ASSUME NEW k \in (taken[server] + 1)..Len(sent'[server])
          PROVE  /\ lastSequence < sent'[server][k]
                 /\ \A i \in 1..Len(out) : out[i].sequence < sent'[server][k]
                 /\ \A i \in 1..Len(wire) : wire[i].sequence < sent'[server][k]
      <4>1. CASE k <= Len(sent[server])
        <5>1. sent'[server][k] = sent[server][k] /\ k \in (taken[server] + 1)..Len(sent[server])
          BY <2>2, <2>3, <4>1
        <5> QED BY <1>a, <2>1, <5>1 DEF AheadInv
      <4>2. CASE ~(k <= Len(sent[server]))
        <5>1. sent'[server][k] = nextSequence + 1
          BY <2>2, <2>3, <4>2
        <5> QED BY <1>a, <2>1, <5>1, FlowTypes DEF AheadInv, SequenceNumber
      <4> QED BY <4>1, <4>2
    <3> QED BY <1>c, <2>1, <3>1, <3>2, <3>3, <3>4 DEF AheadInv, linkVars
  <2>5. ASSUME NEW q \in (lastSequence + 1)..(nextSequence + 1)
        PROVE  Dropped(epoch, q)' \/ InOut(q) \/ OnWire(q) \/ Pending(q)'
    <3>1. CASE q = nextSequence + 1
      <4>1. CASE q \in missed'[server]
        BY <1>c, <2>1, <4>1 DEF Dropped
      <4>2. CASE sent'[server] = Append(sent[server], nextSequence + 1)
        <5>1. Len(sent'[server]) \in (taken[server] + 1)..Len(sent'[server])
              /\ sent'[server][Len(sent'[server])] = q
          BY <2>2, <3>1, <4>2
        <5> QED BY <1>c, <2>1, <5>1 DEF Pending
      <4> QED BY <1>d, <2>1, <3>1, <4>1, <4>2
    <3>2. CASE q # nextSequence + 1
      <4>1. q \in (lastSequence + 1)..nextSequence
        BY <3>2, FlowTypes
      <4>2. Dropped(epoch, q) \/ InOut(q) \/ OnWire(q) \/ Pending(q)
        BY <1>a, <2>1, <4>1 DEF LossInv
      <4>3. ASSUME Pending(q) PROVE Pending(q)'
        <5>1. PICK k \in (taken[server] + 1)..Len(sent[server]) : sent[server][k] = q
          BY <4>3 DEF Pending
        <5>2. k \in (taken[server] + 1)..Len(sent'[server]) /\ sent'[server][k] = q
          BY <2>2, <2>3, <5>1
        <5> QED BY <1>c, <2>1, <5>2 DEF Pending
      <4>4. Dropped(epoch, q) => Dropped(epoch, q)'
        BY <1>c, <1>d DEF Dropped
      <4> QED BY <4>2, <4>3, <4>4
    <3> QED BY <3>1, <3>2
  <2>6. LossInv'
    BY <1>c, <2>5 DEF LossInv, InOut, OnWire, linkVars
  <2> QED BY <2>4, <2>6
<1>5. AheadInv' /\ LossInv'
  BY <1>4 DEF AheadInv, LossInv
<1> QED BY <1>1, <1>2, <1>3, <1>5 DEF FlowInv


\* A new subscription begins after the cursor, which is the newest number
\* recorded: what it holds, with what its channel had no room for, is all there is.
LEMMA SubscribeStep == ASSUME LInv, BusProofs!IInv', Subscribe PROVE FlowInv'
<1>a. OrderInv /\ AheadInv /\ HoleInv /\ LossInv /\ CursorInv /\ SkippedOnlyIfDropped
  BY DEF LInv, FlowInv
<1>b. wire = <<>> /\ out = <<>>
  BY DEF LInv, LinkInv, Subscribe
<1>c. /\ UNCHANGED <<wire, out, lastSequence, log, epoch, dropped, nextSequence, missed, taken>>
      /\ server' = NextSub /\ NextSub \in Bus!Unused
      /\ subs' = subs \cup {NextSub}
      /\ lastSequence <= nextSequence
      /\ cursor' = [cursor EXCEPT ![NextSub] = lastSequence]
  BY FlowTypes DEF Subscribe, Bus!Subscribe, Bus!HistoryGap, ResumeCursor, NextSub, clientVars
<1>d. NextSub \in Sub /\ cursor'[NextSub] = lastSequence /\ taken[NextSub] = 0
  <2>1. NextSub \in Sub /\ NextSub \in BusProofs!Unused
    BY <1>c DEF Bus!Unused, BusProofs!Unused
  <2>2. taken[NextSub] = 0
    BY <2>1 DEF LInv, BusProofs!IInv, BusProofs!ChannelAccount
  <2>3. cursor \in [Sub -> 0..MaxSequence]
    BY DEF LInv, BusProofs!IInv, BusProofs!TypeOK
  <2> QED BY <1>c, <2>1, <2>2, <2>3
<1>e. /\ \A i \in 1..Len(sent'[NextSub]) : lastSequence < sent'[NextSub][i]
      /\ \A q \in (lastSequence + 1)..nextSequence :
            (\E i \in 1..Len(sent'[NextSub]) : sent'[NextSub][i] = q) \/ q \in missed[NextSub]
  <2>1. /\ \A s \in Sub : \A i \in 1..Len(sent'[s]) : cursor'[s] < sent'[s][i]
        /\ \A s \in subs' : \A q \in (cursor'[s] + 1)..nextSequence' :
              (\E i \in 1..Len(sent'[s]) : sent'[s][i] = q) \/ q \in missed'[s]
    BY DEF BusProofs!IInv, BusProofs!DeliveredInOrder, BusProofs!NothingElseLost,
           BusProofs!WasSent
  <2> QED BY <1>c, <1>d, <2>1
<1>1. OrderInv' /\ CursorInv'
  BY <1>a, <1>c DEF OrderInv, ShownInOrder, CursorInv
<1>2. SkippedOnlyIfDropped'
  BY <1>a, <1>c DEF SkippedOnlyIfDropped, Adjacent, Dropped
<1>3. HoleInv'
  BY <1>b, <1>c DEF HoleInv
<1>4. AheadInv'
  BY <1>b, <1>c, <1>d, <1>e DEF AheadInv
<1>5. LossInv'
  <2>1. ASSUME NEW q \in (lastSequence + 1)..nextSequence
        PROVE  Dropped(epoch, q)' \/ Pending(q)'
    <3>1. CASE q \in missed[NextSub]
      BY <1>c, <1>d, <3>1 DEF Dropped
    <3>2. CASE \E i \in 1..Len(sent'[NextSub]) : sent'[NextSub][i] = q
      BY <1>c, <1>d, <3>2 DEF Pending
    <3> QED BY <1>e, <3>1, <3>2
  <2> QED BY <1>c, <2>1 DEF LossInv
<1> QED BY <1>1, <1>2, <1>3, <1>4, <1>5 DEF FlowInv

\* The stream is refused.
LEMMA ResyncStep == ASSUME LInv, Resync PROVE FlowInv'
<1>a. OrderInv /\ HoleInv /\ CursorInv /\ SkippedOnlyIfDropped
  BY DEF LInv, FlowInv
<1>b. out = <<>> /\ server = NoSub
  BY DEF LInv, LinkInv, Resync
<1>c. /\ UNCHANGED <<busVars, server, out, lastSequence, log, epoch, dropped>>
      /\ wire' = <<ResyncMessage>>
  BY DEF Resync, clientVars
<1>d. Len(wire') = 1 /\ wire'[1] = ResyncMessage
  BY <1>c
<1>1. OrderInv' /\ CursorInv'
  BY <1>a, <1>b, <1>c, <1>d DEF OrderInv, ShownInOrder, CursorInv
<1>2. SkippedOnlyIfDropped'
  BY <1>a, <1>c DEF SkippedOnlyIfDropped, Adjacent, Dropped, busVars
<1>3. HoleInv'
  <2>1. \A i \in 1..Len(wire') : wire'[i].sequence = 0
    BY <1>d, Records
  <2> QED BY <1>b, <1>c, <2>1, FlowTypes DEF HoleInv
<1>4. AheadInv' /\ LossInv'
  BY <1>b, <1>c DEF AheadInv, LossInv, Live
<1> QED BY <1>1, <1>2, <1>3, <1>4 DEF FlowInv

\* An event moves from the subscription to the connection.
LEMMA ForwardStep == ASSUME LInv, NEW s \in Sub, Forward(s) PROVE FlowInv'
<1>a. OrderInv /\ AheadInv /\ HoleInv /\ LossInv /\ CursorInv /\ SkippedOnlyIfDropped
  BY DEF LInv, FlowInv
<1>b. /\ sent \in [Sub -> Seq(SequenceNumber)] /\ taken \in [Sub -> Nat]
      /\ \A t \in Sub : \A i, j \in 1..Len(sent[t]) : i < j => sent[t][i] < sent[t][j]
      /\ \A t \in Sub : \A i \in 1..Len(sent[t]) : sent[t][i] <= nextSequence
  BY BusFacts DEF LInv
<1>c. /\ UNCHANGED <<server, up, out, lastSequence, log, epoch, dropped, nextSequence, sent,
                     missed>>
      /\ taken' = [taken EXCEPT ![s] = @ + 1]
      /\ taken[s] + 1 \in 1..Len(sent[s])
  BY <1>b DEF Forward, Bus!Receive, Bus!Buffered, readerVars, clientVars
<1>1. ShownInOrder' /\ CursorInv'
  BY <1>a, <1>c DEF OrderInv, ShownInOrder, CursorInv
<1>2. SkippedOnlyIfDropped'
  BY <1>a, <1>c DEF SkippedOnlyIfDropped, Adjacent, Dropped
<1>3. CASE s = server /\ up
  <2> DEFINE n == sent[s][taken[s] + 1]
  <2>1. n \in SequenceNumber /\ n <= nextSequence /\ Live
    BY <1>b, <1>c, <1>3, FlowTypes, LiveAssumption DEF Live, LInv, TypeOK
  <2>2. lastSequence < n /\ (\A i \in 1..Len(out) : out[i].sequence < n)
        /\ (\A i \in 1..Len(wire) : wire[i].sequence < n)
    BY <1>a, <1>c, <1>3, <2>1 DEF AheadInv
  <2>3. /\ Len(wire') = Len(wire) + 1
        /\ \A i \in 1..Len(wire) : wire'[i] = wire[i]
        /\ wire'[Len(wire) + 1] = EventMessage(n)
    <3>1. EventMessage(n) \in Message \cup {ResyncMessage}
      BY <2>1, Records DEF LInv, TypeOK
    <3>2. wire' = Append(wire, EventMessage(n))
      BY <1>3 DEF Forward
    <3> QED BY <3>1, <3>2, FlowTypes, AppendEntry
  <2>4. EventMessage(n).sequence = n /\ EventMessage(n).epoch = epoch
    BY DEF EventMessage
  <2>5. OrderInv'
    <3>1. \A i \in 1..Len(wire') : wire'[i] # ResyncMessage => lastSequence < wire'[i].sequence
      BY <1>a, <2>2, <2>3, <2>4, FlowTypes DEF OrderInv
    <3>2. ASSUME NEW i \in 1..Len(wire'), NEW j \in 1..Len(wire'), i < j
          PROVE  wire'[i].sequence < wire'[j].sequence
      <4>1. i \in 1..Len(wire) /\ (j \in 1..Len(wire) \/ j = Len(wire) + 1)
        BY <2>3, <3>2, FlowTypes
      <4>2. CASE j \in 1..Len(wire)
        BY <1>a, <2>3, <3>2, <4>1, <4>2 DEF OrderInv
      <4>3. CASE j = Len(wire) + 1
        BY <2>2, <2>3, <2>4, <4>1, <4>3
      <4> QED BY <4>1, <4>2, <4>3
    <3>3. \A i \in 1..Len(out), j \in 1..Len(wire') : out[i].sequence < wire'[j].sequence
      BY <1>a, <2>2, <2>3, <2>4, FlowTypes DEF OrderInv
    <3> QED BY <1>a, <1>c, <1>1, <3>1, <3>2, <3>3 DEF OrderInv
  <2>6. AheadInv'
    <3>1. \A k \in (taken'[s] + 1)..Len(sent[s]) :
             n < sent[s][k] /\ k \in (taken[s] + 1)..Len(sent[s])
      BY <1>b, <1>c
    <3>2. \A i \in 1..Len(wire') : wire'[i].sequence <= nextSequence
      BY <1>a, <2>1, <2>3, <2>4, FlowTypes DEF AheadInv
    <3>3. ASSUME NEW k \in (taken'[s] + 1)..Len(sent[s]), NEW i \in 1..Len(wire')
          PROVE  wire'[i].sequence < sent[s][k]
      <4>1. CASE i \in 1..Len(wire)
        BY <1>a, <1>3, <2>1, <2>3, <3>1, <4>1 DEF AheadInv
      <4>2. CASE i = Len(wire) + 1
        BY <2>3, <2>4, <3>1, <4>2
      <4>3. i \in 1..Len(wire) \/ i = Len(wire) + 1
        BY <2>3, FlowTypes
      <4> QED BY <4>1, <4>2, <4>3
    <3> QED BY <1>a, <1>c, <1>3, <2>1, <3>1, <3>2, <3>3 DEF AheadInv, Live
  <2>7. \A q : OnWire(q) => OnWire(q)'
    BY <2>3, FlowTypes DEF OnWire
  <2>8. \A q : q = n => OnWire(q)'
    <3>1. Len(wire) + 1 \in 1..Len(wire') /\ wire'[Len(wire) + 1].sequence = n
      BY <2>3, <2>4, FlowTypes
    <3> QED BY <3>1 DEF OnWire
  <2>9. \A q : Pending(q) => Pending(q)' \/ q = n
    BY <1>b, <1>c, <1>3 DEF Pending
  <2>10. LossInv'
    <3>1. \A q \in (lastSequence + 1)..nextSequence :
             Dropped(epoch, q) \/ InOut(q) \/ OnWire(q)' \/ Pending(q)'
      BY <1>a, <2>1, <2>7, <2>8, <2>9 DEF LossInv
    <3> QED BY <1>c, <3>1 DEF LossInv, Dropped, InOut
  <2>11. ASSUME NEW q \in (lastSequence + 1)..(n - 1)
         PROVE  Dropped(epoch, q) \/ InOut(q) \/ OnWire(q)
    <3>1. q \in (lastSequence + 1)..nextSequence
      BY <2>1, FlowTypes DEF SequenceNumber
    <3>2. ~Pending(q)
      <4>1. \A k \in (taken[s] + 1)..Len(sent[s]) : sent[s][k] = n \/ n < sent[s][k]
        <5>2. ASSUME NEW k \in (taken[s] + 1)..Len(sent[s]), k # taken[s] + 1
              PROVE  n < sent[s][k]
          BY <1>b, <1>c, <5>2
        <5> QED BY <5>2
      <4>2. q # n /\ ~(n < q)
        BY <2>1, <2>11, FlowTypes DEF SequenceNumber
      <4> QED BY <1>3, <4>1, <4>2 DEF Pending
    <3> QED BY <1>a, <2>1, <3>1, <3>2 DEF LossInv
  <2>12. HoleInv'
    <3>1. ASSUME NEW i \in 1..Len(wire'), NEW q \in (lastSequence + 1)..(wire'[i].sequence - 1)
          PROVE  Dropped(wire'[i].epoch, q) \/ InOut(q) \/ OnWire(q)
      <4>1. CASE i \in 1..Len(wire)
        BY <1>a, <2>3, <3>1, <4>1 DEF HoleInv
      <4>2. CASE i = Len(wire) + 1
        BY <2>3, <2>4, <2>11, <3>1, <4>2
      <4> QED BY <2>3, <4>1, <4>2, FlowTypes
    <3>2. \A e, q : Dropped(e, q)' = Dropped(e, q)
      BY <1>c DEF Dropped
    <3> QED BY <1>a, <1>c, <2>7, <3>1, <3>2 DEF HoleInv, InOut
  <2> QED BY <1>1, <1>2, <2>5, <2>6, <2>10, <2>12 DEF FlowInv
<1>4. CASE ~(s = server /\ up)
  <2>1. wire' = wire
    BY <1>4 DEF Forward
  <2>2. Live => taken'[server] = taken[server]
    BY <1>b, <1>c, <1>4, FlowTypes DEF Live
  <2>3. OrderInv' /\ AheadInv'
    BY <1>a, <1>c, <2>1, <2>2 DEF OrderInv, ShownInOrder, AheadInv, Live
  <2>4. HoleInv' /\ LossInv'
    BY <1>a, <1>c, <2>1, <2>2 DEF HoleInv, LossInv, Live, Dropped, InOut, OnWire, Pending
  <2> QED BY <1>1, <1>2, <2>3, <2>4 DEF FlowInv
<1> QED BY <1>3, <1>4


\* A connection that is lost, or an agent that restarts, cuts off what is on its
\* way at some point.
LEMMA CutStep == ASSUME LInv, Restart \/ LoseConnection PROVE FlowInv'
<1>a. OrderInv /\ HoleInv /\ CursorInv /\ SkippedOnlyIfDropped
  BY DEF LInv, FlowInv
<1>b. UNCHANGED <<out, lastSequence, log>> /\ ~up'
  BY DEF Restart, LoseConnection, Hangup, readerVars, clientVars
<1>c. PICK k \in 0..Len(wire) : wire' = SubSeq(wire, 1, k)
  BY DEF Restart, LoseConnection, Hangup
<1>d. Len(wire') = k /\ \A i \in 1..k : wire'[i] = wire[i] /\ i \in 1..Len(wire)
  BY <1>c, FlowTypes, Prefix
<1>e. \A e, q : Dropped(e, q) => Dropped(e, q)'
  <2>1. CASE Restart
    BY <2>1, DroppedSurvives
  <2>2. CASE LoseConnection
    BY <2>2 DEF LoseConnection, busVars, Dropped
  <2> QED BY <2>1, <2>2
<1>1. OrderInv' /\ CursorInv'
  BY <1>a, <1>b, <1>d DEF OrderInv, ShownInOrder, CursorInv
<1>2. SkippedOnlyIfDropped'
  BY <1>a, <1>b, <1>e DEF SkippedOnlyIfDropped, Adjacent
<1>3. AheadInv' /\ LossInv'
  BY <1>b DEF AheadInv, LossInv, Live
<1>4. ASSUME NEW i \in 1..Len(out), NEW q \in (lastSequence + 1)..(out[i].sequence - 1)
      PROVE  Dropped(out[i].epoch, q) \/ InOut(q)
  <2>1. ~OnWire(q)
    <3>1. \A j \in 1..Len(wire) : q < wire[j].sequence
      BY <1>a, <1>4, FlowTypes DEF OrderInv, SequenceNumber
    <3> QED BY <1>4, <3>1, FlowTypes DEF OnWire, SequenceNumber
  <2> QED BY <1>a, <1>4, <2>1 DEF HoleInv
<1>5. ASSUME NEW i \in 1..Len(wire'), NEW q \in (lastSequence + 1)..(wire'[i].sequence - 1)
      PROVE  Dropped(wire'[i].epoch, q) \/ InOut(q) \/ OnWire(q)'
  <2>1. i \in 1..Len(wire) /\ wire'[i] = wire[i] /\ i <= k
    BY <1>d, <1>5
  <2>2. Dropped(wire[i].epoch, q) \/ InOut(q) \/ OnWire(q)
    BY <1>a, <1>5, <2>1 DEF HoleInv
  <2>3. ASSUME NEW j \in 1..Len(wire), wire[j].sequence = q
        PROVE  OnWire(q)'
    <3>1. j < i
      <4>1. wire[j].sequence < wire[i].sequence
        BY <1>5, <2>1, <2>3, FlowTypes
      <4>2. i < j => wire[i].sequence < wire[j].sequence
        BY <1>a, <2>1 DEF OrderInv
      <4>3. j # i /\ ~(i < j)
        BY <2>1, <4>1, <4>2, FlowTypes
      <4> QED BY <2>1, <4>3
    <3>2. j \in 1..Len(wire') /\ wire'[j] = wire[j]
      BY <1>d, <2>1, <3>1
    <3> QED BY <2>3, <3>2 DEF OnWire
  <2> QED BY <2>1, <2>2, <2>3 DEF OnWire
<1>6. HoleInv'
  BY <1>b, <1>e, <1>4, <1>5 DEF HoleInv, InOut
<1> QED BY <1>1, <1>2, <1>3, <1>6 DEF FlowInv

\* The reader moves an event from the connection to its channel.
LEMMA ReadEventStep == ASSUME LInv, ReadEvent PROVE FlowInv'
<1>a. OrderInv /\ AheadInv /\ HoleInv /\ LossInv /\ CursorInv /\ SkippedOnlyIfDropped
  BY DEF LInv, FlowInv
<1>b. /\ UNCHANGED <<busVars, server, up, lastSequence, log, epoch, dropped>>
      /\ wire # <<>> /\ Head(wire).type = "event"
      /\ out' = Append(out, Head(wire)) /\ wire' = Tail(wire)
  BY DEF ReadEvent, clientVars
<1>c. /\ Len(wire) \in Nat /\ Len(wire) > 0 /\ Len(wire') = Len(wire) - 1
      /\ \A i \in 1..Len(wire') : wire'[i] = wire[i + 1]
      /\ Head(wire) = wire[1] /\ wire[1] \in Message /\ wire[1] # ResyncMessage
  BY <1>b, FlowTypes, TakeHead, Records
<1>d. /\ Len(out) \in Nat /\ Len(out') = Len(out) + 1
      /\ \A i \in 1..Len(out) : out'[i] = out[i]
      /\ out'[Len(out) + 1] = wire[1]
  BY <1>b, <1>c, FlowTypes, AppendEntry
<1>e. \A q : (InOut(q) \/ OnWire(q)) => (InOut(q)' \/ OnWire(q)')
  <2>1. \A q : InOut(q) => InOut(q)'
    BY <1>d DEF InOut
  <2>2. ASSUME NEW q, NEW i \in 1..Len(wire), wire[i].sequence = q PROVE InOut(q)' \/ OnWire(q)'
    <3>1. CASE i = 1
      BY <1>d, <2>2, <3>1 DEF InOut
    <3>2. CASE i # 1
      <4>1. i - 1 \in 1..Len(wire') /\ wire'[i - 1] = wire[i]
        BY <1>c, <3>2
      <4> QED BY <2>2, <4>1 DEF OnWire
    <3> QED BY <3>1, <3>2
  <2> QED BY <2>1, <2>2 DEF OnWire
<1>f. \A e, q : Dropped(e, q)' = Dropped(e, q)
  BY <1>b DEF Dropped, busVars
\* Whatever channel an event is in, it was on its way before.
<1>g. \A i \in 1..Len(out') : (i \in 1..Len(out) /\ out'[i] = out[i])
                              \/ (i = Len(out) + 1 /\ out'[i] = wire[1])
  BY <1>d
<1>h. \A i \in 1..Len(wire') : i + 1 \in 1..Len(wire) /\ wire'[i] = wire[i + 1]
                               /\ 1 < i + 1 /\ 1 \in 1..Len(wire)
  BY <1>c
<1>1. ShownInOrder' /\ CursorInv'
  BY <1>a, <1>b DEF OrderInv, ShownInOrder, CursorInv
<1>2. SkippedOnlyIfDropped'
  BY <1>a, <1>b, <1>f DEF SkippedOnlyIfDropped, Adjacent
<1>3. OrderInv'
  <2>1. 1 \in 1..Len(wire)
    BY <1>c
  <2>2. \A i \in 1..Len(out') : lastSequence < out'[i].sequence
    BY <1>a, <1>c, <1>g, <2>1 DEF OrderInv
  <2>3. ASSUME NEW i \in 1..Len(out'), NEW j \in 1..Len(out'), i < j
        PROVE  out'[i].sequence < out'[j].sequence
    <3>1. i \in 1..Len(out) /\ out'[i] = out[i]
      BY <1>d, <1>g, <2>3
    <3> QED BY <1>a, <1>g, <2>1, <2>3, <3>1 DEF OrderInv
  <2>4. \A i \in 1..Len(wire') : wire'[i] # ResyncMessage => lastSequence < wire'[i].sequence
    BY <1>a, <1>h DEF OrderInv
  <2>5. \A i, j \in 1..Len(wire') : i < j => wire'[i].sequence < wire'[j].sequence
    BY <1>a, <1>c, <1>h DEF OrderInv
  <2>6. \A i \in 1..Len(out'), j \in 1..Len(wire') : out'[i].sequence < wire'[j].sequence
    BY <1>a, <1>g, <1>h, <2>1 DEF OrderInv
  <2> QED BY <1>a, <1>b, <1>1, <2>2, <2>3, <2>4, <2>5, <2>6 DEF OrderInv
<1>4. AheadInv'
  <2>1. 1 \in 1..Len(wire)
    BY <1>c
  <2>2. ASSUME Live
        PROVE  /\ \A i \in 1..Len(out') : out'[i].sequence <= nextSequence
               /\ \A i \in 1..Len(wire') : wire'[i].sequence <= nextSequence
               /\ \A k \in (taken[server] + 1)..Len(sent[server]) :
                     /\ \A i \in 1..Len(out') : out'[i].sequence < sent[server][k]
                     /\ \A i \in 1..Len(wire') : wire'[i].sequence < sent[server][k]
    BY <1>a, <1>g, <1>h, <2>1, <2>2 DEF AheadInv
  <2> QED BY <1>a, <1>b, <2>2 DEF AheadInv, Live, busVars
<1>5. HoleInv'
  <2>1. ASSUME NEW i \in 1..Len(out'), NEW q \in (lastSequence + 1)..(out'[i].sequence - 1)
        PROVE  Dropped(out'[i].epoch, q) \/ InOut(q) \/ OnWire(q)
    <3>1. 1 \in 1..Len(wire)
      BY <1>c
    <3> QED BY <1>a, <1>g, <2>1, <3>1 DEF HoleInv
  <2>2. ASSUME NEW i \in 1..Len(wire'), NEW q \in (lastSequence + 1)..(wire'[i].sequence - 1)
        PROVE  Dropped(wire'[i].epoch, q) \/ InOut(q) \/ OnWire(q)
    BY <1>a, <1>h, <2>2 DEF HoleInv
  <2> QED BY <1>b, <1>e, <1>f, <2>1, <2>2 DEF HoleInv
<1>6. LossInv'
  <2>1. Live => \A q \in (lastSequence + 1)..nextSequence :
                   Dropped(epoch, q) \/ InOut(q)' \/ OnWire(q)' \/ Pending(q)
    BY <1>a, <1>e DEF LossInv
  <2> QED BY <1>b, <2>1 DEF LossInv, Live, Dropped, Pending, busVars
<1> QED BY <1>2, <1>1, <1>3, <1>4, <1>5, <1>6 DEF FlowInv

\* The reader takes the resync message, the only one on the connection.
LEMMA ReadResyncStep == ASSUME LInv, ReadResync PROVE FlowInv'
<1>a. OrderInv /\ HoleInv /\ CursorInv /\ SkippedOnlyIfDropped
  BY DEF LInv, FlowInv
<1>b. /\ UNCHANGED <<busVars, server, out, lastSequence, log, epoch, dropped>>
      /\ wire # <<>> /\ Head(wire).type = "resync_required" /\ wire' = <<>> /\ ~up'
  BY DEF ReadResync, clientVars
<1>c. Len(wire') = 0 /\ out' = <<>> /\ Len(out') = 0
  <2>1. Head(wire) = wire[1] /\ wire[1] \notin Message /\ 1 \in 1..Len(wire)
    BY <1>b, FlowTypes, TakeHead, Records
  <2>2. wire[1] = ResyncMessage
    BY <2>1, FlowTypes
  <2> QED BY <1>b, <2>1, <2>2 DEF LInv, LinkInv
<1>1. OrderInv' /\ CursorInv' /\ HoleInv'
  BY <1>a, <1>b, <1>c DEF OrderInv, ShownInOrder, CursorInv, HoleInv
<1>2. SkippedOnlyIfDropped'
  BY <1>a, <1>b DEF SkippedOnlyIfDropped, Adjacent, Dropped, busVars
<1>3. AheadInv' /\ LossInv'
  BY <1>b DEF AheadInv, LossInv, Live
<1> QED BY <1>1, <1>2, <1>3 DEF FlowInv

\* Consume records the event at the head of the channel: the cursor moves to it.
LEMMA RecvEventStep == ASSUME LInv, RecvEvent PROVE FlowInv'
<1>a. OrderInv /\ AheadInv /\ HoleInv /\ LossInv /\ CursorInv /\ SkippedOnlyIfDropped
  BY DEF LInv, FlowInv
<1>b. /\ UNCHANGED <<busVars, linkVars, epoch, dropped>>
      /\ out # <<>> /\ out' = Tail(out) /\ log' = Append(log, Head(out))
  BY DEF RecvEvent
<1>c. /\ Len(out) > 0 /\ Len(out') = Len(out) - 1 /\ 1 \in 1..Len(out)
      /\ \A i \in 1..Len(out') : out'[i] = out[i + 1]
      /\ Head(out) = out[1] /\ out[1] \in Message
  BY <1>b, FlowTypes, TakeHead
<1>d. /\ Len(log') = Len(log) + 1
      /\ \A i \in 1..Len(log) : log'[i] = log[i]
      /\ log'[Len(log) + 1] = out[1]
  BY <1>b, <1>c, FlowTypes, AppendEntry
<1>e. lastSequence < out[1].sequence /\ lastSequence' = out[1].sequence
      /\ out[1].sequence \in Nat /\ out[1].type = "event"
  <2>1. lastSequence < out[1].sequence
    BY <1>a, <1>c DEF OrderInv
  <2> QED BY <1>c, <2>1, FlowTypes DEF RecvEvent, Advanced, SequenceNumber
<1>f. \A i \in 1..Len(out') : i + 1 \in 1..Len(out) /\ out'[i] = out[i + 1] /\ 1 < i + 1
  BY <1>c, FlowTypes
<1>g. \A e, q : Dropped(e, q)' = Dropped(e, q)
  BY <1>b DEF Dropped, busVars
<1>h. \A q : OnWire(q)' = OnWire(q)
  BY <1>b DEF OnWire, linkVars
<1>i. ASSUME NEW q \in Int, out[1].sequence < q, InOut(q) PROVE InOut(q)'
  <2>1. PICK i \in 1..Len(out) : out[i].sequence = q
    BY <1>i DEF InOut
  <2>2. i # 1
    BY <1>e, <1>i, <2>1
  <2>3. i - 1 \in 1..Len(out') /\ out'[i - 1] = out[i]
    BY <1>c, <2>2, FlowTypes
  <2> QED BY <2>1, <2>3 DEF InOut
<1>j. \A i \in 1..Len(log') : i \in 1..Len(log) \/ i = Len(log) + 1
  BY <1>d, FlowTypes
<1>1. OrderInv'
  <2>1. ASSUME NEW i \in 1..Len(log), log[i].type = "event"
        PROVE  log[i].sequence <= lastSequence /\ log[i].sequence < lastSequence'
    <3>1. log[i].sequence <= lastSequence
      BY <1>a, <2>1 DEF OrderInv
    <3> QED BY <1>e, <3>1, FlowTypes
  <2>2. ASSUME NEW i \in 1..Len(log'), NEW j \in 1..Len(log'), i < j,
               log'[i].type = "event", log'[j].type = "event"
        PROVE  log'[i].sequence < log'[j].sequence
    <3>1. i \in 1..Len(log)
      BY <1>d, <1>j, <2>2, FlowTypes
    <3>2. CASE j \in 1..Len(log)
      BY <1>a, <1>d, <2>2, <3>1, <3>2 DEF OrderInv, ShownInOrder
    <3>3. CASE j = Len(log) + 1
      BY <1>d, <1>e, <2>1, <2>2, <3>1, <3>3
    <3> QED BY <1>j, <3>2, <3>3
  <2>3. ASSUME NEW i \in 1..Len(log'), log'[i].type = "event"
        PROVE  log'[i].sequence <= lastSequence'
    <3>1. CASE i \in 1..Len(log)
      BY <1>d, <1>e, <2>1, <2>3, <3>1, FlowTypes
    <3>2. CASE i = Len(log) + 1
      BY <1>d, <1>e, <3>2
    <3> QED BY <1>j, <3>1, <3>2
  <2>4. \A i \in 1..Len(out') : lastSequence' < out'[i].sequence
    BY <1>a, <1>c, <1>e, <1>f DEF OrderInv
  <2>5. \A i, j \in 1..Len(out') : i < j => out'[i].sequence < out'[j].sequence
    <3>1. \A i, j \in 1..Len(out') : i < j => i + 1 < j + 1
      OBVIOUS
    <3> QED BY <1>a, <1>f, <3>1 DEF OrderInv
  <2>6. \A i \in 1..Len(wire) : lastSequence' < wire[i].sequence
    BY <1>a, <1>c, <1>e DEF OrderInv
  <2>7. \A i \in 1..Len(out'), j \in 1..Len(wire) : out'[i].sequence < wire[j].sequence
    BY <1>a, <1>f DEF OrderInv
  <2>8. \A i, j \in 1..Len(wire) : i < j => wire[i].sequence < wire[j].sequence
    BY <1>a DEF OrderInv
  <2>9. wire' = wire
    BY <1>b DEF linkVars
  <2> QED BY <2>2, <2>3, <2>4, <2>5, <2>6, <2>7, <2>8, <2>9 DEF OrderInv, ShownInOrder
<1>2. AheadInv'
  <2>1. ASSUME Live
        PROVE  /\ lastSequence' <= nextSequence
               /\ \A i \in 1..Len(out') : out'[i].sequence <= nextSequence
               /\ \A i \in 1..Len(wire) : wire[i].sequence <= nextSequence
               /\ \A k \in (taken[server] + 1)..Len(sent[server]) :
                     /\ lastSequence' < sent[server][k]
                     /\ \A i \in 1..Len(out') : out'[i].sequence < sent[server][k]
                     /\ \A i \in 1..Len(wire) : wire[i].sequence < sent[server][k]
    BY <1>a, <1>c, <1>e, <1>f, <2>1 DEF AheadInv
  <2> QED BY <1>b, <2>1 DEF AheadInv, Live, busVars, linkVars
<1>3. HoleInv'
  <2>1. ASSUME NEW i \in 1..Len(out'), NEW q \in (lastSequence' + 1)..(out'[i].sequence - 1)
        PROVE  Dropped(out'[i].epoch, q) \/ InOut(q)' \/ OnWire(q)
    <3>1. out[i + 1].sequence \in Nat /\ lastSequence \in Nat /\ out'[i] = out[i + 1]
          /\ i + 1 \in 1..Len(out)
      BY <1>f, FlowTypes DEF SequenceNumber
    <3>2. q \in (lastSequence + 1)..(out[i + 1].sequence - 1) /\ q \in Int
          /\ out[1].sequence < q
      BY <1>e, <2>1, <3>1
    <3>3. Dropped(out[i + 1].epoch, q) \/ InOut(q) \/ OnWire(q)
      BY <1>a, <3>1, <3>2 DEF HoleInv
    <3> QED BY <1>i, <3>1, <3>2, <3>3
  <2>2. ASSUME NEW i \in 1..Len(wire), NEW q \in (lastSequence' + 1)..(wire[i].sequence - 1)
        PROVE  Dropped(wire[i].epoch, q) \/ InOut(q)' \/ OnWire(q)
    <3>1. q \in (lastSequence + 1)..(wire[i].sequence - 1) /\ q \in Int
          /\ out[1].sequence < q
      BY <1>e, <2>2, FlowTypes
    <3>2. Dropped(wire[i].epoch, q) \/ InOut(q) \/ OnWire(q)
      BY <1>a, <3>1 DEF HoleInv
    <3> QED BY <1>i, <3>1, <3>2
  <2>3. wire' = wire
    BY <1>b DEF linkVars
  <2> QED BY <1>g, <1>h, <2>1, <2>2, <2>3 DEF HoleInv
<1>4. LossInv'
  <2>1. ASSUME Live, NEW q \in (lastSequence' + 1)..nextSequence
        PROVE  Dropped(epoch, q) \/ InOut(q)' \/ OnWire(q) \/ Pending(q)
    <3>1. q \in (lastSequence + 1)..nextSequence /\ q \in Int /\ out[1].sequence < q
      BY <1>e, <2>1, FlowTypes
    <3> QED BY <1>a, <1>i, <2>1, <3>1 DEF LossInv
  <2>2. UNCHANGED <<nextSequence, up, server, epoch, taken, sent>>
    BY <1>b DEF busVars, linkVars
  <2> QED BY <1>g, <1>h, <2>1, <2>2 DEF LossInv, Live, Pending
<1>5. CursorInv'
  BY <1>d, <1>e DEF CursorInv
<1>6. SkippedOnlyIfDropped'
  <2>1. ASSUME NEW i \in 1..(Len(log') - 1), log'[i].type = "event",
               log'[i + 1].type = "event", log'[i].epoch = log'[i + 1].epoch,
               NEW q \in (log'[i].sequence + 1)..(log'[i + 1].sequence - 1)
        PROVE  Dropped(log'[i].epoch, q)
    <3>1. CASE i \in 1..(Len(log) - 1)
      <4>1. log'[i] = log[i] /\ log'[i + 1] = log[i + 1]
        BY <1>d, <3>1, FlowTypes
      <4> QED BY <1>a, <2>1, <3>1, <4>1 DEF SkippedOnlyIfDropped, Adjacent
    <3>2. CASE i = Len(log)
      <4>1. /\ log'[i] = log[Len(log)] /\ log'[i + 1] = out[1]
            /\ log[Len(log)].type = "event" /\ Len(log) > 0
        BY <1>d, <2>1, <3>2, FlowTypes
      <4>2. log'[i].sequence = lastSequence
        BY <1>a, <4>1 DEF CursorInv
      <4>3. q \in (lastSequence + 1)..(out[1].sequence - 1)
        BY <2>1, <4>1, <4>2
      <4>4. Dropped(out[1].epoch, q) \/ InOut(q) \/ OnWire(q)
        BY <1>a, <1>c, <4>3 DEF HoleInv
      <4>5. ~OnWire(q)
        <5>1. \A j \in 1..Len(wire) : out[1].sequence < wire[j].sequence
          BY <1>a, <1>c DEF OrderInv
        <5> QED BY <1>e, <4>3, <5>1, FlowTypes DEF OnWire
      <4>6. ~InOut(q)
        <5>1. \A j \in 1..Len(out) : j = 1 \/ out[1].sequence < out[j].sequence
          BY <1>a, <1>c DEF OrderInv
        <5>2. q < out[1].sequence /\ q \in Int
          BY <1>e, <4>3, FlowTypes
        <5>3. \A j \in 1..Len(out) : out[j].sequence \in Int /\ q # out[j].sequence
          BY <1>e, <5>1, <5>2, FlowTypes DEF SequenceNumber
        <5> QED BY <5>3 DEF InOut
      <4> QED BY <2>1, <4>1, <4>4, <4>5, <4>6
    <3> QED BY <1>d, <2>1, <3>1, <3>2, FlowTypes
  <2> QED BY <1>g, <2>1 DEF SkippedOnlyIfDropped, Adjacent
<1> QED BY <1>1, <1>2, <1>3, <1>4, <1>5, <1>6 DEF FlowInv

\* Consume records a gap: the marker is not an event.
LEMMA RecvResyncStep == ASSUME LInv, RecvResync PROVE FlowInv'
<1>a. OrderInv /\ AheadInv /\ HoleInv /\ LossInv /\ CursorInv /\ SkippedOnlyIfDropped
  BY DEF LInv, FlowInv
<1>b. /\ UNCHANGED <<busVars, linkVars, out, lastSequence, epoch, dropped>>
      /\ log' = log \/ log' = Append(log, HistoryGapMarker)
  BY DEF RecvResync, MarkHistoryGap
<1>1. CASE log' = log
  BY <1>b, <1>1, QuietStep
<1>2. CASE log' = Append(log, HistoryGapMarker)
  <2>1. /\ Len(log') = Len(log) + 1
        /\ \A i \in 1..Len(log) : log'[i] = log[i]
        /\ log'[Len(log) + 1].type # "event"
    BY <1>2, FlowTypes, AppendEntry DEF HistoryGapMarker
  <2>2. \A i \in 1..Len(log') : i \in 1..Len(log) \/ i = Len(log) + 1
    BY <2>1, FlowTypes
  <2>3. OrderInv'
    <3>1. ShownInOrder'
      BY <1>a, <2>1, <2>2 DEF OrderInv, ShownInOrder
    <3>2. \A i \in 1..Len(log') : log'[i].type = "event" => log'[i].sequence <= lastSequence
      BY <1>a, <2>1, <2>2 DEF OrderInv
    <3> QED BY <1>a, <1>b, <3>1, <3>2 DEF OrderInv, linkVars
  <2>4. AheadInv'
    BY <1>a, <1>b DEF AheadInv, Live, busVars, linkVars
  <2>5. HoleInv' /\ LossInv'
    BY <1>a, <1>b DEF HoleInv, LossInv, Live, Dropped, InOut, OnWire, Pending, busVars, linkVars
  <2>6. CursorInv'
    BY <2>1 DEF CursorInv
  <2>7. SkippedOnlyIfDropped'
    <3>1. ASSUME NEW i \in 1..(Len(log') - 1), Adjacent(i)'
          PROVE  i \in 1..(Len(log) - 1) /\ log'[i] = log[i] /\ log'[i + 1] = log[i + 1]
      <4>1. i + 1 # Len(log) + 1
        BY <2>1, <3>1 DEF Adjacent
      <4> QED BY <2>1, <3>1, <4>1, FlowTypes
    <3>2. ASSUME NEW i \in 1..(Len(log') - 1), Adjacent(i)',
                 log'[i].epoch = log'[i + 1].epoch,
                 NEW q \in (log'[i].sequence + 1)..(log'[i + 1].sequence - 1)
          PROVE  Dropped(log'[i].epoch, q)
      <4>1. Adjacent(i) /\ i \in 1..(Len(log) - 1) /\ log'[i] = log[i] /\ log'[i + 1] = log[i + 1]
        BY <3>1, <3>2 DEF Adjacent
      <4> QED BY <1>a, <3>2, <4>1 DEF SkippedOnlyIfDropped
    <3>3. \A e, q : Dropped(e, q)' = Dropped(e, q)
      BY <1>b DEF Dropped, busVars
    <3> QED BY <3>2, <3>3 DEF SkippedOnlyIfDropped
  <2> QED BY <2>3, <2>4, <2>5, <2>6, <2>7 DEF FlowInv
<1> QED BY <1>b, <1>1, <1>2

\* A stream is opened in place of the old one: what that still held is below
\* nothing, and comes again from the cursor.
LEMMA ReopenStep == ASSUME LInv, Reopen PROVE FlowInv'
<1>a. OrderInv /\ HoleInv /\ CursorInv /\ SkippedOnlyIfDropped
  BY DEF LInv, FlowInv
<1>b. /\ UNCHANGED <<busVars, wire, lastSequence, log, epoch, dropped>>
      /\ out' = <<>> /\ server' = NoSub /\ wire = <<>>
  BY DEF Reopen, LInv, LinkInv
<1>c. Len(out') = 0 /\ Len(wire') = 0
  BY <1>b
<1>1. OrderInv' /\ CursorInv' /\ HoleInv'
  BY <1>a, <1>b, <1>c DEF OrderInv, ShownInOrder, CursorInv, HoleInv
<1>2. SkippedOnlyIfDropped'
  BY <1>a, <1>b DEF SkippedOnlyIfDropped, Adjacent, Dropped, busVars
<1>3. AheadInv' /\ LossInv'
  BY <1>b DEF AheadInv, LossInv, Live
<1> QED BY <1>1, <1>2, <1>3 DEF FlowInv

-------------------------------------------------------------------------------
(* The theorems *)

LEMMA BusStep == ASSUME LInv, [Next]_vars PROVE BusProofs!IInv'
<1>a. BusProofs!IInv
  BY DEF LInv
<1>1. CASE Publish
  <2>1. BusProofs!Publish
    BY <1>1, SameBus DEF Publish
  <2> QED BY <1>a, <2>1, BusConstants, BusProofs!PublishIInv
<1>2. CASE Subscribe
  <2>1. NextSub \in Sub /\ BusProofs!Subscribe(NextSub, lastSequence)
    BY <1>2, SameBus DEF Subscribe, ResumeCursor, Bus!Subscribe, Bus!Unused
  <2>2. lastSequence \in 0..MaxSequence
    BY FlowTypes
  <2> QED BY <1>a, <2>1, <2>2, BusConstants, BusProofs!SubscribeIInv
<1>3. CASE Restart
  <2>1. BusProofs!Init'
    BY <1>3 DEF Restart, BusProofs!Init
  <2> QED BY <2>1, FreshBus
<1>4. ASSUME NEW s \in Sub, Forward(s) PROVE BusProofs!IInv'
  <2>1. BusProofs!Receive(s)
    BY <1>4, SameBus DEF Forward
  <2> QED BY <1>a, <2>1, BusConstants, BusProofs!ReceiveIInv
<1>5. CASE busVars' = busVars
  BY <1>a, <1>5, SameBusVars
<1>6. \/ Publish \/ Subscribe \/ Restart \/ (\E s \in Sub : Forward(s)) \/ busVars' = busVars
  BY DEF Next, vars, Resync, LoseConnection, DialFails, ReadEvent, ReadResync, ReadEnd,
         RecvEvent, RecvResync, RecvError, RecvEOF, Reopen
<1> QED BY <1>1, <1>2, <1>3, <1>4, <1>5, <1>6

\* Every step of the agent, the network and the client keeps the invariant.
LEMMA FlowStep == ASSUME LInv, BusProofs!IInv', [Next]_vars PROVE FlowInv'
<1>1. CASE Publish BY <1>1, PublishStep
<1>2. CASE Subscribe BY <1>2, SubscribeStep
<1>3. CASE Resync BY <1>3, ResyncStep
<1>4. CASE Restart \/ LoseConnection BY <1>4, CutStep
<1>5. ASSUME NEW s \in Sub, Forward(s) PROVE FlowInv' BY <1>5, ForwardStep
<1>6. CASE ReadEvent BY <1>6, ReadEventStep
<1>7. CASE ReadResync BY <1>7, ReadResyncStep
<1>8. CASE RecvEvent BY <1>8, RecvEventStep
<1>9. CASE RecvResync BY <1>9, RecvResyncStep
<1>10. CASE Reopen BY <1>10, ReopenStep
<1>11. CASE DialFails \/ ReadEnd \/ RecvError \/ RecvEOF \/ UNCHANGED vars
  <2>1. UNCHANGED <<busVars, linkVars, out, lastSequence, log, epoch, dropped>>
    BY <1>11 DEF DialFails, ReadEnd, RecvError, RecvEOF, vars, clientVars, readerVars
  <2> QED BY <2>1, QuietStep
<1> QED BY <1>1, <1>2, <1>3, <1>4, <1>5, <1>6, <1>7, <1>8, <1>9, <1>10, <1>11 DEF Next

\* Every reachable state of the stream satisfies the invariant of the stream and
\* that of the bus, whatever is lost on the way.
THEOREM LiveInvariance == Spec => []LInv
<1>1. LInv /\ [Next]_vars => LInv'
  <2> SUFFICES ASSUME LInv, [Next]_vars PROVE LInv'
    OBVIOUS
  <2>1. BusProofs!IInv'
    BY BusStep
  <2>2. TypeOK'
    BY <2>1, TypeStep
  <2>3. LinkInv'
    BY LinkStep
  <2>4. FlowInv'
    BY <2>1, FlowStep
  <2> QED BY <2>1, <2>2, <2>3, <2>4 DEF LInv
<1> QED BY <1>1, InitInv, PTL DEF Spec

\* The channels and connections of a stream never outgrow their capacity, and the
\* reader is handed nothing but events and resync messages (StreamEvents).
THEOREM LiveTypeCorrect == Spec => []TypeOK
<1>1. LInv => TypeOK
  BY DEF LInv
<1> QED BY <1>1, LiveInvariance, PTL

\* The operator sees sequence numbers only grow, across any number of lost
\* connections and restarts of the agent: Consume resumes from the newest event
\* it recorded, and a smaller history is refused.
THEOREM ShownCorrect == Spec => []ShownInOrder
<1>1. LInv => ShownInOrder
  BY DEF LInv, FlowInv, OrderInv
<1> QED BY <1>1, LiveInvariance, PTL

\* Nothing is skipped without a marker but what a full channel of the bus had no
\* room for: no connection lost in whatever state of the stream hides an event.
THEOREM SkippedCorrect == Spec => []SkippedOnlyIfDropped
<1>1. LInv => SkippedOnlyIfDropped
  BY DEF LInv, FlowInv
<1> QED BY <1>1, LiveInvariance, PTL

-------------------------------------------------------------------------------
(* The abstract feed *)

\* With room for everything and one lifetime of the agent nothing is dropped and
\* no gap is ever reported, so the log is the events from 1 to the cursor.
FeedInv ==
    /\ dropped = {}
    /\ \A i \in 1..Len(wire) : wire[i] # ResyncMessage /\ wire[i].sequence <= nextSequence
    /\ \A i \in 1..Len(out) : out[i].sequence <= nextSequence
    /\ errs # <<"resync">>
    /\ \A i \in 1..Len(log) : log[i].type = "event" /\ log[i].sequence = i
    /\ lastSequence = Len(log) /\ lastSequence <= nextSequence

Roomy == MaxEvents >= MaxSequence /\ Slack >= MaxSequence /\ MaxEpochs = 1

\* No channel is ever full, and no event of the past is dropped.
LEMMA NothingDropped ==
  ASSUME Roomy, LInv, FeedInv, NEW e, NEW q PROVE ~Dropped(e, q)
<1>1. ASSUME NEW s \in Sub, q \in missed[s] PROVE FALSE
  <2>1. /\ missed \in [Sub -> SUBSET SequenceNumber]
        /\ subscribedAt \in [Sub -> 0..MaxSequence]
        /\ \A p \in missed[s] : p > subscribedAt[s] + Slack
    BY DEF LInv, BusProofs!IInv, BusProofs!TypeOK, BusProofs!SequenceNumber,
           BusProofs!FreshSubscriberMissesNothing, SequenceNumber
  <2>2. q \in 1..MaxSequence /\ subscribedAt[s] \in 0..MaxSequence
    BY <1>1, <2>1 DEF SequenceNumber
  <2>3. MaxSequence \in Nat /\ Slack \in Nat /\ Slack >= MaxSequence
    BY LiveAssumption DEF Roomy
  <2> QED BY <1>1, <2>1, <2>2, <2>3
<1> QED BY <1>1 DEF Dropped, FeedInv

\* Every event is still retained, so that no cursor is refused.
LEMMA NothingRefused == ASSUME Roomy, LInv, FeedInv PROVE ~Bus!HistoryGap(ResumeCursor)
<1>1. /\ retained \in Seq(SequenceNumber) /\ Len(retained) \in Nat
      /\ Len(retained) = IF nextSequence < MaxEvents THEN nextSequence ELSE MaxEvents
      /\ \A i \in 1..Len(retained) : retained[i] = nextSequence - Len(retained) + i
  BY DEF LInv, BusProofs!IInv, BusProofs!TypeOK, BusProofs!SequenceNumber,
         BusProofs!RetainedIsNewest, SequenceNumber
<1>2. Len(retained) = nextSequence /\ lastSequence \in Nat /\ nextSequence \in Nat
  BY <1>1, FlowTypes, LiveAssumption DEF Roomy
<1>3. Len(retained) > 0 => retained[1] = 1
  BY <1>1, <1>2
<1> QED BY <1>2, <1>3 DEF Bus!HistoryGap, ResumeCursor, FeedInv

\* The event Consume records is the one after the newest recorded.
LEMMA NextIsShown ==
  ASSUME Roomy, LInv, FeedInv, RecvEvent
  PROVE  /\ log' = Append(log, Head(out)) /\ out # <<>>
         /\ Head(out) = out[1] /\ Head(out) \in Message
         /\ Head(out).sequence = Len(log) + 1 /\ Len(log) + 1 <= nextSequence
         /\ lastSequence' = Len(log) + 1
<1>1. /\ out # <<>> /\ Len(out) > 0 /\ 1 \in 1..Len(out)
      /\ Head(out) = out[1] /\ out[1] \in Message /\ log' = Append(log, Head(out))
  BY FlowTypes, TakeHead DEF RecvEvent
<1>2. lastSequence < out[1].sequence
  BY <1>1 DEF LInv, FlowInv, OrderInv
<1>3. out[1].sequence \in Nat /\ lastSequence = Len(log) /\ lastSequence \in Nat
  BY <1>1, FlowTypes DEF FeedInv, SequenceNumber
<1>4. out[1].sequence = lastSequence + 1
  <2>1. CASE lastSequence + 1 < out[1].sequence
    <3>1. lastSequence + 1 \in (lastSequence + 1)..(out[1].sequence - 1)
      BY <1>3, <2>1
    <3>2. InOut(lastSequence + 1) \/ OnWire(lastSequence + 1)
      BY <1>1, <3>1, NothingDropped DEF LInv, FlowInv, HoleInv
    <3>3. \A i \in 1..Len(out) : i = 1 \/ out[1].sequence < out[i].sequence
      BY <1>1 DEF LInv, FlowInv, OrderInv
    <3>4. \A i \in 1..Len(out) : out[i].sequence # lastSequence + 1
      BY <1>3, <2>1, <3>3, FlowTypes DEF SequenceNumber
    <3>5. \A i \in 1..Len(wire) : out[1].sequence < wire[i].sequence
      BY <1>1 DEF LInv, FlowInv, OrderInv
    <3>6. \A i \in 1..Len(wire) : wire[i].sequence # lastSequence + 1
      BY <1>3, <2>1, <3>5, FlowTypes
    <3> QED BY <3>2, <3>4, <3>6 DEF InOut, OnWire
  <2> QED BY <1>2, <1>3, <2>1
<1>5. out[1].sequence <= nextSequence
  BY <1>1 DEF FeedInv
<1>6. lastSequence' = Len(log) + 1
  BY <1>1, <1>3, <1>4 DEF RecvEvent, Advanced
<1> QED BY <1>1, <1>3, <1>4, <1>5, <1>6

LEMMA FeedStep == ASSUME Roomy, LInv, FeedInv, [Next]_vars PROVE FeedInv'
<1> USE DEF FeedInv
<1>a. epoch = 1 /\ ~(epoch < MaxEpochs)
  BY LiveAssumption DEF LInv, TypeOK, Roomy
<1>1. CASE Publish
  <2>1. nextSequence' = nextSequence + 1
        /\ UNCHANGED <<dropped, wire, out, errs, log, lastSequence>>
    BY <1>1 DEF Publish, Bus!Publish, Bus!EventNumber, linkVars, readerVars, clientVars
  <2>2. \A i \in 1..Len(wire) : wire[i].sequence <= nextSequence + 1
    BY FlowTypes
  <2>3. \A i \in 1..Len(out) : out[i].sequence <= nextSequence + 1
    BY FlowTypes DEF SequenceNumber
  <2>4. lastSequence <= nextSequence + 1
    BY FlowTypes
  <2> QED BY <2>1, <2>2, <2>3, <2>4
<1>2. CASE Subscribe
  BY <1>2 DEF Subscribe, Bus!Subscribe, clientVars
<1>3. CASE Resync
  BY <1>3, NothingRefused DEF Resync
<1>4. CASE Restart
  BY <1>a, <1>4 DEF Restart
<1>5. ASSUME NEW s \in Sub, Forward(s) PROVE FeedInv'
  <2>1. UNCHANGED <<nextSequence, dropped, out, errs, log, lastSequence>>
    BY <1>5 DEF Forward, Bus!Receive, readerVars, clientVars
  <2>2. CASE s = server /\ up
    <3>1. /\ sent \in [Sub -> Seq(SequenceNumber)] /\ taken \in [Sub -> Nat]
          /\ taken[s] + 1 \in 1..Len(sent[s])
          /\ \A i \in 1..Len(sent[s]) : sent[s][i] <= nextSequence
      BY <1>5, BusFacts DEF LInv, Forward, Bus!Receive, Bus!Buffered
    <3>2. sent[s][taken[s] + 1] \in SequenceNumber /\ sent[s][taken[s] + 1] <= nextSequence
      BY <3>1
    <3>3. EventMessage(sent[s][taken[s] + 1]) \in Message
      BY <3>2, Records DEF LInv, TypeOK
    <3>4. wire' = Append(wire, EventMessage(sent[s][taken[s] + 1]))
      BY <1>5, <2>2 DEF Forward
    <3>5. /\ Len(wire') = Len(wire) + 1
          /\ \A i \in 1..Len(wire) : wire'[i] = wire[i]
          /\ wire'[Len(wire) + 1] = EventMessage(sent[s][taken[s] + 1])
      BY <3>3, <3>4, FlowTypes, AppendEntry
    <3>6. EventMessage(sent[s][taken[s] + 1]) # ResyncMessage
          /\ EventMessage(sent[s][taken[s] + 1]).sequence = sent[s][taken[s] + 1]
      BY <3>3, Records DEF EventMessage
    <3>7. \A i \in 1..Len(wire') : i \in 1..Len(wire) \/ i = Len(wire) + 1
      BY <3>5, FlowTypes
    <3> QED BY <2>1, <3>2, <3>5, <3>6, <3>7
  <2>3. CASE ~(s = server /\ up)
    BY <1>5, <2>1, <2>3 DEF Forward
  <2> QED BY <2>2, <2>3
<1>6. CASE LoseConnection
  <2>1. PICK k \in 0..Len(wire) : wire' = SubSeq(wire, 1, k)
    BY <1>6 DEF LoseConnection, Hangup
  <2>2. Len(wire') = k /\ \A i \in 1..k : wire'[i] = wire[i] /\ i \in 1..Len(wire)
    BY <2>1, FlowTypes, Prefix
  <2> QED BY <1>6, <2>2 DEF LoseConnection, busVars, readerVars, clientVars
<1>7. CASE DialFails
  BY <1>7 DEF DialFails, busVars, linkVars, clientVars
<1>8. CASE ReadEvent
  <2>1. wire # <<>> /\ out' = Append(out, Head(wire)) /\ wire' = Tail(wire)
        /\ Head(wire).type = "event"
        /\ UNCHANGED <<nextSequence, dropped, errs, log, lastSequence>>
    BY <1>8 DEF ReadEvent, busVars, clientVars
  <2>2. /\ Len(wire) > 0 /\ Len(wire') = Len(wire) - 1 /\ Head(wire) = wire[1]
        /\ \A i \in 1..Len(wire') : wire'[i] = wire[i + 1]
        /\ wire[1] \in Message
    BY <2>1, FlowTypes, TakeHead, Records
  <2>3. /\ Len(out') = Len(out) + 1
        /\ \A i \in 1..Len(out) : out'[i] = out[i]
        /\ out'[Len(out) + 1] = wire[1]
    BY <2>1, <2>2, FlowTypes, AppendEntry
  <2>4. \A i \in 1..Len(wire') : i + 1 \in 1..Len(wire)
    BY <2>2, FlowTypes
  <2>5. \A i \in 1..Len(out') : i \in 1..Len(out) \/ i = Len(out) + 1
    BY <2>3, FlowTypes
  <2>6. 1 \in 1..Len(wire)
    BY <2>2, FlowTypes
  <2> QED BY <2>1, <2>2, <2>3, <2>4, <2>5, <2>6
<1>9. CASE ReadResync
  <2>1. wire # <<>> /\ Head(wire).type = "resync_required"
    BY <1>9 DEF ReadResync
  <2>2. Head(wire) = wire[1] /\ 1 \in 1..Len(wire) /\ wire[1] \notin Message
    BY <2>1, FlowTypes, TakeHead, Records
  <2> QED BY <2>2, FlowTypes
<1>10. CASE ReadEnd
  <2>1. <<>> # <<"resync">> /\ <<"error">> # <<"resync">>
    BY Len(<<>>) = 0, Len(<<"resync">>) = 1, <<"error">>[1] = "error", <<"resync">>[1] = "resync"
  <2>2. errs' # <<"resync">>
    BY <1>10, <2>1 DEF ReadEnd
  <2> QED BY <1>10, <2>2 DEF ReadEnd, busVars, linkVars, clientVars
<1>11. CASE RecvEvent
  <2>1. /\ Len(out) > 0 /\ Len(out') = Len(out) - 1
        /\ \A i \in 1..Len(out') : out'[i] = out[i + 1] /\ i + 1 \in 1..Len(out)
    BY <1>11, FlowTypes, TakeHead DEF RecvEvent
  <2>2. /\ Len(log') = Len(log) + 1
        /\ \A i \in 1..Len(log) : log'[i] = log[i]
        /\ log'[Len(log) + 1] = out[1]
        /\ out[1].type = "event" /\ out[1].sequence = Len(log) + 1
    <3>1. /\ log' = Append(log, out[1]) /\ out[1] \in Message
          /\ out[1].sequence = Len(log) + 1
      BY <1>11, NextIsShown
    <3>2. out[1].type = "event"
      BY <3>1, Records
    <3> QED BY <3>1, <3>2, FlowTypes, AppendEntry
  <2>3. \A i \in 1..Len(log') : i \in 1..Len(log) \/ i = Len(log) + 1
    BY <2>2, FlowTypes
  <2>4. lastSequence' = Len(log') /\ lastSequence' <= nextSequence
    BY <1>11, <2>2, NextIsShown
  <2>5. UNCHANGED <<nextSequence, dropped, errs, wire>>
    BY <1>11 DEF RecvEvent, busVars, linkVars
  <2> QED BY <2>1, <2>2, <2>3, <2>4, <2>5
<1>12. CASE RecvResync
  BY <1>12 DEF RecvResync
<1>13. CASE RecvError
  BY <1>13 DEF RecvError, busVars, linkVars
<1>14. CASE RecvEOF
  BY <1>14 DEF RecvEOF, busVars, linkVars, readerVars
<1>15. CASE Reopen
  BY <1>15 DEF Reopen, busVars
<1>16. CASE UNCHANGED vars
  BY <1>16 DEF vars, busVars, linkVars, readerVars, clientVars
<1> QED
  BY <1>1, <1>2, <1>3, <1>4, <1>5, <1>6, <1>7, <1>8, <1>9, <1>10, <1>11, <1>12, <1>13,
     <1>14, <1>15, <1>16 DEF Next

\* The safety of the feed: with room for every event and one lifetime of the
\* agent, every event is shown once, in the order of publication, whatever
\* happens to the connection (each step publishes, shows the next event, or
\* changes neither).
THEOREM FeedImplemented ==
  ASSUME Roomy PROVE Spec => Feed!Init /\ [][Feed!Next]_(Feed!feed)
<1>1. Init => Feed!Init /\ FeedInv
  BY DEF Init, Bus!Init, Feed!Init, FeedInv
<1>2. FeedInv /\ LInv /\ [Next]_vars => FeedInv'
  BY FeedStep
<1>3. ASSUME LInv, FeedInv, [Next]_vars PROVE [Feed!Next]_(Feed!feed)
  <2>1. CASE Publish
    <3>1. nextSequence' = nextSequence + 1 /\ log' = log
      BY <2>1 DEF Publish, Bus!Publish, Bus!EventNumber, clientVars
    <3> QED BY <3>1 DEF Feed!Next, Feed!Publish
  <2>2. CASE RecvEvent
    <3>1. /\ Len(log') = Len(log) + 1
          /\ \A i \in 1..Len(log) : log'[i] = log[i]
          /\ log'[Len(log) + 1].sequence = Len(log) + 1
          /\ Len(log) + 1 <= nextSequence
      <4>1. /\ log' = Append(log, out[1]) /\ out[1] \in Message
            /\ out[1].sequence = Len(log) + 1 /\ Len(log) + 1 <= nextSequence
        BY <1>3, <2>2, NextIsShown
      <4> QED BY <1>3, <4>1, FlowTypes, AppendEntry
    <3> DEFINE shown == [i \in 1..Len(log) |-> log[i].sequence]
               shown1 == [i \in 1..Len(log') |-> log'[i].sequence]
    <3>2. shown \in Seq(Nat) /\ Len(shown) = Len(log)
      BY <1>3, FlowTypes
    <3>3. shown1 = Append(shown, Len(shown) + 1)
      <4>1. shown1 \in Seq(Nat) /\ Len(shown1) = Len(log) + 1
        <5>1. \A i \in 1..Len(log') : log'[i].sequence \in Nat /\ (i \in 1..Len(log) \/ i = Len(log) + 1)
          BY <1>3, <3>1, FlowTypes
        <5>2. Len(log') \in Nat
          BY <1>3, <3>1, FlowTypes
        <5> QED BY <3>1, <5>1, <5>2
      <4>2. /\ Append(shown, Len(shown) + 1) \in Seq(Nat)
            /\ Len(Append(shown, Len(shown) + 1)) = Len(log) + 1
            /\ \A i \in 1..Len(log) : Append(shown, Len(shown) + 1)[i] = shown[i]
            /\ Append(shown, Len(shown) + 1)[Len(log) + 1] = Len(log) + 1
        <5>1. Len(shown) + 1 \in Nat
          BY <1>3, <3>2, FlowTypes
        <5> QED BY <3>2, <5>1, AppendEntry
      <4>3. \A i \in 1..(Len(log) + 1) : shown1[i] = Append(shown, Len(shown) + 1)[i]
        <5> SUFFICES ASSUME NEW i \in 1..(Len(log) + 1)
                     PROVE  shown1[i] = Append(shown, Len(shown) + 1)[i]
          OBVIOUS
        <5>1. CASE i = Len(log) + 1
          BY <3>1, <4>2, <5>1
        <5>2. CASE i # Len(log) + 1
          <6>1. i \in 1..Len(log)
            BY <1>3, <5>2, FlowTypes
          <6> QED BY <3>1, <4>2, <6>1
        <5> QED BY <5>1, <5>2
      <4> HIDE DEF shown, shown1
      <4> QED BY <4>1, <4>2, <4>3, SeqEqual
    <3>4. nextSequence' = nextSequence
      BY <2>2 DEF RecvEvent, busVars
    <3>5. Len(shown) < nextSequence
      BY <1>3, <3>1, <3>2, FlowTypes
    <3> QED BY <3>3, <3>4, <3>5, Zenon DEF Feed!Next, Feed!Show
  <2>3. CASE log' = log /\ nextSequence' = nextSequence
    BY <2>3 DEF Feed!feed
  <2>4. Publish \/ RecvEvent \/ (log' = log /\ nextSequence' = nextSequence)
    <3>1. ~Restart
      BY <1>3, LiveAssumption DEF Restart, LInv, TypeOK, Roomy
    <3>2. ~RecvResync
      BY <1>3 DEF RecvResync, FeedInv
    <3> QED
      BY <1>3, <3>1, <3>2 DEF Next, vars, busVars, clientVars, Subscribe, Bus!Subscribe, Resync, Forward,
         Bus!Receive, LoseConnection, DialFails, ReadEvent, ReadResync, ReadEnd,
         RecvError, RecvEOF, Reopen
  <2> QED BY <2>1, <2>2, <2>3, <2>4
<1> QED BY <1>1, <1>2, <1>3, LiveInvariance, PTL DEF Spec

-------------------------------------------------------------------------------
(* The buffer.  What it holds is computed from the log by recursion, so the *)
(* proof is by induction on the length of the log.                          *)


\* A set of numbers has a least one.
LEMMA Least ==
  ASSUME NEW T \in SUBSET Nat, T # {} PROVE \E m \in T : \A k \in T : m <= k
<1>1. PICK m \in T : \A k \in T : ~(<<k, m>> \in OpToRel(<, Nat))
  BY WFMin, NatLessThanWellFounded, Zenon
<1>2. \A k \in T : ~(k < m)
  BY <1>1 DEF OpToRel
<1> QED BY <1>2

\* What holds of 0 and is handed on by each step up to N.
Inductive(N, T) == N \in Nat /\ 0 \in T /\ \A i \in 1..N : i - 1 \in T => i \in T

\* Induction by the least counterexample.
LEMMA Induction == ASSUME NEW N, NEW T, Inductive(N, T) PROVE 0..N \subseteq T
<1> USE DEF Inductive
<1> DEFINE Bad == (0..N) \ T
<1>1. SUFFICES ASSUME Bad # {} PROVE FALSE
  OBVIOUS
<1>2. PICK m \in Bad : \A k \in Bad : m <= k
  <2>1. Bad \in SUBSET Nat
    OBVIOUS
  <2> HIDE DEF Bad
  <2> QED BY <1>1, <2>1, Least
<1>3. m \in 1..N /\ m \notin T
  BY <1>2
<1>4. m - 1 \in 0..N /\ m - 1 \notin Bad
  BY <1>2, <1>3
<1> QED BY <1>3, <1>4

\* g begins with c, and step i of N makes F[i] of what there was.
Continues(g, N, S, c, F) ==
    /\ g \in [0..N -> S]
    /\ g[0] = c
    /\ \A i \in 1..N : g[i] = F[i][g[i - 1]]

\* The steps F stay in S.
Continuable(N, S, c, F) == N \in Nat /\ c \in S /\ \A i \in 1..N : \A x \in S : F[i][x] \in S

\* There is a function that continues so.
LEMMA Recursion ==
  ASSUME NEW N, NEW S, NEW c, NEW F, Continuable(N, S, c, F)
  PROVE  \E g : Continues(g, N, S, c, F)
<1> DEFINE Good(n) == \E g : Continues(g, n, S, c, F)
           T == {n \in 0..N : Good(n)}
<1>1. N \in Nat /\ c \in S /\ \A i \in 1..N : \A x \in S : F[i][x] \in S
  BY DEF Continuable
<1>2. 0 \in T
  <2>1. [i \in 0..0 |-> c] \in [0..0 -> S] /\ [i \in 0..0 |-> c][0] = c /\ 1..0 = {}
    BY <1>1
  <2>2. Good(0)
    BY <2>1, Zenon DEF Continues
  <2>3. 0 \in 0..N
    BY <1>1
  <2> HIDE DEF Good
  <2> QED BY <2>2, <2>3
<1>3. ASSUME NEW m \in 1..N, m - 1 \in T PROVE m \in T
  <2> USE DEF Continues
  <2>1. PICK g : Continues(g, m - 1, S, c, F)
    BY <1>3
  <2> DEFINE h == [i \in 0..m |-> IF i = m THEN F[m][g[m - 1]] ELSE g[i]]
  <2>2. F[m][g[m - 1]] \in S
    <3>1. g[m - 1] \in S
      BY <2>1
    <3> QED BY <1>1, <3>1
  <2>3. h \in [0..m -> S]
    BY <2>1, <2>2
  <2>4. h[0] = c
    BY <2>1
  <2>5. ASSUME NEW i \in 1..m PROVE h[i] = F[i][h[i - 1]]
    <3>1. h[i - 1] = g[i - 1]
      OBVIOUS
    <3>2. CASE i = m
      BY <3>1, <3>2
    <3>3. CASE i # m
      <4>1. i \in 1..(m - 1) /\ h[i] = g[i]
        BY <3>3
      <4> QED BY <2>1, <3>1, <4>1
    <3> QED BY <3>2, <3>3
  <2>6. Continues(h, m, S, c, F)
    BY <2>3, <2>4, <2>5
  <2>7. m \in 0..N
    BY <1>1
  <2> QED BY <2>6, <2>7, Zenon
<1>4. Inductive(N, T)
  <2> HIDE DEF T
  <2> QED BY <1>1, <1>2, <1>3 DEF Inductive
<1>5. N \in 0..N
  BY <1>1
<1>6. N \in T
  <2> HIDE DEF T
  <2> QED BY <1>4, <1>5, Induction
<1> QED BY <1>6

\* Two functions that each step of N continues alike agree.
Alike(N, t, u) ==
    N \in Nat /\ t[0] = u[0] /\ \A i \in 1..N : t[i - 1] = u[i - 1] => t[i] = u[i]

\* Alike from there on.
LEMMA Agree ==
  ASSUME NEW N, NEW t, NEW u, Alike(N, t, u) PROVE \A i \in 0..N : t[i] = u[i]
<1> DEFINE T == {i \in 0..N : t[i] = u[i]}
<1>1. Inductive(N, T)
  BY DEF Alike, Inductive
<1>2. 0..N \subseteq T
  <2> HIDE DEF T
  <2> QED BY <1>1, Induction
<1> QED BY <1>2

\* What can be in the log or in the buffer.
Entry == Message \cup {HistoryGapMarker, OverflowMarker}

\* Every entry has a size.
LEMMA EntryBytesIsNat == ASSUME NEW e \in Entry PROVE EntryBytes[e.sequence] \in Nat
<1>1. e.sequence \in 0..MaxSequence
  BY LiveAssumption DEF Entry, Message, SequenceNumber, HistoryGapMarker, OverflowMarker
<1> QED BY <1>1, LiveAssumption

\* What the recursive sum of TotalBytes is.
LEMMA TotalDef ==
  ASSUME NEW s \in Seq(Entry)
  PROVE  \E t \in [0..Len(s) -> Nat] :
            /\ t[0] = 0
            /\ \A i \in 1..Len(s) : t[i] = t[i - 1] + EntryBytes[s[i].sequence]
            /\ TotalBytes(s) = t[Len(s)]
<1> DEFINE F == [i \in 1..Len(s) |-> [x \in Nat |-> x + EntryBytes[s[i].sequence]]]
<1>1. \A i \in 1..Len(s) : EntryBytes[s[i].sequence] \in Nat
  <2> SUFFICES ASSUME NEW i \in 1..Len(s) PROVE EntryBytes[s[i].sequence] \in Nat
    OBVIOUS
  <2>1. s[i] \in Entry
    OBVIOUS
  <2> QED BY <2>1, EntryBytesIsNat
<1>2. \A i \in 1..Len(s), x \in Nat : F[i][x] \in Nat
  BY <1>1
<1>3. PICK g \in [0..Len(s) -> Nat] : g[0] = 0 /\ \A i \in 1..Len(s) : g[i] = F[i][g[i - 1]]
  <2>1. Continuable(Len(s), Nat, 0, F)
    BY <1>2 DEF Continuable
  <2> HIDE DEF F
  <2>2. \E g : Continues(g, Len(s), Nat, 0, F)
    BY <2>1, Recursion
  <2> QED BY <2>2 DEF Continues
<1>4. \A i \in 1..Len(s) : g[i] = g[i - 1] + EntryBytes[s[i].sequence]
  <2> SUFFICES ASSUME NEW i \in 1..Len(s)
               PROVE  g[i] = g[i - 1] + EntryBytes[s[i].sequence]
    OBVIOUS
  <2>1. g[i - 1] \in Nat
    OBVIOUS
  <2>2. F[i][g[i - 1]] = g[i - 1] + EntryBytes[s[i].sequence]
    BY <2>1
  <2> QED BY <1>3, <2>2
<1> DEFINE total[i \in 0..Len(s)] ==
             IF i = 0 THEN 0 ELSE total[i - 1] + EntryBytes[s[i].sequence]
<1>5. g = [i \in 0..Len(s) |-> IF i = 0 THEN 0 ELSE g[i - 1] + EntryBytes[s[i].sequence]]
  BY <1>3, <1>4
<1>6. total = [i \in 0..Len(s) |-> IF i = 0 THEN 0 ELSE total[i - 1] + EntryBytes[s[i].sequence]]
  BY <1>5, Zenon
<1>7. TotalBytes(s) = total[Len(s)]
  BY Zenon DEF TotalBytes
<1> HIDE DEF total
<1> QED
  <2>1. \A i \in 0..Len(s) : total[i] = IF i = 0 THEN 0 ELSE total[i - 1] + EntryBytes[s[i].sequence]
    BY <1>6, Zenon
  <2> HIDE DEF total
  <2>2. total[0] = g[0]
    BY <1>3, <2>1
  <2>3. \A i \in 1..Len(s) : total[i - 1] = g[i - 1] => total[i] = g[i]
    BY <1>4, <2>1
  <2>4. \A i \in 0..Len(s) : total[i] = g[i]
    <3>1. Len(s) \in Nat
      OBVIOUS
    <3> HIDE DEF F
    <3>2. Alike(Len(s), total, g)
      BY <2>2, <2>3, <3>1 DEF Alike
    <3> QED BY <3>2, Agree
  <2> QED BY <1>3, <1>4, <1>7, <2>4

\* The bytes of two sequences add up.
LEMMA TotalConcat ==
  ASSUME NEW s \in Seq(Entry), NEW r \in Seq(Entry)
  PROVE  /\ TotalBytes(s) \in Nat /\ TotalBytes(r) \in Nat
         /\ TotalBytes(s \o r) = TotalBytes(s) + TotalBytes(r)
<1>1. s \o r \in Seq(Entry) /\ Len(s \o r) = Len(s) + Len(r) /\ Len(s) \in Nat /\ Len(r) \in Nat
  OBVIOUS
<1>2. /\ \A i \in 1..Len(s) : (s \o r)[i] = s[i]
      /\ \A j \in 1..Len(r) : (s \o r)[Len(s) + j] = r[j]
  OBVIOUS
<1> DEFINE sr == s \o r
<1> HIDE DEF sr
<1>3. PICK t \in [0..Len(s) -> Nat] :
         /\ t[0] = 0
         /\ \A i \in 1..Len(s) : t[i] = t[i - 1] + EntryBytes[s[i].sequence]
         /\ TotalBytes(s) = t[Len(s)]
  BY TotalDef
<1>4. PICK u \in [0..Len(r) -> Nat] :
         /\ u[0] = 0
         /\ \A i \in 1..Len(r) : u[i] = u[i - 1] + EntryBytes[r[i].sequence]
         /\ TotalBytes(r) = u[Len(r)]
  BY TotalDef
<1>5. PICK v \in [0..Len(sr) -> Nat] :
         /\ v[0] = 0
         /\ \A i \in 1..Len(sr) : v[i] = v[i - 1] + EntryBytes[sr[i].sequence]
         /\ TotalBytes(sr) = v[Len(sr)]
  <2>1. sr \in Seq(Entry)
    BY <1>1 DEF sr
  <2> QED BY <2>1, TotalDef
<1>6. \A i \in 0..Len(s) : v[i] = t[i]
  <2>1. v[0] = t[0]
    BY <1>3, <1>5
  <2>2. ASSUME NEW i \in 1..Len(s), v[i - 1] = t[i - 1] PROVE v[i] = t[i]
    <3>1. i \in 1..Len(sr) /\ sr[i] = s[i]
      BY <1>1, <1>2 DEF sr
    <3> QED BY <1>3, <1>5, <2>2, <3>1
  <2>3. \A i \in 1..Len(s) : v[i - 1] = t[i - 1] => v[i] = t[i]
    BY <2>2
  <2>4. Len(s) \in Nat
    BY <1>1
  <2>5. Alike(Len(s), v, t)
    BY <2>1, <2>3, <2>4 DEF Alike
  <2> QED BY <2>5, Agree
<1> DEFINE w == [j \in 0..Len(r) |-> v[Len(s) + j]]
           z == [j \in 0..Len(r) |-> t[Len(s)] + u[j]]
<1>7. \A j \in 0..Len(r) : w[j] = z[j]
  <2>1. w[0] = z[0]
    <3>1. 0 \in 0..Len(r) /\ Len(s) \in 0..Len(s) /\ Len(s) + 0 = Len(s)
      BY <1>1
    <3>2. t[Len(s)] \in Nat
      BY <3>1
    <3>3. w[0] = v[Len(s)] /\ z[0] = t[Len(s)] + 0
      BY <1>4, <3>1
    <3> QED BY <1>6, <3>1, <3>2, <3>3
  <2>2. ASSUME NEW j \in 1..Len(r), w[j - 1] = z[j - 1] PROVE w[j] = z[j]
    <3>1. Len(s) + j \in 1..Len(sr) /\ sr[Len(s) + j] = r[j]
      BY <1>1, <1>2 DEF sr
    <3>2. v[Len(s) + j] = v[Len(s) + (j - 1)] + EntryBytes[r[j].sequence]
      <4>1. v[Len(s) + j] = v[Len(s) + j - 1] + EntryBytes[sr[Len(s) + j].sequence]
        BY <1>5, <3>1
      <4>2. Len(s) + j - 1 = Len(s) + (j - 1)
        BY <1>1
      <4> QED BY <3>1, <4>1, <4>2
    <3>3. u[j] = u[j - 1] + EntryBytes[r[j].sequence]
      BY <1>4
    <3>4. v[Len(s) + (j - 1)] = t[Len(s)] + u[j - 1]
      BY <2>2
    <3>5. t[Len(s)] \in Nat /\ u[j - 1] \in Nat /\ EntryBytes[r[j].sequence] \in Nat
      <4>1. r[j] \in Entry
        BY <1>1
      <4>2. EntryBytes[r[j].sequence] \in Nat
        BY <4>1, EntryBytesIsNat
      <4>3. Len(s) \in 0..Len(s) /\ j - 1 \in 0..Len(r)
        BY <1>1
      <4> QED BY <4>2, <4>3
    <3>6. v[Len(s) + j] = t[Len(s)] + u[j]
      BY <3>2, <3>3, <3>4, <3>5
    <3> QED BY <3>6
  <2>3. \A j \in 1..Len(r) : w[j - 1] = z[j - 1] => w[j] = z[j]
    BY <2>2
  <2>4. Len(r) \in Nat
    BY <1>1
  <2> HIDE DEF w, z
  <2>5. Alike(Len(r), w, z)
    BY <2>1, <2>3, <2>4 DEF Alike
  <2> QED BY <2>5, Agree
<1>8. v[Len(sr)] = t[Len(s)] + u[Len(r)]
  BY <1>1, <1>7 DEF sr
<1>9. TotalBytes(sr) = TotalBytes(s) + TotalBytes(r)
  BY <1>3, <1>4, <1>5, <1>8
<1>10. t[Len(s)] \in Nat /\ u[Len(r)] \in Nat
  BY <1>1
<1> QED BY <1>3, <1>4, <1>9, <1>10 DEF sr

\* What TrimToBounds leaves of R behind P, the marker or nothing: as much of its
\* end as fits.
LEMMA TrimResult ==
  ASSUME NEW P \in Seq(Entry), Len(P) \in {0, 1}, NEW R \in Seq(Entry)
  PROVE  \E k \in 0..Len(R) :
            /\ TrimToBounds(P \o R, Len(P)) = P \o SubSeq(R, k + 1, Len(R))
            /\ k < Len(R) => Fits(P \o SubSeq(R, k + 1, Len(R)), Len(P))
            /\ k > 0 => ~Fits(P \o SubSeq(R, k, Len(R)), Len(P))
<1> DEFINE s == P \o R
           p == Len(P)
           after(k) == SubSeq(s, 1, p) \o SubSeq(s, p + k + 1, Len(s))
           all == Len(s) - p
           enough == {k \in 0..all : k = all \/ Fits(after(k), p)}
<1>1. all = Len(R) /\ Len(R) \in Nat /\ Len(s) = p + Len(R)
  OBVIOUS
<1>2. SubSeq(s, 1, p) = P
  <2>1. \A i \in 1..p : SubSeq(s, 1, p)[i] = P[i]
    BY <1>1
  <2> QED BY <1>1, <2>1, SeqEqual
<1>3. ASSUME NEW k \in 0..Len(R) PROVE SubSeq(s, p + k + 1, Len(s)) = SubSeq(R, k + 1, Len(R))
  OBVIOUS
<1>4. \A k \in 0..Len(R) : after(k) = P \o SubSeq(R, k + 1, Len(R))
  BY <1>2, <1>3
<1>5. PICK k \in enough : \A j \in enough : k <= j
  <2>1. enough \in SUBSET Nat /\ all \in enough
    BY <1>1
  <2> HIDE DEF enough
  <2> QED BY <2>1, Least
<1> DEFINE best == CHOOSE n \in enough : \A j \in enough : n <= j
<1>6. best \in enough /\ \A j \in enough : best <= j
  <2> HIDE DEF enough
  <2> QED BY <1>5
<1>7. TrimToBounds(s, p) = after(best)
  BY Zenon DEF TrimToBounds
<1> HIDE DEF best, all, after
<1>8. best \in 0..Len(R) /\ best \in Nat /\ (best < Len(R) => Fits(after(best), p))
  <2>1. best \in 0..all /\ (best = all \/ Fits(after(best), p))
    BY <1>6
  <2> HIDE DEF s, p
  <2> QED BY <1>1, <2>1
<1>9. best > 0 => best - 1 \in 0..Len(R) /\ (best - 1) + 1 = best
  <2> HIDE DEF s, p
  <2> QED BY <1>1, <1>8
<1>10. best > 0 => ~Fits(after(best - 1), p)
  <2> SUFFICES ASSUME best > 0, Fits(after(best - 1), p) PROVE FALSE
    OBVIOUS
  <2>1. best - 1 \in 0..all
    BY <1>1, <1>9
  <2>2. best - 1 \in enough
    BY <2>1
  <2>3. best <= best - 1
    <3> HIDE DEF enough
    <3> QED BY <1>6, <2>2
  <2> HIDE DEF s, p
  <2> QED BY <1>8, <2>3
<1>11. after(best) = P \o SubSeq(R, best + 1, Len(R))
  BY <1>4, <1>8 DEF after
<1>12. best > 0 => after(best - 1) = P \o SubSeq(R, best, Len(R))
  BY <1>4, <1>9 DEF after
<1> QED BY <1>7, <1>8, <1>10, <1>11, <1>12

\* The marker in front.
Marker == <<OverflowMarker>>

\* It is a sequence of one entry.
LEMMA MarkerSeq == Marker \in Seq(Entry) /\ Len(Marker) = 1
<1>1. OverflowMarker \in Entry
  BY DEF Entry
<1> QED BY <1>1 DEF Marker

\* Buffer.Add behind the marker.
LEMMA MarkerAppend ==
  ASSUME NEW q \in Seq(Entry), NEW e \in Entry
  PROVE  Append(Marker \o q, e) = Marker \o Append(q, e)
BY MarkerSeq

\* The ends of a sequence of entries.
LEMMA Ends ==
  ASSUME NEW q \in Seq(Entry), NEW k \in 0..Len(q)
  PROVE  /\ SubSeq(q, k + 1, Len(q)) \in Seq(Entry)
         /\ Len(SubSeq(q, k + 1, Len(q))) = Len(q) - k
         /\ k > 0 => /\ SubSeq(q, k, Len(q)) \in Seq(Entry)
                     /\ Len(SubSeq(q, k, Len(q))) = Len(q) - k + 1
OBVIOUS

\* What fits, with and without the marker.
LEMMA Fitting ==
  ASSUME NEW q \in Seq(Entry)
  PROVE  /\ Fits(q, 0) <=> Len(q) <= BufferEvents /\ TotalBytes(q) <= BufferBytes
         /\ Fits(Marker \o q, 1) <=>
               Len(q) <= BufferEvents /\ TotalBytes(Marker \o q) <= BufferBytes
         /\ TotalBytes(Marker \o q) \in Nat
         /\ TotalBytes(q) \in Nat
         /\ TotalBytes(q) <= TotalBytes(Marker \o q)
<1>1. Len(Marker \o q) = 1 + Len(q) /\ Len(q) \in Nat
  BY MarkerSeq, ConcatProperties
<1>2. /\ TotalBytes(Marker) \in Nat /\ TotalBytes(q) \in Nat
      /\ TotalBytes(Marker \o q) = TotalBytes(Marker) + TotalBytes(q)
  BY MarkerSeq, TotalConcat
<1>3. TotalBytes(q) <= TotalBytes(Marker \o q) /\ TotalBytes(Marker \o q) \in Nat
  BY <1>2
<1>4. Fits(q, 0) <=> Len(q) <= BufferEvents /\ TotalBytes(q) <= BufferBytes
  BY <1>1 DEF Fits
<1>5. Fits(Marker \o q, 1) <=>
         Len(q) <= BufferEvents /\ TotalBytes(Marker \o q) <= BufferBytes
  BY <1>1 DEF Fits
<1> QED BY <1>2, <1>3, <1>4, <1>5

\* b is what is left of the contents r when k of them are dropped.
Trimmed(b, r, k) ==
    /\ b = [events |-> Marker \o SubSeq(r, k + 1, Len(r)), overflowed |-> TRUE]
    /\ k < Len(r) =>
          /\ Len(r) - k <= BufferEvents
          /\ TotalBytes(Marker \o SubSeq(r, k + 1, Len(r))) <= BufferBytes
    /\ k > 0 =>
          \/ Len(r) - k + 1 > BufferEvents
          \/ TotalBytes(Marker \o SubSeq(r, k, Len(r))) > BufferBytes

\* trimLocked behind the marker.
LEMMA TrimAgain ==
  ASSUME NEW r \in Seq(Entry)
  PROVE  \E k \in 0..Len(r) : Trimmed(Trim(Marker \o r, TRUE), r, k)
<1>1. PICK k \in 0..Len(r) :
         /\ TrimToBounds(Marker \o r, 1) = Marker \o SubSeq(r, k + 1, Len(r))
         /\ k < Len(r) => Fits(Marker \o SubSeq(r, k + 1, Len(r)), 1)
         /\ k > 0 => ~Fits(Marker \o SubSeq(r, k, Len(r)), 1)
  BY MarkerSeq, TrimResult
<1>2. Trim(Marker \o r, TRUE) =
         [events |-> Marker \o SubSeq(r, k + 1, Len(r)), overflowed |-> TRUE]
  BY <1>1 DEF Trim
<1>3. k < Len(r) => /\ Len(r) - k <= BufferEvents
                    /\ TotalBytes(Marker \o SubSeq(r, k + 1, Len(r))) <= BufferBytes
  <2>1. SubSeq(r, k + 1, Len(r)) \in Seq(Entry) /\ Len(SubSeq(r, k + 1, Len(r))) = Len(r) - k
    BY Ends
  <2> QED BY <1>1, <2>1, Fitting
<1>4. k > 0 => \/ Len(r) - k + 1 > BufferEvents
               \/ TotalBytes(Marker \o SubSeq(r, k, Len(r))) > BufferBytes
  <2> SUFFICES ASSUME k > 0 PROVE \/ Len(r) - k + 1 > BufferEvents
                                  \/ TotalBytes(Marker \o SubSeq(r, k, Len(r))) > BufferBytes
    OBVIOUS
  <2> DEFINE q == SubSeq(r, k, Len(r))
  <2>1. q \in Seq(Entry) /\ Len(q) = Len(r) - k + 1 /\ Len(q) \in Nat
    BY Ends
  <2>2. ~Fits(Marker \o q, 1)
    BY <1>1
  <2> HIDE DEF q
  <2>3. TotalBytes(Marker \o q) \in Nat /\ ~(Len(q) <= BufferEvents /\ TotalBytes(Marker \o q) <= BufferBytes)
    BY <2>1, <2>2, Fitting
  <2>4. Len(q) > BufferEvents \/ TotalBytes(Marker \o q) > BufferBytes
    BY <2>1, <2>3, LiveAssumption
  <2> QED BY <2>1, <2>4 DEF q
<1> QED BY <1>2, <1>3, <1>4 DEF Trimmed

\* trimLocked without a marker: everything fits, or something goes and the marker
\* comes in front.
LEMMA TrimFirst ==
  ASSUME NEW r \in Seq(Entry)
  PROVE  \/ /\ Trim(r, FALSE) = [events |-> r, overflowed |-> FALSE]
            /\ r # <<>> => Len(r) <= BufferEvents /\ TotalBytes(r) <= BufferBytes
         \/ \E k \in 1..Len(r) : Trimmed(Trim(r, FALSE), r, k)
<1>1. PICK k \in 0..Len(r) :
         /\ TrimToBounds(r, 0) = SubSeq(r, k + 1, Len(r))
         /\ k < Len(r) => Fits(SubSeq(r, k + 1, Len(r)), 0)
         /\ k > 0 => ~Fits(SubSeq(r, k, Len(r)), 0)
  <2>1. <<>> \in Seq(Entry) /\ Len(<<>>) = 0
    OBVIOUS
  <2>2. \E k \in 0..Len(r) :
           /\ TrimToBounds(<<>> \o r, 0) = <<>> \o SubSeq(r, k + 1, Len(r))
           /\ k < Len(r) => Fits(<<>> \o SubSeq(r, k + 1, Len(r)), 0)
           /\ k > 0 => ~Fits(<<>> \o SubSeq(r, k, Len(r)), 0)
    BY <2>1, TrimResult
  <2>3. \A q \in Seq(Entry) : <<>> \o q = q
    OBVIOUS
  <2>4. /\ <<>> \o r = r
        /\ \A k \in 0..Len(r) : <<>> \o SubSeq(r, k + 1, Len(r)) = SubSeq(r, k + 1, Len(r))
        /\ \A k \in 0..Len(r) : k > 0 => <<>> \o SubSeq(r, k, Len(r)) = SubSeq(r, k, Len(r))
    BY <2>3, Ends
  <2> QED BY <2>2, <2>4
<1> DEFINE fitting == SubSeq(r, k + 1, Len(r))
<1>2. fitting \in Seq(Entry) /\ Len(fitting) = Len(r) - k
  BY Ends
<1>3. CASE k = 0
  <2>1. fitting = r
    BY <1>3
  <2>2. Trim(r, FALSE) = [events |-> r, overflowed |-> FALSE]
    BY <1>1, <2>1 DEF Trim
  <2>3. r # <<>> => Fits(r, 0)
    <3>1. r # <<>> => k < Len(r)
      BY <1>3
    <3> QED BY <1>1, <2>1, <3>1
  <2> QED BY <2>2, <2>3, Fitting
<1>4. CASE k > 0
  <2>1. PICK j \in 0..Len(fitting) :
           /\ TrimToBounds(Marker \o fitting, 1) = Marker \o SubSeq(fitting, j + 1, Len(fitting))
           /\ j < Len(fitting) => Fits(Marker \o SubSeq(fitting, j + 1, Len(fitting)), 1)
           /\ j > 0 => ~Fits(Marker \o SubSeq(fitting, j, Len(fitting)), 1)
    BY <1>2, MarkerSeq, TrimResult
  <2>2. k + j \in 1..Len(r) /\ k + j \in 0..Len(r)
    BY <1>2, <1>4
  <2>3. SubSeq(fitting, j + 1, Len(fitting)) = SubSeq(r, k + j + 1, Len(r))
    OBVIOUS
  <2>4. j > 0 => SubSeq(fitting, j, Len(fitting)) = SubSeq(r, k + j, Len(r))
    OBVIOUS
  <2>5. Trim(r, FALSE) =
           [events |-> Marker \o SubSeq(r, k + j + 1, Len(r)), overflowed |-> TRUE]
    <3>1. fitting # r
      BY <1>2, <1>4
    <3>2. TrimToBounds(r, 0) # r
      BY <1>1, <3>1
    <3>3. TrimToBounds(<<OverflowMarker>> \o TrimToBounds(r, 0), 1) =
             Marker \o SubSeq(r, k + j + 1, Len(r))
      BY <1>1, <2>1, <2>3 DEF Marker
    <3> QED BY <3>2, <3>3 DEF Trim
  <2>6. k + j < Len(r) =>
           /\ Len(r) - (k + j) <= BufferEvents
           /\ TotalBytes(Marker \o SubSeq(r, k + j + 1, Len(r))) <= BufferBytes
    <3> SUFFICES ASSUME k + j < Len(r)
                 PROVE  /\ Len(r) - (k + j) <= BufferEvents
                        /\ TotalBytes(Marker \o SubSeq(r, k + j + 1, Len(r))) <= BufferBytes
      OBVIOUS
    <3> DEFINE q == SubSeq(r, k + j + 1, Len(r))
    <3>1. q \in Seq(Entry) /\ Len(q) = Len(r) - (k + j)
      BY <2>2, Ends
    <3>2. j < Len(fitting)
      BY <1>2
    <3>3. Fits(Marker \o q, 1)
      BY <2>1, <2>3, <3>2
    <3> HIDE DEF q
    <3>4. Len(q) <= BufferEvents /\ TotalBytes(Marker \o q) <= BufferBytes
      BY <3>1, <3>3, Fitting
    <3> QED BY <3>1, <3>4 DEF q
  <2>7. \/ Len(r) - (k + j) + 1 > BufferEvents
        \/ TotalBytes(Marker \o SubSeq(r, k + j, Len(r))) > BufferBytes
    <3> DEFINE q == SubSeq(r, k + j, Len(r))
    <3>1. q \in Seq(Entry) /\ Len(q) = Len(r) - (k + j) + 1 /\ Len(q) \in Nat
      BY <2>2, Ends
    <3>2. ~Fits(Marker \o q, 1) \/ ~Fits(q, 0)
      <4>1. CASE j > 0
        BY <2>1, <2>4, <4>1
      <4>2. CASE j = 0
        <5>1. k + j = k
          BY <4>2
        <5> QED BY <1>1, <1>4, <5>1
      <4> QED BY <4>1, <4>2
    <3> HIDE DEF q
    <3>3. /\ TotalBytes(Marker \o q) \in Nat /\ TotalBytes(q) \in Nat
          /\ TotalBytes(q) <= TotalBytes(Marker \o q)
          /\ ~(Len(q) <= BufferEvents /\ TotalBytes(Marker \o q) <= BufferBytes)
             \/ ~(Len(q) <= BufferEvents /\ TotalBytes(q) <= BufferBytes)
      BY <3>1, <3>2, Fitting
    <3>4. Len(q) > BufferEvents \/ TotalBytes(Marker \o q) > BufferBytes
      BY <3>1, <3>3, LiveAssumption
    <3> QED BY <3>1, <3>4 DEF q
  <2>8. Trimmed(Trim(r, FALSE), r, k + j)
    BY <2>5, <2>6, <2>7 DEF Trimmed
  <2> QED BY <2>2, <2>8
<1>5. k = 0 \/ k > 0
  BY <1>1
<1> QED BY <1>3, <1>4, <1>5, Zenon

\* The buffer is the marker or nothing, and entries.
BufferState ==
    {[events |-> q, overflowed |-> FALSE] : q \in Seq(Entry)}
    \cup {[events |-> Marker \o q, overflowed |-> TRUE] : q \in Seq(Entry)}

\* Recording an entry leaves a buffer of that form.
LEMMA TrimType ==
  ASSUME NEW b \in BufferState, NEW e \in Entry
  PROVE  Trim(Append(b.events, e), b.overflowed) \in BufferState
<1>1. CASE b \in {[events |-> q, overflowed |-> FALSE] : q \in Seq(Entry)}
  <2>1. PICK q \in Seq(Entry) : b = [events |-> q, overflowed |-> FALSE]
    BY <1>1
  <2> DEFINE r == Append(q, e)
  <2>2. r \in Seq(Entry)
    OBVIOUS
  <2>3. Append(b.events, e) = r /\ b.overflowed = FALSE
    BY <2>1
  <2> HIDE DEF r
  <2>4. CASE Trim(r, FALSE) = [events |-> r, overflowed |-> FALSE]
    BY <2>2, <2>3, <2>4 DEF BufferState
  <2>5. ASSUME NEW k \in 1..Len(r), Trimmed(Trim(r, FALSE), r, k)
        PROVE  Trim(r, FALSE) \in BufferState
    <3>1. SubSeq(r, k + 1, Len(r)) \in Seq(Entry)
      BY <2>2, Ends
    <3> QED BY <2>5, <3>1 DEF Trimmed, BufferState
  <2> QED BY <2>2, <2>3, <2>4, <2>5, TrimFirst
<1>2. CASE b \in {[events |-> Marker \o q, overflowed |-> TRUE] : q \in Seq(Entry)}
  <2>1. PICK q \in Seq(Entry) : b = [events |-> Marker \o q, overflowed |-> TRUE]
    BY <1>2
  <2> DEFINE r == Append(q, e)
  <2>2. r \in Seq(Entry)
    OBVIOUS
  <2>3. Append(b.events, e) = Marker \o r /\ b.overflowed = TRUE
    <3>1. Append(Marker \o q, e) = Marker \o Append(q, e)
      BY MarkerSeq
    <3> QED BY <2>1, <3>1
  <2> HIDE DEF r
  <2>4. PICK k \in 0..Len(r) : Trimmed(Trim(Marker \o r, TRUE), r, k)
    BY <2>2, TrimAgain
  <2>5. SubSeq(r, k + 1, Len(r)) \in Seq(Entry)
    BY <2>2, Ends
  <2> QED BY <2>3, <2>4, <2>5 DEF Trimmed, BufferState
<1> QED BY <1>1, <1>2 DEF BufferState

\* What Kept is, entry for entry.
LEMMA KeptDef ==
  ASSUME log \in Seq(Entry)
  PROVE  \E g \in [0..Len(log) -> BufferState] :
            /\ g[0] = [events |-> <<>>, overflowed |-> FALSE]
            /\ \A n \in 1..Len(log) :
                  g[n] = Trim(Append(g[n - 1].events, log[n]), g[n - 1].overflowed)
            /\ Kept = g[Len(log)]
<1> DEFINE empty == [events |-> <<>>, overflowed |-> FALSE]
           F == [n \in 1..Len(log) |->
                   [b \in BufferState |-> Trim(Append(b.events, log[n]), b.overflowed)]]
<1>1. Len(log) \in Nat /\ \A n \in 1..Len(log) : log[n] \in Entry
  OBVIOUS
<1>2. \A n \in 1..Len(log) : \A b \in BufferState :
         /\ F[n][b] = Trim(Append(b.events, log[n]), b.overflowed)
         /\ F[n][b] \in BufferState
  BY <1>1, TrimType
<1>3. empty \in BufferState
  <2>1. <<>> \in Seq(Entry)
    OBVIOUS
  <2> QED BY <2>1 DEF BufferState
<1>4. PICK g \in [0..Len(log) -> BufferState] :
         g[0] = empty /\ \A n \in 1..Len(log) : g[n] = F[n][g[n - 1]]
  <2> HIDE DEF F, empty
  <2>1. Continuable(Len(log), BufferState, empty, F)
    BY <1>1, <1>2, <1>3 DEF Continuable
  <2>2. \E g : Continues(g, Len(log), BufferState, empty, F)
    BY <2>1, Recursion
  <2> QED BY <2>2 DEF Continues
<1>5. \A n \in 1..Len(log) :
         g[n] = Trim(Append(g[n - 1].events, log[n]), g[n - 1].overflowed)
  <2> HIDE DEF F
  <2> QED BY <1>2, <1>4
<1> DEFINE after[n \in 0..Len(log)] ==
             IF n = 0 THEN empty
             ELSE Trim(Append(after[n - 1].events, log[n]), after[n - 1].overflowed)
<1>6. g = [n \in 0..Len(log) |->
              IF n = 0 THEN empty ELSE Trim(Append(g[n - 1].events, log[n]), g[n - 1].overflowed)]
  <2> HIDE DEF F, empty
  <2> QED BY <1>4, <1>5
<1>7. after = [n \in 0..Len(log) |->
                  IF n = 0 THEN empty
                  ELSE Trim(Append(after[n - 1].events, log[n]), after[n - 1].overflowed)]
  BY <1>6, Zenon
<1>8. Kept = after[Len(log)]
  BY Zenon DEF Kept
<1> HIDE DEF after, F, empty
<1>9. /\ after[0] = g[0]
      /\ \A n \in 1..Len(log) : after[n - 1] = g[n - 1] => after[n] = g[n]
  <2>1. after[0] = empty
    BY <1>1, <1>7
  <2>2. \A n \in 1..Len(log) :
           after[n] = Trim(Append(after[n - 1].events, log[n]), after[n - 1].overflowed)
    BY <1>1, <1>7
  <2> QED BY <1>4, <1>5, <2>1, <2>2
<1>10. Alike(Len(log), after, g)
  BY <1>1, <1>9 DEF Alike
<1>11. after[Len(log)] = g[Len(log)]
  BY <1>1, <1>10, Agree
<1> QED BY <1>4, <1>5, <1>8, <1>11 DEF empty

\* What the buffer b is when the first n entries were recorded and d of them are
\* gone.
Holds(b, n, d) ==
    /\ d = 0 => b = [events |-> SubSeq(log, 1, n), overflowed |-> FALSE]
    /\ d = 0 /\ n > 0 => n <= BufferEvents /\ TotalBytes(SubSeq(log, 1, n)) <= BufferBytes
    /\ d > 0 =>
          /\ b = [events |-> Marker \o SubSeq(log, d + 1, n), overflowed |-> TRUE]
          /\ \/ n - d = BufferEvents
             \/ TotalBytes(Marker \o SubSeq(log, d, n)) > BufferBytes
          /\ d < n =>
                /\ n - d <= BufferEvents
                /\ TotalBytes(Marker \o SubSeq(log, d + 1, n)) <= BufferBytes

\* What trimLocked drops adds to what is gone.
LEMMA TrimmedHolds ==
  ASSUME log \in Seq(Entry), NEW n \in 1..Len(log), NEW d \in 0..(n - 1), NEW b,
         NEW k \in 0..(n - d), d + k > 0, Trimmed(b, SubSeq(log, d + 1, n), k),
         k = 0 => \/ n - d > BufferEvents
                  \/ TotalBytes(Marker \o SubSeq(log, d, n)) > BufferBytes
  PROVE  Holds(b, n, d + k)
<1> DEFINE r == SubSeq(log, d + 1, n)
<1>1. r \in Seq(Entry) /\ Len(r) = n - d
  OBVIOUS
<1>2. SubSeq(r, k + 1, Len(r)) = SubSeq(log, d + k + 1, n)
  OBVIOUS
<1>3. k > 0 => SubSeq(r, k, Len(r)) = SubSeq(log, d + k, n)
  OBVIOUS
<1>4. b = [events |-> Marker \o SubSeq(log, d + k + 1, n), overflowed |-> TRUE]
  BY <1>2 DEF Trimmed
<1>5. d + k < n => /\ n - (d + k) <= BufferEvents
                   /\ TotalBytes(Marker \o SubSeq(log, d + k + 1, n)) <= BufferBytes
  <2> SUFFICES ASSUME d + k < n
               PROVE  /\ n - (d + k) <= BufferEvents
                      /\ TotalBytes(Marker \o SubSeq(log, d + k + 1, n)) <= BufferBytes
    OBVIOUS
  <2>1. k < Len(r) /\ Len(r) - k = n - (d + k)
    BY <1>1
  <2> HIDE DEF r
  <2> QED BY <1>2, <2>1 DEF Trimmed, r
<1>6. n - (d + k) = BufferEvents \/ TotalBytes(Marker \o SubSeq(log, d + k, n)) > BufferBytes
  <2>1. n - (d + k) + 1 > BufferEvents \/ TotalBytes(Marker \o SubSeq(log, d + k, n)) > BufferBytes
    <3>1. CASE k = 0
      <4>1. d + k = d
        BY <3>1
      <4>2. CASE n - d > BufferEvents
        <5>1. n - (d + k) + 1 > BufferEvents
          BY <4>1, <4>2, LiveAssumption
        <5> QED BY <5>1
      <4>3. CASE TotalBytes(Marker \o SubSeq(log, d, n)) > BufferBytes
        BY <4>1, <4>3
      <4> QED BY <3>1, <4>2, <4>3
    <3>2. CASE k > 0
      <4>1. Len(r) - k + 1 > BufferEvents \/ TotalBytes(Marker \o SubSeq(r, k, Len(r))) > BufferBytes
        BY <3>2 DEF Trimmed
      <4>2. Len(r) - k + 1 = n - (d + k) + 1
        BY <1>1
      <4> QED BY <1>3, <3>2, <4>1, <4>2
    <3> QED BY <3>1, <3>2
  <2>2. CASE n - (d + k) + 1 > BufferEvents
    <3>1. d + k < n => n - (d + k) = BufferEvents
      BY <1>5, <2>2, LiveAssumption
    <3>2. ~(d + k < n) => n - (d + k) = 0
      OBVIOUS
    <3>3. d + k < n
      BY <2>2, <3>2, LiveAssumption
    <3> QED BY <3>1, <3>3
  <2> QED BY <2>1, <2>2
<1> HIDE DEF r
<1> QED BY <1>4, <1>5, <1>6 DEF Holds

\* One more entry is recorded.
LEMMA HoldsStep ==
  ASSUME log \in Seq(Entry), NEW n \in 1..Len(log), NEW b, NEW d \in 0..(n - 1),
         Holds(b, n - 1, d)
  PROVE  \E c \in 0..n : Holds(Trim(Append(b.events, log[n]), b.overflowed), n, c)
<1> DEFINE r == SubSeq(log, d + 1, n)
           after == Trim(Append(b.events, log[n]), b.overflowed)
<1>1. r \in Seq(Entry) /\ Len(r) = n - d /\ r # <<>>
  OBVIOUS
<1>2. Append(SubSeq(log, d + 1, n - 1), log[n]) = r
  OBVIOUS
<1>3. CASE d = 0
  <2>0. r = SubSeq(log, 1, n) /\ SubSeq(log, d + 1, n - 1) = SubSeq(log, 1, n - 1)
    BY <1>3
  <2>1. after = Trim(r, FALSE)
    <3>1. b.events = SubSeq(log, 1, n - 1) /\ b.overflowed = FALSE
      BY <1>3 DEF Holds
    <3>2. Append(b.events, log[n]) = r
      BY <1>2, <2>0, <3>1
    <3> HIDE DEF r
    <3> QED BY <3>1, <3>2
  <2>2. CASE /\ Trim(r, FALSE) = [events |-> r, overflowed |-> FALSE]
             /\ Len(r) <= BufferEvents /\ TotalBytes(r) <= BufferBytes
    <3>1. after = [events |-> SubSeq(log, 1, n), overflowed |-> FALSE]
      BY <2>0, <2>1, <2>2
    <3>2. n <= BufferEvents
      BY <1>1, <1>3, <2>2
    <3>3. TotalBytes(SubSeq(log, 1, n)) <= BufferBytes
      BY <2>0, <2>2
    <3>4. 0 \in 0..n
      OBVIOUS
    <3> HIDE DEF after
    <3>5. Holds(after, n, 0)
      BY <3>1, <3>2, <3>3 DEF Holds
    <3> QED BY <3>4, <3>5 DEF after
  <2>3. ASSUME NEW k \in 1..Len(r), Trimmed(Trim(r, FALSE), r, k)
        PROVE  \E c \in 0..n : Holds(after, n, c)
    <3>1. k \in 0..(n - d) /\ d + k > 0 /\ k # 0 /\ d + k \in 0..n
      BY <1>1, <1>3
    <3>2. Holds(Trim(r, FALSE), n, d + k)
      BY <2>3, <3>1, TrimmedHolds
    <3> QED BY <2>1, <3>1, <3>2
  <2> QED BY <1>1, <2>2, <2>3, TrimFirst
<1>4. CASE d > 0
  <2>1. b.events = Marker \o SubSeq(log, d + 1, n - 1) /\ b.overflowed = TRUE
    <3> HIDE DEF r, after
    <3>1. b = [events |-> Marker \o SubSeq(log, d + 1, n - 1), overflowed |-> TRUE]
      BY <1>4, Zenon DEF Holds
    <3> QED BY <3>1
  <2>2. Append(Marker \o SubSeq(log, d + 1, n - 1), log[n]) = Marker \o r
    <3> DEFINE q == SubSeq(log, d + 1, n - 1)
               e == log[n]
    <3>1. q \in Seq(Entry) /\ e \in Entry
      OBVIOUS
    <3>2. Append(Marker \o q, e) = Marker \o Append(q, e)
      <4> HIDE DEF q, e
      <4> QED BY <3>1, MarkerAppend
    <3>3. Append(q, e) = r
      BY <1>2
    <3> HIDE DEF r
    <3> QED BY <3>2, <3>3
  <2>3. after = Trim(Marker \o r, TRUE)
    BY <2>1, <2>2
  <2>4. PICK k \in 0..Len(r) : Trimmed(Trim(Marker \o r, TRUE), r, k)
    BY <1>1, TrimAgain
  <2>5. n - d > BufferEvents \/ TotalBytes(Marker \o SubSeq(log, d, n)) > BufferBytes
    <3>1. CASE n - 1 - d = BufferEvents
      BY <3>1, LiveAssumption
    <3>2. CASE TotalBytes(Marker \o SubSeq(log, d, n - 1)) > BufferBytes
      <4> DEFINE q == Marker \o SubSeq(log, d, n - 1)
                 e == <<log[n]>>
      <4>1. SubSeq(log, d, n - 1) \in Seq(Entry) /\ e \in Seq(Entry)
        BY <1>4
      <4>2. SubSeq(log, d, n) = SubSeq(log, d, n - 1) \o e
        BY <1>4
      <4>3. Marker \o SubSeq(log, d, n) = q \o e /\ q \in Seq(Entry)
        BY <4>1, <4>2, MarkerSeq
      <4>4. TotalBytes(q \o e) = TotalBytes(q) + TotalBytes(e)
            /\ TotalBytes(q) \in Nat /\ TotalBytes(e) \in Nat
        BY <4>1, <4>3, TotalConcat
      <4> HIDE DEF e
      <4>5. TotalBytes(q) > BufferBytes
        BY <3>2
      <4> HIDE DEF q
      <4>6. TotalBytes(q \o e) > BufferBytes
        BY <4>4, <4>5, LiveAssumption
      <4> QED BY <4>3, <4>6
    <3> QED BY <1>4, <3>1, <3>2 DEF Holds
  <2>6. k \in 0..(n - d) /\ d + k > 0 /\ d + k \in 0..n
    BY <1>1, <1>4, <2>4
  <2>7. Holds(Trim(Marker \o r, TRUE), n, d + k)
    BY <2>4, <2>5, <2>6, TrimmedHolds
  <2> QED BY <2>3, <2>6, <2>7
<1>5. d = 0 \/ d > 0
  OBVIOUS
<1> QED BY <1>3, <1>4, <1>5, Zenon

\* What is left of a buffer that holds is the newest of the log.
LEMMA HeldIsNewest ==
  ASSUME log \in Seq(Entry), NEW d \in 0..Len(log), Holds(Kept, Len(log), d)
  PROVE  BufferIsNewest
<1> DEFINE content == SubSeq(log, d + 1, Len(log))
<1>1. content \in Seq(Entry) /\ Len(content) = Len(log) - d /\ Len(log) \in Nat
  OBVIOUS
<1>2. d = 0 => content = log
  OBVIOUS
<1>3. SubSeq(log, Len(log) - Len(content) + 1, Len(log)) = content
  <2>1. Len(log) - Len(content) + 1 = d + 1
    <3> HIDE DEF content
    <3> QED BY <1>1
  <2> QED BY <2>1
<1>4. Len(content) \in Nat /\ Len(content) <= Len(log) /\ (content # <<>> <=> d < Len(log))
  <2> HIDE DEF content
  <2>1. Len(content) = 0 <=> content = <<>>
    BY <1>1
  <2> QED BY <1>1, <2>1
<1>5. d > 0 => content # log
  <2> HIDE DEF content
  <2> QED BY <1>1
<1>6. CASE d = 0
  <2>1. Kept = [events |-> log, overflowed |-> FALSE]
    BY <1>2, <1>6 DEF Holds
  <2>2. SubSeq(log, 0 + 1, Len(log)) = log
    OBVIOUS
  <2>3. content # <<>> => Len(content) <= BufferEvents /\ TotalBytes(log) <= BufferBytes
    <3>1. SubSeq(log, 1, Len(log)) = log
      OBVIOUS
    <3> HIDE DEF content
    <3> QED BY <1>1, <1>2, <1>4, <1>6, <3>1 DEF Holds
  <2>4. Kept.events = log /\ Kept.overflowed = FALSE
    BY <2>1
  <2> HIDE DEF content
  <2> QED BY <1>2, <1>3, <1>4, <1>6, <2>2, <2>3, <2>4 DEF BufferIsNewest
<1>7. CASE d > 0
  <2> DEFINE events == Marker \o content
  <2>1. Kept = [events |-> events, overflowed |-> TRUE]
    BY <1>7 DEF Holds
  <2>2. /\ SubSeq(events, 1 + 1, Len(events)) = content
        /\ Head(events) = OverflowMarker
    <3> HIDE DEF content
    <3> QED BY <1>1, MarkerSeq DEF Marker
  <2>3. \/ Len(content) = BufferEvents
        \/ TotalBytes(<<OverflowMarker>> \o SubSeq(log, Len(log) - (Len(content) + 1) + 1, Len(log)))
              > BufferBytes
    <3>1. Len(log) - (Len(content) + 1) + 1 = d
      <4> HIDE DEF content
      <4> QED BY <1>1
    <3>2. Len(content) = Len(log) - d
      BY <1>1
    <3>3. Len(log) - d = BufferEvents \/ TotalBytes(Marker \o SubSeq(log, d, Len(log))) > BufferBytes
      BY <1>7 DEF Holds
    <3> HIDE DEF content
    <3> QED BY <3>1, <3>2, <3>3 DEF Marker
  <2>4. content # <<>> => Len(content) <= BufferEvents /\ TotalBytes(events) <= BufferBytes
    <3>1. d < Len(log) => Len(log) - d <= BufferEvents /\ TotalBytes(events) <= BufferBytes
      BY <1>7 DEF Holds
    <3> HIDE DEF content, events
    <3> QED BY <1>1, <1>4, <3>1
  <2>5. Kept.events = events /\ Kept.overflowed = TRUE
    BY <2>1
  <2> HIDE DEF content, events
  <2> QED BY <1>3, <1>4, <1>5, <1>7, <2>2, <2>3, <2>4, <2>5 DEF BufferIsNewest
<1>8. d = 0 \/ d > 0
  OBVIOUS
<1> QED BY <1>6, <1>7, <1>8, Zenon

\* The buffer holds the newest of any log.
LEMMA KeptIsNewest == ASSUME log \in Seq(Entry) PROVE BufferIsNewest
<1>1. PICK g \in [0..Len(log) -> BufferState] :
         /\ g[0] = [events |-> <<>>, overflowed |-> FALSE]
         /\ \A n \in 1..Len(log) :
               g[n] = Trim(Append(g[n - 1].events, log[n]), g[n - 1].overflowed)
         /\ Kept = g[Len(log)]
  BY KeptDef
<1> DEFINE N == Len(log)
           T == {n \in 0..N : \E d \in 0..n : Holds(g[n], n, d)}
<1>2. N \in Nat
  OBVIOUS
<1>3. 0 \in T
  <2>1. SubSeq(log, 1, 0) = <<>>
    OBVIOUS
  <2>2. Holds(g[0], 0, 0)
    <3>1. 0 > 0 <=> FALSE
      OBVIOUS
    <3>2. g[0] = [events |-> SubSeq(log, 1, 0), overflowed |-> FALSE]
      BY <1>1, <2>1
    <3> QED BY <3>1, <3>2 DEF Holds
  <2>3. 0 \in 0..N /\ 0 \in 0..0
    BY <1>2
  <2> HIDE DEF N
  <2> QED BY <2>2, <2>3
<1>4. ASSUME NEW n \in 1..N, n - 1 \in T PROVE n \in T
  <2>1. PICK d \in 0..(n - 1) : Holds(g[n - 1], n - 1, d)
    BY <1>4
  <2>2. g[n] = Trim(Append(g[n - 1].events, log[n]), g[n - 1].overflowed)
    BY <1>1
  <2>3. \E c \in 0..n : Holds(Trim(Append(g[n - 1].events, log[n]), g[n - 1].overflowed), n, c)
    BY <2>1, HoldsStep
  <2>4. \E c \in 0..n : Holds(g[n], n, c)
    BY <2>2, <2>3
  <2>5. n \in 0..N
    BY <1>2
  <2> HIDE DEF N
  <2> QED BY <2>4, <2>5
<1>5. Inductive(N, T)
  <2> HIDE DEF T, N
  <2> QED BY <1>2, <1>3, <1>4 DEF Inductive
<1>6. N \in T
  <2> HIDE DEF T, N
  <2>1. N \in 0..N
    BY <1>2
  <2> QED BY <1>5, <2>1, Induction
<1>7. PICK d \in 0..Len(log) : Holds(Kept, Len(log), d)
  BY <1>1, <1>6
<1> QED BY <1>7, HeldIsNewest

(***************************************************************************)
(* Spec => []BufferIsNewest: whatever the connection does, the buffer of   *)
(* the client holds the newest of what was recorded, as much of it as fits *)
(* both bounds, behind the marker if something was dropped (trimLocked,    *)
(* model/events.go).                                                       *)
(***************************************************************************)
THEOREM BufferCorrect == Spec => []BufferIsNewest
<1>1. LInv => BufferIsNewest
  <2> SUFFICES ASSUME LInv PROVE BufferIsNewest
    OBVIOUS
  <2>1. log \in Seq(Message \cup {HistoryGapMarker})
    BY DEF LInv, TypeOK
  <2>2. log \in Seq(Entry)
    BY <2>1 DEF Entry
  <2> QED BY <2>2, KeptIsNewest
<1> QED BY <1>1, LiveInvariance, PTL


===============================================================================
