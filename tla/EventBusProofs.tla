--------------------------- MODULE EventBusProofs ---------------------------
(***************************************************************************)
(* Proofs about EventBus, for every set of subscriptions, window size,     *)
(* channel slack and number of events.                                     *)
(***************************************************************************)
EXTENDS EventBus, TLAPS, FiniteSetTheorems, SequenceTheorems

\* What the cut of Publish keeps of a sequence: its last MaxEvents elements.
LEMMA NewestIsSuffix ==
    ASSUME NEW S, NEW events \in Seq(S)
    PROVE  /\ Newest(events) \in Seq(S)
           /\ Len(Newest(events)) =
                  IF Len(events) > MaxEvents THEN MaxEvents ELSE Len(events)
           /\ \A i \in 1..Len(Newest(events)) :
                  Newest(events)[i] = events[Len(events) - Len(Newest(events)) + i]
<1> DEFINE m == Len(events) - MaxEvents + 1
<1>1. MaxEvents \in Nat \ {0} /\ Len(events) \in Nat
  BY BusAssumption
<1>2. CASE Len(events) > MaxEvents
  <2>1. Newest(events) = SubSeq(events, m, Len(events))
    BY <1>2 DEF Newest
  <2>2. m \in Int /\ m >= 1 /\ m <= Len(events)
    BY <1>1, <1>2
  <2>3. \A i \in m..Len(events) : events[i] \in S
    BY <2>2, ElementOfSeq
  <2>4. /\ SubSeq(events, m, Len(events)) \in Seq(S)
        /\ Len(SubSeq(events, m, Len(events))) = Len(events) - m + 1
        /\ \A i \in 1..(Len(events) - m + 1) :
               SubSeq(events, m, Len(events))[i] = events[m + i - 1]
    BY <1>1, <2>2, <2>3, SubSeqProperties
  <2> HIDE DEF m
  <2>5. Len(events) - m + 1 = MaxEvents
    BY <1>1 DEF m
  <2>6. \A i \in Int : m + i - 1 = Len(events) - MaxEvents + i
    BY <1>1 DEF m
  <2>7. Newest(events) \in Seq(S) /\ Len(Newest(events)) = MaxEvents
    BY <2>1, <2>4, <2>5
  <2>8. \A i \in 1..MaxEvents :
            Newest(events)[i] = events[Len(events) - MaxEvents + i]
    BY <1>1, <2>1, <2>4, <2>5, <2>6
  <2> QED
    BY <1>2, <2>7, <2>8
<1>3. CASE ~(Len(events) > MaxEvents)
  <2>1. Newest(events) = events
    BY <1>3 DEF Newest
  <2> QED
    BY <1>1, <1>3, <2>1
<1> QED
  BY <1>2, <1>3

\* The number of positions 1..k of a sequence.
LEMMA CountToK ==
    ASSUME NEW k \in Nat
    PROVE  Cardinality(1..k) = k
<1>1. Cardinality(1..k) = IF 1 > k THEN 0 ELSE k - 1 + 1
  BY FS_Interval, 1 \in Int, k \in Int
<1> QED
  BY <1>1

\* The backlog of a cursor Subscribe accepts: every event after it, in order.
LEMMA BacklogIsContiguous ==
    ASSUME TypeOK, RetainedIsNewest,
           NEW after \in 0..MaxSequence, ~HistoryGap(after)
    PROVE  /\ after <= nextSequence
           /\ Backlog(after) \in Seq(SequenceNumber)
           /\ Len(Backlog(after)) = nextSequence - after
           /\ \A i \in 1..Len(Backlog(after)) : Backlog(after)[i] = after + i
<1> DEFINE L == Len(retained)
           k == after - nextSequence + L
           older == {i \in 1..L : retained[i] <= after}
<1>1. /\ MaxEvents \in Nat \ {0} /\ MaxSequence \in Nat
      /\ nextSequence \in Nat /\ after \in Nat /\ L \in Nat
      /\ retained \in Seq(SequenceNumber)
  BY BusAssumption DEF TypeOK
<1>2. after <= nextSequence
  BY <1>1 DEF HistoryGap
<1>3. /\ L = IF nextSequence < MaxEvents THEN nextSequence ELSE MaxEvents
      /\ \A i \in 1..L : retained[i] = nextSequence - L + i
  BY DEF RetainedIsNewest
<1>4. k \in Nat /\ k <= L
  <2>1. CASE L = 0
    BY <1>1, <1>2, <1>3, <2>1
  <2>2. CASE L > 0
    <3>1. retained[1] = nextSequence - L + 1
      BY <1>1, <1>3, <2>2
    <3>2. ~(after + 1 < retained[1])
      BY <2>2 DEF HistoryGap
    <3> QED
      BY <1>1, <1>2, <3>1, <3>2
  <2> QED
    BY <1>1, <2>1, <2>2
<1>5. older = 1..k
  BY <1>1, <1>3, <1>4
<1>6. Cardinality(older) = k
  <2> HIDE DEF k, older
  <2>1. Cardinality(1..k) = k
    BY <1>4, CountToK
  <2> QED
    BY <1>5, <2>1
<1>7. Backlog(after) = SubSeq(retained, k + 1, L)
  BY <1>6 DEF Backlog
<1> HIDE DEF k, older
<1>8. \A i \in (k + 1)..L : retained[i] \in SequenceNumber
  BY <1>1, <1>4, ElementOfSeq
<1>9. /\ Backlog(after) \in Seq(SequenceNumber)
      /\ Len(Backlog(after)) = L - k
      /\ \A i \in 1..(L - k) : Backlog(after)[i] = retained[k + i]
  BY <1>1, <1>4, <1>7, <1>8, SubSeqProperties
<1>10. L - k = nextSequence - after
  BY <1>1 DEF k
<1>11. \A i \in 1..(L - k) : retained[k + i] = after + i
  <2> SUFFICES ASSUME NEW i \in 1..(L - k)
               PROVE  retained[k + i] = after + i
    OBVIOUS
  <2>1. k + i \in 1..L
    BY <1>1, <1>4
  <2>2. retained[k + i] = nextSequence - L + (k + i)
    BY <1>3, <2>1
  <2> QED
    BY <1>1, <1>4, <2>2 DEF k
<1> QED
  BY <1>2, <1>9, <1>10, <1>11

-----------------------------------------------------------------------------
(* The inductive invariant *)

\* No event has been published and no subscription made.
LEMMA InitIInv == Init => IInv
<1> SUFFICES ASSUME Init PROVE IInv
  OBVIOUS
<1> USE BusAssumption DEF Init
<1>1. TypeOK
  BY DEF TypeOK, SequenceNumber
<1>2. RetainedIsNewest
  BY DEF RetainedIsNewest
<1>3. DeliveredInOrder /\ NothingElseLost /\ CursorPublished
  BY DEF DeliveredInOrder, NothingElseLost, CursorPublished
<1>4. FreshSubscriberMissesNothing /\ ChannelBounded
  BY DEF FreshSubscriberMissesNothing, ChannelBounded, Buffered
<1>5. ChannelAccount
  BY DEF ChannelAccount, Unused
<1> QED
  BY <1>1, <1>2, <1>3, <1>4, <1>5 DEF IInv

\* Publish numbers, retains and fans out one event.
LEMMA PublishIInv == IInv /\ Publish => IInv'
<1> SUFFICES ASSUME IInv, Publish PROVE IInv'
  OBVIOUS
<1> DEFINE event == nextSequence + 1
<1>1. /\ MaxEvents \in Nat \ {0} /\ Slack \in Nat /\ MaxSequence \in Nat
      /\ nextSequence \in Nat /\ event \in SequenceNumber
      /\ retained \in Seq(SequenceNumber)
      /\ sent \in [Sub -> Seq(SequenceNumber)]
      /\ taken \in [Sub -> Nat] /\ capacity \in [Sub -> Nat]
      /\ cursor \in [Sub -> 0..MaxSequence]
      /\ subscribedAt \in [Sub -> 0..MaxSequence]
      /\ missed \in [Sub -> SUBSET SequenceNumber]
  BY BusAssumption DEF IInv, TypeOK, SequenceNumber, Publish
<1>2. /\ nextSequence' = event
      /\ retained' = Newest(Append(retained, event))
      /\ UNCHANGED <<subs, closed, taken, capacity, cursor, subscribedAt>>
  BY DEF Publish, EventNumber
<1>3. \A s \in Sub :
          \/ /\ s \in subs /\ HasRoom(s)
             /\ sent'[s] = Append(sent[s], event) /\ missed'[s] = missed[s]
          \/ /\ s \in subs /\ ~HasRoom(s)
             /\ sent'[s] = sent[s] /\ missed'[s] = missed[s] \cup {event}
          \/ /\ s \notin subs /\ sent'[s] = sent[s] /\ missed'[s] = missed[s]
  BY DEF Publish, EventNumber
<1>4. \A s \in Sub :
          /\ sent[s] \in Seq(SequenceNumber)
          /\ Len(sent[s]) \in Nat
          /\ Append(sent[s], event) \in Seq(SequenceNumber)
          /\ Len(Append(sent[s], event)) = Len(sent[s]) + 1
          /\ \A i \in 1..Len(sent[s]) : Append(sent[s], event)[i] = sent[s][i]
          /\ Append(sent[s], event)[Len(sent[s]) + 1] = event
  BY <1>1, AppendProperties
<1>5. /\ Append(retained, event) \in Seq(SequenceNumber)
      /\ Len(Append(retained, event)) = Len(retained) + 1
      /\ Len(retained) \in Nat
      /\ \A i \in 1..Len(retained) : Append(retained, event)[i] = retained[i]
      /\ Append(retained, event)[Len(retained) + 1] = event
  BY <1>1, AppendProperties
<1>6. TypeOK'
  <2>1. retained' \in Seq(SequenceNumber)
    BY <1>2, <1>5, NewestIsSuffix
  <2>2. sent' \in [Sub -> Seq(SequenceNumber)]
    <3>1. sent' = [s \in Sub |-> sent'[s]]
      BY DEF Publish
    <3>2. \A s \in Sub : sent'[s] \in Seq(SequenceNumber)
      BY <1>3, <1>4
    <3> QED
      BY <3>1, <3>2
  <2>3. missed' \in [Sub -> SUBSET SequenceNumber]
    <3>1. missed' = [s \in Sub |-> missed'[s]]
      BY DEF Publish
    <3>2. \A s \in Sub : missed'[s] \in SUBSET SequenceNumber
      BY <1>1, <1>3
    <3> QED
      BY <3>1, <3>2
  <2>4. nextSequence' \in 0..MaxSequence
    BY <1>1, <1>2 DEF SequenceNumber
  <2> QED
    BY <1>2, <2>1, <2>2, <2>3, <2>4 DEF IInv, TypeOK
<1>7. RetainedIsNewest'
  <2> DEFINE grown == Append(retained, event)
             L == Len(retained)
             L2 == Len(Newest(grown))
  <2>1. /\ L = IF nextSequence < MaxEvents THEN nextSequence ELSE MaxEvents
        /\ \A i \in 1..L : retained[i] = nextSequence - L + i
    BY DEF IInv, RetainedIsNewest
  <2>2. /\ grown \in Seq(SequenceNumber) /\ Len(grown) = L + 1 /\ L \in Nat
        /\ \A i \in 1..L : grown[i] = retained[i]
        /\ grown[L + 1] = event
    BY <1>5
  <2>3. retained' = Newest(grown)
    BY <1>2
  <2> HIDE DEF grown, L
  <2>4. ASSUME NEW i \in 1..(L + 1)
        PROVE  grown[i] = nextSequence - L + i
    <3>1. CASE i \in 1..L
      BY <2>1, <2>2, <3>1
    <3>2. CASE i = L + 1
      <4>1. grown[i] = nextSequence + 1
        BY <2>2, <3>2
      <4> QED
        BY <1>1, <2>2, <3>2, <4>1
    <3> QED
      BY <2>2, <3>1, <3>2
  <2>5. /\ L2 = IF Len(grown) > MaxEvents THEN MaxEvents ELSE Len(grown)
        /\ \A i \in 1..L2 : Newest(grown)[i] = grown[Len(grown) - L2 + i]
    BY <2>2, NewestIsSuffix
  <2> HIDE DEF L2
  <2>6. L2 = IF event < MaxEvents THEN event ELSE MaxEvents
    BY <1>1, <2>1, <2>2, <2>5
  <2>7. \A i \in 1..L2 : retained'[i] = event - L2 + i
    <3> SUFFICES ASSUME NEW i \in 1..L2 PROVE retained'[i] = event - L2 + i
      OBVIOUS
    <3>1. L2 \in Nat /\ L2 <= L + 1
      BY <1>1, <2>2, <2>5
    <3>2. L + 1 - L2 + i \in 1..(L + 1)
      BY <2>2, <3>1
    <3>3. retained'[i] = grown[L + 1 - L2 + i]
      BY <2>2, <2>3, <2>5, <3>1
    <3>4. grown[L + 1 - L2 + i] = nextSequence - L + (L + 1 - L2 + i)
      BY <2>4, <3>2
    <3> QED
      BY <1>1, <2>2, <3>1, <3>3, <3>4
  <2> QED
    BY <1>2, <2>3, <2>6, <2>7 DEF RetainedIsNewest, L2
<1>8. DeliveredInOrder'
  <2> SUFFICES ASSUME NEW s \in Sub, NEW i \in 1..Len(sent'[s])
               PROVE  /\ cursor[s] < sent'[s][i]
                      /\ sent'[s][i] <= event
                      /\ \A j \in 1..Len(sent'[s]) : i < j => sent'[s][i] < sent'[s][j]
    BY <1>2 DEF DeliveredInOrder
  <2>1. \A n \in 1..Len(sent[s]) :
            /\ cursor[s] < sent[s][n]
            /\ sent[s][n] <= nextSequence
            /\ sent[s][n] \in Nat
            /\ \A j \in 1..Len(sent[s]) : n < j => sent[s][n] < sent[s][j]
    <3>1. \A n \in 1..Len(sent[s]) : sent[s][n] \in SequenceNumber
      BY <1>4, ElementOfSeq
    <3> QED
      BY <1>1, <3>1 DEF IInv, DeliveredInOrder, SequenceNumber
  <2>2. CASE sent'[s] = sent[s]
    BY <1>1, <2>1, <2>2
  <2>3. CASE s \in subs /\ sent'[s] = Append(sent[s], event)
    <3>1. cursor[s] \in Nat /\ cursor[s] <= nextSequence
      <4>1. cursor[s] \in Nat
        BY <1>1
      <4>2. cursor[s] <= nextSequence
        BY <2>3 DEF IInv, CursorPublished
      <4> QED
        BY <4>1, <4>2
    <3>2. Len(sent'[s]) = Len(sent[s]) + 1
      BY <1>4, <2>3
    <3>3. CASE i = Len(sent[s]) + 1
      <4>1. sent'[s][i] = event
        BY <1>4, <2>3, <3>3
      <4> QED
        BY <1>1, <1>4, <3>1, <3>2, <3>3, <4>1
    <3>4. CASE i \in 1..Len(sent[s])
      <4>1. sent'[s][i] = sent[s][i]
        BY <1>4, <2>3, <3>4
      <4>2. \A j \in 1..Len(sent[s]) : sent'[s][j] = sent[s][j]
        BY <1>4, <2>3
      <4>3. sent'[s][Len(sent[s]) + 1] = event
        BY <1>4, <2>3
      <4>4. ASSUME NEW j \in 1..Len(sent'[s]), i < j
            PROVE  sent'[s][i] < sent'[s][j]
        <5>1. CASE j \in 1..Len(sent[s])
          <6>1. sent[s][i] < sent[s][j]
            BY <2>1, <3>4, <4>4, <5>1
          <6> QED
            BY <4>1, <4>2, <5>1, <6>1
        <5>2. CASE j = Len(sent[s]) + 1
          <6>1. sent[s][i] < event
            BY <1>1, <2>1, <3>4
          <6> QED
            BY <4>1, <4>3, <5>2, <6>1
        <5> QED
          BY <1>4, <3>2, <5>1, <5>2
      <4> QED
        BY <1>1, <2>1, <3>4, <4>1, <4>4
    <3> QED
      BY <1>4, <3>2, <3>3, <3>4
  <2> QED
    BY <1>3, <2>2, <2>3
<1>9. \A s \in Sub : \A q : WasSent(s, q) => WasSent(s, q)'
  <2> SUFFICES ASSUME NEW s \in Sub, NEW i \in 1..Len(sent[s])
               PROVE  \E j \in 1..Len(sent'[s]) : sent'[s][j] = sent[s][i]
    BY DEF WasSent
  <2> QED
    BY <1>3, <1>4
<1>10. NothingElseLost'
  <2> SUFFICES ASSUME NEW s \in subs, NEW q \in (cursor[s] + 1)..event
               PROVE  WasSent(s, q)' \/ q \in missed'[s]
    BY <1>2 DEF NothingElseLost
  <2>1. s \in Sub
    BY DEF IInv, TypeOK
  <2>2. CASE q = event
    <3>1. CASE HasRoom(s)
      <4>1. Len(sent'[s]) = Len(sent[s]) + 1 /\ sent'[s][Len(sent[s]) + 1] = event
        BY <1>3, <1>4, <2>1, <3>1
      <4>2. Len(sent[s]) + 1 \in 1..Len(sent'[s])
        BY <1>4, <2>1, <4>1
      <4> QED
        BY <2>2, <4>1, <4>2 DEF WasSent
    <3>2. CASE ~HasRoom(s)
      BY <1>3, <2>1, <2>2, <3>2
    <3> QED
      BY <3>1, <3>2
  <2>3. CASE q # event
    <3>1. q \in (cursor[s] + 1)..nextSequence
      BY <1>1, <2>1, <2>3
    <3>2. WasSent(s, q) \/ q \in missed[s]
      BY <3>1 DEF IInv, NothingElseLost
    <3> QED
      BY <1>3, <1>9, <2>1, <3>2
  <2> QED
    BY <2>2, <2>3
<1>11. ASSUME NEW s \in Sub
       PROVE  /\ s \in Unused => /\ sent[s] = <<>> /\ taken[s] = 0
                                 /\ capacity[s] = 0 /\ missed[s] = {}
              /\ s \notin Unused =>
                     /\ subscribedAt[s] <= nextSequence
                     /\ Len(sent[s]) + Slack <= capacity[s] + nextSequence - subscribedAt[s]
              /\ 0 <= Len(sent[s]) - taken[s]
              /\ Len(sent[s]) - taken[s] <= capacity[s]
              /\ \A q \in missed[s] : q > subscribedAt[s] + Slack
              /\ taken[s] \in Nat /\ capacity[s] \in Nat /\ subscribedAt[s] \in Nat
              /\ Len(sent[s]) \in Nat
  <2>1. taken[s] \in Nat /\ capacity[s] \in Nat /\ subscribedAt[s] \in Nat
    BY <1>1
  <2>2. Len(sent[s]) \in Nat
    BY <1>4
  <2> QED
    BY <1>1, <2>1, <2>2
       DEF IInv, ChannelAccount, ChannelBounded, FreshSubscriberMissesNothing, Buffered
<1>12. FreshSubscriberMissesNothing'
  <2> SUFFICES ASSUME NEW s \in Sub, NEW q \in missed'[s]
               PROVE  q > subscribedAt[s] + Slack
    BY <1>2 DEF FreshSubscriberMissesNothing
  <2>1. CASE q \in missed[s]
    BY <1>11, <2>1
  <2>2. CASE q \notin missed[s]
    <3>1. s \in subs /\ ~HasRoom(s) /\ q = event
      BY <1>3, <2>2
    <3>2. s \notin Unused
      BY <3>1 DEF Unused
    <3>3. ~(Len(sent[s]) - taken[s] < capacity[s])
      BY <3>1 DEF HasRoom, Buffered
    <3> QED
      BY <1>1, <1>11, <3>1, <3>2, <3>3
  <2> QED
    BY <2>1, <2>2
<1>13. ChannelBounded'
  <2> SUFFICES ASSUME NEW s \in Sub
               PROVE  Len(sent'[s]) - taken[s] \in 0..capacity[s]
    BY <1>2 DEF ChannelBounded, Buffered
  <2>1. CASE sent'[s] = sent[s]
    BY <1>11, <2>1
  <2>2. CASE HasRoom(s) /\ sent'[s] = Append(sent[s], event)
    <3>1. Len(sent[s]) - taken[s] < capacity[s]
      BY <2>2 DEF HasRoom, Buffered
    <3>2. Len(sent'[s]) = Len(sent[s]) + 1
      BY <1>4, <2>2
    <3> QED
      BY <1>11, <3>1, <3>2
  <2> QED
    BY <1>3, <2>1, <2>2
<1>14. CursorPublished'
  <2> SUFFICES ASSUME NEW s \in subs PROVE cursor[s] <= event
    BY <1>2 DEF CursorPublished
  <2>1. cursor[s] <= nextSequence
    BY DEF IInv, CursorPublished
  <2>2. cursor[s] \in Nat
    BY <1>1 DEF IInv, TypeOK
  <2> QED
    BY <1>1, <2>1, <2>2
<1>15. ChannelAccount'
  <2>1. Unused' = Unused
    BY <1>2 DEF Unused
  <2> SUFFICES ASSUME NEW s \in Sub
               PROVE  IF s \in Unused
                      THEN sent'[s] = <<>> /\ taken[s] = 0 /\ capacity[s] = 0 /\ missed'[s] = {}
                      ELSE /\ subscribedAt[s] <= event
                           /\ Len(sent'[s]) + Slack <= capacity[s] + event - subscribedAt[s]
    BY <1>2, <2>1 DEF ChannelAccount
  <2>2. CASE s \in Unused
    <3>1. s \notin subs
      BY <2>2 DEF Unused
    <3> QED
      BY <1>3, <1>11, <2>2, <3>1
  <2>3. CASE s \notin Unused
    <3>1. Len(sent'[s]) = Len(sent[s]) \/ Len(sent'[s]) = Len(sent[s]) + 1
      BY <1>3, <1>4
    <3>2. /\ subscribedAt[s] <= nextSequence
          /\ Len(sent[s]) + Slack <= capacity[s] + nextSequence - subscribedAt[s]
      BY <1>11, <2>3
    <3>3. /\ subscribedAt[s] \in Nat /\ capacity[s] \in Nat /\ Len(sent[s]) \in Nat
          /\ nextSequence \in Nat /\ Slack \in Nat
      BY <1>1, <1>11
    <3>4. subscribedAt[s] <= event
      BY <3>2, <3>3
    <3>5. CASE Len(sent'[s]) = Len(sent[s])
      <4>1. Len(sent[s]) + Slack <= capacity[s] + event - subscribedAt[s]
        BY <3>2, <3>3
      <4> QED
        BY <2>3, <3>4, <3>5, <4>1
    <3>6. CASE Len(sent'[s]) = Len(sent[s]) + 1
      <4>1. (Len(sent[s]) + 1) + Slack <= capacity[s] + event - subscribedAt[s]
        BY <3>2, <3>3
      <4> QED
        BY <2>3, <3>4, <3>6, <4>1
    <3> QED
      BY <3>1, <3>5, <3>6
  <2> QED
    BY <2>2, <2>3
<1> QED
  BY <1>6, <1>7, <1>8, <1>10, <1>12, <1>13, <1>14, <1>15 DEF IInv

\* Subscribe opens a channel filled with the backlog of its cursor.
LEMMA SubscribeIInv ==
    ASSUME IInv, NEW s \in Sub, NEW after \in 0..MaxSequence, Subscribe(s, after)
    PROVE  IInv'
<1> DEFINE backlog == Backlog(after)
<1>1. /\ MaxEvents \in Nat \ {0} /\ Slack \in Nat /\ MaxSequence \in Nat
      /\ nextSequence \in Nat /\ after \in Nat
      /\ sent \in [Sub -> Seq(SequenceNumber)]
      /\ taken \in [Sub -> Nat] /\ capacity \in [Sub -> Nat]
      /\ cursor \in [Sub -> 0..MaxSequence]
      /\ subscribedAt \in [Sub -> 0..MaxSequence]
      /\ missed \in [Sub -> SUBSET SequenceNumber]
      /\ nextSequence \in 0..MaxSequence
  BY BusAssumption DEF IInv, TypeOK
<1>2. /\ after <= nextSequence
      /\ backlog \in Seq(SequenceNumber)
      /\ Len(backlog) = nextSequence - after
      /\ \A i \in 1..Len(backlog) : backlog[i] = after + i
  BY BacklogIsContiguous DEF IInv, Subscribe
<1>3. /\ s \in Unused
      /\ subs' = subs \cup {s}
      /\ UNCHANGED <<nextSequence, retained, closed, taken, missed>>
  BY DEF Subscribe
<1>4. /\ sent'[s] = backlog
      /\ capacity'[s] = Len(backlog) + Slack
      /\ cursor'[s] = after
      /\ subscribedAt'[s] = nextSequence
  BY <1>1 DEF Subscribe, ChannelCapacity
<1>5. \A t \in Sub : t # s => /\ sent'[t] = sent[t]
                              /\ capacity'[t] = capacity[t]
                              /\ cursor'[t] = cursor[t]
                              /\ subscribedAt'[t] = subscribedAt[t]
  BY <1>1 DEF Subscribe
<1> HIDE DEF backlog
<1>6. /\ taken[s] = 0 /\ missed[s] = {} /\ s \notin subs
      /\ Len(backlog) \in Nat /\ s \in subs' /\ s \notin Unused'
      /\ \A t \in Sub : t # s => (t \in Unused' <=> t \in Unused)
  BY <1>2, <1>3 DEF IInv, ChannelAccount, Unused
<1>7. TypeOK'
  <2>1. /\ sent' \in [Sub -> Seq(SequenceNumber)]
        /\ capacity' \in [Sub -> Nat]
        /\ cursor' \in [Sub -> 0..MaxSequence]
        /\ subscribedAt' \in [Sub -> 0..MaxSequence]
    <3>1. /\ sent' = [sent EXCEPT ![s] = backlog]
          /\ capacity' = [capacity EXCEPT ![s] = Len(backlog) + Slack]
          /\ cursor' = [cursor EXCEPT ![s] = after]
          /\ subscribedAt' = [subscribedAt EXCEPT ![s] = nextSequence]
      BY DEF Subscribe, ChannelCapacity, backlog
    <3>2. Len(backlog) + Slack \in Nat
      BY <1>1, <1>6
    <3> QED
      BY <1>1, <1>2, <3>1, <3>2
  <2> QED
    BY <1>3, <2>1 DEF IInv, TypeOK
<1>8. RetainedIsNewest'
  BY <1>3 DEF IInv, RetainedIsNewest
<1>9. DeliveredInOrder'
  <2> SUFFICES ASSUME NEW t \in Sub, NEW i \in 1..Len(sent'[t])
               PROVE  /\ cursor'[t] < sent'[t][i]
                      /\ sent'[t][i] <= nextSequence
                      /\ \A j \in 1..Len(sent'[t]) : i < j => sent'[t][i] < sent'[t][j]
    BY <1>3 DEF DeliveredInOrder
  <2>1. CASE t = s
    <3>1. sent'[t] = backlog /\ cursor'[t] = after /\ i \in 1..(nextSequence - after)
      BY <1>2, <1>4, <2>1
    <3>2. \A j \in 1..(nextSequence - after) : backlog[j] = after + j
      BY <1>2
    <3>3. \A j \in 1..(nextSequence - after) :
             after < after + j /\ after + j <= nextSequence /\ (i < j => after + i < after + j)
      BY <1>1, <1>2, <3>1
    <3>4. Len(sent'[t]) = nextSequence - after
      BY <1>2, <3>1
    <3>5. \A j \in 1..(nextSequence - after) : i < j => backlog[i] < backlog[j]
      BY <3>1, <3>2, <3>3
    <3>6. after < backlog[i] /\ backlog[i] <= nextSequence
      BY <3>1, <3>2, <3>3
    <3> QED
      BY <3>1, <3>4, <3>5, <3>6
  <2>2. CASE t # s
    BY <1>5, <2>2 DEF IInv, DeliveredInOrder
  <2> QED
    BY <2>1, <2>2
<1>10. NothingElseLost'
  <2> SUFFICES ASSUME NEW t \in subs', NEW q \in (cursor'[t] + 1)..nextSequence
               PROVE  WasSent(t, q)' \/ q \in missed[t]
    BY <1>3 DEF NothingElseLost
  <2>1. CASE t = s
    <3>1. q - after \in 1..Len(sent'[s]) /\ after + (q - after) = q
      <4>1. q \in (after + 1)..nextSequence /\ Len(sent'[s]) = nextSequence - after
        BY <1>2, <1>4, <2>1
      <4> QED
        BY <1>1, <4>1
    <3>2. sent'[s][q - after] = q
      BY <1>2, <1>4, <3>1
    <3> QED
      BY <2>1, <3>1, <3>2 DEF WasSent
  <2>2. CASE t # s
    <3>1. t \in subs /\ t \in Sub
      BY <1>3, <2>2 DEF IInv, TypeOK
    <3>2. WasSent(t, q) \/ q \in missed[t]
      BY <1>5, <2>2, <3>1 DEF IInv, NothingElseLost
    <3> QED
      BY <1>5, <2>2, <3>1, <3>2 DEF WasSent
  <2> QED
    BY <2>1, <2>2
<1>11. FreshSubscriberMissesNothing'
  BY <1>3, <1>5, <1>6 DEF IInv, FreshSubscriberMissesNothing
<1>12. ChannelBounded'
  <2> SUFFICES ASSUME NEW t \in Sub
               PROVE  Len(sent'[t]) - taken[t] \in 0..capacity'[t]
    BY <1>3 DEF ChannelBounded, Buffered
  <2>1. CASE t = s
    BY <1>1, <1>4, <1>6, <2>1
  <2>2. CASE t # s
    BY <1>5, <2>2 DEF IInv, ChannelBounded, Buffered
  <2> QED
    BY <2>1, <2>2
<1>13. CursorPublished'
  <2> SUFFICES ASSUME NEW t \in subs' PROVE cursor'[t] <= nextSequence
    BY <1>3 DEF CursorPublished
  <2>1. CASE t = s
    BY <1>2, <1>4, <2>1
  <2>2. CASE t # s
    BY <1>3, <1>5, <2>2 DEF IInv, TypeOK, CursorPublished
  <2> QED
    BY <2>1, <2>2
<1>14. ChannelAccount'
  <2> SUFFICES ASSUME NEW t \in Sub
               PROVE  IF t \in Unused'
                      THEN sent'[t] = <<>> /\ taken[t] = 0 /\ capacity'[t] = 0 /\ missed[t] = {}
                      ELSE /\ subscribedAt'[t] <= nextSequence
                           /\ Len(sent'[t]) + Slack <= capacity'[t] + nextSequence - subscribedAt'[t]
    BY <1>3 DEF ChannelAccount
  <2>1. CASE t = s
    BY <1>1, <1>4, <1>6, <2>1
  <2>2. CASE t # s
    BY <1>5, <1>6, <2>2 DEF IInv, ChannelAccount
  <2> QED
    BY <2>1, <2>2
<1> QED
  BY <1>7, <1>8, <1>9, <1>10, <1>11, <1>12, <1>13, <1>14 DEF IInv

\* Receive takes one event that was sent.
LEMMA ReceiveIInv ==
    ASSUME IInv, NEW s \in Sub, Receive(s)
    PROVE  IInv'
<1>1. /\ taken \in [Sub -> Nat] /\ capacity \in [Sub -> Nat]
      /\ taken' = [taken EXCEPT ![s] = @ + 1]
      /\ Len(sent[s]) - taken[s] > 0
      /\ UNCHANGED <<nextSequence, retained, subs, closed, sent, capacity,
                     cursor, subscribedAt, missed>>
  BY DEF IInv, TypeOK, Receive, Buffered
<1>2. Len(sent[s]) \in Nat
  BY DEF IInv, TypeOK
<1>3. TypeOK'
  BY <1>1 DEF IInv, TypeOK
<1>4. RetainedIsNewest' /\ DeliveredInOrder' /\ FreshSubscriberMissesNothing'
  BY <1>1 DEF IInv, RetainedIsNewest, DeliveredInOrder, FreshSubscriberMissesNothing
<1>5. NothingElseLost' /\ CursorPublished'
  BY <1>1 DEF IInv, NothingElseLost, WasSent, CursorPublished
<1>6. ChannelBounded'
  <2> SUFFICES ASSUME NEW t \in Sub
               PROVE  Len(sent[t]) - taken'[t] \in 0..capacity[t]
    BY <1>1 DEF ChannelBounded, Buffered
  <2>1. Len(sent[t]) - taken[t] \in 0..capacity[t]
    BY DEF IInv, ChannelBounded, Buffered
  <2>2. CASE t = s
    BY <1>1, <1>2, <2>1, <2>2
  <2>3. CASE t # s
    BY <1>1, <2>1, <2>3
  <2> QED
    BY <2>2, <2>3
<1>7. ChannelAccount'
  <2>1. s \notin Unused
    <3> SUFFICES ASSUME s \in Unused PROVE FALSE
      OBVIOUS
    <3>1. sent[s] = <<>> /\ taken[s] = 0
      BY DEF IInv, ChannelAccount
    <3> QED
      BY <1>1, <3>1
  <2>2. Unused' = Unused
    BY <1>1 DEF Unused
  <2>3. \A t \in Unused : t \in Sub /\ taken'[t] = taken[t]
    BY <1>1, <2>1 DEF Unused
  <2> QED
    BY <1>1, <2>1, <2>2, <2>3 DEF IInv, ChannelAccount
<1> QED
  BY <1>3, <1>4, <1>5, <1>6, <1>7 DEF IInv

\* Unsubscribe closes a channel and leaves what is in it.
LEMMA UnsubscribeIInv ==
    ASSUME IInv, NEW s \in Sub, Unsubscribe(s)
    PROVE  IInv'
<1>1. /\ s \in subs /\ subs' = subs \ {s} /\ closed' = closed \cup {s}
      /\ UNCHANGED <<nextSequence, retained, sent, taken, capacity, cursor,
                     subscribedAt, missed>>
  BY DEF Unsubscribe, chanVars
<1>2. TypeOK' /\ RetainedIsNewest'
  BY <1>1 DEF IInv, TypeOK, RetainedIsNewest
<1>3. DeliveredInOrder' /\ FreshSubscriberMissesNothing' /\ ChannelBounded'
  BY <1>1 DEF IInv, DeliveredInOrder, FreshSubscriberMissesNothing, ChannelBounded,
              Buffered
<1>4. NothingElseLost' /\ CursorPublished'
  BY <1>1 DEF IInv, NothingElseLost, WasSent, CursorPublished
<1>5. ChannelAccount'
  <2>1. Unused' = Unused
    BY <1>1 DEF Unused
  <2> QED
    BY <1>1, <2>1 DEF IInv, ChannelAccount
<1> QED
  BY <1>2, <1>3, <1>4, <1>5 DEF IInv

-----------------------------------------------------------------------------
(* The theorems *)

\* The inductive invariant holds: initially, and through every operation of
\* the bus.
THEOREM Invariance == Spec => []IInv
<1>1. IInv /\ [Next]_vars => IInv'
  <2> SUFFICES ASSUME IInv, [Next]_vars PROVE IInv'
    OBVIOUS
  <2>1. CASE Publish
    BY <2>1, PublishIInv
  <2>2. ASSUME NEW s \in Sub, NEW after \in 0..MaxSequence, Subscribe(s, after)
        PROVE  IInv'
    BY <2>2, SubscribeIInv
  <2>3. ASSUME NEW s \in Sub, Receive(s)
        PROVE  IInv'
    BY <2>3, ReceiveIInv
  <2>4. ASSUME NEW s \in Sub, Unsubscribe(s)
        PROVE  IInv'
    BY <2>4, UnsubscribeIInv
  <2>5. CASE UNCHANGED vars
    <3>1. UNCHANGED <<nextSequence, retained, subs, closed, sent, taken, capacity,
                      cursor, subscribedAt, missed>>
      BY <2>5 DEF vars, chanVars
    <3> QED
      BY <3>1 DEF IInv, TypeOK, RetainedIsNewest, DeliveredInOrder, NothingElseLost,
                  WasSent, FreshSubscriberMissesNothing, ChannelBounded, Buffered,
                  CursorPublished, ChannelAccount, Unused
  <2> QED
    BY <2>1, <2>2, <2>3, <2>4, <2>5 DEF Next
<1> QED
  BY <1>1, InitIInv, PTL DEF Spec

\* Types are as declared, whatever sequence of calls is made.
THEOREM TypeCorrect == Spec => []TypeOK
<1>1. IInv => TypeOK
  BY DEF IInv
<1> QED
  BY <1>1, Invariance, PTL

\* The window Publish keeps is the newest events without a hole.
THEOREM WindowCorrect == Spec => []RetainedIsNewest
<1>1. IInv => RetainedIsNewest
  BY DEF IInv
<1> QED
  BY <1>1, Invariance, PTL

\* A channel carries events after its cursor, once each and in order.
THEOREM OrderCorrect == Spec => []DeliveredInOrder
<1>1. IInv => DeliveredInOrder
  BY DEF IInv
<1> QED
  BY <1>1, Invariance, PTL

\* The only events a live subscriber is not sent are those dropped because
\* its channel was full.
THEOREM LossCorrect == Spec => []NothingElseLost
<1>1. IInv => NothingElseLost
  BY DEF IInv
<1> QED
  BY <1>1, Invariance, PTL

\* A subscriber is never dropped an event before Slack events have been
\* published since it subscribed, however long its backlog.
THEOREM FreshCorrect == Spec => []FreshSubscriberMissesNothing
<1>1. IInv => FreshSubscriberMissesNothing
  BY DEF IInv
<1> QED
  BY <1>1, Invariance, PTL

\* No send on a channel, those of the backlog included, finds it full.
THEOREM ChannelCorrect == Spec => []ChannelBounded
<1>1. IInv => ChannelBounded
  BY DEF IInv
<1> QED
  BY <1>1, Invariance, PTL

\* Subscribe's test of the cursor is exact: it refuses what it cannot serve
\* and nothing else.
THEOREM GapCorrect == Spec => []GapExact
<1>1. IInv => GapExact
  <2> SUFFICES ASSUME IInv, NEW after \in 0..MaxSequence
               PROVE  HistoryGap(after) <=>
                          \/ after > nextSequence
                          \/ \E q \in (after + 1)..nextSequence : ~IsRetained(q)
    BY DEF GapExact
  <2> DEFINE L == Len(retained)
  <2>1. /\ MaxEvents \in Nat \ {0} /\ MaxSequence \in Nat
        /\ nextSequence \in Nat /\ after \in Nat /\ L \in Nat
    BY BusAssumption DEF IInv, TypeOK
  <2>2. /\ L = IF nextSequence < MaxEvents THEN nextSequence ELSE MaxEvents
        /\ \A i \in 1..L : retained[i] = nextSequence - L + i
    BY DEF IInv, RetainedIsNewest
  <2>3. L <= nextSequence /\ (L = 0 => nextSequence = 0)
    BY <2>1, <2>2
  <2>4. \A q \in Nat : IsRetained(q) <=> nextSequence - L < q /\ q <= nextSequence
    <3> SUFFICES ASSUME NEW q \in Nat
                 PROVE  IsRetained(q) <=> nextSequence - L < q /\ q <= nextSequence
      OBVIOUS
    <3>1. IsRetained(q) => nextSequence - L < q /\ q <= nextSequence
      BY <2>1, <2>2, <2>3 DEF IsRetained
    <3>2. ASSUME nextSequence - L < q, q <= nextSequence
          PROVE  IsRetained(q)
      <4>1. q - (nextSequence - L) \in 1..L
        BY <2>1, <2>3, <3>2
      <4>2. retained[q - (nextSequence - L)] = nextSequence - L + (q - (nextSequence - L))
        BY <2>2, <4>1
      <4>3. nextSequence - L + (q - (nextSequence - L)) = q
        BY <2>1
      <4> QED
        BY <4>1, <4>2, <4>3 DEF IsRetained
    <3> QED
      BY <3>1, <3>2
  <2>5. L > 0 => retained[1] = nextSequence - L + 1
    BY <2>1, <2>2
  <2>6. CASE after > nextSequence
    BY <2>6 DEF HistoryGap
  <2>7. CASE after <= nextSequence
    <3>1. CASE L = 0
      BY <2>1, <2>3, <2>7, <3>1 DEF HistoryGap
    <3>2. CASE L > 0
      <4>1. HistoryGap(after) <=> after + 1 < nextSequence - L + 1
        BY <2>1, <2>5, <2>7, <3>2 DEF HistoryGap
      <4>2. ASSUME after + 1 < nextSequence - L + 1
            PROVE  \E q \in (after + 1)..nextSequence : ~IsRetained(q)
        <5>1. after + 1 \in (after + 1)..nextSequence /\ ~(nextSequence - L < after + 1)
          BY <2>1, <3>2, <4>2
        <5> QED
          BY <2>1, <2>4, <5>1
      <4>3. ASSUME NEW q \in (after + 1)..nextSequence, ~IsRetained(q)
            PROVE  after + 1 < nextSequence - L + 1
        <5>1. q \in Nat /\ ~(nextSequence - L < q)
          BY <2>1, <2>4, <4>3
        <5> QED
          BY <2>1, <5>1
      <4> QED
        BY <2>1, <2>7, <4>1, <4>2, <4>3
    <3> QED
      BY <2>1, <3>1, <3>2
  <2> QED
    BY <2>1, <2>6, <2>7
<1> QED
  BY <1>1, Invariance, PTL

=============================================================================
