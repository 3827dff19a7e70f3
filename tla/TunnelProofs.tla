----------------------------- MODULE TunnelProofs -----------------------------
(***************************************************************************)
(* Proofs about Tunnel: for any number of browser connections and any      *)
(* capacity of the channel of events, what Close has waited for when it    *)
(* reports that the tunnel is closed.  And about TunnelScreen: for any     *)
(* number of tunnels, ports, starts and closes, what the screen believes.  *)
(***************************************************************************)
EXTENDS Tunnel, TunnelScreen, TLAPS

-----------------------------------------------------------------------------
(* Tunnel *)

\* IInv holds in every state.  ShutdownIsComplete needs ClosedSoFar, because
\* wg.Wait tells nothing of the listener, and Places, because it tells nothing
\* of the streams; it is then what shows that the two goroutines Close could
\* still meet on the channel, acceptLoop and a relay, are gone.
THEOREM Invariance == Spec => []IInv
<1> USE DEF Goroutine, Status, Busy, channel, remote, At, Goto, StartEmit, Seen, Closing
<1>1. Init => IInv
  <2> SUFFICES ASSUME Init PROVE IInv
    OBVIOUS
  <2> USE TunnelAssumption DEF Init
  <2>1. pc[Acceptor] = "accept" /\ pc[Closer] = "open" /\ \A r \in Relay : pc[r] = "none"
    OBVIOUS
  <2>2. TypeOK
    <3>1. pc \in [Goroutine -> Busy \cup {"none", "accept", "open", "close_listener", "wait",
                                       "close_events", "done"}]
      OBVIOUS
    <3>2. events \in Seq(Status) /\ Len(events) <= Buffer
      OBVIOUS
    <3> QED
      BY <3>1, <3>2 DEF TypeOK
  <2>3. Places
    BY <2>1 DEF Places
  <2>4. ClosedSoFar /\ ShutdownIsComplete /\ NoSendAfterClose
    BY <2>1 DEF ClosedSoFar, ShutdownIsComplete, NoSendAfterClose
  <2> QED
    BY <2>2, <2>3, <2>4 DEF IInv
<1>2. IInv /\ [Next]_vars => IInv'
  <2> SUFFICES ASSUME IInv, [Next]_vars PROVE IInv'
    OBVIOUS
  <2> USE DEF IInv, TypeOK, Places, ClosedSoFar, ShutdownIsComplete, NoSendAfterClose
  <2>1. ASSUME NEW g \in Goroutine, SetStatus(g) PROVE IInv'
    BY <2>1, TunnelAssumption DEF SetStatus
  <2>2. ASSUME NEW g \in Goroutine, Send(g) PROVE IInv'
    BY <2>2, TunnelAssumption DEF Send, AfterEmit, HasRoom
  <2>3. ASSUME Drain PROVE IInv'
    BY <2>3, TunnelAssumption DEF Drain
  <2>4. ASSUME AcceptFails PROVE IInv'
    BY <2>4, TunnelAssumption DEF AcceptFails
  <2>5. ASSUME NEW r \in Relay, Accept(r) PROVE IInv'
    BY <2>5, TunnelAssumption DEF Accept
  <2>6. ASSUME NEW r \in Relay, Dial(r) PROVE IInv'
    BY <2>6, TunnelAssumption DEF Dial
  <2>7. ASSUME NEW r \in Relay, DialFails(r) PROVE IInv'
    BY <2>7, TunnelAssumption DEF DialFails
  <2>8. ASSUME NEW r \in Relay, Selected(r) PROVE IInv'
    BY <2>8, TunnelAssumption DEF Selected
  <2>9. ASSUME NEW r \in Relay, SelectFails(r) PROVE IInv'
    BY <2>9, TunnelAssumption DEF SelectFails
  <2>10. ASSUME NEW r \in Relay, CopyEnds(r) PROVE IInv'
    BY <2>10, TunnelAssumption DEF CopyEnds
  <2>11. ASSUME NEW r \in Relay, CopyFails(r) PROVE IInv'
    BY <2>11, TunnelAssumption DEF CopyFails
  <2>12. ASSUME NEW r \in Relay, CopyCancelled(r) PROVE IInv'
    BY <2>12, TunnelAssumption DEF CopyCancelled, Aborted
  <2>13. ASSUME NEW r \in Relay, Return(r) PROVE IInv'
    BY <2>13, TunnelAssumption DEF Return
  <2>14. ASSUME NEW r \in Relay, Refuse(r) PROVE IInv'
    BY <2>14, TunnelAssumption DEF Refuse
  <2>15. ASSUME NEW r \in Relay, NoRelaySet(r) PROVE IInv'
    BY <2>15, TunnelAssumption DEF NoRelaySet
  <2>16. ASSUME NEW r \in Relay, Select(r) PROVE IInv'
    BY <2>16, TunnelAssumption DEF Select
  <2>17. ASSUME NEW r \in Relay, KismetConnects(r) PROVE IInv'
    BY <2>17, TunnelAssumption DEF KismetConnects
  <2>18. ASSUME NEW r \in Relay, KismetFails(r) PROVE IInv'
    BY <2>18, TunnelAssumption DEF KismetFails
  <2>19. ASSUME NEW r \in Relay, ServeEnds(r) PROVE IInv'
    BY <2>19, TunnelAssumption DEF ServeEnds, StreamDone
  <2>20. ASSUME NEW r \in Relay, KismetEnds(r) PROVE IInv'
    BY <2>20, TunnelAssumption DEF KismetEnds
  <2>21. ASSUME NEW r \in Relay, Break(r) PROVE IInv'
    BY <2>21, TunnelAssumption DEF Break
  <2>22. ASSUME CancelContext PROVE IInv'
    BY <2>22, TunnelAssumption DEF CancelContext
  <2>23. ASSUME Cancel PROVE IInv'
    BY <2>23, TunnelAssumption DEF Cancel
  <2>24. ASSUME CloseListener PROVE IInv'
    BY <2>24, TunnelAssumption DEF CloseListener
  <2>25. ASSUME Wait PROVE IInv'
    BY <2>25, TunnelAssumption DEF Wait, Waited
  <2>26. ASSUME CloseEvents PROVE IInv'
    BY <2>26, TunnelAssumption DEF CloseEvents
  <2>27. CASE UNCHANGED vars
    BY <2>27, TunnelAssumption DEF vars
  <2> QED
    BY <2>1, <2>2, <2>3, <2>4, <2>5, <2>6, <2>7, <2>8, <2>9, <2>10,
       <2>11, <2>12, <2>13, <2>14, <2>15, <2>16, <2>17, <2>18, <2>19, <2>20,
       <2>21, <2>22, <2>23, <2>24, <2>25, <2>26, <2>27 DEF Next
<1> QED
  BY <1>1, <1>2, PTL DEF Spec

\* The types of the tunnel (Start, relay, emit, Close and the agent's handler).
THEOREM TypeCorrect == Spec => []TypeOK
BY Invariance, PTL DEF IInv

\* When Close reports "closed" nobody accepts, no relay is left, and every stream
\* is closed (Tunnel.Close, tunnel.go:156-165).
THEOREM ShutdownCorrect == Spec => []ShutdownIsComplete
BY Invariance, PTL DEF IInv

\* Nobody sends on the closed channel of events (emit and Close, tunnel.go:129-165).
THEOREM SendCorrect == Spec => []NoSendAfterClose
BY Invariance, PTL DEF IInv

-----------------------------------------------------------------------------
(* TunnelScreen *)

LEMMA InitScreen == ScreenInit => ScreenInv
<1> SUFFICES ASSUME ScreenInit PROVE ScreenInv
  OBVIOUS
<1> USE TunnelScreenAssumption DEF ScreenInit
<1>1. AnyHandle \in Handle
  BY DEF AnyHandle
<1>2. /\ tunnel \in [Handle -> {"none", "open", "closing", "closed"}]
      /\ port \in [Handle -> Port \cup {Ephemeral}]
  OBVIOUS
<1>3. /\ starts \in [Port -> 0..MaxStarts] /\ closers \in [Handle -> 0..MaxCloses]
      /\ quitters \in [Handle -> 0..MaxCloses]
      /\ closes \in 0..MaxCloses /\ closedMsgs \in Nat
  OBVIOUS
<1>4. ScreenTypeOK
  BY <1>1, <1>2, <1>3 DEF ScreenTypeOK
<1>5. ClosersCounted /\ OpenIsDrained /\ ShownIsDrained
  BY DEF ClosersCounted, OpenIsDrained, ShownIsDrained
<1> QED BY <1>4, <1>5 DEF ScreenInv

\* A tunnelCloseCmd is started, of the screen's tunnel or of the one the
\* confirmation kept.
LEMMA CountStep ==
  ASSUME ScreenInv, PressClose \/ Confirm
  PROVE  /\ closers' \in [Handle -> 0..MaxCloses] /\ quitters' \in [Handle -> 0..MaxCloses]
         /\ closes' \in 0..MaxCloses
         /\ ClosersCounted'
<1>1. /\ closers \in [Handle -> 0..MaxCloses] /\ quitters \in [Handle -> 0..MaxCloses]
      /\ closes \in 0..MaxCloses /\ MaxCloses \in Nat
      /\ closes < MaxCloses /\ closes' = closes + 1
      /\ \A u \in Handle : closers[u] <= closes /\ quitters[u] <= closes
  BY TunnelScreenAssumption
     DEF ScreenInv, ScreenTypeOK, ClosersCounted, PressClose, Confirm, CountClose
<1>2. closes' \in 0..MaxCloses
  BY <1>1
<1>3. CASE PressClose
  <2>1. closers' = [closers EXCEPT ![handle] = @ + 1] /\ quitters' = quitters
    BY <1>3 DEF PressClose
  <2>2. \A u \in Handle : /\ closers'[u] \in 0..MaxCloses /\ closers'[u] <= closes'
                          /\ quitters'[u] <= closes'
    BY <1>1, <2>1
  <2> QED BY <1>1, <1>2, <2>1, <2>2 DEF ClosersCounted
<1>4. CASE Confirm
  <2>1. quitters' = [quitters EXCEPT ![quitHandle] = @ + 1] /\ closers' = closers
    BY <1>4 DEF Confirm
  <2>2. \A u \in Handle : /\ quitters'[u] \in 0..MaxCloses /\ quitters'[u] <= closes'
                          /\ closers'[u] <= closes'
    BY <1>1, <2>1
  <2> QED BY <1>1, <1>2, <2>1, <2>2 DEF ClosersCounted
<1> QED BY <1>3, <1>4

\* The start of a tunnel, up to its message.  A tunnel opens with its
\* tunnelStartedMsg under way, which is what begins to drain it.
LEMMA StartStep ==
  ASSUME ScreenInv, NEW p \in Port,
         PressStart(p) \/ StartFails(p) \/ \E t \in Handle : StartSucceeds(p, t)
  PROVE  ScreenInv'
<1> USE DEF ScreenInv, ScreenTypeOK
<1>1. UNCHANGED <<handle, running, closing, closers, quitters, drains, closedMsgs, closes,
                  asked, quitHandle, quit>>
  BY DEF PressStart, StartFails, StartSucceeds, screen, quitting
<1>2. starts' \in [Port -> 0..MaxStarts]
  BY TunnelScreenAssumption DEF PressStart, StartFails, StartSucceeds
<1>3. CASE PressStart(p) \/ StartFails(p)
  BY <1>1, <1>2, <1>3
     DEF PressStart, StartFails, ClosersCounted, OpenIsDrained, ShownIsDrained
<1>4. ASSUME NEW t \in Handle, StartSucceeds(p, t) PROVE ScreenInv'
  BY <1>1, <1>2, <1>4 DEF StartSucceeds, ClosersCounted, OpenIsDrained, ShownIsDrained
<1> QED BY <1>3, <1>4

\* A tunnelStartedMsg is received: the tunnel is drained from here on.
LEMMA StartedStep == ASSUME ScreenInv, NEW t \in Handle, RecvStarted(t) PROVE ScreenInv'
BY DEF ScreenInv, ScreenTypeOK, RecvStarted, Drained, quitting, ClosersCounted, OpenIsDrained,
       ShownIsDrained

\* Tunnel.Close goes on.
LEMMA CloseStep ==
  ASSUME ScreenInv, NEW t \in Handle, BeginClose(t) \/ EndClose(t) PROVE ScreenInv'
BY DEF ScreenInv, ScreenTypeOK, BeginClose, EndClose, screen, commands, quitting,
       ClosersCounted, OpenIsDrained, ShownIsDrained

\* A command that ends sends its message, and only a closed tunnel's drain ends.
LEMMA EndStep ==
  ASSUME ScreenInv, NEW t \in Handle,
         CloserEnds(t) \/ QuitCloserEnds(t) \/ DrainEnds(t)
  PROVE  ScreenInv'
<1> USE DEF ScreenInv, ScreenTypeOK
<1>1. /\ UNCHANGED <<tunnel, port, handle, running, closing, starts, started, closes, asked,
                   quitHandle>>
      /\ closedMsgs' = closedMsgs + 1 /\ tunnel[t] = "closed"
      /\ quit' \in {"no", "sent", "ended"}
  BY DEF CloserEnds, QuitCloserEnds, DrainEnds, Sent, screen, quitting
<1>2. closedMsgs' \in Nat /\ closedMsgs' > 0
  BY <1>1
<1>3. /\ closers' \in [Handle -> 0..MaxCloses] /\ quitters' \in [Handle -> 0..MaxCloses]
      /\ \A u \in Handle : closers'[u] <= closers[u] /\ quitters'[u] <= quitters[u]
  <2>1. CASE CloserEnds(t)
    BY <2>1, TunnelScreenAssumption DEF CloserEnds
  <2>2. CASE QuitCloserEnds(t)
    BY <2>2, TunnelScreenAssumption DEF QuitCloserEnds
  <2>3. CASE DrainEnds(t)
    BY <2>3, TunnelScreenAssumption DEF DrainEnds
  <2> QED BY <2>1, <2>2, <2>3
<1>4. ClosersCounted'
  <2>1. /\ closers \in [Handle -> 0..MaxCloses] /\ quitters \in [Handle -> 0..MaxCloses]
        /\ closes \in 0..MaxCloses /\ MaxCloses \in Nat
        /\ closes' = closes
    BY <1>1, TunnelScreenAssumption
  <2> QED BY <1>3, <2>1 DEF ClosersCounted
<1>5. drains' \subseteq drains /\ \A u \in drains : u \in drains' \/ tunnel[u] = "closed"
  BY DEF CloserEnds, QuitCloserEnds, DrainEnds
<1>6. ScreenTypeOK'
  BY <1>1, <1>2, <1>3, <1>5
<1>7. OpenIsDrained' /\ ShownIsDrained'
  BY <1>1, <1>2, <1>5 DEF OpenIsDrained, ShownIsDrained
<1> QED BY <1>4, <1>6, <1>7

\* Every tunnelClosedMsg ends what the screen shows.
LEMMA ClosedStep == ASSUME ScreenInv, RecvClosed PROVE ScreenInv'
<1>1. closedMsgs' \in Nat /\ running' = FALSE /\ closing' = FALSE
  BY DEF ScreenInv, ScreenTypeOK, RecvClosed, StillRunning, AfterClosed
<1> QED
  BY <1>1 DEF ScreenInv, ScreenTypeOK, RecvClosed, quitting, ClosersCounted, OpenIsDrained,
             ShownIsDrained

\* The keys c and q, the answer to the confirmation and the end of the program.
LEMMA KeyStep ==
  ASSUME ScreenInv, PressClose \/ PressQuit \/ Confirm \/ Dismiss \/ RecvQuit PROVE ScreenInv'
<1> USE DEF ScreenInv, ScreenTypeOK
<1>1. /\ UNCHANGED <<tunnel, port, handle, running, starts, started, drains, closedMsgs>>
      /\ closing' \in BOOLEAN /\ asked' \in BOOLEAN /\ quit' \in {"no", "sent", "ended"}
      /\ quitHandle' \in Handle
  BY DEF PressClose, PressQuit, Confirm, Dismiss, RecvQuit, screen, commands, quitting
<1>2. /\ closers' \in [Handle -> 0..MaxCloses] /\ quitters' \in [Handle -> 0..MaxCloses]
      /\ closes' \in 0..MaxCloses
      /\ ClosersCounted'
  <2>1. CASE PressClose \/ Confirm
    BY <2>1, CountStep
  <2>2. CASE PressQuit \/ Dismiss \/ RecvQuit
    BY <2>2 DEF PressQuit, Dismiss, RecvQuit, commands, ClosersCounted
  <2> QED BY <2>1, <2>2
<1> QED BY <1>1, <1>2 DEF OpenIsDrained, ShownIsDrained

\* ScreenInv holds in every state.  ShownIsOpen needs OpenIsDrained's counterpart
\* for the tunnel that is shown, because only its drain, or a message, tells the
\* screen that it has ended.
THEOREM ScreenInvariance == ScreenSpec => []ScreenInv
<1>1. ScreenInv /\ [ScreenNext]_screenVars => ScreenInv'
  <2> SUFFICES ASSUME ScreenInv, [ScreenNext]_screenVars PROVE ScreenInv'
    OBVIOUS
  <2>1. CASE UNCHANGED screenVars
    BY <2>1 DEF ScreenInv, ScreenTypeOK, ClosersCounted, OpenIsDrained, ShownIsDrained,
                screenVars, screen, commands, quitting
  <2> QED
    BY <2>1, StartStep, StartedStep, CloseStep, EndStep, ClosedStep, KeyStep DEF ScreenNext
<1> QED BY <1>1, InitScreen, PTL DEF ScreenSpec

\* The types of the screen, its commands and its messages.
THEOREM ScreenTypeCorrect == ScreenSpec => []ScreenTypeOK
<1> QED BY ScreenInvariance, PTL DEF ScreenInv

\* Every open tunnel is drained or about to be: the events of none are dropped
\* because nobody reads them (drainTunnelCmd; the comment at tunnel.go:17-19).
THEOREM DrainCorrect == ScreenSpec => []OpenIsDrained
<1> QED BY ScreenInvariance, PTL DEF ScreenInv

\* Once things have settled the screen never shows a tunnel that is gone
\* (tunnelClosedMsg, tunnel.go:122-125).
THEOREM ShownCorrect == ScreenSpec => []ShownIsOpen
<1>1. ScreenInv => ShownIsOpen
  BY DEF ScreenInv, ScreenTypeOK, ShownIsDrained, ShownIsOpen, Quiet
<1> QED BY <1>1, ScreenInvariance, PTL

===============================================================================
