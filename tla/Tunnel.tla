-------------------------------- MODULE Tunnel --------------------------------
(***************************************************************************)
(* The Kismet tunnel: the listener and the relays on the laptop            *)
(* (bottle-tui/internal/tunnel) and, for each of their streams, the        *)
(* handler on the Pi (controlplane.Server.handle and                       *)
(* bottle-agent/internal/tunnel.Server.Serve).                             *)
(*                                                                         *)
(* Each browser connection has a relay goroutine of its own.  Bytes are    *)
(* left out: of a stream there is what its two ends can tell of it.        *)
(* Tunnel.emit is two steps, the status under the mutex and then the event *)
(* on the channel, and other goroutines may emit between the two.          *)
(***************************************************************************)
EXTENDS Naturals, Sequences

CONSTANTS
    Relay,     \* the browser connections there can be
    Acceptor,  \* the goroutine of acceptLoop
    Closer,    \* the caller of Close
    Buffer     \* capacity of the channel of events; 32 in the code

ASSUME TunnelAssumption ==
    /\ Acceptor \notin Relay /\ Closer \notin Relay /\ Acceptor # Closer
    /\ Buffer \in Nat \ {0}

VARIABLES
    cancelled,     \* the context of the tunnel is done
    listening,     \* the local listener is open
    pc,            \* where each goroutine is
    message,       \* the status each goroutine is emitting; "starting" outside emit
    status,        \* Tunnel.status
    events,        \* the channel of events: the status of each
    eventsClosed,  \* the channel is closed
    shown,         \* the status of the last event that was received
    wire,          \* what the laptop can tell of each stream
    handler        \* where the agent's goroutine for each stream is

channel == <<status, events, eventsClosed, shown>>
remote == <<wire, handler>>
vars == <<cancelled, listening, pc, message, channel, remote>>

Goroutine == Relay \cup {Acceptor, Closer}
Status == {"starting", "connected", "reconnecting", "closed"}

\* Start has emitted its event and started acceptLoop.
Init ==
    /\ cancelled = FALSE
    /\ listening = TRUE
    /\ pc = [g \in Goroutine |->
                IF g \in Relay THEN "none" ELSE IF g = Acceptor THEN "accept" ELSE "open"]
    /\ message = [g \in Goroutine |-> "starting"]
    /\ status = "starting"
    /\ events = <<"starting">>
    /\ eventsClosed = FALSE
    /\ shown = "starting"
    /\ wire = [r \in Relay |-> "none"]
    /\ handler = [r \in Relay |-> "none"]

-----------------------------------------------------------------------------
(* Events *)

At(g, label) == pc[g] = label
Goto(g, label) == pc' = [pc EXCEPT ![g] = label]

\* A goroutine calls emit.
StartEmit(g, s) ==
    /\ pc' = [pc EXCEPT ![g] = "emit"]
    /\ message' = [message EXCEPT ![g] = s]

\* Where a goroutine goes on after emit.
AfterEmit(g) ==
    IF g \in Relay
    THEN IF message[g] = "connected" THEN "copy" ELSE "return"
    ELSE IF g = Acceptor THEN "done" ELSE "close_events"

SetStatus(g) ==
    /\ At(g, "emit")
    /\ status' = message[g]
    /\ Goto(g, "send")
    /\ UNCHANGED <<cancelled, listening, message, events, eventsClosed, shown, remote>>

HasRoom == Len(events) < Buffer

\* Without a place in the channel the event is dropped.
Send(g) ==
    /\ At(g, "send")
    /\ events' = IF HasRoom THEN Append(events, message[g]) ELSE events
    /\ Goto(g, AfterEmit(g))
    /\ message' = [message EXCEPT ![g] = "starting"]
    /\ UNCHANGED <<cancelled, listening, status, eventsClosed, shown, remote>>

\* The goroutine that drains the channel.
Drain ==
    /\ events # <<>>
    /\ shown' = Head(events)
    /\ events' = Tail(events)
    /\ UNCHANGED <<cancelled, listening, pc, message, status, eventsClosed, remote>>

-----------------------------------------------------------------------------
(* acceptLoop *)

Accept(r) ==
    /\ At(Acceptor, "accept")
    /\ listening
    /\ At(r, "none")
    /\ Goto(r, "dial")
    /\ UNCHANGED <<cancelled, listening, message, channel, remote>>

\* An error of Accept ends the loop, also one of an open listener.
AcceptFails ==
    /\ At(Acceptor, "accept")
    /\ IF cancelled
       THEN Goto(Acceptor, "done") /\ UNCHANGED message
       ELSE StartEmit(Acceptor, "reconnecting")
    /\ UNCHANGED <<cancelled, listening, channel, remote>>

-----------------------------------------------------------------------------
(* relay, with MTLSStreamOpener.Open *)

\* Up to the end of the handshake Open heeds the context.
Dial(r) ==
    /\ At(r, "dial")
    /\ ~cancelled
    /\ Goto(r, "select")
    /\ wire' = [wire EXCEPT ![r] = "connected"]
    /\ handler' = [handler EXCEPT ![r] = "select"]
    /\ UNCHANGED <<cancelled, listening, message, channel>>

DialFails(r) ==
    /\ At(r, "dial")
    /\ StartEmit(r, "reconnecting")
    /\ UNCHANGED <<cancelled, listening, channel, remote>>

\* From then on it waits for the agent's answers, of which it sees only that of the
\* hello as a refusal: the second is decoded into the same struct, whose OK is still
\* true when the answer leaves it out.  A stream that the agent then ended was
\* accepted all the same.
Selected(r) ==
    /\ At(r, "select")
    /\ wire[r] \in {"accepted", "ended"}
    /\ StartEmit(r, "connected")
    /\ UNCHANGED <<cancelled, listening, channel, remote>>

SelectFails(r) ==
    /\ At(r, "select")
    /\ wire[r] \in {"refused", "broken"}
    /\ StartEmit(r, "reconnecting")
    /\ wire' = [wire EXCEPT ![r] = "closed"]
    /\ UNCHANGED <<cancelled, listening, channel, handler>>

\* The first of the two copies ends without an error: the browser closed its
\* connection, or the agent the stream.
CopyEnds(r) ==
    /\ At(r, "copy")
    /\ Goto(r, "return")
    /\ UNCHANGED <<cancelled, listening, message, channel, remote>>

\* Or with one: the stream broke, or the browser reset its connection.
CopyFails(r) ==
    /\ At(r, "copy")
    /\ StartEmit(r, "reconnecting")
    /\ UNCHANGED <<cancelled, listening, channel, remote>>

\* A definition whose name ends in _Fault is a faulty form of the one that
\* follows it, under which TLC finds the property named in its comment violated.

\* CloseReturns: "case <-t.ctx.Done()" is missing.
Aborted_Fault(r) == FALSE

\* The select of relay sees that the context is done.
Aborted(r) == cancelled

CopyCancelled(r) ==
    /\ At(r, "copy")
    /\ Aborted(r)
    /\ Goto(r, "return")
    /\ UNCHANGED <<cancelled, listening, message, channel, remote>>

\* The deferred Close of both connections, and wg.Done.
Return(r) ==
    /\ At(r, "return")
    /\ Goto(r, "done")
    /\ wire' = [wire EXCEPT ![r] = IF wire[r] = "none" THEN "none" ELSE "closed"]
    /\ UNCHANGED <<cancelled, listening, message, channel, handler>>

-----------------------------------------------------------------------------
(* Close *)

\* The caller's context is cancelled without Close.
CancelContext ==
    /\ cancelled' = TRUE
    /\ UNCHANGED <<listening, pc, message, channel, remote>>

Cancel ==
    /\ At(Closer, "open")
    /\ cancelled' = TRUE
    /\ Goto(Closer, "close_listener")
    /\ UNCHANGED <<listening, message, channel, remote>>

CloseListener ==
    /\ At(Closer, "close_listener")
    /\ listening' = FALSE
    /\ Goto(Closer, "wait")
    /\ UNCHANGED <<cancelled, message, channel, remote>>

\* ShutdownIsComplete, NoSendAfterClose, IInv: wg counts acceptLoop only.
Waited_Fault == At(Acceptor, "done")

\* wg.Wait() returns: acceptLoop and every relay it started are done.
Waited == At(Acceptor, "done") /\ \A r \in Relay : pc[r] \in {"none", "done"}

Wait ==
    /\ At(Closer, "wait")
    /\ Waited
    /\ StartEmit(Closer, "closed")
    /\ UNCHANGED <<cancelled, listening, channel, remote>>

CloseEvents ==
    /\ At(Closer, "close_events")
    /\ eventsClosed' = TRUE
    /\ Goto(Closer, "done")
    /\ UNCHANGED <<cancelled, listening, message, status, events, shown, remote>>

-----------------------------------------------------------------------------
(* The agent *)

\* What a stream looks like from the laptop after the agent did something to
\* it: a stream the laptop closed, or that broke, stays so.
Seen(r, what) ==
    wire' = IF wire[r] \in {"closed", "broken"} THEN wire ELSE [wire EXCEPT ![r] = what]

\* not_paired, in place of the answer to the hello.
Refuse(r) ==
    /\ handler[r] = "select"
    /\ Seen(r, "refused")
    /\ handler' = [handler EXCEPT ![r] = "done"]
    /\ UNCHANGED <<cancelled, listening, pc, message, channel>>

\* Listen serves before SetKismetTunnel: the agent answers that the tunnel is not
\* configured, without an OK, and closes the stream.
NoRelaySet(r) ==
    /\ handler[r] = "select"
    /\ Seen(r, "ended")
    /\ handler' = [handler EXCEPT ![r] = "done"]
    /\ UNCHANGED <<cancelled, listening, pc, message, channel>>

\* The agent answers OK before it connects to Kismet.  On a broken stream the
\* answer may or may not be an error.
Select(r) ==
    /\ handler[r] = "select"
    /\ Seen(r, "accepted")
    /\ \E next \in IF wire[r] = "connected" THEN {"kismet"} ELSE {"kismet", "done"} :
          handler' = [handler EXCEPT ![r] = next]
    /\ UNCHANGED <<cancelled, listening, pc, message, channel>>

KismetConnects(r) ==
    /\ handler[r] = "kismet"
    /\ handler' = [handler EXCEPT ![r] = "relay"]
    /\ UNCHANGED <<cancelled, listening, pc, message, channel, wire>>

\* Serve and handle return, which closes the stream.
KismetFails(r) ==
    /\ handler[r] = "kismet"
    /\ Seen(r, "ended")
    /\ handler' = [handler EXCEPT ![r] = "done"]
    /\ UNCHANGED <<cancelled, listening, pc, message, channel>>

\* AgentLetsGo: Serve waits for both copies.
StreamDone_Fault(r) == FALSE

\* The copy that reads the stream ends: the laptop closed it, or it broke.
StreamDone(r) == wire[r] \in {"closed", "broken"}

\* Either copy ends Serve.
ServeEnds(r) ==
    /\ handler[r] = "relay"
    /\ StreamDone(r)
    /\ handler' = [handler EXCEPT ![r] = "done"]
    /\ UNCHANGED <<cancelled, listening, pc, message, channel, wire>>

KismetEnds(r) ==
    /\ handler[r] = "relay"
    /\ Seen(r, "ended")
    /\ handler' = [handler EXCEPT ![r] = "done"]
    /\ UNCHANGED <<cancelled, listening, pc, message, channel>>

\* The connection is lost, or the agent with it.
Break(r) ==
    /\ wire[r] \in {"connected", "accepted"}
    /\ wire' = [wire EXCEPT ![r] = "broken"]
    /\ UNCHANGED <<cancelled, listening, pc, message, channel, handler>>

Next ==
    \/ \E g \in Goroutine : SetStatus(g) \/ Send(g)
    \/ Drain \/ AcceptFails
    \/ \E r \in Relay :
          \/ Accept(r) \/ Dial(r) \/ DialFails(r) \/ Selected(r) \/ SelectFails(r)
          \/ CopyEnds(r) \/ CopyFails(r) \/ CopyCancelled(r) \/ Return(r)
          \/ Refuse(r) \/ NoRelaySet(r) \/ Select(r) \/ KismetConnects(r) \/ KismetFails(r)
          \/ ServeEnds(r) \/ KismetEnds(r) \/ Break(r)
    \/ CancelContext \/ Cancel \/ CloseListener \/ Wait \/ CloseEvents

\* Goroutines run on, the agent answers, and Accept returns once the listener
\* is closed; nobody need end a copy, break a stream or call Close.
Fairness ==
    /\ \A g \in Goroutine : WF_vars(SetStatus(g)) /\ WF_vars(Send(g))
    /\ WF_vars(~listening /\ AcceptFails)
    /\ WF_vars(CloseListener) /\ WF_vars(Wait) /\ WF_vars(CloseEvents)
    /\ \A r \in Relay :
          /\ WF_vars(Dial(r) \/ DialFails(r)) /\ WF_vars(Selected(r) \/ SelectFails(r))
          /\ WF_vars(CopyCancelled(r)) /\ WF_vars(Return(r))
          /\ WF_vars(Refuse(r) \/ NoRelaySet(r) \/ Select(r))
          /\ WF_vars(KismetConnects(r) \/ KismetFails(r))
          /\ WF_vars(ServeEnds(r))

Spec == Init /\ [][Next]_vars
FairSpec == Spec /\ Fairness

-----------------------------------------------------------------------------
(* Correctness *)

Busy == {"dial", "select", "copy", "emit", "send", "return"}

\* Types of the tunnel.
TypeOK ==
    /\ cancelled \in BOOLEAN
    /\ listening \in BOOLEAN
    /\ pc \in [Goroutine -> Busy \cup {"none", "accept", "open", "close_listener", "wait",
                                       "close_events", "done"}]
    /\ message \in [Goroutine -> Status]
    /\ status \in Status
    /\ events \in Seq(Status) /\ Len(events) <= Buffer
    /\ eventsClosed \in BOOLEAN
    /\ shown \in Status
    /\ wire \in [Relay -> {"none", "connected", "accepted", "refused", "ended", "broken",
                           "closed"}]
    /\ handler \in [Relay -> {"none", "select", "kismet", "relay", "done"}]

\* Close has waited.
Closing == pc[Closer] \in {"emit", "send", "close_events", "done"}

\* "closed: shutdown is complete": from the moment Close has something to say of
\* it nobody accepts, no relay is left, and every stream is closed.
ShutdownIsComplete ==
    Closing =>
        /\ ~listening
        /\ At(Acceptor, "done")
        /\ \A r \in Relay : pc[r] \in {"none", "done"} /\ wire[r] \in {"none", "closed"}

\* Nobody sends on the channel after Close has closed it (a send would panic),
\* and the status stays closed.
NoSendAfterClose ==
    eventsClosed => /\ \A g \in Goroutine : pc[g] \notin {"emit", "send"}
                    /\ status = "closed"

\* Close returns, whatever state the relays are in when it is called.
CloseReturns == At(Closer, "close_listener") ~> At(Closer, "done")

\* A stream whose relay is gone does not hold a goroutine of the agent, and a
\* connection to Kismet, for ever.
AgentLetsGo == \A r \in Relay : At(r, "done") ~> handler[r] \in {"none", "done"}

-----------------------------------------------------------------------------
(* The inductive invariant *)

\* Where goroutines of each kind can be, and what a relay has done to its stream.
Places ==
    /\ pc[Acceptor] \in {"accept", "emit", "send", "done"}
    /\ pc[Closer] \in {"open", "close_listener", "wait", "emit", "send", "close_events", "done"}
    /\ pc[Closer] \in {"emit", "send"} => message[Closer] = "closed"
    /\ \A r \in Relay :
          /\ pc[r] \in Busy \cup {"none", "done"}
          /\ pc[r] \in {"none", "dial"} => wire[r] = "none"
          /\ At(r, "done") => wire[r] \in {"none", "closed"}
          /\ wire[r] = "none" => handler[r] = "none"

\* What Close has done when it is where it is.
ClosedSoFar ==
    /\ pc[Closer] \notin {"open", "close_listener"} => ~listening
    /\ pc[Closer] \in {"send", "close_events", "done"} => status = "closed"
    /\ eventsClosed => At(Closer, "done")

IInv == TypeOK /\ Places /\ ClosedSoFar /\ ShutdownIsComplete /\ NoSendAfterClose

-----------------------------------------------------------------------------
(* What the documentation says *)

\* "connected: an authenticated control-plane stream is serving a browser
\* request" (docs/kismet-tunnel.md:18).
ConnectedIsServing ==
    status = "connected" => \E r \in Relay : pc[r] \in {"emit", "send", "copy"}

\* "consume Tunnel.Events() for status" (docs/kismet-tunnel.md:15): when there
\* is nothing left to receive, the last event received is the status.
EventsReportStatus ==
    events = <<>> /\ (\A g \in Goroutine : pc[g] \notin {"emit", "send"}) => shown = status

===============================================================================
