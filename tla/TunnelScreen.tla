----------------------------- MODULE TunnelScreen -----------------------------
(***************************************************************************)
(* The tunnel screen of the console (bottle-tui/internal/tui/tunnel.go,    *)
(* and the quit key of app.go): what the screen believes of the tunnels    *)
(* that were started.                                                      *)
(*                                                                         *)
(* A Bubble Tea command runs in a goroutine of its own and what it returns *)
(* is a message for Update, in whatever order the commands end.  A         *)
(* tunnelClosedMsg does not say which tunnel was closed, and each tunnel   *)
(* sends two: one when its events end, one when Close returns.             *)
(***************************************************************************)
EXTENDS Naturals

CONSTANTS
    Handle,     \* the tunnels there can be
    Port,       \* numbers for the port field, Ephemeral possibly one of them
    Ephemeral,  \* port zero
    MaxStarts,  \* bound on tunnelStartCmds at a time
    MaxCloses   \* bound on tunnelCloseCmds altogether

ASSUME TunnelScreenAssumption ==
    /\ Handle # {} /\ Port # {}
    /\ MaxStarts \in Nat \ {0} /\ MaxCloses \in Nat \ {0}

VARIABLES
    tunnel,   \* the state of each tunnel
    port,     \* the port each was started with
    handle,   \* tunnelModel.handle
    running,  \* tunnelModel.running
    closing,  \* tunnelModel.closing
    starts,   \* tunnelStartCmds running, by port
    started,  \* tunnels with a tunnelStartedMsg under way
    closers,  \* tunnelCloseCmds of the key c running, by tunnel
    quitters, \* those of confirmed quits, each the first of a sequence
    drains,   \* tunnels with a drainTunnelCmd running
    closedMsgs,  \* tunnelClosedMsgs under way
    closes,      \* tunnelCloseCmds so far
    asked,       \* the confirmation of the quit key is open
    quitHandle,  \* the tunnel it closes
    quit         \* no, sent (a tea.QuitMsg is under way) or ended

screen == <<handle, running, closing>>
commands == <<starts, started, closers, quitters, drains, closedMsgs, closes>>
quitting == <<asked, quitHandle, quit>>
screenVars == <<tunnel, port, screen, commands, quitting>>

AnyHandle == CHOOSE t \in Handle : TRUE

ScreenInit ==
    /\ tunnel = [t \in Handle |-> "none"]
    /\ port = [t \in Handle |-> Ephemeral]
    /\ handle = AnyHandle
    /\ running = FALSE
    /\ closing = FALSE
    /\ starts = [p \in Port |-> 0]
    /\ started = {}
    /\ closers = [t \in Handle |-> 0]
    /\ quitters = [t \in Handle |-> 0]
    /\ drains = {}
    /\ closedMsgs = 0
    /\ closes = 0
    /\ asked = FALSE
    /\ quitHandle = AnyHandle
    /\ quit = "no"

\* The program runs.
Alive == quit # "ended"

\* Keys reach the screen: the program runs and no confirmation is open.
KeysReachScreen == Alive /\ ~asked

-----------------------------------------------------------------------------
(* Starting *)

\* The key t.  Nothing says that a start is already under way.
PressStart(p) ==
    /\ KeysReachScreen
    /\ ~running
    /\ starts[p] < MaxStarts
    /\ starts' = [starts EXCEPT ![p] = @ + 1]
    /\ UNCHANGED <<tunnel, port, screen, started, closers, quitters, drains, closedMsgs,
                   closes, quitting>>

\* Another tunnel of this process listens at the port.
InUse(p) == p # Ephemeral /\ \E t \in Handle : tunnel[t] = "open" /\ port[t] = p

StartSucceeds(p, t) ==
    /\ Alive
    /\ starts[p] > 0
    /\ ~InUse(p)
    /\ tunnel[t] = "none"
    /\ tunnel' = [tunnel EXCEPT ![t] = "open"]
    /\ port' = [port EXCEPT ![t] = p]
    /\ starts' = [starts EXCEPT ![p] = @ - 1]
    /\ started' = started \cup {t}
    /\ UNCHANGED <<screen, closers, quitters, drains, closedMsgs, closes, quitting>>

\* LOCAL_PORT_UNAVAILABLE, and whatever else goes wrong: the message only shows
\* an error.
StartFails(p) ==
    /\ Alive
    /\ starts[p] > 0
    /\ starts' = [starts EXCEPT ![p] = @ - 1]
    /\ UNCHANGED <<tunnel, port, screen, started, closers, quitters, drains, closedMsgs,
                   closes, quitting>>

\* A definition whose name ends in _Fault is a faulty form of the one that
\* follows it, under which TLC finds the property named in its comment violated.

\* OpenIsDrained: the new tunnel is only drained if no other is running.
Drained_Fault(t) == IF running THEN drains ELSE drains \cup {t}

\* tea.Batch(drainTunnelCmd(m.handle), ...)
Drained(t) == drains \cup {t}

RecvStarted(t) ==
    /\ Alive
    /\ t \in started
    /\ started' = started \ {t}
    /\ handle' = t
    /\ running' = TRUE
    /\ drains' = Drained(t)
    /\ UNCHANGED <<tunnel, port, closing, starts, closers, quitters, closedMsgs, closes, quitting>>

-----------------------------------------------------------------------------
(* Closing *)

\* A tunnelCloseCmd more.
CountClose ==
    /\ closes < MaxCloses
    /\ closes' = closes + 1

\* The key c.
PressClose ==
    /\ KeysReachScreen
    /\ running
    /\ closing' = TRUE
    /\ CountClose
    /\ closers' = [closers EXCEPT ![handle] = @ + 1]
    /\ UNCHANGED <<tunnel, port, handle, running, starts, started, quitters, drains, closedMsgs,
                   quitting>>

\* Tunnel.Close: the first caller closes the listener and then, when the relays
\* are done, the channel of events; the others wait for it.
BeginClose(t) ==
    /\ Alive
    /\ closers[t] + quitters[t] > 0
    /\ tunnel[t] = "open"
    /\ tunnel' = [tunnel EXCEPT ![t] = "closing"]
    /\ UNCHANGED <<port, screen, commands, quitting>>

EndClose(t) ==
    /\ Alive
    /\ tunnel[t] = "closing"
    /\ tunnel' = [tunnel EXCEPT ![t] = "closed"]
    /\ UNCHANGED <<port, screen, commands, quitting>>

\* The command returns a tunnelClosedMsg.
Sent == closedMsgs + 1

CloserEnds(t) ==
    /\ Alive
    /\ closers[t] > 0
    /\ tunnel[t] = "closed"
    /\ closers' = [closers EXCEPT ![t] = @ - 1]
    /\ closedMsgs' = Sent
    /\ UNCHANGED <<tunnel, port, screen, starts, started, quitters, drains, closes, quitting>>

\* That of a confirmed quit, and the tea.Quit that follows it in the sequence.
QuitCloserEnds(t) ==
    /\ Alive
    /\ quitters[t] > 0
    /\ tunnel[t] = "closed"
    /\ quitters' = [quitters EXCEPT ![t] = @ - 1]
    /\ closedMsgs' = Sent
    /\ quit' = "sent"
    /\ UNCHANGED <<tunnel, port, screen, starts, started, closers, drains, closes, asked,
                   quitHandle>>

DrainEnds(t) ==
    /\ Alive
    /\ t \in drains
    /\ tunnel[t] = "closed"
    /\ drains' = drains \ {t}
    /\ closedMsgs' = Sent
    /\ UNCHANGED <<tunnel, port, screen, starts, started, closers, quitters, closes, quitting>>

\* ClosingEnds: m.closing is not reset.
AfterClosed_Fault == closing

\* "m.closing = false"
AfterClosed == FALSE

\* ShownIsOpen: the message is heeded only after the key c.
StillRunning_Fault == running /\ ~closing

\* "m.running = false", whatever tunnel the message is about.
StillRunning == FALSE

RecvClosed ==
    /\ Alive
    /\ closedMsgs > 0
    /\ closedMsgs' = closedMsgs - 1
    /\ running' = StillRunning
    /\ closing' = AfterClosed
    /\ UNCHANGED <<tunnel, port, handle, starts, started, closers, quitters, drains, closes, quitting>>

-----------------------------------------------------------------------------
(* The quit key *)

\* "An active Kismet tunnel will be closed first": the modal keeps the handle.
PressQuit ==
    /\ KeysReachScreen
    /\ IF running
       THEN asked' = TRUE /\ quitHandle' = handle /\ UNCHANGED quit
       ELSE quit' = "sent" /\ UNCHANGED <<asked, quitHandle>>
    /\ UNCHANGED <<tunnel, port, screen, commands>>

\* The sequence of the close and the quit starts.  Keys reach the screen again,
\* the quit key among them.
Confirm ==
    /\ Alive /\ asked
    /\ asked' = FALSE
    /\ CountClose
    /\ quitters' = [quitters EXCEPT ![quitHandle] = @ + 1]
    /\ UNCHANGED <<tunnel, port, screen, starts, started, closers, drains, closedMsgs,
                   quitHandle, quit>>

\* A sequence confirmed before goes on.
Dismiss ==
    /\ Alive /\ asked
    /\ asked' = FALSE
    /\ UNCHANGED <<tunnel, port, screen, commands, quitHandle, quit>>

\* The tea.QuitMsg ends the program.
RecvQuit ==
    /\ quit = "sent"
    /\ quit' = "ended"
    /\ UNCHANGED <<tunnel, port, screen, commands, asked, quitHandle>>

ScreenNext ==
    \/ \E p \in Port : \/ PressStart(p) \/ StartFails(p)
                       \/ \E t \in Handle : StartSucceeds(p, t)
    \/ \E t \in Handle : \/ RecvStarted(t) \/ BeginClose(t) \/ EndClose(t)
                         \/ CloserEnds(t) \/ QuitCloserEnds(t) \/ DrainEnds(t)
    \/ PressClose \/ RecvClosed \/ PressQuit \/ Confirm \/ Dismiss \/ RecvQuit

\* Commands end and messages are received; nobody need press a key.
ScreenFairness ==
    /\ WF_screenVars(RecvClosed) /\ WF_screenVars(RecvQuit)
    /\ \A t \in Handle :
          /\ WF_screenVars(RecvStarted(t))
          /\ WF_screenVars(BeginClose(t)) /\ WF_screenVars(EndClose(t))
          /\ WF_screenVars(CloserEnds(t)) /\ WF_screenVars(QuitCloserEnds(t))
          /\ WF_screenVars(DrainEnds(t))

ScreenSpec == ScreenInit /\ [][ScreenNext]_screenVars
ScreenFairSpec == ScreenSpec /\ ScreenFairness

-----------------------------------------------------------------------------
(* Correctness *)

\* Types of the screen.
ScreenTypeOK ==
    /\ tunnel \in [Handle -> {"none", "open", "closing", "closed"}]
    /\ port \in [Handle -> Port \cup {Ephemeral}]
    /\ handle \in Handle /\ running \in BOOLEAN /\ closing \in BOOLEAN
    /\ starts \in [Port -> 0..MaxStarts]
    /\ started \subseteq Handle
    /\ closers \in [Handle -> 0..MaxCloses]
    /\ quitters \in [Handle -> 0..MaxCloses]
    /\ drains \subseteq Handle
    /\ closes \in 0..MaxCloses
    /\ closedMsgs \in Nat
    /\ asked \in BOOLEAN
    /\ quitHandle \in Handle
    /\ quit \in {"no", "sent", "ended"}

\* No message is under way and no command is about to send one.
Quiet ==
    /\ \A p \in Port : starts[p] = 0
    /\ started = {} /\ closedMsgs = 0
    /\ \A t \in Handle :
          closers[t] = 0 /\ quitters[t] = 0 /\ (t \in drains => tunnel[t] = "open")

\* Once things have settled the screen never shows a tunnel that is gone.
ShownIsOpen == Quiet /\ running => tunnel[handle] = "open"

\* "it must be drained continuously by a dedicated goroutine" (tunnel.go:17-19):
\* so is every open tunnel, also one the screen has lost sight of.
OpenIsDrained == \A t \in Handle : tunnel[t] = "open" => t \in started \cup drains

\* The screen does not stay at "closing" while the program runs, with a
\* confirmation open or not.
ClosingEnds == closing ~> (~closing \/ quit = "ended")

\* What the screen shows as running is drained, or a message says that some
\* tunnel was closed; the screen heeds every such message.
ShownIsDrained == running => handle \in drains \/ closedMsgs > 0

\* Each running tunnelCloseCmd was started.
ClosersCounted == \A t \in Handle : closers[t] <= closes /\ quitters[t] <= closes

\* The inductive invariant.
ScreenInv == ScreenTypeOK /\ ClosersCounted /\ OpenIsDrained /\ ShownIsDrained

-----------------------------------------------------------------------------
(* What the documentation says *)

\* "`t` to start, `c` to close" (docs/integration-status.md:28): once things
\* have settled the key c closes whatever tunnel is open.
Closable ==
    Quiet /\ ~asked /\ quit = "no" =>
        \A t \in Handle : tunnel[t] = "open" => running /\ handle = t

===============================================================================
