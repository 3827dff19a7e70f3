-------------------------------- MODULE Survey --------------------------------
(***************************************************************************)
(* The survey: Handler.Survey and Handler.Status of the agent              *)
(* (internal/agent/agent.go), Kismet, which they start and stop through    *)
(* systemd, and the status the console shows in its header.                *)
(*                                                                         *)
(* A handler is a goroutine of the agent's server that is serving a        *)
(* survey request.  It runs the command, sets surveyState and publishes    *)
(* the event in three steps; only the second one holds the mutex.          *)
(* Kismet is external: its unit is also started by provisioning, at boot   *)
(* and by hand, and it may stop by itself.                                 *)
(*                                                                         *)
(* The history variables doubt, clean, alone and sure say of what is       *)
(* stored that nothing has interfered with it.                             *)
(***************************************************************************)
EXTENDS Naturals

CONSTANTS
    Handler,         \* goroutines that serve survey requests
    Fetch,           \* status requests of the console that can be under way
    MaxCalls,        \* bound on survey requests
    MaxRestarts,     \* bound on restarts of the agent
    MaxDisturbances  \* bound on starts and stops of Kismet by others

ASSUME SurveyAssumption ==
    /\ MaxCalls \in Nat
    /\ MaxRestarts \in Nat
    /\ MaxDisturbances \in Nat

VARIABLES
    kismet,        \* TRUE while the unit is active
    surveyState,   \* what the agent reports
    lastEvent,     \* state of the newest survey_start or survey_stop on the bus
    pc,            \* where each handler is in Survey; "idle" outside a call
    want,          \* the direction of each call: TRUE to start
    clean,         \* history: no call of the other direction, no failure and
                   \* nobody else interfered since the call began
    doubt,         \* history: since the last clean call something interfered
    fetch,         \* the status requests of the console
    header,        \* the status it shows
    calls, restarts, disturbances

agentVars == <<surveyState, lastEvent, pc, want, clean, doubt>>
consoleVars == <<fetch, header>>
surveyVars == <<kismet, agentVars, consoleVars, calls, restarts, disturbances>>

States == {"idle", "running"}

\* What surveyState should be.
Name(running) == IF running THEN "running" ELSE "idle"

\* A request is "asked" until the agent has read its state for it.  alone: no
\* other request was under way with it, and surveyState was not set after it
\* was read.
NoFetch == [answer |-> "none", alone |-> FALSE]
FetchState == [answer : States \cup {"none", "asked", "error"}, alone : BOOLEAN]

\* The header shows nothing before the first answer and after an error.
HeaderState == [survey : States \cup {""}, sure : BOOLEAN]

SurveyTypeOK ==
    /\ kismet \in BOOLEAN
    /\ surveyState \in States
    /\ lastEvent \in States \cup {"none"}
    /\ pc \in [Handler -> {"idle", "command", "ran", "recorded"}]
    /\ want \in [Handler -> BOOLEAN]
    /\ clean \in [Handler -> BOOLEAN]
    /\ doubt \in BOOLEAN
    /\ fetch \in [Fetch -> FetchState]
    /\ header \in HeaderState
    /\ calls \in 0..MaxCalls
    /\ restarts \in 0..MaxRestarts
    /\ disturbances \in 0..MaxDisturbances

\* main starts the agent with an idle survey; Kismet is enabled at boot.
SurveyInit ==
    /\ kismet \in BOOLEAN
    /\ surveyState = "idle"
    /\ lastEvent = "none"
    /\ pc = [h \in Handler |-> "idle"]
    /\ want = [h \in Handler |-> FALSE]
    /\ clean = [h \in Handler |-> FALSE]
    /\ doubt = kismet
    /\ fetch = [f \in Fetch |-> NoFetch]
    /\ header = [survey |-> "", sure |-> FALSE]
    /\ calls = 0 /\ restarts = 0 /\ disturbances = 0

Busy == {h \in Handler : pc[h] # "idle"}
Against(start) == {h \in Busy : want[h] # start}

\* Nothing that was clean is clean any more.
NobodyClean == clean' = [h \in Handler |-> FALSE]

\* What is read of surveyState before it is set is not what it is after.
Outdated(state) ==
    /\ fetch' = [f \in Fetch |->
          [fetch[f] EXCEPT !.alone = @ /\ fetch[f].answer \in {"asked", state}]]
    /\ header' = [header EXCEPT !.sure = @ /\ header.survey = state]

-------------------------------------------------------------------------------
(* The agent *)

\* dispatch passes on a confirmed request and refuses any other.
Begin(h, start, confirm) ==
    /\ pc[h] = "idle"
    /\ confirm
    /\ calls < MaxCalls
    /\ calls' = calls + 1
    /\ pc' = [pc EXCEPT ![h] = "command"]
    /\ want' = [want EXCEPT ![h] = start]
    /\ clean' = [g \in Handler |->
          IF g = h THEN Against(start) = {} ELSE clean[g] /\ g \notin Against(start)]
    /\ doubt' = (doubt \/ Against(start) # {})
    /\ UNCHANGED <<kismet, surveyState, lastEvent, consoleVars, restarts, disturbances>>

\* AgreesUnlessMixed: the error of systemctl is not looked at.
CommandFailed_Fault(h) ==
    /\ pc[h] = "command"
    /\ kismet' \in {kismet, want[h]}
    /\ pc' = [pc EXCEPT ![h] = "ran"]
    /\ UNCHANGED <<surveyState, lastEvent, want, clean, doubt, consoleVars,
                   calls, restarts, disturbances>>

\* systemctl reports an error; Kismet may have been started or stopped all the
\* same.  The error is published and answered, and surveyState is left alone.
CommandFailed(h) ==
    /\ pc[h] = "command"
    /\ kismet' \in {kismet, want[h]}
    /\ pc' = [pc EXCEPT ![h] = "idle"]
    /\ doubt' = TRUE
    /\ NobodyClean
    /\ UNCHANGED <<surveyState, lastEvent, want, consoleVars,
                   calls, restarts, disturbances>>

CommandDone(h) ==
    /\ pc[h] = "command"
    /\ kismet' = want[h]
    /\ pc' = [pc EXCEPT ![h] = "ran"]
    /\ UNCHANGED <<surveyState, lastEvent, want, clean, doubt, consoleVars,
                   calls, restarts, disturbances>>

\* EventsTellState: the state is set to what the call found, not to newState.
NewState_Fault(h) == surveyState

NewState(h) == Name(want[h])

Record(h) ==
    /\ pc[h] = "ran"
    /\ surveyState' = NewState(h)
    /\ pc' = [pc EXCEPT ![h] = "recorded"]
    /\ doubt' = (doubt /\ ~clean[h])
    /\ Outdated(NewState(h))
    /\ UNCHANGED <<kismet, lastEvent, want, clean, calls, restarts, disturbances>>

\* The event is published and the call answered.
Announce(h) ==
    /\ pc[h] = "recorded"
    /\ lastEvent' = Name(want[h])
    /\ pc' = [pc EXCEPT ![h] = "idle"]
    /\ UNCHANGED <<kismet, surveyState, want, clean, doubt, consoleVars,
                   calls, restarts, disturbances>>

\* The state is kept in memory only.  A command that was running may still have
\* had its effect.  Requests for the status fail with the connection.
Restart ==
    /\ restarts < MaxRestarts
    /\ restarts' = restarts + 1
    /\ \E effect \in {kismet} \cup {want[h] : h \in {g \in Handler : pc[g] = "command"}} :
          /\ kismet' = effect
          /\ doubt' = effect
    /\ surveyState' = "idle"
    /\ lastEvent' = "none"
    /\ pc' = [h \in Handler |-> "idle"]
    /\ NobodyClean
    /\ fetch' = [f \in Fetch |->
          IF fetch[f].answer = "asked" THEN [answer |-> "error", alone |-> FALSE]
                                       ELSE [fetch[f] EXCEPT !.alone = FALSE]]
    /\ header' = [header EXCEPT !.sure = @ /\ header.survey = "idle"]
    /\ UNCHANGED <<want, calls, disturbances>>

-------------------------------------------------------------------------------
(* Kismet, started and stopped by others *)

\* The step "services" of Provisioner.Run enables and starts Kismet.
ProvisionServices ==
    /\ disturbances < MaxDisturbances
    /\ disturbances' = disturbances + 1
    /\ kismet' = TRUE
    /\ doubt' = (doubt \/ ~kismet)
    /\ clean' = [h \in Handler |-> clean[h] /\ kismet /\ Against(TRUE) = {}]
    /\ UNCHANGED <<surveyState, lastEvent, pc, want, consoleVars, calls, restarts>>

\* Kismet stops by itself, or somebody on the Pi starts or stops it.
Disturb ==
    /\ disturbances < MaxDisturbances
    /\ disturbances' = disturbances + 1
    /\ kismet' = ~kismet
    /\ doubt' = TRUE
    /\ NobodyClean
    /\ UNCHANGED <<surveyState, lastEvent, pc, want, consoleVars, calls, restarts>>

-------------------------------------------------------------------------------
(* The status in the console's header *)

UnderWay == {f \in Fetch : fetch[f].answer # "none"}

\* A profile was loaded, or the key r; neither waits for the request before.
Ask(f) ==
    /\ fetch[f].answer = "none"
    /\ fetch' = [g \in Fetch |->
          IF g = f THEN [answer |-> "asked", alone |-> UnderWay = {}]
                   ELSE [fetch[g] EXCEPT !.alone = FALSE]]
    /\ UNCHANGED <<kismet, agentVars, header, calls, restarts, disturbances>>

\* Handler.Status under the mutex.
Read(f) ==
    /\ fetch[f].answer = "asked"
    /\ fetch' = [fetch EXCEPT ![f].answer = surveyState]
    /\ UNCHANGED <<kismet, agentVars, header, calls, restarts, disturbances>>

\* The connection is lost before the answer.
Lose(f) ==
    /\ fetch[f].answer \in States \cup {"asked"}
    /\ fetch' = [fetch EXCEPT ![f].answer = "error"]
    /\ UNCHANGED <<kismet, agentVars, header, calls, restarts, disturbances>>

\* HeaderTellsTruth: an error leaves the status that was shown before.
Shown_Fault(answer) == IF answer = "error" THEN header.survey ELSE answer

\* The status is replaced also by the empty one that comes with an error.
Shown(answer) == IF answer = "error" THEN "" ELSE answer

\* statusResultMsg.  The messages of two commands come in any order.
Show(f) ==
    /\ fetch[f].answer \in States \cup {"error"}
    /\ header' = [survey |-> Shown(fetch[f].answer), sure |-> fetch[f].alone]
    /\ fetch' = [fetch EXCEPT ![f] = NoFetch]
    /\ UNCHANGED <<kismet, agentVars, calls, restarts, disturbances>>

-------------------------------------------------------------------------------
SurveyNext ==
    \/ \E h \in Handler :
          \/ \E start, confirm \in BOOLEAN : Begin(h, start, confirm)
          \/ CommandFailed(h) \/ CommandDone(h) \/ Record(h) \/ Announce(h)
    \/ Restart
    \/ ProvisionServices \/ Disturb
    \/ \E f \in Fetch : Ask(f) \/ Read(f) \/ Lose(f) \/ Show(f)

SurveySpec == SurveyInit /\ [][SurveyNext]_surveyVars

-------------------------------------------------------------------------------
(* What the status promises *)

\* With no call under way the agent reports "running" exactly when Kismet runs,
\* unless since the last call that ran undisturbed a command failed, calls of
\* both directions overlapped, Kismet was started or stopped by others, or the
\* agent was restarted while it ran (Survey, agent.go:83-92).  One undisturbed
\* call repairs all of that.
AgreesUnlessMixed ==
    (Busy = {} /\ ~doubt) => surveyState = Name(kismet)

\* Under the same condition the newest survey event on the bus tells the state
\* the agent reports: whoever follows the events and whoever asks for the
\* status see the same (Survey, agent.go:89-92; the mutex covers the state and
\* not the event).
EventsTellState ==
    (Busy = {} /\ ~doubt) =>
        surveyState = IF lastEvent = "none" THEN "idle" ELSE lastEvent

\* The header shows what Kismet does, if moreover the status was asked for by
\* one request at a time and surveyState was not set since the answer was read
\* (statusResultMsg, dashboard.go:75-80, shown by renderHeader).
HeaderTellsTruth ==
    (Busy = {} /\ ~doubt /\ header.sure /\ header.survey # "") =>
        header.survey = Name(kismet)

\* Without the condition this fails, also for an agent that has done nothing but
\* survey calls since it was started; see the README.
StatusIsTrue ==
    (Busy = {} /\ lastEvent # "none" /\ restarts = 0 /\ disturbances = 0) =>
        surveyState = Name(kismet)

-------------------------------------------------------------------------------
(* The inductive invariant *)

\* A clean call is against no other, and while its command has run and its state
\* is not recorded Kismet is as it wants it.
CleanCalls ==
    \A h \in Busy : clean[h] =>
        /\ \A g \in Busy : want[g] = want[h]
        /\ pc[h] = "ran" => kismet = want[h]

\* Without doubt all calls are of one direction, and the state agrees with Kismet
\* unless one of them is still to record it.
NoDoubt ==
    ~doubt =>
        /\ \A g, h \in Busy : want[g] = want[h]
        /\ \A h \in Busy : pc[h] = "ran" => kismet = want[h]
        /\ surveyState = Name(kismet) \/ \E h \in Busy : pc[h] = "ran"

\* The same for the newest event.
EventInv ==
    ~doubt =>
        /\ \A h \in Busy : pc[h] = "recorded" => surveyState = Name(want[h])
        /\ \/ surveyState = IF lastEvent = "none" THEN "idle" ELSE lastEvent
           \/ \E h \in Busy : pc[h] = "recorded"

\* An answer read alone, and a header that came of one, are what the agent reports.
HeaderInv ==
    /\ \A f \in Fetch :
          fetch[f].alone /\ fetch[f].answer \in States => fetch[f].answer = surveyState
    /\ header.sure /\ header.survey # "" => header.survey = surveyState

SurveyInv == SurveyTypeOK /\ CleanCalls /\ NoDoubt /\ EventInv /\ HeaderInv

===============================================================================
