------------------------------- MODULE Console -------------------------------
(***************************************************************************)
(* The operator console (bottle-tui/internal/tui): the screens whose       *)
(* actions have to be confirmed, the one modal that confirms them, the     *)
(* requests they make with the client of the loaded profile, and the       *)
(* consumer of the live events.                                            *)
(*                                                                         *)
(* A submission is what one press of enter (or s, or x on the survey       *)
(* screen) leads to.  Bubble Tea runs each command in a goroutine of its   *)
(* own, and what it returns is a message for Update, in whatever order the *)
(* commands end: also the message that asks for the modal, before which    *)
(* keys still reach the screen.  The ring of the seven screens is cut down *)
(* to four, the neighbours of which are kept; the tunnel and its part in   *)
(* the quit key are the subject of TunnelScreen, and the status request    *)
(* that follows a load, which no submission waits for longer than for      *)
(* another's answer, is left out.                                          *)
(***************************************************************************)
EXTENDS Naturals, Sequences, FiniteSets

CONSTANTS
    Task,         \* submissions there can be
    NoTask,       \* none of them
    Text,         \* what can be typed into a field
    NoText,       \* an empty field, and the gate of a yes/no modal
    MaxProfiles   \* bound on profiles loaded

ASSUME ConsoleAssumption ==
    /\ NoText \notin Text /\ NoTask \notin Task
    /\ MaxProfiles \in Nat

VARIABLES
    active,      \* the active screen
    text,        \* the field of each form: a request ID, the version of an update
    client,      \* the client in clientHolder; 0 is nil
    loading,     \* a loadCredentialsCmd is running
    stage,       \* where each submission is
    kind,        \* what it is a submission of
    gate,        \* the text its modal wants
    via,         \* the client it was made with
    typed,       \* what is in the field of the modal
    submitting,  \* submitting of each form
    result,      \* the submission whose result each form shows
    consumerStarted,  \* surveyModel.consumerStarted
    consumers,   \* consumers that are about to begin, and that run
    disconnected,     \* logsModel.disconnected
    retyped,     \* history: submissions whose gate was typed into their modal
    quit         \* the program has ended

submissions == <<stage, kind, gate, via>>
forms == <<submitting, result>>
stream == <<consumerStarted, consumers, disconnected>>
vars == <<active, text, client, loading, submissions, typed, forms, stream, retyped, quit>>

Form == {"provision", "update"}
Kind == Form \cup {"survey"}
Ring == <<"other", "provision", "update", "survey">>
Screen == {Ring[i] : i \in 1..Len(Ring)}

\* none: not made; requested: requestConfirmMsg under way; asked: the modal is
\* open; dropped: dismissed; queued: the command was returned; waiting: it waits
\* for Client.mu; calling: it holds it; answered: its message is under way.
Stage == {"none", "requested", "asked", "dropped", "queued", "waiting", "calling",
          "answered", "done"}

Init ==
    /\ active = "other"
    /\ text = [f \in Form |-> NoText]
    /\ client = 0
    /\ loading = TRUE
    /\ stage = [t \in Task |-> "none"]
    /\ kind = [t \in Task |-> "survey"]
    /\ gate = [t \in Task |-> NoText]
    /\ via = [t \in Task |-> 0]
    /\ typed = NoText
    /\ submitting = [f \in Form |-> FALSE]
    /\ result = [f \in Form |-> NoTask]
    /\ consumerStarted = FALSE
    /\ consumers = [starting |-> 0, running |-> 0]
    /\ disconnected = FALSE
    /\ retyped = {}
    /\ quit = FALSE

At(t, label) == stage[t] = label
Goto(t, label) == stage' = [stage EXCEPT ![t] = label]

\* App.confirm is not nil.
ModalOpen == \E t \in Task : At(t, "asked")

\* A key reaches the screens.
KeysReachScreen == ~quit /\ ~ModalOpen

-----------------------------------------------------------------------------
(* Screens *)

\* A definition whose name ends in _Fault is a faulty form of the one that
\* follows it, under which TLC finds the property named in its comment violated.

\* OneConsumer: each visit starts a consumer, as it would if "return m,
\* m.survey.Activate()" (app.go:178) copied m before the call that changes it.
\* The language leaves that order open; the gc compiler makes the call first.
ConsumerIsStarted_Fault == FALSE

\* "if m.consumerStarted { return nil }"
ConsumerIsStarted == consumerStarted

\* App.setActive, and surveyModel.Activate.
SetActive(screen) ==
    /\ active' = screen
    /\ IF screen = "survey" /\ ~ConsumerIsStarted
       THEN /\ consumerStarted' = TRUE
            /\ disconnected' = FALSE
            /\ consumers' = [consumers EXCEPT !.starting = @ + 1]
       ELSE UNCHANGED stream
    /\ UNCHANGED <<text, client, loading, submissions, typed, forms, retyped, quit>>

\* The brackets always move to a neighbour.
PressBracket ==
    /\ KeysReachScreen
    /\ \E i, j \in 1..Len(Ring) : /\ active = Ring[i]
                                  /\ (i - j) % Len(Ring) \in {1, Len(Ring) - 1}
                                  /\ SetActive(Ring[j])

\* The digits do unless a text field has the focus.
PressDigit(screen) ==
    /\ KeysReachScreen
    /\ active \notin Form
    /\ SetActive(screen)

Edit(f, string) ==
    /\ KeysReachScreen
    /\ active = f
    /\ text' = [text EXCEPT ![f] = string]
    /\ UNCHANGED <<active, client, loading, submissions, typed, forms, stream, retyped, quit>>

\* credentialsLoadedMsg.
LoadSucceeds ==
    /\ ~quit
    /\ loading
    /\ client < MaxProfiles
    /\ loading' = FALSE
    /\ client' = client + 1
    /\ UNCHANGED <<active, text, submissions, typed, forms, stream, retyped, quit>>

LoadFails ==
    /\ ~quit
    /\ loading
    /\ loading' = FALSE
    /\ UNCHANGED <<active, text, client, submissions, typed, forms, stream, retyped, quit>>

\* A profile is imported on the pairing screen, and pairingSavedMsg received.
ImportProfile ==
    /\ KeysReachScreen
    /\ active = "other"
    /\ ~loading
    /\ loading' = TRUE
    /\ UNCHANGED <<active, text, client, submissions, typed, forms, stream, retyped, quit>>

-----------------------------------------------------------------------------
(* Submissions *)

Make(t, k, string) ==
    /\ KeysReachScreen
    /\ active = k
    /\ client # 0
    /\ At(t, "none")
    /\ Goto(t, "requested")
    /\ kind' = [kind EXCEPT ![t] = k]
    /\ gate' = [gate EXCEPT ![t] = string]
    /\ UNCHANGED <<active, text, client, loading, via, typed, stream, retyped, quit>>

\* The key enter on a form.
Submit(t, f) ==
    /\ text[f] # NoText
    /\ Make(t, f, text[f])
    /\ submitting' = [submitting EXCEPT ![f] = TRUE]
    /\ result' = [result EXCEPT ![f] = NoTask]

\* The keys s and x of the survey screen.
PressSurvey(t) == Make(t, "survey", NoText) /\ UNCHANGED forms

\* ConfirmedByTyping: a new modal keeps what was typed into the one it replaces.
FieldOfModal_Fault == typed

\* newTypedConfirm makes a field of its own.
FieldOfModal == NoText

\* App.Update on requestConfirmMsg: a modal that is open is replaced.
OpenModal(t) ==
    /\ ~quit
    /\ At(t, "requested")
    /\ stage' = [u \in Task |-> IF u = t THEN "asked"
                                ELSE IF At(u, "asked") THEN "dropped" ELSE stage[u]]
    /\ typed' = FieldOfModal
    /\ UNCHANGED <<active, text, client, loading, kind, gate, via, forms, stream, retyped, quit>>

TypeIntoModal(t, string) ==
    /\ ~quit
    /\ At(t, "asked")
    /\ gate[t] # NoText
    /\ typed' = string
    /\ retyped' = IF string = gate[t] THEN retyped \cup {t} ELSE retyped
    /\ UNCHANGED <<active, text, client, loading, submissions, forms, stream, quit>>

\* The yes/no modal is answered with y, or the text is that of the gate.
Matches(t) == gate[t] = NoText \/ typed = gate[t]

CloseModal(t, next) ==
    /\ ~quit
    /\ At(t, "asked")
    /\ Goto(t, next)
    /\ typed' = NoText
    /\ UNCHANGED <<active, text, client, loading, kind, gate, via, forms, stream, retyped, quit>>

Accept(t) == Matches(t) /\ CloseModal(t, "queued")

\* Another text than the gate, n, or esc.
Dismiss(t) == CloseModal(t, "dropped")

\* The command takes the client out of its holder.
BeginCommand(t) ==
    /\ ~quit
    /\ At(t, "queued")
    /\ Goto(t, "waiting")
    /\ via' = [via EXCEPT ![t] = client]
    /\ UNCHANGED <<active, text, client, loading, kind, gate, typed, forms, stream, retyped, quit>>

\* ConfirmedIsAnswered: the mutex is not unlocked.
Locked_Fault(t) ==
    \E u \in Task \ {t} : stage[u] \in {"calling", "answered", "done"} /\ via[u] = via[t]

\* Client.mu is held.
Locked(t) == \E u \in Task \ {t} : At(u, "calling") /\ via[u] = via[t]

\* Client.request: lock, connect, hello and the request itself.
Request(t) ==
    /\ ~quit
    /\ At(t, "waiting")
    /\ ~Locked(t)
    /\ Goto(t, "calling")
    /\ UNCHANGED <<active, text, client, loading, kind, gate, via, typed, forms, stream,
                   retyped, quit>>

\* The agent answers, or the connection fails.
Answer(t) ==
    /\ ~quit
    /\ At(t, "calling")
    /\ Goto(t, "answered")
    /\ UNCHANGED <<active, text, client, loading, kind, gate, via, typed, forms, stream,
                   retyped, quit>>

\* ResultIsShown: the result is shown beside the spinner.
AfterResult_Fault(f) == submitting[f]

\* "m.submitting = false"
AfterResult(f) == FALSE

\* provisionResultMsg, updateResultMsg, surveyResultMsg.
RecvResult(t) ==
    /\ ~quit
    /\ At(t, "answered")
    /\ Goto(t, "done")
    /\ submitting' = [f \in Form |-> IF f = kind[t] THEN AfterResult(f) ELSE submitting[f]]
    /\ result' = [f \in Form |-> IF f = kind[t] THEN t ELSE result[f]]
    /\ UNCHANGED <<active, text, client, loading, kind, gate, via, typed, stream, retyped, quit>>

-----------------------------------------------------------------------------
(* The consumer, and the end *)

\* Without a client the command ends, and consumeStoppedMsg is received.
StartConsumer ==
    /\ ~quit
    /\ consumers.starting > 0
    /\ IF client # 0
       THEN /\ consumers' = [starting |-> consumers.starting - 1,
                             running |-> consumers.running + 1]
            /\ UNCHANGED disconnected
       ELSE /\ consumers' = [consumers EXCEPT !.starting = @ - 1]
            /\ disconnected' = TRUE
    /\ UNCHANGED <<active, text, client, loading, submissions, typed, forms, consumerStarted,
                   retyped, quit>>

\* The key q or a signal: the context is cancelled.
Quit ==
    /\ quit' = TRUE
    /\ UNCHANGED <<active, text, client, loading, submissions, typed, forms, stream, retyped>>

Next ==
    \/ PressBracket
    \/ \E screen \in Screen : PressDigit(screen)
    \/ \E f \in Form, string \in Text \cup {NoText} : Edit(f, string)
    \/ LoadSucceeds \/ LoadFails \/ ImportProfile
    \/ \E t \in Task :
          \/ \E f \in Form : Submit(t, f)
          \/ PressSurvey(t) \/ OpenModal(t)
          \/ \E string \in Text \cup {NoText} : TypeIntoModal(t, string)
          \/ Accept(t) \/ Dismiss(t) \/ BeginCommand(t) \/ Request(t) \/ Answer(t)
          \/ RecvResult(t)
    \/ StartConsumer \/ Quit

\* Commands run on and messages are received; a request is answered or fails,
\* and a Go mutex starves nobody.  The operator need do nothing.
Fairness ==
    \A t \in Task :
        /\ WF_vars(OpenModal(t)) /\ WF_vars(BeginCommand(t)) /\ SF_vars(Request(t))
        /\ WF_vars(Answer(t)) /\ WF_vars(RecvResult(t))

Spec == Init /\ [][Next]_vars
FairSpec == Spec /\ Fairness

-----------------------------------------------------------------------------
(* Correctness *)

\* Types of the console.
TypeOK ==
    /\ active \in Screen
    /\ text \in [Form -> Text \cup {NoText}]
    /\ client \in 0..MaxProfiles
    /\ loading \in BOOLEAN
    /\ stage \in [Task -> Stage] /\ kind \in [Task -> Kind]
    /\ gate \in [Task -> Text \cup {NoText}] /\ via \in [Task -> 0..MaxProfiles]
    /\ typed \in Text \cup {NoText}
    /\ submitting \in [Form -> BOOLEAN] /\ result \in [Form -> Task \cup {NoTask}]
    /\ consumerStarted \in BOOLEAN
    /\ consumers \in [starting : 0..1, running : 0..1]
    /\ disconnected \in BOOLEAN
    /\ retyped \subseteq Task
    /\ quit \in BOOLEAN

\* The commands of submissions that were confirmed.
Confirmed == {"queued", "waiting", "calling", "answered", "done"}

\* "Retype the request ID to proceed": what runs was typed into its own modal,
\* and nothing that was typed for another submission counts for it, whichever
\* modals replaced each other.
ConfirmedByTyping ==
    \A t \in Task : stage[t] \in Confirmed /\ gate[t] # NoText => t \in retyped

\* When every submission of a form was confirmed and answered, in whatever
\* order, the form shows one of their results and no spinner.
ResultIsShown ==
    \A f \in Form :
        LET made == {t \in Task : kind[t] = f}
        IN  made # {} /\ (\A t \in made : At(t, "done")) => ~submitting[f] /\ result[f] \in made

\* There are never two consumers, which would add each event to the buffer twice.
OneConsumer == consumers.starting + consumers.running <= 1

\* What was confirmed gets its answer, however the requests queue up.
ConfirmedIsAnswered == \A t \in Task : At(t, "queued") ~> At(t, "done") \/ quit

-----------------------------------------------------------------------------
(* What the code says of itself *)

\* "text does not match; action canceled" (confirm.go:69): a form that shows
\* that it is submitting has a submission under way.
CancelledIsIdle ==
    \A f \in Form : submitting[f] =>
        \E t \in Task : kind[t] = f /\ stage[t] \notin {"none", "dropped", "done"}

\* "kicking off the long-lived event consumer (model.Client.Consume, which
\* blocks in its own tea.Cmd goroutine until the app's root context is
\* canceled)" (survey.go:25-27).
ConsumerLives == consumerStarted => consumers.starting + consumers.running = 1

=============================================================================
