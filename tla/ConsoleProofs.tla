---------------------------- MODULE ConsoleProofs ----------------------------
(***************************************************************************)
(* Proofs about the two modules of the console's requests.  About Survey:  *)
(* for any number of handlers, status requests, calls, restarts and        *)
(* disturbances; SurveyInv is inductive, and the three properties follow   *)
(* from it when no call is under way.  About Console: for any number of    *)
(* submissions and profiles and any texts.                                 *)
(***************************************************************************)
EXTENDS Console, Survey, TLAPS

-----------------------------------------------------------------------------
(* Survey *)

\* What a request that has ended leaves, and what Outdated makes of the others.
LEMMA Outdating ==
  ASSUME fetch \in [Fetch -> FetchState], header \in HeaderState,
         NEW state, Outdated(state)
  PROVE  fetch' \in [Fetch -> FetchState] /\ header' \in HeaderState
<1>1. fetch' \in [Fetch -> FetchState]
  BY DEF Outdated, FetchState
<1>2. header' \in HeaderState
  BY DEF Outdated, HeaderState
<1> QED BY <1>1, <1>2

\* The types of what the console keeps.
LEMMA FetchTypes ==
  ASSUME SurveyTypeOK, NEW f \in Fetch, Ask(f) \/ Read(f) \/ Lose(f) \/ Show(f)
  PROVE  fetch' \in [Fetch -> FetchState] /\ header' \in HeaderState
<1> USE DEF SurveyTypeOK
<1>1. CASE Ask(f)
  <2>1. [answer |-> "asked", alone |-> UnderWay = {}] \in FetchState
    BY DEF FetchState
  <2>2. ASSUME NEW g \in Fetch PROVE [fetch[g] EXCEPT !.alone = FALSE] \in FetchState
    BY DEF FetchState
  <2> QED BY <1>1, <2>1, <2>2 DEF Ask
<1>2. CASE Read(f)
  <2>1. [fetch[f] EXCEPT !.answer = surveyState] \in FetchState
    BY DEF FetchState
  <2> QED BY <1>2, <2>1 DEF Read
<1>3. CASE Lose(f)
  <2>1. [fetch[f] EXCEPT !.answer = "error"] \in FetchState
    BY DEF FetchState
  <2> QED BY <1>3, <2>1 DEF Lose
<1>4. CASE Show(f)
  <2>1. NoFetch \in FetchState
    BY DEF NoFetch, FetchState
  <2>2. Shown(fetch[f].answer) \in States \cup {""} /\ fetch[f].alone \in BOOLEAN
    BY <1>4 DEF Show, Shown, FetchState
  <2>3. header' \in HeaderState
    BY <1>4, <2>2 DEF Show, HeaderState
  <2> QED BY <1>4, <2>1, <2>3 DEF Show
<1> QED BY <1>1, <1>2, <1>3, <1>4

\* Every step keeps the types.
LEMMA SurveyTypeStep == ASSUME SurveyTypeOK, [SurveyNext]_surveyVars PROVE SurveyTypeOK'
<1> USE SurveyAssumption DEF SurveyAssumption, SurveyTypeOK
<1>1. ASSUME NEW h \in Handler, NEW start \in BOOLEAN, NEW confirm \in BOOLEAN,
             Begin(h, start, confirm)
      PROVE  SurveyTypeOK'
  <2>1. clean' \in [Handler -> BOOLEAN] /\ doubt' \in BOOLEAN
    BY <1>1 DEF Begin
  <2> QED BY <1>1, <2>1 DEF Begin, consoleVars
<1>2. ASSUME NEW h \in Handler, CommandFailed(h) PROVE SurveyTypeOK'
  BY <1>2 DEF CommandFailed, NobodyClean, consoleVars
<1>3. ASSUME NEW h \in Handler, CommandDone(h) PROVE SurveyTypeOK'
  BY <1>3 DEF CommandDone, consoleVars
<1>4. ASSUME NEW h \in Handler, Record(h) PROVE SurveyTypeOK'
  <2>1. surveyState' \in States
    BY <1>4 DEF Record, NewState, Name, States
  <2>2. fetch' \in [Fetch -> FetchState] /\ header' \in HeaderState
    BY <1>4, Outdating DEF Record
  <2> QED BY <1>4, <2>1, <2>2 DEF Record
<1>5. ASSUME NEW h \in Handler, Announce(h) PROVE SurveyTypeOK'
  <2>1. lastEvent' \in States
    BY <1>5 DEF Announce, Name, States
  <2> QED BY <1>5, <2>1 DEF Announce, consoleVars
<1>6. ASSUME Restart PROVE SurveyTypeOK'
  <2>1. kismet' \in BOOLEAN /\ doubt' \in BOOLEAN
    BY <1>6 DEF Restart
  <2>2. surveyState' \in States
    BY <1>6 DEF Restart, States
  <2>3. fetch' \in [Fetch -> FetchState]
    BY <1>6 DEF Restart, FetchState
  <2>4. header' \in HeaderState
    BY <1>6 DEF Restart, HeaderState
  <2> QED BY <1>6, <2>1, <2>2, <2>3, <2>4 DEF Restart, NobodyClean
<1>7. ASSUME ProvisionServices PROVE SurveyTypeOK'
  BY <1>7 DEF ProvisionServices, Against, Busy, consoleVars
<1>8. ASSUME Disturb PROVE SurveyTypeOK'
  BY <1>8 DEF Disturb, NobodyClean, consoleVars
<1>9. ASSUME NEW f \in Fetch, Ask(f) \/ Read(f) \/ Lose(f) \/ Show(f) PROVE SurveyTypeOK'
  <2>1. fetch' \in [Fetch -> FetchState] /\ header' \in HeaderState
    BY <1>9, FetchTypes
  <2> QED BY <1>9, <2>1 DEF Ask, Read, Lose, Show, agentVars
<1>10. CASE UNCHANGED surveyVars
  BY <1>10 DEF surveyVars, agentVars, consoleVars
<1> QED BY <1>1, <1>2, <1>3, <1>4, <1>5, <1>6, <1>7, <1>8, <1>9, <1>10 DEF SurveyNext

\* What the steps of the console leave alone.
LEMMA FetchStep ==
  ASSUME NEW f \in Fetch, Ask(f) \/ Read(f) \/ Lose(f) \/ Show(f)
  PROVE  UNCHANGED <<kismet, agentVars>>
BY DEF Ask, Read, Lose, Show, agentVars

\* CleanCalls.
LEMMA CleanStep == ASSUME SurveyTypeOK, CleanCalls, [SurveyNext]_surveyVars PROVE CleanCalls'
<1> USE DEF SurveyTypeOK, CleanCalls, Busy
<1>1. ASSUME NEW h \in Handler, NEW start \in BOOLEAN, NEW confirm \in BOOLEAN,
             Begin(h, start, confirm)
      PROVE  CleanCalls'
  BY <1>1 DEF Begin, Against
<1>2. ASSUME NEW h \in Handler, CommandFailed(h) PROVE CleanCalls'
  BY <1>2 DEF CommandFailed, NobodyClean
<1>3. ASSUME NEW h \in Handler, CommandDone(h) PROVE CleanCalls'
  BY <1>3 DEF CommandDone
<1>4. ASSUME NEW h \in Handler, Record(h) PROVE CleanCalls'
  BY <1>4 DEF Record
<1>5. ASSUME NEW h \in Handler, Announce(h) PROVE CleanCalls'
  BY <1>5 DEF Announce
<1>6. ASSUME Restart PROVE CleanCalls'
  BY <1>6 DEF Restart, NobodyClean
<1>7. ASSUME ProvisionServices PROVE CleanCalls'
  BY <1>7 DEF ProvisionServices, Against
<1>8. ASSUME Disturb PROVE CleanCalls'
  BY <1>8 DEF Disturb, NobodyClean
<1>9. ASSUME NEW f \in Fetch, Ask(f) \/ Read(f) \/ Lose(f) \/ Show(f) PROVE CleanCalls'
  BY <1>9, FetchStep DEF agentVars
<1>10. CASE UNCHANGED surveyVars
  BY <1>10 DEF surveyVars, agentVars
<1> QED BY <1>1, <1>2, <1>3, <1>4, <1>5, <1>6, <1>7, <1>8, <1>9, <1>10 DEF SurveyNext

\* NoDoubt.  Only the call that records can end a doubt, and it is clean.
LEMMA DoubtStep == ASSUME SurveyTypeOK, CleanCalls, NoDoubt, [SurveyNext]_surveyVars PROVE NoDoubt'
<1> USE DEF SurveyTypeOK, NoDoubt, Busy
<1>1. ASSUME NEW h \in Handler, NEW start \in BOOLEAN, NEW confirm \in BOOLEAN,
             Begin(h, start, confirm)
      PROVE  NoDoubt'
  BY <1>1 DEF Begin, Against
<1>2. ASSUME NEW h \in Handler, CommandFailed(h) PROVE NoDoubt'
  BY <1>2 DEF CommandFailed
<1>3. ASSUME NEW h \in Handler, CommandDone(h) PROVE NoDoubt'
  BY <1>3 DEF CommandDone
<1>4. ASSUME NEW h \in Handler, Record(h) PROVE NoDoubt'
  <2>1. CASE clean[h]
    BY <1>4, <2>1 DEF Record, NewState, CleanCalls
  <2>2. CASE ~clean[h]
    BY <1>4, <2>2 DEF Record, NewState
  <2> QED BY <2>1, <2>2
<1>5. ASSUME NEW h \in Handler, Announce(h) PROVE NoDoubt'
  BY <1>5 DEF Announce
<1>6. ASSUME Restart PROVE NoDoubt'
  BY <1>6 DEF Restart, Name
<1>7. ASSUME ProvisionServices PROVE NoDoubt'
  BY <1>7 DEF ProvisionServices
<1>8. ASSUME Disturb PROVE NoDoubt'
  BY <1>8 DEF Disturb
<1>9. ASSUME NEW f \in Fetch, Ask(f) \/ Read(f) \/ Lose(f) \/ Show(f) PROVE NoDoubt'
  BY <1>9, FetchStep DEF agentVars
<1>10. CASE UNCHANGED surveyVars
  BY <1>10 DEF surveyVars, agentVars
<1> QED BY <1>1, <1>2, <1>3, <1>4, <1>5, <1>6, <1>7, <1>8, <1>9, <1>10 DEF SurveyNext

\* EventInv.
LEMMA EventStep ==
  ASSUME SurveyTypeOK, CleanCalls, NoDoubt, EventInv, [SurveyNext]_surveyVars PROVE EventInv'
<1> USE DEF SurveyTypeOK, EventInv, Busy, States
<1>1. ASSUME NEW h \in Handler, NEW start \in BOOLEAN, NEW confirm \in BOOLEAN,
             Begin(h, start, confirm)
      PROVE  EventInv'
  BY <1>1 DEF Begin, Against
<1>2. ASSUME NEW h \in Handler, CommandFailed(h) PROVE EventInv'
  BY <1>2 DEF CommandFailed
<1>3. ASSUME NEW h \in Handler, CommandDone(h) PROVE EventInv'
  BY <1>3 DEF CommandDone
<1>4. ASSUME NEW h \in Handler, Record(h) PROVE EventInv'
  <2>1. ASSUME NEW g \in Handler, pc[g] # "idle", ~doubt'
        PROVE  want[g] = want[h]
    <3>1. CASE clean[h]
      BY <1>4, <2>1, <3>1 DEF Record, CleanCalls
    <3>2. CASE ~clean[h]
      BY <1>4, <2>1, <3>2 DEF Record, NoDoubt
    <3> QED BY <3>1, <3>2
  <2>2. pc'[h] = "recorded" /\ h \in Handler
    BY <1>4 DEF Record
  <2>3. ASSUME NEW g \in Handler, pc'[g] = "recorded", ~doubt'
        PROVE  surveyState' = Name(want'[g])
    BY <1>4, <2>1, <2>3 DEF Record, NewState
  <2> QED BY <2>2, <2>3
<1>5. ASSUME NEW h \in Handler, Announce(h) PROVE EventInv'
  BY <1>5 DEF Announce, Name
<1>6. ASSUME Restart PROVE EventInv'
  BY <1>6 DEF Restart
<1>7. ASSUME ProvisionServices PROVE EventInv'
  BY <1>7 DEF ProvisionServices
<1>8. ASSUME Disturb PROVE EventInv'
  BY <1>8 DEF Disturb
<1>9. ASSUME NEW f \in Fetch, Ask(f) \/ Read(f) \/ Lose(f) \/ Show(f) PROVE EventInv'
  BY <1>9, FetchStep DEF agentVars
<1>10. CASE UNCHANGED surveyVars
  BY <1>10 DEF surveyVars, agentVars
<1> QED BY <1>1, <1>2, <1>3, <1>4, <1>5, <1>6, <1>7, <1>8, <1>9, <1>10 DEF SurveyNext

\* HeaderInv.
LEMMA HeaderStep == ASSUME SurveyTypeOK, HeaderInv, [SurveyNext]_surveyVars PROVE HeaderInv'
<1> USE DEF SurveyTypeOK, HeaderInv, FetchState, HeaderState, States, NoFetch
<1>1. ASSUME NEW h \in Handler,
             \/ \E start, confirm \in BOOLEAN : Begin(h, start, confirm)
             \/ CommandFailed(h) \/ CommandDone(h) \/ Announce(h)
      PROVE  HeaderInv'
  <2>1. UNCHANGED <<surveyState, consoleVars>>
    BY <1>1 DEF Begin, CommandFailed, CommandDone, Announce
  <2> QED BY <2>1 DEF consoleVars
<1>2. ASSUME NEW h \in Handler, Record(h) PROVE HeaderInv'
  BY <1>2 DEF Record, NewState, Outdated
<1>3. ASSUME Restart PROVE HeaderInv'
  BY <1>3 DEF Restart
<1>4. ASSUME ProvisionServices \/ Disturb PROVE HeaderInv'
  BY <1>4 DEF ProvisionServices, Disturb, consoleVars
<1>5. ASSUME NEW f \in Fetch, Ask(f) PROVE HeaderInv'
  BY <1>5 DEF Ask, agentVars
<1>6. ASSUME NEW f \in Fetch, Read(f) PROVE HeaderInv'
  BY <1>6 DEF Read, agentVars
<1>7. ASSUME NEW f \in Fetch, Lose(f) PROVE HeaderInv'
  BY <1>7 DEF Lose, agentVars
<1>8. ASSUME NEW f \in Fetch, Show(f) PROVE HeaderInv'
  BY <1>8 DEF Show, Shown, agentVars
<1>9. CASE UNCHANGED surveyVars
  BY <1>9 DEF surveyVars, agentVars, consoleVars
<1> QED BY <1>1, <1>2, <1>3, <1>4, <1>5, <1>6, <1>7, <1>8, <1>9 DEF SurveyNext

\* The inductive invariant holds, for every value of the constants.
THEOREM SurveyInvariance == SurveySpec => []SurveyInv
<1>1. SurveyInit => SurveyInv
  <2> SUFFICES ASSUME SurveyInit PROVE SurveyInv
    OBVIOUS
  <2>1. surveyState \in States /\ fetch \in [Fetch -> FetchState] /\ header \in HeaderState
    BY DEF SurveyInit, NoFetch, FetchState, HeaderState, States
  <2>2. SurveyTypeOK
    <3>a. calls = 0 /\ restarts = 0 /\ disturbances = 0
      BY DEF SurveyInit
    <3>1. /\ calls \in 0..MaxCalls
          /\ restarts \in 0..MaxRestarts
          /\ disturbances \in 0..MaxDisturbances
      BY <3>a, SurveyAssumption DEF SurveyAssumption
    <3>2. kismet \in BOOLEAN /\ doubt \in BOOLEAN /\ lastEvent \in States \cup {"none"}
      BY DEF SurveyInit
    <3>3. pc \in [Handler -> {"idle", "command", "ran", "recorded"}]
      BY DEF SurveyInit
    <3>4. want \in [Handler -> BOOLEAN] /\ clean \in [Handler -> BOOLEAN]
      BY DEF SurveyInit
    <3> QED BY <2>1, <3>1, <3>2, <3>3, <3>4 DEF SurveyTypeOK
  <2>3. Busy = {} /\ (~doubt => surveyState = Name(kismet))
    BY DEF SurveyInit, Busy, Name
  <2>4. CleanCalls /\ NoDoubt /\ EventInv
    BY <2>3 DEF SurveyInit, CleanCalls, NoDoubt, EventInv
  <2>5. HeaderInv
    BY DEF SurveyInit, HeaderInv, NoFetch, States
  <2> QED BY <2>2, <2>4, <2>5 DEF SurveyInv
<1>2. SurveyInv /\ [SurveyNext]_surveyVars => SurveyInv'
  BY SurveyTypeStep, CleanStep, DoubtStep, EventStep, HeaderStep DEF SurveyInv
<1> QED BY <1>1, <1>2, PTL DEF SurveySpec

\* The state the agent reports is what Kismet does, unless something interfered
\* (Survey, agent.go:83-92).
THEOREM StateAgrees == SurveySpec => []AgreesUnlessMixed
<1>1. SurveyInv => AgreesUnlessMixed
  BY DEF SurveyInv, NoDoubt, AgreesUnlessMixed
<1> QED BY <1>1, SurveyInvariance, PTL

\* The newest survey event tells the same (Survey, agent.go:89-92).
THEOREM EventsAgree == SurveySpec => []EventsTellState
<1>1. SurveyInv => EventsTellState
  BY DEF SurveyInv, EventInv, EventsTellState
<1> QED BY <1>1, SurveyInvariance, PTL

\* So does the header of the console (dashboard.go:75-80).
THEOREM HeaderAgrees == SurveySpec => []HeaderTellsTruth
<1>1. SurveyInv => HeaderTellsTruth
  BY DEF SurveyInv, NoDoubt, HeaderInv, HeaderTellsTruth
<1> QED BY <1>1, SurveyInvariance, PTL

-----------------------------------------------------------------------------
(* Console: the invariant *)

\* There is one modal, and its field holds the text of its gate only if that was
\* typed into it; what was confirmed passed the gate.
ModalInv ==
    /\ \A t, u \in Task : At(t, "asked") /\ At(u, "asked") => t = u
    /\ \A t \in Task :
           At(t, "asked") /\ gate[t] # NoText /\ typed = gate[t] => t \in retyped
    /\ ConfirmedByTyping

\* A form that waits, or shows nothing, has a submission that is not done, unless
\* it has none; what it shows is the result of one of its own.
FormInv ==
    /\ \A t \in Task : At(t, "none") => kind[t] = "survey"
    /\ \A f \in Form :
           submitting[f] \/ result[f] = NoTask =>
               (\A t \in Task : kind[t] # f) \/ (\E t \in Task : kind[t] = f /\ ~At(t, "done"))
    /\ \A f \in Form : result[f] # NoTask => kind[result[f]] = f

\* The one consumer is begun when the flag is set.
ConsumerInv ==
    consumers.starting + consumers.running <= IF consumerStarted THEN 1 ELSE 0

ConsoleInv == TypeOK /\ ModalInv /\ FormInv /\ ConsumerInv

-----------------------------------------------------------------------------
(* Console: the steps *)

LEMMA InitConsole == Init => ConsoleInv
<1> SUFFICES ASSUME Init PROVE ConsoleInv
  OBVIOUS
<1>1. TypeOK
  <2>1. "other" \in Screen
    <3>1. 1 \in 1..Len(Ring) /\ Ring[1] = "other"
      BY DEF Ring
    <3> QED BY <3>1 DEF Screen
  <2>2. 0 \in 0..MaxProfiles
    BY ConsoleAssumption
  <2>3. "survey" \in Kind /\ "none" \in Stage
    BY DEF Kind, Stage
  <2>4. active \in Screen /\ client \in 0..MaxProfiles /\ loading \in BOOLEAN
    BY <2>1, <2>2 DEF Init
  <2>5. /\ text \in [Form -> Text \cup {NoText}] /\ stage \in [Task -> Stage]
        /\ kind \in [Task -> Kind] /\ gate \in [Task -> Text \cup {NoText}]
        /\ via \in [Task -> 0..MaxProfiles]
    BY <2>2, <2>3 DEF Init
  <2>6. /\ typed \in Text \cup {NoText} /\ submitting \in [Form -> BOOLEAN]
        /\ result \in [Form -> Task \cup {NoTask}]
    BY DEF Init
  <2>7. consumers \in [starting : 0..1, running : 0..1]
    BY DEF Init
  <2>8. /\ consumerStarted \in BOOLEAN /\ disconnected \in BOOLEAN /\ quit \in BOOLEAN
        /\ retyped \subseteq Task
    BY DEF Init
  <2> QED BY <2>4, <2>5, <2>6, <2>7, <2>8 DEF TypeOK
<1>2. ModalInv /\ FormInv /\ ConsumerInv
  BY ConsoleAssumption DEF Init, ModalInv, ConfirmedByTyping, Confirmed, FormInv, ConsumerInv, At,
     Form
<1> QED BY <1>1, <1>2 DEF ConsoleInv

\* The first visit of the survey screen begins a consumer, and no other does.
LEMMA ScreenStep ==
  ASSUME ConsoleInv, NEW screen \in Screen, SetActive(screen) PROVE ConsoleInv'
<1> USE DEF ConsoleInv
<1>1. /\ UNCHANGED <<text, client, loading, stage, kind, gate, via, typed, submitting, result,
                     retyped, quit>>
      /\ active' = screen
  BY DEF SetActive, submissions, forms
<1>2. consumers \in [starting : 0..1, running : 0..1] /\ consumerStarted \in BOOLEAN
  BY DEF TypeOK
<1>3. CASE consumerStarted' # consumerStarted
  <2>1. consumerStarted = FALSE /\ consumerStarted' = TRUE /\ disconnected' = FALSE
        /\ consumers' = [consumers EXCEPT !.starting = @ + 1]
    BY <1>3 DEF SetActive, ConsumerIsStarted, stream
  <2>2. consumers.starting = 0 /\ consumers.running = 0
    BY <1>2, <2>1 DEF ConsumerInv
  <2>3. consumers'.starting = 1 /\ consumers'.running = 0
        /\ consumers' \in [starting : 0..1, running : 0..1]
    BY <1>2, <2>1, <2>2
  <2>4. consumerStarted' \in BOOLEAN /\ disconnected' \in BOOLEAN
    BY <2>1
  <2>5. TypeOK'
    BY <1>1, <2>3, <2>4 DEF TypeOK
  <2>6. ConsumerInv'
    BY <2>1, <2>3 DEF ConsumerInv
  <2> QED BY <1>1, <2>5, <2>6 DEF ModalInv, ConfirmedByTyping, FormInv, At
<1>4. CASE consumerStarted' = consumerStarted
  <2>1. UNCHANGED <<consumerStarted, consumers, disconnected>>
    BY <1>2, <1>4 DEF SetActive, ConsumerIsStarted, stream
  <2>2. TypeOK' /\ ConsumerInv'
    BY <1>1, <2>1 DEF TypeOK, ConsumerInv
  <2> QED BY <1>1, <2>2 DEF ModalInv, ConfirmedByTyping, FormInv, At
<1> QED BY <1>3, <1>4

\* Steps that leave the submissions, the forms and the consumers alone.
LEMMA QuietStep ==
  ASSUME ConsoleInv, TypeOK', UNCHANGED <<submissions, typed, forms, retyped, consumers, consumerStarted>>
  PROVE  ConsoleInv'
BY DEF ConsoleInv, submissions, forms, ModalInv, ConfirmedByTyping, FormInv, ConsumerInv, At

LEMMA MakeStep ==
  ASSUME ConsoleInv, NEW t \in Task, NEW k \in Kind, NEW string \in Text \cup {NoText},
         Make(t, k, string),
         IF k \in Form
         THEN /\ submitting' = [submitting EXCEPT ![k] = TRUE]
              /\ result' = [result EXCEPT ![k] = NoTask]
         ELSE UNCHANGED forms
  PROVE  ConsoleInv'
<1> USE DEF ConsoleInv
<1>1. /\ stage' = [stage EXCEPT ![t] = "requested"] /\ kind' = [kind EXCEPT ![t] = k]
      /\ gate' = [gate EXCEPT ![t] = string] /\ stage[t] = "none"
      /\ UNCHANGED <<active, text, client, loading, via, typed, consumerStarted, consumers,
                     disconnected, retyped, quit>>
  BY DEF Make, Goto, At, stream
<1>2. /\ stage \in [Task -> Stage] /\ kind \in [Task -> Kind]
      /\ gate \in [Task -> Text \cup {NoText}]
      /\ submitting \in [Form -> BOOLEAN] /\ result \in [Form -> Task \cup {NoTask}]
  BY DEF TypeOK
<1>3. /\ submitting' \in [Form -> BOOLEAN] /\ result' \in [Form -> Task \cup {NoTask}]
      /\ \A f \in Form \ {k} : submitting'[f] = submitting[f] /\ result'[f] = result[f]
      /\ k \in Form => result'[k] = NoTask
  BY <1>2 DEF forms
<1>4. TypeOK'
  BY <1>1, <1>2, <1>3 DEF TypeOK, Stage
<1>5. ModalInv'
  BY <1>1, <1>2 DEF ModalInv, ConfirmedByTyping, Confirmed, At
<1>6. FormInv'
  <2>1. \A u \in Task : IF u = t THEN stage'[u] = "requested" /\ kind'[u] = k
                        ELSE stage'[u] = stage[u] /\ kind'[u] = kind[u]
    BY <1>1, <1>2
  <2>2. kind[t] = "survey" /\ "survey" \notin Form
    BY <1>1 DEF FormInv, At, Form
  <2>3. ASSUME NEW f \in Form, submitting'[f] \/ result'[f] = NoTask
        PROVE  (\A u \in Task : kind'[u] # f) \/ (\E u \in Task : kind'[u] = f /\ stage'[u] # "done")
    <3>1. CASE f = k
      BY <2>1, <3>1
    <3>2. CASE f # k
      <4>1. (\A u \in Task : kind[u] # f) \/ (\E u \in Task : kind[u] = f /\ stage[u] # "done")
        BY <1>3, <2>3, <3>2 DEF FormInv, At
      <4>2. ASSUME NEW u \in Task, kind[u] = f, stage[u] # "done"
            PROVE  kind'[u] = f /\ stage'[u] # "done"
        BY <2>1, <2>2, <4>2
      <4> QED BY <2>1, <3>2, <4>1, <4>2
    <3> QED BY <3>1, <3>2
  <2>4. ASSUME NEW f \in Form, result'[f] # NoTask PROVE kind'[result'[f]] = f
    <3>1. f # k /\ result'[f] = result[f]
      BY <1>3, <2>4
    <3>2. result[f] \in Task /\ kind[result[f]] = f /\ result[f] # t
      BY <1>2, <2>2, <2>4, <3>1 DEF FormInv
    <3> QED BY <2>1, <3>1, <3>2
  <2> QED BY <2>1, <2>3, <2>4 DEF FormInv, At
<1>7. ConsumerInv'
  BY <1>1 DEF ConsumerInv
<1> QED BY <1>4, <1>5, <1>6, <1>7

\* A new modal has an empty field, and replaces the one that is open.
LEMMA OpenStep == ASSUME ConsoleInv, NEW t \in Task, OpenModal(t) PROVE ConsoleInv'
<1> USE DEF ConsoleInv
<1>1. /\ stage' = [u \in Task |-> IF u = t THEN "asked"
                                  ELSE IF stage[u] = "asked" THEN "dropped" ELSE stage[u]]
      /\ stage[t] = "requested" /\ typed' = NoText
      /\ UNCHANGED <<active, text, client, loading, kind, gate, via, submitting, result,
                     consumerStarted, consumers, disconnected, retyped, quit>>
  BY DEF OpenModal, At, FieldOfModal, forms, stream
<1>2. stage \in [Task -> Stage]
  BY DEF TypeOK
<1>3. TypeOK'
  BY <1>1, <1>2 DEF TypeOK, Stage
<1>4. ModalInv'
  BY <1>1 DEF ModalInv, ConfirmedByTyping, Confirmed, At
<1>5. FormInv' /\ ConsumerInv'
  BY <1>1 DEF FormInv, ConsumerInv, At
<1> QED BY <1>3, <1>4, <1>5

LEMMA TypeIntoStep ==
  ASSUME ConsoleInv, NEW t \in Task, NEW string \in Text \cup {NoText}, TypeIntoModal(t, string)
  PROVE  ConsoleInv'
<1> USE DEF ConsoleInv
<1>1. /\ stage[t] = "asked" /\ typed' = string
      /\ retyped' = IF string = gate[t] THEN retyped \cup {t} ELSE retyped
      /\ UNCHANGED <<active, text, client, loading, stage, kind, gate, via, submitting, result,
                     consumerStarted, consumers, disconnected, quit>>
  BY DEF TypeIntoModal, At, submissions, forms, stream
<1>2. TypeOK'
  BY <1>1 DEF TypeOK
<1>3. ModalInv'
  BY <1>1 DEF ModalInv, ConfirmedByTyping, At
<1>4. FormInv' /\ ConsumerInv'
  BY <1>1 DEF FormInv, ConsumerInv, At
<1> QED BY <1>2, <1>3, <1>4

\* A submission goes on, one that was asked for only past its gate.
LEMMA ProgressStep ==
  ASSUME ConsoleInv, NEW t \in Task, NEW next \in Stage, next \notin {"none", "asked", "done"},
         Goto(t, next), typed' \in {typed, NoText}, ~At(t, "none"), ~At(t, "done"),
         next \in Confirmed => stage[t] \in Confirmed \/ (At(t, "asked") /\ Matches(t)),
         via' \in [Task -> 0..MaxProfiles],
         UNCHANGED <<active, text, client, loading, kind, gate, forms, stream, retyped, quit>>
  PROVE  ConsoleInv'
<1> USE DEF ConsoleInv
<1>1. /\ stage' = [stage EXCEPT ![t] = next] /\ stage \in [Task -> Stage]
      /\ UNCHANGED <<submitting, result, consumerStarted, consumers, disconnected>>
  BY DEF Goto, forms, stream, TypeOK
<1>2. \A u \in Task : IF u = t THEN stage'[u] = next ELSE stage'[u] = stage[u]
  BY <1>1
<1>3. TypeOK'
  BY <1>1 DEF TypeOK
<1>4. ModalInv'
  <2>1. \A u \in Task : At(u, "asked")' => At(u, "asked")
    BY <1>2 DEF At
  <2>2. \A u \in Task : At(u, "asked") /\ gate[u] # NoText /\ typed = gate[u] => u \in retyped
    BY DEF ModalInv
  <2>3. ASSUME NEW u \in Task, At(u, "asked")', gate[u] # NoText, typed' = gate[u]
        PROVE  u \in retyped
    BY <2>1, <2>2, <2>3
  <2>4. ASSUME NEW u \in Task, stage'[u] \in Confirmed, gate[u] # NoText PROVE u \in retyped
    <3>1. CASE stage[u] \in Confirmed
      BY <2>4, <3>1 DEF ModalInv, ConfirmedByTyping
    <3>2. CASE stage[u] \notin Confirmed
      <4>1. u = t /\ At(t, "asked") /\ Matches(t)
        BY <1>2, <2>4, <3>2
      <4> QED BY <2>2, <2>4, <4>1 DEF Matches
    <3> QED BY <3>1, <3>2
  <2> QED BY <2>1, <2>3, <2>4 DEF ModalInv, ConfirmedByTyping
<1>5. FormInv'
  <2>1. \A u \in Task : (At(u, "done")' <=> At(u, "done")) /\ (At(u, "none")' <=> At(u, "none"))
    BY <1>2 DEF At
  <2> QED BY <1>1, <2>1 DEF FormInv
<1>6. ConsumerInv'
  BY <1>1 DEF ConsumerInv
<1> QED BY <1>3, <1>4, <1>5, <1>6

\* The result of a submission ends the wait of its form, whichever it waits for.
LEMMA ResultStep == ASSUME ConsoleInv, NEW t \in Task, RecvResult(t) PROVE ConsoleInv'
<1> USE DEF ConsoleInv
<1>1. /\ stage' = [stage EXCEPT ![t] = "done"] /\ stage[t] = "answered"
      /\ stage \in [Task -> Stage]
      /\ submitting' = [f \in Form |-> IF f = kind[t] THEN FALSE ELSE submitting[f]]
      /\ result' = [f \in Form |-> IF f = kind[t] THEN t ELSE result[f]]
      /\ UNCHANGED <<active, text, client, loading, kind, gate, via, typed, consumerStarted,
                     consumers, disconnected, retyped, quit>>
  BY DEF RecvResult, Goto, At, AfterResult, stream, TypeOK
<1>2. \A u \in Task : IF u = t THEN stage'[u] = "done" ELSE stage'[u] = stage[u]
  BY <1>1
<1>3. TypeOK'
  BY <1>1 DEF TypeOK, Stage
<1>4. ModalInv'
  BY <1>1, <1>2 DEF ModalInv, ConfirmedByTyping, Confirmed, At
<1>5. FormInv'
  <2>1. ASSUME NEW f \in Form, submitting'[f] \/ result'[f] = NoTask
        PROVE  (\A u \in Task : kind[u] # f) \/ (\E u \in Task : kind[u] = f /\ stage'[u] # "done")
    <3>1. f # kind[t]
      BY <1>1, <2>1, ConsoleAssumption
    <3>2. (\A u \in Task : kind[u] # f) \/ (\E u \in Task : kind[u] = f /\ stage[u] # "done")
      BY <1>1, <2>1, <3>1 DEF FormInv, At
    <3> QED BY <1>2, <3>1, <3>2
  <2>2. \A f \in Form : result'[f] # NoTask => kind[result'[f]] = f
    BY <1>1 DEF FormInv
  <2>3. \A u \in Task : stage'[u] = "none" => kind[u] = "survey"
    BY <1>2 DEF FormInv, At
  <2> QED BY <1>1, <2>1, <2>2, <2>3 DEF FormInv, At
<1>6. ConsumerInv'
  BY <1>1 DEF ConsumerInv
<1> QED BY <1>3, <1>4, <1>5, <1>6

\* The consumer that was begun runs, or ends at once.
LEMMA ConsumerStep == ASSUME ConsoleInv, StartConsumer PROVE ConsoleInv'
<1> USE DEF ConsoleInv
<1>1. UNCHANGED <<active, text, client, loading, stage, kind, gate, via, typed, submitting,
                  result, consumerStarted, retyped, quit>>
  BY DEF StartConsumer, submissions, forms
<1>2. consumers \in [starting : 0..1, running : 0..1] /\ disconnected \in BOOLEAN
      /\ consumers.starting + consumers.running <= 1 /\ consumers.starting > 0
      /\ consumerStarted
  BY DEF TypeOK, ConsumerInv, StartConsumer
<1>3. consumers.starting = 1 /\ consumers.running = 0
  BY <1>2
<1>4. consumers' = [starting |-> 0, running |-> 1] \/ consumers' = [starting |-> 0, running |-> 0]
  BY <1>2, <1>3 DEF StartConsumer
<1>5. disconnected' \in BOOLEAN
  BY <1>2 DEF StartConsumer
<1>6. TypeOK' /\ ConsumerInv'
  BY <1>1, <1>2, <1>4, <1>5 DEF TypeOK, ConsumerInv
<1> QED BY <1>1, <1>6 DEF ModalInv, ConfirmedByTyping, FormInv, At

LEMMA ConsoleStep == ASSUME ConsoleInv, [Next]_vars PROVE ConsoleInv'
<1>a. TypeOK
  BY DEF ConsoleInv
<1>1. CASE PressBracket
  <2>1. \A j \in 1..Len(Ring) : Ring[j] \in Screen
    BY DEF Screen
  <2>2. PICK j \in 1..Len(Ring) : SetActive(Ring[j])
    BY <1>1 DEF PressBracket
  <2> QED BY <2>1, <2>2, ScreenStep
<1>2. ASSUME NEW screen \in Screen, PressDigit(screen) PROVE ConsoleInv'
  BY <1>2, ScreenStep DEF PressDigit
<1>3. ASSUME NEW f \in Form, NEW string \in Text \cup {NoText}, Edit(f, string)
      PROVE  ConsoleInv'
  <2>1. TypeOK'
    BY <1>a, <1>3 DEF Edit, TypeOK, submissions, forms, stream
  <2> QED BY <1>3, <2>1, QuietStep DEF Edit, stream
<1>4. CASE LoadSucceeds \/ LoadFails \/ ImportProfile \/ Quit \/ UNCHANGED vars
  <2>1. client' \in 0..MaxProfiles
    BY <1>a, <1>4, ConsoleAssumption
       DEF LoadSucceeds, LoadFails, ImportProfile, Quit, vars, TypeOK
  <2>2. loading' \in BOOLEAN /\ quit' \in BOOLEAN
        /\ UNCHANGED <<active, text, submissions, typed, forms, stream, retyped>>
    BY <1>a, <1>4 DEF LoadSucceeds, LoadFails, ImportProfile, Quit, vars, TypeOK
  <2>3. TypeOK'
    BY <1>a, <2>1, <2>2 DEF TypeOK, submissions, forms, stream
  <2> QED BY <2>2, <2>3, QuietStep DEF stream
<1>5. ASSUME NEW t \in Task, NEW f \in Form, Submit(t, f) PROVE ConsoleInv'
  <2>1. f \in Kind /\ text[f] \in Text \cup {NoText}
    BY <1>a DEF Kind, TypeOK
  <2> QED BY <1>5, <2>1, MakeStep DEF Submit
<1>6. ASSUME NEW t \in Task, PressSurvey(t) PROVE ConsoleInv'
  <2>1. "survey" \in Kind /\ "survey" \notin Form /\ NoText \in Text \cup {NoText}
    BY DEF Kind, Form
  <2> QED BY <1>6, <2>1, MakeStep DEF PressSurvey
<1>7. ASSUME NEW t \in Task, OpenModal(t) PROVE ConsoleInv'
  BY <1>7, OpenStep
<1>8. ASSUME NEW t \in Task, NEW string \in Text \cup {NoText}, TypeIntoModal(t, string)
      PROVE  ConsoleInv'
  BY <1>8, TypeIntoStep
<1>9. ASSUME NEW t \in Task, Accept(t) \/ Dismiss(t) \/ BeginCommand(t) \/ Request(t) \/ Answer(t)
      PROVE  ConsoleInv'
  <2>1. PICK next \in {"queued", "dropped", "waiting", "calling", "answered"} :
           /\ Goto(t, next)
           /\ typed' \in {typed, NoText} /\ ~At(t, "none") /\ ~At(t, "done")
           /\ next \in Confirmed => stage[t] \in Confirmed \/ (At(t, "asked") /\ Matches(t))
           /\ UNCHANGED <<active, text, client, loading, kind, gate, forms, stream, retyped, quit>>
    <3>1. CASE Accept(t)
      BY <3>1 DEF Accept, CloseModal, At
    <3>2. CASE Dismiss(t)
      BY <3>2 DEF Dismiss, CloseModal, At, Confirmed
    <3>3. CASE BeginCommand(t)
      BY <3>3 DEF BeginCommand, At, Confirmed
    <3>4. CASE Request(t)
      BY <3>4 DEF Request, At, Confirmed
    <3>5. CASE Answer(t)
      BY <3>5 DEF Answer, At, Confirmed
    <3> QED BY <1>9, <3>1, <3>2, <3>3, <3>4, <3>5
  <2>2. via' \in [Task -> 0..MaxProfiles]
    BY <1>a, <1>9 DEF Accept, Dismiss, CloseModal, BeginCommand, Request, Answer, TypeOK
  <2>3. next \in Stage /\ next \notin {"none", "asked", "done"}
    BY DEF Stage
  <2> QED BY <2>1, <2>2, <2>3, ProgressStep
<1>10. ASSUME NEW t \in Task, RecvResult(t) PROVE ConsoleInv'
  BY <1>10, ResultStep
<1>11. CASE StartConsumer
  BY <1>11, ConsumerStep
<1> QED
  BY <1>1, <1>2, <1>3, <1>4, <1>5, <1>6, <1>7, <1>8, <1>9, <1>10, <1>11 DEF Next

-----------------------------------------------------------------------------
(* Console: the theorems *)

\* The invariant holds in whatever order commands end and modals replace each
\* other.
THEOREM ConsoleInvariance == Spec => []ConsoleInv
<1> QED BY InitConsole, ConsoleStep, PTL DEF Spec

\* Screens, submissions, forms and consumers have their types.
THEOREM ConsoleTypeCorrect == Spec => []TypeOK
<1> QED BY ConsoleInvariance, PTL DEF ConsoleInv

\* What runs was typed into its own modal: newTypedConfirm makes an empty field,
\* and a modal that is replaced takes what was typed into it along.
THEOREM ConfirmationCorrect == Spec => []ConfirmedByTyping
<1> QED BY ConsoleInvariance, PTL DEF ConsoleInv, ModalInv

\* A form all of whose submissions are done shows a result of one of its own, and
\* no spinner, in whatever order the answers came.
THEOREM ResultCorrect == Spec => []ResultIsShown
<1>1. ConsoleInv => ResultIsShown
  <2> SUFFICES ASSUME ConsoleInv, NEW f \in Form, NEW t \in Task, kind[t] = f,
                      \A u \in Task : kind[u] = f => At(u, "done")
               PROVE  ~submitting[f] /\ result[f] \in Task /\ kind[result[f]] = f
    BY DEF ResultIsShown
  <2>1. ~submitting[f] /\ result[f] # NoTask
    BY DEF ConsoleInv, FormInv
  <2> QED BY <2>1 DEF ConsoleInv, FormInv, TypeOK
<1> QED BY <1>1, ConsoleInvariance, PTL

\* There are never two consumers of the live events: Activate begins one at the
\* first visit of the survey screen only.
THEOREM ConsumerCorrect == Spec => []OneConsumer
<1>1. ConsoleInv => OneConsumer
  BY DEF ConsoleInv, ConsumerInv, TypeOK, OneConsumer
<1> QED BY <1>1, ConsoleInvariance, PTL

=============================================================================
