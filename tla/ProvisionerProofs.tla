-------------------------- MODULE ProvisionerProofs --------------------------
(***************************************************************************)
(* Proofs about Provisioner, for every set of handlers and requests and    *)
(* any number of crashes.                                                  *)
(***************************************************************************)
EXTENDS Provisioner, TLAPS

\* The checkpoints and where they stand in Run.
LEMMA CheckpointFacts ==
    /\ Checkpoint = {"backup", "packages", "configure", "services", "health"}
    /\ \A i \in StepIndex : Checkpoints[i] \in {"packages", "configure", "services"}
    /\ Checkpoints[1] = "backup" /\ Checkpoints[2] = "packages"
    /\ Checkpoints[3] = "configure" /\ Checkpoints[4] = "services"
    /\ Checkpoints[5] = "health"
    /\ StepIndex = {2, 3, 4}
<1>1. /\ Checkpoints[1] = "backup" /\ Checkpoints[2] = "packages"
      /\ Checkpoints[3] = "configure" /\ Checkpoints[4] = "services"
      /\ Checkpoints[5] = "health"
  BY DEF Checkpoints
<1>2. 1..5 = {1, 2, 3, 4, 5} /\ StepIndex = {2, 3, 4}
  BY DEF StepIndex
<1> QED
  BY <1>1, <1>2 DEF Checkpoint

\* StepsInOrder, spelled out.
LEMMA OrderSpelledOut ==
    StepsInOrder <=>
        \A id \in Id :
            /\ "packages" \in ran[id] => "backup" \in ran[id]
            /\ "configure" \in ran[id] => {"backup", "packages"} \subseteq ran[id]
            /\ "services" \in ran[id] => {"backup", "packages", "configure"} \subseteq ran[id]
            /\ "health" \in ran[id] =>
                   {"backup", "packages", "configure", "services"} \subseteq ran[id]
<1>1. 1..5 = {1, 2, 3, 4, 5}
  OBVIOUS
<1> QED
  BY <1>1, CheckpointFacts DEF StepsInOrder

\* The same of the next state.
LEMMA OrderPrimed ==
    (\A id \in Id :
         /\ "packages" \in ran'[id] => "backup" \in ran'[id]
         /\ "configure" \in ran'[id] => {"backup", "packages"} \subseteq ran'[id]
         /\ "services" \in ran'[id] => {"backup", "packages", "configure"} \subseteq ran'[id]
         /\ "health" \in ran'[id] =>
                {"backup", "packages", "configure", "services"} \subseteq ran'[id])
    => StepsInOrder'
<1>1. 1..5 = {1, 2, 3, 4, 5}
  OBVIOUS
<1> QED
  BY <1>1, CheckpointFacts DEF StepsInOrder

\* The loop is over: each of its steps is completed.
LEMMA LoopOver ==
    ASSUME NEW h \in Handler, AtHealthCheck(h)
    PROVE  {"packages", "configure", "services"} \subseteq job[h].completed
<1>1. \A i \in {2, 3, 4} : ~(/\ Checkpoints[i] \notin job[h].completed
                             /\ \A k \in {2, 3, 4} : k < i => Checkpoints[k] \in job[h].completed)
  BY CheckpointFacts DEF AtHealthCheck, IsNext
<1>2. Checkpoints[2] \in job[h].completed
  BY <1>1
<1>3. Checkpoints[3] \in job[h].completed
  BY <1>1, <1>2
<1>4. Checkpoints[4] \in job[h].completed
  BY <1>1, <1>2, <1>3
<1> QED
  BY <1>2, <1>3, <1>4, CheckpointFacts

-----------------------------------------------------------------------------
(* What the actions have in common *)

\* A call that ends leaves the other handlers as they are.
LEMMA ReturnFacts ==
    ASSUME TypeOK, NEW h \in Handler, Return(h)
    PROVE  /\ pc' \in [Handler -> {"idle", "preflight", "backup", "steps", "run"}]
           /\ call' \in [Handler -> Request]
           /\ job' \in [Handler -> Job]
           /\ pc'[h] = "idle"
           /\ \A g \in Handler : g # h => /\ pc'[g] = pc[g]
                                          /\ call'[g] = call[g]
                                          /\ job'[g] = job[g]
<1>1. NoRequest \in Request
  BY ProvisionerAssumption DEF NoRequest, Request
<1>2. NewJob \in Job
  BY DEF NewJob, Job
<1> QED
  BY <1>1, <1>2 DEF Return, TypeOK

\* A handler writes a job that is not a success, with no checkpoint beyond
\* those of its copy, and returns.
LEMMA PutAndReturn ==
    ASSUME IInv, NEW h \in Handler, Active(h), NEW j \in Job,
           j.completed = job[h].completed, j.state # "succeeded",
           Put(call[h].id, j), Return(h),
           UNCHANGED <<ran, interrupted, overlapped, crashes>>
    PROVE  IInv'
<1>1. TypeOK /\ call[h].id \in Id
  BY DEF IInv, TypeOK, Request
<1>2. /\ jobs' \in [Id -> Job]
      /\ jobs'[call[h].id] = j
      /\ \A id \in Id : id # call[h].id => jobs'[id] = jobs[id]
  BY <1>1 DEF Put, TypeOK
<1>3. /\ pc' \in [Handler -> {"idle", "preflight", "backup", "steps", "run"}]
      /\ call' \in [Handler -> Request]
      /\ job' \in [Handler -> Job]
      /\ pc'[h] = "idle"
      /\ \A g \in Handler : g # h => /\ pc'[g] = pc[g]
                                     /\ call'[g] = call[g]
                                     /\ job'[g] = job[g]
  BY <1>1, ReturnFacts
<1>4. TypeOK'
  BY <1>1, <1>2, <1>3 DEF TypeOK
<1>5. CheckpointsHonest'
  BY <1>1, <1>2, <1>3 DEF IInv, CheckpointsHonest, Active
<1>6. StepsInOrder'
  BY DEF IInv, StepsInOrder
<1>7. SuccessIsComplete'
  BY <1>2 DEF IInv, SuccessIsComplete
<1>8. CopyMatchesPc'
  BY <1>3 DEF IInv, CopyMatchesPc, Active, IsNext
<1>9. HealthMeansSuccess'
  BY <1>2 DEF IInv, HealthMeansSuccess, CopyMatchesPc
<1> QED
  BY <1>4, <1>5, <1>6, <1>7, <1>8, <1>9 DEF IInv

\* Every failure is such a write.
LEMMA FailIInv ==
    ASSUME IInv, NEW h \in Handler, Active(h),
           NEW phase \in Checkpoint \cup {"preflight"}, Fail(h, phase)
    PROVE  IInv'
<1>1. job[h].completed \in SUBSET Checkpoint
  BY DEF IInv, TypeOK, Job
<1>2. Failed(job[h], phase) \in Job
  BY <1>1 DEF Failed, Job
<1>3. /\ Failed(job[h], phase).completed = job[h].completed
      /\ Failed(job[h], phase).state # "succeeded"
  BY DEF Failed
<1>4. /\ Put(call[h].id, Failed(job[h], phase)) /\ Return(h)
      /\ UNCHANGED <<ran, interrupted, overlapped, crashes>>
  BY DEF Fail
<1> HIDE DEF Failed
<1> QED
  BY <1>2, <1>3, <1>4, PutAndReturn

-----------------------------------------------------------------------------
(* The actions *)

LEMMA InitIInv == Init => IInv
<1> SUFFICES ASSUME Init PROVE IInv
  OBVIOUS
<1>1. NewJob \in Job /\ NoRequest \in Request
  BY ProvisionerAssumption DEF NewJob, Job, NoRequest, Request
<1>2. NewJob.completed = {} /\ NewJob.state = "queued"
  BY DEF NewJob
<1>3. TypeOK
  BY <1>1, ProvisionerAssumption DEF Init, TypeOK
<1>4. CheckpointsHonest /\ SuccessIsComplete /\ CopyMatchesPc /\ HealthMeansSuccess
  BY <1>2 DEF Init, CheckpointsHonest, SuccessIsComplete, CopyMatchesPc,
              HealthMeansSuccess, Active
<1>5. StepsInOrder
  BY DEF Init, StepsInOrder
<1> QED
  BY <1>3, <1>4, <1>5 DEF IInv

\* A call begins with the stored job as its copy.
LEMMA StartIInv ==
    ASSUME IInv, NEW h \in Handler, NEW request \in Request, Start(h, request)
    PROVE  IInv'
<1>1. TypeOK /\ request.id \in Id
  BY DEF IInv, Request
<1>2. /\ pc'[h] = "preflight" /\ call'[h] = request /\ job'[h] = jobs[request.id]
      /\ \A g \in Handler : g # h => /\ pc'[g] = pc[g]
                                     /\ call'[g] = call[g]
                                     /\ job'[g] = job[g]
  BY <1>1 DEF Start, TypeOK
<1>3. TypeOK'
  BY <1>1 DEF Start, TypeOK
<1>4. CheckpointsHonest'
  BY <1>1, <1>2 DEF IInv, Start, CheckpointsHonest, Active
<1>5. StepsInOrder' /\ SuccessIsComplete' /\ HealthMeansSuccess'
  BY DEF IInv, Start, StepsInOrder, SuccessIsComplete, HealthMeansSuccess
<1>6. CopyMatchesPc'
  <2>1. job'[h].state # "succeeded" /\ "health" \notin job'[h].completed
    BY <1>1, <1>2 DEF IInv, Start, Finished, HealthMeansSuccess
  <2> QED
    BY <1>2, <2>1 DEF IInv, CopyMatchesPc, Active, IsNext
<1> QED
  BY <1>3, <1>4, <1>5, <1>6 DEF IInv

LEMMA PreflightPassesIInv ==
    ASSUME IInv, NEW h \in Handler, PreflightPasses(h)
    PROVE  IInv'
<1>1. /\ pc'[h] \in {"backup", "steps"}
      /\ pc'[h] = "steps" => "backup" \in job[h].completed
      /\ \A g \in Handler : g # h => pc'[g] = pc[g]
  BY DEF IInv, TypeOK, PreflightPasses
<1>2. TypeOK'
  BY DEF IInv, TypeOK, PreflightPasses
<1>3. CheckpointsHonest'
  BY <1>1 DEF IInv, PreflightPasses, CheckpointsHonest, Active
<1>4. StepsInOrder' /\ SuccessIsComplete' /\ HealthMeansSuccess'
  BY DEF IInv, PreflightPasses, StepsInOrder, SuccessIsComplete, HealthMeansSuccess
<1>5. CopyMatchesPc'
  BY <1>1 DEF IInv, PreflightPasses, CopyMatchesPc, Active, IsNext
<1> QED
  BY <1>2, <1>3, <1>4, <1>5 DEF IInv

LEMMA NeedsInputIInv ==
    ASSUME IInv, NEW h \in Handler, NeedsInput(h)
    PROVE  IInv'
<1> DEFINE j == [job[h] EXCEPT !.state = "needs_input", !.phase = "confirm_config"]
<1>1. job[h] \in Job
  BY DEF IInv, TypeOK
<1>2. j \in Job /\ j.completed = job[h].completed /\ j.state # "succeeded"
  BY <1>1 DEF Job
<1>3. /\ Active(h) /\ Put(call[h].id, j) /\ Return(h)
      /\ UNCHANGED <<ran, interrupted, overlapped, crashes>>
  BY DEF NeedsInput, Active
<1> HIDE DEF j
<1> QED
  BY <1>2, <1>3, PutAndReturn

\* The host does what the next checkpoint stands for, and the handler's copy
\* takes the checkpoint; all that comes before it has been done.
LEMMA DoneIInv ==
    ASSUME IInv, NEW h \in Handler, NEW c \in {"backup", "packages", "configure", "services"},
           Active(h), pc' = [pc EXCEPT ![h] = "steps"],
           c # "backup" => "backup" \in job[h].completed,
           c = "configure" => "packages" \in job[h].completed,
           c = "services" => {"packages", "configure"} \subseteq job[h].completed,
           job' = [job EXCEPT ![h].completed = @ \cup {c}],
           Done(h, c), UNCHANGED <<jobs, call>>
    PROVE  IInv'
<1>1. TypeOK /\ call[h].id \in Id /\ c \in Checkpoint /\ c # "health"
  BY CheckpointFacts DEF IInv, TypeOK, Request
<1>2. job[h] \in Job
  BY <1>1 DEF TypeOK
<1>3. /\ job'[h].completed = job[h].completed \cup {c}
      /\ job'[h].state = job[h].state
      /\ job'[h] \in Job
  BY <1>1, <1>2 DEF TypeOK, Job
<1>4. /\ pc'[h] = "steps"
      /\ \A g \in Handler : g # h => pc'[g] = pc[g] /\ job'[g] = job[g]
  BY <1>1 DEF TypeOK
<1>5. /\ ran'[call[h].id] = ran[call[h].id] \cup {c}
      /\ \A id \in Id : id # call[h].id => ran'[id] = ran[id]
  BY <1>1 DEF Done, TypeOK
<1>6. TypeOK'
  <2>1. job' \in [Handler -> Job]
    BY <1>1, <1>3, <1>4 DEF TypeOK
  <2> QED
    BY <1>1, <2>1 DEF Done, TypeOK
<1>7. CheckpointsHonest'
  BY <1>1, <1>3, <1>4, <1>5 DEF IInv, CheckpointsHonest, Active, TypeOK, Request
<1>8. StepsInOrder'
  <2>1. job[h].completed \subseteq ran[call[h].id]
    BY DEF IInv, CheckpointsHonest
  <2> QED
    BY <1>1, <1>5, <2>1, OrderSpelledOut, OrderPrimed DEF IInv
<1>9. SuccessIsComplete' /\ HealthMeansSuccess'
  BY DEF IInv, SuccessIsComplete, HealthMeansSuccess
<1>10. CopyMatchesPc'
  BY <1>1, <1>3, <1>4 DEF IInv, CopyMatchesPc, Active, IsNext
<1> QED
  BY <1>6, <1>7, <1>8, <1>9, <1>10 DEF IInv

LEMMA BackupIInv ==
    ASSUME IInv, NEW h \in Handler, Backup(h)
    PROVE  IInv'
<1>1. /\ Active(h) /\ pc' = [pc EXCEPT ![h] = "steps"]
      /\ job' = [job EXCEPT ![h].completed = @ \cup {"backup"}]
      /\ Done(h, "backup") /\ UNCHANGED <<jobs, call>>
  BY DEF Backup, Active
<1> QED
  BY <1>1, DoneIInv

\* The step a handler is at, and what it has completed before it.
LEMMA PhaseFacts ==
    ASSUME IInv, NEW h \in Handler, pc[h] = "run"
    PROVE  /\ job[h].phase \in {"packages", "configure", "services"}
           /\ job[h].phase # "packages" => "packages" \in job[h].completed
           /\ job[h].phase = "services" => "configure" \in job[h].completed
           /\ "backup" \in job[h].completed
<1>1. PICK i \in StepIndex : job[h].phase = Checkpoints[i] /\ IsNext(i, job[h].completed)
  BY DEF IInv, CopyMatchesPc
<1>2. i \in {2, 3, 4} /\ \A k \in {2, 3, 4} : k < i => Checkpoints[k] \in job[h].completed
  BY <1>1, CheckpointFacts DEF IsNext
<1>3. CASE i = 2
  BY <1>1, <1>3, CheckpointFacts DEF IInv, CopyMatchesPc
<1>4. CASE i = 3
  BY <1>1, <1>2, <1>4, CheckpointFacts DEF IInv, CopyMatchesPc
<1>5. CASE i = 4
  BY <1>1, <1>2, <1>5, CheckpointFacts DEF IInv, CopyMatchesPc
<1> QED
  BY <1>2, <1>3, <1>4, <1>5

LEMMA StepIInv ==
    ASSUME IInv, NEW h \in Handler, Step(h)
    PROVE  IInv'
<1>1. /\ Active(h) /\ pc' = [pc EXCEPT ![h] = "steps"]
      /\ job' = [job EXCEPT ![h].completed = @ \cup {job[h].phase}]
      /\ Done(h, job[h].phase) /\ UNCHANGED <<jobs, call>>
  BY DEF Step, Active
<1>2. /\ job[h].phase \in {"packages", "configure", "services"}
      /\ job[h].phase # "packages" => "packages" \in job[h].completed
      /\ job[h].phase = "services" => "configure" \in job[h].completed
      /\ "backup" \in job[h].completed
  BY PhaseFacts DEF Step
<1> QED
  BY <1>1, <1>2, DoneIInv

LEMMA BeginStepIInv ==
    ASSUME IInv, NEW h \in Handler, BeginStep(h)
    PROVE  IInv'
<1>1. PICK i \in StepIndex :
          /\ IsNext(i, job[h].completed)
          /\ Put(call[h].id, Running(job[h], i))
          /\ job' = [job EXCEPT ![h] = Running(job[h], i)]
  BY DEF BeginStep
<1> DEFINE j == Running(job[h], i)
<1>2. TypeOK /\ call[h].id \in Id /\ job[h] \in Job
  BY DEF IInv, TypeOK, Request
<1>3. /\ j \in Job /\ j.completed = job[h].completed
      /\ j.state = "running" /\ j.phase = Checkpoints[i]
  BY <1>2, CheckpointFacts DEF Running, Job
<1> HIDE DEF j
<1>4. /\ jobs' \in [Id -> Job] /\ jobs'[call[h].id] = j
      /\ \A id \in Id : id # call[h].id => jobs'[id] = jobs[id]
  BY <1>1, <1>2, <1>3 DEF Put, TypeOK, j
<1>5. /\ job' \in [Handler -> Job] /\ job'[h] = j
      /\ \A g \in Handler : g # h => job'[g] = job[g]
  BY <1>1, <1>2, <1>3 DEF TypeOK, j
<1>6. /\ pc[h] = "steps" /\ pc' = [pc EXCEPT ![h] = "run"]
      /\ UNCHANGED <<call, ran, interrupted, overlapped, crashes>>
  BY DEF BeginStep
<1>7. TypeOK'
  BY <1>2, <1>4, <1>5, <1>6 DEF TypeOK
<1>8. /\ job[h].completed \subseteq ran[call[h].id] /\ "health" \notin job[h].completed
      /\ "backup" \in job[h].completed
  BY <1>6 DEF IInv, CheckpointsHonest, CopyMatchesPc, Active
<1>9. CheckpointsHonest'
  BY <1>2, <1>3, <1>4, <1>5, <1>6, <1>8 DEF IInv, CheckpointsHonest, Active, TypeOK
<1>10. StepsInOrder'
  BY <1>6 DEF IInv, StepsInOrder
<1>11. SuccessIsComplete' /\ HealthMeansSuccess'
  BY <1>3, <1>4, <1>8 DEF IInv, SuccessIsComplete, HealthMeansSuccess
<1>12. CopyMatchesPc'
  BY <1>1, <1>2, <1>3, <1>5, <1>6, <1>8 DEF IInv, CopyMatchesPc, Active, IsNext, TypeOK
<1> QED
  BY <1>7, <1>9, <1>10, <1>11, <1>12 DEF IInv

LEMMA SucceedIInv ==
    ASSUME IInv, NEW h \in Handler, Succeed(h)
    PROVE  IInv'
<1> DEFINE j == Succeeded(job[h])
<1>1. TypeOK /\ call[h].id \in Id /\ job[h] \in Job
  BY DEF IInv, TypeOK, Request
<1>2. /\ job[h].completed \subseteq ran[call[h].id]
      /\ {"backup", "packages", "configure", "services"} \subseteq job[h].completed
      /\ Active(h)
  BY LoopOver DEF Succeed, AtHealthCheck, IInv, CheckpointsHonest, CopyMatchesPc, Active
<1>3. j \in Job /\ j.completed = Checkpoint /\ j.state = "succeeded"
  BY <1>1, <1>2, CheckpointFacts DEF Succeeded, Job
<1> HIDE DEF j
<1>4. /\ jobs' \in [Id -> Job] /\ jobs'[call[h].id] = j
      /\ \A id \in Id : id # call[h].id => jobs'[id] = jobs[id]
  BY <1>1, <1>3 DEF Succeed, Put, TypeOK, j
<1>5. /\ pc' \in [Handler -> {"idle", "preflight", "backup", "steps", "run"}]
      /\ call' \in [Handler -> Request]
      /\ job' \in [Handler -> Job]
      /\ pc'[h] = "idle"
      /\ \A g \in Handler : g # h => /\ pc'[g] = pc[g]
                                     /\ call'[g] = call[g]
                                     /\ job'[g] = job[g]
  BY <1>1, ReturnFacts DEF Succeed
<1>6. /\ ran'[call[h].id] = ran[call[h].id] \cup {"health"}
      /\ \A id \in Id : id # call[h].id => ran'[id] = ran[id]
      /\ ran' \in [Id -> SUBSET Checkpoint] /\ UNCHANGED <<interrupted, overlapped, crashes>>
  BY <1>1, CheckpointFacts DEF Succeed, Done, TypeOK
<1>7. TypeOK'
  BY <1>1, <1>4, <1>5, <1>6 DEF TypeOK
<1>8. CheckpointsHonest'
  <2>1. \A id \in Id : ran[id] \subseteq ran'[id]
    BY <1>6
  <2>2. ran'[call[h].id] = Checkpoint
    <3>1. ran'[call[h].id] \subseteq Checkpoint
      BY <1>1, <1>6
    <3> QED
      BY <1>2, <1>6, <3>1, CheckpointFacts
  <2>3. \A id \in Id : jobs'[id].completed \subseteq ran'[id]
    BY <1>3, <1>4, <2>1, <2>2 DEF IInv, CheckpointsHonest
  <2>4. \A g \in Handler : Active(g)' => job'[g].completed \subseteq ran'[call'[g].id]
    <3> SUFFICES ASSUME NEW g \in Handler, Active(g)'
                 PROVE  job'[g].completed \subseteq ran'[call'[g].id]
      OBVIOUS
    <3>1. g # h /\ Active(g) /\ job'[g] = job[g] /\ call'[g] = call[g]
      BY <1>5 DEF Active
    <3>2. job[g].completed \subseteq ran[call[g].id] /\ call[g].id \in Id
      BY <1>1, <3>1 DEF IInv, CheckpointsHonest, TypeOK, Request
    <3> QED
      BY <2>1, <3>1, <3>2
  <2> QED
    BY <2>3, <2>4 DEF CheckpointsHonest, Active
<1>9. StepsInOrder'
  BY <1>2, <1>6, OrderSpelledOut, OrderPrimed DEF IInv
<1>10. SuccessIsComplete' /\ HealthMeansSuccess'
  BY <1>3, <1>4 DEF IInv, SuccessIsComplete, HealthMeansSuccess
<1>11. CopyMatchesPc'
  BY <1>5 DEF IInv, CopyMatchesPc, Active, IsNext
<1> QED
  BY <1>7, <1>8, <1>9, <1>10, <1>11 DEF IInv

LEMMA CrashIInv == ASSUME IInv, Crash PROVE IInv'
<1>1. NewJob \in Job /\ NoRequest \in Request
  BY ProvisionerAssumption DEF NewJob, Job, NoRequest, Request
<1>2. TypeOK'
  BY <1>1, ProvisionerAssumption DEF IInv, Crash, TypeOK, Request
<1>3. CheckpointsHonest' /\ CopyMatchesPc'
  BY DEF IInv, Crash, CheckpointsHonest, CopyMatchesPc, Active
<1>4. StepsInOrder' /\ SuccessIsComplete' /\ HealthMeansSuccess'
  BY DEF IInv, Crash, StepsInOrder, SuccessIsComplete, HealthMeansSuccess
<1> QED
  BY <1>2, <1>3, <1>4 DEF IInv

LEMMA StutterIInv == ASSUME IInv, UNCHANGED vars PROVE IInv'
BY DEF vars, IInv, TypeOK, CheckpointsHonest, StepsInOrder, SuccessIsComplete,
       CopyMatchesPc, HealthMeansSuccess, Active, IsNext

-----------------------------------------------------------------------------
(* The invariant *)

LEMMA ContinueIInv ==
    ASSUME IInv, NEW h \in Handler, Continue(h)
    PROVE  IInv'
<1>1. CASE PreflightFails(h)
  BY <1>1, FailIInv DEF PreflightFails, Active
<1>2. CASE PreflightPasses(h)
  BY <1>2, PreflightPassesIInv
<1>3. CASE NeedsInput(h)
  BY <1>3, NeedsInputIInv
<1>4. CASE BackupFails(h)
  BY <1>4, FailIInv, CheckpointFacts DEF BackupFails, Active
<1>5. CASE Backup(h)
  BY <1>5, BackupIInv
<1>6. CASE BeginStep(h)
  BY <1>6, BeginStepIInv
<1>7. CASE StepFails(h)
  BY <1>7, PhaseFacts, FailIInv, CheckpointFacts DEF StepFails, Active
<1>8. CASE Step(h)
  BY <1>8, StepIInv
<1>9. CASE HealthFails(h)
  BY <1>9, FailIInv, CheckpointFacts DEF HealthFails, AtHealthCheck, Active
<1>10. CASE Succeed(h)
  BY <1>10, SucceedIInv
<1> QED
  BY <1>1, <1>2, <1>3, <1>4, <1>5, <1>6, <1>7, <1>8, <1>9, <1>10 DEF Continue

LEMMA StepKeepsIInv == IInv /\ [Next]_vars => IInv'
<1> SUFFICES ASSUME IInv, [Next]_vars PROVE IInv'
  OBVIOUS
<1>1. CASE \E h \in Handler : \E request \in Request : Start(h, request)
  BY <1>1, StartIInv
<1>2. CASE \E h \in Handler : Continue(h)
  BY <1>2, ContinueIInv
<1>3. CASE Crash
  BY <1>3, CrashIInv
<1>4. CASE UNCHANGED vars
  BY <1>4, StutterIInv
<1> QED
  BY <1>1, <1>2, <1>3, <1>4 DEF Next

\* Provisioner.Run: the invariant holds whatever calls overlap and wherever
\* the agent stops.
THEOREM Invariance == Spec => []IInv
<1>1. Init => IInv
  BY InitIInv
<1>2. IInv /\ [Next]_vars => IInv'
  BY StepKeepsIInv
<1> QED
  BY <1>1, <1>2, PTL DEF Spec

\* Provisioner.Run keeps the types of its job and of the store.
THEOREM TypeCorrect == Spec => []TypeOK
BY Invariance, PTL DEF IInv

\* Provisioner.Run and FileJobs: a checkpoint that is stored has been reached.
THEOREM HonestCorrect == Spec => []CheckpointsHonest
BY Invariance, PTL DEF IInv

\* Provisioner.Run: nothing is done to the host before what comes before it.
THEOREM OrderCorrect == Spec => []StepsInOrder
BY Invariance, PTL DEF IInv

\* Provisioner.Run: success is stored with all five checkpoints.
THEOREM SuccessCorrect == Spec => []SuccessIsComplete
BY Invariance, PTL DEF IInv

-----------------------------------------------------------------------------
(* Requests whose calls never overlapped *)

\* A call begins: the only one of its request, or the request has overlapped.
LEMMA StartSerial ==
    ASSUME IInv, SerialIInv,
           NEW h \in Handler, NEW request \in Request, Start(h, request)
    PROVE  SerialIInv'
<1>1. TypeOK /\ request.id \in Id
  BY DEF IInv, Request
<1>2. /\ pc'[h] = "preflight" /\ call'[h] = request /\ job'[h] = jobs[request.id]
      /\ \A g \in Handler : g # h => /\ pc'[g] = pc[g]
                                     /\ call'[g] = call[g]
                                     /\ job'[g] = job[g]
      /\ pc[h] = "idle" /\ jobs[request.id].state # "succeeded"
      /\ UNCHANGED <<jobs, ran, interrupted>>
  BY <1>1 DEF TypeOK, Start, Active, Finished
<1>3. /\ overlapped \subseteq overlapped'
      /\ Busy(request.id) => request.id \in overlapped'
  BY DEF Start
<1>4. \A g \in Handler : Active(g) => Active(g)' /\ g # h
  BY <1>2 DEF Active
<1>5. \A g \in Handler : Active(g)' => g = h \/ Active(g)
  BY <1>2 DEF Active
<1>6. OneCall'
  BY <1>2, <1>3, <1>5 DEF SerialIInv, OneCall, Busy
<1>7. CopyNotBehind'
  <2>1. ASSUME request.id \notin overlapped'
        PROVE  request.id \in interrupted \/ ran[request.id] \subseteq jobs[request.id].completed
    BY <1>1, <1>3, <2>1 DEF SerialIInv, StoreNotBehind
  <2> QED
    BY <1>2, <1>3, <1>5, <2>1 DEF SerialIInv, CopyNotBehind
<1>8. StoreNotBehind'
  <2>1. \A id \in Id : Busy(id) => Busy(id)'
    BY <1>2, <1>4 DEF Busy
  <2> QED
    BY <1>2, <1>3, <2>1 DEF SerialIInv, StoreNotBehind
<1> QED
  BY <1>6, <1>7, <1>8 DEF SerialIInv

\* What every other step of a call comes to: it goes on with a copy that is not
\* behind, or returns and leaves a store that is not.
LEMMA OwnStepSerial ==
    ASSUME IInv, SerialIInv, NEW h \in Handler, Active(h),
           UNCHANGED <<interrupted, overlapped>>,
           \A g \in Handler : g # h => /\ pc'[g] = pc[g]
                                       /\ call'[g] = call[g]
                                       /\ job'[g] = job[g],
           \A id \in Id : id # call[h].id => jobs'[id] = jobs[id] /\ ran'[id] = ran[id],
           pc'[h] # "idle" => call'[h] = call[h],
           call[h].id \notin overlapped =>
               \/ /\ pc'[h] = "idle"
                  /\ \/ call[h].id \in interrupted
                     \/ ran'[call[h].id] \subseteq jobs'[call[h].id].completed
               \/ /\ pc'[h] # "idle"
                  /\ jobs'[call[h].id].state # "succeeded"
                  /\ jobs'[call[h].id].completed \subseteq job'[h].completed
                  /\ \/ call[h].id \in interrupted
                     \/ ran'[call[h].id] \subseteq job'[h].completed
    PROVE  SerialIInv'
<1>1. \A g \in Handler : Active(g)' => Active(g) /\ call'[g] = call[g]
  BY DEF Active
<1>2. \A g \in Handler : call[g].id \in Id
  BY DEF IInv, TypeOK, Request
<1>3. \A g \in Handler :
          Active(g) /\ g # h /\ call[g].id \notin overlapped => call[g].id # call[h].id
  BY DEF SerialIInv, OneCall
<1>4. OneCall'
  BY <1>1 DEF SerialIInv, OneCall
<1>5. CopyNotBehind'
  <2> SUFFICES ASSUME NEW g \in Handler, Active(g)', call[g].id \notin overlapped
               PROVE  /\ jobs'[call[g].id].state # "succeeded"
                      /\ jobs'[call[g].id].completed \subseteq job'[g].completed
                      /\ \/ call[g].id \in interrupted
                         \/ ran'[call[g].id] \subseteq job'[g].completed
    BY <1>1 DEF CopyNotBehind
  <2>1. CASE g = h
    BY <2>1 DEF Active
  <2>2. CASE g # h
    BY <1>1, <1>2, <1>3, <2>2 DEF SerialIInv, CopyNotBehind
  <2> QED
    BY <2>1, <2>2
<1>6. StoreNotBehind'
  <2> SUFFICES ASSUME NEW id \in Id, id \notin interrupted, id \notin overlapped, ~Busy(id)'
               PROVE  ran'[id] \subseteq jobs'[id].completed
    BY DEF StoreNotBehind
  <2>1. CASE id = call[h].id
    BY <2>1 DEF Busy, Active
  <2>2. CASE id # call[h].id
    <3>1. ~Busy(id)
      BY <2>2 DEF Busy, Active
    <3> QED
      BY <2>2, <3>1 DEF SerialIInv, StoreNotBehind
  <2> QED
    BY <2>1, <2>2
<1> QED
  BY <1>4, <1>5, <1>6 DEF SerialIInv

\* A handler moves on without touching the store.
LEMMA MoveSerial ==
    ASSUME IInv, SerialIInv, NEW h \in Handler, Active(h),
           NEW label, label # "idle", pc' = [pc EXCEPT ![h] = label],
           UNCHANGED <<jobs, call, job, ran, interrupted, overlapped>>
    PROVE  SerialIInv'
<1>1. pc'[h] # "idle" /\ \A g \in Handler : g # h => pc'[g] = pc[g]
  BY DEF IInv, TypeOK
<1> QED
  BY <1>1, OwnStepSerial DEF SerialIInv, CopyNotBehind

\* A handler writes its own copy, or one like it, and returns.
LEMMA ReturnSerial ==
    ASSUME IInv, SerialIInv,
           NEW h \in Handler, Active(h), NEW j, job[h].completed \subseteq j.completed,
           Put(call[h].id, j), Return(h), UNCHANGED <<interrupted, overlapped>>,
           ran'[call[h].id] \subseteq ran[call[h].id] \cup j.completed,
           \A id \in Id : id # call[h].id => ran'[id] = ran[id]
    PROVE  SerialIInv'
<1>1. TypeOK /\ call[h].id \in Id
  BY DEF IInv, TypeOK, Request
<1>2. /\ jobs'[call[h].id] = j
      /\ \A id \in Id : id # call[h].id => jobs'[id] = jobs[id]
  BY <1>1 DEF Put, TypeOK
<1>3. /\ pc'[h] = "idle"
      /\ \A g \in Handler : g # h => /\ pc'[g] = pc[g]
                                     /\ call'[g] = call[g]
                                     /\ job'[g] = job[g]
  BY <1>1, ReturnFacts
<1>4. ASSUME call[h].id \notin overlapped
      PROVE  call[h].id \in interrupted \/ ran[call[h].id] \subseteq job[h].completed
  BY <1>4 DEF SerialIInv, CopyNotBehind
<1> QED
  BY <1>2, <1>3, <1>4, OwnStepSerial

LEMMA FailSerial ==
    ASSUME IInv, SerialIInv, NEW h \in Handler, Active(h), NEW phase, Fail(h, phase)
    PROVE  SerialIInv'
<1>1. Failed(job[h], phase).completed = job[h].completed
  BY DEF Failed
<1>2. /\ Put(call[h].id, Failed(job[h], phase)) /\ Return(h)
      /\ UNCHANGED <<ran, interrupted, overlapped, crashes>>
  BY DEF Fail
<1> HIDE DEF Failed
<1> QED
  BY <1>1, <1>2, ReturnSerial

\* What the host has done is taken into the copy at once.
LEMMA DoneSerial ==
    ASSUME IInv, SerialIInv,
           NEW h \in Handler, Active(h), pc' = [pc EXCEPT ![h] = "steps"], NEW c,
           job' = [job EXCEPT ![h].completed = @ \cup {c}],
           Done(h, c), UNCHANGED <<jobs, call>>
    PROVE  SerialIInv'
<1>1. TypeOK /\ call[h].id \in Id /\ job[h] \in Job
  BY DEF IInv, TypeOK, Request
<1>2. /\ pc'[h] = "steps" /\ job'[h].completed = job[h].completed \cup {c}
      /\ \A g \in Handler : g # h => pc'[g] = pc[g] /\ job'[g] = job[g]
  BY <1>1 DEF TypeOK, Job
<1>3. /\ ran'[call[h].id] = ran[call[h].id] \cup {c}
      /\ \A id \in Id : id # call[h].id => ran'[id] = ran[id]
      /\ UNCHANGED <<interrupted, overlapped>>
  BY <1>1 DEF Done, TypeOK
<1>4. ASSUME call[h].id \notin overlapped
      PROVE  /\ jobs[call[h].id].state # "succeeded"
             /\ jobs[call[h].id].completed \subseteq job[h].completed
             /\ call[h].id \in interrupted \/ ran[call[h].id] \subseteq job[h].completed
  BY <1>4 DEF SerialIInv, CopyNotBehind
<1> QED
  BY <1>2, <1>3, <1>4, OwnStepSerial

LEMMA ContinueSerial ==
    ASSUME IInv, SerialIInv, NEW h \in Handler, Continue(h)
    PROVE  SerialIInv'
<1>1. TypeOK /\ call[h].id \in Id /\ job[h] \in Job
  BY DEF IInv, TypeOK, Request
<1>2. CASE PreflightFails(h)
  BY <1>2, FailSerial DEF PreflightFails, Active
<1>3. CASE PreflightPasses(h)
  BY <1>3, MoveSerial DEF PreflightPasses, Active
<1>4. CASE NeedsInput(h)
  <2> DEFINE j == [job[h] EXCEPT !.state = "needs_input", !.phase = "confirm_config"]
  <2>1. j.completed = job[h].completed
    BY <1>1 DEF Job
  <2>2. /\ Active(h) /\ Put(call[h].id, j) /\ Return(h)
        /\ UNCHANGED <<ran, interrupted, overlapped>>
    BY <1>4 DEF NeedsInput, Active
  <2> HIDE DEF j
  <2> QED
    BY <2>1, <2>2, ReturnSerial
<1>5. CASE BackupFails(h)
  BY <1>5, FailSerial DEF BackupFails, Active
<1>6. CASE Backup(h)
  BY <1>6, DoneSerial DEF Backup, Active
<1>7. CASE BeginStep(h)
  <2>1. PICK i \in StepIndex : /\ Put(call[h].id, Running(job[h], i))
                               /\ job' = [job EXCEPT ![h] = Running(job[h], i)]
    BY <1>7 DEF BeginStep
  <2> DEFINE j == Running(job[h], i)
  <2>2. j.completed = job[h].completed /\ j.state = "running"
    BY <1>1 DEF Running, Job
  <2>3. jobs'[call[h].id] = j /\ \A id \in Id : id # call[h].id => jobs'[id] = jobs[id]
    BY <1>1, <2>1 DEF Put, TypeOK
  <2>4. /\ job'[h] = j /\ pc'[h] = "run" /\ Active(h) /\ UNCHANGED <<call, ran, interrupted, overlapped>>
        /\ \A g \in Handler : g # h => pc'[g] = pc[g] /\ job'[g] = job[g]
    BY <1>1, <1>7, <2>1 DEF BeginStep, TypeOK, Active
  <2> HIDE DEF j
  <2> QED
    BY <2>2, <2>3, <2>4, OwnStepSerial DEF SerialIInv, CopyNotBehind
<1>8. CASE StepFails(h)
  BY <1>8, FailSerial DEF StepFails, Active
<1>9. CASE Step(h)
  BY <1>9, DoneSerial DEF Step, Active
<1>10. CASE HealthFails(h)
  BY <1>10, FailSerial DEF HealthFails, AtHealthCheck, Active
<1>11. CASE Succeed(h)
  <2> DEFINE j == Succeeded(job[h])
  <2>1. j.completed = job[h].completed \cup {"health"}
    BY DEF Succeeded
  <2>2. /\ Active(h) /\ Put(call[h].id, j) /\ Return(h) /\ UNCHANGED <<interrupted, overlapped>>
        /\ ran'[call[h].id] = ran[call[h].id] \cup {"health"}
        /\ \A id \in Id : id # call[h].id => ran'[id] = ran[id]
    BY <1>1, <1>11 DEF Succeed, AtHealthCheck, Active, Done, TypeOK
  <2> HIDE DEF j
  <2> QED
    BY <2>1, <2>2, ReturnSerial
<1> QED
  BY <1>2, <1>3, <1>4, <1>5, <1>6, <1>7, <1>8, <1>9, <1>10, <1>11 DEF Continue

LEMMA CrashSerial ==
    ASSUME IInv, SerialIInv, Crash
    PROVE  SerialIInv'
<1>1. \A h \in Handler : ~Active(h)'
  BY DEF Crash, Active
<1>2. /\ UNCHANGED <<jobs, ran, overlapped>>
      /\ \A id \in Id : Busy(id) => id \in interrupted'
      /\ interrupted \subseteq interrupted'
  BY DEF Crash, Busy
<1> QED
  BY <1>1, <1>2 DEF SerialIInv, OneCall, CopyNotBehind, StoreNotBehind

LEMMA StepKeepsSerial ==
    ASSUME IInv, SerialIInv, [Next]_vars
    PROVE  SerialIInv'
<1>1. CASE \E h \in Handler : \E request \in Request : Start(h, request)
  BY <1>1, StartSerial
<1>2. CASE \E h \in Handler : Continue(h)
  BY <1>2, ContinueSerial
<1>3. CASE Crash
  BY <1>3, CrashSerial
<1>4. CASE UNCHANGED vars
  BY <1>4 DEF vars, SerialIInv, OneCall, CopyNotBehind, StoreNotBehind, Busy, Active
<1> QED
  BY <1>1, <1>2, <1>3, <1>4 DEF Next

\* Provisioner.Run: as long as the calls for a request do not overlap, whatever
\* other requests do, the handler's copy is never behind the store.
THEOREM SerialInvariance == Spec => [](IInv /\ SerialIInv)
<1>1. Init => IInv /\ SerialIInv
  <2> SUFFICES ASSUME Init PROVE IInv /\ SerialIInv
    OBVIOUS
  <2>1. \A h \in Handler : ~Active(h)
    BY DEF Init, Active
  <2>2. \A id \in Id : ran[id] \subseteq jobs[id].completed
    BY DEF Init
  <2> QED
    BY <2>1, <2>2, InitIInv DEF SerialIInv, OneCall, CopyNotBehind, StoreNotBehind
<1>2. IInv /\ SerialIInv /\ [Next]_vars => IInv' /\ SerialIInv'
  BY StepKeepsIInv, StepKeepsSerial
<1> QED
  BY <1>1, <1>2, PTL DEF Spec

\* Provisioner.Run: a request that succeeded is not run again.
THEOREM NoRerun == Spec => []NotRerunAfterSuccess
<1>1. SerialIInv => NotRerunAfterSuccess
  BY DEF SerialIInv, CopyNotBehind, NotRerunAfterSuccess
<1> QED
  BY <1>1, SerialInvariance, PTL

\* Provisioner.Run: a step that was done is done again only for a request that a
\* crash cut short.
THEOREM RepeatCorrect == Spec => []RepeatedOnlyAfterCrash
<1>1. IInv /\ SerialIInv => RepeatedOnlyAfterCrash
  <2> SUFFICES ASSUME IInv, SerialIInv, NEW h \in Handler, pc[h] = "run",
                      call[h].id \notin overlapped, job[h].phase \in ran[call[h].id]
               PROVE  call[h].id \in interrupted
    BY DEF RepeatedOnlyAfterCrash
  <2>1. job[h].phase \notin job[h].completed
    BY DEF IInv, CopyMatchesPc, IsNext
  <2> QED
    BY <2>1 DEF SerialIInv, CopyNotBehind, Active
<1> QED
  BY <1>1, SerialInvariance, PTL

\* Jobs.Put: what a step of a handler stores.
LEMMA ContinueStores ==
    ASSUME IInv, NEW h \in Handler, Continue(h)
    PROVE  /\ Active(h) /\ overlapped' = overlapped
           /\ \/ jobs' = jobs
              \/ \E j : /\ job[h].completed \subseteq j.completed
                        /\ jobs' = [jobs EXCEPT ![call[h].id] = j]
<1>1. job[h] \in Job
  BY DEF IInv, TypeOK
<1>2. Active(h) /\ overlapped' = overlapped
  BY DEF Fail, Done, Continue, PreflightFails, PreflightPasses, NeedsInput, BackupFails, Backup,
         BeginStep, StepFails, Step, HealthFails, Succeed, AtHealthCheck, Active
<1>3. \A phase : Failed(job[h], phase).completed = job[h].completed
  BY DEF Failed
<1>4. \A i : Running(job[h], i).completed = job[h].completed
  BY <1>1 DEF Running, Job
<1>5. job[h].completed \subseteq Succeeded(job[h]).completed
  BY DEF Succeeded
<1>6. [job[h] EXCEPT !.state = "needs_input", !.phase = "confirm_config"].completed
      = job[h].completed
  BY <1>1 DEF Job
<1>7. \A phase : Fail(h, phase) =>
          \E j : /\ job[h].completed \subseteq j.completed
                /\ jobs' = [jobs EXCEPT ![call[h].id] = j]
  BY <1>3 DEF Fail, Put
<1>8. CASE PreflightFails(h) \/ BackupFails(h) \/ StepFails(h) \/ HealthFails(h)
  BY <1>2, <1>7, <1>8 DEF PreflightFails, BackupFails, StepFails, HealthFails
<1>9. CASE PreflightPasses(h) \/ Backup(h) \/ Step(h)
  BY <1>2, <1>9 DEF PreflightPasses, Backup, Step
<1>10. CASE NeedsInput(h)
  BY <1>2, <1>6, <1>10 DEF NeedsInput, Put
<1>11. CASE BeginStep(h)
  BY <1>2, <1>4, <1>11 DEF BeginStep, Put
<1>12. CASE Succeed(h)
  BY <1>2, <1>5, <1>12 DEF Succeed, Put
<1> QED
  BY <1>8, <1>9, <1>10, <1>11, <1>12 DEF Continue

\* Provisioner.Run: no checkpoint that was stored is lost, whatever fails and
\* wherever the agent stops, unless two calls for the request overlap.
THEOREM CheckpointsStay == Spec => CheckpointsKept
<1> DEFINE Kept == \A id \in Id : id \notin overlapped' =>
                       jobs[id].completed \subseteq jobs'[id].completed
<1>1. IInv /\ SerialIInv /\ [Next]_vars => [Kept]_vars
  <2> SUFFICES ASSUME IInv, SerialIInv, Next PROVE Kept
    OBVIOUS
  <2>1. CASE jobs' = jobs
    BY <2>1
  <2>2. CASE \E h \in Handler : Continue(h)
    <3>1. PICK h \in Handler : Continue(h)
      BY <2>2
    <3>2. Active(h) /\ overlapped' = overlapped
      BY <3>1, ContinueStores
    <3>3. call[h].id \in overlapped \/ jobs[call[h].id].completed \subseteq job[h].completed
      BY <3>2 DEF SerialIInv, CopyNotBehind
    <3>4. jobs \in [Id -> Job]
      BY DEF IInv, TypeOK
    <3> QED
      BY <2>1, <3>1, <3>2, <3>3, <3>4, ContinueStores
  <2> QED
    BY <2>1, <2>2 DEF Next, Start, Crash
<1> QED
  BY <1>1, SerialInvariance, PTL DEF Spec, CheckpointsKept

=============================================================================
