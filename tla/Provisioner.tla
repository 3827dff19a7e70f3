----------------------------- MODULE Provisioner -----------------------------
(***************************************************************************)
(* Provisioner.Run of internal/lifecycle/lifecycle.go with its durable job *)
(* store, FileJobs of file_jobs.go.                                        *)
(*                                                                         *)
(* A handler is a goroutine of controlplane.Server.handle that is serving  *)
(* a provision request.  It runs with context.Background(): it goes on     *)
(* when its client disconnects, and the retry of that client is a call by  *)
(* another handler.  A handler works on its own copy of the job, read once *)
(* when the call begins and written back at each checkpoint.  The agent    *)
(* may crash between any two steps of a handler; what was Put survives.    *)
(*                                                                         *)
(* The host is external.  Each of its operations succeeds or fails.        *)
(***************************************************************************)
EXTENDS Naturals, Sequences, FiniteSets

CONSTANTS
    Handler,    \* goroutines that can serve a request at the same time
    Id,         \* request identifiers (an empty one is rejected)
    MaxCrashes  \* bound on crashes of the agent

ASSUME ProvisionerAssumption ==
    /\ Handler # {}
    /\ Id # {}
    /\ MaxCrashes \in Nat

VARIABLES
    jobs,         \* the stored jobs
    pc,           \* where each handler is in Run; "idle" outside a call
    call,         \* the request each handler serves
    job,          \* each handler's copy of the job
    ran,          \* history: per request, what the host has done successfully
    interrupted,  \* history: requests a crash cut short
    overlapped,   \* history: requests of which two calls were under way at once
    crashes       \* crashes so far

vars == <<jobs, pc, call, job, ran, interrupted, overlapped, crashes>>

\* The checkpoints, in the order Run goes through them.  The first is set by
\* Backup, the last by HealthCheck, the others by the loop over steps.
Checkpoints == <<"backup", "packages", "configure", "services", "health">>
Checkpoint == {Checkpoints[i] : i \in 1..5}
StepIndex == 2..4

\* A job that is not in the store is the one Run makes for it.  No other job is
\* Queued: each Put is preceded by an assignment to State.
NewJob == [state |-> "queued", phase |-> "", completed |-> {}]

Job == [state : {"queued", "running", "succeeded", "failed", "needs_input"},
        phase : Checkpoint \cup {"", "preflight", "confirm_config", "complete"},
        completed : SUBSET Checkpoint]

Request == [id : Id, confirm : BOOLEAN]
NoRequest == [id |-> CHOOSE id \in Id : TRUE, confirm |-> FALSE]

Init ==
    /\ jobs = [id \in Id |-> NewJob]
    /\ pc = [h \in Handler |-> "idle"]
    /\ call = [h \in Handler |-> NoRequest]
    /\ job = [h \in Handler |-> NewJob]
    /\ ran = [id \in Id |-> {}]
    /\ interrupted = {}
    /\ overlapped = {}
    /\ crashes = 0

-----------------------------------------------------------------------------
(* Helpers *)

Active(h) == pc[h] # "idle"

\* Jobs.Put: memory and file in one step.  When the file cannot be written,
\* Put panics: the file is left as it was and the process ends (Crash).
Put(id, j) == jobs' = [jobs EXCEPT ![id] = j]

\* Run returns.  The handler's copy goes to the client.
Return(h) ==
    /\ pc' = [pc EXCEPT ![h] = "idle"]
    /\ call' = [call EXCEPT ![h] = NoRequest]
    /\ job' = [job EXCEPT ![h] = NewJob]

\* A definition whose name ends in _Fault is a faulty form of the one that
\* follows it, under which TLC finds the property named in its comment violated.

\* CheckpointsKept, RepeatedOnlyAfterCrash, EventuallySucceeds: a failure
\* forgets the checkpoints.
Failed_Fault(j, phase) == [state |-> "failed", phase |-> phase, completed |-> {}]

\* The job of Provisioner.fail.
Failed(j, phase) == [state |-> "failed", phase |-> phase, completed |-> j.completed]

Fail(h, phase) ==
    /\ Put(call[h].id, Failed(job[h], phase))
    /\ Return(h)
    /\ UNCHANGED <<ran, interrupted, overlapped, crashes>>

\* The host has done what a checkpoint stands for.
Done(h, checkpoint) ==
    /\ ran' = [ran EXCEPT ![call[h].id] = @ \cup {checkpoint}]
    /\ UNCHANGED <<interrupted, overlapped, crashes>>

\* StepsInOrder: the loop takes any step that is not completed.
IsNext_Fault(i, completed) == i \in StepIndex /\ Checkpoints[i] \notin completed

\* The step the loop is at: the first one not completed.
IsNext(i, completed) ==
    /\ i \in StepIndex
    /\ Checkpoints[i] \notin completed
    /\ \A k \in StepIndex : k < i => Checkpoints[k] \in completed

\* IInv, NotRerunAfterSuccess: a job that succeeded is run again.
Finished_Fault(j) == FALSE

\* "if job.State == Succeeded { return job, nil }"
Finished(j) == j.state = "succeeded"

-----------------------------------------------------------------------------
(* Run *)

\* Another call for the request is under way.
Busy(id) == \E h \in Handler : Active(h) /\ call[h].id = id

\* A job that has succeeded is returned as it is, without a step.
Start(h, request) ==
    /\ ~Active(h)
    /\ ~Finished(jobs[request.id])
    /\ call' = [call EXCEPT ![h] = request]
    /\ job' = [job EXCEPT ![h] = jobs[request.id]]
    /\ pc' = [pc EXCEPT ![h] = "preflight"]
    /\ overlapped' = overlapped \cup {id \in {request.id} : Busy(id)}
    /\ UNCHANGED <<jobs, ran, interrupted, crashes>>

PreflightFails(h) == pc[h] = "preflight" /\ Fail(h, "preflight")

PreflightPasses(h) ==
    /\ pc[h] = "preflight"
    /\ pc' = [pc EXCEPT ![h] = IF "backup" \in job[h].completed THEN "steps" ELSE "backup"]
    /\ UNCHANGED <<jobs, call, job, ran, interrupted, overlapped, crashes>>

\* A protected configuration file exists and the request does not confirm.
NeedsInput(h) ==
    /\ pc[h] = "backup"
    /\ ~call[h].confirm
    /\ Put(call[h].id, [job[h] EXCEPT !.state = "needs_input", !.phase = "confirm_config"])
    /\ Return(h)
    /\ UNCHANGED <<ran, interrupted, overlapped, crashes>>

BackupFails(h) == pc[h] = "backup" /\ Fail(h, "backup")

\* The checkpoint is set in the handler's copy; the next Put makes it durable.
Backup(h) ==
    /\ pc[h] = "backup"
    /\ pc' = [pc EXCEPT ![h] = "steps"]
    /\ job' = [job EXCEPT ![h].completed = @ \cup {"backup"}]
    /\ Done(h, "backup")
    /\ UNCHANGED <<jobs, call>>

\* CheckpointsHonest: the checkpoint is recorded before the step is run.
Running_Fault(j, i) ==
    [j EXCEPT !.state = "running", !.phase = Checkpoints[i],
              !.completed = @ \cup {Checkpoints[i]}]

\* "job.State, job.Phase = Running, step.checkpoint"
Running(j, i) == [j EXCEPT !.state = "running", !.phase = Checkpoints[i]]

\* The head of the loop: the step is recorded as running before it is run.
BeginStep(h) ==
    /\ pc[h] = "steps"
    /\ \E i \in StepIndex :
           /\ IsNext(i, job[h].completed)
           /\ Put(call[h].id, Running(job[h], i))
           /\ job' = [job EXCEPT ![h] = Running(@, i)]
    /\ pc' = [pc EXCEPT ![h] = "run"]
    /\ UNCHANGED <<call, ran, interrupted, overlapped, crashes>>

StepFails(h) == pc[h] = "run" /\ Fail(h, job[h].phase)

Step(h) ==
    /\ pc[h] = "run"
    /\ pc' = [pc EXCEPT ![h] = "steps"]
    /\ job' = [job EXCEPT ![h].completed = @ \cup {job[h].phase}]
    /\ Done(h, job[h].phase)
    /\ UNCHANGED <<jobs, call>>

\* The loop is over and the health check is next.
AtHealthCheck(h) ==
    /\ pc[h] = "steps"
    /\ \A i \in StepIndex : ~IsNext(i, job[h].completed)

HealthFails(h) == AtHealthCheck(h) /\ Fail(h, "health")

\* SuccessIsComplete: the final Put omits the health checkpoint.
Succeeded_Fault(j) ==
    [state |-> "succeeded", phase |-> "complete", completed |-> j.completed]

\* The job of the final Put.
Succeeded(j) ==
    [state |-> "succeeded", phase |-> "complete", completed |-> j.completed \cup {"health"}]

Succeed(h) ==
    /\ AtHealthCheck(h)
    /\ Put(call[h].id, Succeeded(job[h]))
    /\ Return(h)
    /\ Done(h, "health")

\* The agent stops, at a panic or from outside, and is started again: every
\* call is gone, FileJobs reads back what was Put.
Crash ==
    /\ crashes < MaxCrashes
    /\ crashes' = crashes + 1
    /\ interrupted' = interrupted \cup {call[h].id : h \in {g \in Handler : Active(g)}}
    /\ pc' = [h \in Handler |-> "idle"]
    /\ call' = [h \in Handler |-> NoRequest]
    /\ job' = [h \in Handler |-> NewJob]
    /\ UNCHANGED <<jobs, ran, overlapped>>

Continue(h) ==
    \/ PreflightFails(h) \/ PreflightPasses(h)
    \/ NeedsInput(h) \/ BackupFails(h) \/ Backup(h)
    \/ BeginStep(h) \/ StepFails(h) \/ Step(h)
    \/ HealthFails(h) \/ Succeed(h)

Next ==
    \/ \E h \in Handler : \/ \E request \in Request : Start(h, request)
                          \/ Continue(h)
    \/ Crash

Spec == Init /\ [][Next]_vars

\* A call runs to its end, and the operator retries an unfinished request with
\* confirmation.  Preflight, backup and health check do not fail for ever.  Of
\* the steps it is only assumed that now and then one of them succeeds, not that
\* each of them does.
Fairness ==
    \A h \in Handler :
        /\ WF_vars(Continue(h))
        /\ \A id \in Id : SF_vars(Start(h, [id |-> id, confirm |-> TRUE]))
        /\ \A id \in Id : SF_vars(call[h].id = id /\ PreflightPasses(h))
        /\ \A id \in Id : SF_vars(call[h].id = id /\ Backup(h))
        /\ \A id \in Id : SF_vars(call[h].id = id /\ Step(h))
        /\ \A id \in Id : SF_vars(call[h].id = id /\ Succeed(h))

FairSpec == Spec /\ Fairness

-----------------------------------------------------------------------------
(* Correctness *)

\* Types of the provisioner.
TypeOK ==
    /\ jobs \in [Id -> Job]
    /\ pc \in [Handler -> {"idle", "preflight", "backup", "steps", "run"}]
    /\ call \in [Handler -> Request]
    /\ job \in [Handler -> Job]
    /\ ran \in [Id -> SUBSET Checkpoint]
    /\ interrupted \subseteq Id
    /\ overlapped \subseteq Id
    /\ crashes \in 0..MaxCrashes

\* A stored checkpoint is never ahead of the host: whatever calls overlap and
\* wherever the agent crashed, what the job says is completed was done.
CheckpointsHonest ==
    /\ \A id \in Id : jobs[id].completed \subseteq ran[id]
    /\ \A h \in Handler : Active(h) => job[h].completed \subseteq ran[call[h].id]

\* Checkpoints are reached in order: in particular the configuration is never
\* touched for a request whose backup has not been taken.
StepsInOrder ==
    \A id \in Id : \A i, k \in 1..5 :
        i < k /\ Checkpoints[k] \in ran[id] => Checkpoints[i] \in ran[id]

\* A job said to have succeeded has every checkpoint.
SuccessIsComplete ==
    \A id \in Id : jobs[id].state = "succeeded" => jobs[id].completed = Checkpoint

\* Why CheckpointsHonest, StepsInOrder and SuccessIsComplete are inductive:
\* what a handler's copy of the job says where it is in Run.
CopyMatchesPc ==
    \A h \in Handler :
        /\ Active(h) => job[h].state # "succeeded" /\ "health" \notin job[h].completed
        /\ pc[h] \in {"steps", "run"} => "backup" \in job[h].completed
        /\ pc[h] = "run" =>
               \E i \in StepIndex :
                   job[h].phase = Checkpoints[i] /\ IsNext(i, job[h].completed)

\* A stored job with the health checkpoint is one that succeeded.
HealthMeansSuccess ==
    \A id \in Id : "health" \in jobs[id].completed => jobs[id].state = "succeeded"

\* The inductive invariant, for any number of overlapping calls.
IInv ==
    /\ TypeOK
    /\ CheckpointsHonest
    /\ StepsInOrder
    /\ SuccessIsComplete
    /\ CopyMatchesPc
    /\ HealthMeansSuccess

-----------------------------------------------------------------------------
(* Requests whose calls never overlapped *)

\* "It must return the original successful job and execute no installation
\* steps a second time" (docs/pi-provision-update-test.md:20).
NotRerunAfterSuccess ==
    \A h \in Handler :
        Active(h) /\ call[h].id \notin overlapped => jobs[call[h].id].state # "succeeded"

\* "it resumes from the first incomplete checkpoint and retains prior completed
\* checkpoints" (docs/pi-provision-update-test.md:27), whatever failed, wherever
\* the agent crashed, and whatever calls for other requests do meanwhile.
CheckpointsKept ==
    [][\A id \in Id : id \notin overlapped' =>
           jobs[id].completed \subseteq jobs'[id].completed]_vars

\* A step that has been done is done again only for a request that a crash cut
\* short: a failure of a later step never repeats it.
RepeatedOnlyAfterCrash ==
    \A h \in Handler :
        pc[h] = "run" /\ call[h].id \notin overlapped
            => job[h].phase \notin ran[call[h].id] \/ call[h].id \in interrupted

\* Why they hold.  A request that did not overlap has one call,
OneCall ==
    \A g, h \in Handler :
        Active(g) /\ Active(h) /\ call[g].id = call[h].id /\ call[g].id \notin overlapped
            => g = h

\* whose copy is never behind the store, nor, but for requests that were cut
\* short, behind what has been done;
CopyNotBehind ==
    \A h \in Handler : Active(h) /\ call[h].id \notin overlapped =>
        /\ jobs[call[h].id].state # "succeeded"
        /\ jobs[call[h].id].completed \subseteq job[h].completed
        /\ call[h].id \in interrupted \/ ran[call[h].id] \subseteq job[h].completed

\* and when there is no call, what has been done is in the store.
StoreNotBehind ==
    \A id \in Id \ (interrupted \cup overlapped) :
        Busy(id) \/ ran[id] \subseteq jobs[id].completed

SerialIInv == OneCall /\ CopyNotBehind /\ StoreNotBehind

\* A request that is retried succeeds in the end, although the agent may crash
\* and a step may fail whenever it follows another that succeeded: no call has
\* to get everything right by itself, since what has succeeded is kept.
EventuallySucceeds ==
    \A id \in Id : <>(jobs[id].state = "succeeded" \/ id \in overlapped)

-----------------------------------------------------------------------------
(* What the documentation says *)

\* "Reconnect and retry with the same request ID. Verify it [...] retains prior
\* completed checkpoints" (docs/pi-provision-update-test.md:27), of a retry that
\* comes while the first call is still under way as well.
RetryKeepsCheckpoints ==
    [][\A id \in Id : jobs[id].completed \subseteq jobs'[id].completed]_vars

=============================================================================
