------------------------------- MODULE Updater -------------------------------
(***************************************************************************)
(* Updater.Run of internal/lifecycle/lifecycle.go over the releases of     *)
(* internal/host/host.go: a release is fetched, verified and staged under  *)
(* a directory of its own, the "current" link is switched to it and the    *)
(* agent restarted, and the link is switched back when the health check    *)
(* fails.                                                                  *)
(*                                                                         *)
(* The agent does not call the updater yet (Handler.Update is a stub); a   *)
(* handler stands for a goroutine that would, as it does for the           *)
(* provisioner.  The agent may stop between and within the steps of a      *)
(* call, if only because switching the link restarts it.  The process      *)
(* stops, not the Pi: what was written stays written.                      *)
(*                                                                         *)
(* A version names one manifest.                                           *)
(***************************************************************************)
EXTENDS Naturals, FiniteSets

CONSTANTS
    Handler,    \* goroutines that can serve a request at the same time
    Id,         \* request identifiers
    Version,    \* names of releases
    Initial,    \* the release active at first, or NoRelease
    NoRelease,  \* there is no "current" link
    Directory,  \* the link points to the directory of all releases
    MaxCrashes  \* bound on crashes of the agent

ASSUME UpdaterAssumption ==
    /\ Handler # {} /\ Id # {} /\ Version # {}
    /\ NoRelease \notin Version /\ Directory \notin Version /\ NoRelease # Directory
    /\ Initial \in Version \cup {NoRelease}
    /\ MaxCrashes \in Nat

VARIABLES
    jobs,      \* the stored jobs
    current,   \* where the "current" link points
    staged,    \* per release, what is in its directory
    pc,        \* where each handler is in Run; "idle" outside a call
    call,      \* the request each handler serves
    payload,   \* what each handler has downloaded
    previous,  \* the release each handler would roll back to
    before,    \* history: the release active when each call began
    prior,     \* history: the release active when each request was first run
    shared,    \* history: the handlers whose call was under way beside another one
    damaged,   \* history: the releases truncated while in use and not written since
    crashes    \* crashes so far

host == <<current, staged, damaged>>
vars == <<jobs, host, pc, call, payload, previous, before, prior, shared, crashes>>

Release == Version \cup {NoRelease, Directory}

\* The content of a release: "good" is what its manifest has the digest of.
Content == {"absent", "torn", "good", "bad"}

Job == [state : {"none", "running", "succeeded", "failed"},
        phase : {"", "verify_manifest", "download", "verify_digest", "backup", "stage",
                 "activate", "rollback", "rolled_back", "complete"}]

Request == [id : Id, version : Version]
NoRequest == CHOOSE request \in Request : TRUE

Init ==
    /\ jobs = [id \in Id |-> [state |-> "none", phase |-> ""]]
    /\ current = Initial
    /\ staged = [v \in Version |-> IF v = Initial THEN "good" ELSE "absent"]
    /\ pc = [h \in Handler |-> "idle"]
    /\ call = [h \in Handler |-> NoRequest]
    /\ payload = [h \in Handler |-> "absent"]
    /\ previous = [h \in Handler |-> NoRelease]
    /\ before = [h \in Handler |-> NoRelease]
    /\ prior = [id \in Id |-> Initial]
    /\ shared = {}
    /\ damaged = {}
    /\ crashes = 0

-----------------------------------------------------------------------------
(* Helpers *)

At(h, label) == pc[h] = label
Goto(h, label) == pc' = [pc EXCEPT ![h] = label]
Put(h, state, phase) ==
    jobs' = [jobs EXCEPT ![call[h].id] = [state |-> state, phase |-> phase]]

\* Updater.fail, and the other returns: the job is stored and the call ends.
End(h, state, phase) ==
    /\ Put(h, state, phase)
    /\ Goto(h, "idle")
    /\ call' = [call EXCEPT ![h] = NoRequest]
    /\ payload' = [payload EXCEPT ![h] = "absent"]
    /\ previous' = [previous EXCEPT ![h] = NoRelease]
    /\ before' = [before EXCEPT ![h] = NoRelease]
    /\ shared' = shared \ {h}
    /\ UNCHANGED <<prior, crashes>>

\* A step that only moves the handler on.
Move(h, label) ==
    /\ Goto(h, label)
    /\ UNCHANGED <<jobs, call, before, prior, shared, crashes>>

\* Host.ActiveRelease: the release the link points to.
ActiveRelease == current

\* filepath.Join(releasesDir, version): for the empty name of a missing link it
\* is the directory itself.
Target(release) == IF release = NoRelease THEN Directory ELSE release

\* os.Stat(target).  The name of the directory names no release in it.
IsStaged(release) ==
    \/ release = NoRelease
    \/ release \in Version /\ staged[release] # "absent"

\* The release is active, about to be, or what a call would roll back to.
InUse(v) ==
    \/ current = v
    \/ \E h \in Handler :
           \/ At(h, "activate") /\ call[h].version = v
           \/ /\ pc[h] \in {"stage", "write", "activate", "health", "rollback"}
              /\ previous[h] = v

\* The calls under way.
Calls == {h \in Handler : ~At(h, "idle")}

\* A definition whose name ends in _Fault is a faulty form of the one that
\* follows it, under which TLC finds the property named in its comment violated.

\* SuccessIsHealthy: an update that succeeded is run again.
Finished_Fault(job) == FALSE

\* "if prior.State == Succeeded { return prior, nil }"
Finished(job) == job.state = "succeeded"

-----------------------------------------------------------------------------
(* Run *)

Start(h, request) ==
    /\ At(h, "idle")
    /\ ~Finished(jobs[request.id])
    /\ call' = [call EXCEPT ![h] = request]
    /\ Goto(h, "begin")
    /\ before' = [before EXCEPT ![h] = current]
    /\ prior' = IF jobs[request.id].state = "none"
                THEN [prior EXCEPT ![request.id] = current] ELSE prior
    /\ shared' = IF Calls = {} THEN shared ELSE shared \cup Calls \cup {h}
    /\ UNCHANGED <<jobs, host, payload, previous, crashes>>

Begin(h) ==
    /\ At(h, "begin")
    /\ Put(h, "running", "")
    /\ Goto(h, "verify")
    /\ UNCHANGED <<host, call, payload, previous, before, prior, shared, crashes>>

VerifyFails(h) == At(h, "verify") /\ End(h, "failed", "verify_manifest") /\ UNCHANGED host

Verify(h) == At(h, "verify") /\ Move(h, "fetch") /\ UNCHANGED <<host, payload, previous>>

FetchFails(h) == At(h, "fetch") /\ End(h, "failed", "download") /\ UNCHANGED host

\* The server answers with the release or with something else.
Fetch(h) ==
    /\ At(h, "fetch")
    /\ \E content \in {"good", "bad"} : payload' = [payload EXCEPT ![h] = content]
    /\ Move(h, "digest")
    /\ UNCHANGED <<host, previous>>

\* SHA256(payload) == manifest.SHA256
DigestMatches(h) == payload[h] = "good"

DigestFails(h) ==
    /\ At(h, "digest")
    /\ ~DigestMatches(h)
    /\ End(h, "failed", "verify_digest")
    /\ UNCHANGED host

DigestPasses(h) ==
    /\ At(h, "digest")
    /\ DigestMatches(h)
    /\ Move(h, "backup")
    /\ UNCHANGED <<host, payload, previous>>

BackupFails(h) == At(h, "backup") /\ End(h, "failed", "backup") /\ UNCHANGED host

\* The backup is made, and the active release noted.
Backup(h) ==
    /\ At(h, "backup")
    /\ previous' = [previous EXCEPT ![h] = ActiveRelease]
    /\ Move(h, "stage")
    /\ UNCHANGED <<host, payload>>

\* An error of MkdirAll, or of os.WriteFile before it opened the file.
StageFails(h) == At(h, "stage") /\ End(h, "failed", "stage") /\ UNCHANGED host

\* Host.Stage makes the directory, and os.WriteFile truncates the file in it,
\* also when the release was staged before, or is the active one.
Truncate(h) ==
    /\ At(h, "stage")
    /\ staged' = [staged EXCEPT ![call[h].version] = "torn"]
    /\ damaged' = IF InUse(call[h].version) THEN damaged \cup {call[h].version} ELSE damaged
    /\ Move(h, "write")
    /\ UNCHANGED <<current, payload, previous>>

\* An error of the write.
WriteFails(h) == At(h, "write") /\ End(h, "failed", "stage") /\ UNCHANGED host

\* ActiveIsWhole: an error of the write is ignored.
Written_Fault(h) == {payload[h], "torn"}

\* What os.WriteFile has written when it returns no error.
Written(h) == {payload[h]}

Write(h) ==
    /\ At(h, "write")
    /\ \E content \in Written(h) : staged' = [staged EXCEPT ![call[h].version] = content]
    /\ damaged' = damaged \ {call[h].version}
    /\ Move(h, "activate")
    /\ UNCHANGED <<current, payload, previous>>

\* What Host.switchTo leaves when it is cut short or returns an error: the link
\* is as it was, or it is switched and the agent was not restarted.
PartlySwitched(release) ==
    {current} \cup (IF IsStaged(release) THEN {Target(release)} ELSE {})

ActivateFails(h) ==
    /\ At(h, "activate")
    /\ current' \in PartlySwitched(call[h].version)
    /\ End(h, "failed", "activate")
    /\ UNCHANGED <<staged, damaged>>

Activate(h) ==
    /\ At(h, "activate")
    /\ IsStaged(call[h].version)
    /\ current' = Target(call[h].version)
    /\ Move(h, "health")
    /\ UNCHANGED <<staged, damaged, payload, previous>>

\* FailedCallLeavesRelease: the release is not rolled back.
AfterHealthFailure_Fault == "idle"

\* A failed health check is followed by Rollback.
AfterHealthFailure == "rollback"

HealthFails(h) ==
    /\ At(h, "health")
    /\ Move(h, AfterHealthFailure)
    /\ UNCHANGED <<host, payload, previous>>

RollbackFails(h) ==
    /\ At(h, "rollback")
    /\ current' \in PartlySwitched(previous[h])
    /\ End(h, "failed", "rollback")
    /\ UNCHANGED <<staged, damaged>>

\* UPDATE_ROLLED_BACK
Rollback(h) ==
    /\ At(h, "rollback")
    /\ IsStaged(previous[h])
    /\ current' = Target(previous[h])
    /\ End(h, "failed", "rolled_back")
    /\ UNCHANGED <<staged, damaged>>

Succeed(h) == At(h, "health") /\ End(h, "succeeded", "complete") /\ UNCHANGED host

\* The agent stops, in the middle of a switch of the link or not, and is started
\* again.
Crash ==
    /\ crashes < MaxCrashes
    /\ crashes' = crashes + 1
    /\ \/ UNCHANGED current
       \/ \E h \in Handler :
              \/ At(h, "activate") /\ current' \in PartlySwitched(call[h].version)
              \/ At(h, "rollback") /\ current' \in PartlySwitched(previous[h])
    /\ pc' = [h \in Handler |-> "idle"]
    /\ call' = [h \in Handler |-> NoRequest]
    /\ payload' = [h \in Handler |-> "absent"]
    /\ previous' = [h \in Handler |-> NoRelease]
    /\ before' = [h \in Handler |-> NoRelease]
    /\ shared' = {}
    /\ UNCHANGED <<jobs, staged, prior, damaged>>

Continue(h) ==
    \/ Begin(h) \/ VerifyFails(h) \/ Verify(h) \/ FetchFails(h) \/ Fetch(h)
    \/ DigestFails(h) \/ DigestPasses(h) \/ BackupFails(h) \/ Backup(h)
    \/ StageFails(h) \/ Truncate(h) \/ WriteFails(h) \/ Write(h)
    \/ ActivateFails(h) \/ Activate(h) \/ HealthFails(h)
    \/ RollbackFails(h) \/ Rollback(h) \/ Succeed(h)

Next ==
    \/ \E h \in Handler : \/ \E request \in Request : Start(h, request)
                          \/ Continue(h)
    \/ Crash

Spec == Init /\ [][Next]_vars

-----------------------------------------------------------------------------
(* Correctness *)

\* Types of the updater.
TypeOK ==
    /\ jobs \in [Id -> Job]
    /\ current \in Release
    /\ staged \in [Version -> Content]
    /\ pc \in [Handler -> {"idle", "begin", "verify", "fetch", "digest", "backup", "stage",
                            "write", "activate", "health", "rollback"}]
    /\ call \in [Handler -> Request]
    /\ payload \in [Handler -> {"absent", "good", "bad"}]
    /\ previous \in [Handler -> Release]
    /\ before \in [Handler -> Release]
    /\ prior \in [Id -> Release]
    /\ shared \subseteq Handler
    /\ damaged \subseteq Version
    /\ crashes \in 0..MaxCrashes

\* Whatever calls overlap and wherever the agent stops, nothing is staged whose
\* digest is not that of its manifest, and the active release is complete, also
\* after a switch that was cut short or a rollback.  What can spoil it is another
\* write of the release itself while it is active, about to be, or to be rolled back
\* to: os.WriteFile truncates it, and it is spoiled until a write of it succeeds.
ActiveIsWhole ==
    /\ \A v \in Version : staged[v] # "bad"
    /\ current \in Version => staged[current] = "good" \/ current \in damaged

-----------------------------------------------------------------------------
(* A call beside which no other was under way *)

\* Such a call, when it fails, leaves the release that was active when it began,
\* also when it had activated another and says it rolled back; only when the
\* switch of the link itself went wrong, one way or back, may the release it is
\* about be active, and then it is complete.
FailedCallLeavesRelease ==
    [][\A h \in Handler \ shared :
           LET job == jobs'[call[h].id]
           IN  ~At(h, "idle") /\ pc'[h] = "idle" /\ crashes' = crashes
               /\ job.state # "succeeded"
               => \/ current' = before[h]
                  \/ /\ job.phase \in {"activate", "rollback"}
                     /\ current' = call[h].version
                     /\ staged'[current'] = "good"]_vars

\* The job of a request that ends such a call as succeeded is right: the release it
\* is about is active and complete at that moment, whatever happened to the calls
\* before; and such a call leaves alone the job of a request that has succeeded.
SuccessIsHealthy ==
    [][\A id \in Id :
           LET beside == \E h \in shared : call[h].id = id
           IN  /\ jobs[id].state = "succeeded" => jobs'[id] = jobs[id] \/ beside
               /\ jobs'[id].state = "succeeded" /\ jobs[id].state # "succeeded" =>
                      \/ \E h \in Handler : /\ call[h].id = id
                                            /\ current' = call[h].version
                                            /\ staged'[current'] = "good"
                      \/ beside]_vars

-----------------------------------------------------------------------------
(* What the code and the documentation say *)

\* "prior release restored" (lifecycle.go:245), "Verify the release switches
\* back atomically" (docs/pi-provision-update-test.md:29): a request whose job
\* is rolled back leaves the release that was active before it was first run.
\* (Id has one element.)
RollbackRestoresPrior ==
    [][\A id \in Id :
           jobs'[id].phase = "rolled_back" /\ jobs[id].phase # "rolled_back"
           => current' = prior[id]]_vars

\* "update activated after signed-manifest, digest, and health checks"
\* (lifecycle.go:249): what is active when an update is said to have succeeded is
\* the release it is about, with the digest of its manifest, also when calls
\* overlap.
ActivatedIsVerified ==
    [][\A h \in Handler :
           /\ jobs[call[h].id].state # "succeeded" /\ jobs'[call[h].id].state = "succeeded"
           /\ At(h, "health") /\ pc'[h] = "idle"
           => current' = call[h].version /\ staged'[current'] = "good"]_vars

=============================================================================
