---------------------------- MODULE UpdaterProofs ----------------------------
(***************************************************************************)
(* Proofs about Updater: for any number of calls that overlap, of releases *)
(* and of crashes the active release is whole unless it was written again, *)
(* and a call beside which no other was under way leaves the release when  *)
(* it fails and, when it succeeds, is about the release that runs.         *)
(***************************************************************************)
EXTENDS Updater, TLAPS

-----------------------------------------------------------------------------
(* The invariants *)

\* What is about to be staged has the digest of its manifest.
PayloadVerified == \A h \in Handler : pc[h] \in {"backup", "stage", "write"} => payload[h] = "good"

\* The release is complete, or was truncated while it was in use.
Whole(v) == staged[v] = "good" \/ v \in damaged

\* Not only the active release is whole: so is every one that a call would switch
\* the link to, forward or back.
InUseIsWhole ==
    /\ \A v \in Version : staged[v] # "bad"
    /\ \A v \in Version : InUse(v) => Whole(v)

IInv == TypeOK /\ PayloadVerified /\ InUseIsWhole

\* What is true of a call beside which no other was under way: it works at a request
\* that has not succeeded, would roll back to the release it began with, and has
\* switched to a release that is complete.
CallInv(h) ==
    /\ jobs[call[h].id].state # "succeeded"
    /\ pc[h] \in {"begin", "verify", "fetch", "digest", "backup", "stage", "write", "activate"} =>
           current = before[h]
    /\ pc[h] \in {"stage", "write", "activate", "health", "rollback"} => previous[h] = before[h]
    /\ pc[h] \in {"activate", "health", "rollback"} => staged[call[h].version] = "good"
    /\ pc[h] \in {"health", "rollback"} => current = call[h].version

SerialInv ==
    /\ shared \subseteq Calls
    /\ \A h \in Calls \ shared : Calls = {h} /\ CallInv(h)

\* On a Pi that has been updated before, a release is always active.
ActiveInv ==
    /\ current \in Version
    /\ \A h \in Handler :
           pc[h] \in {"stage", "write", "activate", "health", "rollback"} => previous[h] \in Version

-----------------------------------------------------------------------------
(* Lemmas *)

Label == {"idle", "begin", "verify", "fetch", "digest", "backup", "stage", "write", "activate",
          "health", "rollback"}

LEMMA Requests == NoRequest \in Request
<1>1. PICK id \in Id, v \in Version : TRUE
  BY UpdaterAssumption
<1>2. [id |-> id, version |-> v] \in Request
  BY DEF Request
<1> QED BY <1>2 DEF NoRequest

\* A switch, cut short or not, leaves the link at a release: where it was, or at the
\* one it was to be switched to.
LEMMA Switches ==
  ASSUME TypeOK, NEW r \in Release, NEW c \in PartlySwitched(r) \cup {Target(r)}
  PROVE  /\ c \in Release
         /\ c = current \/ c = Target(r)
         /\ c \in Version => c = current \/ c = r
BY UpdaterAssumption DEF TypeOK, Release, PartlySwitched, Target

\* A call that ends stores its job and forgets the rest.
LEMMA EndType ==
  ASSUME TypeOK, NEW h \in Handler, NEW state, NEW phase, End(h, state, phase),
         [state |-> state, phase |-> phase] \in Job,
         current' \in Release, staged' \in [Version -> Content], damaged' \subseteq Version
  PROVE  TypeOK'
<1>1. call[h].id \in Id
  BY DEF TypeOK, Request
<1>2. /\ jobs' \in [Id -> Job] /\ pc' \in [Handler -> Label] /\ call' \in [Handler -> Request]
      /\ payload' \in [Handler -> {"absent", "good", "bad"}]
      /\ previous' \in [Handler -> Release] /\ before' \in [Handler -> Release]
      /\ shared' \subseteq Handler
  BY <1>1, Requests DEF TypeOK, End, Put, Goto, Release, Label
<1> QED BY <1>2 DEF TypeOK, End, Label

\* One that goes on keeps what is not named here.
LEMMA MoveType ==
  ASSUME TypeOK, NEW h \in Handler, NEW label \in Label, Move(h, label),
         current' \in Release, staged' \in [Version -> Content], damaged' \subseteq Version,
         payload' \in [Handler -> {"absent", "good", "bad"}],
         previous' \in [Handler -> Release]
  PROVE  TypeOK'
BY DEF TypeOK, Move, Goto, Label

\* What the steps of a call do to the links and the directories.
LEMMA Steps ==
  ASSUME NEW h \in Handler, Continue(h), TypeOK
  PROVE  /\ UNCHANGED crashes
         /\ UNCHANGED host \/ Truncate(h) \/ Write(h) \/ ActivateFails(h) \/ Activate(h)
            \/ RollbackFails(h) \/ Rollback(h)
BY DEF Continue, Begin, VerifyFails, Verify, FetchFails, Fetch, DigestFails, DigestPasses,
       BackupFails, Backup, StageFails, Truncate, WriteFails, Write, ActivateFails, Activate,
       HealthFails, RollbackFails, Rollback, Succeed, End, Move

\* The calls and the job that a step of one of them leaves.
LEMMA CallType ==
  ASSUME TypeOK, NEW h \in Handler, Continue(h),
         current' \in Release, staged' \in [Version -> Content], damaged' \subseteq Version
  PROVE  TypeOK'
<1> USE DEF Label
<1>0. /\ \A s \in {"running", "succeeded", "failed"},
            p \in {"", "verify_manifest", "download", "verify_digest", "backup", "stage",
                   "activate", "rollback", "rolled_back", "complete"} :
            [state |-> s, phase |-> p] \in Job
      /\ payload \in [Handler -> {"absent", "good", "bad"}]
      /\ previous \in [Handler -> Release]
  BY DEF Job, TypeOK
<1>1. CASE Begin(h)
  <2>1. call[h].id \in Id
    BY DEF TypeOK, Request
  <2>2. jobs' \in [Id -> Job]
    BY <1>0, <1>1, <2>1 DEF Begin, Put, TypeOK
  <2> QED BY <1>1, <2>2 DEF Begin, Goto, TypeOK
<1>2. CASE VerifyFails(h) \/ FetchFails(h) \/ DigestFails(h) \/ BackupFails(h) \/ StageFails(h)
           \/ WriteFails(h) \/ ActivateFails(h) \/ RollbackFails(h) \/ Rollback(h) \/ Succeed(h)
  BY <1>0, <1>2, EndType DEF VerifyFails, FetchFails, DigestFails, BackupFails, StageFails,
     WriteFails, ActivateFails, RollbackFails, Rollback, Succeed
<1>3. CASE Fetch(h)
  <2>1. payload' \in [Handler -> {"absent", "good", "bad"}]
    BY <1>0, <1>3 DEF Fetch
  <2> QED BY <1>0, <1>3, <2>1, MoveType DEF Fetch
<1>4. CASE Backup(h)
  <2>1. previous' \in [Handler -> Release]
    BY <1>0, <1>4 DEF Backup, ActiveRelease, TypeOK
  <2> QED BY <1>0, <1>4, <2>1, MoveType DEF Backup
<1>5. CASE Verify(h) \/ DigestPasses(h) \/ Truncate(h) \/ Write(h) \/ Activate(h)
  BY <1>0, <1>5, MoveType DEF Verify, DigestPasses, Truncate, Write, Activate
<1>6. CASE HealthFails(h)
  BY <1>0, <1>6, MoveType DEF HealthFails, AfterHealthFailure
<1> QED BY <1>1, <1>2, <1>3, <1>4, <1>5, <1>6 DEF Continue

-----------------------------------------------------------------------------
(* Calls that overlap *)

LEMMA InitIInv == Init => IInv
<1> SUFFICES ASSUME Init PROVE IInv
  OBVIOUS
<1>1. TypeOK
  <2>1. [state |-> "none", phase |-> ""] \in Job /\ Initial \in Release /\ NoRelease \in Release
    BY UpdaterAssumption DEF Job, Release
  <2>2. \A v \in Version : (IF v = Initial THEN "good" ELSE "absent") \in Content
    BY DEF Content
  <2>3. 0 \in 0..MaxCrashes
    BY UpdaterAssumption
  <2> QED BY <2>1, <2>2, <2>3, Requests DEF Init, TypeOK
<1>2. InUseIsWhole
  BY UpdaterAssumption DEF Init, InUseIsWhole, InUse, Whole, At
<1> QED BY <1>1, <1>2 DEF Init, IInv, PayloadVerified

\* A handler changes its own payload only, and goes on with it past the digest
\* only when it is good.
LEMMA PayloadStep == ASSUME IInv, [Next]_vars PROVE PayloadVerified'
<1> USE DEF IInv
<1>a. pc \in [Handler -> Label] /\ payload \in [Handler -> {"absent", "good", "bad"}]
  BY DEF TypeOK, Label
<1>1. ASSUME NEW h \in Handler, NEW request \in Request, Start(h, request) PROVE PayloadVerified'
  BY <1>1, <1>a DEF Start, Goto, PayloadVerified
<1>2. ASSUME NEW h \in Handler, Continue(h) PROVE PayloadVerified'
  <2>1. \A g \in Handler \ {h} : pc'[g] = pc[g] /\ payload'[g] = payload[g]
    BY <1>a, <1>2 DEF Continue, Begin, VerifyFails, Verify, FetchFails, Fetch, DigestFails,
       DigestPasses, BackupFails, Backup, StageFails, Truncate, WriteFails, Write,
       ActivateFails, Activate, HealthFails, RollbackFails, Rollback, Succeed, End, Move, Goto
  <2>2. pc'[h] \in {"backup", "stage", "write"} =>
           payload'[h] = payload[h] /\ (pc[h] \in {"backup", "stage"} \/ payload[h] = "good")
    BY <1>a, <1>2 DEF Continue, Begin, VerifyFails, Verify, FetchFails, Fetch, DigestFails,
       DigestPasses, BackupFails, Backup, StageFails, Truncate, WriteFails, Write,
       ActivateFails, Activate, HealthFails, RollbackFails, Rollback, Succeed, End, Move, Goto,
       DigestMatches, At, AfterHealthFailure
  <2> QED BY <2>1, <2>2 DEF PayloadVerified
<1>3. CASE Crash
  BY <1>3 DEF Crash, PayloadVerified
<1>4. CASE UNCHANGED vars
  BY <1>4 DEF vars, PayloadVerified
<1> QED BY <1>1, <1>2, <1>3, <1>4 DEF Next

\* What a step makes of the link and the directories has their types.
LEMMA HostType ==
  ASSUME IInv, [Next]_vars
  PROVE  current' \in Release /\ staged' \in [Version -> Content] /\ damaged' \subseteq Version
<1> USE DEF IInv
<1> DEFINE Typed == current' \in Release /\ staged' \in [Version -> Content]
                    /\ damaged' \subseteq Version
<1>a. /\ current \in Release /\ staged \in [Version -> Content] /\ damaged \subseteq Version
      /\ \A h \in Handler : call[h].version \in Version /\ previous[h] \in Release
      /\ Version \subseteq Release
  BY DEF TypeOK, Request, Release
<1>1. CASE UNCHANGED host
  BY <1>1, <1>a DEF host
<1>2. ASSUME NEW r \in Release, current' \in PartlySwitched(r) \cup {Target(r)},
             UNCHANGED <<staged, damaged>>
      PROVE  Typed
  BY <1>2, <1>a, Switches
<1>3. ASSUME NEW h \in Handler, Continue(h) PROVE Typed
  <2>1. CASE Truncate(h)
    BY <1>a, <2>1 DEF Truncate, Content
  <2>2. CASE Write(h)
    <3>1. payload[h] = "good"
      BY <2>2 DEF Write, At, PayloadVerified
    <3> QED BY <1>a, <2>2, <3>1 DEF Write, Written, Content
  <2>3. CASE ActivateFails(h) \/ Activate(h)
    BY <1>2, <1>a, <2>3 DEF ActivateFails, Activate
  <2>4. CASE RollbackFails(h) \/ Rollback(h)
    BY <1>2, <1>a, <2>4 DEF RollbackFails, Rollback
  <2> QED BY <1>1, <1>3, <2>1, <2>2, <2>3, <2>4, Steps
<1>4. CASE Crash
  BY <1>2, <1>4, <1>a DEF Crash
<1>5. CASE (\E h \in Handler, request \in Request : Start(h, request)) \/ UNCHANGED vars
  BY <1>1, <1>5 DEF Start, vars
<1> QED BY <1>3, <1>4, <1>5 DEF Next

\* A release comes into use only when it has been written: Backup notes the active
\* one, and a switch, forward or back, is to one that was in use.
LEMMA ComesIntoUse ==
  ASSUME TypeOK, NEW h \in Handler, Continue(h), NEW v \in Version, InUse(v)'
  PROVE  InUse(v) \/ (Write(h) /\ call[h].version = v)
<1> DEFINE Using == {"stage", "write", "activate", "health", "rollback"}
<1>a. /\ pc \in [Handler -> Label] /\ call \in [Handler -> Request]
      /\ previous \in [Handler -> Release] /\ call[h].version \in Release
  BY DEF TypeOK, Label, Request, Release
<1>b. call' = call \/ pc'[h] = "idle"
  BY <1>a DEF Continue, Begin, VerifyFails, Verify, FetchFails, Fetch, DigestFails,
     DigestPasses, BackupFails, Backup, StageFails, Truncate, WriteFails, Write,
     ActivateFails, Activate, HealthFails, RollbackFails, Rollback, Succeed, End, Move, Goto
<1>1. \A g \in Handler \ {h} : pc'[g] = pc[g] /\ call'[g] = call[g] /\ previous'[g] = previous[g]
  BY <1>a DEF Continue, Begin, VerifyFails, Verify, FetchFails, Fetch, DigestFails,
     DigestPasses, BackupFails, Backup, StageFails, Truncate, WriteFails, Write,
     ActivateFails, Activate, HealthFails, RollbackFails, Rollback, Succeed, End, Move, Goto
<1>2. pc'[h] = "activate" => Write(h)
  BY <1>a DEF Continue, Begin, VerifyFails, Verify, FetchFails, Fetch, DigestFails,
     DigestPasses, BackupFails, Backup, StageFails, Truncate, WriteFails,
     ActivateFails, Activate, HealthFails, RollbackFails, Rollback, Succeed, End, Move, Goto,
     AfterHealthFailure
<1>3. pc'[h] \in Using =>
         \/ previous'[h] = previous[h] /\ pc[h] \in Using
         \/ previous'[h] = current
  BY <1>a DEF Continue, Begin, VerifyFails, Verify, FetchFails, Fetch, DigestFails,
     DigestPasses, BackupFails, Backup, StageFails, Truncate, WriteFails, Write,
     ActivateFails, Activate, HealthFails, RollbackFails, Rollback, Succeed, End, Move, Goto,
     At, AfterHealthFailure, ActiveRelease
<1>4. current' = v => \/ current = v
                      \/ pc[h] = "activate" /\ call[h].version = v
                      \/ pc[h] = "rollback" /\ previous[h] = v
  <2>1. CASE ActivateFails(h) \/ Activate(h)
    BY <1>a, <2>1, Switches DEF ActivateFails, Activate, At
  <2>2. CASE RollbackFails(h) \/ Rollback(h)
    BY <1>a, <2>2, Switches DEF RollbackFails, Rollback, At
  <2>3. CASE UNCHANGED host \/ Truncate(h) \/ Write(h)
    BY <2>3 DEF host, Truncate, Write
  <2> QED BY <2>1, <2>2, <2>3, Steps
<1> QED BY <1>1, <1>2, <1>3, <1>4, <1>b DEF InUse, At

\* A write is the only thing that spoils a release, and that of one in use is noted.
LEMMA UseStep == ASSUME IInv, [Next]_vars PROVE InUseIsWhole'
<1> USE DEF IInv
<1>a. /\ staged \in [Version -> Content]
      /\ \A h \in Handler : call[h].version \in Version /\ previous[h] \in Release
      /\ Version \subseteq Release
  BY DEF TypeOK, Request, Release
<1>1. ASSUME NEW h \in Handler, NEW request \in Request, Start(h, request) PROVE InUseIsWhole'
  <2>1. /\ UNCHANGED <<host, previous>> /\ pc'[h] = "begin"
        /\ \A g \in Handler \ {h} : pc'[g] = pc[g] /\ call'[g] = call[g]
    BY <1>1 DEF Start, Goto, TypeOK
  <2>2. \A v \in Version : InUse(v)' => InUse(v)
    BY <2>1 DEF InUse, At, host
  <2> QED BY <2>1, <2>2 DEF InUseIsWhole, Whole, host
<1>2. ASSUME NEW h \in Handler, Continue(h) PROVE InUseIsWhole'
  <2>1. CASE ~Write(h) /\ UNCHANGED <<staged, damaged>>
    BY <1>2, <2>1, ComesIntoUse DEF InUseIsWhole, Whole
  <2>2. CASE Truncate(h)
    <3>1. \A v \in Version : InUse(v)' => InUse(v)
      BY <1>2, <2>2, ComesIntoUse DEF Truncate, Write, At
    <3>2. \A v \in Version : /\ staged'[v] = IF v = call[h].version THEN "torn" ELSE staged[v]
                             /\ v \in damaged => v \in damaged'
      BY <1>a, <2>2 DEF Truncate
    <3>3. InUse(call[h].version) => call[h].version \in damaged'
      BY <2>2 DEF Truncate
    <3>4. \A v \in Version : staged'[v] # "bad"
      BY <3>2 DEF InUseIsWhole
    <3>5. ASSUME NEW v \in Version, InUse(v)' PROVE Whole(v)'
      <4>1. CASE v = call[h].version
        BY <3>1, <3>3, <3>5, <4>1 DEF Whole
      <4>2. CASE v # call[h].version
        BY <3>1, <3>2, <3>5, <4>2 DEF InUseIsWhole, Whole
      <4> QED BY <4>1, <4>2
    <3> QED BY <3>4, <3>5 DEF InUseIsWhole
  <2>3. CASE Write(h)
    <3>1. payload[h] = "good"
      BY <2>3 DEF Write, At, PayloadVerified
    <3>2. \A v \in Version : /\ staged'[v] = IF v = call[h].version THEN "good" ELSE staged[v]
                             /\ v \in damaged /\ v # call[h].version => v \in damaged'
      BY <1>a, <2>3, <3>1 DEF Write, Written
    <3>3. \A v \in Version : staged'[v] # "bad"
      BY <3>2 DEF InUseIsWhole
    <3>4. ASSUME NEW v \in Version, InUse(v)' PROVE Whole(v)'
      <4>1. CASE v = call[h].version
        BY <3>2, <4>1 DEF Whole
      <4>2. CASE v # call[h].version
        <5>1. InUse(v)
          BY <1>2, <3>4, <4>2, ComesIntoUse
        <5> QED BY <3>2, <4>2, <5>1 DEF InUseIsWhole, Whole
      <4> QED BY <4>1, <4>2
    <3> QED BY <3>3, <3>4 DEF InUseIsWhole
  <2> QED BY <1>2, <2>1, <2>2, <2>3, Steps
           DEF host, ActivateFails, Activate, RollbackFails, Rollback
<1>3. CASE Crash
  <2>1. \A v \in Version : InUse(v)' => InUse(v)
    BY <1>3, <1>a, Switches DEF Crash, InUse, At
  <2> QED BY <1>3, <2>1 DEF Crash, InUseIsWhole, Whole
<1>4. CASE UNCHANGED vars
  BY <1>4 DEF vars, host, InUseIsWhole, InUse, Whole, At
<1> QED BY <1>1, <1>2, <1>3, <1>4 DEF Next

LEMMA StepIInv == ASSUME IInv, [Next]_vars PROVE IInv'
<1>a. /\ TypeOK /\ current' \in Release /\ staged' \in [Version -> Content]
      /\ damaged' \subseteq Version
  BY HostType DEF IInv
<1>1. TypeOK'
  <2>1. ASSUME NEW h \in Handler, NEW request \in Request, Start(h, request) PROVE TypeOK'
    BY <1>a, <2>1 DEF Start, Goto, Calls, TypeOK
  <2>2. ASSUME NEW h \in Handler, Continue(h) PROVE TypeOK'
    BY <1>a, <2>2, CallType
  <2>3. CASE Crash
    <3>1. crashes' \in 0..MaxCrashes
      BY <1>a, <2>3, UpdaterAssumption DEF Crash, TypeOK
    <3> QED BY <1>a, <2>3, <3>1, Requests DEF Crash, TypeOK, Release
  <2>4. CASE UNCHANGED vars
    BY <1>a, <2>4 DEF vars, TypeOK
  <2> QED BY <2>1, <2>2, <2>3, <2>4 DEF Next
<1> QED BY <1>1, PayloadStep, UseStep DEF IInv

\* The invariant holds whatever calls overlap and wherever the agent stops.
THEOREM UpdaterInvariance == Spec => []IInv
<1> QED BY InitIInv, StepIInv, PTL DEF Spec

\* Jobs, releases and calls have their types.
THEOREM UpdaterTypeCorrect == Spec => []TypeOK
<1> QED BY UpdaterInvariance, PTL DEF IInv

\* Whatever calls overlap and wherever the agent stops, Stage only ever writes what
\* VerifyDigest passed, and the link is at a release that is complete, unless that
\* very release was truncated again while it was in use.
THEOREM ActiveReleaseWhole == Spec => []ActiveIsWhole
<1>1. IInv => ActiveIsWhole
  BY DEF IInv, InUseIsWhole, InUse, Whole, ActiveIsWhole
<1> QED BY <1>1, UpdaterInvariance, PTL

-----------------------------------------------------------------------------
(* A call beside which no other was under way *)

\* A step of such a call, by what it does.
LEMMA SerialCall ==
  ASSUME IInv, NEW h \in Handler, Continue(h), CallInv(h), pc'[h] # "idle"
  PROVE  CallInv(h)'
<1> USE DEF IInv
<1>a. /\ pc \in [Handler -> Label] /\ jobs \in [Id -> Job] /\ call[h] \in Request
      /\ staged \in [Version -> Content] /\ payload \in [Handler -> {"absent", "good", "bad"}]
      /\ previous \in [Handler -> Release] /\ call[h].id \in Id /\ call[h].version \in Version
  BY DEF TypeOK, Label, Request
<1>b. /\ jobs[call[h].id].state # "succeeded"
      /\ pc[h] \in {"begin", "verify", "fetch", "digest", "backup", "stage", "write", "activate"} =>
             current = before[h]
      /\ pc[h] \in {"stage", "write", "activate", "health", "rollback"} => previous[h] = before[h]
      /\ pc[h] \in {"activate", "health", "rollback"} => staged[call[h].version] = "good"
      /\ pc[h] \in {"health", "rollback"} => current = call[h].version
  BY DEF CallInv
<1>2. CASE Begin(h)
  <2>1. jobs'[call[h].id].state = "running" /\ pc'[h] = "verify" /\ pc[h] = "begin"
        /\ call' = call /\ UNCHANGED <<host, before>>
    BY <1>2, <1>a DEF Begin, Put, Goto, At
  <2> QED BY <1>b, <2>1 DEF CallInv, host
<1>3. CASE Verify(h) \/ Fetch(h) \/ DigestPasses(h)
  <2>1. /\ UNCHANGED <<jobs, call, before, current, staged>>
        /\ pc'[h] \in {"fetch", "digest", "backup"} /\ pc[h] \in {"verify", "fetch", "digest"}
    BY <1>3, <1>a DEF Verify, Fetch, DigestPasses, Move, Goto, At, host
  <2> QED BY <1>b, <2>1 DEF CallInv
<1>4. CASE Backup(h)
  <2>1. /\ UNCHANGED <<jobs, call, before, current, staged>>
        /\ pc'[h] = "stage" /\ pc[h] = "backup" /\ previous'[h] = current
    BY <1>4, <1>a DEF Backup, ActiveRelease, Move, Goto, At, host
  <2> QED BY <1>b, <2>1 DEF CallInv
<1>5. CASE Truncate(h)
  <2>1. /\ UNCHANGED <<jobs, call, before, current, previous>>
        /\ pc'[h] = "write" /\ pc[h] = "stage"
    BY <1>5, <1>a DEF Truncate, Move, Goto, At
  <2> QED BY <1>b, <2>1 DEF CallInv
<1>6. CASE Write(h)
  <2>1. payload[h] = "good"
    BY <1>6 DEF Write, At, PayloadVerified
  <2>2. /\ UNCHANGED <<jobs, call, before, current, previous>>
        /\ pc'[h] = "activate" /\ pc[h] = "write" /\ staged'[call[h].version] = "good"
    BY <1>6, <1>a, <2>1 DEF Write, Written, Move, Goto, At
  <2> QED BY <1>b, <2>2 DEF CallInv
<1>7. CASE Activate(h)
  <2>1. Target(call[h].version) = call[h].version
    BY <1>a, UpdaterAssumption DEF Target
  <2>2. /\ UNCHANGED <<jobs, call, before, staged, previous>>
        /\ pc'[h] = "health" /\ pc[h] = "activate" /\ current' = call[h].version
    BY <1>7, <1>a, <2>1 DEF Activate, Move, Goto, At
  <2> QED BY <1>b, <2>2 DEF CallInv
<1>8. CASE HealthFails(h)
  <2>1. /\ UNCHANGED <<jobs, call, before, current, staged, previous>>
        /\ pc'[h] = "rollback" /\ pc[h] = "health"
    BY <1>8, <1>a DEF HealthFails, AfterHealthFailure, Move, Goto, At, host
  <2> QED BY <1>b, <2>1 DEF CallInv
<1>9. ASSUME VerifyFails(h) \/ FetchFails(h) \/ DigestFails(h) \/ BackupFails(h) \/ StageFails(h)
             \/ WriteFails(h) \/ ActivateFails(h) \/ RollbackFails(h) \/ Rollback(h) \/ Succeed(h)
      PROVE  FALSE
  BY <1>9, <1>a DEF VerifyFails, FetchFails, DigestFails, BackupFails, StageFails,
     WriteFails, ActivateFails, RollbackFails, Rollback, Succeed, End, Goto
<1> QED BY <1>2, <1>3, <1>4, <1>5, <1>6, <1>7, <1>8, <1>9 DEF Continue

\* A step of one call leaves the others where they are, and those that have met
\* another one stay known until they end.
LEMMA SharedStep ==
  ASSUME TypeOK, NEW h \in Handler, Continue(h)
  PROVE  /\ h \in Calls
         /\ pc'[h] = "idle" => Calls' = Calls \ {h} /\ shared' = shared \ {h}
         /\ pc'[h] # "idle" => Calls' = Calls /\ shared' = shared
<1>a. pc \in [Handler -> Label]
  BY DEF TypeOK, Label
<1>1. /\ pc[h] # "idle" /\ \A g \in Handler \ {h} : pc'[g] = pc[g]
      /\ pc'[h] = "idle" => shared' = shared \ {h}
      /\ pc'[h] # "idle" => shared' = shared
  BY <1>a DEF Continue, Begin, VerifyFails, Verify, FetchFails, Fetch, DigestFails,
     DigestPasses, BackupFails, Backup, StageFails, Truncate, WriteFails, Write,
     ActivateFails, Activate, HealthFails, RollbackFails, Rollback, Succeed, End, Move, Goto,
     At, AfterHealthFailure
<1> QED BY <1>1 DEF Calls, At

LEMMA SerialStep == ASSUME IInv, SerialInv, [Next]_vars PROVE SerialInv'
<1> USE DEF IInv
<1>1. ASSUME NEW h \in Handler, NEW request \in Request, Start(h, request) PROVE SerialInv'
  <2>1. /\ UNCHANGED <<jobs, host>> /\ call'[h] = request /\ pc'[h] = "begin" /\ pc[h] = "idle"
        /\ before'[h] = current /\ jobs[request.id].state # "succeeded"
        /\ \A g \in Handler \ {h} : pc'[g] = pc[g]
        /\ shared' = IF Calls = {} THEN shared ELSE shared \cup Calls \cup {h}
    BY <1>1 DEF Start, Goto, TypeOK, Finished, At
  <2>2. Calls' = Calls \cup {h} /\ h \notin Calls
    BY <2>1 DEF Calls, At
  <2>3. CallInv(h)'
    BY <2>1 DEF CallInv, host
  <2>4. CASE Calls = {}
    BY <2>1, <2>2, <2>3, <2>4 DEF SerialInv
  <2>5. CASE Calls # {}
    BY <2>1, <2>2, <2>5 DEF SerialInv
  <2> QED BY <2>4, <2>5
<1>2. ASSUME NEW h \in Handler, Continue(h) PROVE SerialInv'
  <2>1. /\ h \in Calls
        /\ pc'[h] = "idle" => Calls' = Calls \ {h} /\ shared' = shared \ {h}
        /\ pc'[h] # "idle" => Calls' = Calls /\ shared' = shared
    BY <1>2, SharedStep
  <2>2. CASE pc'[h] = "idle"
    BY <2>1, <2>2 DEF SerialInv
  <2>3. CASE pc'[h] # "idle"
    <3>1. SUFFICES ASSUME NEW g \in Calls, g \notin shared PROVE Calls = {g} /\ CallInv(g)'
      BY <2>1, <2>3 DEF SerialInv
    <3>2. g = h /\ Calls = {g} /\ CallInv(h)
      BY <2>1, <3>1 DEF SerialInv
    <3> QED BY <1>2, <2>3, <3>2, SerialCall
  <2> QED BY <2>2, <2>3
<1>3. CASE Crash
  BY <1>3 DEF Crash, SerialInv, Calls, At
<1>4. CASE UNCHANGED vars
  BY <1>4 DEF vars, host, SerialInv, CallInv, Calls, At
<1> QED BY <1>1, <1>2, <1>3, <1>4 DEF Next

\* A call beside which no other was under way works at a request that has not
\* succeeded and would roll back to the release it found.
THEOREM SerialInvariance == Spec => []SerialInv
<1>1. Init => SerialInv
  BY DEF Init, SerialInv, Calls, At
<1>2. IInv /\ SerialInv /\ [Next]_vars => SerialInv'
  BY SerialStep
<1> QED BY <1>1, <1>2, UpdaterInvariance, PTL DEF Spec

\* A call that no other overlaps never changes the job of a request that succeeded
\* (the early return of Run), and when it ends as succeeded its release is complete
\* and active.
THEOREM SuccessCorrect == Spec => SuccessIsHealthy
<1> DEFINE Healthy ==
             \A id \in Id :
                LET beside == \E h \in shared : call[h].id = id
                IN  /\ jobs[id].state = "succeeded" => jobs'[id] = jobs[id] \/ beside
                    /\ jobs'[id].state = "succeeded" /\ jobs[id].state # "succeeded" =>
                           \/ \E h \in Handler : /\ call[h].id = id
                                                 /\ current' = call[h].version
                                                 /\ staged'[current'] = "good"
                           \/ beside
<1>1. ASSUME IInv, SerialInv, [Next]_vars PROVE Healthy \/ UNCHANGED vars
  <2>1. CASE jobs' = jobs
    BY <2>1
  <2>2. ASSUME NEW h \in Handler, NEW state, NEW phase, Put(h, state, phase), ~At(h, "idle"),
               state # "succeeded"
        PROVE  Healthy
    <3>1. \A id \in Id : IF id = call[h].id THEN jobs'[id].state = state ELSE jobs'[id] = jobs[id]
      BY <1>1, <2>2 DEF Put, IInv, TypeOK
    <3>2. h \in shared \/ jobs[call[h].id].state # "succeeded"
      BY <1>1, <2>2 DEF SerialInv, CallInv, Calls
    <3> QED BY <2>2, <3>1, <3>2
  <2>3. ASSUME NEW h \in Handler, Succeed(h) PROVE Healthy
    <3>1. /\ \A id \in Id : id # call[h].id => jobs'[id] = jobs[id]
          /\ UNCHANGED <<current, staged>>
      BY <1>1, <2>3 DEF Succeed, End, Put, IInv, TypeOK, host
    <3>2. \/ h \in shared
          \/ /\ jobs[call[h].id].state # "succeeded" /\ current = call[h].version
             /\ staged[call[h].version] = "good"
      BY <1>1, <2>3 DEF Succeed, At, SerialInv, CallInv, Calls
    <3> QED BY <3>1, <3>2
  <2>4. ASSUME NEW h \in Handler, Continue(h) PROVE Healthy
    <3>1. CASE Begin(h)
      BY <2>2, <3>1 DEF Begin, At
    <3>2. CASE VerifyFails(h) \/ FetchFails(h) \/ DigestFails(h) \/ BackupFails(h) \/ StageFails(h)
               \/ WriteFails(h) \/ ActivateFails(h) \/ RollbackFails(h) \/ Rollback(h)
      BY <2>2, <3>2 DEF VerifyFails, FetchFails, DigestFails, BackupFails, StageFails,
         WriteFails, ActivateFails, RollbackFails, Rollback, End, At
    <3>3. CASE Verify(h) \/ Fetch(h) \/ DigestPasses(h) \/ Backup(h) \/ Truncate(h) \/ Write(h)
               \/ Activate(h) \/ HealthFails(h)
      BY <2>1, <3>3 DEF Verify, Fetch, DigestPasses, Backup, Truncate, Write, Activate,
         HealthFails, Move
    <3> QED BY <2>3, <2>4, <3>1, <3>2, <3>3 DEF Continue
  <2>5. CASE Crash \/ (\E h \in Handler, request \in Request : Start(h, request))
    BY <2>1, <2>5 DEF Crash, Start
  <2> QED BY <1>1, <2>4, <2>5 DEF Next
<1>2. IInv /\ SerialInv /\ [Next]_vars => [Healthy]_vars
  BY <1>1
<1> QED BY <1>2, UpdaterInvariance, SerialInvariance, PTL DEF Spec, SuccessIsHealthy

\* What a call finds and leaves active on a Pi that has a release.
LEMMA ActiveStep == ASSUME IInv, ActiveInv, [Next]_vars PROVE ActiveInv'
<1> USE DEF IInv
<1> DEFINE Using == {"stage", "write", "activate", "health", "rollback"}
<1>a. /\ current \in Version /\ pc \in [Handler -> Label] /\ previous \in [Handler -> Release]
      /\ \A h \in Handler : call[h].version \in Version
                            /\ (pc[h] \in Using => previous[h] \in Version)
  BY DEF ActiveInv, TypeOK, Label, Request
<1>b. \A v \in Version : Target(v) = v /\ \A c \in PartlySwitched(v) : c \in Version
  BY <1>a, UpdaterAssumption DEF Target, PartlySwitched
<1>1. ASSUME NEW h \in Handler, NEW request \in Request, Start(h, request) PROVE ActiveInv'
  BY <1>1, <1>a DEF Start, Goto, ActiveInv, host
<1>2. ASSUME NEW h \in Handler, Continue(h) PROVE ActiveInv'
  <2>1. current' \in Version
    <3>1. CASE Truncate(h) \/ Write(h)
      BY <1>a, <3>1 DEF Truncate, Write
    <3>2. CASE ActivateFails(h) \/ Activate(h)
      BY <1>a, <1>b, <3>2 DEF ActivateFails, Activate
    <3>3. CASE RollbackFails(h) \/ Rollback(h)
      BY <1>a, <1>b, <3>3 DEF RollbackFails, Rollback, At
    <3> QED BY <1>2, <1>a, <3>1, <3>2, <3>3, Steps DEF host
  <2>2. \A g \in Handler \ {h} : pc'[g] = pc[g] /\ previous'[g] = previous[g]
    BY <1>2, <1>a DEF Continue, Begin, VerifyFails, Verify, FetchFails, Fetch, DigestFails,
       DigestPasses, BackupFails, Backup, StageFails, Truncate, WriteFails, Write,
       ActivateFails, Activate, HealthFails, RollbackFails, Rollback, Succeed, End, Move, Goto
  <2>3. pc'[h] \in Using => \/ previous'[h] = previous[h] /\ pc[h] \in Using
                            \/ previous'[h] = current
    BY <1>2, <1>a DEF Continue, Begin, VerifyFails, Verify, FetchFails, Fetch, DigestFails,
       DigestPasses, BackupFails, Backup, StageFails, Truncate, WriteFails, Write,
       ActivateFails, Activate, HealthFails, RollbackFails, Rollback, Succeed, End, Move, Goto,
       At, AfterHealthFailure, ActiveRelease
  <2> QED BY <1>a, <2>1, <2>2, <2>3 DEF ActiveInv
<1>3. CASE Crash
  <2>1. current' \in Version
    BY <1>3, <1>a, <1>b DEF Crash, At
  <2> QED BY <1>3, <2>1 DEF Crash, ActiveInv
<1>4. CASE UNCHANGED vars
  BY <1>4 DEF vars, host, ActiveInv
<1> QED BY <1>1, <1>2, <1>3, <1>4 DEF Next

\* On a Pi that has been updated before, a call that fails and that no other overlaps
\* leaves the release that was active when it began, also when it had activated
\* another and rolled back, or, when the switch itself went wrong, the complete
\* release it is about.
THEOREM FailureCorrect == ASSUME Initial \in Version PROVE Spec => FailedCallLeavesRelease
<1> DEFINE Leaves ==
             \A h \in Handler \ shared :
                LET job == jobs'[call[h].id]
                IN  ~At(h, "idle") /\ pc'[h] = "idle" /\ crashes' = crashes
                    /\ job.state # "succeeded"
                    => \/ current' = before[h]
                       \/ /\ job.phase \in {"activate", "rollback"}
                          /\ current' = call[h].version
                          /\ staged'[current'] = "good"
<1>1. ASSUME IInv, SerialInv, ActiveInv, [Next]_vars PROVE Leaves \/ UNCHANGED vars
  <2> USE <1>1 DEF IInv
  <2>a. /\ pc \in [Handler -> Label] /\ jobs \in [Id -> Job]
        /\ \A h \in Handler : call[h].id \in Id /\ call[h].version \in Release
        /\ \A v \in Version : Target(v) = v
        /\ crashes \in Nat
    BY UpdaterAssumption DEF TypeOK, Label, Request, Release, Target
  <2>1. ASSUME NEW h \in Handler, NEW request \in Request, Start(h, request) PROVE Leaves
    BY <2>1, <2>a DEF Start, Goto, At
  <2>2. ASSUME NEW h \in Handler, Continue(h) PROVE Leaves
    <3>a. \A g \in Handler : pc'[g] = "idle" /\ ~At(g, "idle") => g = h
      BY <2>2, <2>a DEF Continue, Begin, VerifyFails, Verify, FetchFails, Fetch, DigestFails,
         DigestPasses, BackupFails, Backup, StageFails, Truncate, WriteFails, Write,
         ActivateFails, Activate, HealthFails, RollbackFails, Rollback, Succeed, End, Move,
         Goto, At
    <3>b. SUFFICES ASSUME h \notin shared, ~At(h, "idle"), pc'[h] = "idle",
                          jobs'[call[h].id].state # "succeeded"
                   PROVE  \/ current' = before[h]
                          \/ /\ jobs'[call[h].id].phase \in {"activate", "rollback"}
                             /\ current' = call[h].version
                             /\ staged'[current'] = "good"
      BY <3>a
    <3>c. /\ pc[h] \in {"verify", "fetch", "digest", "backup", "stage", "write", "activate"} =>
                 current = before[h]
          /\ pc[h] = "rollback" => previous[h] = before[h]
          /\ pc[h] \in {"activate", "rollback"} => staged[call[h].version] = "good"
          /\ pc[h] = "rollback" => current = call[h].version
          /\ pc[h] = "rollback" => previous[h] \in Version
      BY <3>b DEF SerialInv, CallInv, Calls, ActiveInv
    <3>1. CASE VerifyFails(h) \/ FetchFails(h) \/ DigestFails(h) \/ BackupFails(h) \/ StageFails(h)
               \/ WriteFails(h)
      BY <3>c, <3>1 DEF VerifyFails, FetchFails, DigestFails, BackupFails, StageFails,
         WriteFails, At, host
    <3>2. CASE ActivateFails(h)
      <4>1. jobs'[call[h].id].phase = "activate"
        BY <2>a, <3>2 DEF ActivateFails, End, Put
      <4>2. current' = current \/ current' = call[h].version
        BY <2>a, <3>2, Switches DEF ActivateFails, PartlySwitched, Target, TypeOK, Request
      <4> QED BY <3>2, <3>c, <4>1, <4>2 DEF ActivateFails, At
    <3>3. CASE RollbackFails(h)
      <4>1. jobs'[call[h].id].phase = "rollback"
        BY <2>a, <3>3 DEF RollbackFails, End, Put
      <4>2. current' = current \/ current' = previous[h]
        BY <2>a, <3>3, <3>c DEF RollbackFails, PartlySwitched, At
      <4> QED BY <3>3, <3>c, <4>1, <4>2 DEF RollbackFails, At
    <3>4. CASE Rollback(h)
      BY <2>a, <3>4, <3>c DEF Rollback, At
    <3>5. CASE Succeed(h)
      BY <2>a, <3>b, <3>5 DEF Succeed, End, Put
    <3>6. ASSUME Begin(h) \/ Verify(h) \/ Fetch(h) \/ DigestPasses(h) \/ Backup(h) \/ Truncate(h)
                 \/ Write(h) \/ Activate(h) \/ HealthFails(h)
          PROVE  pc'[h] # "idle"
      BY <2>a, <3>6 DEF Begin, Verify, Fetch, DigestPasses, Backup, Truncate, Write, Activate,
         HealthFails, AfterHealthFailure, Move, Goto
    <3> QED BY <2>2, <3>b, <3>1, <3>2, <3>3, <3>4, <3>5, <3>6 DEF Continue
  <2>3. CASE Crash
    <3>1. crashes' # crashes
      BY <2>3, <2>a DEF Crash
    <3> QED BY <3>1
  <2> QED BY <2>1, <2>2, <2>3 DEF Next
<1>2. IInv /\ SerialInv /\ ActiveInv /\ [Next]_vars => [Leaves]_vars
  BY <1>1
<1>3. Init => ActiveInv
  BY DEF Init, ActiveInv
<1>4. IInv /\ ActiveInv /\ [Next]_vars => ActiveInv'
  BY ActiveStep
<1> QED
  BY <1>2, <1>3, <1>4, UpdaterInvariance, SerialInvariance, PTL
     DEF Spec, FailedCallLeavesRelease

=============================================================================
