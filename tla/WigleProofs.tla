----------------------------- MODULE WigleProofs -----------------------------
(***************************************************************************)
(* Proofs about Keychain and Wigle.  Of Keychain: for any credentials, any *)
(* entries in any order, and any number of saves and loads; the profile of *)
(* the control plane and the credentials of WiGLE are two instances.  Of   *)
(* Wigle: for any number of uploads, saves, records and attempts.  Wigle   *)
(* implements Keychain, whose theorem thereby holds of the credentials of  *)
(* every upload; what was agreed to, and what WiGLE holds, follow from an  *)
(* invariant of each upload.                                               *)
(***************************************************************************)
EXTENDS Wigle, TLAPS

-----------------------------------------------------------------------------
(* Keychain *)

\* The records the actions write have the types of SaveState and LoadState.
LEMMA SaveRecords ==
  /\ NoSave \in SaveState
  /\ \A v \in Value, a \in BOOLEAN : [value |-> v, left |-> Entry, alone |-> a] \in SaveState
  /\ \A r \in SaveState : [r EXCEPT !.alone = FALSE] \in SaveState
  /\ \A r \in SaveState, e \in Entry : [r EXCEPT !.left = @ \ {e}] \in SaveState
BY DEF NoSave, SaveState

LEMMA LoadRecords ==
  /\ NoLoad \in LoadState
  /\ \A v \in Value \cup {None} :
        [NoLoad EXCEPT !.phase = "reading", !.left = Entry, !.of = v] \in LoadState
  /\ \A r \in LoadState : [r EXCEPT !.of = None] \in LoadState
  /\ \A r \in LoadState : [r EXCEPT !.phase = "failed"] \in LoadState
BY DEF NoLoad, LoadState

\* What an entry that was read makes of a load.
LEMMA ReadRecord ==
  ASSUME NEW r \in LoadState, NEW e \in Entry, NEW v \in Value
  PROVE  LET q == WithEntry(r, e, v)
         IN  /\ q \in LoadState
             /\ q.of = r.of /\ q.left = r.left \ {e}
             /\ q.phase = IF r.left = {e} THEN "loaded" ELSE r.phase
             /\ q.got[e] = v
             /\ \A d \in Entry \ {e} : q.got[d] = r.got[d]
BY DEF LoadState, WithEntry

\* A step of the keychain, by what it does to the variables.
LEMMA KeychainCases ==
  ASSUME [KeychainNext]_keychainVars
  PROVE  \/ \E s \in Saver, v \in Value : BeginSave(s, v)
         \/ \E s \in Saver, e \in Entry : WriteEntry(s, e)
         \/ \E s \in Saver, e \in Entry : WriteFails(s, e)
         \/ \E s \in Saver : EndSave(s)
         \/ \E l \in Loader : BeginLoad(l)
         \/ \E l \in Loader, e \in Entry : ReadEntry(l, e)
         \/ \E l \in Loader : ReadFails(l)
         \/ \E l \in Loader : Take(l)
         \/ UNCHANGED keychainVars
BY DEF KeychainNext, SaveNext, LoadNext, ReadNext

LEMMA KeychainTypeStep ==
  ASSUME KeychainTypeOK, [KeychainNext]_keychainVars PROVE KeychainTypeOK'
<1> USE DEF KeychainTypeOK
<1>1. ASSUME NEW s \in Saver, NEW v \in Value, BeginSave(s, v) PROVE KeychainTypeOK'
  <2>1. saving' \in [Saver -> SaveState]
    BY <1>1, SaveRecords DEF BeginSave
  <2>2. loading' \in [Loader -> LoadState]
    BY <1>1, LoadRecords DEF BeginSave
  <2> QED BY <1>1, <2>1, <2>2 DEF BeginSave
<1>2. ASSUME NEW s \in Saver, NEW e \in Entry, WriteEntry(s, e) PROVE KeychainTypeOK'
  <2>1. saving[s].value \in Value
    BY <1>2 DEF WriteEntry, Saving, SaveState
  <2>2. saving' = [saving EXCEPT ![s] = [saving[s] EXCEPT !.left = @ \ {e}]]
    BY <1>2 DEF WriteEntry
  <2>3. saving' \in [Saver -> SaveState]
    BY <2>2, SaveRecords
  <2> QED BY <1>2, <2>1, <2>3 DEF WriteEntry, Written
<1>3. ASSUME NEW s \in Saver, NEW e \in Entry, WriteFails(s, e) PROVE KeychainTypeOK'
  <2>1. saving[s].value \in Value
    BY <1>3 DEF WriteFails, Saving, SaveState
  <2> QED BY <1>3, <2>1, SaveRecords DEF WriteFails
<1>4. ASSUME NEW s \in Saver, EndSave(s) PROVE KeychainTypeOK'
  <2>1. saving[s].value \in Value
    BY <1>4 DEF EndSave, Saving, SaveState
  <2> QED BY <1>4, <2>1, SaveRecords DEF EndSave
<1>5. ASSUME NEW l \in Loader, BeginLoad(l) PROVE KeychainTypeOK'
  BY <1>5, LoadRecords DEF BeginLoad
<1>6. ASSUME NEW l \in Loader, NEW e \in Entry, ReadEntry(l, e) PROVE KeychainTypeOK'
  <2>1. entry[e] \in Value
    BY <1>6 DEF ReadEntry
  <2> DEFINE q == WithEntry(loading[l], e, entry[e])
  <2>2. loading' = [loading EXCEPT ![l] = q]
    BY <1>6 DEF ReadEntry
  <2>3. loading[l] \in LoadState
    OBVIOUS
  <2>4. q \in LoadState
    BY <2>1, <2>3, ReadRecord
  <2> HIDE DEF q
  <2> QED BY <1>6, <2>2, <2>4 DEF ReadEntry
<1>7. ASSUME NEW l \in Loader, ReadFails(l) PROVE KeychainTypeOK'
  <2> DEFINE q == [loading[l] EXCEPT !.phase = "failed"]
  <2>1. loading' = [loading EXCEPT ![l] = q]
    BY <1>7 DEF ReadFails
  <2>2. q \in LoadState
    BY LoadRecords
  <2> HIDE DEF q
  <2> QED BY <1>7, <2>1, <2>2 DEF ReadFails
<1>8. ASSUME NEW l \in Loader, Take(l) PROVE KeychainTypeOK'
  BY <1>8, LoadRecords DEF Take
<1>9. CASE UNCHANGED keychainVars
  BY <1>9 DEF keychainVars
<1> QED BY <1>1, <1>2, <1>3, <1>4, <1>5, <1>6, <1>7, <1>8, <1>9, KeychainCases

\* SavedIsStored: only the end of a save that was alone says what is saved, and
\* the beginning of a save takes it back before anything is written.
LEMMA SavedStep ==
  ASSUME KeychainInv, [KeychainNext]_keychainVars PROVE SavedIsStored'
<1> USE DEF KeychainInv, KeychainTypeOK
<1>1. ASSUME NEW s \in Saver, NEW v \in Value, BeginSave(s, v) PROVE SavedIsStored'
  BY <1>1 DEF BeginSave, SavedIsStored
<1>2. ASSUME NEW s \in Saver, NEW e \in Entry, WriteEntry(s, e) \/ WriteFails(s, e)
      PROVE  SavedIsStored'
  <2>1. s \in Saving /\ saved' = saved
    BY <1>2 DEF WriteEntry, WriteFails
  <2> QED BY <2>1 DEF SavedIsStored
<1>3. ASSUME NEW s \in Saver, EndSave(s) PROVE SavedIsStored'
  <2> SUFFICES ASSUME saving[s].alone
               PROVE  Saving' = {} /\ \A e \in Entry : entry'[e] = saved'
    BY <1>3 DEF EndSave, SavedIsStored
  <2>1. Saving = {s} /\ \A e \in Entry : entry[e] = saving[s].value
    BY <1>3 DEF EndSave, AloneIsStored
  <2>2. Saving' = {}
    BY <1>3, <2>1 DEF EndSave, Saving, NoSave
  <2> QED BY <1>3, <2>1, <2>2 DEF EndSave
<1>4. ASSUME UNCHANGED <<entry, saving, saved>> PROVE SavedIsStored'
  BY <1>4 DEF SavedIsStored, Saving
<1> QED
  BY <1>1, <1>2, <1>3, <1>4, KeychainCases
     DEF BeginLoad, ReadEntry, ReadFails, Take, keychainVars

\* AloneIsStored.
LEMMA AloneStep ==
  ASSUME KeychainInv, [KeychainNext]_keychainVars PROVE AloneIsStored'
<1> USE DEF KeychainInv, KeychainTypeOK
<1>1. ASSUME NEW s \in Saver, NEW v \in Value, BeginSave(s, v) PROVE AloneIsStored'
  <2> SUFFICES ASSUME NEW r \in Saving', saving'[r].alone
               PROVE  /\ Saving' = {r}
                      /\ \A e \in Entry \ saving'[r].left : entry'[e] = saving'[r].value
    BY DEF AloneIsStored
  <2>1. r \in Saver /\ \A q \in Saver \ {s} : saving'[q] = [saving[q] EXCEPT !.alone = FALSE]
    BY <1>1 DEF BeginSave, Saving
  <2>2. r = s
    BY <2>1 DEF SaveState
  <2>3. saving'[s] = [value |-> v, left |-> Entry, alone |-> Saving = {}]
    BY <1>1 DEF BeginSave
  <2>4. Saving = {}
    <3>1. saving'[s].alone = (Saving = {})
      BY <2>3
    <3> QED BY <2>2, <3>1, Zenon
  <2>5. \A q \in Saver \ {s} : saving'[q].value = None
    <3>1. \A q \in Saver \ {s} : saving'[q].value = saving[q].value
      BY <2>1 DEF SaveState
    <3> QED BY <2>4, <3>1 DEF Saving
  <2> QED BY <2>2, <2>3, <2>5 DEF Saving
<1>2. ASSUME NEW s \in Saver, NEW e \in Entry, WriteEntry(s, e) PROVE AloneIsStored'
  <2> SUFFICES ASSUME NEW r \in Saving', saving'[r].alone
               PROVE  /\ Saving' = {r}
                      /\ \A d \in Entry \ saving'[r].left : entry'[d] = saving'[r].value
    BY DEF AloneIsStored
  <2>1. saving' = [saving EXCEPT ![s] = [saving[s] EXCEPT !.left = @ \ {e}]]
    BY <1>2 DEF WriteEntry
  <2>2. \A q \in Saver : /\ saving'[q].value = saving[q].value
                         /\ saving'[q].alone = saving[q].alone
    BY <2>1 DEF SaveState
  <2>3. Saving' = Saving
    BY <2>2 DEF Saving
  <2>4. Saving = {r} /\ \A d \in Entry \ saving[r].left : entry[d] = saving[r].value
    BY <2>2, <2>3 DEF AloneIsStored, Saving
  <2>5. r = s
    BY <1>2, <2>4 DEF WriteEntry
  <2>6. saving'[s].left = saving[s].left \ {e} /\ saving'[s].value = saving[s].value
    BY <2>1 DEF SaveState
  <2>7. entry' = [entry EXCEPT ![e] = saving[s].value]
    BY <1>2 DEF WriteEntry, Written
  <2> QED BY <2>3, <2>4, <2>5, <2>6, <2>7
<1>3. ASSUME NEW s \in Saver, saving' = [saving EXCEPT ![s] = NoSave], s \in Saving
      PROVE  AloneIsStored'
  <2>1. \A q \in Saving' : q \in Saving /\ q # s /\ saving'[q] = saving[q]
    BY <1>3 DEF Saving, NoSave
  <2>2. \A q \in Saving' : ~saving'[q].alone
    BY <1>3, <2>1 DEF AloneIsStored
  <2> QED BY <2>2 DEF AloneIsStored
<1>4. ASSUME UNCHANGED <<entry, saving>> PROVE AloneIsStored'
  BY <1>4 DEF AloneIsStored, Saving
<1> QED
  BY <1>1, <1>2, <1>3, <1>4, KeychainCases
     DEF WriteFails, EndSave, BeginLoad, ReadEntry, ReadFails, Take, keychainVars

\* LoadFollows: what a load reads while a complete save stands is of that save.
LEMMA LoadStep ==
  ASSUME KeychainInv, [KeychainNext]_keychainVars PROVE LoadFollows'
<1> USE DEF KeychainInv, KeychainTypeOK
<1>1. ASSUME NEW s \in Saver, NEW v \in Value, BeginSave(s, v) PROVE LoadFollows'
  <2>1. \A l \in Loader : loading'[l] = [loading[l] EXCEPT !.of = None]
    BY <1>1 DEF BeginSave
  <2>2. \A l \in Loader : loading'[l].of = None
    BY <2>1 DEF LoadState
  <2> QED BY <2>2 DEF LoadFollows
<1>2. ASSUME NEW s \in Saver, NEW e \in Entry, WriteEntry(s, e) \/ WriteFails(s, e)
      PROVE  LoadFollows'
  BY <1>2 DEF WriteEntry, WriteFails, LoadFollows
<1>3. ASSUME NEW s \in Saver, EndSave(s) PROVE LoadFollows'
  <2>1. saved = None
    BY <1>3 DEF EndSave, SavedIsStored
  <2>2. \A l \in Loader : loading[l].of = None
    BY <2>1 DEF LoadFollows
  <2> QED BY <1>3, <2>2 DEF EndSave, LoadFollows
<1>4. ASSUME NEW l \in Loader, BeginLoad(l) PROVE LoadFollows'
  <2> DEFINE q == [NoLoad EXCEPT !.phase = "reading", !.left = Entry, !.of = saved]
  <2>1. loading' = [loading EXCEPT ![l] = q] /\ saved' = saved
    BY <1>4 DEF BeginLoad
  <2>2. q.of = saved /\ q.left = Entry /\ q.phase = "reading"
    BY DEF NoLoad
  <2> HIDE DEF q
  <2> QED BY <2>1, <2>2 DEF LoadFollows
<1>5. ASSUME NEW l \in Loader, NEW e \in Entry, ReadEntry(l, e) PROVE LoadFollows'
  <2> DEFINE q == WithEntry(loading[l], e, entry[e])
  <2>1. loading' = [loading EXCEPT ![l] = q] /\ saved' = saved
    BY <1>5 DEF ReadEntry
  <2>2. entry[e] \in Value /\ loading[l] \in LoadState /\ loading[l].phase = "reading"
    BY <1>5 DEF ReadEntry
  <2>3. /\ q.of = loading[l].of /\ q.left = loading[l].left \ {e}
        /\ q.phase = IF loading[l].left = {e} THEN "loaded" ELSE loading[l].phase
        /\ q.got[e] = entry[e]
        /\ \A d \in Entry \ {e} : q.got[d] = loading[l].got[d]
    BY <2>2, ReadRecord
  <2> HIDE DEF q
  <2>4. q.of # None => /\ q.of = saved
                       /\ \A d \in Entry \ q.left : q.got[d] = saved
                       /\ q.phase = "loaded" => q.left = {}
    BY <2>2, <2>3 DEF LoadFollows, SavedIsStored
  <2> QED BY <2>1, <2>4 DEF LoadFollows
<1>6. ASSUME NEW l \in Loader, ReadFails(l) PROVE LoadFollows'
  <2> DEFINE q == [loading[l] EXCEPT !.phase = "failed"]
  <2>1. loading' = [loading EXCEPT ![l] = q] /\ saved' = saved
    BY <1>6 DEF ReadFails
  <2>2. q.of = loading[l].of /\ q.phase = "failed"
    BY DEF LoadState
  <2> HIDE DEF q
  <2> QED BY <2>1, <2>2 DEF LoadFollows
<1>7. ASSUME NEW l \in Loader, Take(l) PROVE LoadFollows'
  <2>1. loading' = [loading EXCEPT ![l] = NoLoad] /\ saved' = saved /\ NoLoad.of = None
    BY <1>7 DEF Take, NoLoad
  <2> QED BY <2>1 DEF LoadFollows
<1>8. CASE UNCHANGED keychainVars
  BY <1>8 DEF keychainVars, LoadFollows
<1> QED BY <1>1, <1>2, <1>3, <1>4, <1>5, <1>6, <1>7, <1>8, KeychainCases

\* KeychainInv is inductive.
LEMMA KeychainInvInit == KeychainInit => KeychainInv
<1> SUFFICES ASSUME KeychainInit PROVE KeychainInv
  OBVIOUS
<1>1. KeychainTypeOK
  BY SaveRecords, LoadRecords DEF KeychainInit, KeychainTypeOK
<1>2. Saving = {} /\ \A l \in Loader : loading[l].of = None
  BY DEF KeychainInit, Saving, NoSave, NoLoad
<1> QED BY <1>1, <1>2 DEF KeychainInit, KeychainInv, SavedIsStored, AloneIsStored, LoadFollows

LEMMA KeychainInvStep == KeychainInv /\ [KeychainNext]_keychainVars => KeychainInv'
BY KeychainTypeStep, SavedStep, AloneStep, LoadStep DEF KeychainInv

THEOREM KeychainInvariance == KeychainSpec => []KeychainInv
BY KeychainInvInit, KeychainInvStep, PTL DEF KeychainSpec

\* A load that no save overlaps gives what the last complete save stored, in
\* every entry (KeyringStore.Save and Load, keyring.go:19-65).
THEOREM ProfileIsWhole == KeychainSpec => []LoadIsOneProfile
<1>1. KeychainInv => LoadIsOneProfile
  BY DEF KeychainInv, LoadFollows, LoadIsOneProfile
<1> QED BY <1>1, KeychainInvariance, PTL

-----------------------------------------------------------------------------
(* Wigle *)

\* Every step of Wigle is one of the keychain, or leaves it alone.
LEMMA KeychainStep == [Next]_vars => [KeychainNext]_keychainVars
<1> SUFFICES ASSUME [Next]_vars PROVE [KeychainNext]_keychainVars
  OBVIOUS
<1> USE DEF KeychainNext, LoadNext, Upload
<1>1. ASSUME Screen PROVE [KeychainNext]_keychainVars
  BY <1>1 DEF Screen, KeyEnter, PreviewDone, KeyUpload, OpenModal, Accept, Dismiss, Begin
<1>2. ASSUME NEW u \in Upload, NEW r \in Records, NEW confirm \in BOOLEAN,
             CommandLine(u, r, confirm)
      PROVE  [KeychainNext]_keychainVars
  BY <1>2 DEF CommandLine, Begin
<1>3. ASSUME NEW u \in Upload, Uploading(u) PROVE [KeychainNext]_keychainVars
  BY <1>3 DEF Uploading, ReadCredentials, NoCredentials, FirstAttempt, NextAttempt,
              Answer, UploadDone
<1>4. ASSUME SaveCredentials PROVE [KeychainNext]_keychainVars
  BY <1>4 DEF SaveCredentials
<1>5. CASE UNCHANGED vars
  BY <1>5 DEF vars
<1> QED BY <1>1, <1>2, <1>3, <1>4, <1>5 DEF Next

\* The uploads, with the saves of credentials, implement the keychain.
THEOREM ImplementsKeychain == Spec => KeychainSpec
BY KeychainStep, PTL DEF Spec, Init, KeychainSpec

\* The credentials an upload loads are those saved last, both of them
\* (KeyringStore of internal/wigle/keyring.go).
THEOREM CredentialsAreWhole == Spec => []LoadIsOneProfile
BY ImplementsKeychain, ProfileIsWhole, PTL

-------------------------------------------------------------------------------
(* The uploads *)

\* An upload is for the records it was confirmed for.  Before its last attempt
\* is answered every attempt that WiGLE took was lost; a success has one more,
\* unless it was declined.
GoodUpload ==
    {r \in [pc : {"idle", "load", "sent", "delay", "ok", "failed"}, onScreen : BOOLEAN,
            records : Shown, agreed : Shown, attempt : Nat, answer : Answers \cup {"none"},
            stored : Nat, lost : Nat] :
        /\ r.pc # "idle" => r.records \in Records /\ r.records = r.agreed
        /\ r.pc \in {"idle", "load", "sent", "delay"} => r.stored = r.lost
        /\ r.stored \in {r.lost, r.lost + 1}
        /\ r.pc = "ok" /\ r.answer # "declined" => r.stored = r.lost + 1
        /\ r.pc = "failed" /\ r.answer # "undecodable" => r.stored = r.lost}

\* A request, and the modal it opens, carry the records their body is about.
BodyIsRecords ==
    /\ preview \in Shown
    /\ \A c \in requests : c.body \in Records /\ c.records = c.body
    /\ modal # NoModal => modal.body \in Records /\ modal.records = modal.body

WigleInv == BodyIsRecords /\ upload \in [Upload -> GoodUpload]

LEMMA NoUploadIsGood == NoUpload \in GoodUpload
BY DEF NoUpload, GoodUpload, Shown

\* An upload begins with records that are the agreed ones.
LEMMA BeginStep ==
  ASSUME WigleInv, NEW u \in Upload, NEW onScreen \in BOOLEAN, NEW r \in Records,
         Begin(u, onScreen, r, r)
  PROVE  upload' \in [Upload -> GoodUpload]
<1> DEFINE q == [NoUpload EXCEPT !.pc = "load", !.onScreen = onScreen,
                                 !.records = r, !.agreed = r]
<1>1. upload' = [upload EXCEPT ![u] = q]
  BY DEF Begin
<1>2. q \in GoodUpload
  BY DEF NoUpload, GoodUpload, Shown
<1> HIDE DEF q
<1> QED BY <1>1, <1>2 DEF WigleInv

\* The other steps of an upload, one by one.
LEMMA UploadingStep ==
  ASSUME WigleInv, NEW u \in Upload, Uploading(u)
  PROVE  upload' \in [Upload -> GoodUpload]
<1>0. upload[u] \in GoodUpload /\ upload \in [Upload -> GoodUpload]
  BY DEF WigleInv
<1>1. CASE ReadCredentials(u)
  BY <1>0, <1>1 DEF ReadCredentials
<1>2. CASE NoCredentials(u)
  <2> DEFINE q == [upload[u] EXCEPT !.pc = "failed"]
  <2>1. upload' = [upload EXCEPT ![u] = q] /\ upload[u].pc = "load"
    BY <1>2 DEF NoCredentials
  <2>2. q \in GoodUpload
    BY <1>0, <2>1 DEF GoodUpload
  <2> HIDE DEF q
  <2> QED BY <1>0, <2>1, <2>2
<1>3. CASE FirstAttempt(u) \/ NextAttempt(u)
  <2> DEFINE n == upload[u].attempt + 1
             q == [upload[u] EXCEPT !.pc = "sent", !.attempt = n]
  <2>1. upload' = [upload EXCEPT ![u] = q] /\ upload[u].pc \in {"load", "delay"}
    BY <1>3 DEF FirstAttempt, NextAttempt, Attempt
  <2>2. n \in Nat
    BY <1>0 DEF GoodUpload
  <2> HIDE DEF n
  <2>3. q \in GoodUpload
    BY <1>0, <2>1, <2>2 DEF GoodUpload
  <2> HIDE DEF q
  <2> QED BY <1>0, <2>1, <2>3
<1>4. ASSUME NEW answer \in Answers, NEW stores \in BOOLEAN, Answer(u, answer, stores)
      PROVE  upload' \in [Upload -> GoodUpload]
  <2> DEFINE pc == IF Succeeded(answer) THEN "ok"
                   ELSE IF Retryable(answer) /\ upload[u].attempt < MaxAttempts
                        THEN "delay" ELSE "failed"
             st == IF stores THEN upload[u].stored + 1 ELSE upload[u].stored
             lo == IF stores /\ answer = "retryable" THEN upload[u].lost + 1
                                                     ELSE upload[u].lost
             q == [upload[u] EXCEPT !.answer = answer, !.stored = st, !.lost = lo, !.pc = pc]
  <2>1. upload' = [upload EXCEPT ![u] = q] /\ upload[u].pc = "sent"
    BY <1>4 DEF Answer
  <2>2. /\ pc \in {"ok", "delay", "failed"}
        /\ pc = "ok" <=> answer \in {"accepted", "declined"}
        /\ pc = "delay" => answer = "retryable"
    BY DEF Succeeded, Retryable
  <2>3. upload[u].stored = upload[u].lost /\ upload[u].lost \in Nat
    BY <1>0, <2>1 DEF GoodUpload
  <2>4. /\ st \in Nat /\ lo \in Nat
        /\ st \in {lo, lo + 1}
        /\ answer = "accepted" => st = lo + 1
        /\ answer \in {"retryable", "refused"} => st = lo
    BY <1>4, <2>3 DEF Answer
  <2>5. answer \in {"accepted", "declined", "undecodable", "retryable", "refused"}
    BY DEF Answers
  <2> HIDE DEF pc, st, lo
  <2>6. /\ q = [upload[u] EXCEPT !.answer = answer, !.stored = st, !.lost = lo, !.pc = pc]
        /\ upload[u].records \in Records /\ upload[u].records = upload[u].agreed
    BY <1>0, <2>1 DEF GoodUpload
  <2>7. q \in GoodUpload
    BY <1>0, <2>2, <2>4, <2>5, <2>6 DEF GoodUpload
  <2> HIDE DEF q
  <2> QED BY <1>0, <2>1, <2>7
<1>5. CASE UploadDone(u)
  BY <1>0, <1>5, NoUploadIsGood DEF UploadDone
<1> QED BY <1>1, <1>2, <1>3, <1>4, <1>5 DEF Uploading

\* The screen: requests and modals carry what their body says.
LEMMA ScreenStep ==
  ASSUME WigleInv, Screen
  PROVE  WigleInv'
<1> USE DEF WigleInv, BodyIsRecords
<1>1. CASE KeyEnter \/ \E r \in Shown : PreviewDone(r)
  BY <1>1 DEF KeyEnter, PreviewDone
<1>2. CASE KeyUpload
  <2>1. preview \in Records
    BY <1>2 DEF KeyUpload, Shown
  <2> QED BY <1>2, <2>1 DEF KeyUpload
<1>3. ASSUME NEW c \in Confirm, OpenModal(c) PROVE WigleInv'
  BY <1>3 DEF OpenModal
<1>4. ASSUME NEW u \in Upload, Accept(u) PROVE WigleInv'
  <2>1. /\ modal.body \in Records
        /\ Begin(u, TRUE, modal.body, modal.body)
    BY <1>4 DEF Accept, Captured
  <2>2. upload' \in [Upload -> GoodUpload]
    BY <2>1, BeginStep
  <2> QED BY <1>4, <2>2 DEF Accept
<1>5. CASE Dismiss
  BY <1>5 DEF Dismiss
<1> QED BY <1>1, <1>2, <1>3, <1>4, <1>5 DEF Screen

LEMMA WigleStep == WigleInv /\ [Next]_vars => WigleInv'
<1> SUFFICES ASSUME WigleInv, [Next]_vars PROVE WigleInv'
  OBVIOUS
<1>1. CASE Screen
  BY <1>1, ScreenStep
<1>2. ASSUME NEW u \in Upload, NEW r \in Records, NEW confirm \in BOOLEAN,
             CommandLine(u, r, confirm)
      PROVE  WigleInv'
  <2>1. upload' \in [Upload -> GoodUpload]
    BY <1>2, BeginStep DEF CommandLine
  <2> QED BY <1>2, <2>1 DEF CommandLine, screenVars, WigleInv, BodyIsRecords
<1>3. ASSUME NEW u \in Upload, Uploading(u) PROVE WigleInv'
  <2>1. upload' \in [Upload -> GoodUpload]
    BY <1>3, UploadingStep
  <2>2. UNCHANGED <<preview, requests, modal>>
    BY <1>3 DEF Uploading, ReadCredentials, NoCredentials, FirstAttempt, NextAttempt,
                Attempt, Answer, UploadDone, screenVars
  <2> QED BY <2>1, <2>2 DEF WigleInv, BodyIsRecords
<1>4. CASE SaveCredentials \/ UNCHANGED vars
  BY <1>4 DEF SaveCredentials, vars, screenVars, WigleInv, BodyIsRecords
<1> QED BY <1>1, <1>2, <1>3, <1>4 DEF Next

LEMMA WigleInit == Init => WigleInv
BY NoUploadIsGood DEF Init, WigleInv, BodyIsRecords, Shown

THEOREM WigleInvariance == Spec => []WigleInv
BY WigleInit, WigleStep, PTL DEF Spec

\* The records that are sent are those the accepted modal was about
\* (wigleUploadCmd, wigle.go:230-240).
THEOREM SentIsConfirmed == Spec => []UploadedWasConfirmed
<1>1. WigleInv => UploadedWasConfirmed
  BY DEF WigleInv, GoodUpload, UploadedWasConfirmed
<1> QED BY <1>1, WigleInvariance, PTL

\* WiGLE stores an upload once more for each lost answer, and no more
\* (Upload, wigle.go:162-177).
THEOREM NoOtherDuplicate == Spec => []StoredOnce
<1>1. WigleInv => StoredOnce
  BY DEF WigleInv, GoodUpload, StoredOnce
<1> QED BY <1>1, WigleInvariance, PTL

\* What the upload reports is so, but for the answers named in the property
\* (doUpload, wigle.go:200-222).
THEOREM ReportsAreTrue == Spec => []ReportIsTrue
<1>1. WigleInv => ReportIsTrue
  BY DEF WigleInv, GoodUpload, ReportIsTrue
<1> QED BY <1>1, WigleInvariance, PTL

-------------------------------------------------------------------------------
(* The attempts are counted *)

\* WiGLE stores at most as often as it was asked to, and an upload that waits for
\* another attempt has one left.
CountedUpload ==
    {r \in UploadState :
        /\ r.pc = "load" => r.attempt = 0
        /\ r.pc = "delay" => r.attempt < MaxAttempts
        /\ r.pc = "sent" => r.stored < r.attempt
        /\ r.lost <= r.stored /\ r.stored <= r.attempt}

ScreenTypes ==
    /\ previews \subseteq Shown
    /\ preview \in Shown
    /\ requests \subseteq Confirm
    /\ modal \in Confirm \cup {NoModal}
    /\ shown \in {"none", "ok", "failed"}

CountInv == ScreenTypes /\ upload \in [Upload -> CountedUpload]

\* An upload begins with no attempt made.
LEMMA BeginCounts ==
  ASSUME CountInv, NEW u \in Upload, NEW onScreen \in BOOLEAN, NEW r \in Records,
         NEW a \in Records, Begin(u, onScreen, r, a)
  PROVE  upload' \in [Upload -> CountedUpload]
<1> DEFINE q == [NoUpload EXCEPT !.pc = "load", !.onScreen = onScreen,
                                 !.records = r, !.agreed = a]
<1>1. upload' = [upload EXCEPT ![u] = q]
  BY DEF Begin
<1>2. q \in CountedUpload
  <2>1. 0 \in 0..MaxAttempts /\ r \in Shown /\ a \in Shown
    BY WigleAssumption DEF Shown
  <2>2. /\ NoUpload \in UploadState
        /\ NoUpload.attempt = 0 /\ NoUpload.stored = 0 /\ NoUpload.lost = 0
    BY <2>1 DEF NoUpload, UploadState, Shown
  <2>3. q \in UploadState /\ q.pc = "load" /\ q.attempt = 0 /\ q.stored = 0 /\ q.lost = 0
    BY <2>1, <2>2 DEF UploadState
  <2> HIDE DEF q
  <2> QED BY <2>3 DEF CountedUpload
<1> HIDE DEF q
<1> QED BY <1>1, <1>2 DEF CountInv

\* The other steps of an upload: another attempt is made only if one is left
\* (Upload, wigle.go:162-181).
LEMMA UploadingCounts ==
  ASSUME CountInv, NEW u \in Upload, Uploading(u)
  PROVE  upload' \in [Upload -> CountedUpload]
<1>0. upload[u] \in CountedUpload /\ upload \in [Upload -> CountedUpload]
  BY DEF CountInv
<1>1. /\ upload[u].attempt \in 0..MaxAttempts /\ MaxAttempts \in Nat \ {0}
      /\ upload[u].stored \in 0..MaxAttempts /\ upload[u].lost \in 0..MaxAttempts
      /\ upload[u].lost <= upload[u].stored /\ upload[u].stored <= upload[u].attempt
  BY <1>0, WigleAssumption DEF CountedUpload, UploadState
<1>2. CASE ReadCredentials(u)
  BY <1>0, <1>2 DEF ReadCredentials
<1>3. CASE NoCredentials(u)
  <2> DEFINE q == [upload[u] EXCEPT !.pc = "failed"]
  <2>1. upload' = [upload EXCEPT ![u] = q]
    BY <1>3 DEF NoCredentials
  <2>2. q \in CountedUpload
    BY <1>0 DEF CountedUpload, UploadState
  <2> HIDE DEF q
  <2> QED BY <1>0, <2>1, <2>2
<1>4. CASE FirstAttempt(u) \/ NextAttempt(u)
  <2> DEFINE n == upload[u].attempt + 1
             q == [upload[u] EXCEPT !.pc = "sent", !.attempt = n]
  <2>1. upload' = [upload EXCEPT ![u] = q] /\ upload[u].pc \in {"load", "delay"}
    BY <1>4 DEF FirstAttempt, NextAttempt, Attempt
  <2>2. /\ upload[u].pc = "load" => upload[u].attempt = 0
        /\ upload[u].pc = "delay" => upload[u].attempt < MaxAttempts
    BY <1>0 DEF CountedUpload
  <2>3. n \in 0..MaxAttempts /\ upload[u].stored < n
    BY <1>1, <2>1, <2>2
  <2> HIDE DEF n
  <2>4. /\ q \in UploadState /\ q.pc = "sent" /\ q.attempt = n
        /\ q.stored = upload[u].stored /\ q.lost = upload[u].lost
    BY <1>0, <2>3 DEF CountedUpload, UploadState
  <2> HIDE DEF q
  <2>5. q \in CountedUpload
    BY <1>1, <2>3, <2>4 DEF CountedUpload
  <2> QED BY <1>0, <2>1, <2>5
<1>5. ASSUME NEW answer \in Answers, NEW stores \in BOOLEAN, Answer(u, answer, stores)
      PROVE  upload' \in [Upload -> CountedUpload]
  <2> DEFINE pc == IF Succeeded(answer) THEN "ok"
                   ELSE IF Retryable(answer) /\ upload[u].attempt < MaxAttempts
                        THEN "delay" ELSE "failed"
             st == IF stores THEN upload[u].stored + 1 ELSE upload[u].stored
             lo == IF stores /\ answer = "retryable" THEN upload[u].lost + 1
                                                     ELSE upload[u].lost
             q == [upload[u] EXCEPT !.answer = answer, !.stored = st, !.lost = lo, !.pc = pc]
  <2>1. upload' = [upload EXCEPT ![u] = q] /\ upload[u].pc = "sent"
    BY <1>5 DEF Answer
  <2>2. upload[u].stored < upload[u].attempt
    BY <1>0, <2>1 DEF CountedUpload
  <2>3. /\ pc \in {"ok", "delay", "failed"}
        /\ pc = "delay" => upload[u].attempt < MaxAttempts
    OBVIOUS
  <2>4. /\ st \in 0..MaxAttempts /\ lo \in 0..MaxAttempts
        /\ lo <= st /\ st <= upload[u].attempt
    BY <1>1, <2>2
  <2> HIDE DEF pc, st, lo
  <2>5. /\ q \in UploadState /\ q.pc = pc /\ q.attempt = upload[u].attempt
        /\ q.stored = st /\ q.lost = lo
    BY <1>0, <2>3, <2>4 DEF CountedUpload, UploadState
  <2> HIDE DEF q
  <2>6. q \in CountedUpload
    BY <2>3, <2>4, <2>5 DEF CountedUpload
  <2> QED BY <1>0, <2>1, <2>6
<1>6. CASE UploadDone(u)
  <2>1. NoUpload \in CountedUpload
    BY WigleAssumption DEF NoUpload, CountedUpload, UploadState, Shown
  <2> QED BY <1>0, <1>6, <2>1 DEF UploadDone
<1> QED BY <1>2, <1>3, <1>4, <1>5, <1>6 DEF Uploading

LEMMA CountStep == CountInv /\ [Next]_vars => CountInv'
<1> SUFFICES ASSUME CountInv, [Next]_vars PROVE CountInv'
  OBVIOUS
<1> USE DEF ScreenTypes, screenVars
<1>1. CASE KeyEnter \/ Dismiss \/ SaveCredentials \/ UNCHANGED vars
  BY <1>1 DEF CountInv, KeyEnter, Dismiss, SaveCredentials, vars
<1>2. ASSUME NEW r \in Shown, PreviewDone(r) PROVE CountInv'
  BY <1>2 DEF CountInv, PreviewDone
<1>3. CASE KeyUpload
  <2>1. [body |-> preview, records |-> preview] \in Confirm
    BY <1>3 DEF CountInv, KeyUpload, Shown, Confirm
  <2> QED BY <1>3, <2>1 DEF CountInv, KeyUpload
<1>4. ASSUME NEW c \in Confirm, OpenModal(c) PROVE CountInv'
  BY <1>4 DEF CountInv, OpenModal
<1>5. ASSUME NEW u \in Upload, Accept(u) PROVE CountInv'
  <2>1. modal.body \in Records /\ modal.records \in Records
    BY <1>5 DEF CountInv, Accept, Confirm
  <2>2. upload' \in [Upload -> CountedUpload]
    BY <1>5, <2>1, BeginCounts DEF Accept, Captured
  <2> QED BY <1>5, <2>2 DEF CountInv, Accept
<1>6. ASSUME NEW u \in Upload, NEW r \in Records, NEW confirm \in BOOLEAN,
             CommandLine(u, r, confirm)
      PROVE  CountInv'
  <2>1. upload' \in [Upload -> CountedUpload]
    BY <1>6, BeginCounts DEF CommandLine
  <2> QED BY <1>6, <2>1 DEF CountInv, CommandLine
<1>7. ASSUME NEW u \in Upload, Uploading(u) PROVE CountInv'
  <2>1. upload' \in [Upload -> CountedUpload]
    BY <1>7, UploadingCounts
  <2>2. ScreenTypes'
    <3>1. CASE UploadDone(u)
      <4>1. shown' = shown \/ shown' = upload[u].pc
        BY <3>1 DEF UploadDone
      <4> QED BY <3>1, <4>1 DEF CountInv, UploadDone
    <3>2. CASE UNCHANGED screenVars
      BY <3>2 DEF CountInv
    <3> QED BY <1>7, <3>1, <3>2 DEF Uploading, ReadCredentials, NoCredentials, FirstAttempt,
                NextAttempt, Attempt, Answer
  <2> QED BY <2>1, <2>2 DEF CountInv
<1> QED BY <1>1, <1>2, <1>3, <1>4, <1>5, <1>6, <1>7 DEF Next, Screen

\* Types of the keychain, the screen and the uploads; no upload is attempted more
\* often than MaxAttempts says, nor stored more often than it was attempted
\* (Upload, wigle.go:162-181).
THEOREM WigleTypeCorrect == Spec => []TypeOK
<1>1. Init => CountInv
  BY WigleAssumption
  DEF Init, CountInv, ScreenTypes, CountedUpload, UploadState, NoUpload, Shown
<1>2. KeychainInv /\ CountInv => TypeOK
  BY DEF KeychainInv, CountInv, ScreenTypes, CountedUpload, TypeOK
<1> QED BY <1>1, <1>2, CountStep, ImplementsKeychain, KeychainInvariance, PTL DEF Spec

===============================================================================
