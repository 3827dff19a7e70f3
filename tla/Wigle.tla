-------------------------------- MODULE Wigle --------------------------------
(***************************************************************************)
(* The WiGLE screen of the console (internal/tui/wigle.go), the uploader   *)
(* (internal/wigle/wigle.go) and the upload command (main.go).             *)
(*                                                                         *)
(* Every key starts a command that runs in a goroutine of its own, and its *)
(* result comes back as a message; any number of them are under way and    *)
(* their messages come in any order.  An upload loads its credentials from *)
(* the keychain while other ones may be being saved.                       *)
(*                                                                         *)
(* WiGLE is external.  Its upload is not idempotent: each attempt it takes *)
(* stores the records once more, also when its answer is lost.             *)
(***************************************************************************)
EXTENDS Keychain, FiniteSets

CONSTANTS
    Records,     \* the valid records of a capture file, one value per content
    NoRecords,   \* no preview, or one without a valid record
    MaxAttempts, \* Uploader.MaxAttempts, 3 unless it is set
    MaxPending   \* bound on messages of one kind that are under way

ASSUME WigleAssumption ==
    /\ NoRecords \notin Records
    /\ MaxAttempts \in Nat \ {0}
    /\ MaxPending \in Nat

\* Each upload loads credentials once.
Upload == Loader

VARIABLES
    previews,  \* previews whose message is under way
    preview,   \* what the screen shows and the keys e and u act on
    requests,  \* requestConfirmMsg that are under way
    modal,     \* the open modal
    upload,    \* the uploads
    shown      \* the last uploadResult

screenVars == <<previews, preview, requests, modal, shown>>
vars == <<keychainVars, screenVars, upload>>

Shown == Records \cup {NoRecords}

\* A request to confirm says how many records its body is about; the command it
\* runs has captured the records themselves.
Confirm == [body : Records, records : Records]
NoModal == [body |-> NoRecords, records |-> NoRecords]

\* What Upload sees of WiGLE's answer: accepted; "declined", a 2xx whose body
\* says success: false; a 2xx that cannot be decoded; a transport error, 429 or
\* 5xx; any other status.
Answers == {"accepted", "declined", "undecodable", "retryable", "refused"}

\* agreed: history, what the modal showed when it was accepted.  stored: what
\* WiGLE holds of this upload; lost: attempts it took with a retryable answer.
UploadState ==
    [pc : {"idle", "load", "sent", "delay", "ok", "failed"}, onScreen : BOOLEAN,
     records : Shown, agreed : Shown, attempt : 0..MaxAttempts,
     answer : Answers \cup {"none"}, stored : 0..MaxAttempts, lost : 0..MaxAttempts]
NoUpload == [pc |-> "idle", onScreen |-> FALSE, records |-> NoRecords,
             agreed |-> NoRecords, attempt |-> 0, answer |-> "none",
             stored |-> 0, lost |-> 0]

TypeOK ==
    /\ KeychainTypeOK
    /\ previews \subseteq Shown
    /\ preview \in Shown
    /\ requests \subseteq Confirm
    /\ modal \in Confirm \cup {NoModal}
    /\ upload \in [Upload -> UploadState]
    /\ shown \in {"none", "ok", "failed"}

Init ==
    /\ KeychainInit
    /\ previews = {}
    /\ preview = NoRecords
    /\ requests = {}
    /\ modal = NoModal
    /\ upload = [u \in Upload |-> NoUpload]
    /\ shown = "none"

-------------------------------------------------------------------------------
(* Previews *)

\* The key enter; the file is read when the command runs.
KeyEnter ==
    /\ modal = NoModal
    /\ Cardinality(previews) < MaxPending
    /\ \E r \in Shown : previews' = previews \cup {r}
    /\ UNCHANGED <<keychainVars, preview, requests, modal, upload, shown>>

\* wiglePreviewMsg; messages are handled also while a modal is open.  The error
\* of an upload is cleared, its result is not.
PreviewDone(r) ==
    /\ r \in previews
    /\ previews' = previews \ {r}
    /\ preview' = r
    /\ shown' = IF shown = "failed" THEN "none" ELSE shown
    /\ UNCHANGED <<keychainVars, requests, modal, upload>>

-------------------------------------------------------------------------------
(* The confirmation *)

KeyUpload ==
    /\ modal = NoModal
    /\ preview # NoRecords
    /\ Cardinality(requests) < MaxPending
    /\ requests' = requests \cup {[body |-> preview, records |-> preview]}
    /\ UNCHANGED <<keychainVars, previews, preview, modal, upload, shown>>

\* A request replaces a modal that is open.
OpenModal(c) ==
    /\ c \in requests
    /\ requests' = requests \ {c}
    /\ modal' = c
    /\ UNCHANGED <<keychainVars, previews, preview, upload, shown>>

\* UploadedWasConfirmed: the command takes the preview of the moment it runs.
Captured_Fault(c) == preview

Captured(c) == c.records

\* Begins the upload with the loading of its credentials.
Begin(u, onScreen, records, agreed) ==
    /\ upload[u].pc = "idle"
    /\ upload' = [upload EXCEPT ![u] =
          [NoUpload EXCEPT !.pc = "load", !.onScreen = onScreen,
                           !.records = records, !.agreed = agreed]]
    /\ BeginLoad(u)

Accept(u) ==
    /\ modal # NoModal
    /\ modal' = NoModal
    /\ Begin(u, TRUE, Captured(modal), modal.body)
    /\ UNCHANGED <<previews, preview, requests, shown>>

Dismiss ==
    /\ modal # NoModal
    /\ modal' = NoModal
    /\ UNCHANGED <<keychainVars, previews, preview, requests, upload, shown>>

\* The command line prints the preview and uploads it when it has --confirm.
CommandLine(u, records, confirm) ==
    /\ confirm
    /\ Begin(u, FALSE, records, records)
    /\ UNCHANGED screenVars

-------------------------------------------------------------------------------
(* Upload *)

ReadCredentials(u) ==
    /\ upload[u].pc = "load"
    /\ ReadNext(u)
    /\ UNCHANGED <<screenVars, upload>>

NoCredentials(u) ==
    /\ upload[u].pc = "load"
    /\ loading[u].phase = "failed"
    /\ upload' = [upload EXCEPT ![u].pc = "failed"]
    /\ Take(u)
    /\ UNCHANGED screenVars

\* An attempt sends the records with the credentials that were loaded.
Attempt(u) ==
    /\ upload' = [upload EXCEPT ![u].pc = "sent", ![u].attempt = @ + 1]
    /\ UNCHANGED screenVars

FirstAttempt(u) ==
    /\ upload[u].pc = "load"
    /\ loading[u].phase = "loaded"
    /\ Attempt(u)
    /\ Take(u)

\* After the delay.
NextAttempt(u) ==
    /\ upload[u].pc = "delay"
    /\ Attempt(u)
    /\ UNCHANGED keychainVars

\* StoredOnce: a 2xx that cannot be decoded is tried again.
Retryable_Fault(answer) == answer \in {"retryable", "undecodable"}

Retryable(answer) == answer = "retryable"

\* ReportIsTrue: statuses other than 429 and 5xx are not looked at.
Succeeded_Fault(answer) == answer \in {"accepted", "declined", "refused"}

\* success is decoded and not looked at.
Succeeded(answer) == answer \in {"accepted", "declined"}

\* The transport error of an attempt may hide that WiGLE has stored it, and so
\* may a 5xx and a body that cannot be decoded.
Answer(u, answer, stores) ==
    /\ upload[u].pc = "sent"
    /\ answer = "accepted" => stores
    /\ answer \in {"refused", "declined"} => ~stores
    /\ upload' = [upload EXCEPT
          ![u].answer = answer,
          ![u].stored = IF stores THEN @ + 1 ELSE @,
          ![u].lost = IF stores /\ answer = "retryable" THEN @ + 1 ELSE @,
          ![u].pc = IF Succeeded(answer) THEN "ok"
                    ELSE IF Retryable(answer) /\ upload[u].attempt < MaxAttempts
                         THEN "delay" ELSE "failed"]
    /\ UNCHANGED <<keychainVars, screenVars>>

\* ConfirmedUploadEnds: the command returns no message when the upload failed.
UploadDone_Fault(u) ==
    /\ upload[u].pc = "ok"
    /\ shown' = IF upload[u].onScreen THEN "ok" ELSE shown
    /\ upload' = [upload EXCEPT ![u] = NoUpload]
    /\ UNCHANGED <<keychainVars, previews, preview, requests, modal>>

\* wigleUploadMsg, or the end of the command.
UploadDone(u) ==
    /\ upload[u].pc \in {"ok", "failed"}
    /\ shown' = IF upload[u].onScreen THEN upload[u].pc ELSE shown
    /\ upload' = [upload EXCEPT ![u] = NoUpload]
    /\ UNCHANGED <<keychainVars, previews, preview, requests, modal>>

-------------------------------------------------------------------------------
\* wigleCredSaveCmd and `wigle credentials set`.
SaveCredentials == SaveNext /\ UNCHANGED <<screenVars, upload>>

Screen ==
    \/ KeyEnter
    \/ \E r \in Shown : PreviewDone(r)
    \/ KeyUpload
    \/ \E c \in Confirm : OpenModal(c)
    \/ \E u \in Upload : Accept(u)
    \/ Dismiss

Uploading(u) ==
    \/ ReadCredentials(u) \/ NoCredentials(u)
    \/ FirstAttempt(u) \/ NextAttempt(u)
    \/ \E answer \in Answers, stores \in BOOLEAN : Answer(u, answer, stores)
    \/ UploadDone(u)

Next ==
    \/ Screen
    \/ \E u \in Upload, r \in Records, confirm \in BOOLEAN : CommandLine(u, r, confirm)
    \/ \E u \in Upload : Uploading(u)
    \/ SaveCredentials

Spec == Init /\ [][Next]_vars

\* Goroutines run, WiGLE answers an attempt or the connection to it breaks, and
\* the keychain answers.  http.DefaultClient sets no deadline: for a peer that
\* is silent for ever on a connection that lives nothing ends the upload.
Fairness == \A u \in Upload : WF_vars(Uploading(u))

FairSpec == Spec /\ Fairness

-------------------------------------------------------------------------------
(* What the uploads promise *)

\* What is sent to WiGLE are the records of the preview that the accepted modal
\* was about, whatever previews were made in between and in whatever order
\* their messages came (wigleUploadCmd, wigle.go:230-240).
UploadedWasConfirmed ==
    \A u \in Upload : upload[u].pc # "idle" =>
        upload[u].records \in Records /\ upload[u].records = upload[u].agreed

\* WiGLE stores a confirmed upload once, and once more for each attempt it took
\* whose answer was lost or was a 5xx: "accidental duplicate submissions are
\* avoided as far as WiGLE's non-idempotent upload endpoint permits"
\* (README.md:78; Upload, wigle.go:162-177).
StoredOnce ==
    \A u \in Upload : upload[u].stored <= 1 + upload[u].lost

\* A success that is reported was stored, unless WiGLE said success: false; and
\* after a failure that is reported nothing is stored, unless an answer was
\* lost on the way or could not be decoded (doUpload, wigle.go:200-222).
ReportIsTrue ==
    \A u \in Upload :
        /\ upload[u].pc = "ok" /\ upload[u].answer # "declined" => upload[u].stored > 0
        /\ (upload[u].pc = "failed" /\ upload[u].lost = 0
               /\ upload[u].answer # "undecodable") => upload[u].stored = 0

\* An upload that was confirmed ends, with a message (Upload, wigle.go:160-179).
ConfirmedUploadEnds ==
    \A u \in Upload : upload[u].pc = "load" ~> upload[u].pc = "idle"

\* Two statements that fail; see the README.
OkMeansStored ==
    \A u \in Upload : upload[u].pc = "ok" => upload[u].stored > 0

NoResultBeforeUpload ==
    [][preview' # preview => shown' # "ok"]_vars

===============================================================================
