# wifi-water-bottle in TLA+

A Raspberry Pi in a water bottle runs `bottle-agent`; a laptop runs the operator
console `bottle-tui`.  They talk over a direct Ethernet link, in JSON messages over
mutually authenticated TLS.  This directory models the parts of the two programs in
which state outlives a function call, or is shared by goroutines, processes, or files
and processes; checks the models with TLC; and proves the central ones with TLAPS.

Line numbers are those of the source tree; `PROJECT.json` gives, for every definition
that models code, the lines it stands for.

## The system

| Part | Source | State | Operations | Module |
|---|---|---|---|---|
| Event bus | `bottle-agent/internal/eventbus` | retained window, next sequence, a buffered channel per subscriber | `Publish`, `Subscribe`, `unsubscribe` | `EventBus` |
| Live event stream | `controlplane/server.go`, `client.go`, `eventstream.go`, `model/events.go` | the bus, a connection, the reader's two channels, the cursor and the log | subscribe, forward, read, `Recv`, `Consume` | `LiveEvents` over `EventBus`; abstract: `EventFeed` |
| Provisioner | `lifecycle.go`, `file_jobs.go` | the stored jobs, a copy of the job per call | `Provisioner.Run`, `FileJobs.Put` | `Provisioner` |
| Updater | `lifecycle.go`, `host.go` | stored jobs, staged releases, the `current` link | `Updater.Run`, `Stage`, `switchTo` | `Updater` |
| Setup | `main.go`, `pki.go`, `PairingStore`, `deploy/pi-bootstrap-remote.sh` | PKI files, allowlist, profile files, what a running agent has read | `bottle-agent setup`, the script, start and stop of the agent | `Setup` |
| Kismet tunnel | `bottle-tui/internal/tunnel`, `bottle-agent/internal/tunnel`, `Server.handle` | listener, relays, status and events; the agent's handler of each stream | `Start`, `acceptLoop`, `relay`, `emit`, `Close`, `Open`, `Serve` | `Tunnel` |
| Tunnel screen | `tui/tunnel.go`, `tui/app.go` | handle, running, closing; commands and messages under way | keys `t`, `c`, `q`; messages | `TunnelScreen` |
| Console | `tui/app.go`, `confirm.go`, `provision.go`, `update.go`, `survey.go`, `client.go` | active screen, modal, forms, client, consumer | keys, commands and messages | `Console` |
| Survey and status | `agent/agent.go`, `tui/dashboard.go` | `surveyState`, Kismet's unit, the header | `Survey`, `Status`; provisioning and restarts | `Survey` |
| Client's buffer | `model/events.go` | bounded list with the marker of an overflow | `Add`, `MarkHistoryGap`, `trimLocked` | in `LiveEvents` |
| Credentials | `controlplane/keyring.go`, `wigle/keyring.go` | keychain entries | `Save`, `Load` | `Keychain` |
| WiGLE | `tui/wigle.go`, `wigle/wigle.go`, `main.go` | preview, modal, uploads under way | keys, messages, `Upload` and its retries, `wigle upload` | `Wigle` over `Keychain` |
| Link configuration, layout, enclosure | `deploy/`, `theme.go`, `stl/` | - | - | not modelled: files copied over ssh, formatting, no program |

How they interact.  The agent's handlers publish to the bus.  A connection of the
control plane is served by a goroutine of `Server.handle`, which answers requests one
after the other, or forwards a subscription of the bus (`events_subscribe`), or hands
the connection to the tunnel (`tunnel`).  It runs handlers with
`context.Background()`, so a handler goes on when its client is gone.  `Client.request`
opens a connection per request under one mutex; the event stream and each relay of the
tunnel have connections of their own.  In the console every command runs in a goroutine
and its result is a message for `App.Update`, in the order in which commands end.
Setup and a running agent share files: the agent reads them once, when it starts.
Kismet's unit is started by a survey call, by provisioning and at boot.  The keychain is
shared by every process that saves or loads credentials.

What is hard in it:

- *Interleaving*: two calls for one request (a client that lost its connection retries
  while the first call runs on); relays, the accept loop and `Close`, which emit on one
  channel that `Close` closes; console commands and their messages.
- *Loss and order*: full channels, broken connections, an agent whose event numbers
  begin again; `Recv` selecting between two channels.
- *Crashes*: between a step of provisioning and its checkpoint, between the switch of a
  release and its health check (the switch restarts the agent), in the middle of a file
  during setup.
- *Waiting*: `Close` on its goroutines; requests on the client's mutex; a reconnecting
  client.
- *Stale copies*: a call's copy of the job, the agent's copy of the allowlist, its idea of
  whether Kismet runs, the status in the header, the preview an upload was confirmed for,
  the screen's idea of which tunnel is open.
- *Several writes*: a profile in the keychain; an upload WiGLE takes and whose answer is lost.

`PROJECT.json` lists each of these hazards at its line with the properties about it.

## The modules

`X.tla` is a component, `MCX.tla` instantiates it for TLC, `XProofs.tla` holds its
theorems.  `ConsoleProofs` is also about `Survey`, `TunnelProofs` about `TunnelScreen` and
`WigleProofs` about `Keychain`; since they extend two components, the second has names
of its own (`SurveySpec`, `ScreenSpec`, `KeychainSpec`).  A definition whose name ends in `_Fault` stands in front of the one it is a
faulty form of and names the property that TLC finds violated when it takes its place.

**EventBus.**  One action for `Publish` (append, trim the window, fan out to each channel
with room), `Subscribe` (the gap test and the backlog, all under the bus's mutex, hence
one step), `Unsubscribe` and the reading of a channel.  Events are their sequence
numbers.  `cursor`, `subscribedAt` and `missed` are history: what the subscriber asked
for, when, and which events its full channel had no room for.

**LiveEvents** instantiates `EventBus` and adds the forwarding goroutine, the connection
(`up`, `wire`), the reading goroutine of `StreamEvents` (`reader`, `out`, `errs`) and
`Consume`.  An event is its sequence and the lifetime of the agent ("epoch").  A lost
connection keeps any prefix of what was on the wire.  `Recv` chooses among ready channels,
closed ones included, as Go's `select` does.  A stale subscription is still read after its
connection is gone, because its context is never cancelled.  `Kept` is the client's buffer
after the entries of `log`: it changes with nothing else, so it is a function of the log and
no variable.  `EventFeed` is what the stream promises: each event shown once, in order.

**Provisioner.**  A handler is a goroutine in `Provisioner.Run`, with its own copy of the
job from the read at the start to the `Put` at each checkpoint; every early return is an
action.  The host is external: each of its operations succeeds or fails.  `Crash` empties
the handlers and keeps what was `Put`.  `overlapped` is history: the requests of which two
calls were under way at once.  What holds of one call at a time is stated for the others.

**Updater** has the same shape over the staged releases and the `current` link.  `Host.Stage`
is two steps, `Truncate` and `Write`, as `os.WriteFile` is: between them, and after an error
or a stop of the agent there, the file of the release is torn, the active one's too
(`host.go:248`).  `switchTo` may fail or be cut short half-way.  `shared` and `damaged` are
history: which calls had another one beside them, and which releases were truncated while a
call or the link used them and have not been written since.  A version names one manifest.
`Handler.Update` of the agent is a stub at present, so the module models the
`lifecycle.Updater` that is to be called.

**Setup.**  Keys are numbers, a certificate the pair of its signer and its subject.
`os.WriteFile` truncates first, so an interruption leaves the file it was writing old,
torn or new.  The allowlist is renamed into place.  What is interrupted is a process, not the
power supply: `main.go:264-285` and `server.go:104-107` write without `fsync`, so after a loss of
power a write that returned, or the rename, may be missing, and nothing here covers that.

**Tunnel.**  One program counter per goroutine: the accept loop, the caller of `Close`
and each relay.  `emit` is two steps, as in the code: the status under the mutex, then a
send that is dropped when the channel is full.  The agent's `handler` for each stream is
in the same module, since who lets go of a stream first is the question.  An agent that has no
relay set yet refuses the selection of a tunnel (`server.go:215-217`), but `Open` decodes the
refusal into the struct of the `hello_ack`, whose `ok` is true, and an absent `ok` leaves it so
(`mtls.go:64-85`): `NoRelaySet` ends the stream on the Pi and the laptop reports `connected`.

**TunnelScreen.**  What `tunnelModel` believes, with its commands and messages as counts
and sets: commands end in any order.  The quit key is part of it: its modal (`asked`), the
sequences of close and quit that were confirmed (`quitters`), which run on whatever happens to
a later modal, and the `tea.QuitMsg` that ends the program.

**Console.**  A *submission* goes through the stages from the key to the message with its
result; the message that asks for the modal is under way while keys still reach the
screen, so a second submission may replace the modal of the first.  The ring of seven
screens is cut to four.  `setActive` returns `m, m.survey.Activate()` (`app.go:178`), an
order the Go language leaves open; the module has what the gc compiler does (the call
first).  The status request of the dashboard is in `Survey`; here it would take the
mutex like any other request.

**Survey.**  A call of `Handler.Survey` is in turn running the command, about to set
`surveyState` and about to publish: only the second of these holds the mutex.  A command that
fails may have had its effect.  Whoever else starts or stops Kismet is an action: the
provisioner's step, somebody on the Pi, a restart of the agent (which forgets the state).
The console's status requests overlap, are lost, and end in any order.  `doubt`, `clean`,
`alone` and `sure` are history: whether something has interfered since the last undisturbed call,
with a call, with a request, with what the header shows.

**Keychain** has both stores of credentials, whose `Save` and `Load` differ in the entries and
their order; an operation on an entry succeeds or fails, and an entry that failed may have been written.
`Wigle` extends it: each upload is a load.

**Wigle.**  Each key starts a goroutine and each message comes when it comes, also while a modal
is open; a modal asked for replaces the one that is open.  WiGLE is external: it may store
what it was sent and its answer get lost.  Answers are classes: accepted, a 2xx that says
`success: false`, a 2xx that cannot be decoded, a status or transport error that is tried
again, any other.  `agreed`, `stored` and `lost` are history.

## What is checked

Twelve runs are listed in `PROJECT.json`.

| Run | Instance | Shows |
|---|---|---|
| `bus` | 2 subscribers, window 2, 1 spare place, 4 events | exactness of the gap test, order, and that nothing is lost but what a full channel had no room for |
| `live` | 2 subscriptions, window 2, 4 events, 1 fault, 2 lifetimes | order across reconnections and a restart; within a lifetime only dropped events are skipped without a marker; the buffer (2 entries, 4 bytes) keeps the newest; the client catches up or is told |
| `live_feed` | 3 subscriptions, window and channel hold all 3 events, 2 faults, 1 lifetime | `LiveEvents` implements `EventFeed`, its fairness included |
| `provision` | 2 handlers that may overlap, 1 request, 1 crash | checkpoints are never ahead of the host; order; success is complete; without overlap no rerun after success, no repetition but after a crash, checkpoints kept; eventual success |
| `provision_retry` | 2 handlers, no crash | *violated*: `RetryKeepsCheckpoints`, what the test procedure says of a retry |
| `setup` | 2 profiles, 6 keys, 2 interruptions | a complete profile works with any agent that starts; a restart locks nobody out |
| `update` | 2 handlers that may overlap, 2 requests, 2 releases, 1 crash | nothing unverified is staged, and the active release is whole unless it was truncated while in use; without overlap, what a failed call leaves and what success means |
| `tunnel` | 2 relays, a channel of 1 event | shutdown is complete, no send on the closed channel, `Close` returns, the agent lets go |
| `screen` | 2 tunnels, a fixed and an ephemeral port, 3 closes, of the key c or of quits that are confirmed | the screen never settles on a tunnel that is gone; every open tunnel is drained; closing ends |
| `console` | 2 submissions, 1 text, 2 profiles | what runs was typed into its own modal; its result is shown; one consumer; what is confirmed is answered |
| `survey` | 2 handlers, 3 calls, 2 status requests, 1 restart, 1 disturbance | when the state, the newest event and the header tell what Kismet does |
| `wigle` | 2 captures, 1 upload of 2 attempts, 1 save, 2 sets of credentials | what is sent was confirmed; one set of credentials; no duplicate but for lost answers; what is reported is so; uploads end |

**Why the bounds are enough.**  Each is the smallest at which the interesting case
happens, usually with one to spare: a window smaller than the number of events so that
cursors are refused at both ends; channels that fill; two handlers, relays, submissions
or tunnels, since the code relates them in pairs (a copy and a store, a sender and a
closer, a modal and the one that replaces it); a crash for a retried call.  `provision` has one request, since calls for
different ones share nothing but the file; `MCProvisionerSerial` has two, and two crashes.
`survey` has a third call to repair what two have mixed up.  In `wigle` one upload is enough
because uploads meet only in the keychain, where the save is its partner; `MCKeychain` has two saves
and the four entries of a profile, and the theorems any number.  The buffer's bounds are
such that events of different size make each of them the binding one.  A client whose cursor is refused
again and again records a marker each time; after `MaxMarkers` of them in a row, which is more than
the buffer has places, another would leave the buffer as it is, and the model records no more.  In `LiveEvents` a subscription is never used
twice in one lifetime, so there must be more of them than faults (`LiveAssumption`); with
two faults, two lifetimes, three events and six subscriptions `CaughtUpOrTold` holds too, but the run takes longer.
`MaxEvents` stands for a window of 2000 events, `Slack` for 64 spare places, `OutCap` and
`Buffer` for channels of 32, `MaxAttempts` for 3.  With one text a modal is either untouched or filled, which is what tells its own
text from one left over.  `CHECK_DEADLOCK FALSE` is set because each of these systems may
stop: when the bounds are used up, when the tunnel is closed, when the operator quits or
does nothing.

**Fairness.**  A goroutine that can run does run (weak fairness of its steps).  Beyond
that: `Recv`'s `select` chooses at random among ready channels, so it does not pass over
one for ever (strong fairness of `RecvEvent` and `RecvResync`); the mutex of Go hands over
to a waiter that has starved (strong fairness of `Request` in `Console`); a request is
answered or fails, as the agent does and as TCP ensures; in `Provisioner` the operator retries
with confirmation, preflight, backup and health check do not fail for ever, and now and then
some step succeeds (strong fairness of `Step`, not of each step), under which
`EventuallySucceeds` says that no call has to get everything right by itself.  In `Wigle` an
attempt is answered or its connection breaks and the keychain answers; `http.DefaultClient`
sets no deadline (`wigle.go:149`), so with a silent WiGLE an upload would stay for ever.
Nothing is assumed of publishing, of keys pressed, of failures, restarts and crashes.
`CloseReturns` needs an agent that answers the stream's handshake: `Open` reads its answers
without a deadline (`mtls.go:69`), and with a silent agent `Close` waits.

**Further configurations**, run by hand with `tlc -config <cfg> <module>`:

| Configuration | Outcome |
|---|---|
| `MCProvisionerSerial` | one handler, two requests, two crashes: what `provision` says of calls that do not overlap holds |
| `MCKeychain`, `MCKeychainMixed` | `LoadIsOneProfile` holds for the profile with two saves; `NeverMixed` is violated: a save that failed half-way, or two at once, leave entries of two profiles, which the next load takes for one |
| `MCLiveEventsHiddenRestart` | `GapsNeverHidden` violated: the first events after a restart are skipped without a marker (`client.go:198-199`) |
| `MCLiveEventsResync` | `ResyncIssued` violated: after a gap the stream is reopened with the cursor that was just refused |
| `MCSetupClean` | `SetupEnough` and `SafeToRerun` hold when nothing is interrupted |
| `MCUpdaterFirst`, `MCUpdaterRetry` | `RollbackRestoresPrior` violated: the first update has nothing to go back to; a retry after the switch notes the new release as the old one |
| `MCUpdaterOverlap` | `ActivatedIsVerified` violated: a call truncates the release that another has activated, which is then reported as updated "after signed-manifest, digest, and health checks" (`lifecycle.go:249`) while its file is torn |
| `MCTunnelEvents` | `EventsReportStatus` violated: events may be sent in another order than the statuses were set |
| `MCTunnelScreenStuck` | `Closable` violated: a `tunnelClosedMsg` names no tunnel and each tunnel sends two of them; the second, arriving after the next start, makes the screen take the new tunnel for closed, and neither `c` nor `q` closes it (`tui/tunnel.go:124`) |
| `MCWigleDeclined` | `OkMeansStored` violated: a 2xx that says `success: false` is reported as accepted (`wigle.go:214-221`) |

In the same way, with its name in place of the properties in the configuration of the
module's own run, TLC finds violated

- `MissIsReported` (`EventBus`): a subscriber whose full channel missed an event and that
  comes back with its cursor is accepted (`eventbus.go:40-42` says the gap test is for that);
- `SetupEnough`, `SafeToRerun`, `IssuedIsAccepted` (`Setup`): a missing server key, a
  half-written profile and a running agent are not noticed by the next setup;
- `ConnectedIsServing` (`Tunnel`): a relay that ends without an error says nothing;
- `CancelledIsIdle`, `ConsumerLives` (`Console`): a cancelled submission leaves its form
  submitting; the consumer that found no client is never started again;
- `StatusIsTrue` (`Survey`): a `stop` that failed and had its effect leaves the agent
  reporting a running survey, and so do a start and a stop that overlap;
- `NoResultBeforeUpload` (`Wigle`): a new preview clears the error of the last upload and
  not its result, which is then shown under the new records (`tui/wigle.go:160-164`);

and finds that the type invariant of every module holds (`TypeOK`, `SurveyTypeOK`,
`ScreenTypeOK`, `KeychainTypeOK`), as do `RetainedIsNewest` of
`EventBus` and `CAStable` of `Setup`.

The disagreement listed as a run, in short: nothing serializes two
calls for one request; a retry that read the job before the first call's checkpoint stores
its older copy over it, although the hardware test procedure expects it to retain them.
What is stored stays honest (`CheckpointsHonest` holds with any number of calls), so the
price is a repeated step.

What modelling `Wigle` and `Survey` showed besides: the letters `c`, `e` and `u` typed into
the path of a capture are taken as commands (`tui/wigle.go:215-249`); the key `u` is not
blocked while an upload runs, so the operator can confirm two; the message of a failed
upload gives the attempts that were allowed and not those made (`wigle.go:180`); the agent
publishes no event of kind `status`, so the header is refreshed only by the key `r` and by a
profile that is loaded, and never by the survey call of the same console.

## What is proved

Every safety invariant and every action property of a passing run is a theorem, and so is
the type invariant of every component.  TLAPS checks them for every value of the constants
that satisfies the assumption named in the component (`BusAssumption`, `LiveAssumption`,
`ProvisionerAssumption`, `UpdaterAssumption`, `SetupAssumption`, `TunnelAssumption`,
`TunnelScreenAssumption`, `ConsoleAssumption`, `SurveyAssumption`, `KeychainAssumption`,
`WigleAssumption`): any number of subscribers, handlers, profiles, relays, entries or uploads,
any capacities and bounds.  `FeedImplemented` and `FailureCorrect` have a further
hypothesis, stated with them below.  Each inductive invariant was checked by TLC on the instance of its component's run before it was
proved.

**EventBusProofs.**  `Invariance` proves `IInv`, from which `TypeCorrect`, `WindowCorrect`,
`OrderCorrect`, `LossCorrect`, `FreshCorrect`, `ChannelCorrect` and `GapCorrect` follow.
Two conjuncts of `IInv` are there for induction only.  `CursorPublished` (the cursor of a live
subscription is at most the newest number) makes the next event one after the cursor,
which order and loss need.  `ChannelAccount` counts what a channel was ever sent against
its capacity and the events published since: that its backlog leaves `Slack` places is
what makes a fresh subscriber miss nothing.  `GapCorrect` needs no induction of its own: with
`RetainedIsNewest` the gap test is arithmetic.

**LiveEventsProofs.**  `LiveInvariance` proves `LInv`, which is `IInv` of the bus, what of the
connection, the reader and its channels goes together (`LinkInv`), and where every event is on
its way from the bus to the log (`FlowInv`).  The path has four parts, the log up to
`lastSequence`, `out`, `wire`, and the channel of the subscription.  `OrderInv` and `AheadInv`
say that numbers grow along it and that no part of it is ahead of the bus.  `HoleInv` and
`LossInv` say that a number missing on it was dropped by a full channel, unless a cut connection
took it along; and then `Reopen` asks for it again with the cursor `lastSequence`, which
`CursorInv` ties to the log.  `ShownCorrect` and `SkippedCorrect` follow, across any number of
lost connections and restarts.  `FeedImplemented` is the safety part of `FeedSpec`, by step
simulation.  Its hypothesis `Roomy` (the window and the channels hold all events, the agent
does not restart) is where the stream promises what `EventFeed` says; without it events
are dropped.  `FeedInv` adds to `LInv` that then nothing is dropped and no marker recorded.
`BufferCorrect` is about a recursive function of the log.  The induction is on its length,
by the least counterexample, which `WellFoundedInduction` gives without a rule that takes an
operator as its parameter: `Recursion` and `Agree` say that the recursive functions of `TotalBytes` and
`Kept` exist and are what their equations make them, `TrimResult` is what `trimToBoundsLocked`
drops, and `Holds`, the induction hypothesis, is what the buffer is when `n` entries were
recorded and `d` of them are gone.  That the events dropped earlier need not be tried again
is the point of `HoldsStep`: what did not fit then does not fit with one more.

**ProvisionerProofs.**  `Invariance` proves `IInv` for overlapping calls and crashes:
`CheckpointsHonest`, `StepsInOrder`, `SuccessIsComplete`, strengthened by `CopyMatchesPc` (what a
handler's copy of the job says where it is in `Run`; in particular which step it is about
to do) and `HealthMeansSuccess`.  The serial theorems (`NoRerun`, `RepeatCorrect`,
`CheckpointsStay`) are about requests whose calls have not overlapped, whatever other requests
do, and rest on `SerialIInv`: such a call's copy is never behind the store, and but for
requests a crash cut short all that was done is in the copy or in the store.

**UpdaterProofs.**  `ActiveReleaseWhole` holds for any overlap of calls and any crash.  To be
inductive it must speak of every release that is in use (`InUseIsWhole`): the active one, the
one a call is about to activate, and the one it would roll back to, of which `ComesIntoUse` says
how a release gets there; and a call past `VerifyDigest` holds a payload that passed
(`PayloadVerified`).  What a call leaves behind does not survive overlap, so
`FailedCallLeavesRelease` and `SuccessIsHealthy` are about calls outside `shared`, and rest on
`SerialInv`: such a call is the only one under way, the link is what it found until it switches it,
`previous` is what it found once it is noted, and what it has staged is whole.  `SuccessCorrect`
follows (an action property), and, if the Pi has been updated before (`Initial \in Version`),
`FailureCorrect`.  The hypothesis is needed: on the instance of `MCUpdaterFirst`, a first update,
a rollback leaves the link on the directory of all releases.

**SetupProofs.**  `IInv` says which PKI files can be there together (`FilesInv`: the key of the CA
is written after its certificate, so a key means a CA that is whole and stays), what
the commands have done where they are (`CommandInv`), that profile files are of this CA
and their subjects are paired (`ProfileInv`), and that what a running agent has read is not ahead of the
files (`AgentInv`).  `CompleteCorrect`, `RestartCorrect` and the action property `CAKept`
follow for any number of interruptions.

**TunnelProofs.**  `IInv` adds to `ShutdownIsComplete` and `NoSendAfterClose` the places each kind
of goroutine can be in and what a relay has done to its stream there (`Places`), and what
`Close` has done when it is where it is (`ClosedSoFar`).  The step that matters is `Wait`:
once the listener is closed and every goroutine has ended, none can begin again.
For the screen `ScreenInv` needs two facts besides `OpenIsDrained`: the tunnel that is
shown as running is drained, or a message that some tunnel was closed is still to come
(`ShownIsDrained`, from which `ShownCorrect` follows once all messages have come), and no
more close commands run, of either kind, than were started (`ClosersCounted`, for the types).

**ConsoleProofs.**  `ConsoleInv` has a part for each property.  `ModalInv`: there is one modal, and
a submission whose modal is filled with its text is one the operator typed for; the
step that matters is a modal that replaces another, whose text goes with it
(`ConfirmationCorrect`).  `FormInv`: a form that shows a spinner or no result has no submission, or
one that is not done, so the last answer, whichever it is, leaves a result
(`ResultCorrect`).  `ConsumerInv` counts the consumers that are starting or running
(`ConsumerCorrect`).
For `Survey`, `SurveyInv` has a conjunct for each history variable: `CleanCalls` says what a
call that nothing has disturbed may rely on, `NoDoubt` that without doubt state and Kismet
agree or a call is about to make them agree, `EventInv` the same of the newest event,
`HeaderInv` what an answer read alone is worth.  `StateAgrees`, `EventsAgree` and
`HeaderAgrees` follow.

**WigleProofs.**  `KeychainInvariance` proves that what was saved undisturbed is
stored and that a load follows it, and `ProfileIsWhole` follows.  `ImplementsKeychain`
shows that each step of `Wigle` is one of `Keychain` or leaves it alone, so the
theorem carries over to the credentials of uploads.  `WigleInvariance` is about one upload at a
time (`GoodUpload`: what was agreed, and how `stored`, `lost`, the answer and the stage are
related) and about requests and modals, which carry the records their text is about.
`WigleTypeCorrect` has to count: an upload that waits for another attempt has one left, and
WiGLE stores no more than it was sent.

**Only model-checked**: liveness, for which the prover has no rule, since it does not support
`ENABLED` and so neither fairness: `CaughtUpOrTold`, `EventuallySucceeds`, `CloseReturns`,
`AgentLetsGo`, `ClosingEnds`, `ConfirmedIsAnswered`, `ConfirmedUploadEnds`, and of `FeedSpec` the
fairness.  No recursive operator is used; the two recursive functions are those of the buffer.

## The plan

1. Done: the bus, the stream with the client's buffer, provisioning, updates, setup, the tunnel
   with its screen, the console, the survey, credentials and WiGLE; the safety
   properties of all of them as theorems.
2. Left to model: two setups at the same time, the pause and the filter of the buffer, the
   export of a capture, and the modals of all screens in one module.
3. Next theorems: what the configurations run by hand find to hold (`SetupEnough` and
   `SafeToRerun` without interruptions); an abstract specification of `Provisioner` and its
   refinement; the refinement of `EventFeed` in a run that loses events, with the dropped ones taken out.

## Not modelled, and why

A loss of power (no file is `fsync`ed; see `Setup`).  The commands that the host runs, archives and their contents, the text of JSON messages,
TLS itself (a connection is up or not, a certificate's signer is its data): pure I/O or
libraries.  `ServeTLSRequest` of the agent's tunnel has no caller.  WiGLE normalisation and
CSV, base64 and redaction are formatting.  The other commands of `main.go` make one request
and end.  Quitting the console ends every upload with the process.  `theme.go`,
`layout.go` and `keys.go` are layout; `stl/` holds no program.
