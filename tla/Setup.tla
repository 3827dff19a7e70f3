-------------------------------- MODULE Setup --------------------------------
(***************************************************************************)
(* How a Pi is set up: deploy/pi-bootstrap-remote.sh, `bottle-agent setup` *)
(* (doSetup of main.go, with pki and PairingStore) and the start of the    *)
(* agent that reads what they wrote (startService).                        *)
(*                                                                         *)
(* A key pair is a number, and a certificate is the key that signed it and *)
(* the key it is for; a CA signs its own.  The files are written one after *)
(* the other with os.WriteFile, which truncates first: an interruption     *)
(* leaves the file being written as it was, torn or written.  Processes    *)
(* fail or are killed, the Pi does not lose power: no file is fsynced, so  *)
(* after that a write that returned, or the rename that replaces the       *)
(* allowlist, may be missing, and nothing here covers it.  One command     *)
(* runs at a time, while the agent may be running.                         *)
(***************************************************************************)
EXTENDS Naturals, FiniteSets

CONSTANTS
    Profile,          \* names of laptop profiles
    MaxKeys,          \* bound on key pairs generated
    MaxInterruptions  \* bound on commands cut short

ASSUME SetupAssumption ==
    /\ Profile # {}
    /\ MaxKeys \in Nat
    /\ MaxInterruptions \in Nat

VARIABLES
    caCert, caKey, serverCert, serverKey,  \* the files under pkiDir
    pairings,     \* pairings.json: the client keys on the allowlist
    profileDirs,  \* profiles whose output directory exists
    profileFiles, \* what is in them
    agent,        \* what the running agent has read, or Stopped
    pc, target, script, ca, client, todo,  \* the command being run
    finished,     \* history: profiles whose last command ended without an error
    keys, interruptions

pkiFiles == <<caCert, caKey, serverCert, serverKey>>
command == <<pc, target, script, ca, client, todo>>
vars == <<pkiFiles, pairings, profileDirs, profileFiles, agent, command,
          finished, keys, interruptions>>

Key == 0..MaxKeys

\* The contents of a file.  A key file has no signer.
Content == [state : {"absent", "torn", "ok"}, signer : Key, key : Key]
Absent == [state |-> "absent", signer |-> 0, key |-> 0]
Torn == [state |-> "torn", signer |-> 0, key |-> 0]
Certificate(signer, key) == [state |-> "ok", signer |-> signer, key |-> key]
KeyFile(key) == [state |-> "ok", signer |-> 0, key |-> key]

ProfileFile == {"ca.pem", "client-cert.pem", "client-key.pem"}

Agent == [running : BOOLEAN, roots : Key, signer : Key, allowed : SUBSET Key]
Stopped == [running |-> FALSE, roots |-> 0, signer |-> 0, allowed |-> {}]

Init ==
    /\ caCert = Absent /\ caKey = Absent
    /\ serverCert = Absent /\ serverKey = Absent
    /\ pairings = {}
    /\ profileDirs = {}
    /\ profileFiles = [p \in Profile |-> [f \in ProfileFile |-> Absent]]
    /\ agent = Stopped
    /\ pc = "idle" /\ target = (CHOOSE p \in Profile : TRUE) /\ script = FALSE
    /\ ca = 0 /\ client = 0 /\ todo = {}
    /\ finished = {}
    /\ keys = 0
    /\ interruptions = 0

Goto(label) == pc' = label

\* The key pair of ecdsa.GenerateKey.
NewKey == keys + 1
GenerateKey == keys < MaxKeys /\ keys' = NewKey

-----------------------------------------------------------------------------
(* The agent *)

\* startService gets as far as listening: the CA can be read and the server
\* certificate and its key are a pair.
Startable ==
    /\ caCert.state = "ok"
    /\ serverCert.state = "ok" /\ serverKey.state = "ok"
    /\ serverCert.key = serverKey.key

\* What a started agent has read.
Started ==
    [running |-> TRUE, roots |-> caCert.key, signer |-> serverCert.signer,
     allowed |-> pairings]

StartAgent ==
    /\ ~agent.running
    /\ Startable
    /\ agent' = Started
    /\ UNCHANGED <<pkiFiles, pairings, profileDirs, profileFiles, command,
                   finished, keys, interruptions>>

StopAgent ==
    /\ agent.running
    /\ agent' = Stopped
    /\ UNCHANGED <<pkiFiles, pairings, profileDirs, profileFiles, command,
                   finished, keys, interruptions>>

-----------------------------------------------------------------------------
(* The commands *)

\* `bottle-agent setup --profile p` from a shell.
RunSetup(p) ==
    /\ pc = "idle"
    /\ Goto("ca")
    /\ target' = p
    /\ script' = FALSE
    /\ finished' = finished \ {p}
    /\ UNCHANGED <<pkiFiles, pairings, profileDirs, profileFiles, agent, ca, client,
                   todo, keys, interruptions>>

\* The bootstrap script stops the agent, and runs setup unless the directory
\* of the profile is there.
RunScript(p) ==
    /\ pc = "idle"
    /\ agent' = Stopped
    /\ IF p \in profileDirs THEN Goto("start") ELSE Goto("ca")
    /\ target' = p
    /\ script' = TRUE
    /\ finished' = finished \ {p}
    /\ UNCHANGED <<pkiFiles, pairings, profileDirs, profileFiles, ca, client, todo,
                   keys, interruptions>>

\* loadOrCreateCA finds both of its files.
HaveCA == caCert.state # "absent" /\ caKey.state # "absent"

LoadCA ==
    /\ pc = "ca"
    /\ HaveCA
    /\ caCert.state = "ok" /\ caKey.state = "ok"
    /\ ca' = caKey.key
    /\ Goto("server")
    /\ UNCHANGED <<pkiFiles, pairings, profileDirs, profileFiles, agent, target,
                   script, client, todo, finished, keys, interruptions>>

\* A file of the CA cannot be parsed: the command ends with an error, and so
\* does every later one.
LoadCAFails ==
    /\ pc = "ca"
    /\ HaveCA
    /\ caCert.state = "torn" \/ caKey.state = "torn"
    /\ Goto("idle")
    /\ UNCHANGED <<pkiFiles, pairings, profileDirs, profileFiles, agent, target,
                   script, ca, client, todo, finished, keys, interruptions>>

CreateCA ==
    /\ pc = "ca"
    /\ ~HaveCA
    /\ GenerateKey
    /\ ca' = NewKey
    /\ caCert' = Certificate(NewKey, NewKey)
    /\ Goto("ca_key")
    /\ UNCHANGED <<caKey, serverCert, serverKey, pairings, profileDirs, profileFiles,
                   agent, target, script, client, todo, finished, interruptions>>

WriteCAKey ==
    /\ pc = "ca_key"
    /\ caKey' = KeyFile(ca)
    /\ Goto("server")
    /\ UNCHANGED <<caCert, serverCert, serverKey, pairings, profileDirs, profileFiles,
                   agent, target, script, ca, client, todo, finished, keys, interruptions>>

\* ensureServerCert looks at the certificate only.
KeepServerCert ==
    /\ pc = "server"
    /\ serverCert.state # "absent"
    /\ Goto("client")
    /\ UNCHANGED <<pkiFiles, pairings, profileDirs, profileFiles, agent, target, script,
                   ca, client, todo, finished, keys, interruptions>>

IssueServerCert ==
    /\ pc = "server"
    /\ serverCert.state = "absent"
    /\ GenerateKey
    /\ serverCert' = Certificate(ca, NewKey)
    /\ Goto("server_key")
    /\ UNCHANGED <<caCert, caKey, serverKey, pairings, profileDirs, profileFiles, agent,
                   target, script, ca, client, todo, finished, interruptions>>

\* The key of the certificate that was just written.
ServerKeyFile == KeyFile(serverCert.key)

WriteServerKey ==
    /\ pc = "server_key"
    /\ serverKey' = ServerKeyFile
    /\ Goto("client")
    /\ UNCHANGED <<caCert, caKey, serverCert, pairings, profileDirs, profileFiles, agent,
                   target, script, ca, client, todo, finished, keys, interruptions>>

\* A definition whose name ends in _Fault is a faulty form of the one that
\* follows it, under which TLC finds the property named in its comment violated.

\* CompleteProfileWorks, RestartKeepsAccess: the file is not read before it is
\* replaced.
Paired_Fault(key) == {key}

\* The allowlist read from its file, with one more key.
Paired(key) == pairings \cup {key}

\* A client certificate is issued and put on the allowlist.
Pair ==
    /\ pc = "client"
    /\ GenerateKey
    /\ client' = NewKey
    /\ pairings' = Paired(NewKey)
    /\ Goto("directory")
    /\ UNCHANGED <<pkiFiles, profileDirs, profileFiles, agent, target, script, ca, todo,
                   finished, interruptions>>

MakeDirectory ==
    /\ pc = "directory"
    /\ profileDirs' = profileDirs \cup {target}
    /\ todo' = ProfileFile
    /\ Goto("profile")
    /\ UNCHANGED <<pkiFiles, pairings, profileFiles, agent, target, script, ca, client,
                   finished, keys, interruptions>>

ProfileContent(file) ==
    CASE file = "ca.pem" -> Certificate(ca, ca)
      [] file = "client-cert.pem" -> Certificate(ca, client)
      [] file = "client-key.pem" -> KeyFile(client)

\* "for name, data := range files": in any order.
WriteProfileFile(file) ==
    /\ pc = "profile"
    /\ file \in todo
    /\ profileFiles' = [profileFiles EXCEPT ![target][file] = ProfileContent(file)]
    /\ todo' = todo \ {file}
    /\ UNCHANGED <<pkiFiles, pairings, profileDirs, agent, pc, target, script, ca, client,
                   finished, keys, interruptions>>

SetupEnds ==
    /\ pc = "profile"
    /\ todo = {}
    /\ IF script
       THEN Goto("start") /\ UNCHANGED finished
       ELSE Goto("idle") /\ finished' = finished \cup {target}
    /\ UNCHANGED <<pkiFiles, pairings, profileDirs, profileFiles, agent, target, script,
                   ca, client, todo, keys, interruptions>>

\* systemctl start does not wait to see whether the agent stays up, and the
\* script leaves it out when it could not configure the link.
ScriptEnds ==
    /\ pc = "start"
    /\ Goto("idle")
    /\ finished' = finished \cup {target}
    /\ agent' \in {agent} \cup (IF Startable /\ ~agent.running THEN {Started} ELSE {})
    /\ UNCHANGED <<pkiFiles, pairings, profileDirs, profileFiles, target, script, ca,
                   client, todo, keys, interruptions>>

\* A file that is being written is left as it is, or torn.
Interrupted(file, label) == file' \in {file} \cup (IF pc = label THEN {Torn} ELSE {})

\* The command fails or is killed, and the agent may be killed with it.
\* CreateCA and IssueServerCert each write a file too: what they leave when
\* they are cut short is torn.
Interrupt ==
    /\ pc # "idle"
    /\ interruptions < MaxInterruptions
    /\ interruptions' = interruptions + 1
    /\ caCert' \in {caCert} \cup (IF pc = "ca" /\ ~HaveCA THEN {Torn} ELSE {})
    /\ Interrupted(caKey, "ca_key")
    /\ serverCert' \in {serverCert}
                       \cup (IF pc = "server" /\ serverCert.state = "absent" THEN {Torn} ELSE {})
    /\ Interrupted(serverKey, "server_key")
    /\ profileFiles' \in {profileFiles}
                         \cup {[profileFiles EXCEPT ![target][f] = Torn] :
                                   f \in IF pc = "profile" THEN todo ELSE {}}
    /\ agent' \in {agent, Stopped}
    /\ Goto("idle")
    /\ UNCHANGED <<pairings, profileDirs, target, script, ca, client, todo, finished, keys>>

Next ==
    \/ StartAgent \/ StopAgent
    \/ \E p \in Profile : RunSetup(p) \/ RunScript(p)
    \/ LoadCA \/ LoadCAFails \/ CreateCA \/ WriteCAKey
    \/ KeepServerCert \/ IssueServerCert \/ WriteServerKey
    \/ Pair \/ MakeDirectory
    \/ \E file \in ProfileFile : WriteProfileFile(file)
    \/ SetupEnds \/ ScriptEnds \/ Interrupt

Spec == Init /\ [][Next]_vars

-----------------------------------------------------------------------------
(* Correctness *)

\* Types of the files and of the command.
TypeOK ==
    /\ {caCert, caKey, serverCert, serverKey} \subseteq Content
    /\ pairings \subseteq 1..MaxKeys
    /\ profileDirs \subseteq Profile
    /\ profileFiles \in [Profile -> [ProfileFile -> Content]]
    /\ agent \in Agent
    /\ pc \in {"idle", "ca", "ca_key", "server", "server_key", "client", "directory",
               "profile", "start"}
    /\ target \in Profile
    /\ script \in BOOLEAN
    /\ ca \in Key /\ client \in Key
    /\ todo \subseteq ProfileFile
    /\ finished \subseteq Profile
    /\ keys \in Key
    /\ interruptions \in 0..MaxInterruptions

\* The three files make a profile that the laptop can load: tls.X509KeyPair
\* accepts the certificate with the key.
Complete(p) ==
    /\ \A f \in ProfileFile : profileFiles[p][f].state = "ok"
    /\ profileFiles[p]["client-cert.pem"].key = profileFiles[p]["client-key.pem"].key

\* The handshake between the laptop and an agent succeeds on both sides, and
\* the laptop is on the agent's allowlist.
Accepts(a, p) ==
    /\ Complete(p)
    /\ profileFiles[p]["client-cert.pem"].signer = a.roots
    /\ profileFiles[p]["ca.pem"].key = a.signer
    /\ profileFiles[p]["client-cert.pem"].key \in a.allowed

\* However many commands were cut short before, and wherever: a profile whose
\* files fit together is accepted by any agent that starts.
CompleteProfileWorks ==
    \A p \in Profile : Complete(p) /\ Startable => Accepts(Started, p)

\* A laptop that the running agent accepts is not locked out by a restart of
\* the agent, in the middle of a command included.
RestartKeepsAccess ==
    \A p \in Profile :
        agent.running /\ Accepts(agent, p) => Startable /\ Accepts(Started, p)

\* "reuses the existing CA" (docs/pi-setup.md:76): once both files of the CA
\* were written, no command replaces them.
CAStable ==
    [][caCert.state = "ok" /\ caKey.state = "ok" => UNCHANGED <<caCert, caKey>>]_vars

-----------------------------------------------------------------------------
(* What the documentation says *)

\* "It expects `bottle-agent setup` to have already been run once", and the
\* error of a start without a usable certificate is "run `bottle-agent setup`
\* first" (main.go:86, main.go:128): after a setup the agent can be started.
SetupEnough == pc = "idle" /\ finished # {} => Startable

\* "Safe to re-run: an existing CA and an existing profile are reused rather
\* than replaced" (deploy/pi-bootstrap-remote.sh:12): a bootstrap that ends
\* leaves a profile that can be imported.
SafeToRerun == \A p \in finished : Complete(p)

\* "reuses the existing CA and just adds a new pairing -- same one command, no
\* extra ceremony" (docs/pi-setup.md:76), to "the same persistent allowlist
\* file the running agent reads" (docs/integration-status.md:50): the running
\* agent accepts a laptop whose profile was issued.
IssuedIsAccepted == \A p \in finished : agent.running => Accepts(agent, p)

=============================================================================
