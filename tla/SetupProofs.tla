----------------------------- MODULE SetupProofs -----------------------------
(***************************************************************************)
(* Proofs about Setup, for any profiles, any number of key pairs and any   *)
(* number of commands cut short.                                           *)
(***************************************************************************)
EXTENDS Setup, TLAPS

-----------------------------------------------------------------------------
(* The invariant *)

\* A key of the CA is written after its certificate, and a server certificate
\* only under a CA that has both.
FilesInv ==
    /\ caKey.state # "absent" => caCert.state = "ok"
    /\ caKey.state = "ok" => caKey.key = caCert.key
    /\ serverCert.state = "absent" => serverKey.state = "absent"
    /\ serverCert.state = "ok" => caKey.state = "ok" /\ serverCert.signer = caCert.key

\* What the command running has in its variables is what it wrote or read.
CommandInv ==
    /\ pc = "ca_key" => caCert = Certificate(ca, ca) /\ caKey.state = "absent"
    /\ pc \in {"server", "server_key", "client", "directory", "profile"} =>
           caKey.state = "ok" /\ ca = caCert.key
    /\ pc = "server_key" => serverCert.state = "ok" /\ serverKey.state = "absent"
    /\ pc \in {"directory", "profile"} => client \in pairings

\* Every file of a profile is of the one CA, and its client is on the allowlist,
\* whichever commands wrote the others.
ProfileInv ==
    \A p \in Profile :
        /\ profileFiles[p]["ca.pem"].state = "ok" =>
               caKey.state = "ok" /\ profileFiles[p]["ca.pem"].key = caCert.key
        /\ profileFiles[p]["client-cert.pem"].state = "ok" =>
               /\ caKey.state = "ok"
               /\ profileFiles[p]["client-cert.pem"].signer = caCert.key
               /\ profileFiles[p]["client-cert.pem"].key \in pairings

\* An agent that runs can be started again, and would read what it read, with
\* perhaps more clients.
AgentInv ==
    agent.running =>
        /\ Startable
        /\ agent.roots = caCert.key
        /\ agent.signer = serverCert.signer
        /\ agent.allowed \subseteq pairings

IInv == TypeOK /\ FilesInv /\ CommandInv /\ ProfileInv /\ AgentInv

-----------------------------------------------------------------------------
(* Lemmas *)

\* What the commands write is the content of a file.
LEMMA Contents ==
  /\ Absent \in Content /\ Torn \in Content
  /\ \A k \in Key : KeyFile(k) \in Content
  /\ \A s, k \in Key : Certificate(s, k) \in Content
  /\ Stopped \in Agent
  /\ Absent.state = "absent" /\ Torn.state = "torn"
  /\ \A k : KeyFile(k).state = "ok" /\ KeyFile(k).key = k
  /\ \A s, k : /\ Certificate(s, k).state = "ok"
               /\ Certificate(s, k).signer = s /\ Certificate(s, k).key = k
BY SetupAssumption DEF Absent, Torn, KeyFile, Certificate, Content, Stopped, Agent, Key

\* A new key pair is a number not above the bound.
LEMMA Keys ==
  ASSUME TypeOK, GenerateKey PROVE NewKey \in Key /\ NewKey \in 1..MaxKeys /\ keys' \in Key
BY SetupAssumption DEF TypeOK, GenerateKey, NewKey, Key

LEMMA StartedIsAgent == ASSUME TypeOK PROVE Started \in Agent
<1>1. {caCert, serverCert} \subseteq Content /\ pairings \subseteq 1..MaxKeys
  BY DEF TypeOK
<1>2. pairings \subseteq Key
  BY <1>1, SetupAssumption DEF Key
<1>3. caCert.key \in Key /\ serverCert.signer \in Key
  BY <1>1 DEF Content
<1> QED BY <1>2, <1>3 DEF Started, Agent

LEMMA InitIInv == Init => IInv
<1> SUFFICES ASSUME Init PROVE IInv
  OBVIOUS
<1>1. TypeOK
  <2>1. target \in Profile
    BY SetupAssumption DEF Init
  <2>2. 0 \in Key /\ 0 \in 0..MaxInterruptions
    BY SetupAssumption DEF Key
  <2> QED BY <2>1, <2>2, Contents DEF Init, TypeOK
<1>2. FilesInv /\ CommandInv /\ ProfileInv /\ AgentInv
  BY Contents DEF Init, FilesInv, CommandInv, ProfileInv, AgentInv, Stopped, ProfileFile
<1> QED BY <1>1, <1>2 DEF IInv

\* Steps that leave the files and the allowlist alone.
LEMMA QuietStep ==
  ASSUME IInv, UNCHANGED <<pkiFiles, pairings, profileFiles>>,
         UNCHANGED <<ca, client>>,
         pc' \in {pc, "idle", "ca", "start"} \/ (pc' = "profile" /\ pc = "directory")
             \/ (pc' = "client" /\ pc = "server"),
         agent' \in {agent, Stopped} \/ (Startable /\ agent' = Started)
  PROVE  FilesInv' /\ CommandInv' /\ ProfileInv' /\ AgentInv'
<1> USE DEF IInv, pkiFiles
<1>1. FilesInv' /\ ProfileInv'
  BY DEF FilesInv, ProfileInv
<1>2. CommandInv'
  BY DEF CommandInv
<1>3. Startable => Startable'
  BY DEF Startable
<1>4. AgentInv'
  BY <1>3 DEF AgentInv, Started, Stopped
<1> QED BY <1>1, <1>2, <1>4

-----------------------------------------------------------------------------
(* The steps *)

LEMMA TypeStep == ASSUME IInv, [Next]_vars PROVE TypeOK'
<1> USE DEF IInv, Goto
<1>a. TypeOK /\ {caCert, caKey, serverCert, serverKey} \subseteq Content
      /\ MaxInterruptions \in Nat /\ MaxKeys \in Nat
      /\ pairings \subseteq 1..MaxKeys /\ ca \in Key /\ client \in Key
  BY SetupAssumption DEF TypeOK
<1>b. pairings \subseteq Key
  BY <1>a DEF Key
<1>1. CASE StartAgent
  BY <1>1, StartedIsAgent DEF StartAgent, TypeOK, pkiFiles, command
<1>2. CASE StopAgent
  BY <1>2, Contents DEF StopAgent, TypeOK, pkiFiles, command
<1>3. ASSUME NEW p \in Profile, RunSetup(p) \/ RunScript(p) PROVE TypeOK'
  <2>1. pc' \in {"ca", "start"} /\ agent' \in {agent, Stopped} /\ finished' = finished \ {p}
        /\ target' = p /\ script' \in BOOLEAN
        /\ UNCHANGED <<caCert, caKey, serverCert, serverKey, pairings, profileDirs,
                       profileFiles, ca, client, todo, keys, interruptions>>
    BY <1>3 DEF RunSetup, RunScript, pkiFiles
  <2> QED BY <2>1, Contents DEF TypeOK
<1>4. CASE LoadCA
  <2>1. caKey.key \in Key
    BY <1>a DEF Content
  <2> QED BY <1>4, <2>1 DEF LoadCA, TypeOK, pkiFiles
<1>5. CASE LoadCAFails
  BY <1>5 DEF LoadCAFails, TypeOK, pkiFiles
<1>6. CASE CreateCA
  BY <1>6, Keys, Contents DEF CreateCA, TypeOK
<1>7. CASE WriteCAKey
  BY <1>7, <1>a, Contents DEF WriteCAKey, TypeOK
<1>8. CASE KeepServerCert
  BY <1>8 DEF KeepServerCert, TypeOK, pkiFiles
<1>9. CASE IssueServerCert
  BY <1>9, <1>a, Keys, Contents DEF IssueServerCert, TypeOK
<1>10. CASE WriteServerKey
  <2>1. serverCert.key \in Key
    BY <1>a DEF Content
  <2>2. serverKey' \in Content
    BY <1>10, <2>1, Contents DEF WriteServerKey, ServerKeyFile
  <2> QED BY <1>10, <2>2 DEF WriteServerKey, TypeOK
<1>11. CASE Pair
  <2>1. client' \in Key /\ keys' \in Key /\ pairings' \subseteq 1..MaxKeys
    BY <1>11, <1>a, Keys DEF Pair, Paired
  <2> QED BY <1>11, <2>1 DEF Pair, TypeOK, pkiFiles
<1>12. CASE MakeDirectory
  BY <1>12 DEF MakeDirectory, TypeOK, pkiFiles
<1>13. ASSUME NEW f \in ProfileFile, WriteProfileFile(f) PROVE TypeOK'
  <2>1. ProfileContent(f) \in Content
    BY <1>a, Contents DEF ProfileContent, ProfileFile
  <2>2. profileFiles' \in [Profile -> [ProfileFile -> Content]]
    BY <1>13, <2>1 DEF WriteProfileFile, TypeOK
  <2> QED BY <1>13, <2>2 DEF WriteProfileFile, TypeOK, pkiFiles
<1>14. CASE SetupEnds
  BY <1>14 DEF SetupEnds, TypeOK, pkiFiles
<1>15. CASE ScriptEnds
  BY <1>15, StartedIsAgent DEF ScriptEnds, TypeOK, pkiFiles
<1>16. CASE Interrupt
  <2>1. {caCert', caKey', serverCert', serverKey'} \subseteq Content
    BY <1>16, <1>a, Contents DEF Interrupt, Interrupted
  <2>2. profileFiles' \in [Profile -> [ProfileFile -> Content]]
    BY <1>16, Contents DEF Interrupt, TypeOK
  <2>3. interruptions' \in 0..MaxInterruptions
    BY <1>16, <1>a DEF Interrupt, TypeOK
  <2>4. agent' \in Agent
    BY <1>16, Contents DEF Interrupt, TypeOK
  <2> QED BY <1>16, <2>1, <2>2, <2>3, <2>4 DEF Interrupt, TypeOK
<1>17. CASE UNCHANGED vars
  BY <1>17 DEF vars, TypeOK, pkiFiles, command
<1> QED
  BY <1>1, <1>2, <1>3, <1>4, <1>5, <1>6, <1>7, <1>8, <1>9, <1>10, <1>11, <1>12, <1>13,
     <1>14, <1>15, <1>16, <1>17 DEF Next

\* A CA is created only while there is no key of one: no agent can have been
\* started, and no profile written.
LEMMA CreateCAStep ==
  ASSUME IInv, CreateCA PROVE FilesInv' /\ CommandInv' /\ ProfileInv' /\ AgentInv'
<1> USE DEF IInv
<1>1. /\ caKey.state = "absent" /\ caKey' = caKey
      /\ caCert' = Certificate(NewKey, NewKey) /\ ca' = NewKey /\ pc' = "ca_key"
      /\ UNCHANGED <<serverCert, serverKey, pairings, profileFiles, agent>>
  BY DEF CreateCA, HaveCA, FilesInv, Goto
<1>2. serverCert.state # "ok"
  BY <1>1 DEF FilesInv
<1>3. FilesInv' /\ CommandInv'
  BY <1>1, <1>2 DEF FilesInv, CommandInv
<1>4. ProfileInv'
  BY <1>1 DEF ProfileInv
<1>5. AgentInv'
  BY <1>1, <1>2 DEF AgentInv, Startable
<1> QED BY <1>3, <1>4, <1>5

LEMMA WriteCAKeyStep ==
  ASSUME IInv, WriteCAKey PROVE FilesInv' /\ CommandInv' /\ ProfileInv' /\ AgentInv'
<1> USE DEF IInv
<1>1. /\ caKey.state = "absent" /\ caCert = Certificate(ca, ca) /\ caKey' = KeyFile(ca)
      /\ pc' = "server"
      /\ UNCHANGED <<ca, caCert, serverCert, serverKey, pairings, profileFiles, agent>>
  BY DEF WriteCAKey, CommandInv, Goto
<1>2. serverCert.state # "ok"
  BY <1>1 DEF FilesInv
<1>3. FilesInv' /\ CommandInv'
  BY <1>1, <1>2, Contents DEF FilesInv, CommandInv
<1>4. ProfileInv'
  BY <1>1 DEF ProfileInv
<1>5. AgentInv'
  BY <1>1, <1>2 DEF AgentInv, Startable
<1> QED BY <1>3, <1>4, <1>5

LEMMA IssueServerCertStep ==
  ASSUME IInv, IssueServerCert PROVE FilesInv' /\ CommandInv' /\ ProfileInv' /\ AgentInv'
<1> USE DEF IInv
<1>1. /\ serverCert.state = "absent" /\ serverCert' = Certificate(ca, NewKey)
      /\ pc = "server" /\ pc' = "server_key"
      /\ UNCHANGED <<ca, caCert, caKey, serverKey, pairings, profileFiles, agent>>
  BY DEF IssueServerCert, Goto
<1>2. caKey.state = "ok" /\ ca = caCert.key /\ serverKey.state = "absent"
  BY <1>1 DEF CommandInv, FilesInv
<1>3. FilesInv' /\ CommandInv'
  BY <1>1, <1>2, Contents DEF FilesInv, CommandInv
<1>4. ProfileInv'
  BY <1>1 DEF ProfileInv
<1>5. AgentInv'
  BY <1>1 DEF AgentInv, Startable
<1> QED BY <1>3, <1>4, <1>5

LEMMA WriteServerKeyStep ==
  ASSUME IInv, WriteServerKey PROVE FilesInv' /\ CommandInv' /\ ProfileInv' /\ AgentInv'
<1> USE DEF IInv
<1>1. /\ serverKey.state = "absent" /\ serverCert.state = "ok" /\ pc = "server_key" /\ pc' = "client"
      /\ UNCHANGED <<ca, caCert, caKey, serverCert, pairings, profileFiles, agent>>
  BY DEF WriteServerKey, CommandInv, Goto
<1>3. FilesInv' /\ CommandInv'
  BY <1>1 DEF FilesInv, CommandInv
<1>4. ProfileInv'
  BY <1>1 DEF ProfileInv
<1>5. AgentInv'
  BY <1>1 DEF AgentInv, Startable
<1> QED BY <1>3, <1>4, <1>5

\* The allowlist only grows.
LEMMA PairStep ==
  ASSUME IInv, Pair PROVE FilesInv' /\ CommandInv' /\ ProfileInv' /\ AgentInv'
<1> USE DEF IInv
<1>1. /\ pairings' = pairings \cup {NewKey} /\ client' = NewKey
      /\ pc = "client" /\ pc' = "directory"
      /\ UNCHANGED <<ca, caCert, caKey, serverCert, serverKey, profileFiles, agent>>
  BY DEF Pair, Paired, Goto, pkiFiles
<1>2. FilesInv' /\ CommandInv'
  BY <1>1 DEF FilesInv, CommandInv
<1>3. ProfileInv'
  BY <1>1 DEF ProfileInv
<1>4. AgentInv'
  BY <1>1 DEF AgentInv, Startable
<1> QED BY <1>2, <1>3, <1>4

LEMMA ProfileStep ==
  ASSUME IInv, NEW f \in ProfileFile, WriteProfileFile(f)
  PROVE  FilesInv' /\ CommandInv' /\ ProfileInv' /\ AgentInv'
<1> USE DEF IInv
<1>1. /\ profileFiles' = [profileFiles EXCEPT ![target][f] = ProfileContent(f)]
      /\ pc = "profile"
      /\ UNCHANGED <<ca, client, caCert, caKey, serverCert, serverKey, pairings, pc, agent>>
  BY DEF WriteProfileFile, pkiFiles
<1>2. caKey.state = "ok" /\ ca = caCert.key /\ client \in pairings
  BY <1>1 DEF CommandInv
<1>3. profileFiles \in [Profile -> [ProfileFile -> Content]] /\ target \in Profile
  BY DEF TypeOK
<1>4. FilesInv' /\ CommandInv' /\ AgentInv'
  BY <1>1 DEF FilesInv, CommandInv, AgentInv, Startable
<1>5. ProfileInv'
  <2>1. ASSUME NEW p \in Profile, NEW g \in ProfileFile
        PROVE  \/ profileFiles'[p][g] = profileFiles[p][g]
               \/ profileFiles'[p][g] = ProfileContent(g)
    BY <1>1, <1>3
  <2>2. /\ ProfileContent("ca.pem").key = caCert.key
        /\ ProfileContent("client-cert.pem").signer = caCert.key
        /\ ProfileContent("client-cert.pem").key \in pairings
    BY <1>2, Contents DEF ProfileContent
  <2>3. "ca.pem" \in ProfileFile /\ "client-cert.pem" \in ProfileFile
    BY DEF ProfileFile
  <2> QED BY <1>1, <1>2, <2>1, <2>2, <2>3 DEF ProfileInv
<1> QED BY <1>4, <1>5

\* A command that is cut short tears only a file that nothing rests on yet.
LEMMA InterruptStep ==
  ASSUME IInv, Interrupt PROVE FilesInv' /\ CommandInv' /\ ProfileInv' /\ AgentInv'
<1> USE DEF IInv
<1>1. /\ pc' = "idle" /\ agent' \in {agent, Stopped}
      /\ UNCHANGED <<pairings, ca, client>>
      /\ caCert' = caCert \/ (caCert' = Torn /\ ~HaveCA)
      /\ caKey' = caKey \/ (caKey' = Torn /\ pc = "ca_key")
      /\ serverCert' = serverCert
           \/ (serverCert' = Torn /\ pc = "server" /\ serverCert.state = "absent")
      /\ serverKey' = serverKey \/ (serverKey' = Torn /\ pc = "server_key")
      /\ pc = "ca_key" => caCert' = caCert
      /\ pc \in {"server", "server_key"} => caCert' = caCert /\ caKey' = caKey
  BY DEF Interrupt, Interrupted, Goto
<1>2. caCert' = caCert \/ caKey.state = "absent"
  BY <1>1 DEF HaveCA, FilesInv
<1>3. caKey' = caKey \/ (caKey.state = "absent" /\ caKey' = Torn /\ caCert' = caCert
                         /\ caCert.state = "ok")
  BY <1>1, Contents DEF CommandInv
<1>4. serverKey' = serverKey
        \/ (serverKey.state = "absent" /\ serverKey' = Torn /\ serverCert.state = "ok")
  BY <1>1 DEF CommandInv
<1>5. caCert' # caCert => caKey' = caKey
  BY <1>1, <1>2, <1>3
<1>6. serverKey' # serverKey => serverCert' = serverCert
  BY <1>1
<1>7. FilesInv'
  BY <1>1, <1>2, <1>3, <1>4, <1>5, <1>6, Contents DEF FilesInv
<1>8. CommandInv'
  BY <1>1 DEF CommandInv
<1>9. ProfileInv'
  <2>1. ASSUME NEW p \in Profile, NEW g \in ProfileFile
        PROVE  profileFiles'[p][g] = profileFiles[p][g] \/ profileFiles'[p][g] = Torn
    BY DEF Interrupt, TypeOK
  <2>2. "ca.pem" \in ProfileFile /\ "client-cert.pem" \in ProfileFile
    BY DEF ProfileFile
  <2>3. caKey.state = "ok" => caKey' = caKey /\ caCert' = caCert
    BY <1>2, <1>3
  <2> QED BY <1>1, <2>1, <2>2, <2>3, Contents DEF ProfileInv
<1>10. AgentInv'
  <2>1. Startable => /\ caCert' = caCert /\ serverCert' = serverCert /\ serverKey' = serverKey
    BY <1>1, <1>2, <1>4 DEF Startable, FilesInv
  <2> QED BY <1>1, <2>1 DEF AgentInv, Startable, Stopped
<1> QED BY <1>7, <1>8, <1>9, <1>10

LEMMA StepIInv == ASSUME IInv, [Next]_vars PROVE IInv'
<1>1. TypeOK'
  BY TypeStep
<1>2. FilesInv' /\ CommandInv' /\ ProfileInv' /\ AgentInv'
  <2>1. CASE StartAgent \/ StopAgent \/ UNCHANGED vars
    BY <2>1, QuietStep DEF StartAgent, StopAgent, vars, command
  <2>2. ASSUME NEW p \in Profile, RunSetup(p) \/ RunScript(p)
        PROVE  FilesInv' /\ CommandInv' /\ ProfileInv' /\ AgentInv'
    BY <2>2, QuietStep DEF RunSetup, RunScript, Goto
  <2>3. CASE LoadCA
    <3>1. /\ caKey.state = "ok" /\ ca' = caKey.key /\ pc' = "server"
          /\ UNCHANGED <<caCert, caKey, serverCert, serverKey, pairings, profileFiles, agent>>
      BY <2>3 DEF LoadCA, pkiFiles, Goto
    <3> QED BY <3>1 DEF IInv, FilesInv, CommandInv, ProfileInv, AgentInv, Startable
  <2>4. CASE LoadCAFails \/ KeepServerCert \/ MakeDirectory \/ SetupEnds \/ ScriptEnds
    BY <2>4, QuietStep DEF LoadCAFails, KeepServerCert, MakeDirectory, SetupEnds, ScriptEnds, Goto
  <2>5. CASE CreateCA BY <2>5, CreateCAStep
  <2>6. CASE WriteCAKey BY <2>6, WriteCAKeyStep
  <2>7. CASE IssueServerCert BY <2>7, IssueServerCertStep
  <2>8. CASE WriteServerKey BY <2>8, WriteServerKeyStep
  <2>9. CASE Pair BY <2>9, PairStep
  <2>10. ASSUME NEW f \in ProfileFile, WriteProfileFile(f)
         PROVE  FilesInv' /\ CommandInv' /\ ProfileInv' /\ AgentInv'
    BY <2>10, ProfileStep
  <2>11. CASE Interrupt BY <2>11, InterruptStep
  <2> QED
    BY <2>1, <2>2, <2>3, <2>4, <2>5, <2>6, <2>7, <2>8, <2>9, <2>10, <2>11 DEF Next
<1> QED BY <1>1, <1>2 DEF IInv

-----------------------------------------------------------------------------
(* The theorems *)

\* The invariant holds however many commands are cut short, and wherever.
THEOREM SetupInvariance == Spec => []IInv
<1> QED BY InitIInv, StepIInv, PTL DEF Spec

\* The files and the variables of the command have their types.
THEOREM SetupTypeCorrect == Spec => []TypeOK
<1> QED BY SetupInvariance, PTL DEF IInv

\* A profile whose files fit together is accepted by any agent that starts,
\* however the commands that wrote its files were cut short: CreateCA replaces a CA
\* only before its key was written, and Pair only adds to the allowlist.
THEOREM CompleteCorrect == Spec => []CompleteProfileWorks
<1>1. IInv => CompleteProfileWorks
  <2> SUFFICES ASSUME IInv, NEW p \in Profile, Complete(p), Startable
               PROVE  Accepts(Started, p)
    BY DEF CompleteProfileWorks
  <2>1. /\ profileFiles[p]["ca.pem"].state = "ok"
        /\ profileFiles[p]["client-cert.pem"].state = "ok"
    BY DEF Complete, ProfileFile
  <2> QED BY <2>1 DEF IInv, ProfileInv, FilesInv, Startable, Started, Accepts
<1> QED BY <1>1, SetupInvariance, PTL

\* A restart of the agent in the middle of whatever command locks out no laptop
\* that the running agent accepts.
THEOREM RestartCorrect == Spec => []RestartKeepsAccess
<1>1. IInv => RestartKeepsAccess
  BY DEF IInv, AgentInv, RestartKeepsAccess, Accepts, Started
<1> QED BY <1>1, SetupInvariance, PTL

\* Once both files of the CA were written, no command replaces them
\* (loadOrCreateCA).
THEOREM CAKept == Spec => CAStable
<1>1. ASSUME IInv, [Next]_vars, caCert.state = "ok", caKey.state = "ok"
      PROVE  UNCHANGED <<caCert, caKey>>
  <2>1. ~CreateCA
    BY <1>1 DEF CreateCA, HaveCA
  <2>2. ~WriteCAKey
    BY <1>1 DEF WriteCAKey, IInv, CommandInv
  <2>3. CASE Interrupt
    BY <1>1, <2>3 DEF Interrupt, Interrupted, HaveCA, IInv, CommandInv
  <2> QED
    BY <1>1, <2>1, <2>2, <2>3 DEF Next, vars, pkiFiles, StartAgent, StopAgent, RunSetup, RunScript,
       LoadCA, LoadCAFails, KeepServerCert, IssueServerCert, WriteServerKey, Pair,
       MakeDirectory, WriteProfileFile, SetupEnds, ScriptEnds
<1>2. IInv /\ [Next]_vars => [caCert.state = "ok" /\ caKey.state = "ok" =>
                                 UNCHANGED <<caCert, caKey>>]_vars
  BY <1>1
<1> QED BY <1>2, SetupInvariance, PTL DEF Spec, CAStable

=============================================================================
