------------------------------ MODULE Seeding ------------------------------
(***************************************************************************)
(* Seeding the POSL layout and keeping peers.json in step with the peers:  *)
(* requests to /seed and /update-peers, the seed the server runs by itself *)
(* at its start, and the preparation of runs, over one seed directory, one *)
(* peers.json and the containers of the GraphSync peers.  Nothing but      *)
(* peersMu keeps these apart.  The client of a request may go away, docker *)
(* or a write may fail, a status request may time out, and the server or a *)
(* peer may die, in the middle of a write too, and be started again.       *)
(***************************************************************************)
EXTENDS Integers, Sequences, FiniteSets

CONSTANTS
  Services,        \* graphsyncPeerServices, in their order
  Autos,           \* the seeds a start of the server may begin
  Requests,        \* requests to /seed
  Updates,         \* requests to /update-peers
  Runs,            \* prepared runs, each with peer labels of its own
  None,
  Attempts,        \* graphsyncPeerReadinessAttempts
  RecoveryChecks,  \* graphsyncPeerRecoveryTimeout / graphsyncPeerRecoveryPoll
  MaxJobs,         \* bound: requests and runs that begin, over all kinds
  MaxFaults        \* bound: faults, over all kinds

ASSUME SeedingAssumption ==
  /\ Attempts \in Nat \ {0} /\ RecoveryChecks \in Nat \ {0} /\ MaxJobs \in Nat /\ MaxFaults \in Nat
  /\ DOMAIN Services # {}
  /\ Autos \cap Requests = {} /\ Runs \cap (Autos \cup Requests) = {}
  /\ Updates \cap (Autos \cup Requests \cup Runs) = {}
  /\ None \notin Autos \cup Requests \cup Runs \cup Updates

Seeders == Autos \cup Requests
Jobs == Seeders \cup Runs \cup Updates
Peers == {Services[i] : i \in DOMAIN Services}
LabelSets == Runs \cup {"default"}

VARIABLES
  ui,         \* the server: "down", "seeding" (auto-seed, no requests yet), "up"
  pc,         \* where each job is
  cancelled,  \* jobs whose context is done
  failed,     \* seeders whose seed command went wrong
  manifest,   \* whose file the name manifest.json refers to
  tmp,        \* whose file the name manifest.json.tmp refers to
  encoded,    \* seeders whose manifest file has its content
  blocks,     \* per seeder, what of its layout is in the blocks directory
  peer,       \* containers: "stopped", "waiting" (for a manifest), "starting",
              \* or up: the seed whose root the peer announces
  key,        \* the identity in a peer's key volume
  peersFile,  \* peers.json: identities by service and the labels they carry
  torn,       \* history: the last write of peers.json was cut short
  holder,     \* who holds peersMu
  wait,       \* the readiness wait of the holder
  faults,     \* faults so far
  alone,      \* history: the last job to begin began alone, no fault or job since
  overlapped  \* history: two seeds were at work on the directory at once

diskVars == <<manifest, tmp, encoded, blocks>>
peerVars == <<peer, key>>
fileVars == <<peersFile, torn, holder, wait>>
vars == <<ui, pc, cancelled, failed, diskVars, peerVars, fileVars, faults, alone, overlapped>>

Goto(j, l) == pc' = [pc EXCEPT ![j] = l]

\* no wait is under way
NoWait == [stage |-> "none", attempt |-> 0, next |-> 0, found |-> <<>>]

OnDirectory == {"remove", "clear", "chunks", "root", "create", "encode", "publish"}
Idle == {"idle", "done", "unready", "failed", "dead"}

Active(j) == pc[j] \notin Idle
Up(p) == peer[p] \in Seeders

\* A fault: one of the bounded number, and whoever is at work is disturbed.
Fault == faults < MaxFaults /\ faults' = faults + 1 /\ alone' = FALSE
NoFault == UNCHANGED <<faults, alone>>

\* Seeded faults (Bug...): plausible slips in the operators below them, used
\* by no specification.

\* blocks are cleared under the old manifest, which goes only when replaced
BugRemove == tmp' = None /\ UNCHANGED manifest
\* the peers are left running over the new blocks
BugStopped == peer
\* one answer is enough
BugMissing(found) == IF found = <<>> THEN Peers ELSE {}
\* the wait starts its attempts over after each restart
BugAfterRestart == [wait EXCEPT !.stage = "sleep", !.attempt = 1]
\* only containers that answered are restarted
BugRestarted(services) == [p \in Peers |-> IF p \in services /\ Up(p) THEN "waiting" ELSE peer[p]]
\* the readiness wait is entered without peersMu
BugAcquire(j) ==
  /\ pc[j] = "lock"
  /\ holder' = j
  /\ wait' = [stage |-> "probe", attempt |-> 1, next |-> 1, found |-> <<>>]
  /\ Goto(j, "ensure")
  /\ UNCHANGED <<ui, cancelled, failed, diskVars, peerVars, peersFile, torn, faults, alone, overlapped>>
\* a manifest that is only being written counts as one
BugSeedIsThere == manifest # None \/ tmp # None

-----------------------------------------------------------------------------
(* The seed directory.                                                     *)

\* manifest.json and manifest.json.tmp
Remove == manifest' = None /\ tmp' = None

\* A seed begins to work on the directory.
BeginSeed(j) ==
  /\ Goto(j, "remove")
  /\ overlapped' = (overlapped \/ \E i \in Seeders \ {j} : pc[i] \in OnDirectory)

RemoveManifests(j) ==
  /\ pc[j] = "remove"
  /\ Remove
  /\ Goto(j, "clear")
  /\ UNCHANGED <<ui, cancelled, failed, encoded, blocks, peerVars, fileVars, faults, alone, overlapped>>

ClearBlocks(j) ==
  /\ pc[j] = "clear"
  /\ blocks' = [i \in Seeders |-> {}]
  /\ Goto(j, "chunks")
  /\ UNCHANGED <<ui, cancelled, failed, manifest, tmp, encoded, peerVars, fileVars, faults, alone, overlapped>>

\* BuildLayoutFromReader: chunks and segments first, the root node last
WriteChunks(j) ==
  /\ pc[j] = "chunks"
  /\ blocks' = [blocks EXCEPT ![j] = @ \cup {"chunks"}]
  /\ Goto(j, "root")
  /\ UNCHANGED <<ui, cancelled, failed, manifest, tmp, encoded, peerVars, fileVars, faults, alone, overlapped>>

WriteRoot(j) ==
  /\ pc[j] = "root"
  /\ blocks' = [blocks EXCEPT ![j] = @ \cup {"root"}]
  /\ Goto(j, "create")
  /\ UNCHANGED <<ui, cancelled, failed, manifest, tmp, encoded, peerVars, fileVars, faults, alone, overlapped>>

\* a file of its own under the temporary name, whoever used the name before
CreateManifest(j) ==
  /\ pc[j] = "create"
  /\ tmp' = j
  /\ encoded' = encoded \ {j}
  /\ Goto(j, "encode")
  /\ UNCHANGED <<ui, cancelled, failed, manifest, blocks, peerVars, fileVars, faults, alone, overlapped>>

\* written through the open file, wherever its name went
EncodeManifest(j) ==
  /\ pc[j] = "encode"
  /\ encoded' = encoded \cup {j}
  /\ Goto(j, "publish")
  /\ UNCHANGED <<ui, cancelled, failed, manifest, tmp, blocks, peerVars, fileVars, faults, alone, overlapped>>

\* After its seed an auto-seed lets the server start; a request goes on to
\* start the peers.
AfterSeed(j) ==
  IF j \in Autos THEN Goto(j, "done") /\ ui' = "up" ELSE Goto(j, "start") /\ UNCHANGED ui

\* rename(2): fails when the temporary name is gone.  A command that ends badly
\* after it, or whose output names no root, has published all the same.
PublishManifest(j) ==
  /\ pc[j] = "publish"
  /\ \/ tmp = None /\ failed' = failed \cup {j} /\ UNCHANGED <<manifest, tmp>> /\ NoFault
     \/ /\ tmp # None /\ manifest' = tmp /\ tmp' = None
        /\ \/ UNCHANGED failed /\ NoFault
           \/ failed' = failed \cup {j} /\ Fault
  /\ AfterSeed(j)
  /\ UNCHANGED <<cancelled, encoded, blocks, peerVars, fileVars, overlapped>>

\* the seed command is killed once the context of its request is done
KillSeed(j) ==
  /\ j \in cancelled /\ pc[j] \in OnDirectory \ {"remove", "clear"}
  /\ failed' = failed \cup {j}
  /\ AfterSeed(j)
  /\ UNCHANGED <<cancelled, diskVars, peerVars, fileVars, faults, alone, overlapped>>

\* A seed fails by itself: no input video, a file cannot be removed, cleared or
\* written.  The old manifest may be gone by then, and a command that was
\* writing its own takes the temporary name away.
FailSeed(j) ==
  /\ pc[j] \in OnDirectory /\ Fault
  /\ \/ UNCHANGED manifest
     \/ pc[j] = "remove" /\ manifest' = None
  /\ tmp' = IF pc[j] \in {"encode", "publish"} THEN None ELSE tmp
  /\ failed' = failed \cup {j}
  /\ AfterSeed(j)
  /\ UNCHANGED <<cancelled, encoded, blocks, peerVars, fileVars, overlapped>>

-----------------------------------------------------------------------------
(* Commands to docker.  A command runs, or has no effect: it fails, finds  *)
(* no container or is skipped because the client is too old.               *)

Stopped == [p \in Peers |-> "stopped"]
Started == [p \in Peers |-> IF peer[p] = "stopped" THEN "waiting" ELSE peer[p]]
Restarted(services) == [p \in Peers |-> IF p \in services THEN "waiting" ELSE peer[p]]

\* of a command that only warns when it fails
Command(j, effect) ==
  \/ j \notin cancelled /\ peer' = effect /\ NoFault
  \/ j \in cancelled /\ UNCHANGED peer /\ NoFault
  \/ Fault /\ UNCHANGED peer

-----------------------------------------------------------------------------
(* Requests to /seed.                                                      *)

\* A job begins: one of the bounded number, and alone if no other is at work.
Begins(j) ==
  /\ ui = "up" /\ pc[j] = "idle"
  /\ Cardinality({i \in Jobs \ Autos : pc[i] # "idle"}) < MaxJobs
  /\ alone' = (\A i \in Jobs : ~Active(i))

HandleSeed(j) ==
  /\ Begins(j) /\ Goto(j, "stop")
  /\ UNCHANGED <<ui, cancelled, failed, diskVars, peerVars, fileVars, faults, overlapped>>

StopPeers(j) ==
  /\ pc[j] = "stop"
  /\ Command(j, Stopped)
  /\ BeginSeed(j)
  /\ UNCHANGED <<ui, cancelled, failed, diskVars, key, fileVars>>

\* the peers are started whether or not the seed went well
StartPeers(j) ==
  /\ pc[j] = "start"
  /\ Command(j, Started)
  /\ Goto(j, IF j \in failed THEN "failed" ELSE "lock")
  /\ UNCHANGED <<ui, cancelled, failed, diskVars, key, fileVars, overlapped>>

-----------------------------------------------------------------------------
(* Preparing a run, a request to /update-peers, and what is done under     *)
(* peersMu: the readiness wait or the script, and the write of peers.json. *)

PrepareRun(j) ==
  /\ Begins(j) /\ Goto(j, "lock")
  /\ UNCHANGED <<ui, cancelled, failed, diskVars, peerVars, fileVars, faults, overlapped>>

HandleUpdatePeers(j) == PrepareRun(j)

Acquire(j) ==
  /\ pc[j] = "lock" /\ holder = None
  /\ holder' = j
  /\ wait' = [stage |-> IF j \in Updates THEN "logs" ELSE "probe",
              attempt |-> 1, next |-> 1, found |-> <<>>]
  /\ Goto(j, "ensure")
  /\ UNCHANGED <<ui, cancelled, failed, diskVars, peerVars, peersFile, torn, faults, alone, overlapped>>

Answer(found, p) == [q \in DOMAIN found \cup {p} |-> IF q = p THEN key[p] ELSE found[q]]

\* One service after the other is asked for its identity; two seconds are
\* waited for an answer.
Probe ==
  /\ wait.stage \in {"probe", "recover"} /\ wait.next \in DOMAIN Services
  /\ LET p == Services[wait.next]
         Ask(answered) == wait' = [wait EXCEPT !.next = @ + 1,
                                               !.found = IF answered THEN Answer(@, p) ELSE @]
     IN  \/ Ask(Up(p) /\ holder \notin cancelled) /\ NoFault
         \/ Up(p) /\ Ask(FALSE) /\ Fault
  /\ UNCHANGED <<ui, pc, cancelled, failed, diskVars, peerVars, peersFile, torn, holder, overlapped>>

\* missingGraphsyncPeerServices
Missing(found) == Peers \ DOMAIN found

Asked == wait.stage \in {"probe", "recover"} /\ wait.next \notin DOMAIN Services

\* peersMu is released: a seed only warns of peers that are not ready, a run
\* looks whether it can go on.
Leave(ready) ==
  /\ holder' = None /\ wait' = NoWait
  /\ Goto(holder, IF ready THEN "done"
                  ELSE IF holder \in Runs THEN "reread"
                  ELSE IF holder \in Updates THEN "failed" ELSE "unready")

\* the identities that answered, with the labels of the run that asked
applyGraphsyncPeerLabels(found) ==
  [ids |-> found, labels |-> IF holder \in Runs THEN holder ELSE "default"]

\* what the file names is what was found
peerConfigMatchesEntries(entries) == peersFile = entries

\* every service answered: peers.json is written unless it already agrees
Ready ==
  /\ Asked /\ Missing(wait.found) = {}
  /\ IF peerConfigMatchesEntries(applyGraphsyncPeerLabels(wait.found))
     THEN Leave(TRUE)
     ELSE wait' = [wait EXCEPT !.stage = "open"] /\ UNCHANGED <<pc, holder>>
  /\ UNCHANGED <<ui, cancelled, failed, diskVars, peerVars, peersFile, torn, faults, alone, overlapped>>

\* update-peers.sh reads the identities from the containers' logs, of peers
\* that run or do not.  What a log still holds is not kept: the script finds
\* all identities, or gives up.
ReadLogs ==
  /\ wait.stage = "logs"
  /\ \/ /\ holder \notin cancelled
        /\ wait' = [wait EXCEPT !.stage = "open", !.found = key]
        /\ UNCHANGED <<pc, holder>>
     \/ Leave(FALSE)
  /\ UNCHANGED <<ui, cancelled, failed, diskVars, peerVars, peersFile, torn, faults, alone, overlapped>>

\* a file that was truncated, or whose content is not whole, names nobody
Truncated == [ids |-> <<>>, labels |-> "none"]
Names(file) == file # None /\ file.ids # <<>>

\* A write fails, or the script is killed with its request.
WriteFails == IF holder \in Updates \cap cancelled THEN NoFault ELSE Fault

\* peers.json is written in place: it is opened, which truncates it ...
OpenFile ==
  /\ wait.stage = "open"
  /\ \/ /\ peersFile' = Truncated /\ NoFault
        /\ wait' = [wait EXCEPT !.stage = "write"] /\ UNCHANGED <<pc, holder>>
     \/ WriteFails /\ Leave(FALSE) /\ UNCHANGED peersFile
  /\ UNCHANGED <<ui, cancelled, failed, diskVars, peerVars, torn, overlapped>>

\* ... and gets its content, which is read back under the same lock.
WriteFile ==
  /\ wait.stage = "write"
  /\ \/ /\ peersFile' = applyGraphsyncPeerLabels(wait.found) /\ torn' = FALSE
        /\ NoFault /\ Leave(TRUE)
     \/ WriteFails /\ torn' = TRUE /\ UNCHANGED peersFile /\ Leave(FALSE)
  /\ UNCHANGED <<ui, cancelled, failed, diskVars, peerVars, overlapped>>

\* A run whose peers are not ready goes on with the peers.json there is, read
\* without the lock, or fails.
LoadPeerLabels(j) ==
  /\ pc[j] = "reread"
  /\ Goto(j, IF Names(peersFile) THEN "unready" ELSE "failed")
  /\ UNCHANGED <<ui, cancelled, failed, diskVars, peerVars, fileVars, faults, alone, overlapped>>

CheckAgain ==
  /\ Asked /\ Missing(wait.found) # {}
  /\ LET limit == IF wait.stage = "probe" THEN Attempts ELSE RecoveryChecks
     IN  wait' = [wait EXCEPT !.stage = IF wait.attempt < limit
                                        THEN IF @ = "probe" THEN "sleep" ELSE "pause"
                                        ELSE IF @ = "probe" THEN "restart" ELSE "give up"]
  /\ UNCHANGED <<ui, pc, cancelled, failed, diskVars, peerVars, peersFile, torn, holder, faults, alone, overlapped>>

\* a sleep that ends by its timer; the next check asks every service again
Sleep ==
  /\ wait.stage \in {"sleep", "pause"}
  /\ wait' = [stage |-> IF wait.stage = "sleep" THEN "probe" ELSE "recover",
              attempt |-> wait.attempt + 1, next |-> 1, found |-> <<>>]
  /\ UNCHANGED <<ui, pc, cancelled, failed, diskVars, peerVars, peersFile, torn, holder, faults, alone, overlapped>>

\* after the last check, or in a sleep once the context is done
GiveUp ==
  /\ \/ wait.stage = "give up"
     \/ wait.stage \in {"sleep", "pause"} /\ holder \in cancelled
  /\ Leave(FALSE)
  /\ UNCHANGED <<ui, cancelled, failed, diskVars, peerVars, peersFile, torn, faults, alone, overlapped>>

AfterRestart == [wait EXCEPT !.stage = "pause", !.attempt = 0]

\* The services the last check missed are restarted, those that only
\* answered late included.
RestartMissing ==
  /\ wait.stage = "restart"
  /\ \/ holder \notin cancelled /\ peer' = Restarted(Missing(wait.found)) /\ NoFault
        /\ wait' = AfterRestart /\ UNCHANGED <<pc, holder>>
     \/ UNCHANGED peer /\ Fault /\ wait' = AfterRestart /\ UNCHANGED <<pc, holder>>
     \/ UNCHANGED peer /\ Leave(FALSE)
        /\ IF holder \in cancelled THEN NoFault ELSE Fault
  /\ UNCHANGED <<ui, cancelled, failed, diskVars, key, peersFile, torn, overlapped>>

-----------------------------------------------------------------------------
(* The server and the containers.                                          *)

SeedIsThere == manifest # None

\* main: auto-seed before the first request is served.  It is skipped when the
\* manifest is there, when that cannot be told, or for want of a video.
Boot ==
  /\ ui = "down"
  /\ \/ SeedIsThere /\ ui' = "up" /\ NoFault /\ UNCHANGED <<pc, overlapped>>
     \/ /\ ~SeedIsThere /\ ui' = "seeding" /\ NoFault
        /\ \E j \in Autos : pc[j] = "idle" /\ BeginSeed(j)
     \/ Fault /\ ui' = "up" /\ UNCHANGED <<pc, overlapped>>
  /\ UNCHANGED <<cancelled, failed, diskVars, peerVars, fileVars>>

\* the server's container dies, and every seed command in it
Crash ==
  /\ ui # "down" /\ Fault
  /\ \E j \in Autos : pc[j] = "idle"
  /\ ui' = "down"
  /\ pc' = [j \in Jobs |-> IF Active(j) THEN "dead" ELSE pc[j]]
  /\ holder' = None /\ wait' = NoWait /\ torn' = (torn \/ wait.stage = "write")
  /\ UNCHANGED <<cancelled, failed, diskVars, peerVars, peersFile, overlapped>>

\* the client of a request goes away, a run is cancelled
Cancel(j) ==
  /\ Active(j) /\ j \notin Autos \cup cancelled /\ Fault
  /\ cancelled' = cancelled \cup {j}
  /\ UNCHANGED <<ui, pc, failed, diskVars, peerVars, fileVars, overlapped>>

\* gs-peer.sh: wait for a manifest that is not empty
SeeManifest(p) ==
  /\ peer[p] = "waiting" /\ manifest \in encoded
  /\ peer' = [peer EXCEPT ![p] = "starting"]
  /\ UNCHANGED <<ui, pc, cancelled, failed, diskVars, key, fileVars, faults, alone, overlapped>>

\* gs-peer: the root the manifest names must be there, or the process exits.
StartPeer(p) ==
  /\ peer[p] = "starting"
  /\ peer' = [peer EXCEPT ![p] = IF manifest \in encoded /\ "root" \in blocks[manifest]
                                THEN manifest ELSE "stopped"]
  /\ UNCHANGED <<ui, pc, cancelled, failed, diskVars, key, fileVars, faults, alone, overlapped>>

PeerDies(p) ==
  /\ peer[p] # "stopped" /\ Fault
  /\ peer' = [peer EXCEPT ![p] = "stopped"]
  /\ UNCHANGED <<ui, pc, cancelled, failed, diskVars, key, fileVars, overlapped>>

\* the container and its key volume are created anew
Recreate(p) ==
  /\ Fault
  /\ peer' = [peer EXCEPT ![p] = "waiting"]
  /\ key' = [key EXCEPT ![p] = @ + 1]
  /\ UNCHANGED <<ui, pc, cancelled, failed, diskVars, fileVars, overlapped>>

-----------------------------------------------------------------------------
(* docker compose up with empty volumes.                                   *)
Init ==
  /\ ui = "down"
  /\ pc = [j \in Jobs |-> "idle"]
  /\ cancelled = {} /\ failed = {}
  /\ manifest = None /\ tmp = None /\ encoded = {} /\ blocks = [j \in Seeders |-> {}]
  /\ peer = [p \in Peers |-> "waiting"]
  /\ key = [p \in Peers |-> 0]
  /\ peersFile = None /\ torn = FALSE /\ holder = None /\ wait = NoWait
  /\ faults = 0 /\ alone = FALSE /\ overlapped = FALSE

SeedStep(j) ==
  \/ RemoveManifests(j) \/ ClearBlocks(j) \/ WriteChunks(j) \/ WriteRoot(j)
  \/ CreateManifest(j) \/ EncodeManifest(j) \/ PublishManifest(j)

WaitStep ==
  \/ Probe \/ Ready \/ CheckAgain \/ Sleep \/ GiveUp \/ RestartMissing
  \/ ReadLogs \/ OpenFile \/ WriteFile

Next ==
  \/ Boot \/ Crash \/ WaitStep
  \/ \E j \in Seeders : SeedStep(j) \/ KillSeed(j) \/ FailSeed(j)
  \/ \E j \in Requests : HandleSeed(j) \/ StopPeers(j) \/ StartPeers(j)
  \/ \E j \in Runs : PrepareRun(j) \/ LoadPeerLabels(j)
  \/ \E j \in Updates : HandleUpdatePeers(j)
  \/ \E j \in Jobs : Acquire(j) \/ Cancel(j)
  \/ \E p \in Peers : SeeManifest(p) \/ StartPeer(p) \/ PeerDies(p) \/ Recreate(p)

Spec == Init /\ [][Next]_vars

\* The server works on what it began, a peer boots, peersMu is handed to
\* whoever waits for it; nobody must send a request, and no fault must happen.
Fairness ==
  /\ WF_vars(Boot)
  /\ WF_vars(WaitStep)
  /\ \A j \in Seeders : WF_vars(SeedStep(j)) /\ WF_vars(KillSeed(j))
  /\ \A j \in Requests : WF_vars(StopPeers(j)) /\ WF_vars(StartPeers(j))
  /\ \A j \in Runs : WF_vars(LoadPeerLabels(j))
  /\ \A j \in Jobs : WF_vars(Acquire(j))
  /\ \A p \in Peers : WF_vars(SeeManifest(p)) /\ WF_vars(StartPeer(p))

FairSpec == Spec /\ Fairness

-----------------------------------------------------------------------------
(* Properties.                                                             *)

\* Every variable stays in its domain.
TypeOK ==
  /\ ui \in {"down", "seeding", "up"}
  /\ pc \in [Jobs -> OnDirectory \cup Idle \cup {"stop", "start", "lock", "ensure", "reread"}]
  /\ cancelled \subseteq Jobs /\ failed \subseteq Seeders
  /\ manifest \in Seeders \cup {None} /\ tmp \in Seeders \cup {None}
  /\ encoded \subseteq Seeders /\ blocks \in [Seeders -> SUBSET {"chunks", "root"}]
  /\ peer \in [Peers -> {"stopped", "waiting", "starting"} \cup Seeders]
  /\ key \in [Peers -> Nat]
  /\ (peersFile = None \/ peersFile.labels \in LabelSets \cup {"none"}) /\ torn \in BOOLEAN
  /\ holder \in Jobs \cup {None}
  /\ holder = None <=> wait.stage = "none"
  /\ \A j \in Jobs : pc[j] = "ensure" <=> holder = j
  /\ faults \in 0..MaxFaults /\ alone \in BOOLEAN /\ overlapped \in BOOLEAN

\* Whatever is killed, cancelled or started again in between, a manifest that
\* can be read has its content and all blocks of its layout beside it, as
\* long as no two seeds were ever at work on the directory at once.
PublishedIsWhole ==
  ~overlapped /\ manifest # None =>
    manifest \in encoded /\ blocks[manifest] = {"chunks", "root"}

\* peers.json names every service, whoever wrote it from whatever it asked; once
\* written it names nobody only while the holder of peersMu writes it in place,
\* or when a fault cut the last write short: failure, kill or death.
PeersFileIsComplete ==
  peersFile # None =>
    IF Names(peersFile) THEN DOMAIN peersFile.ids = Peers
                        ELSE wait.stage = "write" \/ (torn /\ faults > 0)

\* A seed that ends with ready peers, and was alone from its beginning, is
\* what every peer announces.
SeedIsServed ==
  [][\A j \in Requests :
       pc[j] # "done" /\ pc'[j] = "done" /\ alone =>
         \A p \in Peers : peer[p] = j]_vars

\* Whoever waits for peersMu, for the peers or for peers.json goes on in the
\* end, even if the peers never answer.
ReadinessEnds ==
  \A j \in Requests \cup Runs \cup Updates :
    pc[j] \in {"lock", "ensure", "reread"} ~> pc[j] \in Idle

\* A server that is started seeds what its death, or a fault before it, left
\* half done.  Only a new fault, which may skip or break the auto-seed, lets it
\* serve without a manifest.
RestartReseeds ==
  \A n \in 0..MaxFaults :
    (ui = "down" /\ faults = n) ~> (ui = "up" /\ (manifest # None \/ faults > n))

\* A run that is prepared brings back the peers that a failed stop, start or
\* death left stopped, once no more faults happen and nobody seeds.
Settled == faults = MaxFaults /\ \A j \in Seeders : ~Active(j)
RunRevivesPeers ==
  \A j \in Runs :
    (pc[j] = "lock" /\ j \notin cancelled /\ Settled /\ manifest # None /\ ~overlapped)
      ~> ((\A p \in Peers : Up(p)) \/ \E i \in Seeders : Active(i))
=============================================================================
