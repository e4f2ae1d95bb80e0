--------------------------- MODULE SeedingProofs ---------------------------
(***************************************************************************)
(* Proofs about Seeding, for all services, requests and runs, any number   *)
(* of attempts and of faults: types, what a manifest in place promises,    *)
(* and that peers.json names all peers unless its write was cut short.     *)
(***************************************************************************)
EXTENDS Seeding, TLAPS

USE SeedingAssumption

\* The record of a wait has its fields, only services have answered, and all
\* of them have before peers.json is written.
WaitOK ==
  /\ DOMAIN wait = {"stage", "attempt", "next", "found"}
  /\ DOMAIN wait.found \subseteq Peers
  /\ wait.stage \in {"open", "write"} => DOMAIN wait.found = Peers

\* A write is cut short, and a job cancelled, by a fault only.
FaultsSeen == (torn => faults > 0) /\ (cancelled # {} => faults > 0)

\* Nobody but a seeder is on the directory.
Seeding(j) == j \in Seeders /\ pc[j] \in OnDirectory

\* How far a seeder on the directory has come with its own files.
Progress(j) ==
  /\ pc[j] = "root" => "chunks" \in blocks[j]
  /\ pc[j] \in {"create", "encode", "publish"} => blocks[j] = {"chunks", "root"}
  /\ pc[j] \in {"encode", "publish"} => tmp = j
  /\ pc[j] = "publish" => j \in encoded

\* As long as no two seeds met on the directory: one is on it at most, it
\* has come as far as its program counter says, and a manifest is in place
\* only with everything it names and no seed past its removal.
Directory ==
  ~overlapped =>
    /\ \A i, j \in Seeders : Seeding(i) /\ Seeding(j) => i = j
    /\ \A j \in Seeders : Progress(j)
    /\ manifest # None =>
         /\ manifest \in encoded /\ blocks[manifest] = {"chunks", "root"}
         /\ \A j \in Seeders : pc[j] \in OnDirectory => pc[j] = "remove"

IInv == TypeOK /\ WaitOK /\ FaultsSeen /\ PeersFileIsComplete /\ Directory

Places == OnDirectory \cup Idle \cup {"stop", "start", "lock", "ensure", "reread"}

-----------------------------------------------------------------------------
(* Steps by what they leave alone.                                         *)

LEMMA NonePlaces ==
  /\ None \notin Jobs /\ Seeders \subseteq Jobs /\ Runs \subseteq Jobs
  /\ \A j \in Seeders : j \notin Runs
BY DEF Jobs, Seeders

\* A job that does not hold peersMu moves to a place outside the wait.
LEMMA MoveOK ==
  ASSUME TypeOK, NEW j \in Jobs, pc[j] # "ensure", NEW l \in Places, l # "ensure",
         Goto(j, l), UNCHANGED <<holder, wait>>
  PROVE  /\ pc' \in [Jobs -> Places]
         /\ \A i \in Jobs : pc'[i] = "ensure" <=> holder' = i
         /\ holder' = None <=> wait'.stage = "none"
BY DEF TypeOK, Goto, Places

\* Steps off the directory keep what holds of it.
LEMMA DirectoryStable ==
  ASSUME TypeOK, Directory, UNCHANGED <<diskVars, overlapped>>,
         \A j \in Seeders : pc'[j] = pc[j] \/ pc'[j] \notin OnDirectory
  PROVE  Directory'
<1> SUFFICES ASSUME ~overlapped
             PROVE  /\ \A i, j \in Seeders : Seeding(i)' /\ Seeding(j)' => i = j
                    /\ \A j \in Seeders : Progress(j)'
                    /\ manifest # None =>
                         /\ manifest \in encoded /\ blocks[manifest] = {"chunks", "root"}
                         /\ \A j \in Seeders : pc'[j] \in OnDirectory => pc'[j] = "remove"
  BY DEF Directory, diskVars
<1>1. \A i, j \in Seeders : Seeding(i)' /\ Seeding(j)' => i = j
  BY DEF Directory, Seeding
<1>2. \A j \in Seeders : Progress(j)'
  BY DEF Directory, Progress, diskVars, OnDirectory
<1>3. manifest # None =>
         /\ manifest \in encoded /\ blocks[manifest] = {"chunks", "root"}
         /\ \A j \in Seeders : pc'[j] \in OnDirectory => pc'[j] = "remove"
  BY DEF Directory
<1> QED
  BY <1>1, <1>2, <1>3

\* A seed that begins while another is at work is noticed; one that begins
\* alone has nothing of its own yet.
LEMMA BeginKeepsDirectory ==
  ASSUME TypeOK, Directory, UNCHANGED diskVars, NEW j \in Seeders, BeginSeed(j)
  PROVE  Directory'
<1> SUFFICES ASSUME ~overlapped, \A i \in Seeders \ {j} : pc[i] \notin OnDirectory
             PROVE  Directory'
  BY DEF BeginSeed, Directory
<1>1. pc' = [pc EXCEPT ![j] = "remove"] /\ pc'[j] = "remove"
      /\ \A i \in Seeders \ {j} : pc'[i] = pc[i]
  BY NonePlaces DEF BeginSeed, Goto, TypeOK
<1>2. \A i, k \in Seeders : Seeding(i)' /\ Seeding(k)' => i = k
  BY <1>1 DEF Seeding
<1>3. \A i \in Seeders : Progress(i)'
  BY <1>1 DEF Directory, Progress, diskVars, OnDirectory
<1>4. manifest' # None =>
         /\ manifest' \in encoded' /\ blocks'[manifest'] = {"chunks", "root"}
         /\ \A i \in Seeders : pc'[i] \in OnDirectory => pc'[i] = "remove"
  BY <1>1 DEF Directory, diskVars
<1> QED
  BY <1>2, <1>3, <1>4 DEF Directory

\* The seven steps of a seed on the directory.
LEMMA SeedStepKeepsDirectory ==
  ASSUME TypeOK, Directory, NEW j \in Seeders, SeedStep(j)
  PROVE  Directory'
<1> SUFFICES ASSUME ~overlapped PROVE Directory'
  BY DEF SeedStep, RemoveManifests, ClearBlocks, WriteChunks, WriteRoot, CreateManifest,
         EncodeManifest, PublishManifest, Directory
<1> DEFINE Only == \A i \in Seeders \ {j} : pc[i] \notin OnDirectory
           Off(M) == M # None => pc[j] = "remove"
<1>t. /\ pc \in [Jobs -> Places] /\ j \in Jobs /\ blocks \in [Seeders -> SUBSET {"chunks", "root"}]
      /\ None \notin Seeders /\ encoded \subseteq Seeders
  BY NonePlaces DEF TypeOK, Places
<1>d. pc[j] \in OnDirectory
  BY DEF SeedStep, RemoveManifests, ClearBlocks, WriteChunks, WriteRoot, CreateManifest,
         EncodeManifest, PublishManifest, OnDirectory
<1>o. Only
  BY <1>d DEF Directory, Seeding
<1>m. pc[j] # "remove" => manifest = None
  BY <1>d DEF Directory
<1>p. Progress(j)
  BY DEF Directory
<1> SUFFICES ASSUME \A i \in Seeders \ {j} : pc'[i] = pc[i]
             PROVE  Directory'
  BY <1>t, NonePlaces DEF SeedStep, RemoveManifests, ClearBlocks, WriteChunks, WriteRoot, CreateManifest,
         EncodeManifest, PublishManifest, Goto, AfterSeed
<1>1. \A i, k \in Seeders : Seeding(i)' /\ Seeding(k)' => i = k
  BY <1>o DEF Seeding
<1>2. \A i \in Seeders \ {j} : Progress(i)'
  BY <1>o DEF Progress, OnDirectory
<1>3. SUFFICES /\ Progress(j)'
               /\ manifest' # None =>
                    /\ manifest' \in encoded' /\ blocks'[manifest'] = {"chunks", "root"}
                    /\ pc'[j] \in OnDirectory => pc'[j] = "remove"
  BY <1>1, <1>2, <1>o DEF Directory
<1>4. CASE RemoveManifests(j)
  BY <1>4, <1>t DEF RemoveManifests, Remove, Goto, Progress
<1>5. CASE ClearBlocks(j)
  BY <1>5, <1>t, <1>m DEF ClearBlocks, Goto, Progress
<1>6. CASE WriteChunks(j)
  BY <1>6, <1>t, <1>m DEF WriteChunks, Goto, Progress
<1>7. CASE WriteRoot(j)
  <2>1. blocks'[j] = {"chunks", "root"} /\ pc'[j] = "create" /\ manifest' = None
    BY <1>7, <1>t, <1>m, <1>p DEF WriteRoot, Goto, Progress
  <2> QED
    BY <2>1 DEF Progress
<1>8. CASE CreateManifest(j)
  BY <1>8, <1>t, <1>m, <1>p DEF CreateManifest, Goto, Progress
<1>9. CASE EncodeManifest(j)
  BY <1>9, <1>t, <1>m, <1>p DEF EncodeManifest, Goto, Progress
<1>10. CASE PublishManifest(j)
  <2>1. tmp = j /\ j \in encoded /\ blocks[j] = {"chunks", "root"}
    BY <1>10, <1>p DEF PublishManifest, Progress
  <2>2. manifest' = j /\ encoded' = encoded /\ blocks' = blocks
    BY <1>10, <2>1, <1>t DEF PublishManifest
  <2>3. pc'[j] \in {"done", "start"}
    BY <1>10, <1>t DEF PublishManifest, AfterSeed, Goto
  <2> QED
    BY <2>1, <2>2, <2>3 DEF Progress, OnDirectory
<1> QED
  BY <1>4, <1>5, <1>6, <1>7, <1>8, <1>9, <1>10 DEF SeedStep

-----------------------------------------------------------------------------
(* Initial states.                                                         *)

LEMMA InitIInv == Init => IInv
<1> SUFFICES ASSUME Init PROVE IInv
  OBVIOUS
<1>1. TypeOK
  <2>1. /\ pc \in [Jobs -> Places] /\ \A j \in Jobs : pc[j] = "ensure" <=> holder = j
        /\ holder = None /\ wait.stage = "none"
    BY NonePlaces DEF Init, NoWait, Idle, Places
  <2>2. alone \in BOOLEAN /\ overlapped \in BOOLEAN
    BY DEF Init
  <2>5. faults \in 0..MaxFaults
    BY DEF Init
  <2>3. /\ cancelled \subseteq Jobs /\ failed \subseteq Seeders /\ encoded \subseteq Seeders
        /\ manifest \in Seeders \cup {None} /\ tmp \in Seeders \cup {None}
        /\ blocks \in [Seeders -> SUBSET {"chunks", "root"}]
        /\ ui \in {"down", "seeding", "up"} /\ peersFile = None /\ torn \in BOOLEAN
    BY DEF Init
  <2>4. /\ peer \in [Peers -> {"stopped", "waiting", "starting"} \cup Seeders]
        /\ key \in [Peers -> Nat]
    BY DEF Init
  <2> QED
    BY <2>1, <2>2, <2>3, <2>4, <2>5 DEF TypeOK, Places
<1>2. WaitOK /\ FaultsSeen
  BY DEF Init, WaitOK, NoWait, FaultsSeen
<1>3. PeersFileIsComplete
  BY DEF Init, PeersFileIsComplete
<1>4. Directory
  BY NonePlaces DEF Init, Directory, Seeding, Progress, OnDirectory
<1> QED
  BY <1>1, <1>2, <1>3, <1>4 DEF IInv

-----------------------------------------------------------------------------
(* The steps, each part of the invariant in turn.                          *)

\* A fault is counted.
LEMMA FaultOK ==
  ASSUME TypeOK, Fault \/ NoFault
  PROVE  faults' \in 0..MaxFaults /\ alone' \in BOOLEAN
<1>1. faults \in 0..MaxFaults /\ alone \in BOOLEAN
  BY DEF TypeOK
<1>2. CASE Fault
  <2>1. faults' \in 0..MaxFaults
    BY <1>1, <1>2 DEF Fault
  <2>2. alone' \in BOOLEAN
    BY <1>2 DEF Fault
  <2> QED
    BY <2>1, <2>2
<1>3. CASE NoFault
  BY <1>1, <1>3 DEF NoFault
<1> QED
  BY <1>2, <1>3

\* Seeding the directory, and seeds that go wrong.
DirectoryStep(j) == SeedStep(j) \/ KillSeed(j) \/ FailSeed(j)

LEMMA SeedTypes ==
  ASSUME IInv, NEW j \in Seeders, DirectoryStep(j)
  PROVE  TypeOK'
<1>t. /\ j \in Jobs /\ pc[j] \in OnDirectory /\ pc[j] # "ensure" /\ TypeOK
  BY NonePlaces DEF IInv, DirectoryStep, SeedStep, KillSeed, FailSeed, RemoveManifests, ClearBlocks,
     WriteChunks, WriteRoot, CreateManifest, EncodeManifest, PublishManifest, OnDirectory
<1>1. \E l \in Places \ {"ensure"} : Goto(j, l)
  BY DEF DirectoryStep, SeedStep, KillSeed, FailSeed, RemoveManifests, ClearBlocks, WriteChunks, WriteRoot,
     CreateManifest, EncodeManifest, PublishManifest, AfterSeed, Places, OnDirectory, Idle
<1>2. UNCHANGED <<cancelled, peerVars, fileVars, overlapped>>
  BY DEF DirectoryStep, SeedStep, KillSeed, FailSeed, RemoveManifests, ClearBlocks, WriteChunks, WriteRoot,
     CreateManifest, EncodeManifest, PublishManifest
<1>3. /\ pc' \in [Jobs -> Places] /\ \A i \in Jobs : pc'[i] = "ensure" <=> holder' = i
      /\ holder' = None <=> wait'.stage = "none"
  BY <1>t, <1>1, <1>2, MoveOK DEF fileVars
<1>4. ui' \in {"down", "seeding", "up"} /\ failed' \subseteq Seeders
  BY <1>t DEF TypeOK, DirectoryStep, SeedStep, KillSeed, FailSeed, RemoveManifests, ClearBlocks, WriteChunks,
     WriteRoot, CreateManifest, EncodeManifest, PublishManifest, AfterSeed
<1>5. /\ manifest' \in Seeders \cup {None} /\ tmp' \in Seeders \cup {None}
      /\ encoded' \subseteq Seeders /\ blocks' \in [Seeders -> SUBSET {"chunks", "root"}]
  <2>1. CASE SeedStep(j)
    BY <1>t, <2>1 DEF TypeOK, SeedStep, RemoveManifests, ClearBlocks, WriteChunks, WriteRoot,
       CreateManifest, EncodeManifest, PublishManifest, Remove, diskVars
  <2>2. CASE KillSeed(j) \/ FailSeed(j)
    BY <1>t, <2>2 DEF TypeOK, KillSeed, FailSeed, diskVars
  <2> QED
    BY <2>1, <2>2 DEF DirectoryStep
<1>6. faults' \in 0..MaxFaults /\ alone' \in BOOLEAN
  <2>1. Fault \/ NoFault
    BY DEF DirectoryStep, SeedStep, KillSeed, FailSeed, RemoveManifests, ClearBlocks, WriteChunks, WriteRoot,
       CreateManifest, EncodeManifest, PublishManifest, NoFault
  <2> QED
    BY <1>t, <2>1, FaultOK
<1> QED
  BY <1>t, <1>2, <1>3, <1>4, <1>5, <1>6 DEF TypeOK, Places, peerVars, fileVars

\* Requests, runs and their commands to docker.
LEMMA PeerEffects ==
  ASSUME TypeOK, NEW j \in Jobs, NEW STATE effect, Command(j, effect),
         effect \in [Peers -> {"stopped", "waiting", "starting"} \cup Seeders]
  PROVE  /\ peer' \in [Peers -> {"stopped", "waiting", "starting"} \cup Seeders]
         /\ faults' \in 0..MaxFaults /\ alone' \in BOOLEAN
<1>1. peer' = effect \/ peer' = peer
  BY DEF Command
<1>2. Fault \/ NoFault
  BY DEF Command
<1>3. faults' \in 0..MaxFaults /\ alone' \in BOOLEAN
  BY <1>2, FaultOK
<1> QED
  BY <1>1, <1>3 DEF TypeOK

LEMMA RequestTypes ==
  ASSUME IInv, NEW j \in Jobs,
         HandleSeed(j) \/ StopPeers(j) \/ StartPeers(j) \/ PrepareRun(j) \/ LoadPeerLabels(j)
  PROVE  TypeOK'
<1>t. TypeOK /\ pc[j] # "ensure"
  BY DEF IInv, HandleSeed, StopPeers, StartPeers, PrepareRun, LoadPeerLabels, Begins
<1>1. \E l \in Places \ {"ensure"} : Goto(j, l)
  BY DEF HandleSeed, StopPeers, StartPeers, PrepareRun, LoadPeerLabels, BeginSeed, Places, OnDirectory, Idle
<1>2. UNCHANGED <<ui, cancelled, failed, diskVars, key, fileVars>>
  BY DEF HandleSeed, StopPeers, StartPeers, PrepareRun, LoadPeerLabels, peerVars
<1>3. /\ pc' \in [Jobs -> Places] /\ \A i \in Jobs : pc'[i] = "ensure" <=> holder' = i
      /\ holder' = None <=> wait'.stage = "none"
  BY <1>t, <1>1, <1>2, MoveOK DEF fileVars
<1>4. /\ peer' \in [Peers -> {"stopped", "waiting", "starting"} \cup Seeders]
      /\ faults' \in 0..MaxFaults /\ alone' \in BOOLEAN
  <2>1. CASE HandleSeed(j) \/ PrepareRun(j) \/ LoadPeerLabels(j)
    BY <2>1, <1>t DEF HandleSeed, PrepareRun, LoadPeerLabels, Begins, TypeOK, peerVars
  <2>2. CASE StopPeers(j) \/ StartPeers(j)
    <3>1. /\ Stopped \in [Peers -> {"stopped", "waiting", "starting"} \cup Seeders]
          /\ Started \in [Peers -> {"stopped", "waiting", "starting"} \cup Seeders]
      BY <1>t DEF TypeOK, Stopped, Started
    <3> QED
      BY <2>2, <3>1, <1>t, PeerEffects DEF StopPeers, StartPeers
  <2> QED
    BY <2>1, <2>2
<1>5. overlapped' \in BOOLEAN
  BY <1>t DEF TypeOK, HandleSeed, StopPeers, StartPeers, PrepareRun, LoadPeerLabels, BeginSeed
<1> QED
  BY <1>t, <1>2, <1>3, <1>4, <1>5 DEF TypeOK, Places, diskVars, fileVars

\* The holder of peersMu leaves the wait.
LEMMA LeaveOK ==
  ASSUME TypeOK, holder \in Jobs, NEW ready \in BOOLEAN, Leave(ready)
  PROVE  /\ pc' \in [Jobs -> Places]
         /\ holder' \in Jobs \cup {None}
         /\ \A i \in Jobs : pc'[i] = "ensure" <=> holder' = i
         /\ holder' = None <=> wait'.stage = "none"
         /\ WaitOK'
         /\ \A j \in Jobs : pc'[j] = pc[j] \/ pc'[j] \notin OnDirectory
<1> DEFINE l == IF ready THEN "done"
                ELSE IF holder \in Runs THEN "reread"
                ELSE IF holder \in Updates THEN "failed" ELSE "unready"
<1>1. l \in Places /\ l # "ensure" /\ l \notin OnDirectory
  BY DEF Places, Idle, OnDirectory
<1>2. pc' = [pc EXCEPT ![holder] = l] /\ holder' = None /\ wait' = NoWait
  BY DEF Leave, Goto
<1> HIDE DEF l
<1>3. pc \in [Jobs -> Places] /\ \A i \in Jobs : pc[i] = "ensure" <=> holder = i
  BY DEF TypeOK, Places
<1>4. wait'.stage = "none" /\ WaitOK'
  BY <1>2 DEF NoWait, WaitOK
<1> QED
  BY <1>1, <1>2, <1>3, <1>4, NonePlaces

\* The holder goes on.
LEMMA StayOK ==
  ASSUME TypeOK, UNCHANGED <<pc, holder>>, wait.stage # "none", wait'.stage # "none"
  PROVE  /\ pc' \in [Jobs -> Places]
         /\ holder' \in Jobs \cup {None}
         /\ \A i \in Jobs : pc'[i] = "ensure" <=> holder' = i
         /\ holder' = None <=> wait'.stage = "none"
BY DEF TypeOK, Places

\* Every step of the wait has a holder behind it.
LEMMA WaitHeld ==
  ASSUME IInv, WaitStep
  PROVE  holder \in Jobs /\ wait.stage # "none" /\ TypeOK /\ WaitOK
BY DEF IInv, TypeOK, WaitStep, Probe, Ready, CheckAgain, Sleep, GiveUp, RestartMissing, Asked,
   ReadLogs, OpenFile, WriteFile

\* A step of the wait lets go of peersMu or goes on with its record in order.
LEMMA WaitGoesOn ==
  ASSUME IInv, WaitStep
  PROVE  \/ \E ready \in BOOLEAN : Leave(ready)
         \/ UNCHANGED <<pc, holder>> /\ wait'.stage # "none" /\ WaitOK'
<1>h. wait.stage # "none" /\ TypeOK /\ WaitOK
  BY WaitHeld
<1>1. CASE Probe
  <2> DEFINE p == Services[wait.next]
  <2>1. p \in Peers /\ wait.stage \in {"probe", "recover"}
    BY <1>1 DEF Probe, Peers
  <2>2. \/ wait' = [wait EXCEPT !.next = @ + 1, !.found = Answer(@, p)]
        \/ wait' = [wait EXCEPT !.next = @ + 1]
    BY <1>1, <1>h DEF Probe, WaitOK
  <2> HIDE DEF p
  <2>3. DOMAIN Answer(wait.found, p) \subseteq Peers
    BY <1>h, <2>1 DEF WaitOK, Answer
  <2>4. WaitOK' /\ wait'.stage = wait.stage
    BY <1>h, <2>1, <2>2, <2>3 DEF WaitOK
  <2> QED
    BY <1>1, <1>h, <2>4 DEF Probe
<1>2. CASE Ready
  <2>1. DOMAIN wait.found = Peers
    BY <1>2, <1>h DEF Ready, Missing, WaitOK
  <2> QED
    BY <1>2, <1>h, <2>1 DEF Ready, WaitOK
<1>3. CASE CheckAgain
  <2>1. wait'.stage \in {"sleep", "pause", "restart", "give up"} /\ wait'.found = wait.found
        /\ DOMAIN wait' = DOMAIN wait
    BY <1>3, <1>h DEF CheckAgain, WaitOK
  <2> QED
    BY <1>3, <1>h, <2>1 DEF CheckAgain, WaitOK
<1>4. CASE Sleep
  BY <1>4 DEF Sleep, WaitOK
<1>5. CASE GiveUp
  BY <1>5 DEF GiveUp
<1>6. CASE RestartMissing
  <2>1. CASE wait' = AfterRestart /\ UNCHANGED <<pc, holder>>
    BY <2>1, <1>h DEF AfterRestart, WaitOK
  <2>2. CASE Leave(FALSE)
    BY <2>2
  <2> QED
    BY <1>6, <2>1, <2>2 DEF RestartMissing
<1>7. CASE ReadLogs
  <2>1. DOMAIN key = Peers
    BY <1>h DEF TypeOK
  <2> QED
    BY <1>7, <1>h, <2>1 DEF ReadLogs, WaitOK
<1>8. CASE OpenFile
  BY <1>8, <1>h DEF OpenFile, WaitOK
<1>9. CASE WriteFile
  BY <1>9 DEF WriteFile
<1> QED
  BY <1>1, <1>2, <1>3, <1>4, <1>5, <1>6, <1>7, <1>8, <1>9 DEF WaitStep

\* What a step of the wait leaves typed, places, locks and answers.
LEMMA WaitPlaces ==
  ASSUME IInv, WaitStep
  PROVE  /\ pc' \in [Jobs -> Places]
         /\ holder' \in Jobs \cup {None}
         /\ \A i \in Jobs : pc'[i] = "ensure" <=> holder' = i
         /\ holder' = None <=> wait'.stage = "none"
         /\ WaitOK'
         /\ \A j \in Jobs : pc'[j] = pc[j] \/ pc'[j] \notin OnDirectory
<1>h. holder \in Jobs /\ wait.stage # "none" /\ TypeOK
  BY WaitHeld
<1>1. CASE \E ready \in BOOLEAN : Leave(ready)
  BY <1>1, <1>h, LeaveOK
<1>2. CASE UNCHANGED <<pc, holder>> /\ wait'.stage # "none" /\ WaitOK'
  BY <1>2, <1>h, StayOK
<1> QED
  BY <1>1, <1>2, WaitGoesOn

LEMMA WaitTypes ==
  ASSUME IInv, WaitStep
  PROVE  TypeOK'
<1>h. holder \in Jobs /\ TypeOK
  BY WaitHeld
<1>1. UNCHANGED <<ui, cancelled, failed, diskVars, key, overlapped>>
  BY DEF WaitStep, Probe, Ready, CheckAgain, Sleep, GiveUp, RestartMissing, ReadLogs, OpenFile, WriteFile,
     peerVars
<1>2. faults' \in 0..MaxFaults /\ alone' \in BOOLEAN
  <2>1. Fault \/ NoFault
    BY DEF WaitStep, Probe, Ready, CheckAgain, Sleep, GiveUp, RestartMissing, ReadLogs, OpenFile, WriteFile,
       WriteFails, NoFault
  <2> QED
    BY <1>h, <2>1, FaultOK
<1>3. peer' \in [Peers -> {"stopped", "waiting", "starting"} \cup Seeders]
  <2>1. peer' = peer \/ peer' = Restarted(Missing(wait.found))
    BY DEF WaitStep, Probe, Ready, CheckAgain, Sleep, GiveUp, RestartMissing, ReadLogs, OpenFile, WriteFile,
       peerVars
  <2> QED
    BY <1>h, <2>1 DEF TypeOK, Restarted
<1>4. (peersFile' = None \/ peersFile'.labels \in LabelSets \cup {"none"}) /\ torn' \in BOOLEAN
  <2>1. \/ peersFile' \in {peersFile, Truncated}
        \/ peersFile' = applyGraphsyncPeerLabels(wait.found)
    BY DEF WaitStep, Probe, Ready, CheckAgain, Sleep, GiveUp, RestartMissing, ReadLogs, OpenFile, WriteFile
  <2>2. applyGraphsyncPeerLabels(wait.found).labels \in LabelSets
    BY DEF LabelSets, applyGraphsyncPeerLabels
  <2>3. torn' \in BOOLEAN
    BY <1>h DEF TypeOK, WaitStep, Probe, Ready, CheckAgain, Sleep, GiveUp, RestartMissing, ReadLogs, OpenFile,
       WriteFile
  <2> QED
    BY <1>h, <2>1, <2>2, <2>3 DEF TypeOK, Truncated
<1> QED
  BY <1>h, <1>1, <1>2, <1>3, <1>4, WaitPlaces DEF TypeOK, Places, diskVars

\* The server, the containers and the lock.
LEMMA AcquireOK ==
  ASSUME IInv, NEW j \in Jobs, Acquire(j)
  PROVE  TypeOK' /\ WaitOK'
<1>1. /\ pc \in [Jobs -> Places] /\ holder = None
      /\ \A i \in Jobs : pc[i] = "ensure" <=> holder = i
  BY DEF IInv, TypeOK, Acquire, Places
<1>2. holder' = j /\ pc' = [pc EXCEPT ![j] = "ensure"] /\ wait'.stage \in {"probe", "logs"}
  BY DEF Acquire, Goto
<1>3. WaitOK'
  BY DEF Acquire, WaitOK
<1>4. /\ pc' \in [Jobs -> Places] /\ holder' \in Jobs
      /\ \A i \in Jobs : pc'[i] = "ensure" <=> holder' = i
      /\ holder' = None <=> wait'.stage = "none"
  BY <1>1, <1>2, NonePlaces DEF Places
<1> QED
  BY <1>3, <1>4 DEF IInv, TypeOK, Acquire, Places, diskVars, peerVars

LEMMA ServerTypes ==
  ASSUME IInv, Boot \/ Crash \/ (\E j \in Jobs : Cancel(j))
  PROVE  /\ TypeOK' /\ WaitOK'
         /\ \A j \in Seeders : Crash => (pc'[j] = pc[j] \/ pc'[j] \notin OnDirectory)
<1>t. TypeOK /\ WaitOK /\ pc \in [Jobs -> Places]
  BY DEF IInv, TypeOK, Places
<1>1. CASE Boot
  <2>0. faults' \in 0..MaxFaults /\ alone' \in BOOLEAN /\ ui' \in {"down", "seeding", "up"}
    BY <1>t, <1>1, FaultOK DEF Boot
  <2>1. CASE UNCHANGED <<pc, overlapped>>
    BY <1>t, <1>1, <2>0, <2>1 DEF Boot, TypeOK, WaitOK, diskVars, peerVars, fileVars
  <2>2. ASSUME NEW j \in Autos, pc[j] = "idle", BeginSeed(j)
        PROVE  TypeOK' /\ WaitOK'
    <3>1. j \in Jobs /\ "remove" \in Places /\ Goto(j, "remove") /\ overlapped' \in BOOLEAN
      BY <1>t, <2>2 DEF Jobs, Seeders, Places, OnDirectory, BeginSeed, TypeOK
    <3>2. /\ pc' \in [Jobs -> Places]
          /\ \A i \in Jobs : pc'[i] = "ensure" <=> holder' = i
          /\ holder' = None <=> wait'.stage = "none"
      BY <1>t, <1>1, <2>2, <3>1, MoveOK DEF Boot, fileVars
    <3> QED
      BY <1>t, <1>1, <2>0, <3>1, <3>2 DEF Boot, TypeOK, WaitOK, Places, diskVars, peerVars, fileVars
  <2> QED
    BY <1>1, <2>1, <2>2 DEF Boot, Crash
<1>2. CASE Crash
  <2>1. \A j \in Jobs : pc'[j] = IF Active(j) THEN "dead" ELSE pc[j]
    BY <1>2 DEF Crash
  <2>2. /\ pc' \in [Jobs -> Places] /\ \A j \in Jobs : pc'[j] # "ensure"
        /\ \A j \in Jobs : pc'[j] = pc[j] \/ pc'[j] \notin OnDirectory
    BY <1>t, <1>2, <2>1 DEF Crash, Places, Active, Idle, OnDirectory
  <2>3. holder' = None /\ wait'.stage = "none" /\ WaitOK'
    BY <1>2 DEF Crash, NoWait, WaitOK
  <2>4. faults' \in 0..MaxFaults /\ alone' \in BOOLEAN
    BY <1>t, <1>2, FaultOK DEF Crash
  <2>5. TypeOK'
    BY <1>t, <1>2, <2>2, <2>3, <2>4, NonePlaces DEF Crash, TypeOK, Places, diskVars, peerVars
  <2> QED
    BY <2>2, <2>3, <2>5, NonePlaces
<1>3. CASE \E j \in Jobs : Cancel(j)
  <2>1. PICK j \in Jobs : Cancel(j)
    BY <1>3
  <2>2. faults' \in 0..MaxFaults /\ alone' \in BOOLEAN
    BY <1>t, <2>1, FaultOK DEF Cancel
  <2>3. UNCHANGED pc
    BY <2>1 DEF Cancel
  <2> QED
    BY <1>t, <2>1, <2>2, <2>3 DEF Cancel, TypeOK, WaitOK, diskVars, peerVars, fileVars
<1> QED
  BY <1>1, <1>2, <1>3

PeerStep(p) == SeeManifest(p) \/ StartPeer(p) \/ PeerDies(p) \/ Recreate(p)

LEMMA PeerTypes ==
  ASSUME IInv, NEW p \in Peers, PeerStep(p)
  PROVE  TypeOK' /\ WaitOK'
<1>t. TypeOK /\ WaitOK
  BY DEF IInv
<1>1. UNCHANGED <<ui, pc, cancelled, failed, diskVars, fileVars, overlapped>>
  BY DEF PeerStep, SeeManifest, StartPeer, PeerDies, Recreate
<1>2. faults' \in 0..MaxFaults /\ alone' \in BOOLEAN
  <2>1. Fault \/ NoFault
    BY DEF PeerStep, SeeManifest, StartPeer, PeerDies, Recreate, NoFault
  <2> QED
    BY <1>t, <2>1, FaultOK
<1>3. peer' \in [Peers -> {"stopped", "waiting", "starting"} \cup Seeders]
  BY <1>t DEF TypeOK, PeerStep, SeeManifest, StartPeer, PeerDies, Recreate
<1>4. key' \in [Peers -> Nat]
  BY <1>t DEF TypeOK, PeerStep, SeeManifest, StartPeer, PeerDies, Recreate
<1> QED
  BY <1>t, <1>1, <1>2, <1>3, <1>4 DEF TypeOK, WaitOK, diskVars, fileVars

-----------------------------------------------------------------------------
(* The invariant.                                                          *)

\* Next, by the parties that step.
LEMMA NextSplit ==
  ASSUME Next
  PROVE  \/ \E j \in Seeders : DirectoryStep(j)
         \/ \E j \in Jobs : HandleSeed(j) \/ (StopPeers(j) /\ j \in Seeders) \/ StartPeers(j)
                               \/ PrepareRun(j) \/ LoadPeerLabels(j)
         \/ WaitStep
         \/ \E j \in Jobs : Acquire(j)
         \/ Boot \/ Crash \/ \E j \in Jobs : Cancel(j)
         \/ \E p \in Peers : PeerStep(p)
BY DEF Next, Jobs, Seeders, PeerStep, DirectoryStep, HandleUpdatePeers

\* Only a step of the wait, an acquisition and a crash touch the wait or
\* peers.json.
LEMMA FileLeftAlone ==
  ASSUME Next, ~WaitStep, ~Crash, \A j \in Jobs : ~Acquire(j)
  PROVE  UNCHANGED fileVars
<1>1. CASE \E j \in Seeders : DirectoryStep(j)
  BY <1>1 DEF DirectoryStep, SeedStep, KillSeed, FailSeed, RemoveManifests, ClearBlocks, WriteChunks,
     WriteRoot, CreateManifest, EncodeManifest, PublishManifest
<1>2. CASE \E j \in Jobs : HandleSeed(j) \/ StopPeers(j) \/ StartPeers(j) \/ PrepareRun(j) \/ LoadPeerLabels(j)
  BY <1>2 DEF HandleSeed, StopPeers, StartPeers, PrepareRun, LoadPeerLabels
<1>3. CASE Boot \/ \E j \in Jobs : Cancel(j)
  BY <1>3 DEF Boot, Cancel
<1>4. CASE \E p \in Peers : PeerStep(p)
  BY <1>4 DEF PeerStep, SeeManifest, StartPeer, PeerDies, Recreate
<1> QED
  BY <1>1, <1>2, <1>3, <1>4, NextSplit

LEMMA TypesPreserved ==
  ASSUME IInv, Next
  PROVE  TypeOK' /\ WaitOK'
<1>1. CASE \E j \in Seeders : DirectoryStep(j)
  <2>1. UNCHANGED fileVars
    BY <1>1 DEF DirectoryStep, SeedStep, KillSeed, FailSeed, RemoveManifests, ClearBlocks, WriteChunks,
       WriteRoot, CreateManifest, EncodeManifest, PublishManifest
  <2> QED
    BY <1>1, <2>1, SeedTypes DEF IInv, WaitOK, fileVars
<1>2. CASE \E j \in Jobs : HandleSeed(j) \/ StopPeers(j) \/ StartPeers(j) \/ PrepareRun(j) \/ LoadPeerLabels(j)
  <2>1. UNCHANGED fileVars
    BY <1>2 DEF HandleSeed, StopPeers, StartPeers, PrepareRun, LoadPeerLabels
  <2> QED
    BY <1>2, <2>1, RequestTypes DEF IInv, WaitOK, fileVars
<1>3. CASE WaitStep
  BY <1>3, WaitTypes, WaitPlaces
<1>4. CASE \E j \in Jobs : Acquire(j)
  BY <1>4, AcquireOK
<1>5. CASE Boot \/ Crash \/ \E j \in Jobs : Cancel(j)
  BY <1>5, ServerTypes
<1>6. CASE \E p \in Peers : PeerStep(p)
  BY <1>6, PeerTypes
<1> QED
  BY <1>1, <1>2, <1>3, <1>4, <1>5, <1>6, NextSplit

\* Faults are only ever added, and a step of the wait that leaves the file
\* torn has seen one.
LEMMA FaultsGrow ==
  ASSUME TypeOK, Next
  PROVE  faults' \in Nat /\ faults' >= faults
<1>1. faults \in Nat
  BY DEF TypeOK
<1>2. Fault \/ UNCHANGED faults
  <2>1. CASE \E j \in Seeders : DirectoryStep(j)
    BY <2>1 DEF DirectoryStep, SeedStep, KillSeed, FailSeed, RemoveManifests, ClearBlocks, WriteChunks,
       WriteRoot, CreateManifest, EncodeManifest, PublishManifest, NoFault
  <2>2. CASE \E j \in Jobs : HandleSeed(j) \/ StopPeers(j) \/ StartPeers(j) \/ PrepareRun(j) \/ LoadPeerLabels(j)
    BY <2>2 DEF HandleSeed, StopPeers, StartPeers, PrepareRun, LoadPeerLabels, Command, NoFault
  <2>3. CASE WaitStep
    BY <2>3 DEF WaitStep, Probe, Ready, CheckAgain, Sleep, GiveUp, RestartMissing, ReadLogs, OpenFile,
       WriteFile, WriteFails, NoFault
  <2>4. CASE Boot \/ Crash \/ \E j \in Jobs : Cancel(j) \/ Acquire(j)
    BY <2>4 DEF Boot, Crash, Cancel, Acquire, NoFault
  <2>5. CASE \E p \in Peers : PeerStep(p)
    BY <2>5 DEF PeerStep, SeeManifest, StartPeer, PeerDies, Recreate
  <2> QED
    BY <2>1, <2>2, <2>3, <2>4, <2>5, NextSplit
<1> QED
  BY <1>1, <1>2 DEF Fault

\* A write that failed has seen a fault: its own, or the one that cancelled
\* the request of the script.
LEMMA WriteFailsByFault ==
  ASSUME TypeOK, FaultsSeen, WriteFails
  PROVE  faults' > 0
<1>1. faults \in Nat
  BY DEF TypeOK
<1>2. CASE Fault
  BY <1>1, <1>2 DEF Fault
<1>3. CASE holder \in Updates \cap cancelled /\ NoFault
  BY <1>1, <1>3 DEF FaultsSeen, NoFault
<1> QED
  BY <1>2, <1>3 DEF WriteFails

LEMMA FaultsSeenPreserved ==
  ASSUME IInv, Next
  PROVE  FaultsSeen'
<1>i. TypeOK /\ FaultsSeen /\ faults \in Nat
  BY DEF IInv, TypeOK
<1>g. faults' \in Nat /\ faults' >= faults
  BY <1>i, FaultsGrow
<1>1. cancelled' # {} => faults' > 0
  <2>1. CASE \E j \in Jobs : Cancel(j)
    BY <2>1, <1>i DEF Cancel, Fault
  <2>2. CASE \A j \in Jobs : ~Cancel(j)
    <3>1. cancelled' = cancelled
      <4>1. CASE \E j \in Seeders : DirectoryStep(j)
        BY <4>1 DEF DirectoryStep, SeedStep, KillSeed, FailSeed, RemoveManifests, ClearBlocks, WriteChunks,
           WriteRoot, CreateManifest, EncodeManifest, PublishManifest
      <4>2. CASE \E j \in Jobs : HandleSeed(j) \/ StopPeers(j) \/ StartPeers(j) \/ PrepareRun(j)
                                  \/ LoadPeerLabels(j) \/ Acquire(j)
        BY <4>2 DEF HandleSeed, StopPeers, StartPeers, PrepareRun, LoadPeerLabels, Acquire
      <4>3. CASE WaitStep
        BY <4>3 DEF WaitStep, Probe, Ready, CheckAgain, Sleep, GiveUp, RestartMissing, ReadLogs, OpenFile,
           WriteFile
      <4>4. CASE Boot \/ Crash \/ \E p \in Peers : PeerStep(p)
        BY <4>4 DEF Boot, Crash, PeerStep, SeeManifest, StartPeer, PeerDies, Recreate
      <4> QED
        BY <2>2, <4>1, <4>2, <4>3, <4>4, NextSplit
    <3> QED
      BY <1>i, <1>g, <3>1 DEF FaultsSeen
  <2> QED
    BY <2>1, <2>2
<1>2. torn' => faults' > 0
  <2>1. CASE Crash
    BY <2>1, <1>i DEF Crash, Fault
  <2>2. CASE WriteFile
    BY <2>2, <1>i, WriteFailsByFault DEF WriteFile
  <2>3. CASE ~Crash /\ ~WriteFile
    <3>1. torn' = torn
      BY <2>3, FileLeftAlone DEF fileVars, WaitStep, Probe, Ready, CheckAgain, Sleep, GiveUp, RestartMissing,
         ReadLogs, OpenFile, Acquire
    <3> QED
      BY <1>i, <1>g, <3>1 DEF FaultsSeen
  <2> QED
    BY <2>1, <2>2, <2>3
<1> QED
  BY <1>1, <1>2 DEF FaultsSeen

\* Whoever writes peers.json, its content has all services once it is whole.
LEMMA FilePreserved ==
  ASSUME IInv, Next
  PROVE  PeersFileIsComplete'
<1>i. TypeOK /\ WaitOK /\ FaultsSeen /\ PeersFileIsComplete /\ faults \in Nat
  BY DEF IInv, TypeOK
<1>g. faults' \in Nat /\ faults' >= faults
  BY <1>i, FaultsGrow
<1>f. FaultsSeen'
  BY FaultsSeenPreserved
<1>1. CASE OpenFile
  <2>1. CASE wait'.stage = "write" /\ peersFile' = Truncated
    BY <2>1 DEF PeersFileIsComplete, Names, Truncated
  <2>2. CASE peersFile' = peersFile /\ torn' = torn
    BY <1>1, <1>i, <1>g, <2>2 DEF OpenFile, PeersFileIsComplete, Names
  <2> QED
    BY <1>1, <1>i, <2>1, <2>2 DEF OpenFile, WaitOK
<1>2. CASE WriteFile
  <2>1. CASE peersFile' = applyGraphsyncPeerLabels(wait.found)
    <3>1. DOMAIN wait.found = Peers /\ Peers # {}
      BY <1>2, <1>i DEF WriteFile, WaitOK, Peers
    <3>2. peersFile'.ids = wait.found
      BY <2>1 DEF applyGraphsyncPeerLabels
    <3> QED
      BY <3>1, <3>2 DEF PeersFileIsComplete, Names
  <2>2. CASE torn' /\ peersFile' = peersFile
    <3>1. faults' > 0
      BY <2>2, <1>f DEF FaultsSeen
    <3> QED
      BY <1>i, <2>2, <3>1 DEF PeersFileIsComplete, Names
  <2> QED
    BY <1>2, <2>1, <2>2 DEF WriteFile
<1>3. CASE Crash
  BY <1>3, <1>i, <1>f, <1>g DEF Crash, PeersFileIsComplete, Names, FaultsSeen
<1>4. CASE ~OpenFile /\ ~WriteFile /\ ~Crash
  <2>1. peersFile' = peersFile /\ torn' = torn
    BY <1>4, FileLeftAlone DEF fileVars, WaitStep, Probe, Ready, CheckAgain, Sleep, GiveUp, RestartMissing,
       ReadLogs, Acquire
  <2>2. wait.stage = "write" => wait'.stage = "write"
    <3>1. CASE WaitStep
      BY <1>4, <3>1 DEF WaitStep, Probe, Ready, CheckAgain, Sleep, GiveUp, RestartMissing, ReadLogs, Asked
    <3>2. CASE \E j \in Jobs : Acquire(j)
      BY <3>2, <1>i DEF Acquire, TypeOK
    <3> QED
      BY <1>4, <3>1, <3>2, FileLeftAlone DEF fileVars
  <2> QED
    BY <1>i, <1>g, <2>1, <2>2 DEF PeersFileIsComplete, Names
<1> QED
  BY <1>1, <1>2, <1>3, <1>4

\* A seed that fails by itself may have removed the manifest, and leaves the
\* directory.
LEMMA FailKeepsDirectory ==
  ASSUME TypeOK, Directory, NEW j \in Seeders, FailSeed(j)
  PROVE  Directory'
<1> SUFFICES ASSUME ~overlapped PROVE Directory'
  BY DEF FailSeed, Directory
<1>t. pc \in [Jobs -> Places] /\ j \in Jobs
  BY NonePlaces DEF TypeOK, Places
<1>1. \A i \in Seeders \ {j} : pc[i] \notin OnDirectory
  BY DEF Directory, Seeding, FailSeed
<1>2. pc'[j] \notin OnDirectory /\ \A i \in Seeders \ {j} : pc'[i] = pc[i]
  BY <1>t, NonePlaces DEF FailSeed, AfterSeed, Goto, OnDirectory
<1>3. \A i \in Seeders : pc'[i] \notin OnDirectory
  BY <1>1, <1>2
<1>4. \A i \in Seeders : Progress(i)'
  BY <1>3 DEF Progress, OnDirectory
<1>5. manifest' # None => manifest' \in encoded' /\ blocks'[manifest'] = {"chunks", "root"}
  BY DEF FailSeed, Directory
<1> QED
  BY <1>3, <1>4, <1>5 DEF Directory, Seeding

LEMMA DirectoryPreserved ==
  ASSUME IInv, Next
  PROVE  Directory'
<1>i. TypeOK /\ Directory /\ pc \in [Jobs -> Places]
  BY DEF IInv, TypeOK, Places
<1>1. ASSUME NEW j \in Seeders, SeedStep(j) PROVE Directory'
  BY <1>1, <1>i, SeedStepKeepsDirectory
<1>2. ASSUME NEW j \in Seeders, StopPeers(j) PROVE Directory'
  BY <1>2, <1>i, BeginKeepsDirectory DEF StopPeers
<1>3. CASE Boot
  <2>1. CASE UNCHANGED <<pc, overlapped>>
    BY <1>3, <1>i, <2>1, DirectoryStable DEF Boot
  <2>2. ASSUME NEW j \in Autos, BeginSeed(j) PROVE Directory'
    BY <1>3, <1>i, <2>2, BeginKeepsDirectory DEF Boot, Seeders
  <2> QED
    BY <1>3, <2>1, <2>2 DEF Boot
<1>4. ASSUME UNCHANGED <<diskVars, overlapped>>,
             \A j \in Seeders : pc'[j] = pc[j] \/ pc'[j] \notin OnDirectory
      PROVE  Directory'
  BY <1>4, <1>i, DirectoryStable
<1>5. ASSUME NEW j \in Jobs, NEW l \in Places, Goto(j, l), l \notin OnDirectory
      PROVE  \A i \in Seeders : pc'[i] = pc[i] \/ pc'[i] \notin OnDirectory
  BY <1>5, <1>i, NonePlaces DEF Goto
<1>6. ASSUME NEW j \in Seeders, KillSeed(j) PROVE Directory'
  <2>1. \E l \in Places : l \notin OnDirectory /\ Goto(j, l)
    BY <1>6 DEF KillSeed, AfterSeed, Places, OnDirectory, Idle
  <2> QED
    BY <1>4, <1>5, <1>6, <2>1, NonePlaces DEF KillSeed
<1>f. ASSUME NEW j \in Seeders, FailSeed(j) PROVE Directory'
  BY <1>f, <1>i, FailKeepsDirectory
<1>7. ASSUME NEW j \in Jobs,
             HandleSeed(j) \/ StartPeers(j) \/ PrepareRun(j) \/ LoadPeerLabels(j) \/ Acquire(j)
      PROVE  Directory'
  <2>1. \E l \in Places : l \notin OnDirectory /\ Goto(j, l)
    BY <1>7 DEF HandleSeed, StartPeers, PrepareRun, LoadPeerLabels, Acquire, Places, OnDirectory, Idle
  <2>2. UNCHANGED <<diskVars, overlapped>>
    BY <1>7 DEF HandleSeed, StartPeers, PrepareRun, LoadPeerLabels, Acquire
  <2> QED
    BY <1>4, <1>5, <2>1, <2>2
<1>8. CASE WaitStep
  <2>1. UNCHANGED <<diskVars, overlapped>>
    BY <1>8 DEF WaitStep, Probe, Ready, CheckAgain, Sleep, GiveUp, RestartMissing, ReadLogs, OpenFile, WriteFile
  <2> QED
    BY <1>4, <1>8, <2>1, WaitPlaces, NonePlaces
<1>9. CASE Crash
  BY <1>4, <1>9, ServerTypes DEF Crash
<1>10. CASE (\E j \in Jobs : Cancel(j)) \/ (\E p \in Peers : PeerStep(p))
  <2>1. UNCHANGED <<pc, diskVars, overlapped>>
    BY <1>10 DEF Cancel, PeerStep, SeeManifest, StartPeer, PeerDies, Recreate
  <2> QED
    BY <1>4, <2>1
<1> QED
  BY <1>1, <1>2, <1>3, <1>6, <1>f, <1>7, <1>8, <1>9, <1>10, NextSplit DEF DirectoryStep

LEMMA Invariance == Spec => []IInv
<1>1. IInv /\ [Next]_vars => IInv'
  <2> SUFFICES ASSUME IInv, [Next]_vars PROVE IInv'
    OBVIOUS
  <2>1. CASE Next
    BY <2>1, TypesPreserved, FaultsSeenPreserved, FilePreserved, DirectoryPreserved DEF IInv
  <2>2. CASE UNCHANGED vars
    <3>1. TypeOK' /\ WaitOK' /\ FaultsSeen' /\ PeersFileIsComplete'
      BY <2>2 DEF IInv, vars, diskVars, peerVars, fileVars, TypeOK, WaitOK, FaultsSeen, PeersFileIsComplete,
         Names
    <3>2. Directory'
      BY <2>2, DirectoryStable DEF IInv, vars
    <3> QED
      BY <3>1, <3>2 DEF IInv
  <2> QED
    BY <2>1, <2>2
<1> QED
  BY <1>1, InitIInv, PTL DEF Spec

\* Every variable keeps its type, and peersMu has the holder its waiter says.
THEOREM Types == Spec => []TypeOK
BY Invariance, PTL DEF IInv

\* Without two seeds at once, a manifest in place has its content and all its
\* blocks, through every kill, cancellation and restart: the seed removes the
\* manifest before it clears the blocks and publishes it last.
THEOREM ManifestIsWhole == Spec => []PublishedIsWhole
<1>1. IInv => PublishedIsWhole
  BY DEF IInv, Directory, PublishedIsWhole
<1> QED
  BY <1>1, Invariance, PTL

\* peers.json, written by runs, seeds and the script under peersMu, names all
\* services whenever it names any.  It names none only between the truncation
\* and the content of a write, or after a fault that fell there: nobody leaves
\* it so without one.
THEOREM FileKeepsPeers == Spec => []PeersFileIsComplete
BY Invariance, PTL DEF IInv
=============================================================================
