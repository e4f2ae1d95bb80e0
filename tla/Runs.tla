-------------------------------- MODULE Runs --------------------------------
(***************************************************************************)
(* The runs of the benchmark server (src/cmd/benchmark-ui): every run has  *)
(* a goroutine that shapes the network of the peer containers, starts the  *)
(* client command, waits for it and shapes the network back.  Runs share   *)
(* the status map, the cancel maps and the containers.  An action is one   *)
(* region under the server's mutex or one docker command.  RunQueue has    *)
(* the specification and what is checked of both.                          *)
(***************************************************************************)
EXTENDS Naturals, FiniteSets

CONSTANTS
  MaxRuns,      \* bound: how many runs are ever started
  ByHand,       \* bound: how many of them, the first ones, may be started by hand
  NPeers,       \* peer containers, shaped in this order
  Networks,     \* network conditions a run may ask for
  Default,      \* defaultPeerNetwork
  DockerFails   \* whether docker commands may fail for reasons of their own

ASSUME BoundAssumption == MaxRuns \in Nat /\ ByHand \in 0..MaxRuns /\ NPeers \in Nat \ {0}
ASSUME NetworkAssumption == Default \in Networks
ASSUME DockerAssumption == DockerFails \in BOOLEAN

RunIds == 1..MaxRuns
Peers == 1..NPeers
None == "none"

VARIABLES
  started,    \* runs registered so far (the ids are handed out in order)
  state,      \* runStatus.State as the status endpoint shows it
  pc,         \* where the run's goroutine is
  net,        \* the conditions it was asked to run under
  applied,    \* the reshape of this run has not reported an error
  at,         \* the container its reshape is at
  hasCancel,  \* keys of runCancels
  cancelReq,  \* runs whose cancelRequest is set
  calls,      \* cancel functions taken under the mutex and not yet called
  stopped,    \* runs whose context is cancelled
  tc          \* the queueing discipline of each container, None when deleted

runVars == <<started, state, pc, net, applied, at, hasCancel, cancelReq, calls, stopped, tc>>

Goto(r, l) == pc' = [pc EXCEPT ![r] = l]
Show(r, s) == state' = [state EXCEPT ![r] = s]

\* docker commands of a reshape run under the run's context, those of the
\* restore under one of their own that may time out
CanFail(r) == DockerFails \/ (r \in stopped /\ pc[r] \in {"apply", "del", "add"})
MustFail(r) == r \in stopped /\ pc[r] \in {"apply", "del", "add"}

-----------------------------------------------------------------------------
(* Requests.                                                               *)

\* the locked region of startRun; what prepareRunRequest does before it
\* (normalising, refreshing peers.json) changes nothing here
StartRun(n) ==
  /\ started < MaxRuns
  /\ started' = started + 1
  /\ state' = [state EXCEPT ![started + 1] = "running"]
  /\ pc' = [pc EXCEPT ![started + 1] = "begin"]
  /\ net' = [net EXCEPT ![started + 1] = n]
  /\ UNCHANGED <<applied, at, hasCancel, cancelReq, calls, stopped, tc>>

\* a run is cancelled only once its goroutine has stored its CancelFunc; the
\* function is called after the unlock
HandleCancel(r) ==
  /\ r \in hasCancel
  /\ cancelReq' = cancelReq \cup {r}
  /\ calls' = calls \cup ({r} \ stopped)
  /\ UNCHANGED <<started, state, pc, net, applied, at, hasCancel, stopped, tc>>

CallCancel(r) ==
  /\ r \in calls
  /\ calls' = calls \ {r}
  /\ stopped' = stopped \cup {r}
  /\ UNCHANGED <<started, state, pc, net, applied, at, hasCancel, cancelReq, tc>>

-----------------------------------------------------------------------------
(* execute.                                                                *)

\* runCancels and cancelRequest of the run; an earlier request is forgotten
Begin(r) ==
  /\ pc[r] = "begin"
  /\ hasCancel' = hasCancel \cup {r}
  /\ cancelReq' = cancelReq \ {r}
  /\ Goto(r, "clear")
  /\ UNCHANGED <<started, state, net, applied, at, calls, stopped, tc>>

\* the early returns of execute: no restore of the network
GiveUp(r) ==
  /\ Show(r, "error")
  /\ Goto(r, "cleanup")

ClearStore(r) ==
  /\ pc[r] = "clear"
  /\ \/ GiveUp(r)
     \/ Goto(r, "apply") /\ UNCHANGED state
  /\ UNCHANGED <<started, net, applied, at, hasCancel, cancelReq, calls, stopped, tc>>

\* reshapeNetwork: find the containers ...
Discover(r) ==
  /\ pc[r] \in {"apply", "restore"}
  /\ LET apply == pc[r] = "apply" IN
     \/ /\ ~MustFail(r)
        /\ Goto(r, IF apply THEN "del" ELSE "rdel")
        /\ at' = [at EXCEPT ![r] = 1]
        /\ applied' = [applied EXCEPT ![r] = apply \/ @]
     \/ /\ CanFail(r)
        /\ Goto(r, IF apply THEN "start" ELSE "cleanup")
        /\ UNCHANGED <<at, applied>>
  /\ UNCHANGED <<started, state, net, hasCancel, cancelReq, calls, stopped, tc>>

\* ... then for each of them: tc qdisc del, whose error nobody looks at
ReshapeDel(r) ==
  /\ pc[r] \in {"del", "rdel"}
  /\ \/ ~MustFail(r) /\ tc' = [tc EXCEPT ![at[r]] = None]
     \/ CanFail(r) /\ UNCHANGED tc
  /\ Goto(r, IF pc[r] = "del" THEN "add" ELSE "radd")
  /\ UNCHANGED <<started, state, net, applied, at, hasCancel, cancelReq, calls, stopped>>

LastPeer(r) == at[r] = NPeers

\* ... and tc qdisc add, which fails when the container has a discipline
ReshapeAdd(r) ==
  /\ pc[r] \in {"add", "radd"}
  /\ LET restoring == pc[r] = "radd"
         goal == IF restoring THEN Default ELSE net[r]
     IN
     /\ \/ /\ ~MustFail(r) /\ tc[at[r]] = None
           /\ tc' = [tc EXCEPT ![at[r]] = goal]
           /\ UNCHANGED applied
        \/ /\ CanFail(r) \/ tc[at[r]] # None
           /\ applied' = [applied EXCEPT ![r] = restoring /\ @]
           /\ UNCHANGED tc
     /\ IF LastPeer(r)
          THEN UNCHANGED at /\ Goto(r, IF restoring THEN "cleanup" ELSE "start")
          ELSE at' = [at EXCEPT ![r] = @ + 1] /\ Goto(r, IF restoring THEN "rdel" ELSE "del")
  /\ UNCHANGED <<started, state, net, hasCancel, cancelReq, calls, stopped>>

\* cmd.Start, which refuses under a cancelled context
StartCommand(r) ==
  /\ pc[r] = "start"
  /\ \/ GiveUp(r)
     \/ r \notin stopped /\ Goto(r, "command") /\ UNCHANGED state
  /\ UNCHANGED <<started, net, applied, at, hasCancel, cancelReq, calls, stopped, tc>>

\* Seeded faults (Bug...): plausible slips in the operator below them, used by
\* no specification.

\* a command that exits by itself decides, although the run was cancelled
BugFinalState(r, result) == IF result = "killed" THEN "cancelled" ELSE result

\* the final status: a run that was asked to cancel, or was killed by its
\* context, is cancelled whatever the command returned
FinalState(r, result) == IF r \in cancelReq \/ result = "killed" THEN "cancelled" ELSE result

\* a cancelled run does not restore the network
BugRestores(r) == net[r] # Default /\ r \notin cancelReq

Restores(r) == net[r] # Default

CommandReturns(r, result) ==
  /\ pc[r] = "command"
  /\ Show(r, FinalState(r, result))
  /\ Goto(r, IF Restores(r) THEN "restore" ELSE "cleanup")
  /\ UNCHANGED <<started, net, applied, at, hasCancel, cancelReq, calls, stopped, tc>>

CommandExits(r) == \E result \in {"done", "error"} : CommandReturns(r, result)
CommandKilled(r) == r \in stopped /\ CommandReturns(r, "killed")

\* the deferred functions: the cancel entries go, the context is cancelled
\* (a call of it that is still to come does nothing), the run is saved; the
\* goroutine's locals end with it
Cleanup(r) ==
  /\ pc[r] = "cleanup"
  /\ hasCancel' = hasCancel \ {r}
  /\ cancelReq' = cancelReq \ {r}
  /\ stopped' = stopped \cup {r}
  /\ calls' = calls \ {r}
  /\ at' = [at EXCEPT ![r] = 1]
  /\ applied' = [applied EXCEPT ![r] = FALSE]
  /\ Goto(r, "ended")
  /\ UNCHANGED <<started, state, net, tc>>

-----------------------------------------------------------------------------
RunsInit ==
  /\ started = 0
  /\ state = [r \in RunIds |-> None]
  /\ pc = [r \in RunIds |-> "idle"]
  /\ net = [r \in RunIds |-> Default]
  /\ applied = [r \in RunIds |-> FALSE]
  /\ at = [r \in RunIds |-> 1]
  /\ hasCancel = {} /\ cancelReq = {} /\ calls = {} /\ stopped = {}
  /\ tc = [p \in Peers |-> Default]

\* everything execute does by itself; that the command exits is not its doing
ExecuteStep(r) ==
  \/ Begin(r) \/ ClearStore(r) \/ Discover(r) \/ ReshapeDel(r) \/ ReshapeAdd(r)
  \/ StartCommand(r) \/ CommandKilled(r) \/ Cleanup(r)

RunsStep == \E r \in RunIds : ExecuteStep(r) \/ CommandExits(r) \/ CallCancel(r) \/ HandleCancel(r)

\* a run started by hand, whether or not a batch is running
HandleRun == started < ByHand /\ \E n \in Networks : StartRun(n)

-----------------------------------------------------------------------------
(* Properties.                                                             *)

RunStates == {"running", "done", "error", "cancelled"}

RunPCs == {"idle", "begin", "clear", "apply", "del", "add", "start", "command",
           "restore", "rdel", "radd", "cleanup", "ended"}

\* The variables have their types: the status and cancel maps, the containers
\* and the program counters of the runs' goroutines.
RunsTypeOK ==
  /\ started \in 0..MaxRuns
  /\ state \in [RunIds -> RunStates \cup {None}]
  /\ pc \in [RunIds -> RunPCs]
  /\ net \in [RunIds -> Networks]
  /\ applied \in [RunIds -> BOOLEAN]
  /\ at \in [RunIds -> Peers]
  /\ hasCancel \subseteq RunIds /\ cancelReq \subseteq RunIds
  /\ calls \subseteq RunIds /\ stopped \subseteq RunIds
  /\ tc \in [Peers -> Networks \cup {None}]

\* When no run is going on the containers are back at the default network,
\* however the reshapes and restores of runs crossed each other - unless
\* docker fails or a run ended with an error, whose early returns skip the
\* restore.
QuietNetworkIsDefault ==
  (/\ ~DockerFails
   /\ \A r \in RunIds : pc[r] \in {"idle", "ended"} /\ state[r] # "error")
    => tc = [p \in Peers |-> Default]

\* "Peer network conditions applied successfully.": a run whose log says so
\* runs its command under the conditions it was asked for, as a benchmark
\* that simulates networks reproducibly needs.  It does not: the previous
\* run shows its final status before it restores the network.
RunsUnderItsNetwork ==
  \A r \in RunIds : pc[r] = "command" /\ applied[r] => \A p \in Peers : tc[p] = net[r]

\* A run that was cancelled after its goroutine had stored its CancelFunc
\* ends, and does not end as done, even if its command would run for ever.
CancelEndsRun ==
  \A r \in RunIds :
    (r \in hasCancel /\ r \in cancelReq /\ state[r] = "running")
      ~> (state[r] \in {"cancelled", "error"})
=============================================================================
