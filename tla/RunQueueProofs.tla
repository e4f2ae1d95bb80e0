--------------------------- MODULE RunQueueProofs ---------------------------
(***************************************************************************)
(* Proofs about RunQueue and the runs it is composed with, for any number  *)
(* of runs, containers, network conditions, batches and items: what a      *)
(* network looks like when the runs are over, in which order a batch goes  *)
(* through its runs, and what its status says.                             *)
(***************************************************************************)
EXTENDS RunQueue, TLAPS

USE BoundAssumption, NetworkAssumption, DockerAssumption, QueueAssumption
USE DEF RunIds, Peers, None, RunStates, RunPCs

-----------------------------------------------------------------------------
(* The runs' part of the invariant.                                        *)

\* Where a run is not over yet as far as its status is concerned.
Early == {"begin", "clear", "apply", "del", "add", "start", "command"}

\* Runs are numbered as they are started, and shown from then on.
Fresh == \A r \in RunIds : IF r > started THEN pc[r] = "idle" /\ state[r] = None
                                          ELSE state[r] # None

\* The status changes once, at the end of the command or when execute gives up.
Going == \A r \in RunIds : pc[r] \in Early => state[r] = "running"

\* A run that may have shaped container p and is still to restore it, or that
\* gave up and will not.
Owes(r, p) ==
  \/ state[r] = "error"
  \/ /\ net[r] # Default
     /\ \/ pc[r] \in {"del", "add", "start", "command", "restore"}
        \/ pc[r] = "rdel" /\ at[r] <= p
        \/ pc[r] = "radd" /\ at[r] < p

\* A run that deleted the discipline of p and is about to add one, or whose
\* context is done: it fails to, but will not start its command either.
Mends(r, p) ==
  \/ pc[r] \in {"add", "radd"} /\ at[r] = p
  \/ r \in stopped /\ pc[r] \in {"del", "add", "start"}

\* Whatever is not at the default network is some run's debt.
Owed ==
  ~DockerFails => \A p \in Peers : tc[p] # Default =>
    \E r \in RunIds : Owes(r, p) \/ (tc[p] = None /\ Mends(r, p))

RunInv == RunsTypeOK /\ Fresh /\ Going /\ Owed

\* A step keeps this much of the runs.
FinalStays ==
  /\ started <= started'
  /\ \A r \in RunIds : r <= started /\ state[r] # "running" => state'[r] = state[r]
RunsKept == RunInv' /\ FinalStays

LEMMA StartRunKeeps ==
  ASSUME RunInv, NEW n \in Networks, StartRun(n)
  PROVE  RunsKept /\ started' = started + 1
<1> USE DEF RunInv, StartRun, RunsTypeOK
<1>1. RunsTypeOK'
  OBVIOUS
<1>2. Fresh' /\ Going'
  BY DEF Fresh, Going, Early
<1>3. Owed'
  <2> SUFFICES ASSUME ~DockerFails, NEW p \in Peers, tc[p] # Default,
                      NEW r \in RunIds, Owes(r, p) \/ (tc[p] = None /\ Mends(r, p))
               PROVE  Owes(r, p)' \/ (tc[p] = None /\ Mends(r, p)')
    BY DEF Owed
  <2>1. CASE r = started + 1
    <3>1. pc[r] = "idle" /\ state[r] = None
      BY <2>1 DEF Fresh
    <3> QED BY <2>1, <3>1 DEF Owes, Mends
  <2>2. CASE r # started + 1
    <3>1. state'[r] = state[r] /\ pc'[r] = pc[r] /\ net'[r] = net[r]
      BY <2>2
    <3> QED BY <3>1 DEF Owes, Mends
  <2> QED BY <2>1, <2>2
<1> QED BY <1>1, <1>2, <1>3 DEF RunsKept, FinalStays, Fresh

\* Steps of execute and of the cancel functions: each action of a run r.
LEMMA BeginKeeps ==
  ASSUME RunInv, NEW r \in RunIds, Begin(r) \/ HandleCancel(r) \/ CallCancel(r) \/ Cleanup(r)
  PROVE  RunsKept /\ started' = started
<1> USE DEF RunInv, Begin, HandleCancel, CallCancel, Cleanup, Goto
<1>1. RunsTypeOK'
  <2>1. CASE Begin(r)
    BY <2>1 DEF RunsTypeOK
  <2>2. CASE HandleCancel(r)
    BY <2>2 DEF RunsTypeOK
  <2>3. CASE CallCancel(r)
    BY <2>3 DEF RunsTypeOK
  <2>4. CASE Cleanup(r)
    BY <2>4 DEF RunsTypeOK
  <2> QED BY <2>1, <2>2, <2>3, <2>4
<1>2. Fresh' /\ Going'
  BY DEF RunsTypeOK, Fresh, Going, Early
<1>3. Owed'
  <2> SUFFICES ASSUME ~DockerFails, NEW p \in Peers, tc[p] # Default,
                      NEW s \in RunIds, Owes(s, p) \/ (tc[p] = None /\ Mends(s, p))
               PROVE  Owes(s, p)' \/ (tc[p] = None /\ Mends(s, p)')
    BY DEF Owed
  <2> QED BY DEF RunsTypeOK, Owes, Mends
<1> QED BY <1>1, <1>2, <1>3 DEF RunsKept, FinalStays, RunsTypeOK

LEMMA CommandKeeps ==
  ASSUME RunInv, NEW r \in RunIds,
         ClearStore(r) \/ StartCommand(r) \/ CommandExits(r) \/ CommandKilled(r)
  PROVE  RunsKept /\ started' = started
<1>1. /\ UNCHANGED <<started, net, applied, at, hasCancel, cancelReq, calls, stopped, tc>>
      /\ pc[r] \in Early
      /\ \E l \in RunPCs \ {"idle"} : Goto(r, l) /\ (l \in Early => UNCHANGED state)
      /\ \/ UNCHANGED state
         \/ \E s \in {"done", "error", "cancelled"} : Show(r, s)
  <2>1. CASE ClearStore(r)
    BY <2>1 DEF ClearStore, GiveUp, Early
  <2>2. CASE StartCommand(r)
    BY <2>2 DEF StartCommand, GiveUp, Early
  <2>3. ASSUME NEW w \in {"done", "error", "killed"}, CommandReturns(r, w)
        PROVE  <1>1
    BY <2>3 DEF CommandReturns, FinalState, Early
  <2> QED BY <2>1, <2>2, <2>3 DEF CommandExits, CommandKilled
<1>2. RunsTypeOK'
  BY <1>1 DEF RunInv, RunsTypeOK, Goto, Show
<1>3. Fresh' /\ Going'
  BY <1>1 DEF RunInv, RunsTypeOK, Goto, Show, Fresh, Going, Early
<1>4. Owed'
  <2> SUFFICES ASSUME ~DockerFails, NEW p \in Peers, tc[p] # Default,
                      NEW s \in RunIds, Owes(s, p) \/ (tc[p] = None /\ Mends(s, p))
               PROVE  Owes(s, p)' \/ (tc[p] = None /\ Mends(s, p)')
    BY <1>1 DEF RunInv, Owed
  <2>1. CASE s # r
    BY <1>1, <2>1 DEF RunInv, RunsTypeOK, Goto, Show, Owes, Mends
  <2>2. CASE s = r /\ ClearStore(r)
    BY <2>2 DEF RunInv, Going, RunsTypeOK, ClearStore, Owes, Mends, Early
  <2>3. CASE s = r /\ StartCommand(r)
    BY <2>3 DEF RunInv, Going, RunsTypeOK, StartCommand, GiveUp, Goto, Show, Owes, Mends, Early
  <2>4. CASE s = r /\ (CommandExits(r) \/ CommandKilled(r))
    <3>1. pc[r] = "command" /\ Goto(r, IF Restores(r) THEN "restore" ELSE "cleanup")
      BY <2>4 DEF CommandExits, CommandKilled, CommandReturns
    <3>2. net[r] # Default
      BY <2>4, <3>1 DEF RunInv, Going, Owes, Mends, Early
    <3> QED BY <1>1, <2>4, <3>1, <3>2 DEF RunInv, RunsTypeOK, Restores, Goto, Owes
  <2> QED BY <1>1, <2>1, <2>2, <2>3, <2>4
<1>5. FinalStays
  <2>1. state[r] = "running"
    BY <1>1 DEF RunInv, Going
  <2>2. \A s \in RunIds \ {r} : state'[s] = state[s]
    BY <1>1 DEF RunInv, RunsTypeOK, Show
  <2> QED BY <1>1, <2>1, <2>2 DEF RunInv, RunsTypeOK, FinalStays
<1> QED BY <1>1, <1>2, <1>3, <1>4, <1>5 DEF RunsKept, RunInv

LEMMA DiscoverKeeps ==
  ASSUME RunInv, NEW r \in RunIds, Discover(r)
  PROVE  RunsKept /\ started' = started
<1> USE DEF RunInv
<1>1. /\ UNCHANGED <<started, state, net, hasCancel, cancelReq, calls, stopped, tc>>
      /\ pc[r] \in {"apply", "restore"}
      /\ \E l \in {"del", "rdel", "start", "cleanup"} :
           Goto(r, l) /\ (l \in Early => pc[r] = "apply")
      /\ \A s \in RunIds \ {r} : at'[s] = at[s]
      /\ at' \in [RunIds -> Peers] /\ applied' \in [RunIds -> BOOLEAN]
  <2>1. /\ UNCHANGED <<started, state, net, hasCancel, cancelReq, calls, stopped, tc>>
        /\ pc[r] \in {"apply", "restore"}
    BY DEF Discover
  <2>2. \E l \in {"del", "rdel", "start", "cleanup"} :
          Goto(r, l) /\ (l \in Early => pc[r] = "apply")
    BY DEF Discover, Early
  <2>3. /\ at' \in [RunIds -> Peers] /\ applied' \in [RunIds -> BOOLEAN]
        /\ \A s \in RunIds \ {r} : at'[s] = at[s]
    <3>1. \/ UNCHANGED <<at, applied>>
          \/ /\ at' = [at EXCEPT ![r] = 1]
             /\ applied' = [applied EXCEPT ![r] = pc[r] = "apply" \/ @]
      BY DEF Discover
    <3>2. applied \in [RunIds -> BOOLEAN] /\ at \in [RunIds -> Peers] /\ 1 \in Peers
      BY DEF RunsTypeOK
    <3>3. at' \in [RunIds -> Peers] /\ \A s \in RunIds \ {r} : at'[s] = at[s]
      BY <3>1, <3>2
    <3>4. (pc[r] = "apply" \/ applied[r]) \in BOOLEAN
      OBVIOUS
    <3>5. applied' \in [RunIds -> BOOLEAN]
      BY <3>1, <3>2, <3>4, Zenon
    <3> QED BY <3>3, <3>5
  <2> QED BY <2>1, <2>2, <2>3
<1>2. RunsTypeOK'
  BY <1>1 DEF RunsTypeOK, Goto
<1>3. Fresh' /\ Going'
  BY <1>1 DEF RunsTypeOK, Goto, Fresh, Going, Early
<1>4. Owed'
  <2> SUFFICES ASSUME ~DockerFails, NEW p \in Peers, tc[p] # Default,
                      NEW s \in RunIds, Owes(s, p) \/ (tc[p] = None /\ Mends(s, p))
               PROVE  Owes(s, p)' \/ (tc[p] = None /\ Mends(s, p)')
    BY <1>1 DEF Owed
  <2>1. CASE s # r
    BY <1>1, <2>1 DEF RunsTypeOK, Goto, Owes, Mends
  <2>2. CASE s = r
    <3>1. state[r] = "error" \/ (pc[r] = "restore" /\ net[r] # Default)
      BY <1>1, <2>2 DEF Owes, Mends
    <3>2. pc[r] = "restore" => Goto(r, "rdel") /\ at' = [at EXCEPT ![r] = 1]
      BY DEF Discover, CanFail
    <3> QED BY <1>1, <2>2, <3>1, <3>2 DEF RunsTypeOK, Goto, Owes
  <2> QED BY <2>1, <2>2
<1>5. FinalStays
  BY <1>1 DEF RunsTypeOK, FinalStays
<1> QED BY <1>1, <1>2, <1>3, <1>4, <1>5 DEF RunsKept

LEMMA DelKeeps ==
  ASSUME RunInv, NEW r \in RunIds, ReshapeDel(r)
  PROVE  RunsKept /\ started' = started
<1> USE DEF RunInv
<1>1. /\ UNCHANGED <<started, state, net, applied, at, hasCancel, cancelReq, calls, stopped>>
      /\ pc[r] \in {"del", "rdel"} /\ Goto(r, IF pc[r] = "del" THEN "add" ELSE "radd")
      /\ tc' = [tc EXCEPT ![at[r]] = None] \/ (CanFail(r) /\ UNCHANGED tc)
  BY DEF ReshapeDel
<1>2. RunsTypeOK'
  BY <1>1 DEF RunsTypeOK, Goto
<1>3. Fresh' /\ Going'
  BY <1>1 DEF RunsTypeOK, Goto, Fresh, Going, Early
<1>4. Owed'
  <2> SUFFICES ASSUME ~DockerFails, NEW p \in Peers, tc'[p] # Default
               PROVE  \E s \in RunIds : Owes(s, p)' \/ (tc'[p] = None /\ Mends(s, p)')
    BY DEF Owed
  <2>1. CASE tc' = [tc EXCEPT ![at[r]] = None] /\ p = at[r]
    BY <1>1, <2>1 DEF RunsTypeOK, Goto, Mends
  <2>2. CASE tc'[p] = tc[p] /\ ~(p = at[r] /\ pc[r] = "rdel")
    <3>1. PICK s \in RunIds : Owes(s, p) \/ (tc[p] = None /\ Mends(s, p))
      BY <2>2 DEF Owed
    <3>2. Owes(s, p) => Owes(s, p)'
      BY <1>1, <2>2 DEF RunsTypeOK, Goto, Owes
    <3>3. Mends(s, p) => Mends(s, p)'
      BY <1>1 DEF RunsTypeOK, Goto, Mends
    <3> QED BY <2>2, <3>1, <3>2, <3>3
  <2>3. pc[r] = "rdel" => ~CanFail(r)
    BY DEF CanFail
  <2> QED BY <1>1, <2>1, <2>2, <2>3 DEF RunsTypeOK
<1>5. FinalStays
  BY <1>1 DEF RunsTypeOK, FinalStays
<1> QED BY <1>1, <1>2, <1>3, <1>4, <1>5 DEF RunsKept
LEMMA AddKeeps ==
  ASSUME RunInv, NEW r \in RunIds, ReshapeAdd(r)
  PROVE  RunsKept /\ started' = started
<1> USE DEF RunInv
<1> DEFINE goal == IF pc[r] = "radd" THEN Default ELSE net[r]
<1>1. /\ UNCHANGED <<started, state, net, hasCancel, cancelReq, calls, stopped>>
      /\ pc[r] \in {"add", "radd"}
      /\ \E l \in {"start", "cleanup", "del", "rdel"} :
           Goto(r, l) /\ (pc[r] = "add" <=> l \in {"start", "del"})
                      /\ (l \in {"rdel", "del"} <=> ~LastPeer(r))
  BY DEF ReshapeAdd
<1>2. at' = IF LastPeer(r) THEN at ELSE [at EXCEPT ![r] = @ + 1]
  BY DEF ReshapeAdd
<1>3. \/ ~MustFail(r) /\ tc[at[r]] = None /\ tc' = [tc EXCEPT ![at[r]] = goal]
      \/ (CanFail(r) \/ tc[at[r]] # None) /\ UNCHANGED tc
  BY DEF ReshapeAdd
<1>4. applied' \in [RunIds -> BOOLEAN]
  BY DEF ReshapeAdd, RunsTypeOK
<1>5. RunsTypeOK'
  <2>1. at' \in [RunIds -> Peers]
    BY <1>2 DEF RunsTypeOK, LastPeer
  <2>2. tc' \in [Peers -> Networks \cup {None}]
    BY <1>3 DEF RunsTypeOK
  <2> QED BY <1>1, <1>4, <2>1, <2>2 DEF RunsTypeOK, Goto
<1>6. Fresh' /\ Going'
  BY <1>1 DEF RunsTypeOK, Goto, Fresh, Going, Early
<1>7. Owed'
  <2> SUFFICES ASSUME ~DockerFails, NEW p \in Peers, tc'[p] # Default
               PROVE  \E s \in RunIds : Owes(s, p)' \/ (tc'[p] = None /\ Mends(s, p)')
    BY DEF Owed
  <2>1. ASSUME NEW s \in RunIds, Owes(s, p) PROVE Owes(s, p)'
    <3>1. CASE s # r
      BY <1>1, <1>2, <2>1, <3>1 DEF RunsTypeOK, Goto, Owes
    <3>2. CASE s = r /\ ~LastPeer(r)
      BY <1>1, <1>2, <2>1, <3>2 DEF RunsTypeOK, Goto, Owes
    <3>3. CASE s = r /\ LastPeer(r)
      BY <1>1, <1>2, <2>1, <3>3 DEF RunsTypeOK, Goto, Owes, LastPeer
    <3> QED BY <3>1, <3>2, <3>3
  <2>2. CASE tc'[p] # tc[p]
    <3>1. p = at[r] /\ tc'[p] = goal
      BY <1>3, <2>2 DEF RunsTypeOK
    <3>2. pc[r] = "add" /\ net[r] # Default
      BY <1>1, <3>1
    <3>3. Owes(r, p)
      BY <3>2 DEF Owes
    <3> QED BY <2>1, <3>3
  <2>3. CASE tc'[p] = tc[p]
    <3>1. PICK s \in RunIds : Owes(s, p) \/ (tc[p] = None /\ Mends(s, p))
      BY <2>3 DEF Owed
    <3>2. CASE Mends(s, p) /\ tc[p] = None /\ s # r
      BY <1>1, <1>2, <2>3, <3>2 DEF RunsTypeOK, Goto, Mends
    <3>3. CASE Mends(s, p) /\ tc[p] = None /\ s = r
      <4>1. CASE r \in stopped /\ pc[r] = "add"
        BY <1>1, <2>3, <3>3, <4>1 DEF RunsTypeOK, Goto, Mends
      <4>2. CASE at[r] = p /\ ~(r \in stopped /\ pc[r] = "add")
        <5>1. ~CanFail(r)
          BY <1>1, <4>2 DEF CanFail
        <5>2. tc'[p] = goal
          BY <1>3, <3>3, <4>2, <5>1 DEF RunsTypeOK
        <5>3. pc[r] = "add" /\ net[r] # Default
          BY <1>1, <5>2
        <5>4. Owes(r, p)
          BY <5>3 DEF Owes
        <5> QED BY <2>1, <5>4
      <4> QED BY <1>1, <3>3, <4>1, <4>2 DEF Mends
    <3> QED BY <2>1, <3>1, <3>2, <3>3
  <2> QED BY <2>2, <2>3
<1>8. FinalStays
  BY <1>1 DEF RunsTypeOK, FinalStays
<1> QED BY <1>1, <1>5, <1>6, <1>7, <1>8 DEF RunsKept

LEMMA RunsStepKeeps ==
  ASSUME RunInv, RunsStep
  PROVE  RunsKept /\ started' = started
<1> SUFFICES ASSUME NEW r \in RunIds,
                    ExecuteStep(r) \/ CommandExits(r) \/ CallCancel(r) \/ HandleCancel(r)
             PROVE  RunsKept /\ started' = started
  BY DEF RunsStep
<1> QED BY BeginKeeps, CommandKeeps, DiscoverKeeps, DelKeeps, AddKeeps DEF ExecuteStep

\* The cancel of a batch asks for the cancel of its run, and no more.
LEMMA AskingKeeps ==
  ASSUME RunInv, UNCHANGED <<started, state, pc, net, applied, at, hasCancel, stopped, tc>>,
         cancelReq' \subseteq RunIds, calls' \subseteq RunIds
  PROVE  RunsKept
<1>1. RunsTypeOK' /\ Fresh' /\ Going'
  BY DEF RunInv, RunsTypeOK, Fresh, Going
<1>2. Owed'
  BY DEF RunInv, Owed, Owes, Mends
<1>3. FinalStays
  BY DEF RunInv, RunsTypeOK, FinalStays
<1> QED BY <1>1, <1>2, <1>3 DEF RunsKept, RunInv

-----------------------------------------------------------------------------
(* The queue's part of the invariant.                                      *)

\* The types of the queue's variables.
QueueTyped ==
  /\ batch \in [id : 0..MaxBatches, state : RunStates \cup {"idle"},
                items : [Items -> RunStates \cup {"pending"}], current : 0..MaxRuns]
  /\ bpc \in [Batches -> QueuePCs]
  /\ payload \in [Batches -> [Items -> Networks]]
  /\ item \in [Batches -> 0..NItems]
  /\ rep \in [Batches -> 0..Repeat]
  /\ brun \in [Batches -> 0..MaxRuns]
  /\ outcome \in [Batches -> RunStates \ {"running"}]
  /\ bcalls \subseteq Batches /\ bstopped \subseteq Batches

\* A batch that was not started has done nothing.
Unstarted == \A b \in Batches :
  b > batch.id => bpc[b] = "idle" /\ item[b] = 0 /\ brun[b] = 0

\* What a goroutine's place says of its counters.
Counted == \A b \in Batches :
  /\ bpc[b] \in {"mark", "repeat", "start", "attach", "wait", "pause", "markEnd"} => item[b] # 0
  /\ bpc[b] \in {"repeat", "start"} => rep[b] < Repeat
  /\ bpc[b] \in {"attach", "wait"} => brun[b] # 0
  /\ brun[b] <= started

\* The goroutine goes on only when its last run is done.
Waited == \A b \in Batches :
  \/ bpc[b] \in {"items", "mark", "repeat", "start", "pause"}
  \/ bpc[b] = "markEnd" /\ outcome[b] = "done"
  => brun[b] = 0 \/ state[brun[b]] = "done"

\* What the status of the batch that is shown says while its goroutine works:
\* items before its own are done, those behind it were not begun.
AtWork(b) ==
  /\ \A j \in Items : j < item[b] => batch.items[j] = "done"
  /\ \A j \in Items : j > item[b] => batch.items[j] \in {"pending", "cancelled"}
  /\ bpc[b] = "items" => \A j \in Items : j <= item[b] => batch.items[j] = "done"

\* ... and when it is about to end.
AtEnd(b) ==
  /\ \A j \in Items : batch.items[j] # "running"
  /\ bpc[b] = "finish" /\ outcome[b] = "done" => \A j \in Items : batch.items[j] = "done"

Shown ==
  /\ batch.id = 0 => batch.state = "idle"
  /\ batch.id # 0 =>
       /\ bpc[batch.id] \notin {"finish", "ended"} => AtWork(batch.id)
       /\ bpc[batch.id] \in {"finish", "ended"} => AtEnd(batch.id)
       /\ IF bpc[batch.id] = "ended" THEN batch.state # "running"
                                     ELSE batch.state \in {"running", "cancelled"}

QInv == QueueTyped /\ Unstarted /\ Counted /\ Waited /\ Shown /\ BatchSettled
IInv == RunInv /\ QInv

\* The queue does not notice what a run does, except that it ends.
LEMMA RunsAside ==
  ASSUME IInv, RunsKept, UNCHANGED queueVars
  PROVE  QInv'
<1> USE DEF IInv, QInv, queueVars, RunsKept
<1>1. QueueTyped' /\ Unstarted' /\ Shown' /\ BatchSettled'
  BY DEF QueueTyped, Unstarted, Shown, AtWork, AtEnd, BatchSettled, InOrder
<1>2. Counted'
  BY DEF FinalStays, RunInv, RunsTypeOK, QueueTyped, Counted
<1>3. Waited'
  <2> SUFFICES ASSUME NEW b \in Batches, brun[b] # 0, state[brun[b]] = "done"
               PROVE  state'[brun[b]] = "done"
    BY DEF Waited
  <2> QED BY DEF FinalStays, Counted, QueueTyped
<1> QED BY <1>1, <1>2, <1>3

\* An item's mark, as far as the shown batch is concerned.
LEMMA Marks ==
  ASSUME QueueTyped, NEW b \in Batches, NEW s \in RunStates, MarkItem(b, s), item[b] \in Items
  PROVE  /\ batch' \in [id : 0..MaxBatches, state : RunStates \cup {"idle"},
                        items : [Items -> RunStates \cup {"pending"}], current : 0..MaxRuns]
         /\ batch'.id = batch.id /\ batch'.state = batch.state
         /\ batch.id # b => batch' = batch
         /\ batch.id = b => batch'.items[item[b]] = s
         /\ \A j \in Items : j # item[b] => batch'.items[j] = batch.items[j]
<1>1. CASE batch.id # b
  BY <1>1 DEF MarkItem, QueueTyped
<1>2. CASE batch.id = b
  <2>1. batch' = [batch EXCEPT !.items = [batch.items EXCEPT ![item[b]] = s]]
    BY <1>2 DEF MarkItem
  <2>2. batch.items \in [Items -> RunStates \cup {"pending"}]
    BY DEF QueueTyped
  <2>3. [batch.items EXCEPT ![item[b]] = s] \in [Items -> RunStates \cup {"pending"}]
    BY <2>2
  <2> QED BY <1>2, <2>1, <2>2, <2>3 DEF QueueTyped
<1> QED BY <1>1, <1>2

LEMMA StartKeeps ==
  ASSUME IInv, NEW b \in Batches, NEW p \in [Items -> Networks], HandleQueueStart(b, p)
  PROVE  QInv'
<1> USE DEF IInv, QInv
<1>1. /\ b = batch.id + 1 /\ bpc' = [bpc EXCEPT ![b] = "items"]
      /\ UNCHANGED <<started, state, item, rep, brun, outcome, bcalls, bstopped>>
      /\ payload' = [payload EXCEPT ![b] = p]
      /\ batch' = [id |-> b, state |-> "running", items |-> [i \in Items |-> "pending"], current |-> 0]
  BY DEF HandleQueueStart, BGoto, runVars
<1>2. bpc[b] = "idle" /\ item[b] = 0 /\ brun[b] = 0
  <2>1. batch.id \in Nat
    BY DEF QueueTyped
  <2>2. b > batch.id
    BY <1>1, <2>1
  <2> QED BY <2>2 DEF Unstarted
<1>3. QueueTyped'
  <2>1. batch' \in [id : 0..MaxBatches, state : RunStates \cup {"idle"},
                    items : [Items -> RunStates \cup {"pending"}], current : 0..MaxRuns]
    BY <1>1 DEF Batches
  <2>2. bpc' \in [Batches -> QueuePCs] /\ payload' \in [Batches -> [Items -> Networks]]
    BY <1>1 DEF QueueTyped, QueuePCs
  <2> QED BY <1>1, <2>1, <2>2 DEF QueueTyped
<1>4. Unstarted' /\ Counted' /\ Waited'
  <2>1. batch'.id = b /\ bpc'[b] = "items" /\ \A e \in Batches \ {b} : bpc'[e] = bpc[e]
    BY <1>1 DEF QueueTyped
  <2>2. batch.id \in Nat
    BY DEF QueueTyped
  <2>3. Unstarted'
    BY <1>1, <1>2, <2>1, <2>2 DEF Batches, Unstarted
  <2>4. Counted'
    BY <1>1, <1>2, <2>1 DEF Counted
  <2>5. Waited'
    BY <1>1, <1>2, <2>1 DEF Waited
  <2> QED BY <2>3, <2>4, <2>5
<1>5. Shown'
  <2>1. batch'.id = b /\ batch'.state = "running" /\ \A j \in Items : batch'.items[j] = "pending"
    BY <1>1
  <2>2. bpc'[b] = "items" /\ item'[b] = 0
    BY <1>1, <1>2 DEF QueueTyped
  <2> QED BY <2>1, <2>2 DEF Shown, AtWork, Items, Batches
<1>6. BatchSettled'
  <2>1. batch'.id = b /\ batch'.state = "running" /\ \A j \in Items : batch'.items[j] = "pending"
    BY <1>1
  <2>2. bpc'[b] = "items"
    BY <1>1 DEF QueueTyped
  <2> QED BY <2>1, <2>2 DEF BatchSettled, InOrder, Items
<1> QED BY <1>3, <1>4, <1>5, <1>6

LEMMA CancelKeeps ==
  ASSUME IInv, HandleQueueCancel
  PROVE  RunsKept /\ started' = started /\ QInv'
<1> USE DEF IInv, QInv
<1>1. /\ UNCHANGED <<started, state, pc, net, applied, at, hasCancel, stopped, tc,
                     bpc, payload, item, rep, brun, outcome, bstopped>>
      /\ batch.state = "running"
      /\ bcalls' = bcalls \cup {batch.id}
      /\ batch' = [batch EXCEPT !.state = "cancelled",
                     !.items = [i \in Items |-> IF batch.items[i] \in {"running", "pending"}
                                                  THEN "cancelled" ELSE batch.items[i]]]
  BY DEF HandleQueueCancel
<1>2. cancelReq' \subseteq RunIds /\ calls' \subseteq RunIds
  <2>1. batch.current \in 0..MaxRuns
    BY DEF QueueTyped
  <2> QED BY <2>1 DEF HandleQueueCancel, RunInv, RunsTypeOK
<1>3. RunsKept
  BY <1>1, <1>2, AskingKeeps
<1>4. batch.id # 0 /\ batch.id \in Batches
  BY <1>1 DEF Shown, QueueTyped, Batches
<1>5. /\ batch'.id = batch.id /\ batch'.state = "cancelled" /\ batch'.current = batch.current
      /\ batch'.items = [i \in Items |-> IF batch.items[i] \in {"running", "pending"}
                                           THEN "cancelled" ELSE batch.items[i]]
  BY <1>1 DEF QueueTyped
<1>6. batch' \in [id : 0..MaxBatches, state : RunStates \cup {"idle"},
                  items : [Items -> RunStates \cup {"pending"}], current : 0..MaxRuns]
  <2>1. batch.items \in [Items -> RunStates \cup {"pending"}]
    BY DEF QueueTyped
  <2>2. batch'.items \in [Items -> RunStates \cup {"pending"}]
    BY <1>5, <2>1
  <2> QED BY <1>1, <1>5, <2>2 DEF QueueTyped
<1>7. QueueTyped'
  BY <1>1, <1>4, <1>6 DEF QueueTyped
<1>8. Unstarted' /\ Counted' /\ Waited'
  BY <1>1, <1>5 DEF Unstarted, Counted, Waited
<1>9. \A j \in Items : /\ batch.items[j] = "done" => batch'.items[j] = "done"
                       /\ batch'.items[j] = "done" => batch.items[j] = "done"
                       /\ batch'.items[j] # "running"
                       /\ batch.items[j] \in {"pending", "cancelled"} => batch'.items[j] = "cancelled"
  BY <1>5
<1>10. Shown'
  BY <1>1, <1>4, <1>5, <1>9 DEF Shown, AtWork, AtEnd
<1>11. BatchSettled'
  BY <1>1, <1>5, <1>9 DEF BatchSettled, InOrder, Items
<1> QED BY <1>1, <1>3, <1>7, <1>8, <1>10, <1>11

\* The goroutine of batch b: what the others see of its step.
Alone(b) ==
  /\ \A e \in Batches \ {b} : /\ bpc'[e] = bpc[e] /\ item'[e] = item[e] /\ rep'[e] = rep[e]
                              /\ brun'[e] = brun[e] /\ outcome'[e] = outcome[e]
  /\ batch'.id = batch.id
  /\ batch.id # b => batch' = batch

\* ... and when they keep what they know.
LEMMA OthersKeep ==
  ASSUME IInv, RunsKept, NEW b \in Batches, Alone(b), bpc[b] # "idle"
  PROVE  /\ Unstarted'
         /\ \A e \in Batches \ {b} :
              /\ bpc'[e] \in {"mark", "repeat", "start", "attach", "wait", "pause", "markEnd"}
                   => item'[e] # 0
              /\ bpc'[e] \in {"repeat", "start"} => rep'[e] < Repeat
              /\ bpc'[e] \in {"attach", "wait"} => brun'[e] # 0
              /\ brun'[e] <= started'
              /\ \/ bpc'[e] \in {"items", "mark", "repeat", "start", "pause"}
                 \/ bpc'[e] = "markEnd" /\ outcome'[e] = "done"
                 => brun'[e] = 0 \/ state'[brun'[e]] = "done"
         /\ batch.id # b => Shown' /\ BatchSettled'
<1> USE DEF IInv, QInv, Alone
<1>1. Unstarted'
  <2>1. b <= batch.id
    BY DEF Unstarted, QueueTyped, Batches
  <2> QED BY <2>1 DEF Unstarted
<1>2. ASSUME NEW e \in Batches \ {b}
      PROVE  /\ bpc'[e] \in {"mark", "repeat", "start", "attach", "wait", "pause", "markEnd"}
                   => item'[e] # 0
             /\ bpc'[e] \in {"repeat", "start"} => rep'[e] < Repeat
             /\ bpc'[e] \in {"attach", "wait"} => brun'[e] # 0
  BY <1>2 DEF Counted
<1>3. ASSUME NEW e \in Batches \ {b} PROVE brun'[e] <= started'
  <2>1. brun'[e] = brun[e] /\ brun[e] <= started
    BY <1>3 DEF Counted
  <2>2. brun[e] \in Nat /\ started \in Nat /\ started' \in Nat /\ started <= started'
    BY DEF RunsKept, FinalStays, RunInv, RunsTypeOK, QueueTyped
  <2> QED BY <2>1, <2>2
<1>4. ASSUME NEW e \in Batches \ {b},
             \/ bpc'[e] \in {"items", "mark", "repeat", "start", "pause"}
             \/ bpc'[e] = "markEnd" /\ outcome'[e] = "done"
      PROVE  brun'[e] = 0 \/ state'[brun'[e]] = "done"
  <2>1. brun[e] = 0 \/ state[brun[e]] = "done"
    BY <1>4 DEF Waited
  <2>2. brun[e] \in 0..MaxRuns /\ brun[e] <= started
    BY DEF QueueTyped, Counted
  <2>3. brun'[e] = brun[e]
    OBVIOUS
  <2> QED BY <2>1, <2>2, <2>3 DEF RunsKept, FinalStays
<1>5. batch.id # b => Shown' /\ BatchSettled'
  <2> SUFFICES ASSUME batch.id # b PROVE Shown' /\ BatchSettled'
    OBVIOUS
  <2>1. CASE batch.id = 0
    BY <2>1 DEF Shown, BatchSettled, InOrder
  <2>2. CASE batch.id # 0
    <3>1. batch.id \in Batches \ {b}
      BY <2>2 DEF QueueTyped, Batches
    <3> QED BY <3>1 DEF Shown, AtWork, AtEnd, BatchSettled, InOrder
  <2> QED BY <2>1, <2>2
<1> QED BY <1>1, <1>2, <1>3, <1>4, <1>5

\* So what is left to show of a step of b is about b.
LEMMA OwnSuffices ==
  ASSUME IInv, RunsKept, NEW b \in Batches, Alone(b), bpc[b] # "idle",
         QueueTyped',
         bpc'[b] \in {"mark", "repeat", "start", "attach", "wait", "pause", "markEnd"} => item'[b] # 0,
         bpc'[b] \in {"repeat", "start"} => rep'[b] < Repeat,
         bpc'[b] \in {"attach", "wait"} => brun'[b] # 0,
         brun'[b] <= started',
         \/ bpc'[b] \in {"items", "mark", "repeat", "start", "pause"}
         \/ bpc'[b] = "markEnd" /\ outcome'[b] = "done"
         => brun'[b] = 0 \/ state'[brun'[b]] = "done",
         batch.id = b => Shown' /\ BatchSettled'
  PROVE  QInv'
<1>1. Counted'
  BY OthersKeep DEF Counted
<1>2. Waited'
  BY OthersKeep DEF Waited
<1> QED BY OthersKeep, <1>1, <1>2 DEF QInv

LEMMA RunsStill ==
  ASSUME RunInv, UNCHANGED runVars
  PROVE  RunsKept /\ started' = started
<1> USE DEF runVars
<1>1. RunsTypeOK' /\ Fresh' /\ Going'
  BY DEF RunInv, RunsTypeOK, Fresh, Going
<1>2. Owed'
  BY DEF RunInv, Owed, Owes, Mends
<1>3. FinalStays
  BY DEF RunInv, RunsTypeOK, FinalStays
<1> QED BY <1>1, <1>2, <1>3 DEF RunsKept, RunInv

\* Actions of the goroutine of batch b that write its locals only.
LEMMA LocalKeeps ==
  ASSUME IInv, NEW b \in Batches,
         NextItem(b) \/ CheckRepeat(b) \/ StartFails(b) \/ RunWaited(b) \/ Paused(b)
  PROVE  RunsKept /\ QInv'
<1> USE DEF IInv, QInv
<1>1. UNCHANGED <<runVars, batch, payload, rep, brun, bcalls, bstopped>> /\ bpc[b] # "idle"
  BY DEF NextItem, CheckRepeat, StartFails, RunWaited, Paused
<1>2. RunsKept /\ started' = started /\ state' = state
  BY <1>1, RunsStill DEF runVars
<1>3. /\ bpc[b] # "items" => UNCHANGED item
      /\ bpc[b] = "items" => UNCHANGED item \/ (item[b] < NItems /\ item' = [item EXCEPT ![b] = @ + 1])
      /\ \/ UNCHANGED outcome
         \/ \E o \in RunStates \ {"running"} : outcome' = [outcome EXCEPT ![b] = o]
      /\ \E l \in QueuePCs \ {"idle", "ended"} : BGoto(b, l)
  <2>1. CASE NextItem(b)
    BY <2>1 DEF NextItem, Stop, BGoto, QueuePCs
  <2>2. CASE CheckRepeat(b)
    BY <2>2 DEF CheckRepeat, Stop, BGoto, QueuePCs
  <2>3. CASE StartFails(b)
    BY <2>3 DEF StartFails, Stop, BGoto, QueuePCs
  <2>4. CASE RunWaited(b)
    <3>1. bpc[b] = "wait" /\ UNCHANGED item
      BY <2>4 DEF RunWaited
    <3>2. brun[b] \in RunIds /\ brun[b] <= started
      BY <3>1 DEF Counted, QueueTyped
    <3>3. state[brun[b]] \in RunStates
      BY <3>2 DEF RunInv, RunsTypeOK, Fresh
    <3> QED BY <2>4, <3>1, <3>3 DEF RunWaited, Stop, BGoto, QueuePCs, Finished
  <2>5. CASE Paused(b)
    BY <2>5 DEF Paused, Stop, BGoto, QueuePCs
  <2> QED BY <2>1, <2>2, <2>3, <2>4, <2>5
<1>4. Alone(b)
  BY <1>1, <1>3 DEF Alone, BGoto, QueueTyped
<1>5. QueueTyped'
  <2>1. item' \in [Batches -> 0..NItems]
    BY <1>3 DEF QueueTyped
  <2>2. outcome' \in [Batches -> RunStates \ {"running"}]
    BY <1>3 DEF QueueTyped
  <2>3. bpc' \in [Batches -> QueuePCs]
    BY <1>3 DEF QueueTyped, BGoto
  <2> QED BY <1>1, <2>1, <2>2, <2>3 DEF QueueTyped
<1>6. brun'[b] <= started' /\ rep'[b] = rep[b] /\ brun'[b] = brun[b]
  BY <1>1, <1>2 DEF Counted
<1>7. ASSUME bpc'[b] \notin {"items", "idle"} => item'[b] # 0 \/ bpc'[b] \in {"finish", "ended"},
             bpc'[b] \in {"repeat", "start"} => rep[b] < Repeat,
             bpc'[b] \notin {"attach", "wait"},
             \/ bpc'[b] \in {"mark", "repeat", "start", "pause"}
             \/ bpc'[b] = "markEnd" /\ outcome'[b] = "done"
             => brun[b] = 0 \/ state[brun[b]] = "done",
             bpc'[b] # "items",
             batch.id = b => Shown' /\ BatchSettled'
      PROVE  QInv'
  BY <1>1, <1>2, <1>4, <1>5, <1>6, <1>7, OwnSuffices
<1>8. CASE NextItem(b)
  <2>1. bpc[b] = "items" /\ item[b] \in 0..NItems
    BY <1>8 DEF NextItem, QueueTyped
  <2>2. \/ bpc'[b] = "finish" /\ item'[b] = item[b] /\ (outcome'[b] = "done" => item[b] = NItems)
        \/ bpc'[b] = "mark" /\ item'[b] = item[b] + 1
    BY <1>8 DEF NextItem, Stop, BGoto, QueueTyped
  <2>3. brun[b] = 0 \/ state[brun[b]] = "done"
    BY <2>1 DEF Waited
  <2>4. ASSUME batch.id = b PROVE Shown' /\ BatchSettled'
    <3>1. AtWork(b) /\ batch.state \in {"running", "cancelled"} /\ b # 0
      BY <2>1, <2>4 DEF Shown, Batches
    <3>2. Shown'
      BY <1>1, <2>1, <2>2, <2>4, <3>1 DEF Shown, AtWork, AtEnd, Items
    <3>3. BatchSettled'
      BY <1>1, <2>2, <2>4 DEF BatchSettled, InOrder
    <3> QED BY <3>2, <3>3
  <2> QED BY <1>2, <1>7, <2>1, <2>2, <2>3, <2>4
<1>9. ASSUME bpc[b] # "items", bpc[b] \notin {"finish", "ended"},
             bpc'[b] \notin {"items", "finish", "ended"}, batch.id = b
      PROVE  Shown' /\ BatchSettled'
  <2>1. item'[b] = item[b]
    BY <1>3, <1>9
  <2>2. AtWork(b) /\ batch.state \in {"running", "cancelled"} /\ b # 0
    BY <1>9 DEF Shown, Batches
  <2>3. Shown'
    BY <1>1, <1>9, <2>1, <2>2 DEF Shown, AtWork
  <2> QED BY <1>1, <1>9, <2>3 DEF BatchSettled, InOrder
<1>10. bpc[b] \in {"repeat", "start", "wait", "pause"} => item'[b] # 0
  BY <1>3 DEF Counted
<1>11. CASE CheckRepeat(b)
  <2>1. bpc[b] = "repeat"
    BY <1>11 DEF CheckRepeat
  <2>2. \/ bpc'[b] = "markEnd" /\ outcome'[b] = "cancelled"
        \/ bpc'[b] = "start"
    BY <1>11 DEF CheckRepeat, Stop, BGoto, QueueTyped
  <2>3. rep[b] < Repeat /\ (brun[b] = 0 \/ state[brun[b]] = "done")
    BY <2>1 DEF Counted, Waited
  <2> QED BY <1>2, <1>7, <1>9, <1>10, <2>1, <2>2, <2>3
<1>12. CASE StartFails(b)
  <2>1. bpc[b] = "start" /\ bpc'[b] = "markEnd" /\ outcome'[b] = "error"
    BY <1>12 DEF StartFails, Stop, BGoto, QueueTyped
  <2> QED BY <1>2, <1>7, <1>9, <1>10, <2>1
<1>13. CASE RunWaited(b)
  <2>1. bpc[b] = "wait"
    BY <1>13 DEF RunWaited
  <2>2. \/ bpc'[b] = "markEnd" /\ outcome'[b] # "done"
        \/ bpc'[b] = "pause" /\ state[brun[b]] = "done"
    BY <1>13 DEF RunWaited, Stop, BGoto, QueueTyped, Succeeded
  <2> QED BY <1>2, <1>7, <1>9, <1>10, <2>1, <2>2
<1>14. CASE Paused(b)
  <2>1. bpc[b] = "pause"
    BY <1>14 DEF Paused
  <2>2. bpc'[b] = "markEnd" \/ (bpc'[b] = "repeat" /\ rep[b] < Repeat)
    BY <1>14 DEF Paused, Stop, BGoto, QueueTyped
  <2>3. brun[b] = 0 \/ state[brun[b]] = "done"
    BY <2>1 DEF Waited
  <2> QED BY <1>2, <1>7, <1>9, <1>10, <2>1, <2>2, <2>3
<1> QED BY <1>2, <1>8, <1>11, <1>12, <1>13, <1>14

LEMMA MarkRunningKeeps ==
  ASSUME IInv, NEW b \in Batches, MarkRunning(b)
  PROVE  RunsKept /\ QInv'
<1> USE DEF IInv, QInv
<1>1. /\ UNCHANGED <<runVars, payload, item, brun, outcome, bcalls, bstopped>>
      /\ bpc[b] = "mark" /\ bpc' = [bpc EXCEPT ![b] = "repeat"] /\ rep' = [rep EXCEPT ![b] = 0]
      /\ MarkItem(b, "running")
  BY DEF MarkRunning, BGoto
<1>2. RunsKept /\ started' = started /\ state' = state
  BY <1>1, RunsStill DEF runVars
<1>3. item[b] \in Items
  BY <1>1 DEF Counted, QueueTyped, Items
<1>4. /\ batch'.id = batch.id /\ batch'.state = batch.state
      /\ batch.id # b => batch' = batch
      /\ batch.id = b => batch'.items[item[b]] = "running"
      /\ \A j \in Items : j # item[b] => batch'.items[j] = batch.items[j]
  BY <1>1, <1>3, Marks
<1>5. Alone(b)
  BY <1>1, <1>4 DEF Alone, QueueTyped
<1>6. QueueTyped'
  <2>1. /\ bpc' \in [Batches -> QueuePCs] /\ rep' \in [Batches -> 0..Repeat]
    BY <1>1 DEF QueueTyped, QueuePCs
  <2> QED BY <1>1, <1>3, <2>1, Marks DEF QueueTyped
<1>7. bpc'[b] = "repeat" /\ rep'[b] = 0 /\ item'[b] = item[b] /\ brun'[b] = brun[b]
  BY <1>1 DEF QueueTyped
<1>8. brun[b] = 0 \/ state[brun[b]] = "done"
  BY <1>1 DEF Waited
<1>9. ASSUME batch.id = b PROVE Shown' /\ BatchSettled'
  <2>1. AtWork(b) /\ batch.state \in {"running", "cancelled"} /\ b # 0
    BY <1>1, <1>9 DEF Shown, Batches
  <2>2. \A j \in Items : /\ j < item[b] => batch'.items[j] = "done"
                         /\ j > item[b] => batch'.items[j] \in {"pending", "cancelled"}
    BY <1>3, <1>4, <2>1 DEF AtWork, Items
  <2>3. Shown'
    BY <1>4, <1>7, <1>9, <2>1, <2>2 DEF Shown, AtWork
  <2>4. BatchSettled'
    BY <1>3, <1>4, <1>7, <1>9, <2>1, <2>2 DEF BatchSettled, InOrder, Items
  <2> QED BY <2>3, <2>4
<1>10. brun'[b] <= started'
  BY <1>2, <1>7 DEF Counted
<1> QED BY <1>1, <1>2, <1>3, <1>5, <1>6, <1>7, <1>8, <1>9, <1>10, OwnSuffices DEF Items

LEMMA MarkEndKeeps ==
  ASSUME IInv, NEW b \in Batches, MarkEnd(b)
  PROVE  RunsKept /\ QInv'
<1> USE DEF IInv, QInv
<1>1. /\ UNCHANGED <<runVars, payload, item, rep, brun, outcome, bcalls, bstopped>>
      /\ bpc[b] = "markEnd"
      /\ bpc' = [bpc EXCEPT ![b] = IF outcome[b] = "done" THEN "items" ELSE "finish"]
      /\ MarkItem(b, outcome[b])
  BY DEF MarkEnd, BGoto
<1>2. RunsKept /\ started' = started /\ state' = state
  BY <1>1, RunsStill DEF runVars
<1>3. item[b] \in Items /\ outcome[b] \in RunStates /\ outcome[b] # "running"
  BY <1>1 DEF Counted, QueueTyped, Items
<1>4. /\ batch'.id = batch.id /\ batch'.state = batch.state
      /\ batch.id # b => batch' = batch
      /\ batch.id = b => batch'.items[item[b]] = outcome[b]
      /\ \A j \in Items : j # item[b] => batch'.items[j] = batch.items[j]
  BY <1>1, <1>3, Marks
<1>5. Alone(b)
  BY <1>1, <1>4 DEF Alone, QueueTyped
<1>6. QueueTyped'
  <2>1. bpc' \in [Batches -> QueuePCs]
    BY <1>1 DEF QueueTyped, QueuePCs
  <2> QED BY <1>1, <1>3, <2>1, Marks DEF QueueTyped
<1>7. /\ bpc'[b] = IF outcome[b] = "done" THEN "items" ELSE "finish"
      /\ item'[b] = item[b] /\ brun'[b] = brun[b] /\ outcome'[b] = outcome[b]
  BY <1>1 DEF QueueTyped
<1>8. bpc'[b] = "items" => brun[b] = 0 \/ state[brun[b]] = "done"
  BY <1>1, <1>7 DEF Waited
<1>9. ASSUME batch.id = b PROVE Shown' /\ BatchSettled'
  <2>1. AtWork(b) /\ batch.state \in {"running", "cancelled"} /\ b # 0
    BY <1>1, <1>9 DEF Shown, Batches
  <2>2. \A j \in Items : /\ j < item[b] => batch'.items[j] = "done"
                         /\ j > item[b] => batch'.items[j] \in {"pending", "cancelled"}
                         /\ j = item[b] => batch'.items[j] = outcome[b]
    BY <1>3, <1>4, <1>9, <2>1 DEF AtWork, Items
  <2>3. Shown'
    BY <1>3, <1>4, <1>7, <1>9, <2>1, <2>2 DEF Shown, AtWork, AtEnd, Items
  <2>4. BatchSettled'
    BY <1>3, <1>4, <1>7, <1>9, <2>1, <2>2 DEF BatchSettled, InOrder, Items
  <2> QED BY <2>3, <2>4
<1>10. brun'[b] <= started'
  BY <1>2, <1>7 DEF Counted
<1> QED BY <1>1, <1>2, <1>5, <1>6, <1>7, <1>8, <1>9, <1>10, OwnSuffices

LEMMA StartQueueRunKeeps ==
  ASSUME IInv, NEW b \in Batches, StartQueueRun(b)
  PROVE  RunsKept /\ QInv'
<1> USE DEF IInv, QInv
<1>1. /\ UNCHANGED <<batch, payload, item, outcome, bcalls, bstopped>>
      /\ bpc[b] = "start" /\ bpc' = [bpc EXCEPT ![b] = "attach"]
      /\ brun' = [brun EXCEPT ![b] = started + 1] /\ rep' = [rep EXCEPT ![b] = @ + 1]
      /\ StartRun(payload[b][item[b]])
  BY DEF StartQueueRun, BGoto
<1>2. item[b] \in Items
  BY <1>1 DEF Counted, QueueTyped, Items
<1>3. RunsKept /\ started' = started + 1 /\ started \in Nat /\ started < MaxRuns
  <2>1. payload[b][item[b]] \in Networks
    BY <1>2 DEF QueueTyped
  <2>2. started \in Nat /\ started < MaxRuns
    BY <1>1 DEF StartRun, RunInv, RunsTypeOK
  <2> QED BY <1>1, <2>1, <2>2, StartRunKeeps
<1>4. Alone(b)
  BY <1>1 DEF Alone, QueueTyped
<1>5. rep[b] < Repeat
  BY <1>1 DEF Counted
<1>6. QueueTyped'
  <2>1. bpc' \in [Batches -> QueuePCs]
    BY <1>1 DEF QueueTyped, QueuePCs
  <2>2. brun' \in [Batches -> 0..MaxRuns]
    BY <1>1, <1>3 DEF QueueTyped
  <2>3. rep' \in [Batches -> 0..Repeat]
    BY <1>1, <1>5 DEF QueueTyped
  <2> QED BY <1>1, <2>1, <2>2, <2>3 DEF QueueTyped
<1>7. bpc'[b] = "attach" /\ item'[b] = item[b] /\ brun'[b] = started + 1
  BY <1>1 DEF QueueTyped
<1>8. ASSUME batch.id = b PROVE Shown' /\ BatchSettled'
  <2>1. AtWork(b) /\ batch.state \in {"running", "cancelled"} /\ b # 0
    BY <1>1, <1>8 DEF Shown, Batches
  <2>2. Shown'
    BY <1>1, <1>7, <1>8, <2>1 DEF Shown, AtWork
  <2> QED BY <1>1, <1>7, <1>8, <2>2 DEF BatchSettled, InOrder
<1> QED BY <1>1, <1>2, <1>3, <1>4, <1>6, <1>7, <1>8, OwnSuffices DEF Items

LEMMA AttachRunKeeps ==
  ASSUME IInv, NEW b \in Batches, AttachRun(b)
  PROVE  RunsKept /\ QInv'
<1> USE DEF IInv, QInv
<1>1. /\ UNCHANGED <<runVars, payload, item, rep, brun, outcome, bcalls, bstopped>>
      /\ bpc[b] = "attach" /\ bpc' = [bpc EXCEPT ![b] = "wait"]
      /\ batch' = IF batch.id = b THEN [batch EXCEPT !.current = brun[b]] ELSE batch
  BY DEF AttachRun, BGoto
<1>2. RunsKept /\ started' = started /\ state' = state
  BY <1>1, RunsStill DEF runVars
<1>3. /\ batch' \in [id : 0..MaxBatches, state : RunStates \cup {"idle"},
                     items : [Items -> RunStates \cup {"pending"}], current : 0..MaxRuns]
      /\ batch'.id = batch.id /\ batch'.state = batch.state /\ batch'.items = batch.items
      /\ batch.id # b => batch' = batch
  BY <1>1 DEF QueueTyped
<1>4. Alone(b)
  BY <1>1, <1>3 DEF Alone, QueueTyped
<1>5. QueueTyped'
  <2>1. bpc' \in [Batches -> QueuePCs]
    BY <1>1 DEF QueueTyped, QueuePCs
  <2> QED BY <1>1, <1>3, <2>1 DEF QueueTyped
<1>6. bpc'[b] = "wait" /\ item'[b] = item[b] /\ brun'[b] = brun[b]
  BY <1>1 DEF QueueTyped
<1>7. item[b] # 0 /\ brun[b] # 0 /\ brun[b] <= started
  BY <1>1 DEF Counted
<1>8. ASSUME batch.id = b PROVE Shown' /\ BatchSettled'
  <2>1. AtWork(b) /\ batch.state \in {"running", "cancelled"} /\ b # 0
    BY <1>1, <1>8 DEF Shown, Batches
  <2>2. Shown'
    BY <1>1, <1>3, <1>6, <1>8, <2>1 DEF Shown, AtWork
  <2> QED BY <1>1, <1>3, <1>6, <1>8, <2>2 DEF BatchSettled, InOrder
<1> QED BY <1>1, <1>2, <1>4, <1>5, <1>6, <1>7, <1>8, OwnSuffices

LEMMA FinishQueueKeeps ==
  ASSUME IInv, NEW b \in Batches, FinishQueue(b)
  PROVE  RunsKept /\ QInv'
<1> USE DEF IInv, QInv
<1>1. /\ UNCHANGED <<runVars, payload, brun>>
      /\ bpc[b] = "finish" /\ bpc' = [bpc EXCEPT ![b] = "ended"]
      /\ item' = [item EXCEPT ![b] = 0] /\ rep' = [rep EXCEPT ![b] = 0]
      /\ outcome' = [outcome EXCEPT ![b] = "done"]
      /\ bcalls' = bcalls \ {b} /\ bstopped' = bstopped \ {b}
      /\ batch' = IF batch.id = b /\ batch.state = "running"
                    THEN [batch EXCEPT !.state = outcome[b]] ELSE batch
  BY DEF FinishQueue, BGoto
<1>2. RunsKept /\ started' = started /\ state' = state
  BY <1>1, RunsStill DEF runVars
<1>3. outcome[b] \in RunStates \ {"running"}
  BY DEF QueueTyped
<1>4. /\ batch' \in [id : 0..MaxBatches, state : RunStates \cup {"idle"},
                     items : [Items -> RunStates \cup {"pending"}], current : 0..MaxRuns]
      /\ batch'.id = batch.id /\ batch'.items = batch.items
      /\ batch'.state = IF batch.id = b /\ batch.state = "running" THEN outcome[b] ELSE batch.state
      /\ batch.id # b => batch' = batch
  BY <1>1, <1>3 DEF QueueTyped
<1>5. Alone(b)
  BY <1>1, <1>4 DEF Alone, QueueTyped
<1>6. QueueTyped'
  <2>1. /\ bpc' \in [Batches -> QueuePCs] /\ outcome' \in [Batches -> RunStates \ {"running"}]
        /\ item' \in [Batches -> 0..NItems] /\ rep' \in [Batches -> 0..Repeat]
    BY <1>1 DEF QueueTyped, QueuePCs
  <2> QED BY <1>1, <1>4, <2>1 DEF QueueTyped
<1>7. bpc'[b] = "ended" /\ brun'[b] = brun[b] /\ brun[b] <= started
  BY <1>1 DEF QueueTyped, Counted
<1>8. ASSUME batch.id = b PROVE Shown' /\ BatchSettled'
  <2>1. AtEnd(b) /\ batch.state \in {"running", "cancelled"} /\ b # 0
    BY <1>1, <1>8 DEF Shown, Batches
  <2>2. batch'.state # "running" /\ (batch'.state = "done" => \A j \in Items : batch'.items[j] = "done")
    BY <1>1, <1>3, <1>4, <1>8, <2>1 DEF AtEnd
  <2>3. \A j \in Items : batch'.items[j] # "running"
    BY <1>4, <2>1 DEF AtEnd
  <2>4. Shown'
    BY <1>4, <1>7, <1>8, <2>1, <2>2, <2>3 DEF Shown, AtEnd
  <2>5. InOrder'
    BY <1>4 DEF BatchSettled, InOrder
  <2> QED BY <2>2, <2>3, <2>4, <2>5 DEF BatchSettled
<1> QED BY <1>1, <1>2, <1>5, <1>6, <1>7, <1>8, OwnSuffices

-----------------------------------------------------------------------------
(* The invariant and what follows from it.                                 *)

LEMMA NextKeeps ==
  ASSUME IInv, Next
  PROVE  RunsKept /\ QInv'
<1> USE DEF IInv
<1>1. CASE (HandleRun \/ RunsStep) /\ UNCHANGED queueVars
  <2>1. RunsKept
    BY <1>1, StartRunKeeps, RunsStepKeeps DEF HandleRun
  <2> QED BY <1>1, <2>1, RunsAside
<1>2. ASSUME NEW b \in Batches, NEW p \in [Items -> Networks], HandleQueueStart(b, p)
      PROVE  RunsKept /\ QInv'
  <2>1. UNCHANGED runVars
    BY <1>2 DEF HandleQueueStart
  <2> QED BY <1>2, <2>1, RunsStill, StartKeeps
<1>3. ASSUME NEW b \in Batches, QueueStep(b)
      PROVE  RunsKept /\ QInv'
  BY <1>3, LocalKeeps, MarkRunningKeeps, MarkEndKeeps, StartQueueRunKeeps, AttachRunKeeps,
     FinishQueueKeeps DEF QueueStep
<1>4. ASSUME NEW b \in Batches, CallBatchCancel(b)
      PROVE  RunsKept /\ QInv'
  <2>1. UNCHANGED <<runVars, batch, bpc, payload, item, rep, brun, outcome>>
    BY <1>4 DEF CallBatchCancel
  <2>2. bcalls' \subseteq Batches /\ bstopped' \subseteq Batches
    BY <1>4 DEF CallBatchCancel, QInv, QueueTyped
  <2>3. RunsKept /\ started' = started /\ state' = state
    BY <2>1, RunsStill DEF runVars
  <2>4. QueueTyped' /\ Unstarted' /\ Counted' /\ Waited'
    BY <2>1, <2>2, <2>3 DEF QInv, QueueTyped, Unstarted, Counted, Waited
  <2>5. Shown' /\ BatchSettled'
    BY <2>1 DEF QInv, Shown, AtWork, AtEnd, BatchSettled, InOrder
  <2> QED BY <2>3, <2>4, <2>5 DEF QInv
<1>5. CASE HandleQueueCancel
  BY <1>5, CancelKeeps
<1> QED BY <1>1, <1>2, <1>3, <1>4, <1>5 DEF Next

LEMMA InitIInv == Init => IInv
<1> SUFFICES ASSUME Init PROVE IInv
  OBVIOUS
<1> USE DEF Init, RunsInit
<1>1. RunsTypeOK
  BY DEF RunsTypeOK
<1>2. Fresh /\ Going /\ Owed
  BY DEF Fresh, Going, Early, Owed
<1>3. QueueTyped
  BY DEF QueueTyped, QueuePCs, Batches, Items
<1>4. Unstarted /\ Counted /\ Waited
  BY DEF Unstarted, Counted, Waited, Batches
<1>5. Shown /\ BatchSettled
  BY DEF Shown, BatchSettled, InOrder, Items
<1> QED BY <1>1, <1>2, <1>3, <1>4, <1>5 DEF IInv, RunInv, QInv

LEMMA Invariance == Spec => []IInv
<1>1. IInv /\ [Next]_vars => IInv'
  <2> SUFFICES ASSUME IInv, [Next]_vars PROVE IInv'
    OBVIOUS
  <2>1. CASE Next
    BY <2>1, NextKeeps DEF IInv, RunsKept
  <2>2. CASE UNCHANGED vars
    BY <2>2, RunsStill, RunsAside DEF vars, IInv, RunsKept
  <2> QED BY <2>1, <2>2
<1> QED BY <1>1, InitIInv, PTL DEF Spec

\* The variables of the runs and of the queue have their types.
THEOREM Types == Spec => []TypeOK
<1>1. IInv => TypeOK
  BY DEF IInv, RunInv, QInv, QueueTyped, TypeOK
<1> QED BY <1>1, Invariance, PTL

\* When no run is going on the network is back at its default, however
\* reshapes and restores of any number of runs crossed (reshapeNetwork, the
\* restore of execute).
THEOREM NetworkIsRestored == Spec => []QuietNetworkIsDefault
<1>1. IInv => QuietNetworkIsDefault
  <2> SUFFICES ASSUME IInv, ~DockerFails,
                      \A r \in RunIds : pc[r] \in {"idle", "ended"} /\ state[r] # "error",
                      NEW p \in Peers
               PROVE  tc[p] = Default
    BY DEF QuietNetworkIsDefault, IInv, RunInv, RunsTypeOK
  <2>1. \A r \in RunIds : ~Owes(r, p) /\ ~Mends(r, p)
    BY DEF Owes, Mends
  <2> QED BY <2>1 DEF IInv, RunInv, Owed
<1> QED BY <1>1, Invariance, PTL

\* The status of a batch goes through its items in order and settles, whoever
\* writes to it: the cancel handler, its goroutine or that of an older batch
\* (updateQueueItemState, finishQueue).
THEOREM StatusSettles == Spec => []BatchSettled
<1>1. IInv => BatchSettled
  BY DEF IInv, QInv
<1> QED BY <1>1, Invariance, PTL

\* A batch starts a run only when its previous one is done (executeQueue,
\* waitRunDone).
THEOREM RunsFollowEachOther == Spec => OneRunAtATime
<1>1. IInv /\ [Next]_vars =>
        [\A b \in Batches : brun'[b] # brun[b] => brun[b] = 0 \/ state[brun[b]] = "done"]_vars
  <2> SUFFICES ASSUME IInv, Next, NEW b \in Batches, brun'[b] # brun[b]
               PROVE  brun[b] = 0 \/ state[brun[b]] = "done"
    OBVIOUS
  <2>1. ASSUME NEW e \in Batches, QueueStep(e)
        PROVE  UNCHANGED brun \/ (bpc[e] = "start" /\ brun' = [brun EXCEPT ![e] = started + 1])
    BY <2>1 DEF QueueStep, NextItem, MarkRunning, CheckRepeat, StartQueueRun, StartFails,
                AttachRun, RunWaited, Paused, MarkEnd, FinishQueue
  <2>2. PICK e \in Batches : bpc[e] = "start" /\ brun' = [brun EXCEPT ![e] = started + 1]
    BY <2>1 DEF Next, queueVars, HandleQueueStart, CallBatchCancel, HandleQueueCancel
  <2>3. e = b
    BY <2>2 DEF IInv, QInv, QueueTyped
  <2> QED BY <2>2, <2>3 DEF IInv, QInv, Waited
<1> QED BY <1>1, Invariance, PTL DEF Spec, OneRunAtATime
=============================================================================
