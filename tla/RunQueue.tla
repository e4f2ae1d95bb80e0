------------------------------ MODULE RunQueue ------------------------------
(***************************************************************************)
(* The run queue of the benchmark server: a batch of items is worked off   *)
(* by a goroutine (executeQueue) that starts one run after the other and   *)
(* watches each through its status.  A cancelled batch may still have its  *)
(* goroutine when the next batch is started.  Composed with Runs, whose    *)
(* goroutines it starts and whose maps it shares.                          *)
(***************************************************************************)
EXTENDS Runs

CONSTANTS
  MaxBatches,   \* bound: how many batches are ever started
  NItems,       \* items of a batch
  Repeat        \* RepeatCount of every item

ASSUME QueueAssumption ==
  MaxBatches \in Nat /\ NItems \in Nat \ {0} /\ Repeat \in Nat \ {0}

Batches == 1..MaxBatches
Items == 1..NItems

VARIABLES
  batch,     \* s.batch: id, state, its items' states and the current run (0: none)
  bpc,       \* where each batch's goroutine is
  payload,   \* the conditions each item of a batch asks for
  item,      \* the item the goroutine is at
  rep,       \* repeats of it that were started
  brun,      \* the run it waits for
  outcome,   \* what it is about to record for its item and for the batch
  bcalls,    \* batches whose cancel function was taken but not yet called
  bstopped   \* batches whose context is cancelled

queueVars == <<batch, bpc, payload, item, rep, brun, outcome, bcalls, bstopped>>
vars == <<runVars, queueVars>>

BGoto(b, l) == bpc' = [bpc EXCEPT ![b] = l]

\* Seeded faults (Bug...): plausible slips in the operator below them, used by
\* no specification.

\* the item is marked whichever batch is shown
BugMarkItem(b, s) == batch' = [batch EXCEPT !.items[item[b]] = s]

\* updateQueueItemState: nothing once another batch has taken the place
MarkItem(b, s) ==
  batch' = IF batch.id = b THEN [batch EXCEPT !.items[item[b]] = s] ELSE batch

-----------------------------------------------------------------------------
(* Requests.                                                               *)

\* refused while a batch is running
HandleQueueStart(b, p) ==
  /\ batch.state # "running"
  /\ b = batch.id + 1
  /\ batch' = [id |-> b, state |-> "running", items |-> [i \in Items |-> "pending"], current |-> 0]
  /\ payload' = [payload EXCEPT ![b] = p]
  /\ BGoto(b, "items")
  /\ UNCHANGED <<runVars, item, rep, brun, outcome, bcalls, bstopped>>

\* the locked region; both cancel functions are called after the unlock.  A
\* run that has not stored its CancelFunc yet gets the request only
HandleQueueCancel ==
  LET r == batch.current
      b == batch.id
  IN
  /\ batch.state = "running"
  /\ batch' = [batch EXCEPT !.state = "cancelled",
                 !.items = [i \in Items |-> IF @[i] \in {"running", "pending"} THEN "cancelled" ELSE @[i]]]
  /\ bcalls' = bcalls \cup {b}
  /\ cancelReq' = cancelReq \cup (IF r # 0 /\ state[r] = "running" THEN {r} ELSE {})
  /\ calls' = calls \cup (hasCancel \cap {r})
  /\ UNCHANGED <<started, state, pc, net, applied, at, hasCancel, stopped, tc,
                 bpc, payload, item, rep, brun, outcome, bstopped>>

CallBatchCancel(b) ==
  /\ b \in bcalls
  /\ bcalls' = bcalls \ {b}
  /\ bstopped' = bstopped \cup {b}
  /\ UNCHANGED <<runVars, batch, bpc, payload, item, rep, brun, outcome>>

-----------------------------------------------------------------------------
(* executeQueue.                                                           *)

\* the loop records an outcome for the item (unless it is between items) and
\* then for the batch
Stop(b, o, l) ==
  /\ outcome' = [outcome EXCEPT ![b] = o]
  /\ BGoto(b, l)

NextItem(b) ==
  /\ bpc[b] = "items"
  /\ \/ item[b] = NItems /\ Stop(b, "done", "finish") /\ UNCHANGED item
     \/ item[b] < NItems /\ b \in bstopped /\ Stop(b, "cancelled", "finish") /\ UNCHANGED item
     \/ /\ item[b] < NItems /\ b \notin bstopped
        /\ item' = [item EXCEPT ![b] = @ + 1]
        /\ BGoto(b, "mark")
        /\ UNCHANGED outcome
  /\ UNCHANGED <<runVars, batch, payload, rep, brun, bcalls, bstopped>>

MarkRunning(b) ==
  /\ bpc[b] = "mark"
  /\ MarkItem(b, "running")
  /\ rep' = [rep EXCEPT ![b] = 0]
  /\ BGoto(b, "repeat")
  /\ UNCHANGED <<runVars, payload, item, brun, outcome, bcalls, bstopped>>

\* the context is looked at before the run is prepared, not after
CheckRepeat(b) ==
  /\ bpc[b] = "repeat"
  /\ IF b \in bstopped THEN Stop(b, "cancelled", "markEnd")
                       ELSE BGoto(b, "start") /\ UNCHANGED outcome
  /\ UNCHANGED <<runVars, batch, payload, item, rep, brun, bcalls, bstopped>>

StartQueueRun(b) ==
  /\ bpc[b] = "start"
  /\ StartRun(payload[b][item[b]])
  /\ brun' = [brun EXCEPT ![b] = started + 1]
  /\ rep' = [rep EXCEPT ![b] = @ + 1]
  /\ BGoto(b, "attach")
  /\ UNCHANGED <<batch, payload, item, outcome, bcalls, bstopped>>

\* prepareRunRequest fails
StartFails(b) ==
  /\ bpc[b] = "start"
  /\ Stop(b, "error", "markEnd")
  /\ UNCHANGED <<runVars, batch, payload, item, rep, brun, bcalls, bstopped>>

AttachRun(b) ==
  /\ bpc[b] = "attach"
  /\ batch' = IF batch.id = b THEN [batch EXCEPT !.current = brun[b]] ELSE batch
  /\ BGoto(b, "wait")
  /\ UNCHANGED <<runVars, payload, item, rep, brun, outcome, bcalls, bstopped>>

\* waitRunDone returns the first status it reads
BugFinished(r) == r # 0

\* the loop of waitRunDone polls the status
Finished(r) == state[r] # "running"

\* waitRunDone looks at the context only when the run has ended
BugInterrupted(b) == b \in bstopped /\ Finished(brun[b])

\* ... until the context of the batch is done
Interrupted(b) == b \in bstopped

\* only an error ends the batch
BugSucceeded(s) == s # "error"

\* any other status ends the batch
Succeeded(s) == s = "done"

\* waitRunDone returns, and its answer is looked at; the pause between two
\* runs ends with a timer or with the context
RunWaited(b) ==
  /\ bpc[b] = "wait"
  /\ IF Interrupted(b) THEN Stop(b, "cancelled", "markEnd")
     ELSE /\ Finished(brun[b])
          /\ IF Succeeded(state[brun[b]]) THEN BGoto(b, "pause") /\ UNCHANGED outcome
             ELSE Stop(b, state[brun[b]], "markEnd")
  /\ UNCHANGED <<runVars, batch, payload, item, rep, brun, bcalls, bstopped>>

Paused(b) ==
  /\ bpc[b] = "pause"
  /\ \/ rep[b] < Repeat /\ BGoto(b, "repeat") /\ UNCHANGED outcome
     \/ rep[b] = Repeat /\ Stop(b, "done", "markEnd")
     \/ /\ b \in bstopped
        /\ rep[b] < Repeat \/ item[b] < NItems
        /\ Stop(b, "cancelled", "markEnd")
  /\ UNCHANGED <<runVars, batch, payload, item, rep, brun, bcalls, bstopped>>

MarkEnd(b) ==
  /\ bpc[b] = "markEnd"
  /\ MarkItem(b, outcome[b])
  /\ BGoto(b, IF outcome[b] = "done" THEN "items" ELSE "finish")
  /\ UNCHANGED <<runVars, payload, item, rep, brun, outcome, bcalls, bstopped>>

\* finishQueue; the deferred function finds nothing left to do.  The locals of
\* the goroutine end with it, and nobody looks at its context any more
FinishQueue(b) ==
  /\ bpc[b] = "finish"
  /\ batch' = IF batch.id = b /\ batch.state = "running"
                THEN [batch EXCEPT !.state = outcome[b]] ELSE batch
  /\ item' = [item EXCEPT ![b] = 0] /\ rep' = [rep EXCEPT ![b] = 0]
  /\ outcome' = [outcome EXCEPT ![b] = "done"]
  /\ bcalls' = bcalls \ {b} /\ bstopped' = bstopped \ {b}
  /\ BGoto(b, "ended")
  /\ UNCHANGED <<runVars, payload, brun>>

-----------------------------------------------------------------------------
Init ==
  /\ RunsInit
  /\ batch = [id |-> 0, state |-> "idle", items |-> [i \in Items |-> "pending"], current |-> 0]
  /\ bpc = [b \in Batches |-> "idle"]
  /\ payload = [b \in Batches |-> [i \in Items |-> Default]]
  /\ item = [b \in Batches |-> 0]
  /\ rep = [b \in Batches |-> 0]
  /\ brun = [b \in Batches |-> 0]
  /\ outcome = [b \in Batches |-> "done"]
  /\ bcalls = {} /\ bstopped = {}

QueueStep(b) ==
  \/ NextItem(b) \/ MarkRunning(b) \/ CheckRepeat(b) \/ StartQueueRun(b) \/ StartFails(b)
  \/ AttachRun(b) \/ RunWaited(b) \/ Paused(b) \/ MarkEnd(b) \/ FinishQueue(b)

Next ==
  \/ (HandleRun \/ RunsStep) /\ UNCHANGED queueVars
  \/ \E b \in Batches :
       \/ \E p \in [Items -> Networks] : HandleQueueStart(b, p)
       \/ QueueStep(b)
       \/ CallBatchCancel(b)
  \/ HandleQueueCancel

Spec == Init /\ [][Next]_vars

(***************************************************************************)
(* Goroutines run, docker commands return, and a process whose context is  *)
(* cancelled is killed.  That a client command ends by itself is not       *)
(* assumed, nor that anybody cancels anything.                             *)
(***************************************************************************)
Fairness ==
  /\ \A r \in RunIds : WF_vars(ExecuteStep(r) /\ UNCHANGED queueVars) /\ WF_vars(CallCancel(r) /\ UNCHANGED queueVars)
  /\ \A b \in Batches : WF_vars(QueueStep(b)) /\ WF_vars(CallBatchCancel(b))

FairSpec == Spec /\ Fairness

-----------------------------------------------------------------------------
(* Types.                                                                  *)

QueuePCs == {"idle", "items", "mark", "repeat", "start", "attach", "wait", "pause",
             "markEnd", "finish", "ended"}

\* The variables have their types: the status records of batches and the
\* program counters of their goroutines, next to the state of the runs.
TypeOK ==
  /\ RunsTypeOK
  /\ batch \in [id : 0..MaxBatches, state : RunStates \cup {"idle"},
                items : [Items -> RunStates \cup {"pending"}], current : 0..MaxRuns]
  /\ bpc \in [Batches -> QueuePCs]
  /\ payload \in [Batches -> [Items -> Networks]]
  /\ item \in [Batches -> 0..NItems]
  /\ rep \in [Batches -> 0..Repeat]
  /\ brun \in [Batches -> 0..MaxRuns]
  /\ outcome \in [Batches -> RunStates \ {"running"}]
  /\ bcalls \subseteq Batches /\ bstopped \subseteq Batches

-----------------------------------------------------------------------------
(* Safety.                                                                 *)

\* The items are worked off in order, and nothing the cancel handler, an
\* older batch or a failing run writes in between makes the status show an
\* item as running or done before all earlier ones are done.
InOrder ==
  \A i \in Items : batch.items[i] \in {"running", "done"} =>
    \A j \in 1..(i - 1) : batch.items[j] = "done"

\* The status of a batch makes sense whoever writes to it: its items are in
\* order, and once its goroutine has ended it has settled - the batch is not
\* running, none of its items is, and a batch that is done has only done items.
BatchSettled ==
  /\ InOrder
  /\ batch.id # 0 /\ bpc[batch.id] = "ended" =>
       batch.state # "running" /\ \A i \in Items : batch.items[i] # "running"
  /\ batch.state = "done" => \A i \in Items : batch.items[i] = "done"

\* A batch starts its next run only after its previous one has a final
\* status, and not after a run that failed or was cancelled.
OneRunAtATime ==
  [][\A b \in Batches :
       brun'[b] # brun[b] => brun[b] = 0 \/ state[brun[b]] = "done"]_vars

-----------------------------------------------------------------------------
(* Liveness, under FairSpec.                                               *)

\* The goroutine of a cancelled batch ends, whatever its run does.
QueueCancelEnds ==
  \A b \in Batches : (batch.id = b /\ batch.state = "cancelled") ~> (bpc[b] = "ended")

\* The button "Batch stoppen": the run that a stopped batch had started comes
\* to an end.  It need not: a run that has not stored its CancelFunc yet, or
\* is not attached to the batch yet, is not cancelled.
StopStopsRun ==
  \A b \in Batches :
    (batch.id = b /\ batch.state = "cancelled") ~> (brun[b] = 0 \/ Finished(brun[b]))
=============================================================================
