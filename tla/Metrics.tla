------------------------------ MODULE Metrics -------------------------------
(***************************************************************************)
(* src/pkg/metrics: the tracker of a client records when each segment was  *)
(* ready, and its summary plays the segments against that: playback starts *)
(* when segment 0 is ready, a segment takes one interval, and a segment    *)
(* that is not ready when its turn comes stalls the playback.  Times are   *)
(* natural numbers from the start of the tracker.                          *)
(***************************************************************************)
EXTENDS Integers, Sequences

Never == -1   \* no entry in segmentReady

\* RecordSegmentReady for each of some segments; it keeps the earliest time
RecordSegmentReady(ready, segs, t) ==
  [s \in DOMAIN ready |->
     IF s \in segs /\ ~(ready[s] > 0 /\ t >= ready[s]) THEN t ELSE ready[s]]

startupDelay(ready, total) ==
  IF ready[0] # Never /\ ready[0] <= total THEN ready[0] ELSE total

qoeInit(startup) ==
  [clock |-> startup, stallCount |-> 0, stallDurations |-> <<>>, stallTime |-> 0,
   misses |-> 0, inStall |-> FALSE]

\* Seeded faults (Bug...): plausible slips in the operator below them, used by
\* no specification.

\* a stall is as long as its last wait
BugWaited(q, wait) ==
  IF q.inStall THEN [q.stallDurations EXCEPT ![Len(q.stallDurations)] = wait]
               ELSE Append(q.stallDurations, wait)

\* waits for consecutive segments are one stall
Waited(q, wait) ==
  IF q.inStall THEN [q.stallDurations EXCEPT ![Len(q.stallDurations)] = @ + wait]
               ELSE Append(q.stallDurations, wait)

Stall(q, readyAt) ==
  LET wait == readyAt - q.clock IN
  IF readyAt > q.clock
  THEN [q EXCEPT !.clock = readyAt, !.stallTime = @ + wait, !.inStall = TRUE,
          !.stallCount = IF q.inStall THEN @ ELSE @ + 1, !.stallDurations = Waited(q, wait)]
  ELSE [q EXCEPT !.inStall = FALSE]

Missed(readyAt, deadline) == readyAt = Never \/ readyAt > deadline

\* one turn of the loop of computeQoE: a segment that was never ready counts as
\* ready at the end of the run
Accumulate(q, readyAt, deadline, interval, total) ==
  LET waited == Stall(q, IF readyAt = Never THEN total ELSE readyAt)
  IN  [waited EXCEPT !.clock = @ + interval,
                     !.misses = IF Missed(readyAt, deadline) THEN @ + 1 ELSE @]
=============================================================================
