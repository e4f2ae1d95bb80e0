------------------------------ MODULE Timeline ------------------------------
(***************************************************************************)
(* The timeline export of the benchmark server reads the events a client   *)
(* printed (parseTimelineOutput) and draws what had been loaded and played *)
(* at each moment of the run.  Operators on the model it builds.           *)
(***************************************************************************)
EXTENDS Integers, FiniteSets, Functions, Metrics

\* an empty model of n segments; PeerBytes and its keys in order of appearance
NewModel(n) ==
  [ready |-> [s \in 0..(n - 1) |-> Never],      \* ReadyTimes
   peer |-> [s \in 0..(n - 1) |-> "none"],      \* SegmentPeer
   order |-> [s \in 0..(n - 1) |-> <<>>]]       \* SegmentPeerOrder with SegmentPeerBytes

\* setMinTime for each of some segments
setMinTime(times, segs, t) ==
  [s \in DOMAIN times |->
     IF s \in segs /\ (times[s] = Never \/ t < times[s]) THEN t ELSE times[s]]

\* "scheduler_result" of a fetch that succeeded: the first time, the last peer
ParseResult(model, s, t, p) ==
  [model EXCEPT !.ready = setMinTime(@, {s}, t), !.peer[s] = p]

\* lines of "bitswap_virtual_segment_ready"
ParseSegmentsReady(model, segs, t) == [model EXCEPT !.ready = setMinTime(@, segs, t)]

\* addTimelineBitswapSegmentPeerBytes: the bytes of a block are shared equally
\* between the segments it touches
Share(bytes, segs) == LET share == bytes \div Cardinality(segs) IN IF share < 1 THEN 1 ELSE share

AddBytes(order, p, share) ==
  IF \E i \in DOMAIN order : order[i][1] = p
  THEN [i \in DOMAIN order |-> IF order[i][1] = p THEN <<p, order[i][2] + share>> ELSE order[i]]
  ELSE Append(order, <<p, share>>)

\* "bitswap_block_received"
ParseBlock(model, segs, p, bytes) ==
  [model EXCEPT !.order = [s \in DOMAIN @ |-> IF s \in segs THEN AddBytes(@[s], p, Share(bytes, segs)) ELSE @[s]]]

\* finalizeTimelineSegmentPeers: the first of those with the most bytes
finalizeTimelineSegmentPeers(model) ==
  [s \in DOMAIN model.order |->
     IF model.order[s] = <<>> THEN model.peer[s]
     ELSE LET order == model.order[s]
              best == CHOOSE i \in DOMAIN order :
                        /\ \A j \in DOMAIN order : order[j][2] <= order[i][2]
                        /\ \A j \in 1..(i - 1) : order[j][2] < order[i][2]
          IN  order[best][1]]

-----------------------------------------------------------------------------
\* playbackIntervalNs, in milliseconds
playbackInterval(playbackMs, speed) == playbackMs \div speed

\* consumedAt of each segment: it starts when it is ready and its predecessor is
\* over
ConsumedAt(ready, n, interval) ==
  LET end[k \in 0..n] ==
        IF k = 0 THEN ready[0]
        ELSE (IF ready[k - 1] > end[k - 1] THEN ready[k - 1] ELSE end[k - 1]) + interval
  IN  [k \in 0..(n - 1) |-> end[k + 1]]

\* the index of computeTimelinePlaybackProjection: segments played by time t,
\* as far as all before them are ready
ProjectedIndex(ready, n, interval, t) ==
  Cardinality({k \in 0..(n - 1) :
    /\ \A j \in 0..k : ready[j] # Never
    /\ t >= ConsumedAt(ready, n, interval)[k]})
=============================================================================
