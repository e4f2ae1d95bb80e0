------------------------------ MODULE Playout -------------------------------
(***************************************************************************)
(* One video, delivered once, measured twice.  The blocks of a video arrive *)
(* at some time and in some order; the Bitswap client reports virtual      *)
(* segments as they complete, the GraphSync client's player takes the same *)
(* segments in order and records each when it gets it.  Both print events  *)
(* for the timeline, and both end with the summary of their tracker.  What *)
(* the program itself does takes no time here: only deliveries and the     *)
(* sleeps of the player do.                                                *)
(***************************************************************************)
EXTENDS Layout, Timeline

CONSTANTS
  BasePlaybackMs, Speeds,   \* what the form of the UI asks for
  IndexTimes,               \* how long the Bitswap client indexes the DAG
  Peers,
  MaxTime,                  \* bound: blocks arrive by then
  MaxLate                   \* bound: fetches that end although a rescue overtook them

ASSUME PlayoutAssumption ==
  /\ BasePlaybackMs \in Nat \ {0} /\ Speeds \subseteq Nat \ {0} /\ IndexTimes \subseteq Nat
  /\ "none" \notin Peers /\ MaxTime \in Nat /\ MaxLate \in Nat

VARIABLES
  phase,      \* "build", "stream" and "summary"
  speed, indexing,
  now,        \* milliseconds since the clients started to fetch
  from,       \* who delivered each block, "none" before
  got,        \* segmentReadiness: bytes of each virtual segment
  loaded,     \* when the last byte of each segment arrived
  player,     \* the segment it waits for, and when its sleep ends
  tracker,    \* segmentReady of each client's tracker
  results,    \* results the GraphSync client printed, as far as they are not read yet
  late,       \* how many results of overtaken fetches there were
  model,      \* the timeline of what each client has printed
  total,      \* totalDuration of each client
  at, q       \* the loop of computeQoE, for each client

streamVars == <<now, from, got, loaded, player, tracker, results, late, model, total>>
inputVars == <<speed, indexing>>
vars == <<layoutVars, phase, inputVars, streamVars, at, q>>

Clients == {"bitswap", "graphsync"}

\* buildRunPayload: what the run is told, and both clients use as it is
playbackMs ==
  Larger(1, (2 * BasePlaybackMs + speed) \div (2 * speed))

-----------------------------------------------------------------------------
(* The video is seeded, then both clients start.                           *)

Build ==
  /\ phase = "build"
  /\ BuildChunk \/ FlushLast
  /\ UNCHANGED <<phase, inputVars, streamVars, at, q>>

NothingReady == [s \in Segs |-> Never]

Start ==
  /\ phase = "build" /\ Built
  /\ phase' = "stream"
  /\ from' = [c \in mediaCIDs |-> "none"]
  /\ got' = [s \in Segs |-> 0]
  /\ loaded' = NothingReady
  /\ tracker' = [c \in Clients |-> NothingReady]
  /\ model' = [c \in Clients |-> NewModel(SegmentCount)]
  /\ UNCHANGED <<layoutVars, inputVars, now, player, results, late, total, at, q>>

-----------------------------------------------------------------------------
(* Deliveries.                                                             *)

Bytes(s) == (s * SegmentSize)..(Smaller((s + 1) * SegmentSize, file.size) - 1)
BytesOf(ranges) == UNION {r[1]..(r[2] - 1) : r \in ranges}
BlockSize(c) == LET r == CHOOSE x \in Index(c) : TRUE IN r[2] - r[1]
Arrived(f) == UNION {BytesOf(Index(c)) : c \in {x \in mediaCIDs : f[x] # "none"}}

\* the Bitswap client's loop over the blocks; the segments that are complete
\* now are what fetches of the GraphSync client return
Receive(c, p) ==
  LET ranges == Index(c)
      complete == {s \in Segs : loaded[s] = Never /\ Bytes(s) \subseteq Arrived(from')}
      ready == NewlyReady(got, ranges)
  IN
  /\ phase = "stream" /\ from[c] = "none"
  /\ from' = [from EXCEPT ![c] = p]
  /\ got' = addBlock(got, ranges)
  /\ tracker' = [tracker EXCEPT !["bitswap"] = RecordSegmentReady(@, ready, now + indexing)]
  /\ model' = [model EXCEPT !["bitswap"] =
                 ParseSegmentsReady(
                   ParseBlock(@, segmentsForRanges(ranges), p, BlockSize(c)),
                   ready, now + indexing)]
  /\ total' = [total EXCEPT !["bitswap"] = now + indexing]
  /\ loaded' = [s \in Segs |-> IF s \in complete THEN now ELSE loaded[s]]
  /\ results' = results \cup {<<s, now, p>> : s \in complete}
  /\ UNCHANGED <<layoutVars, phase, inputVars, now, player, late, at, q>>

\* a fetch that was overtaken by a rescue of the same segment ends: it prints a
\* result, too
LateResult(s, p) ==
  /\ phase = "stream" /\ loaded[s] # Never /\ late < MaxLate /\ player.next < SegmentCount
  /\ late' = late + 1
  /\ results' = results \cup {<<s, now, p>>}
  /\ UNCHANGED <<layoutVars, phase, inputVars, now, from, got, loaded, player, tracker, model, total, at, q>>

-----------------------------------------------------------------------------
(* The player of the GraphSync client.                                     *)

\* the segment is recorded after the sleep
BugRecordedAt == now + playbackMs

RecordedAt == now

\* the sleep is counted from where the last one should have ended
BugSleepUntil == player.free + playbackMs

SleepUntil == now + playbackMs

PlayerDue ==
  /\ phase = "stream" /\ player.next < SegmentCount
  /\ loaded[player.next] # Never /\ now >= player.free

\* Get returns; the segment is recorded as ready now, and there is no sleep
\* after the last one
Consume ==
  /\ PlayerDue
  /\ tracker' = [tracker EXCEPT !["graphsync"] = RecordSegmentReady(@, {player.next}, RecordedAt)]
  /\ player' = [next |-> player.next + 1, free |-> SleepUntil]
  /\ total' = [total EXCEPT !["graphsync"] = now]
  /\ UNCHANGED <<layoutVars, phase, inputVars, now, from, got, loaded, results, late, model, at, q>>

AllArrived == \A c \in mediaCIDs : from[c] # "none"

\* deliveries end by MaxTime; playback may take longer
Tick ==
  /\ phase = "stream" /\ ~PlayerDue
  /\ now < MaxTime \/ (AllArrived /\ player.next < SegmentCount)
  /\ now' = now + 1
  /\ UNCHANGED <<layoutVars, phase, inputVars, from, got, loaded, player, tracker,
                 results, late, model, total, at, q>>

Played == phase = "stream" /\ AllArrived /\ player.next = SegmentCount

\* parseTimelineOutput reads what the GraphSync client printed; goroutines stamp
\* their results before they print them, so the lines of a segment come in any
\* order (lines of different segments do not touch the same entries)
ReadResult(line) ==
  /\ Played /\ line \in results /\ \A other \in results : line[1] <= other[1]
  /\ results' = results \ {line}
  /\ model' = [model EXCEPT !["graphsync"] = ParseResult(@, line[1], line[2], line[3])]
  /\ UNCHANGED <<layoutVars, phase, inputVars, now, from, got, loaded, player, tracker, late, total, at, q>>

-----------------------------------------------------------------------------
(* computeQoE, for both clients at once.                                   *)

startup(c) == startupDelay(tracker[c], total[c])
Deadline(c, s) == startup(c) + s * playbackMs

Summarise ==
  /\ Played /\ results = {}
  /\ phase' = "summary"
  /\ q' = [c \in Clients |-> qoeInit(startup(c))]
  /\ UNCHANGED <<layoutVars, inputVars, streamVars, at>>

SummaryStep ==
  /\ phase = "summary" /\ at < SegmentCount
  /\ q' = [c \in Clients |->
             Accumulate(q[c], tracker[c][at], Deadline(c, at), playbackMs, total[c])]
  /\ at' = at + 1
  /\ UNCHANGED <<layoutVars, phase, inputVars, streamVars>>

-----------------------------------------------------------------------------
Init ==
  /\ LayoutInit
  /\ phase = "build"
  /\ speed \in Speeds /\ indexing \in IndexTimes
  /\ now = 0 /\ from = <<>> /\ got = <<>> /\ loaded = <<>>
  /\ player = [next |-> 0, free |-> 0]
  /\ tracker = [c \in Clients |-> <<>>]
  /\ results = {} /\ late = 0
  /\ model = [c \in Clients |-> NewModel(0)]
  /\ total = [c \in Clients |-> 0]
  /\ at = 0 /\ q = [c \in Clients |-> qoeInit(0)]

Next ==
  \/ Build \/ Start
  \/ \E p \in Peers : (\E c \in mediaCIDs : Receive(c, p)) \/ (\E s \in Segs : LateResult(s, p))
  \/ \E line \in results : ReadResult(line)
  \/ Consume \/ Tick
  \/ Summarise \/ SummaryStep

Spec == Init /\ [][Next]_vars

-----------------------------------------------------------------------------
(* Properties.                                                             *)

Summaries ==
  [clock : Nat, stallCount : Nat, stallDurations : Seq(Nat), stallTime : Nat,
   misses : Nat, inStall : BOOLEAN]

Models ==
  [ready : [Segs -> Nat \cup {Never}], peer : [Segs -> Peers \cup {"none"}],
   order : [Segs -> Seq(Peers \X Nat)]]

\* The variables have their types.
TypeOK ==
  /\ phase \in {"build", "stream", "summary"}
  /\ <<file.size, file.block>> \in Files /\ file.twins \in BOOLEAN /\ read \in 0..file.size
  /\ nodes \in Seq(Nat \X Nat) /\ segments \in Seq(Seq(Nat \X Nat))
  /\ speed \in Speeds /\ indexing \in IndexTimes /\ now \in Nat
  /\ player \in [next : Nat, free : Nat] /\ total \in [Clients -> Nat]
  /\ late \in 0..MaxLate /\ at \in Nat
  /\ results \subseteq Nat \X Nat \X Peers /\ q \in [Clients -> Summaries]
  /\ DOMAIN tracker = Clients /\ DOMAIN model = Clients
  /\ phase # "build" =>
       /\ from \in [mediaCIDs -> Peers \cup {"none"}] /\ got \in [Segs -> Nat]
       /\ loaded \in [Segs -> Nat \cup {Never}]
       /\ \A c \in Clients : tracker[c] \in [Segs -> Nat \cup {Never}] /\ model[c] \in Models

\* Segment i of the layout, read back, is bytes i * SegmentSize onwards: the
\* range the Bitswap client counts as virtual segment i, so that readiness of
\* the two clients is about the same bytes.  decodeRoot's chunk count is right.
SegmentsAreRanges ==
  phase # "build" =>
    /\ SegmentCount = CeilDiv(file.size, SegmentSize)
    /\ \A s \in Segs :
         ReadSegment(segments[s + 1]) = [k \in 1..Cardinality(Bytes(s)) |-> s * SegmentSize + k - 1]
    /\ FoldSeq(LAMBDA chunks, n : n + Len(chunks), 0, segments) = DecodedChunkCount

Whole(s) == Cardinality(Bytes(s)) = SegmentSize

\* A virtual segment is reported ready at the moment its last byte arrived,
\* neither before nor after, whatever the order and the sizes of the blocks;
\* the short segment at the end of a video is never reported.
VirtualSegmentsExact ==
  phase # "build" =>
    \A s \in Segs :
      tracker["bitswap"][s] = IF Whole(s) /\ loaded[s] # Never THEN loaded[s] + indexing ELSE Never

Done == phase = "summary" /\ at = SegmentCount
AllWhole == file.size % SegmentSize = 0

\* The two ways to record readiness - when the bytes arrive, when the player
\* takes the segment - lead to the same startup delay (but for the time the
\* Bitswap client indexes), the same stalls and the same end of playback.
\* Deadline misses agree only in whether there are any: after a stall every
\* segment the GraphSync player takes is late.
SameQoE ==
  Done /\ AllWhole =>
    /\ startup("bitswap") = startup("graphsync") + indexing
    /\ q["bitswap"].clock = q["graphsync"].clock + indexing
    /\ \A f \in {"stallCount", "stallTime", "stallDurations"} : q["bitswap"][f] = q["graphsync"][f]
    /\ q["bitswap"].misses <= q["graphsync"].misses
    /\ q["bitswap"].misses = 0 <=> q["graphsync"].misses = 0

\* At each segment the clock is what the plan and the stalls so far make of it;
\* no stall goes without a missed deadline, and no late segment without a stall;
\* the stalls that are reported one by one add up to the stall time.
ClockIsPlanAndStalls ==
  phase = "summary" =>
    \A c \in Clients :
      /\ q[c].clock = startup(c) + at * playbackMs + q[c].stallTime
      /\ q[c].stallTime > 0 => q[c].misses > 0
      /\ q[c].misses > 0 =>
           q[c].stallTime > 0 \/ \E s \in 0..(at - 1) : tracker[c][s] = Never
      /\ q[c].stallCount = Len(q[c].stallDurations)
      /\ q[c].stallTime = FoldSeq(LAMBDA d, n : d + n, 0, q[c].stallDurations)

Lag(c) == IF c = "bitswap" THEN indexing ELSE 0

\* The video of a run shows at each moment the segments as played that the
\* player had played then, although it only knows when segments arrived and
\* lines may be printed out of order and more than once.
ProjectionIsPlayback ==
  Done /\ AllWhole =>
    \A c \in Clients : \A t \in 0..(q["graphsync"].clock + 1) :
      ProjectedIndex(model[c].ready, SegmentCount, playbackInterval(playbackMs, speed), t + Lag(c))
        = Cardinality({s \in Segs : tracker["graphsync"][s] + playbackMs <= t})

\* A segment of the Bitswap timeline has the colour of a peer that delivered
\* bytes of it.
ColoursAreTrue ==
  phase # "build" =>
    LET colours == finalizeTimelineSegmentPeers(model["bitswap"]) IN
    \A s \in Segs : colours[s] # "none" =>
      \E c \in mediaCIDs : from[c] = colours[s] /\ BytesOf(Index(c)) \cap Bytes(s) # {}
=============================================================================
