------------------------------ MODULE Prefetch ------------------------------
(***************************************************************************)
(* The segment prefetcher of the streaming client (src/pkg/prefetch): one  *)
(* player goroutine asks for the segments in playback order, a pool of     *)
(* workers fetches the following ones ahead of time, and a slow flight may *)
(* be overtaken by a rescue fetch.  All of them meet in a handful of maps  *)
(* under one mutex.  Every action below is one locked region, one channel  *)
(* operation or one return of the (external) SegmentFetcher, so TLC        *)
(* interleaves the goroutines exactly where the mutex lets them interleave.*)
(***************************************************************************)
EXTENDS Naturals, Integers, Sequences, FiniteSets

CONSTANTS
  LastSegment,       \* SetMaxIndex(SegmentCount - 1)
  Workers,           \* the goroutines of Start
  Player,            \* the goroutine that runs the playback loop
  PrefetchSegments,  \* how many segments one Get schedules
  QueueCap,          \* capacity of the queue channel (128 in the code)
  UrgentWindow,      \* RescueInflightRange looks this far ahead
  NoActor

ASSUME LastSegmentAssumption == LastSegment \in Nat
ASSUME ActorAssumption == Player \notin Workers /\ NoActor \notin Workers \cup {Player}
ASSUME PrefetchAssumption == PrefetchSegments \in Nat
ASSUME QueueAssumption == QueueCap \in Nat
ASSUME WindowAssumption == UrgentWindow \in Int

Segments == 0..LastSegment
Actors == Workers \cup {Player}

VARIABLES
  cache,      \* segments whose bytes are in the cache map
  inflight,   \* the inflight set
  wait,       \* inflightWait: the channel of a segment, 0 when it has none
  made,       \* how many channels were made for a segment (names the channels)
  closed,     \* closed[i]: the channels of i that were closed
  cancelOf,   \* inflightCancel: whose fetch the stored CancelFunc cancels
  errs,       \* keys of inflightErr
  rescued,    \* the rescued set
  queue,      \* the queue channel
  ctxDone,    \* the prefetcher's context was cancelled by Stop
  pc,         \* where each goroutine is
  seg,        \* the segment each goroutine is handling
  cancelled,  \* goroutines whose current fetch context was cancelled
  cur,        \* the segment the player plays (currentIndex)
  pos,        \* the next index the player's enqueuePrefetch looks at
  chan,       \* the channel the player waits on
  pending,    \* indexes RescueInflightRange has yet to try
  watch       \* goroutines of RequestRescue running rescueAndWait; two of the
              \* same channel and state differ in nothing and are one element

maps == <<cache, inflight, wait, made, closed, cancelOf, errs, rescued>>
player == <<cur, pos, chan, pending>>
vars == <<maps, queue, ctxDone, pc, seg, cancelled, player, watch>>

-----------------------------------------------------------------------------
(* Helpers: the effects that several locked regions share.                 *)

Goto(a, l) == pc' = [pc EXCEPT ![a] = l]

\* Seeded faults (the definitions named Bug...) are what the operator below
\* them would be with a plausible slip in the Go code.  No specification uses
\* them; they show that the properties notice.

\* storeRescueResult calling p.cancel() for the flight's cancel()
BugCancelAll(i) == cancelled' = cancelled \cup {a \in Actors : pc[a] = "fetch"}

\* fetchCtx of the goroutine whose CancelFunc is stored for i
CancelStored(i) == cancelled' = cancelled \cup ({cancelOf[i]} \ {NoActor})

\* the channel is closed but stays registered
BugCloseOnly(i) ==
  /\ closed' = [closed EXCEPT ![i] = @ \cup ({wait[i]} \ {0})]
  /\ UNCHANGED wait

\* the channel is unregistered but not closed
BugUnregisterOnly(i) ==
  /\ wait' = [wait EXCEPT ![i] = 0]
  /\ UNCHANGED closed

\* close(waitCh); delete(p.inflightWait, i)
CloseWait(i) ==
  /\ closed' = [closed EXCEPT ![i] = @ \cup ({wait[i]} \ {0})]
  /\ wait' = [wait EXCEPT ![i] = 0]

\* only the channel is registered
BugRegisterWaitOnly(i) ==
  /\ made' = [made EXCEPT ![i] = @ + 1]
  /\ wait' = [wait EXCEPT ![i] = made[i] + 1]
  /\ UNCHANGED inflight

\* p.inflight[i] = struct{}{}; p.inflightWait[i] = make(chan struct{})
Register(i) ==
  /\ inflight' = inflight \cup {i}
  /\ made' = [made EXCEPT ![i] = @ + 1]
  /\ wait' = [wait EXCEPT ![i] = made[i] + 1]

\* storeRescueResult: the rescue wins, the primary is cancelled, waiters wake
StoreRescueResult(i) ==
  /\ cache' = cache \cup {i}
  /\ inflight' = inflight \ {i}
  /\ rescued' = rescued \ {i}
  /\ errs' = errs \ {i}
  /\ CancelStored(i)
  /\ cancelOf' = [cancelOf EXCEPT ![i] = NoActor]
  /\ CloseWait(i)
  /\ UNCHANGED made

\* consumeInflightResult: the first consumer of an error removes it
ConsumeInflightResult(i) == errs' = IF i \in cache THEN errs ELSE errs \ {i}

\* the select of a goroutine that waits on channel c of segment i
Woken(i, c) == c \in closed[i]

Watcher(i, c, s) == [seg |-> i, chan |-> c, st |-> s]

\* the locked region of RequestRescue(i) once ShouldRescue(i) said yes
RescueGranted(i) == wait[i] # 0 /\ i \notin rescued

\* RequestRescue looks at the mark without setting it
BugStartUnmarked(i) ==
  /\ RescueGranted(i)
  /\ watch' = watch \cup {Watcher(i, wait[i], "racing")}
  /\ UNCHANGED rescued

StartRescue(i) ==
  /\ RescueGranted(i)
  /\ rescued' = rescued \cup {i}
  /\ watch' = watch \cup {Watcher(i, wait[i], "racing")}

-----------------------------------------------------------------------------
(* The playback loop and Get.                                              *)

\* RescueInflightRange snapshots the segments of the urgent window in flight
ScanUrgentWindow ==
  /\ pc[Player] = "scan"
  /\ pending' = {i \in Segments : i \in cur..(cur + UrgentWindow) /\ wait[i] # 0}
  /\ Goto(Player, "request")
  /\ UNCHANGED <<maps, queue, ctxDone, seg, cancelled, cur, pos, chan, watch>>

\* it asks for a rescue of each, lowest first, until one is granted; whether
\* ShouldRescue agrees is the fetcher's business
TryUrgentRescue ==
  /\ pc[Player] = "request"
  /\ \E i \in pending :
       /\ \A j \in pending : i <= j
       /\ \/ /\ StartRescue(i)
             /\ pending' = {}
          \/ /\ pending' = pending \ {i}
             /\ UNCHANGED <<rescued, watch>>
  /\ UNCHANGED <<cache, inflight, wait, made, closed, cancelOf, errs, queue, ctxDone,
                 pc, seg, cancelled, cur, pos, chan>>

\* Get, first region: a look at the cache under the read lock
GetHit ==
  /\ pc[Player] = "request" /\ pending = {}
  /\ cur \in cache
  /\ pos' = cur + 1
  /\ Goto(Player, "enq")
  /\ UNCHANGED <<maps, queue, ctxDone, seg, cancelled, cur, chan, pending, watch>>

GetMiss ==
  /\ pc[Player] = "request" /\ pending = {}
  /\ cur \notin cache
  /\ Goto(Player, "miss")
  /\ UNCHANGED <<maps, queue, ctxDone, seg, cancelled, player, watch>>

\* Get, second region: join the flight, join it with a rescue, or start one;
\* the cache is not looked at again
GetJoin ==
  /\ pc[Player] = "miss"
  /\ wait[cur] # 0
  /\ chan' = wait[cur]
  /\ \/ /\ RescueGranted(cur)
        /\ rescued' = rescued \cup {cur}
        /\ Goto(Player, "race")
     \/ /\ Goto(Player, "await")
        /\ UNCHANGED rescued
  /\ UNCHANGED <<cache, inflight, wait, made, closed, cancelOf, errs, queue, ctxDone,
                 seg, cancelled, cur, pos, pending, watch>>

GetStart ==
  /\ pc[Player] = "miss"
  /\ wait[cur] = 0
  /\ Register(cur)
  /\ seg' = [seg EXCEPT ![Player] = cur]
  /\ Goto(Player, "begin")
  /\ UNCHANGED <<cache, closed, cancelOf, errs, rescued, queue, ctxDone, cancelled, player, watch>>

\* Get drops the error of its fetch
BugReturnIgnoresError(ok) ==
  /\ pos' = cur + 1
  /\ Goto(Player, "enq")

\* the rest of Get once it has an answer: schedule more, or leave the process
GetReturn(ok) ==
  /\ pos' = cur + 1
  /\ Goto(Player, IF ok THEN "enq" ELSE "exit")

GetWoken ==
  /\ pc[Player] \in {"await", "race"}
  /\ Woken(cur, chan)
  /\ ConsumeInflightResult(cur)
  /\ GetReturn(cur \in cache)
  /\ UNCHANGED <<cache, inflight, wait, made, closed, cancelOf, rescued, queue, ctxDone,
                 seg, cancelled, cur, chan, pending, watch>>

GetRescued ==
  /\ pc[Player] = "race"
  /\ StoreRescueResult(cur)
  /\ GetReturn(TRUE)
  /\ UNCHANGED <<queue, ctxDone, seg, cur, chan, pending, watch>>

GetRescueFails ==
  /\ pc[Player] = "race"
  /\ Goto(Player, "await")
  /\ UNCHANGED <<maps, queue, ctxDone, seg, cancelled, player, watch>>

-----------------------------------------------------------------------------
(* enqueuePrefetch, one iteration of its loop per step.                    *)

\* maxIndex taken for a count
BugEnqueueDone == pos > cur + PrefetchSegments \/ pos > LastSegment + 1

EnqueueDone == pos > cur + PrefetchSegments \/ pos > LastSegment

EnqueueSkip ==
  /\ pc[Player] = "enq" /\ ~EnqueueDone
  /\ pos \in cache \cup inflight
  /\ pos' = pos + 1
  /\ UNCHANGED <<maps, queue, ctxDone, pc, seg, cancelled, cur, chan, pending, watch>>

EnqueueRegister ==
  /\ pc[Player] = "enq" /\ ~EnqueueDone
  /\ pos \notin cache \cup inflight
  /\ Register(pos)
  /\ seg' = [seg EXCEPT ![Player] = pos]
  /\ pos' = pos + 1
  /\ Goto(Player, "push")
  /\ UNCHANGED <<cache, closed, cancelOf, errs, rescued, queue, ctxDone, cancelled,
                 cur, chan, pending, watch>>

\* the non-blocking send
EnqueuePush ==
  /\ pc[Player] = "push"
  /\ IF Len(queue) < QueueCap
       THEN queue' = Append(queue, seg[Player]) /\ Goto(Player, "enq")
       ELSE Goto(Player, "drop") /\ UNCHANGED queue
  /\ UNCHANGED <<maps, ctxDone, seg, cancelled, player, watch>>

\* the queue was full: forget the flight; its channel is never closed
EnqueueDrop ==
  /\ pc[Player] = "drop"
  /\ inflight' = inflight \ {seg[Player]}
  /\ wait' = [wait EXCEPT ![seg[Player]] = 0]
  /\ Goto(Player, "enq")
  /\ UNCHANGED <<cache, made, closed, cancelOf, errs, rescued, queue, ctxDone, seg,
                 cancelled, player, watch>>

\* the loop ends, Get returns, and playback moves to the next segment
SegmentPlayed ==
  /\ pc[Player] = "enq" /\ EnqueueDone
  /\ cur' = cur + 1
  /\ Goto(Player, IF cur = LastSegment THEN "stop" ELSE "scan")
  /\ UNCHANGED <<maps, queue, ctxDone, seg, cancelled, pos, chan, pending, watch>>

-----------------------------------------------------------------------------
(* fetchAndStore, run by the workers and by Get itself.                    *)

\* the stale early return: a cached segment gives up its flight but leaves
\* inflightWait alone
FetchSkipped(a) ==
  /\ pc[a] = "begin"
  /\ seg[a] \in cache
  /\ inflight' = inflight \ {seg[a]}
  /\ rescued' = rescued \ {seg[a]}
  /\ cancelOf' = [cancelOf EXCEPT ![seg[a]] = NoActor]
  /\ IF a = Player THEN GetReturn(TRUE) ELSE Goto(a, "idle") /\ UNCHANGED pos
  /\ UNCHANGED <<cache, wait, made, closed, errs, queue, ctxDone, seg, cancelled,
                 cur, chan, pending, watch>>

FetchBegin(a) ==
  /\ pc[a] = "begin"
  /\ seg[a] \notin cache
  /\ cancelOf' = [cancelOf EXCEPT ![seg[a]] = IF seg[a] \in inflight THEN a ELSE @]
  /\ cancelled' = cancelled \ {a}
  /\ Goto(a, "fetch")
  /\ UNCHANGED <<cache, inflight, wait, made, closed, errs, rescued, queue, ctxDone,
                 seg, player, watch>>

\* Fetch returned, with the segment (ok) or with an error; a segment that a
\* rescue has cached in the meantime counts as fetched whatever Fetch said
FetchFinish(a, ok) ==
  LET i == seg[a] IN
  /\ pc[a] = "fetch"
  /\ inflight' = inflight \ {i}
  /\ rescued' = rescued \ {i}
  /\ cancelOf' = [cancelOf EXCEPT ![i] = NoActor]
  /\ CloseWait(i)
  /\ IF ok \/ i \in cache
       THEN cache' = cache \cup {i} /\ errs' = errs \ {i}
       ELSE errs' = errs \cup {i} /\ UNCHANGED cache
  /\ cancelled' = cancelled \ {a}
  /\ IF a = Player THEN GetReturn(ok \/ i \in cache) ELSE Goto(a, "idle") /\ UNCHANGED pos
  /\ UNCHANGED <<made, queue, ctxDone, seg, cur, chan, pending, watch>>

-----------------------------------------------------------------------------
(* The workers, the rescue goroutines, and Stop.                           *)

WorkerTakes(w) ==
  /\ pc[w] = "idle"
  /\ queue # <<>>
  /\ seg' = [seg EXCEPT ![w] = Head(queue)]
  /\ queue' = Tail(queue)
  /\ Goto(w, "begin")
  /\ UNCHANGED <<maps, ctxDone, cancelled, player, watch>>

WorkerExits(w) ==
  /\ pc[w] = "idle"
  /\ ctxDone
  /\ Goto(w, "exited")
  /\ UNCHANGED <<maps, queue, ctxDone, seg, cancelled, player, watch>>

\* a fetch that measured its peer asks for the rescue of a slow flight
\* (revalidateAssignments calls RequestRescue); the fetcher may do so at any
\* time after the player has started
RequestRescue(i) ==
  /\ StartRescue(i)
  /\ UNCHANGED <<cache, inflight, wait, made, closed, cancelOf, errs, queue, ctxDone,
                 pc, seg, cancelled, player>>

RescueSucceeds(r) ==
  /\ r.st = "racing"
  /\ StoreRescueResult(r.seg)
  /\ watch' = watch \ {r}
  /\ UNCHANGED <<queue, ctxDone, pc, seg, player>>

RescueFails(r) ==
  /\ r.st = "racing"
  /\ watch' = (watch \ {r}) \cup {Watcher(r.seg, r.chan, "waiting")}
  /\ UNCHANGED <<maps, queue, ctxDone, pc, seg, cancelled, player>>

RescuerWoken(r) ==
  /\ Woken(r.seg, r.chan)
  /\ ConsumeInflightResult(r.seg)
  /\ watch' = watch \ {r}
  /\ UNCHANGED <<cache, inflight, wait, made, closed, cancelOf, rescued, queue, ctxDone,
                 pc, seg, cancelled, player>>

\* the second wait of rescueAndWait does not watch the context
BugStopUnheard(r) ==
  /\ ctxDone /\ r.st = "racing"
  /\ watch' = watch \ {r}
  /\ UNCHANGED <<maps, queue, ctxDone, pc, seg, cancelled, player>>

RescuerStopped(r) ==
  /\ ctxDone
  /\ watch' = watch \ {r}
  /\ UNCHANGED <<maps, queue, ctxDone, pc, seg, cancelled, player>>

StopCancel ==
  /\ pc[Player] = "stop"
  /\ ctxDone' = TRUE
  /\ Goto(Player, "join")
  /\ UNCHANGED <<maps, queue, seg, cancelled, player, watch>>

StopJoin ==
  /\ pc[Player] = "join"
  /\ \A w \in Workers : pc[w] = "exited"
  /\ Goto(Player, "done")
  /\ UNCHANGED <<maps, queue, ctxDone, seg, cancelled, player, watch>>

-----------------------------------------------------------------------------
Init ==
  /\ cache = {} /\ inflight = {} /\ errs = {} /\ rescued = {}
  /\ wait = [i \in Segments |-> 0]
  /\ made = [i \in Segments |-> 0]
  /\ closed = [i \in Segments |-> {}]
  /\ cancelOf = [i \in Segments |-> NoActor]
  /\ queue = <<>>
  /\ ctxDone = FALSE
  /\ pc = [a \in Actors |-> IF a = Player THEN "scan" ELSE "idle"]
  /\ seg = [a \in Actors |-> 0]
  /\ cancelled = {} /\ pending = {} /\ watch = {}
  /\ cur = 0 /\ pos = 0 /\ chan = 0

FetchStep(a) == FetchSkipped(a) \/ FetchBegin(a) \/ \E ok \in BOOLEAN : FetchFinish(a, ok)

EnqueueStep == EnqueueSkip \/ EnqueueRegister \/ EnqueuePush \/ EnqueueDrop

GetStep ==
  \/ GetHit \/ GetMiss \/ GetJoin \/ GetStart
  \/ GetWoken \/ GetRescued \/ GetRescueFails

PlayerStep ==
  \/ ScanUrgentWindow \/ TryUrgentRescue
  \/ GetStep
  \/ EnqueueStep
  \/ SegmentPlayed
  \/ FetchStep(Player)
  \/ StopCancel \/ StopJoin

WorkerStep(w) == WorkerTakes(w) \/ WorkerExits(w) \/ FetchStep(w)

RescuerStep(r) == RescueSucceeds(r) \/ RescueFails(r) \/ RescuerWoken(r) \/ RescuerStopped(r)

Running == pc[Player] # "exit"

\* os.Exit(1) on a failed Get stops every goroutine at once
Next ==
  /\ Running
  /\ \/ PlayerStep
     \/ \E w \in Workers : WorkerStep(w)
     \/ \E r \in watch : RescuerStep(r)
     \/ \E i \in Segments : RequestRescue(i)

Spec == Init /\ [][Next]_vars

(***************************************************************************)
(* Go schedules every runnable goroutine, and a Fetch or RescueFetch is    *)
(* assumed to return (a GraphSync request ends with its response or with   *)
(* its connection).  Nothing is assumed of RequestRescue: nobody has to    *)
(* ask for a rescue.                                                       *)
(***************************************************************************)
Fairness ==
  /\ WF_vars(Running /\ PlayerStep)
  /\ \A w \in Workers : WF_vars(Running /\ WorkerStep(w))
  /\ WF_vars(Running /\ \E r \in watch : RescuerStep(r))

FairSpec == Spec /\ Fairness

-----------------------------------------------------------------------------
(* Types.                                                                  *)

FetchPCs == {"begin", "fetch"}
PlayerPCs ==
  {"scan", "request", "miss", "await", "race", "enq", "push", "drop",
   "stop", "join", "done", "exit"} \cup FetchPCs
WorkerPCs == {"idle", "exited"} \cup FetchPCs

PcOK ==
  /\ pc \in [Actors -> PlayerPCs \cup WorkerPCs]
  /\ pc[Player] \in PlayerPCs
  /\ \A w \in Workers : pc[w] \in WorkerPCs

Rescuers == [seg : Segments, chan : Nat \ {0}, st : {"racing", "waiting"}]

MapsOK ==
  /\ cache \subseteq Segments /\ inflight \subseteq Segments
  /\ errs \subseteq Segments /\ rescued \subseteq Segments
  /\ wait \in [Segments -> Nat]
  /\ made \in [Segments -> Nat]
  /\ closed \in [Segments -> SUBSET Nat]
  /\ cancelOf \in [Segments -> Actors \cup {NoActor}]
  /\ queue \in Seq(Segments)
  /\ ctxDone \in BOOLEAN
  /\ seg \in [Actors -> Segments]
  /\ cancelled \subseteq Actors
  /\ pos \in Nat
  /\ chan \in Nat
  /\ pending \subseteq Segments
  /\ watch \subseteq Rescuers

\* the playback loop runs over Segments, and leaves it only to stop
CurOK ==
  /\ cur \in 0..(LastSegment + 1)
  /\ cur = LastSegment + 1 <=> pc[Player] \in {"stop", "join", "done"}

\* The variables have their types: the type invariant of the Prefetcher's
\* fields and of the goroutines' program counters.
TypeOK == MapsOK /\ PcOK /\ CurOK

-----------------------------------------------------------------------------
(* Safety.                                                                 *)

\* An actor holds the flight of the segment it is fetching, or that it has
\* registered but not yet queued.
Holds(a, i) == pc[a] \in {"begin", "fetch", "push", "drop"} /\ seg[a] = i

Queued(i) == \E n \in DOMAIN queue : queue[n] = i

\* The three places where close(waitCh) is called never close a channel
\* twice (close of a closed channel panics and kills the client): a channel
\* that is still registered in inflightWait is open.
NoDoubleClose == \A i \in Segments : wait[i] \notin closed[i]

\* A segment that is not cached is in flight exactly if its channel is
\* registered, and then exactly one goroutine or queue slot is in charge of
\* it: nothing is fetched twice by primaries, and no flight is forgotten.
FlightRegistered(i) == i \in inflight <=> wait[i] # 0
FlightOwned(i) == i \in inflight <=> Queued(i) \/ \E a \in Actors : Holds(a, i)
OneHolder(i) == \A a, b \in Actors : Holds(a, i) /\ Holds(b, i) => a = b
OneSlot(i) == \A m, n \in DOMAIN queue : queue[m] = i /\ queue[n] = i => m = n
NotBoth(i) == Queued(i) => \A a \in Actors : ~Holds(a, i)

OneFlight ==
  \A i \in Segments \ cache :
    FlightRegistered(i) /\ FlightOwned(i) /\ OneHolder(i) /\ OneSlot(i) /\ NotBoth(i)

\* Get never waits for a wakeup that cannot come: the channel it took under
\* the lock is closed by now, or still registered for a segment that a
\* worker or the queue is in charge of - although the full-queue branch
\* unregisters channels without closing them.
NoLostWakeup ==
  pc[Player] \in {"await", "race"} =>
    \/ Woken(cur, chan)
    \/ /\ chan = wait[cur]
       /\ Queued(cur) \/ \E w \in Workers : Holds(w, cur)

\* A stored CancelFunc belongs to the fetch of that segment that is running
\* now, and only a fetch whose segment is already cached is ever cancelled:
\* a rescue never turns a segment into an error.
CancelOnlyOvertaken ==
  /\ \A i \in Segments : cancelOf[i] # NoActor =>
       pc[cancelOf[i]] = "fetch" /\ seg[cancelOf[i]] = i
  /\ \A a \in cancelled : pc[a] = "fetch" /\ seg[a] \in cache

\* While a flight is undecided its rescuer keeps the rescued mark, which is
\* what stops RequestRescue and Get from starting a second rescue of it.
OneRescuePerFlight ==
  \A i \in Segments \ cache :
    (\/ \E r \in watch : r.seg = i /\ r.chan = wait[i]
     \/ pc[Player] = "race" /\ cur = i /\ chan = wait[i]) => i \in rescued

(***************************************************************************)
(* The inductive invariant: the properties above and what they rest on.    *)
(***************************************************************************)
\* channels are numbered in the order they are made, and everyone who knows
\* a channel knows one that was made
ChannelsNamed ==
  /\ \A i \in Segments : wait[i] <= made[i] /\ closed[i] \subseteq 1..made[i]
  /\ \A r \in watch : r.chan <= made[r.seg]

\* a cached segment keeps a registered channel only in the stale path of
\* Get, which looks at the cache and at inflightWait in two regions; by then
\* nobody will wait on it
OnlyStaleLeak ==
  \A i \in cache :
    \/ wait[i] = 0
    \/ i < cur
    \/ i = cur /\ pc[Player] \in {"begin", "enq", "push", "drop"}

PlayerProgress ==
  /\ pc[Player] \in FetchPCs => seg[Player] = cur
  /\ pc[Player] \in {"enq", "push", "drop"} => cur \in cache

\* the player waits on a channel that was closed, or on the registered
\* channel of a segment that is still missing
AwaitsKnownChannel ==
  pc[Player] \in {"await", "race"} =>
    \/ Woken(cur, chan)
    \/ chan = wait[cur] /\ chan # 0 /\ cur \notin cache

IInv ==
  /\ TypeOK
  /\ ChannelsNamed /\ NoDoubleClose
  /\ PlayerProgress /\ OnlyStaleLeak
  /\ OneFlight /\ AwaitsKnownChannel
  /\ CancelOnlyOvertaken
  /\ OneRescuePerFlight

-----------------------------------------------------------------------------
(***************************************************************************)
(* The playback loop sees Playback: segments in order, each available      *)
(* before it is played, failure only on a missing segment.                 *)
(***************************************************************************)
Status ==
  CASE pc[Player] = "exit" -> "failed"
    [] pc[Player] = "done" -> "done"
    [] OTHER -> "playing"

Abstract == INSTANCE Playback WITH available <- cache, next <- cur, status <- Status

\* The prefetcher with its workers and rescuers implements Playback.
ImplementsPlayback == Abstract!Spec

-----------------------------------------------------------------------------
(* Liveness, under FairSpec.                                               *)

\* Playback comes to an end: every Get returns, and Stop joins the workers.
PlaybackEnds == <>(pc[Player] \in {"done", "exit"})

\* Stop also ends the goroutines of RequestRescue, the ones whose channel was
\* unregistered without being closed included.
RescuersEnd == (pc[Player] = "done") ~> (watch = {})
=============================================================================
