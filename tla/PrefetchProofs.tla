--------------------------- MODULE PrefetchProofs ---------------------------
(***************************************************************************)
(* Proofs about Prefetch, for every number of segments and workers, every  *)
(* queue capacity, prefetch depth and urgent window.                       *)
(***************************************************************************)
EXTENDS Prefetch, TLAPS

USE LastSegmentAssumption, ActorAssumption, PrefetchAssumption, QueueAssumption, WindowAssumption

-----------------------------------------------------------------------------
(* Type correctness.                                                       *)

End == {"stop", "join", "done"}

\* The player moves within the loop, or within the code after it.
LEMMA GotoPlayer ==
  ASSUME PcOK, CurOK, NEW l, Goto(Player, l), cur' = cur,
         l \in PlayerPCs, l \in End <=> pc[Player] \in End
  PROVE  PcOK' /\ CurOK'
BY DEF PcOK, CurOK, Goto, Actors, End

\* A worker moves: the player's program counter is another one.
LEMMA GotoWorker ==
  ASSUME PcOK, CurOK, NEW w \in Workers, NEW l, Goto(w, l), cur' = cur,
         l \in WorkerPCs
  PROVE  PcOK' /\ CurOK'
BY DEF PcOK, CurOK, Goto, Actors

\* Nobody moves.
LEMMA StayPc ==
  ASSUME PcOK, CurOK, UNCHANGED <<pc, cur>>
  PROVE  PcOK' /\ CurOK'
BY DEF PcOK, CurOK

\* The player works on a segment as long as it is in the loop.
LEMMA CurInLoop ==
  ASSUME PcOK, CurOK, pc[Player] \notin End
  PROVE  cur \in Segments /\ cur + 1 \in Nat
BY DEF CurOK, Segments, End

\* An actor is the player or a worker, and no worker is the player.
LEMMA ActorCases ==
  /\ Player \in Actors
  /\ \A a \in Actors : a = Player \/ a \in Workers
  /\ \A w \in Workers : w \in Actors /\ w # Player
BY DEF Actors

\* What closing, registering and storing leave behind is typed.
LEMMA CloseWaitOK ==
  ASSUME MapsOK, NEW i \in Segments, CloseWait(i)
  PROVE  wait' \in [Segments -> Nat] /\ closed' \in [Segments -> SUBSET Nat]
BY DEF MapsOK, CloseWait

LEMMA RegisterOK ==
  ASSUME MapsOK, NEW i \in Segments, Register(i)
  PROVE  /\ wait' \in [Segments -> Nat] /\ made' \in [Segments -> Nat]
         /\ inflight' \subseteq Segments
BY DEF MapsOK, Register

LEMMA StoreOK ==
  ASSUME MapsOK, NEW i \in Segments, StoreRescueResult(i)
  PROVE  /\ cache' \subseteq Segments /\ inflight' \subseteq Segments
         /\ errs' \subseteq Segments /\ rescued' \subseteq Segments
         /\ cancelOf' \in [Segments -> Actors \cup {NoActor}]
         /\ cancelled' \subseteq Actors
         /\ wait' \in [Segments -> Nat] /\ closed' \in [Segments -> SUBSET Nat]
         /\ made' = made
<1>1. cancelled' \subseteq Actors
  BY DEF MapsOK, StoreRescueResult, CancelStored
<1> QED
  BY <1>1, CloseWaitOK DEF MapsOK, StoreRescueResult

LEMMA StartRescueOK ==
  ASSUME MapsOK, NEW i \in Segments, StartRescue(i)
  PROVE  rescued' \subseteq Segments /\ watch' \subseteq Rescuers
BY DEF MapsOK, StartRescue, RescueGranted, Watcher, Rescuers

LEMMA InitTypeOK == Init => TypeOK
<1> SUFFICES ASSUME Init PROVE TypeOK
  OBVIOUS
<1>1. PcOK
  BY DEF Init, PcOK, Actors, PlayerPCs, WorkerPCs
<1>2. CurOK
  BY DEF Init, CurOK, Actors
<1>3. 0 \in Segments
  BY DEF Segments
<1>4. queue \in Seq(Segments)
  BY DEF Init
<1>5. MapsOK
  BY <1>3, <1>4 DEF Init, MapsOK
<1> QED
  BY <1>1, <1>2, <1>5 DEF TypeOK

LEMMA NextTypeOK == TypeOK /\ [Next]_vars => TypeOK'
<1> SUFFICES ASSUME MapsOK, PcOK, CurOK, [Next]_vars PROVE MapsOK' /\ PcOK' /\ CurOK'
  BY DEF TypeOK
<1> USE ActorCases DEF maps, player
<1>0. CASE UNCHANGED vars
  BY <1>0, StayPc DEF vars, MapsOK
<1>1. CASE ScanUrgentWindow
  <2>1. PcOK' /\ CurOK'
    BY <1>1, GotoPlayer DEF ScanUrgentWindow, PlayerPCs, FetchPCs, End
  <2> QED
    BY <1>1, <2>1 DEF ScanUrgentWindow, MapsOK
<1>2. CASE TryUrgentRescue
  <2>1. PcOK' /\ CurOK'
    BY <1>2, StayPc DEF TryUrgentRescue
  <2>2. rescued' \subseteq Segments /\ watch' \subseteq Rescuers
    BY <1>2, StartRescueOK DEF TryUrgentRescue, MapsOK
  <2>3. pending' \subseteq Segments
    BY <1>2 DEF TryUrgentRescue, MapsOK
  <2> QED
    BY <1>2, <2>1, <2>2, <2>3 DEF TryUrgentRescue, MapsOK
<1>3. CASE GetHit
  <2>1. PcOK' /\ CurOK'
    BY <1>3, GotoPlayer DEF GetHit, PlayerPCs, FetchPCs, End
  <2>2. pos' \in Nat
    BY <1>3, CurInLoop DEF GetHit, End
  <2> QED
    BY <1>3, <2>1, <2>2 DEF GetHit, MapsOK
<1>4. CASE GetMiss
  <2>1. PcOK' /\ CurOK'
    BY <1>4, GotoPlayer DEF GetMiss, PlayerPCs, FetchPCs, End
  <2> QED
    BY <1>4, <2>1 DEF GetMiss, MapsOK
<1>5. CASE GetJoin
  <2>1. PcOK' /\ CurOK'
    BY <1>5, GotoPlayer DEF GetJoin, PlayerPCs, FetchPCs, End
  <2>2. cur \in Segments
    BY <1>5, CurInLoop DEF GetJoin, End
  <2>3. chan' \in Nat /\ rescued' \subseteq Segments
    BY <1>5, <2>2 DEF GetJoin, MapsOK
  <2> QED
    BY <1>5, <2>1, <2>2, <2>3 DEF GetJoin, MapsOK
<1>6. CASE GetStart
  <2>1. PcOK' /\ CurOK'
    BY <1>6, GotoPlayer DEF GetStart, PlayerPCs, FetchPCs, End
  <2>2. cur \in Segments
    BY <1>6, CurInLoop DEF GetStart, End
  <2>3. wait' \in [Segments -> Nat] /\ made' \in [Segments -> Nat] /\ inflight' \subseteq Segments
    BY <1>6, <2>2, RegisterOK DEF GetStart
  <2>4. seg' \in [Actors -> Segments]
    BY <1>6, <2>2 DEF GetStart, MapsOK
  <2> QED
    BY <1>6, <2>1, <2>2, <2>3, <2>4 DEF GetStart, MapsOK
<1>7. CASE GetWoken
  <2>1. PcOK' /\ CurOK'
    BY <1>7, GotoPlayer DEF GetWoken, GetReturn, PlayerPCs, FetchPCs, End
  <2>2. pos' \in Nat
    BY <1>7, CurInLoop DEF GetWoken, GetReturn, End
  <2>3. errs' \subseteq Segments
    BY <1>7 DEF GetWoken, ConsumeInflightResult, MapsOK
  <2> QED
    BY <1>7, <2>1, <2>2, <2>3 DEF GetWoken, MapsOK
<1>8. CASE GetRescued
  <2>1. PcOK' /\ CurOK'
    BY <1>8, GotoPlayer DEF GetRescued, GetReturn, PlayerPCs, FetchPCs, End
  <2>2. cur \in Segments
    BY <1>8, CurInLoop DEF GetRescued, End
  <2>3. pos' \in Nat
    BY <1>8, CurInLoop DEF GetRescued, GetReturn, End
  <2>4. /\ cache' \subseteq Segments /\ inflight' \subseteq Segments
          /\ errs' \subseteq Segments /\ rescued' \subseteq Segments
          /\ cancelOf' \in [Segments -> Actors \cup {NoActor}]
          /\ cancelled' \subseteq Actors
          /\ wait' \in [Segments -> Nat] /\ closed' \in [Segments -> SUBSET Nat]
          /\ made' = made
    BY <1>8, <2>2, StoreOK DEF GetRescued
  <2> QED
    BY <1>8, <2>1, <2>2, <2>3, <2>4 DEF GetRescued, MapsOK
<1>9. CASE GetRescueFails
  <2>1. PcOK' /\ CurOK'
    BY <1>9, GotoPlayer DEF GetRescueFails, PlayerPCs, FetchPCs, End
  <2> QED
    BY <1>9, <2>1 DEF GetRescueFails, MapsOK
<1>10. CASE EnqueueSkip
  <2>1. PcOK' /\ CurOK'
    BY <1>10, StayPc DEF EnqueueSkip
  <2> QED
    BY <1>10, <2>1 DEF EnqueueSkip, MapsOK
<1>11. CASE EnqueueRegister
  <2>1. PcOK' /\ CurOK'
    BY <1>11, GotoPlayer DEF EnqueueRegister, PlayerPCs, FetchPCs, End
  <2>2. pos \in Segments
    BY <1>11 DEF EnqueueRegister, EnqueueDone, Segments, MapsOK
  <2>3. wait' \in [Segments -> Nat] /\ made' \in [Segments -> Nat] /\ inflight' \subseteq Segments
    BY <1>11, <2>2, RegisterOK DEF EnqueueRegister
  <2>4. seg' \in [Actors -> Segments]
    BY <1>11, <2>2 DEF EnqueueRegister, MapsOK
  <2>5. pos' = pos + 1 /\ UNCHANGED <<cache, closed, cancelOf, errs, rescued, queue, ctxDone,
                                     cancelled, cur, chan, pending, watch>>
    BY <1>11 DEF EnqueueRegister
  <2>6. pos' \in Nat
    BY <2>2, <2>5 DEF Segments, End
  <2> QED
    BY <1>11, <2>1, <2>2, <2>3, <2>4, <2>5, <2>6 DEF MapsOK
<1>12. CASE EnqueuePush
  <2>1. PcOK' /\ CurOK'
    <3>1. CASE Len(queue) < QueueCap
      BY <1>12, <3>1, GotoPlayer DEF EnqueuePush, PlayerPCs, End
    <3>2. CASE ~(Len(queue) < QueueCap)
      BY <1>12, <3>2, GotoPlayer DEF EnqueuePush, PlayerPCs, End
    <3> QED
      BY <3>1, <3>2
  <2>2. queue \in Seq(Segments) /\ seg[Player] \in Segments
    BY <1>12 DEF MapsOK
  <2>3. Append(queue, seg[Player]) \in Seq(Segments)
    BY <1>12, <2>2
  <2>4. queue' \in Seq(Segments)
    BY <1>12, <2>2, <2>3 DEF EnqueuePush
  <2> QED
    BY <1>12, <2>1, <2>2, <2>3, <2>4 DEF EnqueuePush, MapsOK
<1>13. CASE EnqueueDrop
  <2>1. PcOK' /\ CurOK'
    BY <1>13, GotoPlayer DEF EnqueueDrop, PlayerPCs, FetchPCs, End
  <2>2. wait' \in [Segments -> Nat]
    BY <1>13 DEF EnqueueDrop, MapsOK
  <2> QED
    BY <1>13, <2>1, <2>2 DEF EnqueueDrop, MapsOK
<1>14. CASE SegmentPlayed
  <2>1. PcOK' /\ CurOK'
    <3>1. PcOK'
      BY <1>14 DEF SegmentPlayed, PcOK, Goto, PlayerPCs
    <3>2. pc'[Player] = IF cur = LastSegment THEN "stop" ELSE "scan"
      BY <1>14 DEF SegmentPlayed, PcOK, Goto
    <3>3. cur \in Segments /\ cur' = cur + 1
      BY <1>14, CurInLoop DEF SegmentPlayed, End
    <3> QED
      BY <3>1, <3>2, <3>3 DEF CurOK, Segments
  <2> QED
    BY <1>14, <2>1 DEF SegmentPlayed, MapsOK
<1>15. ASSUME NEW a \in Actors, FetchSkipped(a) PROVE MapsOK' /\ PcOK' /\ CurOK'
  <2>1. PcOK' /\ CurOK'
    <3>1. CASE a = Player
      BY <1>15, <3>1, GotoPlayer DEF FetchSkipped, GetReturn, PlayerPCs, FetchPCs, End
    <3>2. CASE a \in Workers
      BY <1>15, <3>2, GotoWorker DEF FetchSkipped, GetReturn, WorkerPCs, FetchPCs
    <3> QED
      BY <3>1, <3>2
  <2>2. pos' \in Nat
    BY <1>15, CurInLoop DEF FetchSkipped, GetReturn, End, MapsOK
  <2> QED
    BY <1>15, <2>1, <2>2 DEF FetchSkipped, MapsOK
<1>16. ASSUME NEW a \in Actors, FetchBegin(a) PROVE MapsOK' /\ PcOK' /\ CurOK'
  <2>1. PcOK' /\ CurOK'
    <3>1. CASE a = Player
      BY <1>16, <3>1, GotoPlayer DEF FetchBegin, PlayerPCs, FetchPCs, End
    <3>2. CASE a \in Workers
      BY <1>16, <3>2, GotoWorker DEF FetchBegin, WorkerPCs, FetchPCs
    <3> QED
      BY <3>1, <3>2
  <2> QED
    BY <1>16, <2>1 DEF FetchBegin, MapsOK
<1>17. ASSUME NEW a \in Actors, NEW ok \in BOOLEAN, FetchFinish(a, ok) PROVE MapsOK' /\ PcOK' /\ CurOK'
  <2>1. PcOK' /\ CurOK'
    <3>1. CASE a = Player
      BY <1>17, <3>1, GotoPlayer DEF FetchFinish, GetReturn, PlayerPCs, FetchPCs, End
    <3>2. CASE a \in Workers
      BY <1>17, <3>2, GotoWorker DEF FetchFinish, GetReturn, WorkerPCs, FetchPCs
    <3> QED
      BY <3>1, <3>2
  <2>2. pos' \in Nat
    BY <1>17, CurInLoop DEF FetchFinish, GetReturn, End, MapsOK
  <2>3. wait' \in [Segments -> Nat] /\ closed' \in [Segments -> SUBSET Nat]
    BY <1>17, CloseWaitOK DEF FetchFinish, MapsOK
  <2>4. cache' \subseteq Segments /\ errs' \subseteq Segments
    BY <1>17 DEF FetchFinish, MapsOK
  <2> QED
    BY <1>17, <2>1, <2>2, <2>3, <2>4 DEF FetchFinish, MapsOK
<1>18. ASSUME NEW w \in Workers, WorkerTakes(w) PROVE MapsOK' /\ PcOK' /\ CurOK'
  <2>1. PcOK' /\ CurOK'
    BY <1>18, GotoWorker DEF WorkerTakes, WorkerPCs, FetchPCs
  <2>2. queue' \in Seq(Segments) /\ Head(queue) \in Segments
    BY <1>18 DEF WorkerTakes, MapsOK
  <2> QED
    BY <1>18, <2>1, <2>2 DEF WorkerTakes, MapsOK
<1>19. ASSUME NEW w \in Workers, WorkerExits(w) PROVE MapsOK' /\ PcOK' /\ CurOK'
  <2>1. PcOK' /\ CurOK'
    BY <1>19, GotoWorker DEF WorkerExits, WorkerPCs, FetchPCs
  <2> QED
    BY <1>19, <2>1 DEF WorkerExits, MapsOK
<1>20. ASSUME NEW i \in Segments, RequestRescue(i) PROVE MapsOK' /\ PcOK' /\ CurOK'
  <2>1. PcOK' /\ CurOK'
    BY <1>20, StayPc DEF RequestRescue
  <2>2. rescued' \subseteq Segments /\ watch' \subseteq Rescuers
    BY <1>20, StartRescueOK DEF RequestRescue, MapsOK
  <2> QED
    BY <1>20, <2>1, <2>2 DEF RequestRescue, MapsOK
<1>21. ASSUME NEW r \in watch, RescueSucceeds(r) PROVE MapsOK' /\ PcOK' /\ CurOK'
  <2>1. PcOK' /\ CurOK'
    BY <1>21, StayPc DEF RescueSucceeds
  <2>2. r.seg \in Segments
    BY <1>21 DEF MapsOK, Rescuers
  <2>3. /\ cache' \subseteq Segments /\ inflight' \subseteq Segments
          /\ errs' \subseteq Segments /\ rescued' \subseteq Segments
          /\ cancelOf' \in [Segments -> Actors \cup {NoActor}]
          /\ cancelled' \subseteq Actors
          /\ wait' \in [Segments -> Nat] /\ closed' \in [Segments -> SUBSET Nat]
          /\ made' = made
    BY <1>21, <2>2, StoreOK DEF RescueSucceeds
  <2> QED
    BY <1>21, <2>1, <2>2, <2>3 DEF RescueSucceeds, MapsOK
<1>22. ASSUME NEW r \in watch, RescueFails(r) PROVE MapsOK' /\ PcOK' /\ CurOK'
  <2>1. PcOK' /\ CurOK'
    BY <1>22, StayPc DEF RescueFails
  <2>2. watch' \subseteq Rescuers
    BY <1>22 DEF RescueFails, MapsOK, Rescuers, Watcher
  <2> QED
    BY <1>22, <2>1, <2>2 DEF RescueFails, MapsOK
<1>23. ASSUME NEW r \in watch, RescuerWoken(r) PROVE MapsOK' /\ PcOK' /\ CurOK'
  <2>1. PcOK' /\ CurOK'
    BY <1>23, StayPc DEF RescuerWoken
  <2>2. errs' \subseteq Segments
    BY <1>23 DEF RescuerWoken, ConsumeInflightResult, MapsOK
  <2> QED
    BY <1>23, <2>1, <2>2 DEF RescuerWoken, MapsOK
<1>24. ASSUME NEW r \in watch, RescuerStopped(r) PROVE MapsOK' /\ PcOK' /\ CurOK'
  <2>1. PcOK' /\ CurOK'
    BY <1>24, StayPc DEF RescuerStopped
  <2> QED
    BY <1>24, <2>1 DEF RescuerStopped, MapsOK
<1>25. CASE StopCancel
  <2>1. PcOK' /\ CurOK'
    BY <1>25, GotoPlayer DEF StopCancel, PlayerPCs, FetchPCs, End
  <2> QED
    BY <1>25, <2>1 DEF StopCancel, MapsOK
<1>26. CASE StopJoin
  <2>1. PcOK' /\ CurOK'
    BY <1>26, GotoPlayer DEF StopJoin, PlayerPCs, FetchPCs, End
  <2> QED
    BY <1>26, <2>1 DEF StopJoin, MapsOK
<1> QED
  BY <1>0, <1>1, <1>2, <1>3, <1>4, <1>5, <1>6, <1>7, <1>8, <1>9,
     <1>10, <1>11, <1>12, <1>13, <1>14, <1>15, <1>16, <1>17, <1>18,
     <1>19, <1>20, <1>21, <1>22, <1>23, <1>24, <1>25, <1>26
     DEF Next, PlayerStep, GetStep, EnqueueStep, FetchStep, WorkerStep, RescuerStep

\* The type invariant of the prefetcher: every reachable state has well-typed
\* maps, queue and program counters.
THEOREM Typing == Spec => []TypeOK
BY InitTypeOK, NextTypeOK, PTL DEF Spec

-----------------------------------------------------------------------------
(* The flights.  Most steps are quiet: they touch no flight.               *)

Quiet ==
  /\ UNCHANGED <<cache, inflight, wait, made, closed, queue>>
  /\ \A a \in Actors, i \in Segments : Holds(a, i)' <=> Holds(a, i)

Flight(i) ==
  FlightRegistered(i) /\ FlightOwned(i) /\ OneHolder(i) /\ OneSlot(i) /\ NotBoth(i)

\* A goroutine that is not in charge of a flight, before or after.
LEMMA QuietGoto ==
  ASSUME MapsOK, PcOK, NEW a \in Actors, NEW l, Goto(a, l), seg' = seg,
         l \in {"begin", "fetch", "push", "drop"} <=> pc[a] \in {"begin", "fetch", "push", "drop"}
  PROVE  \A b \in Actors, i \in Segments : Holds(b, i)' <=> Holds(b, i)
BY DEF Goto, Holds, MapsOK, PcOK

\* Every step is quiet or one of the nine that handle flights.
LEMMA StepKinds ==
  ASSUME TypeOK, [Next]_vars
  PROVE  \/ Quiet
         \/ GetStart \/ GetRescued \/ EnqueueRegister \/ EnqueuePush \/ EnqueueDrop
         \/ \E a \in Actors : FetchSkipped(a)
         \/ \E a \in Actors, ok \in BOOLEAN : FetchFinish(a, ok)
         \/ \E w \in Workers : WorkerTakes(w)
         \/ \E r \in watch : RescueSucceeds(r)
<1> USE ActorCases DEF TypeOK, maps, player
<1>0. CASE UNCHANGED vars
  BY <1>0 DEF vars, Quiet, Holds
<1>1. CASE \/ TryUrgentRescue \/ EnqueueSkip
           \/ \E i \in Segments : RequestRescue(i)
           \/ \E r \in watch : RescueFails(r) \/ RescuerWoken(r) \/ RescuerStopped(r)
  BY <1>1 DEF TryUrgentRescue, EnqueueSkip, RequestRescue, RescueFails, RescuerWoken,
     RescuerStopped, Quiet, Holds
<1>2. CASE \/ ScanUrgentWindow \/ GetHit \/ GetMiss \/ GetRescueFails
           \/ StopCancel \/ StopJoin
  BY <1>2, QuietGoto
     DEF ScanUrgentWindow, GetHit, GetMiss, GetRescueFails, StopCancel, StopJoin, Quiet
<1>3. CASE GetJoin
  BY <1>3, QuietGoto DEF GetJoin, Quiet
<1>4. CASE GetWoken
  BY <1>4, QuietGoto DEF GetWoken, GetReturn, Quiet
<1>5. CASE SegmentPlayed
  BY <1>5, QuietGoto DEF SegmentPlayed, Quiet
<1>6. ASSUME NEW a \in Actors, FetchBegin(a) PROVE Quiet
  BY <1>6, QuietGoto DEF FetchBegin, Quiet
<1>7. ASSUME NEW w \in Workers, WorkerExits(w) PROVE Quiet
  BY <1>7, QuietGoto DEF WorkerExits, Quiet
<1> QED
  BY <1>0, <1>1, <1>2, <1>3, <1>4, <1>5, <1>6, <1>7
     DEF Next, PlayerStep, GetStep, EnqueueStep, FetchStep, WorkerStep, RescuerStep

\* A rescue result changes the flight of its own segment only.
LEMMA StoreFlight ==
  ASSUME MapsOK, OneFlight, NEW j \in Segments, StoreRescueResult(j), queue' = queue,
         \A a \in Actors, i \in Segments : Holds(a, i)' <=> Holds(a, i)
  PROVE  OneFlight'
<1> SUFFICES ASSUME NEW i \in Segments, i \notin cache' PROVE Flight(i)'
  BY DEF OneFlight, Flight
<1>1. i # j /\ i \notin cache
  BY DEF StoreRescueResult
<1>2. Flight(i) /\ (Queued(i)' <=> Queued(i)) /\ (OneSlot(i)' <=> OneSlot(i))
  BY <1>1 DEF OneFlight, Flight, Queued, OneSlot
<1>3. wait'[i] = wait[i] /\ (i \in inflight' <=> i \in inflight)
  BY <1>1 DEF StoreRescueResult, CloseWait, MapsOK
<1> QED
  BY <1>1, <1>2, <1>3 DEF Flight, FlightRegistered, FlightOwned, OneHolder, NotBoth

\* Where a registered flight comes from: the segment had none.
LEMMA RegisterFlight ==
  ASSUME MapsOK, OneFlight, NEW j \in Segments, Register(j), queue' = queue, cache' = cache,
         j \in cache \/ j \notin inflight,
         \A a \in Workers, i \in Segments : Holds(a, i)' <=> Holds(a, i),
         \A i \in Segments : ~Holds(Player, i),
         \A i \in Segments : Holds(Player, i)' <=> i = j
  PROVE  OneFlight'
<1> USE ActorCases
<1> SUFFICES ASSUME NEW i \in Segments \ cache PROVE Flight(i)'
  BY DEF OneFlight, Flight
<1>1. Flight(i) /\ (Queued(i)' <=> Queued(i)) /\ (OneSlot(i)' <=> OneSlot(i))
  BY DEF OneFlight, Flight, Queued, OneSlot
<1>2. CASE i = j
  <2>1. wait'[i] # 0 /\ i \in inflight'
    BY <1>2 DEF Register, MapsOK
  <2>2. ~Queued(i) /\ \A a \in Actors : ~Holds(a, i)
    BY <1>1, <1>2 DEF Flight, FlightOwned
  <2> QED
    BY <1>1, <1>2, <2>1, <2>2
       DEF Flight, FlightRegistered, FlightOwned, OneHolder, NotBoth
<1>3. CASE i # j
  <2>1. wait'[i] = wait[i] /\ (i \in inflight' <=> i \in inflight)
    BY <1>3 DEF Register, MapsOK
  <2> QED
    BY <1>1, <1>3, <2>1 DEF Flight, FlightRegistered, FlightOwned, OneHolder, NotBoth
<1> QED
  BY <1>2, <1>3

\* A flight that ends: its holder lets go of it, and it leaves the maps.
LEMMA EndFlight ==
  ASSUME MapsOK, OneFlight, NEW b \in Actors, NEW j \in Segments, queue' = queue,
         cache \subseteq cache', inflight' = inflight \ {j},
         j \in cache' \/ wait'[j] = 0,
         \A i \in Segments : i # j => wait'[i] = wait[i],
         Holds(b, j), \A i \in Segments : ~Holds(b, i)',
         \A a \in Actors, i \in Segments : a # b => (Holds(a, i)' <=> Holds(a, i)),
         \A i \in Segments : Holds(b, i) => i = j
  PROVE  OneFlight'
<1> SUFFICES ASSUME NEW i \in Segments, i \notin cache' PROVE Flight(i)'
  BY DEF OneFlight, Flight
<1>1. Flight(i) /\ (Queued(i)' <=> Queued(i)) /\ (OneSlot(i)' <=> OneSlot(i))
  BY DEF OneFlight, Flight, Queued, OneSlot
<1>2. CASE i = j
  <2>1. ~Queued(i) /\ \A a \in Actors : ~Holds(a, i)'
    BY <1>1, <1>2 DEF Flight, OneHolder, NotBoth
  <2> QED
    BY <1>1, <1>2, <2>1 DEF Flight, FlightRegistered, FlightOwned, OneHolder, NotBoth
<1>3. CASE i # j
  BY <1>1, <1>3 DEF Flight, FlightRegistered, FlightOwned, OneHolder, NotBoth
<1> QED
  BY <1>2, <1>3

\* The non-blocking send moves the flight from the player to a queue slot.
LEMMA PushFlight == ASSUME TypeOK, OneFlight, EnqueuePush PROVE OneFlight'
<1> USE ActorCases DEF TypeOK, maps, player
<1> DEFINE j == seg[Player]
<1>0. /\ queue \in Seq(Segments) /\ j \in Segments /\ pc[Player] = "push"
      /\ UNCHANGED <<cache, inflight, wait>>
  BY DEF MapsOK, EnqueuePush
<1>1. \A a \in Workers, i \in Segments : Holds(a, i)' <=> Holds(a, i)
  BY DEF EnqueuePush, Goto, Holds, PcOK, MapsOK
<1>2. \A i \in Segments : Holds(Player, i) <=> i = j
  BY <1>0 DEF Holds
<1> SUFFICES ASSUME NEW i \in Segments, i \notin cache PROVE Flight(i)'
  BY <1>0 DEF OneFlight, Flight
<1>3. Flight(i)
  BY DEF OneFlight, Flight
<1>4. CASE Len(queue) < QueueCap
  <2>1. queue' = Append(queue, j) /\ \A k \in Segments : ~Holds(Player, k)'
    BY <1>4 DEF EnqueuePush, Goto, Holds, PcOK
  <2>2. /\ Len(queue) \in Nat /\ DOMAIN queue = 1..Len(queue)
        /\ DOMAIN queue' = 1..(Len(queue) + 1)
        /\ \A n \in 1..Len(queue) : queue'[n] = queue[n]
        /\ queue'[Len(queue) + 1] = j
    BY <1>0, <2>1
  <2>3. Queued(i)' <=> Queued(i) \/ i = j
    BY <2>2 DEF Queued
  <2>4. CASE i = j
    <3>1. ~Queued(i) /\ \A a \in Workers : ~Holds(a, i)
      BY <1>2, <1>3, <2>4 DEF Flight, NotBoth, OneHolder
    <3>2. OneSlot(i)'
      BY <2>2, <2>4, <3>1 DEF OneSlot, Queued
    <3> QED
      BY <1>0, <1>1, <1>2, <1>3, <2>1, <2>3, <2>4, <3>1, <3>2
         DEF Flight, FlightRegistered, FlightOwned, OneHolder, NotBoth
  <2>5. CASE i # j
    <3>1. OneSlot(i)'
      BY <1>3, <2>2, <2>5 DEF Flight, OneSlot
    <3> QED
      BY <1>0, <1>1, <1>2, <1>3, <2>1, <2>3, <2>5, <3>1
         DEF Flight, FlightRegistered, FlightOwned, OneHolder, NotBoth
  <2> QED
    BY <2>4, <2>5
<1>5. CASE ~(Len(queue) < QueueCap)
  <2>1. queue' = queue /\ \A k \in Segments : Holds(Player, k)' <=> Holds(Player, k)
    BY <1>0, <1>2, <1>5 DEF EnqueuePush, Goto, Holds, PcOK
  <2>2. (Queued(i)' <=> Queued(i)) /\ (OneSlot(i)' <=> OneSlot(i))
    BY <2>1 DEF Queued, OneSlot
  <2> QED
    BY <1>0, <1>1, <1>3, <2>1, <2>2
       DEF Flight, FlightRegistered, FlightOwned, OneHolder, NotBoth
<1> QED
  BY <1>4, <1>5

\* A worker that takes the head of the queue takes its flight over.
LEMMA TakeFlight ==
  ASSUME TypeOK, OneFlight, NEW w \in Workers, WorkerTakes(w)
  PROVE  OneFlight'
<1> USE ActorCases DEF TypeOK, maps, player
<1> DEFINE j == Head(queue)
<1>0. /\ queue \in Seq(Segments) /\ queue # <<>> /\ queue' = Tail(queue)
      /\ UNCHANGED <<cache, inflight, wait>>
  BY DEF MapsOK, WorkerTakes
<1>1. /\ Len(queue) \in Nat \ {0} /\ DOMAIN queue = 1..Len(queue) /\ j = queue[1]
      /\ DOMAIN queue' = 1..(Len(queue) - 1)
      /\ \A n \in 1..(Len(queue) - 1) : queue'[n] = queue[n + 1]
      /\ j \in Segments
  BY <1>0
<1>2. \A a \in Actors \ {w}, i \in Segments : Holds(a, i)' <=> Holds(a, i)
  BY DEF WorkerTakes, Goto, Holds, PcOK, MapsOK
<1>3. \A i \in Segments : ~Holds(w, i) /\ (Holds(w, i)' <=> i = j)
  BY <1>1 DEF WorkerTakes, Goto, Holds, PcOK, MapsOK
<1> SUFFICES ASSUME NEW i \in Segments, i \notin cache PROVE Flight(i)'
  BY <1>0 DEF OneFlight, Flight
<1>4. Flight(i)
  BY DEF OneFlight, Flight
<1>5. OneSlot(i)'
  <2> SUFFICES ASSUME NEW m \in 1..(Len(queue) - 1), NEW n \in 1..(Len(queue) - 1),
                      queue'[m] = i, queue'[n] = i
               PROVE  m = n
    BY <1>1 DEF OneSlot
  <2>1. m + 1 \in DOMAIN queue /\ n + 1 \in DOMAIN queue /\ queue[m + 1] = i /\ queue[n + 1] = i
    BY <1>1
  <2> QED
    BY <1>4, <2>1 DEF Flight, OneSlot
<1>6. Queued(i)' => Queued(i) /\ i # j
  <2> SUFFICES ASSUME NEW n \in 1..(Len(queue) - 1), queue'[n] = i PROVE Queued(i) /\ i # j
    BY <1>1 DEF Queued
  <2>1. n + 1 \in DOMAIN queue /\ queue[n + 1] = i /\ 1 \in DOMAIN queue /\ n + 1 # 1
    BY <1>1
  <2> QED
    BY <1>1, <1>4, <2>1 DEF Queued, Flight, OneSlot
<1>7. Queued(i) => Queued(i)' \/ i = j
  <2> SUFFICES ASSUME NEW n \in DOMAIN queue, queue[n] = i, i # j PROVE Queued(i)'
    BY DEF Queued
  <2>1. n # 1 /\ n - 1 \in 1..(Len(queue) - 1) /\ queue'[n - 1] = i
    BY <1>1
  <2> QED
    BY <1>1, <2>1 DEF Queued
<1>8. CASE i = j
  <2>1. Queued(i)
    BY <1>1, <1>8 DEF Queued
  <2>2. \A a \in Actors : ~Holds(a, i)
    BY <1>4, <2>1 DEF Flight, NotBoth
  <2> QED
    BY <1>0, <1>2, <1>3, <1>4, <1>5, <1>6, <1>8, <2>1, <2>2
       DEF Flight, FlightRegistered, FlightOwned, OneHolder, NotBoth
<1>9. CASE i # j
  BY <1>0, <1>2, <1>3, <1>4, <1>5, <1>6, <1>7, <1>9
     DEF Flight, FlightRegistered, FlightOwned, OneHolder, NotBoth
<1> QED
  BY <1>8, <1>9

\* OneFlight is preserved by every step.
LEMMA NextOneFlight ==
  ASSUME TypeOK, PlayerProgress, OneFlight, [Next]_vars
  PROVE  OneFlight'
<1> USE ActorCases DEF TypeOK, maps, player
<1>0. CASE Quiet
  <2> SUFFICES ASSUME NEW i \in Segments, i \notin cache PROVE Flight(i)'
    BY <1>0 DEF OneFlight, Flight, Quiet
  <2>1. Flight(i) /\ (Queued(i)' <=> Queued(i)) /\ (OneSlot(i)' <=> OneSlot(i))
    BY <1>0 DEF OneFlight, Flight, Queued, OneSlot, Quiet
  <2> QED
    BY <1>0, <2>1 DEF Quiet, Flight, FlightRegistered, FlightOwned, OneHolder, NotBoth
<1>1. CASE GetStart
  <2>1. cur \in Segments
    BY <1>1, CurInLoop DEF GetStart, End
  <2>2. /\ \A a \in Workers, i \in Segments : Holds(a, i)' <=> Holds(a, i)
        /\ \A i \in Segments : ~Holds(Player, i) /\ (Holds(Player, i)' <=> i = cur)
    BY <1>1, <2>1 DEF GetStart, Goto, Holds, PcOK, MapsOK
  <2>3. cur \in cache \/ cur \notin inflight
    BY <1>1, <2>1 DEF GetStart, OneFlight, FlightRegistered
  <2> QED
    BY <1>1, <2>1, <2>2, <2>3, RegisterFlight DEF GetStart
<1>2. CASE GetRescued
  <2>1. cur \in Segments
    BY <1>2, CurInLoop DEF GetRescued, End
  <2>2. \A a \in Actors, i \in Segments : Holds(a, i)' <=> Holds(a, i)
    BY <1>2, QuietGoto DEF GetRescued, GetReturn
  <2> QED
    BY <1>2, <2>1, <2>2, StoreFlight DEF GetRescued
<1>3. CASE EnqueueRegister
  <2>1. pos \in Segments
    BY <1>3 DEF EnqueueRegister, EnqueueDone, Segments, MapsOK
  <2>2. /\ \A a \in Workers, i \in Segments : Holds(a, i)' <=> Holds(a, i)
        /\ \A i \in Segments : ~Holds(Player, i) /\ (Holds(Player, i)' <=> i = pos)
    BY <1>3, <2>1 DEF EnqueueRegister, Goto, Holds, PcOK, MapsOK
  <2> QED
    BY <1>3, <2>1, <2>2, RegisterFlight DEF EnqueueRegister
<1>4. CASE EnqueuePush
  BY <1>4, PushFlight
<1>5. CASE EnqueueDrop
  <2>1. /\ Holds(Player, seg[Player]) /\ \A i \in Segments : ~Holds(Player, i)'
        /\ \A i \in Segments : Holds(Player, i) => i = seg[Player]
        /\ \A a \in Actors, i \in Segments : a # Player => (Holds(a, i)' <=> Holds(a, i))
    BY <1>5 DEF EnqueueDrop, Goto, Holds, PcOK, MapsOK
  <2>2. /\ seg[Player] \in Segments /\ wait'[seg[Player]] = 0
        /\ \A i \in Segments : i # seg[Player] => wait'[i] = wait[i]
    BY <1>5 DEF EnqueueDrop, MapsOK
  <2> QED
    BY <1>5, <2>1, <2>2, EndFlight DEF EnqueueDrop
<1>6. ASSUME NEW a \in Actors, FetchSkipped(a) PROVE OneFlight'
  <2>1. /\ Holds(a, seg[a]) /\ \A i \in Segments : ~Holds(a, i)'
        /\ \A i \in Segments : Holds(a, i) => i = seg[a]
        /\ \A b \in Actors, i \in Segments : b # a => (Holds(b, i)' <=> Holds(b, i))
    BY <1>6 DEF FetchSkipped, GetReturn, Goto, Holds, PcOK, MapsOK
  <2>2. seg[a] \in Segments /\ seg[a] \in cache' /\ wait' = wait
    BY <1>6 DEF FetchSkipped, MapsOK
  <2> QED
    BY <1>6, <2>1, <2>2, EndFlight DEF FetchSkipped
<1>7. ASSUME NEW a \in Actors, NEW ok \in BOOLEAN, FetchFinish(a, ok) PROVE OneFlight'
  <2>1. /\ Holds(a, seg[a]) /\ \A i \in Segments : ~Holds(a, i)'
        /\ \A i \in Segments : Holds(a, i) => i = seg[a]
        /\ \A b \in Actors, i \in Segments : b # a => (Holds(b, i)' <=> Holds(b, i))
    BY <1>7 DEF FetchFinish, GetReturn, Goto, Holds, PcOK, MapsOK
  <2>2. /\ seg[a] \in Segments /\ wait'[seg[a]] = 0 /\ cache \subseteq cache'
        /\ \A i \in Segments : i # seg[a] => wait'[i] = wait[i]
    BY <1>7 DEF FetchFinish, CloseWait, MapsOK
  <2> QED
    BY <1>7, <2>1, <2>2, EndFlight DEF FetchFinish
<1>8. ASSUME NEW w \in Workers, WorkerTakes(w) PROVE OneFlight'
  BY <1>8, TakeFlight
<1>9. ASSUME NEW r \in watch, RescueSucceeds(r) PROVE OneFlight'
  <2>1. r.seg \in Segments
    BY DEF MapsOK, Rescuers
  <2>2. \A a \in Actors, i \in Segments : Holds(a, i)' <=> Holds(a, i)
    BY <1>9 DEF RescueSucceeds, Holds
  <2> QED
    BY <1>9, <2>1, <2>2, StoreFlight DEF RescueSucceeds
<1> QED
  BY <1>0, <1>1, <1>2, <1>3, <1>4, <1>5, <1>6, <1>7, <1>8, <1>9, StepKinds

-----------------------------------------------------------------------------
(* Channels, the player, cancellation and rescues.                         *)

\* The steps of everybody but the player.
Others ==
  \/ UNCHANGED vars
  \/ \E w \in Workers : WorkerStep(w)
  \/ \E r \in watch : RescuerStep(r)
  \/ \E i \in Segments : RequestRescue(i)

\* What the others do to a segment: nothing the player's wait depends on, or
\* they close its channel.
Settled(i) ==
  \/ wait'[i] = wait[i] /\ closed'[i] = closed[i] /\ (i \in cache' <=> i \in cache)
  \/ wait'[i] = 0 /\ closed'[i] = closed[i] \cup ({wait[i]} \ {0})

LEMMA OthersStep ==
  ASSUME TypeOK, Others
  PROVE  /\ pc'[Player] = pc[Player] /\ seg'[Player] = seg[Player]
         /\ UNCHANGED <<cur, chan>>
         /\ cache \subseteq cache'
         /\ \A i \in Segments : Settled(i)
<1> USE ActorCases DEF TypeOK, maps, player
<1>1. CASE UNCHANGED vars
  BY <1>1 DEF vars, Settled
<1>2. ASSUME NEW w \in Workers, WorkerTakes(w) \/ WorkerExits(w) \/ FetchBegin(w) \/ FetchSkipped(w)
      PROVE  /\ pc'[Player] = pc[Player] /\ seg'[Player] = seg[Player]
             /\ UNCHANGED <<cur, chan, cache, wait, closed>>
  BY <1>2 DEF WorkerTakes, WorkerExits, FetchBegin, FetchSkipped, Goto, PcOK, MapsOK
<1>3. ASSUME NEW w \in Workers, NEW ok \in BOOLEAN, FetchFinish(w, ok)
      PROVE  /\ pc'[Player] = pc[Player] /\ seg'[Player] = seg[Player]
             /\ UNCHANGED <<cur, chan>> /\ cache \subseteq cache'
             /\ \A i \in Segments : Settled(i)
  <2>1. /\ pc'[Player] = pc[Player] /\ seg'[Player] = seg[Player]
        /\ UNCHANGED <<cur, chan>> /\ cache \subseteq cache'
    BY <1>3 DEF FetchFinish, Goto, PcOK
  <2>2. \A i \in Segments : i # seg[w] => (i \in cache' <=> i \in cache)
    BY <1>3 DEF FetchFinish
  <2>3. seg[w] \in Segments /\ CloseWait(seg[w])
    BY <1>3 DEF FetchFinish, MapsOK
  <2> QED
    BY <2>1, <2>2, <2>3 DEF CloseWait, Settled, MapsOK
<1>4. ASSUME NEW r \in watch, RescueSucceeds(r)
      PROVE  /\ pc'[Player] = pc[Player] /\ seg'[Player] = seg[Player]
             /\ UNCHANGED <<cur, chan>> /\ cache \subseteq cache'
             /\ \A i \in Segments : Settled(i)
  <2>1. r.seg \in Segments
    BY DEF MapsOK, Rescuers
  <2> QED
    BY <1>4, <2>1 DEF RescueSucceeds, StoreRescueResult, CloseWait, Settled, MapsOK
<1>5. CASE \/ \E r \in watch : RescueFails(r) \/ RescuerWoken(r) \/ RescuerStopped(r)
           \/ \E i \in Segments : RequestRescue(i)
  BY <1>5 DEF RescueFails, RescuerWoken, RescuerStopped, RequestRescue, Settled
<1> QED
  BY <1>1, <1>2, <1>3, <1>4, <1>5 DEF Others, WorkerStep, RescuerStep, FetchStep, Settled

LEMMA NextSplit == [Next]_vars => Others \/ PlayerStep
BY DEF Next, Others

\* A registered channel is open, and every channel is one that was made.
LEMMA NextChannels ==
  ASSUME TypeOK, ChannelsNamed, NoDoubleClose, [Next]_vars
  PROVE  /\ NoDoubleClose'
         /\ \A i \in Segments : wait'[i] <= made'[i] /\ closed'[i] \subseteq 1..made'[i]
         /\ \A i \in Segments : made[i] <= made'[i]
<1> USE ActorCases DEF TypeOK, maps, player
<1> DEFINE Good(i) == /\ wait'[i] \notin closed'[i] /\ wait'[i] <= made'[i]
                      /\ closed'[i] \subseteq 1..made'[i] /\ made[i] <= made'[i]
<1> SUFFICES ASSUME NEW i \in Segments PROVE Good(i)
  BY DEF NoDoubleClose
<1>a. /\ wait[i] \in Nat /\ made[i] \in Nat /\ wait[i] <= made[i]
      /\ closed[i] \subseteq 1..made[i] /\ wait[i] \notin closed[i] /\ 0 \notin closed[i]
  BY DEF MapsOK, ChannelsNamed, NoDoubleClose
<1>1. CASE UNCHANGED <<wait, made, closed>>
  BY <1>1, <1>a
<1>2. ASSUME NEW j \in Segments, CloseWait(j), made' = made PROVE Good(i)
  <2>1. \/ wait'[i] = wait[i] /\ closed'[i] = closed[i]
        \/ wait'[i] = 0 /\ closed'[i] = closed[i] \cup ({wait[i]} \ {0})
    BY <1>2 DEF CloseWait, MapsOK
  <2>2. 0 \notin closed[i] \cup ({wait[i]} \ {0}) /\ closed[i] \cup ({wait[i]} \ {0}) \subseteq 1..made[i]
    BY <1>a
  <2> QED
    BY <1>2, <1>a, <2>1, <2>2
<1>3. ASSUME NEW j \in Segments, Register(j), closed' = closed PROVE Good(i)
  <2>1. \/ wait'[i] = wait[i] /\ made'[i] = made[i]
        \/ wait'[i] = made[i] + 1 /\ made'[i] = made[i] + 1
    BY <1>3 DEF Register, MapsOK
  <2>2. made[i] + 1 \notin closed[i] /\ closed[i] \subseteq 1..(made[i] + 1)
    BY <1>a
  <2> QED
    BY <1>3, <1>a, <2>1, <2>2
<1>4. CASE EnqueueDrop
  <2>1. (wait'[i] = wait[i] \/ wait'[i] = 0) /\ closed'[i] = closed[i] /\ made'[i] = made[i]
    BY <1>4 DEF EnqueueDrop, MapsOK
  <2> QED
    BY <1>a, <2>1
<1>5. CASE Quiet \/ EnqueuePush \/ (\E a \in Actors : FetchSkipped(a))
           \/ \E w \in Workers : WorkerTakes(w)
  BY <1>1, <1>5 DEF Quiet, EnqueuePush, FetchSkipped, WorkerTakes
<1>6. CASE GetStart
  BY <1>3, <1>6, CurInLoop DEF GetStart, End
<1>7. CASE EnqueueRegister
  <2>1. pos \in Segments
    BY <1>7 DEF EnqueueRegister, EnqueueDone, Segments, MapsOK
  <2> QED
    BY <1>3, <1>7, <2>1 DEF EnqueueRegister
<1>8. CASE GetRescued
  BY <1>2, <1>8, CurInLoop DEF GetRescued, StoreRescueResult, End
<1>9. ASSUME NEW a \in Actors, NEW ok \in BOOLEAN, FetchFinish(a, ok) PROVE Good(i)
  BY <1>2, <1>9 DEF FetchFinish, MapsOK
<1>10. ASSUME NEW r \in watch, RescueSucceeds(r) PROVE Good(i)
  BY <1>2, <1>10 DEF RescueSucceeds, StoreRescueResult, MapsOK, Rescuers
<1> QED
  BY <1>4, <1>5, <1>6, <1>7, <1>8, <1>9, <1>10, StepKinds

\* The player knows where it is.
LEMMA NextPlayer ==
  ASSUME TypeOK, PlayerProgress, OnlyStaleLeak, AwaitsKnownChannel, [Next]_vars
  PROVE  PlayerProgress' /\ OnlyStaleLeak' /\ AwaitsKnownChannel'
<1> USE ActorCases DEF TypeOK, maps, player
<1> DEFINE Known == PlayerProgress' /\ OnlyStaleLeak' /\ AwaitsKnownChannel'
<1>a. ASSUME NEW i \in cache PROVE i \in Segments /\ i \in Int
  BY <1>a DEF MapsOK, Segments
<1>b. ASSUME NEW l, Goto(Player, l) PROVE pc'[Player] = l
  BY <1>b DEF Goto, PcOK
<1>c. cur \in Int
  BY DEF CurOK
<1>0. CASE Others
  <2>1. PlayerProgress'
    BY <1>0, OthersStep DEF PlayerProgress
  <2>2. OnlyStaleLeak'
    <3> SUFFICES ASSUME NEW i \in cache'
                 PROVE  \/ wait'[i] = 0
                        \/ i < cur'
                        \/ i = cur' /\ pc'[Player] \in {"begin", "enq", "push", "drop"}
      BY DEF OnlyStaleLeak
    <3>1. i \in Segments
      BY NextTypeOK DEF MapsOK
    <3> QED
      BY <1>0, <3>1, OthersStep DEF Settled, OnlyStaleLeak
  <2>3. AwaitsKnownChannel'
    <3> SUFFICES ASSUME pc[Player] \in {"await", "race"}
                 PROVE  Woken(cur, chan)' \/ (chan' = wait'[cur'] /\ chan' # 0 /\ cur' \notin cache')
      BY <1>0, OthersStep DEF AwaitsKnownChannel
    <3>1. cur \in Segments
      BY CurInLoop DEF End
    <3> QED
      BY <1>0, <3>1, OthersStep DEF Settled, AwaitsKnownChannel, Woken
  <2> QED
    BY <2>1, <2>2, <2>3
<1>1. CASE \/ ScanUrgentWindow \/ TryUrgentRescue \/ GetMiss \/ GetHit
  BY <1>1, <1>b DEF ScanUrgentWindow, TryUrgentRescue, StartRescue, GetMiss, GetHit, FetchPCs,
     PlayerProgress, OnlyStaleLeak, AwaitsKnownChannel
<1>2. CASE GetJoin
  <2>1. pc'[Player] \in {"await", "race"}
    BY <1>2, <1>b DEF GetJoin
  <2>2. cur \notin cache
    BY <1>2, <1>c DEF GetJoin, OnlyStaleLeak
  <2> QED
    BY <1>2, <2>1, <2>2 DEF GetJoin, FetchPCs, PlayerProgress, OnlyStaleLeak, AwaitsKnownChannel
<1>3. CASE GetStart
  <2>1. pc'[Player] = "begin" /\ seg'[Player] = cur
    BY <1>3, <1>b DEF GetStart, MapsOK
  <2>2. \A i \in Segments : i # cur => wait'[i] = wait[i]
    BY <1>3 DEF GetStart, Register, MapsOK
  <2> QED
    BY <1>3, <1>a, <2>1, <2>2
       DEF GetStart, FetchPCs, PlayerProgress, OnlyStaleLeak, AwaitsKnownChannel
<1>4. CASE GetWoken
  <2>1. pc'[Player] = IF cur \in cache THEN "enq" ELSE "exit"
    BY <1>4, <1>b DEF GetWoken, GetReturn
  <2> QED
    BY <1>4, <2>1 DEF GetWoken, FetchPCs, PlayerProgress, OnlyStaleLeak, AwaitsKnownChannel
<1>5. CASE GetRescued
  <2>1. pc'[Player] = "enq" /\ cur' = cur /\ cur \in Segments
    BY <1>5, <1>b, CurInLoop DEF GetRescued, GetReturn, End
  <2>2. cache' = cache \cup {cur} /\ \A i \in Segments : wait'[i] = IF i = cur THEN 0 ELSE wait[i]
    BY <1>5, <2>1 DEF GetRescued, StoreRescueResult, CloseWait, MapsOK
  <2> QED
    BY <1>5, <1>a, <2>1, <2>2 DEF GetRescued, FetchPCs, PlayerProgress, OnlyStaleLeak, AwaitsKnownChannel
<1>6. CASE GetRescueFails
  BY <1>6, <1>b DEF GetRescueFails, FetchPCs, PlayerProgress, OnlyStaleLeak, AwaitsKnownChannel, Woken
<1>7. CASE EnqueueSkip
  BY <1>7 DEF EnqueueSkip, FetchPCs, PlayerProgress, OnlyStaleLeak, AwaitsKnownChannel
<1>8. CASE EnqueueRegister
  <2>1. pc'[Player] = "push"
    BY <1>8, <1>b DEF EnqueueRegister
  <2>2. \A i \in cache : wait'[i] = wait[i]
    BY <1>8, <1>a DEF EnqueueRegister, Register, MapsOK
  <2> QED
    BY <1>8, <2>1, <2>2 DEF EnqueueRegister, FetchPCs, PlayerProgress, OnlyStaleLeak, AwaitsKnownChannel
<1>9. CASE EnqueuePush
  <2>1. pc'[Player] \in {"enq", "drop"}
    BY <1>9, <1>b DEF EnqueuePush
  <2> QED
    BY <1>9, <2>1 DEF EnqueuePush, FetchPCs, PlayerProgress, OnlyStaleLeak, AwaitsKnownChannel
<1>10. CASE EnqueueDrop
  <2>1. pc'[Player] = "enq"
    BY <1>10, <1>b DEF EnqueueDrop
  <2>2. \A i \in cache : wait'[i] = wait[i] \/ wait'[i] = 0
    BY <1>10, <1>a DEF EnqueueDrop, MapsOK
  <2> QED
    BY <1>10, <2>1, <2>2 DEF EnqueueDrop, FetchPCs, PlayerProgress, OnlyStaleLeak, AwaitsKnownChannel
<1>11. CASE SegmentPlayed
  <2>1. pc'[Player] \in {"stop", "scan"} /\ cur' = cur + 1
    BY <1>11, <1>b DEF SegmentPlayed
  <2> QED
    BY <1>11, <1>a, <1>c, <2>1
       DEF SegmentPlayed, FetchPCs, PlayerProgress, OnlyStaleLeak, AwaitsKnownChannel
<1>12. CASE FetchSkipped(Player)
  <2>1. pc'[Player] = "enq"
    BY <1>12, <1>b DEF FetchSkipped, GetReturn
  <2> QED
    BY <1>12, <2>1 DEF FetchSkipped, FetchPCs, PlayerProgress, OnlyStaleLeak, AwaitsKnownChannel
<1>13. CASE FetchBegin(Player)
  <2>1. pc'[Player] = "fetch"
    BY <1>13, <1>b DEF FetchBegin
  <2> QED
    BY <1>13, <2>1 DEF FetchBegin, FetchPCs, PlayerProgress, OnlyStaleLeak, AwaitsKnownChannel
<1>14. ASSUME NEW ok \in BOOLEAN, FetchFinish(Player, ok) PROVE Known
  <2>1. pc'[Player] = IF ok \/ cur \in cache THEN "enq" ELSE "exit"
    BY <1>14, <1>b DEF FetchFinish, GetReturn, PlayerProgress, FetchPCs
  <2>2. seg[Player] = cur /\ cur \in Segments /\ cur' = cur
    BY <1>14, CurInLoop DEF FetchFinish, PlayerProgress, FetchPCs, End
  <2>3. /\ cache' = IF ok \/ cur \in cache THEN cache \cup {cur} ELSE cache
        /\ \A i \in Segments : wait'[i] = IF i = cur THEN 0 ELSE wait[i]
    BY <1>14, <2>2 DEF FetchFinish, CloseWait, MapsOK
  <2> QED
    BY <1>14, <1>a, <2>1, <2>2, <2>3 DEF FetchPCs, PlayerProgress, OnlyStaleLeak, AwaitsKnownChannel
<1>15. CASE StopCancel \/ StopJoin
  <2>1. pc'[Player] \in {"join", "done"}
    BY <1>15, <1>b DEF StopCancel, StopJoin
  <2> QED
    BY <1>15, <2>1 DEF StopCancel, StopJoin, FetchPCs, PlayerProgress, OnlyStaleLeak, AwaitsKnownChannel
<1> QED
  BY <1>0, <1>1, <1>2, <1>3, <1>4, <1>5, <1>6, <1>7, <1>8, <1>9, <1>10, <1>11, <1>12, <1>13,
     <1>14, <1>15, NextSplit DEF PlayerStep, GetStep, EnqueueStep, FetchStep

\* A rescuer of the next state was there already, or it was just started on
\* the registered channel of a segment it marked.
LEMMA WatchSteps ==
  ASSUME TypeOK, [Next]_vars, NEW r \in watch'
  PROVE  \/ \E q \in watch : q.seg = r.seg /\ q.chan = r.chan
         \/ /\ r.seg \in Segments /\ r.chan = wait[r.seg] /\ r.seg \in rescued'
            /\ UNCHANGED <<wait, made>>
<1> USE DEF TypeOK, maps, player
<1>1. CASE watch' \subseteq watch
  BY <1>1
<1>2. ASSUME NEW i \in Segments, StartRescue(i), UNCHANGED <<wait, made>>
      PROVE  \/ \E q \in watch : q.seg = r.seg /\ q.chan = r.chan
             \/ /\ r.seg \in Segments /\ r.chan = wait[r.seg] /\ r.seg \in rescued'
                /\ UNCHANGED <<wait, made>>
  BY <1>2 DEF StartRescue, Watcher
<1>3. CASE TryUrgentRescue
  BY <1>1, <1>2, <1>3 DEF TryUrgentRescue, MapsOK
<1>4. ASSUME NEW i \in Segments, RequestRescue(i)
      PROVE  StartRescue(i) /\ UNCHANGED <<wait, made>>
  BY <1>4 DEF RequestRescue
<1>5. ASSUME NEW q \in watch, RescueFails(q)
      PROVE  \E p \in watch : p.seg = r.seg /\ p.chan = r.chan
  BY <1>5 DEF RescueFails, Watcher
<1>6. CASE \E q \in watch : RescueSucceeds(q) \/ RescuerWoken(q) \/ RescuerStopped(q)
  BY <1>1, <1>6 DEF RescueSucceeds, RescuerWoken, RescuerStopped
<1>7. CASE \E w \in Workers : WorkerStep(w)
  BY <1>1, <1>7 DEF WorkerStep, FetchStep, WorkerTakes, WorkerExits, FetchSkipped, FetchBegin,
     FetchFinish
<1>8. CASE GetStep
  BY <1>1, <1>8 DEF GetStep, GetHit, GetMiss, GetJoin, GetStart, GetWoken, GetRescued, GetRescueFails
<1>9. CASE EnqueueStep \/ SegmentPlayed \/ FetchStep(Player)
  BY <1>1, <1>9 DEF EnqueueStep, EnqueueSkip, EnqueueRegister, EnqueuePush, EnqueueDrop,
     SegmentPlayed, FetchStep, FetchSkipped, FetchBegin, FetchFinish
<1>10. CASE ScanUrgentWindow \/ StopCancel \/ StopJoin \/ UNCHANGED vars
  BY <1>1, <1>10 DEF ScanUrgentWindow, StopCancel, StopJoin, vars
<1> QED
  BY <1>2, <1>3, <1>4, <1>5, <1>6, <1>7, <1>8, <1>9, <1>10 DEF Next, PlayerStep, RescuerStep

\* A missing segment loses its rescued mark only together with its channel,
\* and a new channel is one that nobody knows yet.
LEMMA MarkSteps ==
  ASSUME TypeOK, [Next]_vars, NEW i \in Segments, i \notin cache'
  PROVE  /\ wait'[i] \in {wait[i], 0, made[i] + 1}
         /\ i \in rescued => i \in rescued' \/ wait'[i] = 0
<1> USE ActorCases DEF TypeOK, maps, player
<1> DEFINE Kept == /\ wait'[i] \in {wait[i], 0, made[i] + 1}
                   /\ i \in rescued => i \in rescued' \/ wait'[i] = 0
<1>1. CASE UNCHANGED vars
  BY <1>1 DEF vars
<1>2. CASE TryUrgentRescue \/ \E j \in Segments : RequestRescue(j)
  BY <1>2 DEF TryUrgentRescue, RequestRescue, StartRescue
<1>3. CASE GetJoin
  BY <1>3 DEF GetJoin
<1>4. CASE GetStart
  BY <1>4, CurInLoop DEF GetStart, Register, MapsOK, End
<1>5. CASE GetRescued
  <2>1. CloseWait(cur) /\ i # cur /\ rescued' = rescued \ {cur}
    BY <1>5 DEF GetRescued, StoreRescueResult
  <2> QED
    BY <2>1 DEF CloseWait, MapsOK
<1>6. CASE EnqueueRegister
  BY <1>6 DEF EnqueueRegister, EnqueueDone, Register, MapsOK, Segments
<1>7. CASE EnqueueDrop
  BY <1>7 DEF EnqueueDrop, MapsOK
<1>8. ASSUME NEW a \in Actors, FetchSkipped(a) PROVE Kept
  BY <1>8 DEF FetchSkipped
<1>9. ASSUME NEW a \in Actors, FetchBegin(a) PROVE Kept
  BY <1>9 DEF FetchBegin
<1>10. ASSUME NEW a \in Actors, NEW ok \in BOOLEAN, FetchFinish(a, ok) PROVE Kept
  <2>1. CloseWait(seg[a]) /\ rescued' = rescued \ {seg[a]}
    BY <1>10 DEF FetchFinish
  <2> QED
    BY <2>1 DEF CloseWait, MapsOK
<1>11. ASSUME NEW r \in watch, RescueSucceeds(r) PROVE Kept
  <2>1. CloseWait(r.seg) /\ i # r.seg /\ rescued' = rescued \ {r.seg}
    BY <1>11 DEF RescueSucceeds, StoreRescueResult
  <2> QED
    BY <2>1 DEF CloseWait, MapsOK
<1>12. CASE \E r \in watch : RescueFails(r) \/ RescuerWoken(r) \/ RescuerStopped(r)
  BY <1>12 DEF RescueFails, RescuerWoken, RescuerStopped
<1>13. CASE \/ ScanUrgentWindow \/ GetHit \/ GetMiss \/ GetWoken \/ GetRescueFails
            \/ EnqueueSkip \/ EnqueuePush \/ SegmentPlayed \/ StopCancel \/ StopJoin
            \/ \E w \in Workers : WorkerTakes(w) \/ WorkerExits(w)
  BY <1>13 DEF ScanUrgentWindow, GetHit, GetMiss, GetWoken, GetRescueFails, EnqueueSkip,
     EnqueuePush, SegmentPlayed, StopCancel, StopJoin, WorkerTakes, WorkerExits
<1> QED
  BY <1>1, <1>2, <1>3, <1>4, <1>5, <1>6, <1>7, <1>8, <1>9, <1>10, <1>11, <1>12, <1>13
     DEF Next, PlayerStep, GetStep, EnqueueStep, FetchStep, WorkerStep, RescuerStep

\* The player is in the rescue of Get because it was there before, or because
\* it has just marked the segment.
LEMMA RaceSteps ==
  ASSUME TypeOK, [Next]_vars, pc'[Player] = "race"
  PROVE  \/ pc[Player] = "race" /\ UNCHANGED <<cur, chan>>
         \/ cur' \in rescued'
<1> USE ActorCases DEF TypeOK, maps, player
<1>1. CASE Others
  BY <1>1, OthersStep
<1>2. CASE GetJoin
  BY <1>2 DEF GetJoin, Goto, PcOK
<1>3. CASE TryUrgentRescue \/ EnqueueSkip
  BY <1>3 DEF TryUrgentRescue, EnqueueSkip
<1>4. CASE \/ ScanUrgentWindow \/ GetHit \/ GetMiss \/ GetStart \/ GetWoken \/ GetRescued
           \/ GetRescueFails \/ EnqueueRegister \/ EnqueuePush \/ EnqueueDrop \/ SegmentPlayed
           \/ FetchStep(Player) \/ StopCancel \/ StopJoin
  BY <1>4 DEF ScanUrgentWindow, GetHit, GetMiss, GetStart, GetWoken, GetRescued, GetReturn,
     GetRescueFails, EnqueueRegister, EnqueuePush, EnqueueDrop, SegmentPlayed, FetchStep,
     FetchSkipped, FetchBegin, FetchFinish, StopCancel, StopJoin, Goto, PcOK
<1> QED
  BY <1>1, <1>2, <1>3, <1>4, NextSplit DEF PlayerStep, GetStep, EnqueueStep

LEMMA NextRescue ==
  ASSUME TypeOK, ChannelsNamed, AwaitsKnownChannel, OneRescuePerFlight, [Next]_vars
  PROVE  OneRescuePerFlight'
<1> USE DEF TypeOK
<1> SUFFICES ASSUME NEW i \in Segments, i \notin cache'
             PROVE  /\ \A r \in watch' : r.seg = i /\ r.chan = wait'[i] => i \in rescued'
                    /\ pc'[Player] = "race" /\ cur' = i /\ chan' = wait'[i] => i \in rescued'
  BY DEF OneRescuePerFlight
<1>a. cache \subseteq cache'
  <2>1. CASE Others
    BY <2>1, OthersStep
  <2>2. CASE PlayerStep
    BY <2>2 DEF PlayerStep, GetStep, EnqueueStep, FetchStep, ScanUrgentWindow, TryUrgentRescue,
       GetHit, GetMiss, GetJoin, GetStart, GetWoken, GetRescued, GetRescueFails, EnqueueSkip,
       EnqueueRegister, EnqueuePush, EnqueueDrop, SegmentPlayed, FetchSkipped, FetchBegin,
       FetchFinish, StopCancel, StopJoin, StoreRescueResult, maps
  <2> QED
    BY <2>1, <2>2, NextSplit
<1>b. i \notin cache /\ made[i] \in Nat /\ wait[i] \in Nat
  BY <1>a DEF MapsOK
<1>1. ASSUME NEW r \in watch', r.seg = i, r.chan = wait'[i] PROVE i \in rescued'
  <2>1. CASE \E q \in watch : q.seg = r.seg /\ q.chan = r.chan
    <3>1. PICK q \in watch : q.seg = i /\ q.chan = wait'[i]
      BY <1>1, <2>1
    <3>2. q.chan \in Nat \ {0} /\ q.chan <= made[i]
      BY <3>1 DEF MapsOK, Rescuers, ChannelsNamed
    <3>3. q.chan = wait[i]
      BY <1>b, <3>1, <3>2, MarkSteps
    <3>4. i \in rescued
      BY <1>b, <3>1, <3>3 DEF OneRescuePerFlight
    <3> QED
      BY <3>1, <3>2, <3>4, MarkSteps
  <2>2. CASE r.seg \in rescued'
    BY <1>1, <2>2
  <2> QED
    BY <2>1, <2>2, WatchSteps
<1>2. ASSUME pc'[Player] = "race", cur' = i, chan' = wait'[i] PROVE i \in rescued'
  <2>1. CASE pc[Player] = "race" /\ UNCHANGED <<cur, chan>>
    <3>1. chan \in 1..made[i]
      BY <1>2, <1>b, <2>1 DEF AwaitsKnownChannel, Woken, ChannelsNamed
    <3>2. chan = wait[i]
      BY <1>2, <1>b, <2>1, <3>1, MarkSteps
    <3>3. i \in rescued
      BY <1>2, <1>b, <2>1, <3>2 DEF OneRescuePerFlight
    <3> QED
      BY <1>2, <2>1, <3>1, <3>3, MarkSteps
  <2> QED
    BY <1>2, <2>1, RaceSteps
<1> QED
  BY <1>1, <1>2

LEMMA NextWatchNamed ==
  ASSUME TypeOK, ChannelsNamed, NoDoubleClose, [Next]_vars
  PROVE  ChannelsNamed'
<1>1. ASSUME NEW r \in watch' PROVE r.chan <= made'[r.seg]
  <2>1. CASE \E q \in watch : q.seg = r.seg /\ q.chan = r.chan
    <3>1. PICK q \in watch : q.seg = r.seg /\ q.chan = r.chan
      BY <2>1
    <3>2. q.seg \in Segments /\ q.chan \in Nat /\ q.chan <= made[q.seg] /\ made[q.seg] \in Nat
      BY <3>1 DEF TypeOK, MapsOK, Rescuers, ChannelsNamed
    <3>3. made[q.seg] <= made'[q.seg] /\ made'[q.seg] \in Nat
      BY <3>2, NextChannels, NextTypeOK DEF TypeOK, MapsOK
    <3> QED
      BY <3>1, <3>2, <3>3
  <2>2. CASE r.seg \in Segments /\ r.chan = wait[r.seg] /\ UNCHANGED <<wait, made>>
    BY <2>2 DEF ChannelsNamed
  <2> QED
    BY <2>1, <2>2, WatchSteps
<1> QED
  BY <1>1, NextChannels DEF ChannelsNamed

\* One goroutine moves; it gives up its CancelFunc or stores it for the fetch
\* it is starting.
LEMMA CancelStep ==
  ASSUME MapsOK, CancelOnlyOvertaken, cache \subseteq cache', NEW a \in Actors,
         \A b \in Actors : b # a => pc'[b] = pc[b] /\ seg'[b] = seg[b],
         \A i \in Segments :
           \/ cancelOf'[i] = NoActor
           \/ cancelOf'[i] = cancelOf[i] /\ cancelOf[i] # a
           \/ cancelOf'[i] = a /\ pc'[a] = "fetch" /\ seg'[a] = i,
         cancelled' \subseteq cancelled \ {a}
  PROVE  CancelOnlyOvertaken'
<1>1. ASSUME NEW i \in Segments, cancelOf'[i] # NoActor
      PROVE  pc'[cancelOf'[i]] = "fetch" /\ seg'[cancelOf'[i]] = i
  <2>1. CASE cancelOf'[i] = cancelOf[i] /\ cancelOf[i] # a
    <3>1. cancelOf[i] \in Actors /\ pc[cancelOf[i]] = "fetch" /\ seg[cancelOf[i]] = i
      BY <1>1, <2>1 DEF CancelOnlyOvertaken, MapsOK
    <3> QED
      BY <2>1, <3>1
  <2> QED
    BY <1>1, <2>1
<1>2. ASSUME NEW b \in cancelled' PROVE pc'[b] = "fetch" /\ seg'[b] \in cache'
  <2>1. b \in Actors /\ b # a /\ pc[b] = "fetch" /\ seg[b] \in cache
    BY <1>2 DEF CancelOnlyOvertaken, MapsOK
  <2> QED
    BY <2>1
<1> QED
  BY <1>1, <1>2 DEF CancelOnlyOvertaken

\* A goroutine that is not fetching owns no CancelFunc.
LEMMA NotFetching ==
  ASSUME MapsOK, CancelOnlyOvertaken, NEW a \in Actors, pc[a] # "fetch"
  PROVE  (\A i \in Segments : cancelOf[i] # a) /\ a \notin cancelled
<1>1. ASSUME NEW i \in Segments, cancelOf[i] = a PROVE FALSE
  <2>1. a # NoActor
    BY ActorAssumption DEF Actors
  <2> QED
    BY <1>1, <2>1 DEF CancelOnlyOvertaken
<1>2. a \notin cancelled
  BY DEF CancelOnlyOvertaken
<1> QED
  BY <1>1, <1>2

\* It may move without hurting anybody's.
LEMMA MoveCancel ==
  ASSUME MapsOK, CancelOnlyOvertaken, UNCHANGED <<cancelOf, cancelled>>, cache \subseteq cache',
         NEW a \in Actors, pc[a] # "fetch",
         \A b \in Actors : b # a => pc'[b] = pc[b] /\ seg'[b] = seg[b]
  PROVE  CancelOnlyOvertaken'
BY CancelStep, NotFetching

\* A rescue result cancels the fetch of its own segment, which is cached now.
LEMMA StoreCancel ==
  ASSUME MapsOK, CancelOnlyOvertaken, NEW j \in Segments, StoreRescueResult(j),
         NEW a \in Actors, pc[a] # "fetch" \/ pc'[a] = pc[a], seg' = seg,
         \A b \in Actors : b # a => pc'[b] = pc[b]
  PROVE  CancelOnlyOvertaken'
<1>1. ASSUME NEW i \in Segments, cancelOf'[i] # NoActor
      PROVE  pc'[cancelOf'[i]] = "fetch" /\ seg'[cancelOf'[i]] = i
  <2>1. cancelOf'[i] = cancelOf[i] /\ cancelOf[i] \in Actors
    BY <1>1 DEF StoreRescueResult, MapsOK
  <2> QED
    BY <1>1, <2>1 DEF CancelOnlyOvertaken
<1>2. ASSUME NEW b \in cancelled' PROVE pc'[b] = "fetch" /\ seg'[b] \in cache'
  <2>1. b \in cancelled \/ (b = cancelOf[j] /\ b # NoActor)
    BY <1>2 DEF StoreRescueResult, CancelStored
  <2>2. b \in Actors /\ pc[b] = "fetch" /\ seg[b] \in cache \cup {j}
    BY <2>1 DEF CancelOnlyOvertaken, MapsOK
  <2> QED
    BY <2>2 DEF StoreRescueResult
<1> QED
  BY <1>1, <1>2 DEF CancelOnlyOvertaken

LEMMA NextCancel ==
  ASSUME TypeOK, CancelOnlyOvertaken, [Next]_vars
  PROVE  CancelOnlyOvertaken'
<1> USE ActorCases DEF TypeOK, maps, player
<1>a. \A l : \A a \in Actors : Goto(a, l) => pc'[a] = l /\ \A b \in Actors : b # a => pc'[b] = pc[b]
  BY DEF Goto, PcOK
<1>1. CASE \/ UNCHANGED vars \/ TryUrgentRescue \/ EnqueueSkip
           \/ \E i \in Segments : RequestRescue(i)
           \/ \E r \in watch : RescueFails(r) \/ RescuerWoken(r) \/ RescuerStopped(r)
  BY <1>1 DEF vars, TryUrgentRescue, EnqueueSkip, RequestRescue, RescueFails, RescuerWoken,
     RescuerStopped, CancelOnlyOvertaken
<1>2. CASE \/ ScanUrgentWindow \/ GetHit \/ GetMiss \/ GetJoin \/ GetRescueFails
           \/ SegmentPlayed \/ StopCancel \/ StopJoin \/ EnqueueDrop
  BY <1>2, <1>a, MoveCancel DEF ScanUrgentWindow, GetHit, GetMiss, GetJoin, GetRescueFails,
     SegmentPlayed, StopCancel, StopJoin, EnqueueDrop
<1>3. CASE GetWoken \/ EnqueuePush
  BY <1>3, <1>a, MoveCancel DEF GetWoken, GetReturn, EnqueuePush
<1>4. CASE GetStart
  <2>1. \A b \in Actors : b # Player => seg'[b] = seg[b]
    BY <1>4 DEF GetStart, MapsOK
  <2> QED
    BY <1>4, <1>a, <2>1, MoveCancel DEF GetStart
<1>5. CASE EnqueueRegister
  <2>1. \A b \in Actors : b # Player => seg'[b] = seg[b]
    BY <1>5 DEF EnqueueRegister, MapsOK
  <2> QED
    BY <1>5, <1>a, <2>1, MoveCancel DEF EnqueueRegister
<1>6. ASSUME NEW w \in Workers, WorkerTakes(w) PROVE CancelOnlyOvertaken'
  <2>1. \A b \in Actors : b # w => seg'[b] = seg[b]
    BY <1>6 DEF WorkerTakes, MapsOK
  <2> QED
    BY <1>6, <1>a, <2>1, MoveCancel DEF WorkerTakes
<1>7. ASSUME NEW w \in Workers, WorkerExits(w) PROVE CancelOnlyOvertaken'
  BY <1>7, <1>a, MoveCancel DEF WorkerExits
<1>8. CASE GetRescued
  BY <1>8, <1>a, StoreCancel, CurInLoop DEF GetRescued, GetReturn, End
<1>9. ASSUME NEW r \in watch, RescueSucceeds(r) PROVE CancelOnlyOvertaken'
  <2>1. r.seg \in Segments
    BY DEF MapsOK, Rescuers
  <2> QED
    BY <1>9, <2>1, StoreCancel DEF RescueSucceeds
<1>10. ASSUME NEW a \in Actors, FetchSkipped(a) PROVE CancelOnlyOvertaken'
  <2>1. \A i \in Segments : cancelOf'[i] \in {cancelOf[i], NoActor}
    BY <1>10 DEF FetchSkipped, MapsOK
  <2>2. pc[a] # "fetch" /\ \A b \in Actors : b # a => pc'[b] = pc[b]
    BY <1>10, <1>a DEF FetchSkipped, GetReturn
  <2>3. UNCHANGED <<seg, cache, cancelled>>
    BY <1>10 DEF FetchSkipped
  <2> QED
    BY <2>1, <2>2, <2>3, CancelStep, NotFetching
<1>11. ASSUME NEW a \in Actors, FetchBegin(a) PROVE CancelOnlyOvertaken'
  <2>1. \A i \in Segments : cancelOf'[i] = cancelOf[i] \/ (cancelOf'[i] = a /\ seg[a] = i)
    BY <1>11 DEF FetchBegin, MapsOK
  <2>2. pc[a] # "fetch" /\ pc'[a] = "fetch" /\ \A b \in Actors : b # a => pc'[b] = pc[b]
    BY <1>11, <1>a DEF FetchBegin
  <2>3. UNCHANGED <<seg, cache>> /\ cancelled' = cancelled \ {a}
    BY <1>11 DEF FetchBegin
  <2> QED
    BY <2>1, <2>2, <2>3, CancelStep, NotFetching
<1>12. ASSUME NEW a \in Actors, NEW ok \in BOOLEAN, FetchFinish(a, ok) PROVE CancelOnlyOvertaken'
  <2>1. \A i \in Segments : cancelOf'[i] = IF i = seg[a] THEN NoActor ELSE cancelOf[i]
    BY <1>12 DEF FetchFinish, MapsOK
  <2>2. \A b \in Actors : b # a => pc'[b] = pc[b]
    BY <1>12, <1>a DEF FetchFinish, GetReturn
  <2>3. cancelled' = cancelled \ {a} /\ seg' = seg /\ cache \subseteq cache'
    BY <1>12 DEF FetchFinish
  <2>4. \A i \in Segments : cancelOf[i] = a => i = seg[a]
    BY DEF CancelOnlyOvertaken
  <2> QED
    BY <2>1, <2>2, <2>3, <2>4, CancelStep
<1> QED
  BY <1>1, <1>2, <1>3, <1>4, <1>5, <1>6, <1>7, <1>8, <1>9, <1>10, <1>11, <1>12
     DEF Next, PlayerStep, GetStep, EnqueueStep, FetchStep, WorkerStep, RescuerStep

-----------------------------------------------------------------------------
(* The inductive invariant and the theorems.                               *)

LEMMA InitIInv == Init => IInv
<1> SUFFICES ASSUME Init PROVE IInv
  OBVIOUS
<1>1. /\ \A i \in Segments : wait[i] = 0 /\ made[i] = 0 /\ closed[i] = {} /\ cancelOf[i] = NoActor
      /\ \A a \in Actors : pc[a] = IF a = Player THEN "scan" ELSE "idle"
      /\ Player \in Actors
  BY DEF Init, Actors
<1>2. queue = <<>> /\ cache = {} /\ inflight = {} /\ watch = {} /\ cancelled = {}
  BY DEF Init
<1>3. OneFlight
  <2>1. \A a \in Actors, i \in Segments : ~Holds(a, i)
    BY <1>1 DEF Holds
  <2>2. DOMAIN queue = {}
    BY <1>2
  <2> QED
    BY <1>1, <1>2, <2>1, <2>2
       DEF OneFlight, FlightRegistered, FlightOwned, OneHolder, OneSlot, NotBoth, Queued
<1> QED
  BY <1>1, <1>2, <1>3, InitTypeOK DEF IInv, ChannelsNamed, NoDoubleClose, PlayerProgress,
     OnlyStaleLeak, AwaitsKnownChannel, CancelOnlyOvertaken, OneRescuePerFlight, FetchPCs

LEMMA NextIInv == IInv /\ [Next]_vars => IInv'
<1> SUFFICES ASSUME IInv, [Next]_vars PROVE IInv'
  OBVIOUS
<1> USE DEF IInv
<1>1. TypeOK'
  BY NextTypeOK
<1>2. ChannelsNamed' /\ NoDoubleClose'
  BY NextWatchNamed, NextChannels
<1>3. PlayerProgress' /\ OnlyStaleLeak' /\ AwaitsKnownChannel'
  BY NextPlayer
<1>4. OneFlight' /\ CancelOnlyOvertaken' /\ OneRescuePerFlight'
  BY NextOneFlight, NextCancel, NextRescue
<1> QED
  BY <1>1, <1>2, <1>3, <1>4

\* The inductive invariant holds in every reachable state.
THEOREM Invariance == Spec => []IInv
BY InitIInv, NextIInv, PTL DEF Spec

\* No interleaving of fetches, rescues, joins and dropped prefetches closes a
\* wait channel twice, so the client never panics there.
THEOREM NeverDoubleClose == Spec => []NoDoubleClose
<1>1. IInv => NoDoubleClose
  BY DEF IInv
<1> QED
  BY <1>1, Invariance, PTL

\* A missing segment is in flight exactly if one queue slot or one goroutine
\* is in charge of it: no primary fetch is duplicated and none is forgotten.
THEOREM ExactlyOneFlight == Spec => []OneFlight
<1>1. IInv => OneFlight
  BY DEF IInv
<1> QED
  BY <1>1, Invariance, PTL

\* A Get that waits will be woken by a channel that is closed already or that
\* a worker or the queue is in charge of.
LEMMA WaiterServed == IInv => NoLostWakeup
<1> SUFFICES ASSUME IInv, pc[Player] \in {"await", "race"}, ~Woken(cur, chan)
             PROVE  chan = wait[cur] /\ (Queued(cur) \/ \E w \in Workers : Holds(w, cur))
  BY DEF NoLostWakeup
<1>1. chan = wait[cur] /\ chan # 0 /\ cur \notin cache
  BY DEF IInv, AwaitsKnownChannel
<1>2. cur \in Segments
  BY CurInLoop DEF IInv, TypeOK, End
<1>3. Queued(cur) \/ \E a \in Actors : Holds(a, cur)
  BY <1>1, <1>2 DEF IInv, OneFlight, FlightRegistered, FlightOwned
<1>4. ~Holds(Player, cur)
  BY DEF Holds
<1> QED
  BY <1>1, <1>3, <1>4, ActorCases

\* A Get never waits for a channel that nobody is left to close, whatever the
\* full queue dropped, and whoever joined the flight before.
THEOREM NeverLostWakeup == Spec => []NoLostWakeup
BY WaiterServed, Invariance, PTL

\* A rescue cancels only a fetch whose segment is already cached: it never
\* costs the player a segment (storeRescueResult).
THEOREM RescuesAreHarmless == Spec => []CancelOnlyOvertaken
<1>1. IInv => CancelOnlyOvertaken
  BY DEF IInv
<1> QED
  BY <1>1, Invariance, PTL

\* While somebody watches a flight to rescue it, it is marked as rescued, so
\* that neither RequestRescue nor Get starts a second rescue of it.
THEOREM RescuersAreAlone == Spec => []OneRescuePerFlight
<1>1. IInv => OneRescuePerFlight
  BY DEF IInv
<1> QED
  BY <1>1, Invariance, PTL

-----------------------------------------------------------------------------
(* Refinement.                                                             *)

LEMMA InitAbstract == Init => Abstract!Init
<1> SUFFICES ASSUME Init PROVE Abstract!Init
  OBVIOUS
<1>1. pc[Player] = "scan"
  BY DEF Init, Actors
<1> QED
  BY <1>1 DEF Init, Abstract!Init, Status

\* What a step may do to the cache, to the playback position and to the
\* status, seen from Playback.
LEMMA NextAbstract == IInv /\ [Next]_vars => [Abstract!Next]_<<cache, cur, Status>>
<1> SUFFICES ASSUME IInv, [Next]_vars PROVE [Abstract!Next]_<<cache, cur, Status>>
  OBVIOUS
<1> USE ActorCases DEF IInv, TypeOK, maps, player
<1> DEFINE Mapped == [Abstract!Next]_<<cache, cur, Status>>
<1>b. ASSUME NEW l, Goto(Player, l) PROVE pc'[Player] = l
  BY <1>b DEF Goto, PcOK
<1>d. pc[Player] # "exit" \/ UNCHANGED vars
  BY DEF Next, Running
<1>e. ASSUME NEW i \in Segments, pc[Player] # "exit", cache' = cache \cup {i}, cur' = cur,
             Status' = Status
      PROVE  Mapped
  BY <1>e DEF Abstract!Next, Abstract!Obtain, Segments, Status
<1>0. CASE UNCHANGED vars
  BY <1>0 DEF vars, Status
<1>1. CASE Others /\ ~UNCHANGED vars
  <2>1. pc'[Player] = pc[Player] /\ cur' = cur /\ Status' = Status
    BY <1>1, OthersStep DEF Status
  <2>2. cache' = cache \/ \E i \in Segments : cache' = cache \cup {i}
    BY <1>1 DEF Others, WorkerStep, FetchStep, RescuerStep, WorkerTakes, WorkerExits, FetchSkipped,
       FetchBegin, FetchFinish, RescueSucceeds, StoreRescueResult, RescueFails, RescuerWoken,
       RescuerStopped, RequestRescue, MapsOK, Rescuers
  <2> QED
    BY <1>1, <1>d, <1>e, <2>1, <2>2
<1>2. CASE TryUrgentRescue \/ EnqueueSkip
  BY <1>2 DEF TryUrgentRescue, EnqueueSkip, Status
<1>3. CASE \/ ScanUrgentWindow \/ GetHit \/ GetMiss \/ GetJoin \/ GetStart \/ GetRescueFails
           \/ EnqueueRegister \/ EnqueuePush \/ EnqueueDrop \/ FetchSkipped(Player)
           \/ FetchBegin(Player) \/ StopCancel
  <2>1. pc'[Player] \notin {"exit", "done"} /\ pc[Player] \notin {"exit", "done"}
    BY <1>3, <1>b DEF ScanUrgentWindow, GetHit, GetMiss, GetJoin, GetStart, GetRescueFails,
       EnqueueRegister, EnqueuePush, EnqueueDrop, FetchSkipped, FetchBegin, StopCancel, GetReturn
  <2>2. cache' = cache /\ cur' = cur
    BY <1>3 DEF ScanUrgentWindow, GetHit, GetMiss, GetJoin, GetStart, GetRescueFails,
       EnqueueRegister, EnqueuePush, EnqueueDrop, FetchSkipped, FetchBegin, StopCancel
  <2> QED
    BY <2>1, <2>2 DEF Status
<1>4. CASE GetWoken
  <2>1. /\ pc'[Player] = IF cur \in cache THEN "enq" ELSE "exit"
        /\ pc[Player] \in {"await", "race"} /\ cache' = cache /\ cur' = cur
    BY <1>4, <1>b DEF GetWoken, GetReturn
  <2>2. cur \in 0..LastSegment
    BY <2>1, CurInLoop DEF End, Segments
  <2> QED
    BY <2>1, <2>2 DEF Status, Abstract!Next, Abstract!GiveUp
<1>5. CASE GetRescued
  <2>1. pc'[Player] = "enq" /\ pc[Player] = "race" /\ cache' = cache \cup {cur} /\ cur' = cur
    BY <1>5, <1>b DEF GetRescued, GetReturn, StoreRescueResult
  <2>2. cur \in Segments
    BY <2>1, CurInLoop DEF End
  <2> QED
    BY <1>e, <2>1, <2>2 DEF Status
<1>6. ASSUME NEW ok \in BOOLEAN, FetchFinish(Player, ok) PROVE Mapped
  <2>1. /\ pc'[Player] = IF ok \/ cur \in cache THEN "enq" ELSE "exit"
        /\ cache' = IF ok \/ cur \in cache THEN cache \cup {cur} ELSE cache
        /\ pc[Player] = "fetch" /\ cur' = cur
    BY <1>6, <1>b DEF FetchFinish, GetReturn, PlayerProgress, FetchPCs
  <2>2. cur \in 0..LastSegment /\ cur \in Segments
    BY <2>1, CurInLoop DEF End, Segments
  <2>3. CASE ok \/ cur \in cache
    BY <1>e, <2>1, <2>2, <2>3 DEF Status
  <2>4. CASE ~(ok \/ cur \in cache)
    BY <2>1, <2>2, <2>4 DEF Status, Abstract!Next, Abstract!GiveUp
  <2> QED
    BY <2>3, <2>4
<1>7. CASE SegmentPlayed
  <2>1. /\ pc'[Player] \in {"stop", "scan"} /\ pc[Player] = "enq"
        /\ cur \in cache /\ cur' = cur + 1 /\ cache' = cache
    BY <1>7, <1>b DEF SegmentPlayed, PlayerProgress
  <2> QED
    BY <2>1 DEF Status, Abstract!Next, Abstract!Play
<1>8. CASE StopJoin
  <2>1. /\ pc'[Player] = "done" /\ pc[Player] = "join" /\ cache' = cache /\ cur' = cur
        /\ cur = LastSegment + 1
    BY <1>8, <1>b DEF StopJoin, CurOK
  <2> QED
    BY <2>1 DEF Status, Abstract!Next, Abstract!Finish
<1> QED
  BY <1>0, <1>1, <1>2, <1>3, <1>4, <1>5, <1>6, <1>7, <1>8, NextSplit
     DEF PlayerStep, GetStep, EnqueueStep, FetchStep

\* The prefetcher implements Playback: segments are played in order, each
\* only once it is cached, and the client gives up only on a missing one.
THEOREM Refinement == Spec => ImplementsPlayback
<1>1. UNCHANGED <<cache, cur, Status>> => UNCHANGED Abstract!pvars
  BY DEF Abstract!pvars
<1>2. IInv /\ [Next]_vars => [Abstract!Next]_(Abstract!pvars)
  BY NextAbstract DEF Abstract!pvars
<1> QED
  BY <1>2, InitAbstract, Invariance, PTL DEF Spec, ImplementsPlayback, Abstract!Spec
=============================================================================
