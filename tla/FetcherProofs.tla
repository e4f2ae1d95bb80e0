--------------------------- MODULE FetcherProofs ---------------------------
(***************************************************************************)
(* Proofs about Fetcher, for any number of flights, rescues, races and     *)
(* peers: whose the assignment is, whom a racer blames, and what the event *)
(* of a race counts.                                                       *)
(***************************************************************************)
EXTENDS Fetcher, SumLemmas, TLAPS

USE FetcherAssumption

\* A flight asks the peer of its assignment.
Asking == {"discover", "ask", "fetched", "undiscovered", "failed"}
Places == Asking \cup {"idle", "fetch", "fallback", "mark", "claim", "rescue",
                       "asking", "collect", "merge", "ok", "error", "done"}
RacerPlaces == {"none", "asking", "failed", "cut", "won", "lost", "blamed", "gone"}

\* The types of what the proofs look at.
Typed ==
  /\ pc \in [Calls -> Places]
  /\ peer \in [Flights -> Peers \cup {None}]
  /\ assignment \in Assignments \cup {None}
  /\ racers \in [Calls -> [Peers -> RacerPlaces]]

\* The flights of a segment follow one another.
OneAtATime == \A e, f \in Flights : e < f /\ pc[f] # "idle" => pc[e] = "done"

\* A flight has a peer exactly while it asks it.
PeerWhileAsking == \A f \in Flights : peer[f] # None <=> pc[f] \in Asking

\* A request is cut off only by a context that is done, and stays so.
CutIsDone == \A c \in Calls, p \in Peers : racers[c][p] = "cut" => CtxRaceDone(c)

IInv == Typed /\ OneAtATime /\ PeerWhileAsking /\ AssignmentIsOwn /\ CutIsDone

LEMMA Constants ==
  /\ None \notin Peers /\ Flights \subseteq Calls /\ Rescues \subseteq Calls
  /\ \A f \in Flights : f \in Int /\ f \notin Rescues
  /\ None \notin Assignments
BY DEF Calls, Flights

-----------------------------------------------------------------------------
(* Steps by what they do to flights and the assignment.                    *)

\* A step that leaves the assignment and the flights' peers alone, and moves a
\* flight at most from where it is under way to where it is.
Aside ==
  /\ UNCHANGED <<peer, assignment>>
  /\ pc' \in [Calls -> Places]
  /\ \A f \in Flights : pc'[f] # pc[f] =>
       /\ pc[f] \notin {"idle", "done"} /\ pc'[f] # "idle"
       /\ pc[f] \in Asking <=> pc'[f] \in Asking

LEMMA AsideKeeps ==
  ASSUME OneAtATime, PeerWhileAsking, AssignmentIsOwn, Aside
  PROVE  OneAtATime' /\ PeerWhileAsking' /\ AssignmentIsOwn'
<1>1. OneAtATime'
  BY DEF OneAtATime, Aside
<1>2. PeerWhileAsking'
  BY DEF PeerWhileAsking, Aside
<1>3. AssignmentIsOwn'
  BY DEF AssignmentIsOwn, Aside
<1> QED BY <1>1, <1>2, <1>3

\* The other flights of a flight that is under way have no peer.
LEMMA OthersRest ==
  ASSUME Typed, OneAtATime, PeerWhileAsking, NEW f \in Flights, pc[f] \notin {"idle", "done"}
  PROVE  \A e \in Flights \ {f} : /\ pc[e] \in {"idle", "done"} /\ peer[e] = None
                                  /\ e < f => pc[e] = "done"
                                  /\ e > f => pc[e] = "idle"
<1> SUFFICES ASSUME NEW e \in Flights \ {f}
             PROVE  /\ pc[e] \in {"idle", "done"} /\ peer[e] = None
                    /\ e < f => pc[e] = "done"
                    /\ e > f => pc[e] = "idle"
  OBVIOUS
<1>1. e < f \/ f < e
  BY Constants
<1>2. e < f => pc[e] = "done"
  BY DEF OneAtATime
<1>3. f < e => pc[e] = "idle"
  BY DEF OneAtATime
<1>4. pc[e] \in {"idle", "done"}
  BY <1>1, <1>2, <1>3
<1>5. peer[e] = None
  BY <1>4 DEF PeerWhileAsking, Asking
<1> QED BY <1>2, <1>3, <1>4, <1>5, Constants

\* A flight moves on from where it is under way.
LEMMA MoveOn ==
  ASSUME Typed, OneAtATime, NEW f \in Flights, pc[f] \notin {"idle", "done"},
         NEW l \in Places \ {"idle"}, Goto(f, l)
  PROVE  OneAtATime' /\ pc' \in [Calls -> Places]
<1>1. pc' \in [Calls -> Places] /\ pc'[f] = l /\ \A e \in Flights \ {f} : pc'[e] = pc[e]
  BY Constants DEF Typed, Goto
<1> QED BY <1>1, Constants DEF OneAtATime

LEMMA AssignKeeps ==
  ASSUME Typed, OneAtATime, PeerWhileAsking, NEW f \in Flights, NEW p \in Peers,
         pc[f] \in {"fetch", "fallback"}, NEW l \in {"discover", "ask"}, Goto(f, l), Assign(f, p)
  PROVE  Typed' /\ OneAtATime' /\ PeerWhileAsking' /\ AssignmentIsOwn'
<1>1. assignment' = [peer |-> p, rescued |-> FALSE] /\ assignment' \in Assignments
  BY DEF Assign, beginAssignment, Assignments
<1>2. /\ peer' \in [Flights -> Peers \cup {None}] /\ peer'[f] = p
      /\ \A e \in Flights \ {f} : peer'[e] = peer[e]
  BY DEF Assign, Typed
<1>3. pc'[f] = l /\ \A e \in Flights \ {f} : pc'[e] = pc[e]
  BY Constants DEF Typed, Goto
<1>4. OneAtATime' /\ pc' \in [Calls -> Places]
  BY MoveOn DEF Places, Asking
<1>5. Typed'
  BY <1>1, <1>2, <1>4 DEF Typed, Assign, raceVars
<1>6. PeerWhileAsking'
  BY <1>2, <1>3, Constants DEF PeerWhileAsking, Asking
<1>7. \A e \in Flights \ {f} : peer'[e] = None
  BY <1>2, OthersRest
<1>8. AssignmentIsOwn'
  BY <1>1, <1>2, <1>7, Constants DEF AssignmentIsOwn
<1> QED BY <1>4, <1>5, <1>6, <1>8

LEMMA FinishKeeps ==
  ASSUME Typed, OneAtATime, PeerWhileAsking, AssignmentIsOwn, NEW f \in Flights, FinishFetch(f)
  PROVE  Typed' /\ OneAtATime' /\ PeerWhileAsking' /\ AssignmentIsOwn'
<1>1. pc[f] \in {"fetched", "undiscovered", "failed"}
  BY DEF FinishFetch
<1>2. PICK l \in {"ok", "fallback", "error"} : Goto(f, l)
  BY <1>1 DEF FinishFetch
<1>3. assignment # None /\ assignment.peer = peer[f]
  BY <1>1 DEF PeerWhileAsking, AssignmentIsOwn, Asking
<1>4. assignment' = None
  BY <1>3 DEF FinishFetch, finishAssignment
<1>5. /\ peer' \in [Flights -> Peers \cup {None}] /\ peer'[f] = None
      /\ \A e \in Flights \ {f} : peer'[e] = peer[e]
  BY DEF FinishFetch, Typed
<1>6. pc'[f] = l /\ \A e \in Flights \ {f} : pc'[e] = pc[e]
  BY <1>2, Constants DEF Typed, Goto
<1>7. OneAtATime' /\ pc' \in [Calls -> Places]
  BY <1>1, <1>2, MoveOn DEF Places
<1>8. Typed'
  BY <1>4, <1>5, <1>7 DEF Typed, FinishFetch, raceVars
<1>9. PeerWhileAsking'
  BY <1>5, <1>6 DEF PeerWhileAsking, Asking
<1>10. \A e \in Flights : peer'[e] = None
  BY <1>1, <1>5, OthersRest
<1>11. AssignmentIsOwn'
  BY <1>4, <1>10 DEF AssignmentIsOwn
<1> QED BY <1>7, <1>8, <1>9, <1>11

-----------------------------------------------------------------------------
(* Steps by what they do to contexts and racers.                           *)

\* Contexts stay done, and only a done one cuts a racer off.
Cuts ==
  /\ raceDone \subseteq raceDone' /\ cancelled \subseteq cancelled' /\ (stopped => stopped')
  /\ racers' \in [Calls -> [Peers -> RacerPlaces]]
  /\ \A c \in Calls, p \in Peers :
       racers'[c][p] = "cut" => racers[c][p] = "cut" \/ CtxRaceDone(c)

LEMMA CutsKeep ==
  ASSUME CutIsDone, Cuts
  PROVE  CutIsDone'
<1> SUFFICES ASSUME NEW c \in Calls, NEW p \in Peers, racers'[c][p] = "cut"
             PROVE  CtxRaceDone(c)'
  BY DEF CutIsDone
<1>1. CtxRaceDone(c)
  BY DEF Cuts, CutIsDone
<1>2. c \in raceDone \/ c \in cancelled \/ stopped
  BY <1>1 DEF CtxRaceDone, Done
<1>3. c \in raceDone' \/ c \in cancelled' \/ stopped'
  BY <1>2 DEF Cuts
<1> QED BY <1>3 DEF CtxRaceDone, Done

\* One racer moves.
LEMMA RacerMoves ==
  ASSUME Typed, NEW c \in Calls, NEW p \in Peers, NEW to \in RacerPlaces,
         racers' = [racers EXCEPT ![c][p] = to], to = "cut" => CtxRaceDone(c),
         UNCHANGED <<raceDone, cancelled, stopped>>
  PROVE  Cuts
<1>1. racers' \in [Calls -> [Peers -> RacerPlaces]]
  BY DEF Typed
<1>2. \A d \in Calls, q \in Peers : racers'[d][q] = IF d = c /\ q = p THEN to ELSE racers[d][q]
  BY DEF Typed
<1> QED BY <1>1, <1>2 DEF Cuts

LEMMA StartRaceCuts ==
  ASSUME Typed, NEW c \in Calls, NEW S \in SUBSET Peers, StartRace(c, S)
  PROVE  Cuts
<1>1. racers' = [racers EXCEPT ![c] = [p \in Peers |-> IF p \in S THEN "asking" ELSE "none"]]
  BY DEF StartRace
<1>2. racers' \in [Calls -> [Peers -> RacerPlaces]]
  BY <1>1 DEF Typed, RacerPlaces
<1>3. \A d \in Calls, q \in Peers : racers'[d][q] = "cut" => racers[d][q] = "cut"
  BY <1>1 DEF Typed
<1> QED BY <1>2, <1>3 DEF Cuts, StartRace, segmentVars

\* What the lemmas about steps add up to.
Kept == Typed' /\ OneAtATime' /\ PeerWhileAsking' /\ AssignmentIsOwn' /\ Cuts

LEMMA AsideIsKept ==
  ASSUME IInv, Aside, Cuts
  PROVE  Kept
BY AsideKeeps DEF IInv, Typed, Aside, Cuts, Kept

LEMMA RacersStill ==
  ASSUME Typed, UNCHANGED <<racers, stopped>>, raceDone \subseteq raceDone', cancelled \subseteq cancelled'
  PROVE  Cuts
BY DEF Typed, Cuts

\* A call moves from one place to another, neither of which matters to flights.
LEMMA CallAside ==
  ASSUME Typed, NEW c \in Calls, NEW l \in Places \ {"idle"}, Goto(c, l),
         UNCHANGED <<peer, assignment>>,
         c \in Flights => pc[c] \notin {"idle", "done"} /\ (pc[c] \in Asking <=> l \in Asking)
  PROVE  Aside
<1>1. /\ pc' \in [Calls -> Places] /\ pc'[c] = l
      /\ \A d \in Calls \ {c} : pc'[d] = pc[d]
  BY DEF Typed, Goto
<1> QED BY <1>1, Constants DEF Aside

LEMMA StaysAside ==
  ASSUME Typed, UNCHANGED <<pc, peer, assignment>>
  PROVE  Aside
BY DEF Typed, Aside

-----------------------------------------------------------------------------
(* Every step.                                                             *)

LEMMA FlightSteps ==
  ASSUME IInv, NEW f \in Flights, FlightStep(f)
  PROVE  Kept
<1> USE Constants DEF IInv, Places, Asking
<1>1. CASE StartFlight(f)
  <2>1. /\ pc' \in [Calls -> Places] /\ pc'[f] = "fetch"
        /\ \A d \in Calls \ {f} : pc'[d] = pc[d]
    BY <1>1 DEF StartFlight, Typed, Goto
  <2>2. pc[f] = "idle" /\ \A e \in Flights : e < f => pc[e] = "done"
    BY <1>1 DEF StartFlight
  <2>3. OneAtATime'
    BY <2>1, <2>2 DEF OneAtATime
  <2>4. UNCHANGED <<peer, assignment, racers, stopped, raceDone, cancelled>>
    BY <1>1 DEF StartFlight, raceVars
  <2>5. PeerWhileAsking'
    BY <2>1, <2>2, <2>4 DEF PeerWhileAsking
  <2>6. AssignmentIsOwn'
    BY <2>4 DEF AssignmentIsOwn
  <2>7. Cuts
    BY <2>4, RacersStill
  <2> QED BY <2>1, <2>3, <2>4, <2>5, <2>6, <2>7 DEF Kept, Typed
<1>2. CASE RaceFetch(f)
  <2>1. PICK S \in SUBSET Peers : StartRace(f, S)
    BY <1>2 DEF RaceFetch
  <2>2. Cuts
    BY <2>1, StartRaceCuts
  <2>3. Aside
    BY <1>2, <2>1, CallAside DEF RaceFetch, StartRace, segmentVars
  <2> QED BY <2>2, <2>3, AsideIsKept
<1>3. CASE DiscoveryFetch(f) \/ SingleFetch(f)
  <2>1. PICK p \in Peers, l \in {"discover", "ask"} :
          Assign(f, p) /\ Goto(f, l) /\ pc[f] \in {"fetch", "fallback"}
    BY <1>3 DEF DiscoveryFetch, SingleFetch
  <2>2. Cuts
    BY <2>1, RacersStill DEF Assign, raceVars
  <2> QED BY <2>1, <2>2, AssignKeeps DEF Kept
<1>4. CASE RequestEnds(f)
  <2>1. UNCHANGED <<peer, assignment, racers, stopped, raceDone, cancelled>>
    BY <1>4 DEF RequestEnds, segmentVars, raceVars
  <2>2. PICK l \in {"fetched", "undiscovered", "failed"} : Goto(f, l)
    BY <1>4 DEF RequestEnds
  <2>3. Aside
    BY <1>4, <2>1, <2>2, CallAside DEF RequestEnds
  <2> QED BY <2>1, <2>3, RacersStill, AsideIsKept
<1>5. CASE FinishFetch(f)
  <2>1. Cuts
    BY <1>5, RacersStill DEF FinishFetch, raceVars
  <2> QED BY <1>5, <2>1, FinishKeeps DEF Kept
<1>6. CASE FlightReturns(f)
  <2>1. UNCHANGED <<peer, assignment, racers, stopped, raceDone>> /\ cancelled \subseteq cancelled'
    BY <1>6 DEF FlightReturns, raceVars
  <2>2. Aside
    BY <1>6, <2>1, CallAside DEF FlightReturns
  <2> QED BY <2>1, <2>2, RacersStill, AsideIsKept
<1> QED BY <1>1, <1>2, <1>3, <1>4, <1>5, <1>6 DEF FlightStep

\* A rescue marks the assignment and leaves it to its flight.
LEMMA MarkKeeps ==
  ASSUME IInv, NEW r \in Rescues, markAssignmentRescued(r)
  PROVE  Kept
<1> USE Constants DEF IInv
<1>1. /\ UNCHANGED <<peer, racers, stopped, raceDone, cancelled>>
      /\ \A f \in Flights : pc'[f] = pc[f]
      /\ pc' \in [Calls -> Places]
  BY DEF markAssignmentRescued, raceVars, Goto, Typed, Places
<1>2. /\ assignment' \in Assignments \cup {None} /\ (assignment' # None <=> assignment # None)
      /\ assignment # None => assignment'.peer = assignment.peer
  <2>1. CASE ShouldRescue
    <3>1. assignment \in Assignments
      BY <2>1 DEF ShouldRescue, Typed
    <3>2. assignment' = [assignment EXCEPT !.rescued = TRUE]
      BY <2>1 DEF markAssignmentRescued
    <3>3. assignment' \in Assignments /\ assignment'.peer = assignment.peer
      BY <3>1, <3>2 DEF Assignments
    <3>4. assignment # None /\ assignment' # None
      BY <3>1, <3>3
    <3> QED BY <3>3, <3>4
  <2>2. CASE ~ShouldRescue
    <3>1. assignment' = assignment
      BY <2>2 DEF markAssignmentRescued
    <3> QED BY <3>1 DEF Typed
  <2> QED BY <2>1, <2>2
<1>3. OneAtATime' /\ PeerWhileAsking'
  BY <1>1 DEF OneAtATime, PeerWhileAsking
<1>4. AssignmentIsOwn'
  BY <1>1, <1>2 DEF AssignmentIsOwn
<1>5. Cuts
  BY <1>1, RacersStill
<1> QED BY <1>1, <1>2, <1>3, <1>4, <1>5 DEF Kept, Typed

LEMMA RescueSteps ==
  ASSUME IInv, NEW r \in Rescues, RescueStep(r)
  PROVE  Kept
<1> USE Constants DEF IInv, Places
<1>1. CASE markAssignmentRescued(r)
  BY <1>1, MarkKeeps
<1>2. CASE RescueRace(r)
  <2>1. PICK S \in SUBSET Peers : StartRace(r, S)
    BY <1>2 DEF RescueRace
  <2>2. Cuts
    BY <2>1, StartRaceCuts
  <2>3. Aside
    BY <2>1, CallAside DEF StartRace, segmentVars
  <2> QED BY <2>2, <2>3, AsideIsKept
<1>3. CASE \/ AskForRescue(r) \/ MarkRescue(r) \/ SingleRescue(r) \/ RescueSucceeds(r)
           \/ RescueFails(r) \/ StoreRescueResult(r) \/ DropRescueResult(r)
  <2>1. UNCHANGED <<peer, assignment, racers, stopped, raceDone>> /\ cancelled \subseteq cancelled'
    BY <1>3 DEF AskForRescue, MarkRescue, SingleRescue, RescueSucceeds, RescueFails,
                StoreRescueResult, DropRescueResult, segmentVars, raceVars
  <2>2. PICK l \in Places \ {"idle"} : Goto(r, l)
    BY <1>3 DEF AskForRescue, MarkRescue, SingleRescue, RescueSucceeds, RescueFails,
                StoreRescueResult, DropRescueResult
  <2>3. Aside
    BY <2>1, <2>2, CallAside
  <2> QED BY <2>1, <2>3, RacersStill, AsideIsKept
<1> QED BY <1>1, <1>2, <1>3 DEF RescueStep

LEMMA RaceSteps ==
  ASSUME IInv, NEW c \in Calls, RaceStep(c)
  PROVE  Kept
<1> USE Constants DEF IInv, Places
<1>1. CASE \E p \in Peers : RacerAnswers(c, p) \/ RacerEnds(c, p)
  <2>1. PICK p \in Peers : RacerAnswers(c, p) \/ RacerEnds(c, p)
    BY <1>1
  <2>2. UNCHANGED <<pc, peer, assignment, raceDone, cancelled, stopped>>
    BY <2>1 DEF RacerAnswers, RacerEnds, RacerIsCut, Judge, Report, RacerOnly, segmentVars, callVars
  <2>3. PICK to \in RacerPlaces : /\ racers' = [racers EXCEPT ![c][p] = to]
                                  /\ to = "cut" => CtxRaceDone(c)
    BY <2>1 DEF RacerAnswers, RacerEnds, RacerIsCut, Judge, Report, Racer, RacerPlaces
  <2>4. Cuts
    BY <2>2, <2>3, RacerMoves
  <2> QED BY <2>2, <2>4, StaysAside, AsideIsKept
<1>2. CASE RaceTimeout(c) \/ Drain(c) \/ Emit(c) \/ (\E p \in Peers : Store(c, p))
  <2>1. /\ UNCHANGED <<pc, peer, assignment, racers, cancelled, stopped>>
        /\ raceDone \subseteq raceDone'
    BY <1>2 DEF RaceTimeout, Drain, Emit, Store, segmentVars, callVars
  <2> QED BY <2>1, StaysAside, RacersStill, AsideIsKept
<1>3. CASE Collect(c)
  <2>1. /\ UNCHANGED <<peer, assignment, racers, cancelled, stopped>>
        /\ raceDone \subseteq raceDone'
    BY <1>3 DEF Collect, CollectResult, AllFailed, WinnerMerged, MergeFails, segmentVars, raceVars
  <2>2. CASE UNCHANGED pc
    BY <2>1, <2>2, StaysAside, RacersStill, AsideIsKept
  <2>3. CASE pc[c] \in {"collect", "merge"} /\ \E l \in {"merge", "error", "ok"} : Goto(c, l)
    BY <2>1, <2>3, CallAside, RacersStill, AsideIsKept DEF Asking
  <2> QED BY <1>3, <2>2, <2>3 DEF Collect, CollectResult, AllFailed, WinnerMerged, MergeFails
<1> QED BY <1>1, <1>2, <1>3 DEF RaceStep

LEMMA NextKept ==
  ASSUME IInv, Next
  PROVE  Kept
<1>1. CASE Stop
  <2>1. UNCHANGED <<pc, peer, assignment, racers, raceDone, cancelled>> /\ stopped'
    BY <1>1 DEF Stop, callVars, raceVars
  <2>2. Cuts
    BY <2>1 DEF IInv, Typed, Cuts
  <2> QED BY <2>1, <2>2, StaysAside, AsideIsKept DEF IInv
<1>2. CASE Ended
  BY <1>2, StaysAside, RacersStill, AsideIsKept
  DEF Ended, vars, segmentVars, callVars, raceVars, IInv
<1> QED BY <1>1, <1>2, FlightSteps, RescueSteps, RaceSteps DEF Next

-----------------------------------------------------------------------------
(* Whom a racer blames.                                                    *)

\* A racer is blamed while its context is not done.
LEMMA BlamedByJudge ==
  ASSUME Typed, Next, NEW c \in Calls, NEW p \in Peers,
         racers[c][p] = "cut", racers'[c][p] = "blamed"
  PROVE  ~CtxRaceDone(c)
<1> USE Constants DEF Typed
<1>1. racers' # racers
  OBVIOUS
<1>2. CASE \E d \in Calls, S \in SUBSET Peers : StartRace(d, S)
  BY <1>2 DEF StartRace
<1>3. CASE \E d \in Calls, q \in Peers : RacerAnswers(d, q) \/ RacerIsCut(d, q) \/ Report(d, q)
  BY <1>3 DEF RacerAnswers, RacerIsCut, Report, Racer
<1>4. CASE \E d \in Calls, q \in Peers : Judge(d, q)
  BY <1>4 DEF Judge, Racer, Blames
<1>5. \/ \E d \in Calls, S \in SUBSET Peers : StartRace(d, S)
      \/ \E d \in Calls, q \in Peers : RacerAnswers(d, q) \/ RacerEnds(d, q)
  <2>1. ASSUME NEW f \in Flights, FlightStep(f)
        PROVE  \E d \in Calls, S \in SUBSET Peers : StartRace(d, S)
    BY <1>1, <2>1 DEF FlightStep, StartFlight, RaceFetch, DiscoveryFetch, SingleFetch, Assign,
                      RequestEnds, FinishFetch, FlightReturns, raceVars
  <2>2. ASSUME NEW r \in Rescues, RescueStep(r)
        PROVE  \E d \in Calls, S \in SUBSET Peers : StartRace(d, S)
    BY <1>1, <2>2 DEF RescueStep, AskForRescue, MarkRescue, markAssignmentRescued, RescueRace,
                      SingleRescue, RescueSucceeds, RescueFails, StoreRescueResult,
                      DropRescueResult, raceVars
  <2>3. ASSUME NEW d \in Calls, RaceStep(d)
        PROVE  \E q \in Peers : RacerAnswers(d, q) \/ RacerEnds(d, q)
    BY <1>1, <2>3 DEF RaceStep, Store, RaceTimeout, Collect, CollectResult, AllFailed,
                      WinnerMerged, MergeFails, Drain, Emit, raceVars
  <2>4. ~Stop /\ ~Ended
    BY <1>1 DEF Stop, Ended, vars, raceVars
  <2> QED BY <2>1, <2>2, <2>3, <2>4 DEF Next
<1> QED BY <1>2, <1>3, <1>4, <1>5 DEF RacerEnds

LEMMA NextBlames ==
  ASSUME IInv, [Next]_vars
  PROVE  [\A c \in Calls, p \in Peers : racers[c][p] = "cut" => racers'[c][p] # "blamed"]_vars
<1> SUFFICES ASSUME Next, NEW c \in Calls, NEW p \in Peers,
                    racers[c][p] = "cut", racers'[c][p] = "blamed"
             PROVE  FALSE
  OBVIOUS
<1>1. CtxRaceDone(c)
  BY DEF IInv, CutIsDone
<1> QED BY <1>1, BlamedByJudge DEF IInv

-----------------------------------------------------------------------------
(* The invariant and what follows from it.                                 *)

LEMMA InitIInv == Init => IInv
<1> SUFFICES ASSUME Init PROVE IInv
  OBVIOUS
<1>1. Typed
  BY Constants DEF Init, Typed, Places, RacerPlaces
<1>2. OneAtATime /\ PeerWhileAsking /\ AssignmentIsOwn
  BY Constants DEF Init, OneAtATime, PeerWhileAsking, AssignmentIsOwn, Asking
<1>3. CutIsDone
  BY DEF Init, CutIsDone
<1> QED BY <1>1, <1>2, <1>3 DEF IInv

LEMMA Invariance == Spec => []IInv
<1>1. IInv /\ [Next]_vars => IInv'
  <2> SUFFICES ASSUME IInv, [Next]_vars PROVE IInv'
    OBVIOUS
  <2>1. CASE Next
    BY <2>1, NextKept, CutsKeep DEF IInv, Kept
  <2>2. CASE UNCHANGED vars
    BY <2>2, StaysAside, RacersStill, AsideIsKept, CutsKeep
    DEF vars, segmentVars, callVars, raceVars, IInv, Kept
  <2> QED BY <2>1, <2>2
<1> QED BY <1>1, InitIInv, PTL DEF Spec

\* The assignment of the segment belongs to the flight that asks its peer,
\* however rescues and flights overlap (beginAssignment, finishAssignment,
\* markAssignmentRescued).
THEOREM AssignmentStays == Spec => []AssignmentIsOwn
<1>1. IInv => AssignmentIsOwn
  BY DEF IInv
<1> QED BY <1>1, Invariance, PTL

\* No racer whose request was only cut off sends its peer into a cooldown
\* (executeRaceFetch's judgement of an error).
THEOREM CutRacersAreNotBlamed == Spec => LosersNotBlamed
<1>1. IInv /\ [Next]_vars =>
        [\A c \in Calls, p \in Peers : racers[c][p] = "cut" => racers'[c][p] # "blamed"]_vars
  BY NextBlames
<1> QED BY <1>1, Invariance, PTL DEF Spec, LosersNotBlamed

-----------------------------------------------------------------------------
(* Types.                                                                  *)

LEMMA BytesOf ==
  ASSUME NEW store
  PROVE  Bytes(store) = SumFunctionOnSet(store, DOMAIN store)
BY Zenon DEF Bytes, SumFunctionOnSet, FoldFunction, FoldFunctionOnSet, MapThenFoldSet

LEMMA BytesType ==
  ASSUME NEW store \in [Peers -> 0..Blocks]
  PROVE  Bytes(store) \in Nat
<1>1. DOMAIN store = Peers /\ \A p \in Peers : store[p] \in Nat
  OBVIOUS
<1> QED BY <1>1, BytesOf, SumType

\* Stores that hold more have more bytes.
LEMMA BytesGrow ==
  ASSUME NEW less \in [Peers -> 0..Blocks], NEW more \in [Peers -> 0..Blocks],
         \A p \in Peers : less[p] <= more[p]
  PROVE  Bytes(less) <= Bytes(more)
<1>1. \A p \in Peers : less[p] \in Int /\ more[p] \in Int
  OBVIOUS
<1>2. SumFunctionOnSet(less, Peers) <= SumFunctionOnSet(more, Peers)
  BY <1>1, SumAtMost
<1> QED BY <1>2, BytesOf

LEMMA FlightTypes ==
  ASSUME TypeOK, NEW f \in Flights, FlightStep(f)
  PROVE  TypeOK'
<1> USE Constants DEF TypeOK, Goto, raceVars, segmentVars
<1>1. CASE StartFlight(f)
  BY <1>1 DEF StartFlight
<1>2. CASE RaceFetch(f)
  BY <1>2 DEF RaceFetch, StartRace
<1>3. CASE DiscoveryFetch(f) \/ SingleFetch(f)
  <2>1. PICK p \in Peers, l \in {"discover", "ask"} : Assign(f, p) /\ Goto(f, l)
    BY <1>3 DEF DiscoveryFetch, SingleFetch
  <2>2. assignment' \in Assignments
    BY <2>1 DEF Assign, beginAssignment, Assignments
  <2> QED BY <2>1, <2>2 DEF Assign
<1>4. CASE RequestEnds(f)
  BY <1>4 DEF RequestEnds
<1>5. CASE FinishFetch(f)
  <2>0. pc[f] \in {"fetched", "undiscovered", "failed"}
    BY <1>5 DEF FinishFetch
  <2>1. PICK l \in {"ok", "fallback", "error"} : Goto(f, l)
    <3> HIDE DEF TypeOK, Goto
    <3> QED BY <1>5, <2>0 DEF FinishFetch
  <2>2. assignment' \in Assignments \cup {None}
    BY <1>5 DEF FinishFetch, finishAssignment
  <2> QED BY <1>5, <2>1, <2>2 DEF FinishFetch
<1>6. CASE FlightReturns(f)
  BY <1>6 DEF FlightReturns
<1> QED BY <1>1, <1>2, <1>3, <1>4, <1>5, <1>6 DEF FlightStep

LEMMA RescueTypes ==
  ASSUME TypeOK, NEW r \in Rescues, RescueStep(r)
  PROVE  TypeOK'
<1> USE Constants DEF TypeOK, Goto, raceVars, segmentVars
<1>1. CASE AskForRescue(r) \/ SingleRescue(r) \/ RescueSucceeds(r) \/ RescueFails(r) \/ DropRescueResult(r)
  BY <1>1 DEF AskForRescue, SingleRescue, RescueSucceeds, RescueFails, DropRescueResult
<1>2. CASE MarkRescue(r)
  <2>1. CASE flight # None /\ ~marked
    <3>1. target' = [target EXCEPT ![r] = flight] /\ flight \in Flights
      BY <1>2, <2>1 DEF MarkRescue
    <3>2. target' \in [Rescues -> Flights \cup {None}]
      BY <3>1
    <3>3. pc' = [pc EXCEPT ![r] = "claim"] /\ marked' = TRUE
      BY <1>2, <2>1 DEF MarkRescue
    <3> QED BY <1>2, <3>2, <3>3 DEF MarkRescue
  <2>2. CASE ~(flight # None /\ ~marked)
    BY <1>2, <2>2 DEF MarkRescue
  <2> QED BY <2>1, <2>2
<1>3. CASE markAssignmentRescued(r)
  <2>1. assignment' \in Assignments \cup {None}
    <3>1. CASE ShouldRescue
      <4>1. assignment \in Assignments /\ assignment' = [assignment EXCEPT !.rescued = TRUE]
        BY <1>3, <3>1 DEF markAssignmentRescued, ShouldRescue
      <4> QED BY <4>1 DEF Assignments
    <3>2. CASE ~ShouldRescue
      BY <1>3, <3>2 DEF markAssignmentRescued
    <3> QED BY <3>1, <3>2
  <2> QED BY <1>3, <2>1 DEF markAssignmentRescued
<1>4. CASE RescueRace(r)
  BY <1>4 DEF RescueRace, StartRace
<1>5. CASE StoreRescueResult(r)
  BY <1>5 DEF StoreRescueResult, ToCancel
<1> QED BY <1>1, <1>2, <1>3, <1>4, <1>5 DEF RescueStep

LEMMA RaceTypes ==
  ASSUME TypeOK, NEW c \in Calls, RaceStep(c)
  PROVE  TypeOK'
<1> USE Constants DEF TypeOK, Goto, callVars, segmentVars
<1>1. ASSUME NEW p \in Peers, Store(c, p) PROVE TypeOK'
  BY <1>1 DEF Store
<1>2. ASSUME NEW p \in Peers, RacerAnswers(c, p) \/ RacerIsCut(c, p) \/ Judge(c, p) PROVE TypeOK'
  <2>1. PICK to \in RacerPlaces : racers' = [racers EXCEPT ![c][p] = to]
    <3> HIDE DEF TypeOK
    <3> QED BY <1>2 DEF RacerAnswers, RacerIsCut, Judge, Racer, RacerPlaces
  <2>2. RacerOnly /\ UNCHANGED <<results, reported>>
    <3> HIDE DEF TypeOK
    <3> QED BY <1>2 DEF RacerAnswers, RacerIsCut, Judge
  <2> QED BY <2>1, <2>2 DEF RacerOnly, RacerPlaces
<1>3. ASSUME NEW p \in Peers, Report(c, p) PROVE TypeOK'
  <2>1. racers' = [racers EXCEPT ![c][p] = "gone"] /\ RacerOnly
    BY <1>3 DEF Report, Racer
  <2>2. PICK won \in BOOLEAN : results' = [results EXCEPT ![c] = @ \cup {<<p, won>>}]
    BY <1>3 DEF Report
  <2>3. results' \in [Calls -> SUBSET (Peers \X BOOLEAN)]
    BY <2>2
  <2>4. reported' \in [Calls -> [Peers -> 0..Blocks]]
    BY <1>3 DEF Report
  <2> QED BY <2>1, <2>3, <2>4 DEF RacerOnly
<1>4. CASE RaceTimeout(c)
  BY <1>4 DEF RaceTimeout
<1>5. CASE CollectResult(c)
  <2>1. PICK x \in results[c] : Take(c, x)
    BY <1>5 DEF CollectResult
  <2>2. /\ results' \in [Calls -> SUBSET (Peers \X BOOLEAN)]
        /\ taken' \in [Calls -> SUBSET (Peers \X BOOLEAN)]
    BY <2>1 DEF Take
  <2>3. CASE pc' = pc /\ raceDone' = raceDone
    BY <1>5, <2>2, <2>3 DEF CollectResult
  <2>4. CASE Goto(c, "merge") /\ raceDone' = raceDone \cup {c}
    BY <1>5, <2>2, <2>4 DEF CollectResult
  <2> QED BY <1>5, <2>3, <2>4 DEF CollectResult
<1>6. CASE AllFailed(c) \/ WinnerMerged(c) \/ MergeFails(c)
  <2>1. CASE AllFailed(c)
    BY <2>1 DEF AllFailed
  <2>2. CASE WinnerMerged(c)
    BY <2>2 DEF WinnerMerged
  <2>3. CASE MergeFails(c)
    BY <2>3 DEF MergeFails, raceVars
  <2> QED BY <1>6, <2>1, <2>2, <2>3
<1>7. CASE Drain(c)
  BY <1>7 DEF Drain, Take
<1>8. CASE Emit(c)
  <2>1. Bytes(stored[c]) \in Nat
    BY BytesType
  <2> QED BY <1>8, <2>1 DEF Emit, MetricsComplete
<1> QED BY <1>1, <1>2, <1>3, <1>4, <1>5, <1>6, <1>7, <1>8 DEF RaceStep, RacerEnds, Collect

\* The variables have their types.
THEOREM Types == Spec => []TypeOK
<1>1. Init => TypeOK
  <2> SUFFICES ASSUME Init PROVE TypeOK
    OBVIOUS
  <2>1. 0 \in 0..Blocks
    OBVIOUS
  <2>2. stored \in [Calls -> [Peers -> 0..Blocks]] /\ reported \in [Calls -> [Peers -> 0..Blocks]]
    BY <2>1 DEF Init
  <2>3. results \in [Calls -> SUBSET (Peers \X BOOLEAN)] /\ taken \in [Calls -> SUBSET (Peers \X BOOLEAN)]
    BY DEF Init
  <2> QED BY <2>2, <2>3 DEF Init, TypeOK
<1>2. TypeOK /\ [Next]_vars => TypeOK'
  <2> SUFFICES ASSUME TypeOK, [Next]_vars PROVE TypeOK'
    OBVIOUS
  <2>1. CASE Stop \/ Ended \/ UNCHANGED vars
    BY <2>1 DEF Stop, Ended, TypeOK, vars, segmentVars, callVars, raceVars
  <2> QED BY <2>1, FlightTypes, RescueTypes, RaceTypes DEF Next
<1> QED BY <1>1, <1>2, PTL DEF Spec

-----------------------------------------------------------------------------
(* What the accountant adds up.                                            *)

\* Where a call has not raced yet, and where its race is over for it.
Before == {"idle", "fetch", "mark", "claim", "rescue"}
After == {"ok", "error", "done"}

Sent(c) == results[c] \cup taken[c]

\* A result is the last thing that is heard of a racer, and there is one.
SentWhenGone ==
  \A c \in Calls : \A x \in Sent(c) :
    /\ racers[c][x[1]] = "gone"
    /\ \A y \in Sent(c) : x[1] = y[1] => x = y

RacesOnce ==
  \A c \in Calls :
    /\ pc[c] \in Before => \A p \in Peers : racers[c][p] = "none"
    /\ account[c] # "none" => pc[c] \in After

\* No racer has reported more than it has stored by now.
ReportedIsStored == \A c \in Calls, p \in Peers : reported[c][p] <= stored[c][p]

Accounting == SentWhenGone /\ RacesOnce /\ ReportedIsStored /\ CompleteCountsAll

\* When a result of everyone was taken, everyone is gone.
LEMMA AllTakenAllGone ==
  ASSUME TypeOK, SentWhenGone, NEW c \in Calls, AllTaken(c)
  PROVE  \A p \in Racers(c) : racers[c][p] = "gone"
<1> DEFINE gone == {p \in Peers : racers[c][p] = "gone"}
           who == [x \in taken[c] |-> x[1]]
<1>1. who \in Injection(taken[c], gone)
  <2>1. \A x \in taken[c] : x \in Peers \X BOOLEAN
    BY DEF TypeOK
  <2>2. \A x \in taken[c] : x[1] \in gone
    BY <2>1 DEF SentWhenGone, Sent
  <2>3. who \in [taken[c] -> gone]
    BY <2>2
  <2>4. \A x, y \in taken[c] : who[x] = who[y] => x = y
    BY DEF SentWhenGone, Sent
  <2> QED BY <2>3, <2>4 DEF Injection, IsInjective
<1>2. gone \subseteq Racers(c) /\ Racers(c) \subseteq Peers
  BY DEF Racers
<1>3. IsFiniteSet(Racers(c)) /\ IsFiniteSet(gone) /\ Cardinality(gone) <= Cardinality(Racers(c))
  BY <1>2, FS_Subset
<1>4. Cardinality(taken[c]) <= Cardinality(gone) /\ IsFiniteSet(taken[c])
  <2> HIDE DEF who, gone
  <2> QED BY <1>1, <1>3, FS_Injection
<1>5. Cardinality(gone) = Cardinality(Racers(c))
  BY <1>3, <1>4, FS_CardinalityType DEF AllTaken
<1>6. gone = Racers(c)
  BY <1>2, <1>3, <1>5, FS_Subset
<1> QED BY <1>6

\* An account that is complete stays right while its racers rest, whatever
\* their requests still store.
LEMMA CompleteStays ==
  ASSUME TypeOK, Accounting, stored' \in [Calls -> [Peers -> 0..Blocks]],
         \A c \in Calls, p \in Peers : stored[c][p] <= stored'[c][p],
         \A c \in Calls : account'[c] = "complete" =>
           /\ racers'[c] = racers[c] /\ reported'[c] = reported[c]
           /\ \/ account[c] = "complete" /\ total'[c] = total[c]
              \/ /\ total'[c] = Bytes(stored[c])
                 /\ \A p \in Racers(c) : racers[c][p] = "gone"
  PROVE  CompleteCountsAll'
<1> SUFFICES ASSUME NEW c \in Calls, account'[c] = "complete"
             PROVE  /\ \A p \in Racers(c)' : racers'[c][p] = "gone"
                    /\ Bytes(reported'[c]) <= total'[c] /\ total'[c] <= Bytes(stored'[c])
  BY DEF CompleteCountsAll
<1>1. Racers(c)' = Racers(c)
  BY DEF Racers
<1>2. reported[c] \in [Peers -> 0..Blocks] /\ stored[c] \in [Peers -> 0..Blocks]
      /\ stored'[c] \in [Peers -> 0..Blocks]
  BY DEF TypeOK
<1>3. Bytes(reported[c]) <= Bytes(stored[c]) /\ Bytes(stored[c]) <= Bytes(stored'[c])
  BY <1>2, BytesGrow DEF Accounting, ReportedIsStored
<1>4. Bytes(reported[c]) \in Nat /\ Bytes(stored[c]) \in Nat /\ Bytes(stored'[c]) \in Nat
  BY <1>2, BytesType
<1>5. CASE account[c] = "complete" /\ total'[c] = total[c]
  <2>1. /\ \A p \in Racers(c) : racers[c][p] = "gone"
        /\ Bytes(reported[c]) <= total[c] /\ total[c] <= Bytes(stored[c])
    BY <1>5 DEF Accounting, CompleteCountsAll
  <2>2. total[c] \in Nat
    BY DEF TypeOK
  <2> QED BY <1>1, <1>3, <1>4, <1>5, <2>1, <2>2
<1>6. CASE total'[c] = Bytes(stored[c]) /\ \A p \in Racers(c) : racers[c][p] = "gone"
  BY <1>1, <1>3, <1>4, <1>6
<1> QED BY <1>5, <1>6

\* As long as nothing is stored.
LEMMA CompleteRests ==
  ASSUME TypeOK, Accounting, UNCHANGED stored,
         \A c \in Calls : account'[c] = "complete" =>
           /\ racers'[c] = racers[c] /\ reported'[c] = reported[c]
           /\ \/ account[c] = "complete" /\ total'[c] = total[c]
              \/ /\ total'[c] = Bytes(stored[c])
                 /\ \A p \in Racers(c) : racers[c][p] = "gone"
  PROVE  CompleteCountsAll'
<1>1. stored' \in [Calls -> [Peers -> 0..Blocks]] /\ \A c \in Calls, p \in Peers : stored[c][p] <= stored'[c][p]
  BY DEF TypeOK
<1> QED BY <1>1, CompleteStays

\* Steps of calls that are not about a race.
LEMMA NotRacing ==
  ASSUME TypeOK, Accounting, UNCHANGED raceVars,
         \A c \in Calls : /\ pc'[c] \in Before => pc[c] \in Before
                          /\ pc[c] \in After => pc'[c] \in After
  PROVE  Accounting'
<1>1. UNCHANGED <<racers, stored, results, reported, taken, account, total>>
  BY DEF raceVars
<1>2. SentWhenGone'
  BY <1>1 DEF Accounting, SentWhenGone, Sent
<1>3. RacesOnce'
  BY <1>1 DEF Accounting, RacesOnce
<1>4. CompleteCountsAll'
  BY <1>1, CompleteRests
<1> QED BY <1>1, <1>2, <1>3, <1>4 DEF Accounting, ReportedIsStored

\* One call moves.
LEMMA MoveNotRacing ==
  ASSUME TypeOK, Accounting, UNCHANGED raceVars, NEW c \in Calls, NEW l, Goto(c, l),
         l \in Before => pc[c] \in Before, pc[c] \in After => l \in After
  PROVE  Accounting'
<1>1. \A d \in Calls : pc'[d] = IF d = c THEN l ELSE pc[d]
  BY DEF TypeOK, Goto
<1> QED BY <1>1, NotRacing

LEMMA StartRaceAccounting ==
  ASSUME TypeOK, Accounting, NEW c \in Calls, pc[c] \in Before,
         NEW S \in SUBSET Peers, StartRace(c, S)
  PROVE  Accounting'
<1>1. /\ UNCHANGED <<stored, results, reported, taken, account, total>>
      /\ pc'[c] = "collect" /\ \A d \in Calls \ {c} : pc'[d] = pc[d] /\ racers'[d] = racers[d]
  BY DEF StartRace, Goto, TypeOK
<1>2. account[c] = "none"
  BY DEF Accounting, RacesOnce, Before, After
<1>3. Sent(c) = {}
  <2> SUFFICES ASSUME NEW x \in Sent(c) PROVE FALSE
    OBVIOUS
  <2>1. x[1] \in Peers /\ racers[c][x[1]] = "gone"
    BY DEF Sent, TypeOK, Accounting, SentWhenGone
  <2> QED BY <2>1 DEF Accounting, RacesOnce
<1>4. SentWhenGone'
  BY <1>1, <1>3 DEF Accounting, SentWhenGone, Sent
<1>5. RacesOnce'
  BY <1>1, <1>2 DEF Accounting, RacesOnce, Before
<1>6. CompleteCountsAll'
  BY <1>1, <1>2, CompleteRests
<1> QED BY <1>1, <1>4, <1>5, <1>6 DEF Accounting, ReportedIsStored

LEMMA FlightAccounting ==
  ASSUME TypeOK, Accounting, NEW f \in Flights, FlightStep(f)
  PROVE  Accounting'
<1> USE Constants DEF Before, After
<1>1. CASE RaceFetch(f)
  BY <1>1, StartRaceAccounting DEF RaceFetch
<1>2. CASE StartFlight(f)
  BY <1>2, MoveNotRacing DEF StartFlight
<1>3. CASE DiscoveryFetch(f)
  BY <1>3, MoveNotRacing DEF DiscoveryFetch, Assign
<1>4. CASE SingleFetch(f)
  BY <1>4, MoveNotRacing DEF SingleFetch, Assign
<1>5. CASE RequestEnds(f)
  <2>1. PICK l \in {"fetched", "undiscovered", "failed"} : Goto(f, l)
    BY <1>5 DEF RequestEnds
  <2> QED BY <1>5, <2>1, MoveNotRacing DEF RequestEnds
<1>6. CASE FinishFetch(f)
  <2>1. PICK l \in {"ok", "fallback", "error"} : Goto(f, l)
    BY <1>6 DEF FinishFetch
  <2> QED BY <1>6, <2>1, MoveNotRacing DEF FinishFetch
<1>7. CASE FlightReturns(f)
  BY <1>7, MoveNotRacing DEF FlightReturns
<1> QED BY <1>1, <1>2, <1>3, <1>4, <1>5, <1>6, <1>7 DEF FlightStep

LEMMA RescueAccounting ==
  ASSUME TypeOK, Accounting, NEW r \in Rescues, RescueStep(r)
  PROVE  Accounting'
<1> USE Constants DEF Before, After
<1>1. CASE RescueRace(r)
  BY <1>1, StartRaceAccounting DEF RescueRace
<1>2. CASE AskForRescue(r)
  BY <1>2, MoveNotRacing DEF AskForRescue
<1>3. CASE MarkRescue(r) \/ markAssignmentRescued(r)
  <2>1. PICK l \in {"claim", "rescue", "done"} : Goto(r, l)
    BY <1>3 DEF MarkRescue, markAssignmentRescued
  <2>2. pc[r] \in Before /\ UNCHANGED raceVars
    BY <1>3 DEF MarkRescue, markAssignmentRescued
  <2> QED BY <2>1, <2>2, MoveNotRacing
<1>4. CASE SingleRescue(r) \/ RescueSucceeds(r) \/ RescueFails(r)
  <2>1. PICK l \in {"asking", "ok", "done"} : Goto(r, l)
    BY <1>4 DEF SingleRescue, RescueSucceeds, RescueFails
  <2>2. pc[r] \in {"rescue", "asking"} /\ UNCHANGED raceVars
    BY <1>4 DEF SingleRescue, RescueSucceeds, RescueFails
  <2> QED BY <2>1, <2>2, MoveNotRacing
<1>5. CASE StoreRescueResult(r) \/ DropRescueResult(r)
  BY <1>5, MoveNotRacing DEF StoreRescueResult, DropRescueResult
<1> QED BY <1>1, <1>2, <1>3, <1>4, <1>5 DEF RescueStep

\* A racer moves, but not from the places where it is over with it.
LEMMA RacerAccounting ==
  ASSUME TypeOK, Accounting, NEW c \in Calls, NEW p \in Peers, NEW to,
         racers' = [racers EXCEPT ![c][p] = to], racers[c][p] \notin {"none", "gone"},
         UNCHANGED <<stored, taken, account, total, pc>>,
         \/ UNCHANGED <<results, reported>>
         \/ /\ to = "gone" /\ reported' = [reported EXCEPT ![c][p] = stored[c][p]]
            /\ \E won \in BOOLEAN : results' = [results EXCEPT ![c] = @ \cup {<<p, won>>}]
  PROVE  Accounting'
<1>1. \A d \in Calls, q \in Peers : racers'[d][q] = IF d = c /\ q = p THEN to ELSE racers[d][q]
  BY DEF TypeOK
<1>2. \A d \in Calls : \A x \in Sent(d) : x[1] \in Peers /\ <<d, x[1]>> # <<c, p>>
  BY DEF Sent, TypeOK, Accounting, SentWhenGone
<1>3. SentWhenGone'
  <2>1. CASE UNCHANGED results
    BY <1>1, <1>2, <2>1 DEF Accounting, SentWhenGone, Sent
  <2>2. ASSUME NEW won \in BOOLEAN, to = "gone", results' = [results EXCEPT ![c] = @ \cup {<<p, won>>}]
        PROVE  SentWhenGone'
    <3>1. \A d \in Calls : Sent(d)' \subseteq IF d = c THEN Sent(c) \cup {<<p, won>>} ELSE Sent(d)
      BY <2>2 DEF Sent, TypeOK
    <3> QED BY <1>1, <1>2, <2>2, <3>1 DEF Accounting, SentWhenGone
  <2> QED BY <2>1, <2>2
<1>4. RacesOnce'
  BY <1>1 DEF Accounting, RacesOnce
<1>5. CompleteCountsAll'
  <2>1. account[c] # "complete"
    BY DEF Accounting, CompleteCountsAll, Racers
  <2>2. \A d \in Calls \ {c} : reported'[d] = reported[d] /\ racers'[d] = racers[d]
    BY DEF TypeOK
  <2> QED BY <2>1, <2>2, CompleteRests
<1>6. ReportedIsStored'
  <2>1. \A d \in Calls, q \in Peers : reported'[d][q] = reported[d][q] \/ reported'[d][q] = stored[d][q]
    BY DEF TypeOK
  <2>2. \A d \in Calls, q \in Peers : stored[d][q] \in Nat /\ stored'[d][q] = stored[d][q]
    BY DEF TypeOK
  <2> QED BY <2>1, <2>2 DEF Accounting, ReportedIsStored
<1> QED BY <1>3, <1>4, <1>5, <1>6 DEF Accounting

\* Results are taken; the call may move.
LEMMA TakeAccounting ==
  ASSUME TypeOK, Accounting, NEW c \in Calls, NEW x, Take(c, x),
         UNCHANGED <<racers, stored, reported, account, total>>,
         pc' = pc \/ (pc[c] = "collect" /\ Goto(c, "merge"))
  PROVE  Accounting'
<1>1. \A d \in Calls : Sent(d)' = Sent(d)
  BY DEF Take, Sent, TypeOK
<1>2. SentWhenGone'
  BY <1>1 DEF Accounting, SentWhenGone
<1>3. RacesOnce'
  BY DEF Accounting, RacesOnce, Goto, TypeOK, Before, After
<1>4. CompleteCountsAll'
  BY CompleteRests
<1> QED BY <1>2, <1>3, <1>4 DEF Accounting, ReportedIsStored

LEMMA RaceAccounting ==
  ASSUME TypeOK, Accounting, NEW c \in Calls, RaceStep(c)
  PROVE  Accounting'
<1> USE DEF Before, After, callVars
<1>1. ASSUME NEW p \in Peers, Store(c, p) PROVE Accounting'
  <2>1. UNCHANGED <<racers, results, reported, taken, account, total, pc>>
    BY <1>1 DEF Store
  <2>2. stored' \in [Calls -> [Peers -> 0..Blocks]]
        /\ \A d \in Calls, q \in Peers : stored[d][q] <= stored'[d][q]
    BY <1>1 DEF Store, TypeOK
  <2>3. CompleteCountsAll'
    BY <2>1, <2>2, CompleteStays
  <2>4. ReportedIsStored'
    BY <2>1, <2>2 DEF Accounting, ReportedIsStored, TypeOK
  <2> QED BY <2>1, <2>3, <2>4 DEF Accounting, SentWhenGone, Sent, RacesOnce
<1>2. ASSUME NEW p \in Peers, RacerAnswers(c, p) \/ RacerIsCut(c, p) \/ Judge(c, p) PROVE Accounting'
  <2>1. PICK to : racers' = [racers EXCEPT ![c][p] = to] /\ racers[c][p] \notin {"none", "gone"}
    BY <1>2 DEF RacerAnswers, RacerIsCut, Judge, Racer
  <2>2. UNCHANGED <<stored, taken, account, total, pc, results, reported>>
    BY <1>2 DEF RacerAnswers, RacerIsCut, Judge, RacerOnly
  <2> QED BY <2>1, <2>2, RacerAccounting
<1>3. ASSUME NEW p \in Peers, Report(c, p) PROVE Accounting'
  <2>1. racers' = [racers EXCEPT ![c][p] = "gone"] /\ racers[c][p] \notin {"none", "gone"}
    BY <1>3 DEF Report, Racer
  <2>2. UNCHANGED <<stored, taken, account, total, pc>>
    BY <1>3 DEF Report, RacerOnly
  <2>3. /\ \E won \in BOOLEAN : results' = [results EXCEPT ![c] = @ \cup {<<p, won>>}]
        /\ reported' = [reported EXCEPT ![c][p] = stored[c][p]]
    BY <1>3 DEF Report
  <2> QED BY <2>1, <2>2, <2>3, RacerAccounting
<1>4. CASE RaceTimeout(c)
  <2>1. UNCHANGED <<pc, racers, stored, results, reported, taken, account, total>>
    BY <1>4 DEF RaceTimeout
  <2>2. CompleteCountsAll'
    BY <2>1, CompleteRests
  <2> QED BY <2>1, <2>2 DEF Accounting, SentWhenGone, Sent, RacesOnce, ReportedIsStored
<1>5. CASE CollectResult(c)
  BY <1>5, TakeAccounting DEF CollectResult
<1>6. CASE AllFailed(c) \/ MergeFails(c)
  <2>1. /\ UNCHANGED <<racers, stored, results, reported, taken, account, total>>
        /\ pc'[c] = "error" /\ \A d \in Calls \ {c} : pc'[d] = pc[d]
    BY <1>6 DEF AllFailed, MergeFails, Goto, TypeOK, raceVars
  <2>2. CompleteCountsAll'
    BY <2>1, CompleteRests
  <2> QED BY <2>1, <2>2 DEF Accounting, SentWhenGone, Sent, RacesOnce, ReportedIsStored
<1>7. CASE WinnerMerged(c)
  <2>1. /\ UNCHANGED <<racers, stored, results, reported, taken, total>>
        /\ pc'[c] = "ok" /\ account'[c] = "draining"
        /\ \A d \in Calls \ {c} : pc'[d] = pc[d] /\ account'[d] = account[d]
    BY <1>7 DEF WinnerMerged, Goto, TypeOK
  <2>2. CompleteCountsAll'
    BY <2>1, CompleteRests
  <2> QED BY <2>1, <2>2 DEF Accounting, SentWhenGone, Sent, RacesOnce, ReportedIsStored
<1>8. CASE Drain(c)
  BY <1>8, TakeAccounting DEF Drain
<1>9. CASE Emit(c)
  <2>1. /\ UNCHANGED <<racers, stored, results, reported, taken, pc>>
        /\ account'[c] = MetricsComplete(c) /\ total'[c] = Bytes(stored[c]) /\ account[c] # "none"
        /\ \A d \in Calls \ {c} : account'[d] = account[d] /\ total'[d] = total[d]
    BY <1>9 DEF Emit, TypeOK
  <2>2. account'[c] = "complete" => \A p \in Racers(c) : racers[c][p] = "gone"
    BY <2>1, AllTakenAllGone DEF MetricsComplete, Accounting
  <2>3. CompleteCountsAll'
    BY <2>1, <2>2, CompleteRests
  <2> QED BY <2>1, <2>3 DEF Accounting, SentWhenGone, Sent, RacesOnce, ReportedIsStored
<1> QED BY <1>1, <1>2, <1>3, <1>4, <1>5, <1>6, <1>7, <1>8, <1>9 DEF RaceStep, RacerEnds, Collect

\* An account that says it is complete waits for nobody and misses nothing that
\* was reported, whatever is stored after a racer's error
\* (startRaceOverheadAccounting, fillRaceOverheadEvent).
THEOREM CompleteAccounts == Spec => []CompleteCountsAll
<1>1. Init => Accounting
  <2> SUFFICES ASSUME Init PROVE Accounting
    OBVIOUS
  <2>1. \A c \in Calls : Sent(c) = {} /\ account[c] = "none" /\ \A p \in Peers : racers[c][p] = "none"
    BY DEF Init, Sent
  <2>2. ReportedIsStored
    BY DEF Init, ReportedIsStored
  <2> QED BY <2>1, <2>2 DEF Accounting, SentWhenGone, RacesOnce, CompleteCountsAll
<1>2. TypeOK /\ Accounting /\ [Next]_vars => Accounting'
  <2> SUFFICES ASSUME TypeOK, Accounting, [Next]_vars PROVE Accounting'
    OBVIOUS
  <2>1. CASE Stop \/ Ended \/ UNCHANGED vars
    BY <2>1, NotRacing DEF Stop, Ended, vars, callVars
  <2> QED BY <2>1, FlightAccounting, RescueAccounting, RaceAccounting DEF Next
<1>3. Accounting => CompleteCountsAll
  BY DEF Accounting
<1> QED BY <1>1, <1>2, <1>3, Types, PTL DEF Spec
=============================================================================
