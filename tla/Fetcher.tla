------------------------------ MODULE Fetcher -------------------------------
(***************************************************************************)
(* How the GraphSync client gets one segment: flights of the prefetcher    *)
(* (fetchAndStore), one after the other, and rescues of them.  A flight    *)
(* races peers while none is measured; else it asks one peer under an      *)
(* assignment, after a failed discovery another one.  A rescue marks the   *)
(* assignment and asks one peer or races several.  The first answer ends   *)
(* a race; its losers report to an accountant that adds up their bytes.    *)
(*                                                                         *)
(* Flights, rescues, racers and accountants run concurrently.  Whom the    *)
(* selector knows and prefers is the matter of Discovery: here any peer    *)
(* may be chosen, and urgency is time, which may pass at any moment.       *)
(***************************************************************************)
EXTENDS Integers, FiniteSets, Functions

CONSTANTS
  MaxFlights,  \* bound: calls of Fetch
  Rescues,     \* bound: rescues that are asked for
  MaxRaces,    \* bound: calls that race
  Peers,
  Blocks,      \* blocks of the segment
  Fanout,      \* -race-fanout, already limited to the number of peers
  None

Flights == 1..MaxFlights
Calls == Flights \cup Rescues
Assignments == [peer : Peers, rescued : BOOLEAN]

ASSUME FetcherAssumption ==
  /\ MaxFlights \in Nat /\ MaxRaces \in Nat /\ Blocks \in Nat \ {0} /\ Fanout \in Nat
  /\ IsFiniteSet(Peers) /\ IsFiniteSet(Rescues) /\ Flights \cap Rescues = {}
  /\ None \notin Peers \cup Flights /\ None \notin Assignments

VARIABLES
  cached,      \* the prefetcher has the segment
  flight,      \* the flight whose wait channel is registered, or None
  marked,      \* the prefetcher's rescued mark of the segment
  stopped,     \* the contexts of player and prefetcher are done
  assignment,  \* assignments[index]: a peer and its Rescued flag, or None
  pc,          \* per call: where it is
  peer,        \* per flight: the peer of its assignment, or None
  cancelled,   \* flights whose own context was cancelled
  target,      \* per rescue: the flight whose wait channel it took
  racers,      \* per call and peer: where the racer is
  stored,      \* per call and peer: blocks in the racer's memoryBlockstore
  results,     \* per call: what the channel holds, <<peer, success>>
  reported,    \* per call and peer: storedBytes of the racer's result
  taken,       \* per call: the results received from it
  raceDone,    \* calls whose race context is cancelled or timed out
  account,     \* per call: the accountant, or what its event says of itself
  total        \* per call: RaceTotalBytes of the event

segmentVars == <<cached, flight, marked, stopped, assignment>>
callVars == <<pc, peer, cancelled, target>>
raceVars == <<racers, stored, results, reported, taken, raceDone, account, total>>
vars == <<segmentVars, callVars, raceVars>>

Goto(c, l) == pc' = [pc EXCEPT ![c] = l]

\* The context a call was given is done; flights have one of their own.
Done(c) == stopped \/ c \in cancelled
CtxRaceDone(c) == c \in raceDone \/ Done(c)

Racers(c) == {p \in Peers : racers[c][p] # "none"}
RaceComplete(c) == \E p \in Peers : <<p, TRUE>> \in taken[c]

\* Seeded faults (Bug...): plausible slips in the operator below them, used by
\* no specification.

-----------------------------------------------------------------------------
(* Assignments.                                                            *)

beginAssignment(p) == assignment' = [peer |-> p, rescued |-> FALSE]

\* a rescued assignment is left to the rescue
BugFinishAssignment(p) ==
  assignment' = IF assignment # None /\ assignment.rescued THEN assignment ELSE None
finishAssignment(p) ==
  assignment' = IF assignment # None /\ assignment.peer = p THEN None ELSE assignment

\* The segment may be rescued; how late it is decides, which is time.
ShouldRescue == assignment # None /\ ~assignment.rescued

-----------------------------------------------------------------------------
(* Flights: fetchAndStore and Fetch.                                       *)

\* A missing segment that is not in flight is requested (again).
StartFlight(f) ==
  /\ pc[f] = "idle" /\ \A e \in Flights : e < f => pc[e] = "done"
  /\ ~cached /\ flight = None
  /\ flight' = f /\ Goto(f, "fetch")
  /\ UNCHANGED <<cached, marked, stopped, assignment, peer, cancelled, target, raceVars>>

\* executeRaceFetch: at most fanout peers, without those that cool down
StartRace(c, S) ==
  /\ Cardinality({d \in Calls : Racers(d) # {}}) < MaxRaces /\ Fanout > 1 /\ S # {} /\ Cardinality(S) <= Fanout
  /\ racers' = [racers EXCEPT ![c] = [p \in Peers |-> IF p \in S THEN "asking" ELSE "none"]]
  /\ Goto(c, "collect")
  /\ UNCHANGED <<segmentVars, peer, cancelled, target,
                 stored, results, reported, taken, raceDone, account, total>>

\* Nobody is measured: a bootstrap race.
RaceFetch(f) == pc[f] = "fetch" /\ \E S \in SUBSET Peers : StartRace(f, S)

\* discoveryFetch or singleFetch: the peer is asked under an assignment.
Assign(f, p) ==
  /\ beginAssignment(p) /\ peer' = [peer EXCEPT ![f] = p]
  /\ UNCHANGED <<cached, flight, marked, stopped, cancelled, target, raceVars>>
DiscoveryFetch(f) ==
  /\ pc[f] = "fetch" /\ Goto(f, "discover") /\ \E p \in Peers : Assign(f, p)
SingleFetch(f) ==
  /\ pc[f] \in {"fetch", "fallback"} /\ Goto(f, "ask") /\ \E p \in Peers : Assign(f, p)

\* The request returns; a discovery that failed falls back to a single fetch.
RequestEnds(f) ==
  /\ pc[f] \in {"discover", "ask"}
  /\ \/ Goto(f, "fetched")
     \/ pc[f] = "discover" /\ Goto(f, "undiscovered")
     \/ pc[f] = "ask" /\ Goto(f, "failed")
  /\ UNCHANGED <<segmentVars, peer, cancelled, target, raceVars>>

\* Only then is the assignment given up, so a rescue may still mark it.
FinishFetch(f) ==
  /\ pc[f] \in {"fetched", "undiscovered", "failed"}
  /\ finishAssignment(peer[f])
  /\ peer' = [peer EXCEPT ![f] = None]
  /\ Goto(f, [fetched |-> "ok", undiscovered |-> "fallback", failed |-> "error"][pc[f]])
  /\ UNCHANGED <<cached, flight, marked, stopped, cancelled, target, raceVars>>

\* fetchAndStore cancels its context in any case and closes the flight.
FlightReturns(f) ==
  /\ pc[f] \in {"ok", "error"}
  /\ cancelled' = cancelled \cup {f}
  /\ cached' = (cached \/ pc[f] = "ok")
  /\ flight' = None /\ marked' = FALSE
  /\ Goto(f, "done")
  /\ UNCHANGED <<stopped, assignment, peer, target, raceVars>>

-----------------------------------------------------------------------------
(* Rescues: RequestRescue or Get, then RescueFetch.                        *)

AskForRescue(r) ==
  /\ pc[r] = "idle" /\ ShouldRescue
  /\ Goto(r, "mark")
  /\ UNCHANGED <<segmentVars, peer, cancelled, target, raceVars>>

\* A flight is rescued once.
MarkRescue(r) ==
  /\ pc[r] = "mark"
  /\ IF flight # None /\ ~marked
       THEN /\ marked' = TRUE /\ target' = [target EXCEPT ![r] = flight]
            /\ Goto(r, "claim")
       ELSE Goto(r, "done") /\ UNCHANGED <<marked, target>>
  /\ UNCHANGED <<cached, flight, stopped, assignment, peer, cancelled, raceVars>>

markAssignmentRescued(r) ==
  /\ pc[r] = "claim"
  /\ IF ShouldRescue
       THEN assignment' = [assignment EXCEPT !.rescued = TRUE] /\ Goto(r, "rescue")
       ELSE Goto(r, "done") /\ UNCHANGED assignment
  /\ UNCHANGED <<cached, flight, marked, stopped, peer, cancelled, target, raceVars>>

RescueRace(r) == pc[r] = "rescue" /\ \E S \in SUBSET Peers : StartRace(r, S)

SingleRescue(r) ==
  /\ pc[r] = "rescue" /\ Goto(r, "asking")
  /\ UNCHANGED <<segmentVars, peer, cancelled, target, raceVars>>

RescueSucceeds(r) ==
  /\ pc[r] = "asking" /\ Goto(r, "ok")
  /\ UNCHANGED <<segmentVars, peer, cancelled, target, raceVars>>

\* no measured peer, a failed request, or its context done
RescueFails(r) ==
  /\ pc[r] \in {"rescue", "asking"} /\ Goto(r, "done")
  /\ UNCHANGED <<segmentVars, peer, cancelled, target, raceVars>>

\* calls the stored cancel function without looking whether there is one
BugToCancel == {flight}
ToCancel == {flight} \ {None}

\* storeRescueResult: the segment is there, whichever flight is open by now
\* is cancelled and closed.
StoreRescueResult(r) ==
  /\ pc[r] = "ok"
  /\ cached' = TRUE /\ marked' = FALSE /\ flight' = None
  /\ cancelled' = cancelled \cup ToCancel
  /\ Goto(r, "done")
  /\ UNCHANGED <<stopped, assignment, peer, target, raceVars>>

\* rescueAndWait has returned for another reason, or the rescue failed.
DropRescueResult(r) ==
  /\ \/ pc[r] = "error"
     \/ pc[r] = "ok" /\ (stopped \/ flight # target[r])
  /\ Goto(r, "done")
  /\ UNCHANGED <<segmentVars, peer, cancelled, target, raceVars>>

-----------------------------------------------------------------------------
(* Races: racers, the call that collects their results, the accountant.    *)

Racer(c, p, from, to) ==
  racers[c][p] = from /\ racers' = [racers EXCEPT ![c][p] = to]
RacerOnly == UNCHANGED <<segmentVars, callVars, stored, taken, raceDone, account, total>>

\* A block arrives in the racer's own store.  The first error ends
\* requestSegment, not the request: its blocks may still come when the racer
\* has reported and the event was sent.
Store(c, p) ==
  /\ racers[c][p] # "none" /\ stored[c][p] < Blocks
  /\ stored' = [stored EXCEPT ![c][p] = @ + 1]
  /\ UNCHANGED <<segmentVars, callVars, racers, results, reported, taken, raceDone, account, total>>

\* requestSegment returns: with the segment, with the first error of the peer,
\* or because the context is done.
RacerAnswers(c, p) ==
  /\ \/ stored[c][p] = Blocks /\ Racer(c, p, "asking", "won")
     \/ ~CtxRaceDone(c) /\ Racer(c, p, "asking", "failed")
  /\ RacerOnly /\ UNCHANGED <<results, reported>>
RacerIsCut(c, p) ==
  /\ CtxRaceDone(c) /\ Racer(c, p, "asking", "cut")
  /\ RacerOnly /\ UNCHANGED <<results, reported>>

\* only the race's winner is looked at
BugBlames(c) == ~RaceComplete(c)
\* recordFailure, unless the race is over by now
Blames(c) == ~RaceComplete(c) /\ ~CtxRaceDone(c)

Judge(c, p) ==
  /\ \E from \in {"failed", "cut"} : Racer(c, p, from, IF Blames(c) THEN "blamed" ELSE "lost")
  /\ RacerOnly /\ UNCHANGED <<results, reported>>

\* an unbuffered channel: someone must be there to receive
BugCapacity(c) == IF pc[c] = "collect" \/ account[c] = "draining" THEN 1 ELSE 0
\* make(chan raceResult, fanout): at least as many as race
Capacity(c) == Cardinality(Racers(c))

\* The racer sends its result, with what it has stored so far, if the channel
\* is not full, and is gone.
Report(c, p) ==
  /\ Cardinality(results[c]) < Capacity(c)
  /\ \E from \in {"won", "lost", "blamed"} : Racer(c, p, from, "gone")
  /\ results' = [results EXCEPT ![c] = @ \cup {<<p, racers[c][p] = "won">>}]
  /\ reported' = [reported EXCEPT ![c][p] = stored[c][p]]
  /\ RacerOnly

RaceTimeout(c) ==
  /\ \E p \in Racers(c) : racers[c][p] # "gone"
  /\ raceDone' = raceDone \cup {c}
  /\ UNCHANGED <<segmentVars, callVars, racers, stored, results, reported, taken, account, total>>

\* the next result, in whatever order the racers have sent
Take(c, x) ==
  /\ x \in results[c]
  /\ results' = [results EXCEPT ![c] = @ \ {x}]
  /\ taken' = [taken EXCEPT ![c] = @ \cup {x}]
AllTaken(c) == Cardinality(taken[c]) = Cardinality(Racers(c))

\* collectRaceResults: the first success decides and cancels the others.
CollectResult(c) ==
  /\ pc[c] = "collect"
  /\ \E x \in results[c] :
       /\ Take(c, x)
       /\ IF x[2] THEN Goto(c, "merge") /\ raceDone' = raceDone \cup {c}
                  ELSE UNCHANGED <<pc, raceDone>>
  /\ UNCHANGED <<segmentVars, peer, cancelled, target, racers, stored, reported, account, total>>
AllFailed(c) ==
  /\ pc[c] = "collect" /\ AllTaken(c)
  /\ Goto(c, "error") /\ raceDone' = raceDone \cup {c}
  /\ UNCHANGED <<segmentVars, peer, cancelled, target,
                 racers, stored, results, reported, taken, account, total>>

\* The winner's blocks are merged, the accountant starts.
WinnerMerged(c) ==
  /\ pc[c] = "merge" /\ Goto(c, "ok")
  /\ account' = [account EXCEPT ![c] = "draining"]
  /\ UNCHANGED <<segmentVars, peer, cancelled, target,
                 racers, stored, results, reported, taken, raceDone, total>>
\* They cannot be read, or not be merged: the race is lost, nobody accounts.
MergeFails(c) ==
  /\ pc[c] = "merge" /\ Goto(c, "error")
  /\ UNCHANGED <<segmentVars, peer, cancelled, target, raceVars>>

\* the totalStoredBytes of a race's stores together
Bytes(store) == FoldFunction(+, 0, store)

\* what was drained in time passes for all
BugMetricsComplete(c) == "complete"
\* RaceMetricsComplete of fillRaceOverheadEvent
MetricsComplete(c) == IF AllTaken(c) THEN "complete" ELSE "incomplete"

\* startRaceOverheadAccounting: the rest of the results, then the event;
\* incomplete when the call's context is done or five seconds have passed.
Drain(c) ==
  /\ account[c] = "draining" /\ \E x \in results[c] : Take(c, x)
  /\ UNCHANGED <<segmentVars, callVars, racers, stored, reported, raceDone, account, total>>
Emit(c) ==
  /\ account[c] = "draining"
  /\ account' = [account EXCEPT ![c] = MetricsComplete(c)]
  /\ total' = [total EXCEPT ![c] = Bytes(stored[c])]
  /\ UNCHANGED <<segmentVars, callVars, racers, stored, results, reported, taken, raceDone>>

-----------------------------------------------------------------------------
\* Player and prefetcher stop: the end of the run or a signal.
Stop ==
  /\ ~stopped /\ stopped' = TRUE
  /\ UNCHANGED <<cached, flight, marked, assignment, callVars, raceVars>>

Init ==
  /\ cached = FALSE /\ flight = None /\ marked = FALSE /\ stopped = FALSE
  /\ assignment = None
  /\ pc = [c \in Calls |-> "idle"]
  /\ peer = [f \in Flights |-> None]
  /\ cancelled = {} /\ target = [r \in Rescues |-> None]
  /\ racers = [c \in Calls |-> [p \in Peers |-> "none"]]
  /\ stored = [c \in Calls |-> [p \in Peers |-> 0]]
  /\ reported = [c \in Calls |-> [p \in Peers |-> 0]]
  /\ results = [c \in Calls |-> {}] /\ taken = [c \in Calls |-> {}]
  /\ raceDone = {} /\ account = [c \in Calls |-> "none"]
  /\ total = [c \in Calls |-> 0]

FlightStep(f) ==
  \/ StartFlight(f) \/ RaceFetch(f) \/ DiscoveryFetch(f) \/ SingleFetch(f)
  \/ RequestEnds(f) \/ FinishFetch(f) \/ FlightReturns(f)
RescueStep(r) ==
  \/ AskForRescue(r) \/ MarkRescue(r) \/ markAssignmentRescued(r)
  \/ RescueRace(r) \/ SingleRescue(r) \/ RescueSucceeds(r) \/ RescueFails(r)
  \/ StoreRescueResult(r) \/ DropRescueResult(r)
\* what a racer does by itself once its context is done
RacerEnds(c, p) == RacerIsCut(c, p) \/ Judge(c, p) \/ Report(c, p)
Collect(c) == CollectResult(c) \/ AllFailed(c) \/ WinnerMerged(c) \/ MergeFails(c)
RaceStep(c) ==
  \/ \E p \in Peers : Store(c, p) \/ RacerAnswers(c, p) \/ RacerEnds(c, p)
  \/ RaceTimeout(c) \/ Collect(c) \/ Drain(c) \/ Emit(c)

\* every call has returned, every racer and accountant is gone
Ended ==
  /\ \A c \in Calls : pc[c] \in {"idle", "done"} /\ account[c] # "draining"
  /\ \A c \in Calls, p \in Peers : racers[c][p] \in {"none", "gone"}
  /\ UNCHANGED vars

Next ==
  \/ \E f \in Flights : FlightStep(f)
  \/ \E r \in Rescues : RescueStep(r)
  \/ \E c \in Calls : RaceStep(c)
  \/ Stop \/ Ended

Spec == Init /\ [][Next]_vars

\* A request ends once its context is done, timers fire, and goroutines that
\* can run do.  No peer has to answer.
Fairness ==
  \A c \in Calls :
    /\ \A p \in Peers : WF_vars(RacerEnds(c, p))
    /\ WF_vars(RaceTimeout(c) /\ c \notin raceDone) /\ WF_vars(Collect(c)) /\ WF_vars(Emit(c))
FairSpec == Spec /\ Fairness

-----------------------------------------------------------------------------
\* The variables have their types.
TypeOK ==
  /\ cached \in BOOLEAN /\ marked \in BOOLEAN /\ stopped \in BOOLEAN
  /\ flight \in Flights \cup {None}
  /\ assignment \in Assignments \cup {None}
  /\ pc \in [Calls -> {"idle", "fetch", "discover", "ask", "fetched", "undiscovered", "failed",
                       "fallback", "mark", "claim", "rescue", "asking", "collect", "merge", "ok", "error", "done"}]
  /\ peer \in [Flights -> Peers \cup {None}]
  /\ cancelled \subseteq Flights /\ target \in [Rescues -> Flights \cup {None}]
  /\ racers \in [Calls -> [Peers -> {"none", "asking", "failed", "cut", "won",
                                      "lost", "blamed", "gone"}]]
  /\ stored \in [Calls -> [Peers -> 0..Blocks]] /\ reported \in [Calls -> [Peers -> 0..Blocks]]
  /\ results \in [Calls -> SUBSET (Peers \X BOOLEAN)] /\ taken \in [Calls -> SUBSET (Peers \X BOOLEAN)]
  /\ raceDone \subseteq Calls
  /\ account \in [Calls -> {"none", "draining", "complete", "incomplete"}] /\ total \in [Calls -> Nat]

\* The assignment of the segment is that of the flight which asks its peer: a
\* success never finds it replaced or missing, although a rescue may outlive
\* the flight it was meant for, and none is left behind for a later rescue.
AssignmentIsOwn ==
  /\ \A f \in Flights : peer[f] # None => assignment # None /\ assignment.peer = peer[f]
  /\ assignment # None => \E f \in Flights : peer[f] # None

\* An overhead event marked complete was sent when every racer had reported; it
\* counts at least the bytes they reported, those of all winners among them, and
\* nothing that was not stored.  Plots leave out the others (plot_runs.py:1980).
\* What a request still stores after its racer's error, it may miss.
CompleteCountsAll ==
  \A c \in Calls : account[c] = "complete" =>
    /\ \A p \in Racers(c) : racers[c][p] = "gone"
    /\ Bytes(reported[c]) <= total[c] /\ total[c] <= Bytes(stored[c])

\* A racer that failed because the race was decided, overtaken or stopped does
\* not send its peer into a cooldown.
LosersNotBlamed ==
  [][\A c \in Calls, p \in Peers : racers[c][p] = "cut" => racers'[c][p] # "blamed"]_vars

\* Racers and accountants end, though the race was decided without them,
\* nobody collects any more and a peer never answers: the client's exit waits
\* for the accountants.
RacesEnd ==
  <>[]\A c \in Calls : /\ account[c] # "draining"
                       /\ \A p \in Peers : racers[c][p] \in {"none", "gone"}
=============================================================================
