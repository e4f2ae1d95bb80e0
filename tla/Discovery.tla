----------------------------- MODULE Discovery ------------------------------
(***************************************************************************)
(* The GraphSync client's fetcher with its adaptive selector: what a call  *)
(* of Fetch does from the choice of a peer to the return, and the books    *)
(* the selector keeps about its peers (how much it knows of a peer's       *)
(* throughput, how many requests and discoveries are under way).           *)
(*                                                                         *)
(* Callers are the prefetch workers and the player.  Playback position and *)
(* cache decide only whether a segment is urgent and whether the urgent    *)
(* window is covered: both are inputs here, as are estimates, deadlines    *)
(* and the outcome of a request.  Ages of samples, cooldowns and retry     *)
(* delays are flags that time may change at any moment.                    *)
(***************************************************************************)
EXTENDS Integers, Sequences, FiniteSets, Functions

CONSTANTS
  Peers,        \* the connected peers
  First,        \* peers[0], the fallback when no peer is measured
  NoPeer,
  Callers,      \* goroutines that call Fetch
  Fanout,       \* -discovery-fanout
  RaceFanout,   \* -race-fanout, already limited to the number of peers
  MaxOthers     \* bound: requests of rescues to a peer when one more starts; no race starts above it

ASSUME DiscoveryAssumption ==
  /\ First \in Peers /\ NoPeer \notin Peers /\ IsFiniteSet(Peers) /\ IsFiniteSet(Callers)
  /\ Fanout \in Nat /\ RaceFanout \in Nat /\ MaxOthers \in Nat

VARIABLES
  stats,          \* per peer: last sample, qualified samples (2: enough), the last one too old, cooldown, retry delay
  inflight,       \* stats.inflight; their sum is a.activeRequests
  discInflight,   \* a.discoveryInflight
  preferReprobe,  \* a.preferReprobeNext
  pc, peer,       \* per caller: where it is, the peer of its assignment
  held,           \* the peer of its discovery
  method,         \* "single" or "discovery_single"
  start,          \* what predictionSnapshot saw
  racers,         \* peers of its race that have not answered yet
  others          \* requests of rescues and of losers of finished races

selectorVars == <<stats, inflight, discInflight, preferReprobe>>
callerVars == <<pc, peer, held, method, start, racers>>
vars == <<selectorVars, callerVars, others>>

Labels == {"idle", "defer", "race", "racing", "discover", "claim", "single", "snapshot",
           "mark", "transfer", "succeeded", "failed", "release"}

Goto(c, l) == pc' = [pc EXCEPT ![c] = l]

\* Seeded faults (Bug...): plausible slips in the operator below them, used by
\* no specification.

-----------------------------------------------------------------------------
(* What the selector knows of a peer.                                      *)

minCleanSamplesForFresh == 2

\* the age of the qualified samples is forgotten
BugThroughputState(p) ==
  CASE stats[p].cooling -> "cooldown"
    [] ~stats[p].cooling /\ stats[p].sample = "never" -> "unknown"
    [] OTHER -> IF stats[p].qualified < minCleanSamplesForFresh THEN "tentative" ELSE "fresh"

throughputState(p) ==
  CASE stats[p].cooling -> "cooldown"
    [] ~stats[p].cooling /\ stats[p].sample = "never" -> "unknown"
    [] ~stats[p].cooling /\ stats[p].sample # "never"
         /\ stats[p].qualified < minCleanSamplesForFresh -> "tentative"
    [] OTHER -> IF stats[p].aged THEN "stale" ELSE "fresh"

hasUsableThroughput(p) == stats[p].sample = "recent" /\ ~stats[p].cooling

measuredPeers == {p \in Peers : throughputState(p) = "fresh"}
usableMeasuredPeers ==
  {p \in Peers : throughputState(p) \in {"fresh", "tentative"} /\ hasUsableThroughput(p)}
hasMeasuredPeer == \E p \in Peers : hasUsableThroughput(p)

discoveryClass(p) ==
  CASE throughputState(p) \in {"unknown", "tentative"} -> "coverage"
    [] throughputState(p) = "stale" -> "reprobe"
    [] OTHER -> "none"

\* discoveryDebt: peers that are cooling down are of no class
Debt(class) == {p \in Peers : discoveryClass(p) = class}
discoveryNeeded == Debt("coverage") \cup Debt("reprobe") # {}

activeRequests == SumFunction(inflight)
totalInflight == SumFunction(discInflight)
reprobeInflight == SumFunctionOnSet(discInflight, Debt("reprobe"))
coverageInflight == SumFunctionOnSet(discInflight, Peers \ Debt("reprobe"))

-----------------------------------------------------------------------------
(* discoveryPeerWithClass.                                                 *)

\* With one slot the classes take turns; with more, one slot is kept for the
\* reprobe of a stale peer while there is one.
discoveryClassOrder ==
  IF Fanout >= 2
  THEN (IF Debt("reprobe") # {} /\ reprobeInflight < 1 THEN <<"reprobe">> ELSE <<>>)
       \o (IF /\ Debt("coverage") # {}
              /\ coverageInflight < (IF Debt("reprobe") # {} THEN Fanout - 1 ELSE Fanout)
           THEN <<"coverage">> ELSE <<>>)
  ELSE IF Debt("coverage") # {} /\ Debt("reprobe") # {} /\ preferReprobe
       THEN <<"reprobe", "coverage">>
       ELSE <<"coverage", "reprobe">>

\* an isolated candidate: no request and no discovery, not to be left alone
Isolated(p) == discInflight[p] = 0 /\ inflight[p] = 0 /\ ~stats[p].retry

\* Unknown peers before tentative ones, then fewer qualified samples.  Ages,
\* sizes and names decide the rest.
Prefers(p, r) ==
  \/ throughputState(p) = "unknown" /\ throughputState(r) = "tentative"
  \/ throughputState(p) = throughputState(r) /\ stats[p].qualified < stats[r].qualified

bestDiscoveryPeers(class) ==
  LET ok == {p \in Debt(class) : Isolated(p)}
  IN  IF class = "coverage" THEN {p \in ok : \A r \in ok : ~Prefers(r, p)} ELSE ok

\* the first class of the order that has a candidate
discoveryChoices ==
  LET order == discoveryClassOrder
      Has(i) == bestDiscoveryPeers(order[i]) # {}
  IN  IF totalInflight >= Fanout THEN {}
      ELSE {x \in Peers \X {"coverage", "reprobe"} :
              \E i \in DOMAIN order : /\ x[2] = order[i]
                                      /\ x[1] \in bestDiscoveryPeers(order[i])
                                      /\ \A j \in 1..(i - 1) : ~Has(j)}

-----------------------------------------------------------------------------
(* The books.                                                              *)

MarkInflight(p, n) == inflight' = [inflight EXCEPT ![p] = n]

recordFailure(p) == stats' = [stats EXCEPT ![p].cooling = TRUE]

\* A sample counts when the peer served nothing else, at the start and now,
\* and either the client was idle too and not saturated (clean) or the request
\* was a discovery (probe).
BugPeerAlone(p, seen) == seen # "peerBusy"

PeerAlone(p, seen) == seen # "peerBusy" /\ inflight[p] <= 1

MayBeClean(p, seen) == PeerAlone(p, seen) /\ seen = "alone" /\ activeRequests <= 1

recordSample(p, m, seen) ==
  \E qualified \in {x \in BOOLEAN :
                      /\ x => MayBeClean(p, seen) \/ (m = "discovery_single" /\ PeerAlone(p, seen))
                      /\ ~x => ~(m = "discovery_single" /\ PeerAlone(p, seen))} :
    stats' = [stats EXCEPT ![p] =
      [sample |-> "recent",
       qualified |-> IF qualified /\ @.qualified < minCleanSamplesForFresh
                     THEN @.qualified + 1 ELSE @.qualified,
       aged |-> IF qualified THEN FALSE ELSE @.aged,
       cooling |-> FALSE,
       retry |-> IF qualified THEN FALSE ELSE @.retry \/ m = "discovery_single"]]

\* successIgnoredReason, a transfer too short to measure or a local store hit:
\* no sample
recordIgnoredSample == UNCHANGED stats

-----------------------------------------------------------------------------
(* Fetch.                                                                  *)

shouldUseDiscoveryAssignment(urgent, covered) == ~urgent /\ covered /\ discoveryNeeded

Route(c, urgent, covered) ==
  Goto(c, IF shouldUseDiscoveryAssignment(urgent, covered) THEN "discover" ELSE "single")

Fetch(c) ==
  /\ pc[c] = "idle"
  /\ \/ ~hasMeasuredPeer /\ Goto(c, "race")
     \/ /\ hasMeasuredPeer
        /\ \E urgent, covered \in BOOLEAN :
             IF ~urgent /\ ~covered THEN Goto(c, "defer") ELSE Route(c, urgent, covered)
  /\ UNCHANGED <<selectorVars, peer, held, method, start, racers, others>>

\* the timer fires, or the client stops
DeferEnds(c) ==
  /\ pc[c] = "defer"
  /\ \/ \E urgent, covered \in BOOLEAN : Route(c, urgent, covered)
     \/ Goto(c, "idle")
  /\ UNCHANGED <<selectorVars, peer, held, method, start, racers, others>>

\* discoveryPeerWithClass; discoveryFetchTimeout may refuse
SelectDiscovery(c) ==
  /\ pc[c] = "discover"
  /\ \/ discoveryChoices = {} /\ Goto(c, "single") /\ UNCHANGED <<preferReprobe, peer>>
     \/ \E x \in discoveryChoices :
          /\ preferReprobe' = IF Fanout = 1 /\ Debt("coverage") # {} /\ Debt("reprobe") # {}
                              THEN x[2] = "coverage" ELSE preferReprobe
          /\ \/ Goto(c, "claim") /\ peer' = [peer EXCEPT ![c] = x[1]]
             \/ Goto(c, "single") /\ UNCHANGED peer
  /\ UNCHANGED <<stats, inflight, discInflight, held, method, start, racers, others>>

ClaimDiscovery(c) ==
  /\ pc[c] = "claim"
  /\ discInflight' = [discInflight EXCEPT ![peer[c]] = @ + 1]
  /\ held' = [held EXCEPT ![c] = peer[c]]
  /\ method' = [method EXCEPT ![c] = "discovery_single"]
  /\ Goto(c, "snapshot")
  /\ UNCHANGED <<stats, inflight, preferReprobe, peer, start, racers, others>>

\* a tentative peer gets one request at a time while peers are unmeasured
shouldThrottleTentativeNormal(p) ==
  Debt("coverage") # {} /\ throughputState(p) = "tentative" /\ inflight[p] >= 1

\* urgent: a fresh peer, else a usable one.  Otherwise a peer that meets the
\* deadline, else a fresh one.  Without any, the first.
selectPeerWithInfo(urgent) ==
  IF urgent
  THEN IF measuredPeers # {} THEN measuredPeers
       ELSE IF usableMeasuredPeers # {} THEN usableMeasuredPeers ELSE {First}
  ELSE {p \in Peers : hasUsableThroughput(p) /\ ~shouldThrottleTentativeNormal(p)}
       \cup (IF measuredPeers # {} THEN measuredPeers ELSE {First})

SelectSingle(c) ==
  /\ pc[c] = "single"
  /\ \E urgent \in BOOLEAN : \E p \in selectPeerWithInfo(urgent) :
       peer' = [peer EXCEPT ![c] = p]
  /\ method' = [method EXCEPT ![c] = "single"]
  /\ Goto(c, "snapshot")
  /\ UNCHANGED <<selectorVars, held, start, racers, others>>

-----------------------------------------------------------------------------
(* fetchFromPeer.                                                          *)

\* the request is sent without being marked
BugSnapshot(c) ==
  /\ pc[c] = "snapshot"
  /\ start' = [start EXCEPT ![c] = IF activeRequests > 0 THEN "peerBusy" ELSE "alone"]
  /\ Goto(c, "transfer")
  /\ UNCHANGED <<selectorVars, peer, held, method, racers, others>>

\* A peer the selector has no entry for, which it never had a sample of, makes
\* the client look idle, too.
Sees(p) ==
  IF inflight[p] > 0 THEN {"peerBusy"}
  ELSE IF activeRequests = 0 THEN {"alone"}
  ELSE {"clientBusy"} \cup (IF stats[p].sample = "never" THEN {"alone"} ELSE {})

Snapshot(c) ==
  /\ pc[c] = "snapshot"
  /\ \E seen \in Sees(peer[c]) : start' = [start EXCEPT ![c] = seen]
  /\ Goto(c, "mark")
  /\ UNCHANGED <<selectorVars, peer, held, method, racers, others>>

\* the new count is taken from the snapshot
BugMark(c) ==
  /\ pc[c] = "mark"
  /\ MarkInflight(peer[c], IF start[c] = "peerBusy" THEN inflight[peer[c]] + 1 ELSE 1)
  /\ Goto(c, "transfer")
  /\ UNCHANGED <<stats, discInflight, preferReprobe, peer, held, method, start, racers, others>>

Mark(c) ==
  /\ pc[c] = "mark"
  /\ MarkInflight(peer[c], inflight[peer[c]] + 1)
  /\ Goto(c, "transfer")
  /\ UNCHANGED <<stats, discInflight, preferReprobe, peer, held, method, start, racers, others>>

\* also when a rescue has cancelled or overtaken the request: a request that
\* comes back without an error then leaves no sample, one that fails counts as
\* a failure of its peer
TransferSucceeds(c) ==
  /\ pc[c] = "transfer"
  /\ recordSample(peer[c], method[c], start[c]) \/ recordIgnoredSample
  /\ Goto(c, "succeeded")
  /\ UNCHANGED <<inflight, discInflight, preferReprobe, peer, held, method, start, racers, others>>

TransferFails(c) ==
  /\ pc[c] = "transfer"
  /\ recordFailure(peer[c])
  /\ Goto(c, "failed")
  /\ UNCHANGED <<inflight, discInflight, preferReprobe, peer, held, method, start, racers, others>>

FallsBack(c) == pc[c] = "failed" /\ method[c] = "discovery_single"

\* the slot is given back where the discovery itself returns only
BugAfter(c) ==
  IF FallsBack(c) THEN "single" ELSE IF method[c] = "discovery_single" THEN "release" ELSE "idle"

After(c) ==
  IF FallsBack(c) THEN "single" ELSE IF held[c] # NoPeer THEN "release" ELSE "idle"

\* the deferred markInflight, then finishAssignment.  A failed discovery falls
\* back to singleFetch and keeps its slot meanwhile.
TransferReturns(c) ==
  /\ pc[c] \in {"succeeded", "failed"}
  /\ MarkInflight(peer[c], inflight[peer[c]] - 1)
  /\ start' = [start EXCEPT ![c] = "alone"]
  /\ peer' = [peer EXCEPT ![c] = NoPeer]
  /\ method' = [method EXCEPT ![c] = "single"]
  /\ Goto(c, After(c))
  /\ UNCHANGED <<stats, discInflight, preferReprobe, held, racers, others>>

\* the deferred markDiscoveryInflight
\* the entry of the peer is dropped whoever else holds it
BugReleaseDiscovery(c) ==
  /\ pc[c] = "release"
  /\ discInflight' = [discInflight EXCEPT ![held[c]] = 0]
  /\ held' = [held EXCEPT ![c] = NoPeer]
  /\ Goto(c, "idle")
  /\ UNCHANGED <<stats, inflight, preferReprobe, peer, method, start, racers, others>>

ReleaseDiscovery(c) ==
  /\ pc[c] = "release"
  /\ discInflight' = [discInflight EXCEPT ![held[c]] = @ - 1]
  /\ held' = [held EXCEPT ![c] = NoPeer]
  /\ Goto(c, "idle")
  /\ UNCHANGED <<stats, inflight, preferReprobe, peer, method, start, racers, others>>

-----------------------------------------------------------------------------
(* raceFetch and executeRaceFetch, rescues.                                *)

\* The peers of a race are any set of at most RaceFanout; those that are
\* cooling down are left out.  No race when only one can take part.
LaunchRace(c) ==
  /\ pc[c] = "race"
  /\ \/ /\ \/ RaceFanout <= 1
           \/ Cardinality(measuredPeers) = 1
           \/ Cardinality({p \in Peers : ~stats[p].cooling}) = 1
        /\ Goto(c, "single")
        /\ UNCHANGED <<inflight, racers>>
     \/ \E R \in SUBSET Peers :
          LET started == {p \in R : ~stats[p].cooling} IN
          /\ Cardinality(R) \in 2..RaceFanout
          /\ \A p \in started : others[p] <= MaxOthers
          /\ inflight' = [p \in Peers |-> IF p \in started THEN inflight[p] + 1 ELSE inflight[p]]
          /\ racers' = [racers EXCEPT ![c] = started]
          /\ Goto(c, IF started = {} THEN "single" ELSE "racing")
  /\ UNCHANGED <<stats, discInflight, preferReprobe, peer, held, method, start, others>>

\* A request of a race or a rescue reports and is unmarked in one step, and
\* what it saw at its start is not kept: it may have been alone.
RacerWins(c, p) ==
  /\ p \in racers[c]
  /\ recordSample(p, "race", "alone") \/ recordIgnoredSample
  /\ MarkInflight(p, inflight[p] - 1)
  /\ racers' = [racers EXCEPT ![c] = {}]
  /\ others' = [r \in Peers |-> IF r \in racers[c] \ {p} THEN others[r] + 1 ELSE others[r]]
  /\ Goto(c, "idle")
  /\ UNCHANGED <<discInflight, preferReprobe, peer, held, method, start>>

\* after a timeout of the race a failing peer is not blamed
RacerFails(c, p) ==
  /\ p \in racers[c]
  /\ recordFailure(p) \/ UNCHANGED stats
  /\ MarkInflight(p, inflight[p] - 1)
  /\ racers' = [racers EXCEPT ![c] = @ \ {p}]
  /\ IF racers[c] = {p} THEN Goto(c, "idle") ELSE UNCHANGED pc
  /\ UNCHANGED <<discInflight, preferReprobe, peer, held, method, start, others>>

\* a rescue of a caller's assignment asks fresh peers
RescueBegins(p) ==
  /\ p \in measuredPeers
  /\ \E c \in Callers : pc[c] \in {"snapshot", "mark", "transfer", "succeeded", "failed"}
  /\ others[p] < MaxOthers
  /\ others' = [others EXCEPT ![p] = @ + 1]
  /\ MarkInflight(p, inflight[p] + 1)
  /\ UNCHANGED <<stats, discInflight, preferReprobe, callerVars>>

\* the loser of a race is not blamed either
OtherReturns(p) ==
  /\ others[p] > 0
  /\ recordSample(p, "rescue", "alone") \/ recordFailure(p) \/ UNCHANGED stats
  /\ others' = [others EXCEPT ![p] = @ - 1]
  /\ MarkInflight(p, inflight[p] - 1)
  /\ UNCHANGED <<discInflight, preferReprobe, callerVars>>

-----------------------------------------------------------------------------
(* Time passes.                                                            *)

SampleAges(p) ==
  /\ stats[p].sample = "recent"
  /\ stats[p].qualified = minCleanSamplesForFresh => stats[p].aged
  /\ stats' = [stats EXCEPT ![p].sample = "old"]

QualifiedAges(p) ==
  /\ stats[p].qualified = minCleanSamplesForFresh /\ ~stats[p].aged
  /\ stats' = [stats EXCEPT ![p].aged = TRUE]

CooldownEnds(p) == stats[p].cooling /\ stats' = [stats EXCEPT ![p].cooling = FALSE]

RetryEnds(p) == stats[p].retry /\ stats' = [stats EXCEPT ![p].retry = FALSE]

Time(p) ==
  /\ SampleAges(p) \/ QualifiedAges(p) \/ CooldownEnds(p) \/ RetryEnds(p)
  /\ UNCHANGED <<inflight, discInflight, preferReprobe, callerVars, others>>

Init ==
  /\ stats = [p \in Peers |-> [sample |-> "never", qualified |-> 0, aged |-> FALSE,
                               cooling |-> FALSE, retry |-> FALSE]]
  /\ inflight = [p \in Peers |-> 0]
  /\ discInflight = [p \in Peers |-> 0]
  /\ preferReprobe = FALSE
  /\ pc = [c \in Callers |-> "idle"]
  /\ peer = [c \in Callers |-> NoPeer]
  /\ held = [c \in Callers |-> NoPeer]
  /\ method = [c \in Callers |-> "single"]
  /\ start = [c \in Callers |-> "alone"]
  /\ racers = [c \in Callers |-> {}]
  /\ others = [p \in Peers |-> 0]

CallerStep(c) ==
  \/ DeferEnds(c) \/ SelectDiscovery(c) \/ ClaimDiscovery(c) \/ SelectSingle(c)
  \/ Snapshot(c) \/ Mark(c) \/ TransferSucceeds(c) \/ TransferFails(c)
  \/ TransferReturns(c) \/ ReleaseDiscovery(c) \/ LaunchRace(c)
  \/ \E p \in Peers : RacerWins(c, p) \/ RacerFails(c, p)

Next ==
  \/ \E c \in Callers : Fetch(c) \/ CallerStep(c)
  \/ \E p \in Peers : RescueBegins(p) \/ OtherReturns(p) \/ Time(p)

Spec == Init /\ [][Next]_vars

\* A request ends, with data or an error (requestSegment has no timeout of its
\* own); so do the losers of a race.
FairSpec ==
  /\ Spec
  /\ \A c \in Callers : WF_vars(CallerStep(c))
  /\ \A p \in Peers : WF_vars(OtherReturns(p))

-----------------------------------------------------------------------------
(* Properties.                                                             *)

\* The variables have their types, counters included.
TypeOK ==
  /\ stats \in [Peers -> [sample : {"never", "recent", "old"}, qualified : 0..2,
                          aged : BOOLEAN, cooling : BOOLEAN, retry : BOOLEAN]]
  /\ inflight \in [Peers -> Nat]
  /\ discInflight \in [Peers -> Nat]
  /\ preferReprobe \in BOOLEAN
  /\ pc \in [Callers -> Labels]
  /\ peer \in [Callers -> Peers \cup {NoPeer}]
  /\ held \in [Callers -> Peers \cup {NoPeer}]
  /\ method \in [Callers -> {"single", "discovery_single"}]
  /\ start \in [Callers -> {"alone", "clientBusy", "peerBusy"}]
  /\ racers \in [Callers -> SUBSET Peers]
  /\ others \in [Peers -> Nat]

\* The requests under way to a peer: callers', races' and the others.
Marked(c, p) == (pc[c] \in {"transfer", "succeeded", "failed"} /\ peer[c] = p) \/ p \in racers[c]
Requests(p) == Cardinality({c \in Callers : Marked(c, p)}) + others[p]

\* Whatever path a request takes and however it ends, the selector's count of
\* a peer's requests is right: load balancing and sample quality rest on it.
RequestsCounted == \A p \in Peers : inflight[p] = Requests(p)

\* A discovery occupies its peer from the claim to the return, the fallback
\* included, and only then.
DiscoveriesCounted == \A p \in Peers : discInflight[p] = Cardinality({c \in Callers : held[c] = p})

\* While a sample is counted as qualified the peer serves no other request,
\* although start and end of the request were looked at under separate locks.
QualifiedAlone ==
  [][\A p \in Peers : stats'[p].qualified > stats[p].qualified => Requests(p) = 1]_vars

\* A fresh peer always has an estimate: the urgent choice, which takes fresh
\* peers only, never ends up with a peer it cannot rate.
FreshIsUsable == \A p \in measuredPeers : hasUsableThroughput(p)

\* A discovery gives its slot back, also when it failed and fell back.
SlotReturned == \A c \in Callers : held[c] # NoPeer ~> held[c] = NoPeer

\* README.md:117 "Begrenzt parallele nicht dringende Durchsatz Discovery
\* Anfragen": no more discoveries at once than the fanout.
WithinFanout == totalInflight <= Fanout
=============================================================================
