--------------------------- MODULE DiscoveryProofs --------------------------
(***************************************************************************)
(* Proofs about Discovery, for any peers and callers and any fanouts: the  *)
(* counters of the selector, the samples it qualifies and the peers it     *)
(* calls fresh.                                                            *)
(***************************************************************************)
EXTENDS Discovery, FiniteSetTheorems, TLAPS

USE DiscoveryAssumption

-----------------------------------------------------------------------------
(* The parts of the invariant.                                             *)

StatsType == [sample : {"never", "recent", "old"}, qualified : 0..2,
              aged : BOOLEAN, cooling : BOOLEAN, retry : BOOLEAN]

\* A peer that lost its last sample lost its qualified ones before.
Books == \A p \in Peers :
  stats[p].qualified = 2 /\ ~stats[p].aged => stats[p].sample = "recent"

\* What a caller's place says of the peers it has.
Placed == \A c \in Callers :
  /\ pc[c] \in {"claim", "snapshot", "mark", "transfer", "succeeded", "failed"} => peer[c] \in Peers
  /\ pc[c] # "racing" => racers[c] = {}
  /\ pc[c] \in {"idle", "defer", "race", "racing", "discover", "claim"} => held[c] = NoPeer
  /\ pc[c] = "release" => held[c] # NoPeer

IInv == TypeOK /\ Books /\ Placed /\ RequestsCounted /\ DiscoveriesCounted

LEMMA recordSampleKeeps ==
  ASSUME stats \in [Peers -> StatsType], Books, NEW p \in Peers, NEW m, NEW seen, recordSample(p, m, seen)
  PROVE  /\ stats' \in [Peers -> StatsType] /\ Books'
         /\ \A r \in Peers : stats'[r].qualified > stats[r].qualified => r = p /\ PeerAlone(p, seen)
<1>1. PICK q \in BOOLEAN :
        /\ q => MayBeClean(p, seen) \/ (m = "discovery_single" /\ PeerAlone(p, seen))
        /\ stats' = [stats EXCEPT ![p] =
                      [sample |-> "recent",
                       qualified |-> IF q /\ @.qualified < minCleanSamplesForFresh
                                     THEN @.qualified + 1 ELSE @.qualified,
                       aged |-> IF q THEN FALSE ELSE @.aged,
                       cooling |-> FALSE,
                       retry |-> IF q THEN FALSE ELSE @.retry \/ m = "discovery_single"]]
  BY DEF recordSample
<1> DEFINE s == stats[p]
           n == [sample |-> "recent",
                 qualified |-> IF q /\ s.qualified < 2 THEN s.qualified + 1 ELSE s.qualified,
                 aged |-> IF q THEN FALSE ELSE s.aged,
                 cooling |-> FALSE,
                 retry |-> IF q THEN FALSE ELSE s.retry \/ m = "discovery_single"]
<1>2. stats' = [stats EXCEPT ![p] = n]
  BY <1>1 DEF minCleanSamplesForFresh
<1>3. s \in StatsType
  OBVIOUS
<1>4. n \in StatsType
  <2>1. (IF q THEN FALSE ELSE s.retry \/ m = "discovery_single") \in BOOLEAN
    BY <1>3 DEF StatsType
  <2>2. (IF q THEN FALSE ELSE s.aged) \in BOOLEAN
    BY <1>3 DEF StatsType
  <2>3. (IF q /\ s.qualified < 2 THEN s.qualified + 1 ELSE s.qualified) \in 0..2
    BY <1>3 DEF StatsType
  <2> QED BY <2>1, <2>2, <2>3 DEF StatsType
<1>5. n.sample = "recent" /\ (n.qualified > s.qualified => q)
  BY <1>3 DEF StatsType
<1> HIDE DEF n, s
<1>6. stats'[p] = n /\ \A r \in Peers \ {p} : stats'[r] = stats[r]
  BY <1>2
<1>7. stats' \in [Peers -> StatsType]
  BY <1>2, <1>4
<1>8. Books'
  BY <1>5, <1>6 DEF Books
<1>9. ASSUME NEW r \in Peers, stats'[r].qualified > stats[r].qualified
      PROVE  r = p /\ PeerAlone(p, seen)
  <2>1. r = p
    BY <1>6, <1>9 DEF StatsType
  <2>2. q
    BY <1>5, <1>6, <1>9, <2>1 DEF s
  <2> QED BY <1>1, <2>1, <2>2 DEF MayBeClean
<1> QED BY <1>7, <1>8, <1>9

\* A failure, or time.
LEMMA AgingKeeps ==
  ASSUME stats \in [Peers -> StatsType], Books, NEW p \in Peers,
         recordFailure(p) \/ SampleAges(p) \/ QualifiedAges(p) \/ CooldownEnds(p) \/ RetryEnds(p)
  PROVE  /\ stats' \in [Peers -> StatsType] /\ Books'
         /\ \A r \in Peers : stats'[r].qualified = stats[r].qualified
<1>1. CASE recordFailure(p) \/ CooldownEnds(p)
  <2>1. PICK b \in BOOLEAN : stats' = [stats EXCEPT ![p].cooling = b]
    BY <1>1 DEF recordFailure, CooldownEnds
  <2> QED BY <2>1 DEF StatsType, Books
<1>2. CASE RetryEnds(p)
  BY <1>2 DEF RetryEnds, StatsType, Books
<1>3. CASE SampleAges(p)
  BY <1>3 DEF SampleAges, StatsType, Books, minCleanSamplesForFresh
<1>4. CASE QualifiedAges(p)
  BY <1>4 DEF QualifiedAges, StatsType, Books
<1> QED BY <1>1, <1>2, <1>3, <1>4

-----------------------------------------------------------------------------
(* Counting callers.                                                       *)

One(b) == IF b THEN 1 ELSE 0

LEMMA OneCaller ==
  ASSUME NEW S \in SUBSET Callers, NEW T \in SUBSET Callers, NEW c \in Callers,
         \A d \in Callers \ {c} : d \in S <=> d \in T
  PROVE  /\ Cardinality(S) \in Nat /\ Cardinality(T) \in Nat
         /\ Cardinality(T) - One(c \in T) = Cardinality(S) - One(c \in S)
         /\ c \in S => Cardinality(S) >= 1
<1>1. IsFiniteSet(S) /\ IsFiniteSet(T) /\ IsFiniteSet(S \ {c})
  BY FS_Subset
<1>2. S \ {c} = T \ {c}
  OBVIOUS
<1>3. Cardinality(S) \in Nat /\ Cardinality(T) \in Nat /\ Cardinality(S \ {c}) \in Nat
  BY <1>1, FS_CardinalityType
<1>4. /\ Cardinality(S \ {c}) = IF c \in S THEN Cardinality(S) - 1 ELSE Cardinality(S)
      /\ Cardinality(T \ {c}) = IF c \in T THEN Cardinality(T) - 1 ELSE Cardinality(T)
  BY <1>1, FS_RemoveElement
<1> QED BY <1>2, <1>3, <1>4 DEF One

\* The requests of p, when only caller c and the others moved.
LEMMA RequestsMove ==
  ASSUME IInv, NEW c \in Callers,
         \A d \in Callers \ {c} : pc'[d] = pc[d] /\ peer'[d] = peer[d] /\ racers'[d] = racers[d],
         inflight' \in [Peers -> Int], others' \in [Peers -> Nat],
         \A p \in Peers : inflight'[p] - others'[p] - One(Marked(c, p)')
                          = inflight[p] - others[p] - One(Marked(c, p))
  PROVE  RequestsCounted' /\ inflight' \in [Peers -> Nat]
<1> SUFFICES ASSUME NEW p \in Peers PROVE inflight'[p] = Requests(p)' /\ inflight'[p] \in Nat
  BY DEF RequestsCounted
<1> DEFINE S == {d \in Callers : Marked(d, p)}
           T == {d \in Callers : Marked(d, p)'}
<1>1. \A d \in Callers \ {c} : d \in S <=> d \in T
  BY DEF Marked
<1>2. (c \in S <=> Marked(c, p)) /\ (c \in T <=> Marked(c, p)')
  OBVIOUS
<1>3. inflight[p] = Cardinality(S) + others[p] /\ Requests(p)' = Cardinality(T) + others'[p]
  BY DEF IInv, RequestsCounted, Requests
<1> HIDE DEF S, T
<1>4. /\ Cardinality(S) \in Nat /\ Cardinality(T) \in Nat
      /\ Cardinality(T) - One(c \in T) = Cardinality(S) - One(c \in S)
  <2>1. S \in SUBSET Callers /\ T \in SUBSET Callers
    BY DEF S, T
  <2> QED BY <1>1, <2>1, OneCaller
<1>5. One(Marked(c, p)) = One(c \in S) /\ One(Marked(c, p)') = One(c \in T)
  BY <1>2 DEF One
<1>6. One(c \in S) \in Int /\ One(c \in T) \in Int /\ others[p] \in Nat /\ others'[p] \in Nat
      /\ inflight'[p] \in Int
  BY DEF One, IInv, TypeOK
<1> QED BY <1>3, <1>4, <1>5, <1>6

LEMMA MarkedCounts ==
  ASSUME IInv, NEW c \in Callers, NEW p \in Peers, Marked(c, p)
  PROVE  inflight[p] >= 1 /\ (inflight[p] <= 1 => Requests(p) = 1)
<1> DEFINE S == {d \in Callers : Marked(d, p)}
<1>1. Cardinality(S) \in Nat /\ Cardinality(S) >= 1
  <2>1. S \in SUBSET Callers /\ c \in S
    OBVIOUS
  <2> HIDE DEF S
  <2> QED BY <2>1, OneCaller
<1>2. inflight[p] = Requests(p) /\ Requests(p) = Cardinality(S) + others[p] /\ others[p] \in Nat
  BY DEF IInv, RequestsCounted, Requests, TypeOK
<1> QED BY <1>1, <1>2

\* The discoveries of p, when only caller c moved.
LEMMA DiscoveriesMove ==
  ASSUME IInv, NEW c \in Callers,
         \A d \in Callers \ {c} : held'[d] = held[d],
         discInflight' \in [Peers -> Int],
         \A p \in Peers : discInflight'[p] - One(held'[c] = p) = discInflight[p] - One(held[c] = p)
  PROVE  DiscoveriesCounted' /\ discInflight' \in [Peers -> Nat]
<1> SUFFICES ASSUME NEW p \in Peers
             PROVE  /\ discInflight'[p] = Cardinality({d \in Callers : held'[d] = p})
                    /\ discInflight'[p] \in Nat
  BY DEF DiscoveriesCounted
<1> DEFINE S == {d \in Callers : held[d] = p}
           T == {d \in Callers : held'[d] = p}
<1>1. \A d \in Callers \ {c} : d \in S <=> d \in T
  OBVIOUS
<1>2. (c \in S <=> held[c] = p) /\ (c \in T <=> held'[c] = p)
  OBVIOUS
<1>3. discInflight[p] = Cardinality(S)
  BY DEF IInv, DiscoveriesCounted
<1>4. S \in SUBSET Callers /\ T \in SUBSET Callers
  OBVIOUS
<1> HIDE DEF S, T
<1>5. /\ Cardinality(S) \in Nat /\ Cardinality(T) \in Nat
      /\ Cardinality(T) - One(c \in T) = Cardinality(S) - One(c \in S)
  BY <1>1, <1>4, OneCaller
<1>6. One(held[c] = p) = One(c \in S) /\ One(held'[c] = p) = One(c \in T)
  BY <1>2 DEF One
<1>7. One(c \in S) \in Int /\ One(c \in T) \in Int /\ discInflight'[p] \in Int
  BY DEF One
<1>8. discInflight'[p] = Cardinality(T)
  BY <1>3, <1>5, <1>6, <1>7
<1> QED BY <1>5, <1>8 DEF T

-----------------------------------------------------------------------------
(* Each action.                                                            *)

Kept ==
  /\ IInv'
  /\ \A p \in Peers : stats'[p].qualified > stats[p].qualified => Requests(p) = 1

Unmarked == {"idle", "defer", "race", "discover", "claim", "single", "snapshot", "mark", "release"}

\* Steps of c between requests.
LEMMA PathKeeps ==
  ASSUME IInv, NEW c \in Callers,
         Fetch(c) \/ DeferEnds(c) \/ SelectDiscovery(c) \/ ClaimDiscovery(c) \/ SelectSingle(c)
           \/ Snapshot(c) \/ ReleaseDiscovery(c)
  PROVE  Kept
<1> USE DEF IInv
<1>1. UNCHANGED <<stats, inflight, racers, others>> /\ pc[c] \in Unmarked
  BY DEF Fetch, DeferEnds, SelectDiscovery, ClaimDiscovery, SelectSingle, Snapshot,
         ReleaseDiscovery, selectorVars, Unmarked
<1>2. \E l \in Unmarked : pc' = [pc EXCEPT ![c] = l]
  BY DEF Fetch, DeferEnds, SelectDiscovery, ClaimDiscovery, SelectSingle, Snapshot,
         ReleaseDiscovery, Route, Goto, Unmarked
<1>3. \/ UNCHANGED peer
      \/ \E p \in Peers : peer' = [peer EXCEPT ![c] = p]
  <2>1. CASE Fetch(c) \/ DeferEnds(c) \/ ClaimDiscovery(c) \/ Snapshot(c) \/ ReleaseDiscovery(c)
    BY <2>1 DEF Fetch, DeferEnds, ClaimDiscovery, Snapshot, ReleaseDiscovery
  <2>2. CASE SelectDiscovery(c)
    <3>1. \A x \in discoveryChoices : x[1] \in Peers
      BY DEF discoveryChoices
    <3> QED BY <2>2, <3>1 DEF SelectDiscovery
  <2>3. CASE SelectSingle(c)
    <3>1. \A u \in BOOLEAN : selectPeerWithInfo(u) \subseteq Peers
      BY DEF selectPeerWithInfo, measuredPeers, usableMeasuredPeers
    <3> QED BY <2>3, <3>1 DEF SelectSingle
  <2> QED BY <2>1, <2>2, <2>3
<1>4. preferReprobe' \in BOOLEAN
  BY DEF Fetch, DeferEnds, SelectDiscovery, ClaimDiscovery, SelectSingle, Snapshot,
         ReleaseDiscovery, selectorVars, TypeOK
<1>5. method' \in [Callers -> {"single", "discovery_single"}]
      /\ start' \in [Callers -> {"alone", "clientBusy", "peerBusy"}]
  <2>1. Sees(peer[c]) \subseteq {"alone", "clientBusy", "peerBusy"}
    BY DEF Sees
  <2>2. UNCHANGED start \/ \E seen \in Sees(peer[c]) : start' = [start EXCEPT ![c] = seen]
    BY DEF Fetch, DeferEnds, SelectDiscovery, ClaimDiscovery, SelectSingle, Snapshot,
           ReleaseDiscovery
  <2>3. method' \in [Callers -> {"single", "discovery_single"}]
    BY DEF Fetch, DeferEnds, SelectDiscovery, ClaimDiscovery, SelectSingle, Snapshot,
           ReleaseDiscovery, TypeOK
  <2> QED BY <2>1, <2>2, <2>3 DEF TypeOK
<1>6. /\ pc' \in [Callers -> Labels] /\ peer' \in [Callers -> Peers \cup {NoPeer}]
      /\ \A d \in Callers \ {c} : pc'[d] = pc[d] /\ peer'[d] = peer[d]
      /\ pc'[c] \in Unmarked
      /\ peer[c] \in Peers => peer'[c] \in Peers
  BY <1>2, <1>3 DEF TypeOK, Unmarked, Labels
<1>7. RequestsCounted'
  <2>1. \A p \in Peers : ~Marked(c, p) /\ ~Marked(c, p)'
    BY <1>1, <1>6 DEF Marked, Unmarked, Placed
  <2>2. \A p \in Peers : One(Marked(c, p)') = 0 /\ One(Marked(c, p)) = 0
    BY <2>1 DEF One
  <2> QED BY <1>1, <1>6, <2>2, RequestsMove DEF TypeOK
<1>8. /\ discInflight' \in [Peers -> Nat] /\ DiscoveriesCounted'
      /\ held' \in [Callers -> Peers \cup {NoPeer}]
      /\ \A d \in Callers \ {c} : held'[d] = held[d]
      /\ pc'[c] \in {"idle", "defer", "race", "racing", "discover", "claim"} => held'[c] = NoPeer
      /\ pc'[c] = "release" => held'[c] # NoPeer
  <2>1. CASE ClaimDiscovery(c)
    <3>1. peer[c] \in Peers /\ held[c] = NoPeer /\ pc'[c] = "snapshot"
      BY <2>1 DEF ClaimDiscovery, Placed, TypeOK, Goto
    <3>2. /\ discInflight' = [discInflight EXCEPT ![peer[c]] = discInflight[peer[c]] + 1]
          /\ held' = [held EXCEPT ![c] = peer[c]]
      BY <2>1 DEF ClaimDiscovery
    <3>3. /\ held' \in [Callers -> Peers \cup {NoPeer}] /\ held'[c] = peer[c]
          /\ \A d \in Callers \ {c} : held'[d] = held[d]
      BY <3>1, <3>2 DEF TypeOK
    <3>4. discInflight' \in [Peers -> Int]
      BY <3>1, <3>2 DEF TypeOK
    <3>5. \A p \in Peers : discInflight'[p] - One(held'[c] = p) = discInflight[p] - One(held[c] = p)
      BY <3>1, <3>2, <3>3 DEF TypeOK, One
    <3> QED BY <3>1, <3>3, <3>4, <3>5, DiscoveriesMove
  <2>2. CASE ReleaseDiscovery(c)
    <3>1. held[c] \in Peers /\ pc'[c] = "idle"
      BY <2>2 DEF ReleaseDiscovery, Placed, TypeOK, Goto
    <3>2. /\ discInflight' = [discInflight EXCEPT ![held[c]] = discInflight[held[c]] - 1]
          /\ held' = [held EXCEPT ![c] = NoPeer]
      BY <2>2 DEF ReleaseDiscovery
    <3>3. /\ held' \in [Callers -> Peers \cup {NoPeer}] /\ held'[c] = NoPeer
          /\ \A d \in Callers \ {c} : held'[d] = held[d]
      BY <3>2 DEF TypeOK
    <3>4. discInflight' \in [Peers -> Int]
      BY <3>1, <3>2 DEF TypeOK
    <3>5. \A p \in Peers : discInflight'[p] - One(held'[c] = p) = discInflight[p] - One(held[c] = p)
      BY <3>1, <3>2, <3>3 DEF TypeOK, One
    <3> QED BY <3>1, <3>3, <3>4, <3>5, DiscoveriesMove
  <2>3. CASE Fetch(c) \/ DeferEnds(c) \/ SelectDiscovery(c) \/ SelectSingle(c) \/ Snapshot(c)
    <3>1. UNCHANGED <<held, discInflight>>
      BY <2>3 DEF Fetch, DeferEnds, SelectDiscovery, SelectSingle, Snapshot, selectorVars
    <3>2. pc[c] \in {"idle", "defer", "discover"} \/ pc'[c] \in {"snapshot", "mark"}
      BY <2>3 DEF Fetch, DeferEnds, SelectDiscovery, SelectSingle, Snapshot, Goto, TypeOK
    <3>3. pc'[c] # "release"
      BY <2>3 DEF Fetch, DeferEnds, SelectDiscovery, SelectSingle, Snapshot, Goto, Route, TypeOK
    <3> QED BY <3>1, <3>2, <3>3 DEF TypeOK, DiscoveriesCounted, Placed
  <2> QED BY <2>1, <2>2, <2>3
<1>9. pc'[c] \in {"claim", "snapshot", "mark", "transfer", "succeeded", "failed"} => peer'[c] \in Peers
  <2>1. CASE ClaimDiscovery(c) \/ Snapshot(c)
    <3>1. pc[c] \in {"claim", "snapshot"}
      BY <2>1 DEF ClaimDiscovery, Snapshot
    <3> QED BY <1>6, <3>1 DEF Placed
  <2>2. CASE SelectSingle(c)
    <3>1. \A u \in BOOLEAN : selectPeerWithInfo(u) \subseteq Peers
      BY DEF selectPeerWithInfo, measuredPeers, usableMeasuredPeers
    <3> QED BY <2>2, <3>1 DEF SelectSingle, TypeOK
  <2>3. CASE SelectDiscovery(c)
    <3>1. \A x \in discoveryChoices : x[1] \in Peers
      BY DEF discoveryChoices
    <3>2. \/ pc'[c] = "single"
          \/ \E x \in discoveryChoices : peer' = [peer EXCEPT ![c] = x[1]]
      BY <2>3 DEF SelectDiscovery, Goto, TypeOK
    <3> QED BY <3>1, <3>2 DEF TypeOK
  <2>4. CASE Fetch(c) \/ DeferEnds(c) \/ ReleaseDiscovery(c)
    BY <2>4 DEF Fetch, DeferEnds, ReleaseDiscovery, Route, Goto, TypeOK
  <2> QED BY <2>1, <2>2, <2>3, <2>4
<1>10. TypeOK' /\ Books' /\ Placed'
  <2>1. Placed'
    BY <1>1, <1>6, <1>8, <1>9 DEF Placed, Unmarked
  <2> QED BY <1>1, <1>4, <1>5, <1>6, <1>8, <2>1 DEF TypeOK, Books
<1>11. \A p \in Peers : ~(stats'[p].qualified > stats[p].qualified)
  BY <1>1 DEF TypeOK
<1> QED BY <1>7, <1>8, <1>10, <1>11 DEF Kept

\* What the rest of the steps leave alone.
LEMMA DiscoveriesStay ==
  ASSUME IInv, UNCHANGED <<discInflight, held>>
  PROVE  /\ DiscoveriesCounted' /\ discInflight' \in [Peers -> Nat]
         /\ held' \in [Callers -> Peers \cup {NoPeer}]
BY DEF IInv, TypeOK, DiscoveriesCounted

LEMMA SamplesStay ==
  ASSUME IInv, UNCHANGED stats
  PROVE  \A p \in Peers : stats'[p].qualified > stats[p].qualified => Requests(p) = 1
BY DEF IInv, TypeOK

LEMMA MarkKeeps ==
  ASSUME IInv, NEW c \in Callers, Mark(c)
  PROVE  Kept
<1> USE DEF IInv
<1>1. /\ UNCHANGED <<stats, discInflight, preferReprobe, peer, held, method, start, racers, others>>
      /\ pc[c] = "mark" /\ pc' = [pc EXCEPT ![c] = "transfer"]
      /\ inflight' = [inflight EXCEPT ![peer[c]] = inflight[peer[c]] + 1]
  BY DEF Mark, MarkInflight, Goto
<1>2. peer[c] \in Peers /\ racers[c] = {}
  BY <1>1 DEF Placed
<1>3. /\ pc' \in [Callers -> Labels] /\ pc'[c] = "transfer"
      /\ \A d \in Callers \ {c} : pc'[d] = pc[d]
  BY <1>1 DEF TypeOK, Labels
<1>4. \A p \in Peers : ~Marked(c, p) /\ (Marked(c, p)' <=> p = peer[c])
  BY <1>1, <1>2, <1>3 DEF Marked
<1>5. inflight' \in [Peers -> Int]
  BY <1>1, <1>2 DEF TypeOK
<1>6. RequestsCounted' /\ inflight' \in [Peers -> Nat]
  <2>1. \A p \in Peers : inflight'[p] - others'[p] - One(Marked(c, p)')
                         = inflight[p] - others[p] - One(Marked(c, p))
    BY <1>1, <1>2, <1>4 DEF One, TypeOK
  <2> QED BY <1>1, <1>3, <1>5, <2>1, RequestsMove DEF TypeOK
<1>7. Placed'
  BY <1>1, <1>2, <1>3 DEF Placed
<1>8. TypeOK' /\ Books'
  BY <1>1, <1>3, <1>6, DiscoveriesStay DEF TypeOK, Books
<1> QED BY <1>1, <1>6, <1>7, <1>8, DiscoveriesStay, SamplesStay DEF Kept

LEMMA TransferKeeps ==
  ASSUME IInv, NEW c \in Callers, TransferSucceeds(c) \/ TransferFails(c)
  PROVE  Kept
<1> USE DEF IInv
<1>1. /\ UNCHANGED <<inflight, discInflight, preferReprobe, peer, held, method, start, racers, others>>
      /\ pc[c] = "transfer"
      /\ \E l \in {"succeeded", "failed"} : pc' = [pc EXCEPT ![c] = l]
  BY DEF TransferSucceeds, TransferFails, Goto
<1>2. peer[c] \in Peers /\ racers[c] = {} /\ stats \in [Peers -> StatsType]
  BY <1>1 DEF Placed, TypeOK, StatsType
<1>3. /\ pc' \in [Callers -> Labels] /\ pc'[c] \in {"succeeded", "failed"}
      /\ \A d \in Callers \ {c} : pc'[d] = pc[d]
  BY <1>1 DEF TypeOK, Labels
<1>4. /\ stats' \in [Peers -> StatsType] /\ Books'
      /\ \A p \in Peers : stats'[p].qualified > stats[p].qualified => p = peer[c] /\ inflight[p] <= 1
  <2>1. CASE recordSample(peer[c], method[c], start[c])
    BY <1>2, <2>1, recordSampleKeeps DEF PeerAlone
  <2>2. CASE recordFailure(peer[c])
    BY <1>2, <2>2, AgingKeeps DEF StatsType
  <2>3. CASE UNCHANGED stats
    BY <1>2, <2>3 DEF Books, StatsType
  <2> QED BY <2>1, <2>2, <2>3 DEF TransferSucceeds, TransferFails, recordIgnoredSample
<1>5. Marked(c, peer[c])
  BY <1>1 DEF Marked
<1>6. \A p \in Peers : stats'[p].qualified > stats[p].qualified => Requests(p) = 1
  BY <1>2, <1>4, <1>5, MarkedCounts
<1>7. RequestsCounted'
  <2>1. \A p \in Peers : Marked(c, p)' <=> Marked(c, p)
    BY <1>1, <1>3 DEF Marked
  <2>2. \A p \in Peers : One(Marked(c, p)') = One(Marked(c, p))
    BY <2>1 DEF One
  <2> QED BY <1>1, <1>3, <2>2, RequestsMove DEF TypeOK
<1>8. Placed'
  BY <1>1, <1>2, <1>3 DEF Placed
<1> QED BY <1>1, <1>3, <1>4, <1>6, <1>7, <1>8, DiscoveriesStay DEF Kept, TypeOK, StatsType

LEMMA ReturnKeeps ==
  ASSUME IInv, NEW c \in Callers, TransferReturns(c)
  PROVE  Kept
<1> USE DEF IInv
<1>1. /\ UNCHANGED <<stats, discInflight, preferReprobe, held, racers, others>>
      /\ pc[c] \in {"succeeded", "failed"} /\ pc' = [pc EXCEPT ![c] = After(c)]
      /\ inflight' = [inflight EXCEPT ![peer[c]] = inflight[peer[c]] - 1]
      /\ start' = [start EXCEPT ![c] = "alone"] /\ peer' = [peer EXCEPT ![c] = NoPeer]
      /\ method' = [method EXCEPT ![c] = "single"]
  BY DEF TransferReturns, MarkInflight, Goto
<1>2. peer[c] \in Peers /\ racers[c] = {}
  BY <1>1 DEF Placed
<1>3. /\ pc' \in [Callers -> Labels] /\ peer' \in [Callers -> Peers \cup {NoPeer}]
      /\ \A d \in Callers \ {c} : pc'[d] = pc[d] /\ peer'[d] = peer[d]
      /\ pc'[c] \in {"single", "release", "idle"}
      /\ pc'[c] = "release" => held[c] # NoPeer
      /\ pc'[c] = "idle" => held[c] = NoPeer
  BY <1>1 DEF TypeOK, Labels, After
<1>4. \A p \in Peers : ~Marked(c, p)' /\ (Marked(c, p) <=> p = peer[c])
  BY <1>1, <1>2, <1>3 DEF Marked
<1>5. inflight' \in [Peers -> Int]
  BY <1>1, <1>2 DEF TypeOK
<1>6. RequestsCounted' /\ inflight' \in [Peers -> Nat]
  <2>1. ASSUME NEW p \in Peers
        PROVE  inflight'[p] - others'[p] - One(Marked(c, p)')
               = inflight[p] - others[p] - One(Marked(c, p))
    <3>1. inflight'[p] = inflight[p] - One(p = peer[c])
      BY <1>1, <1>2 DEF One, TypeOK
    <3>2. One(Marked(c, p)') = 0 /\ One(Marked(c, p)) = One(p = peer[c])
      BY <1>4 DEF One
    <3>3. One(p = peer[c]) \in Int /\ inflight[p] \in Int /\ others[p] \in Int /\ others'[p] = others[p]
      BY <1>1 DEF One, TypeOK
    <3> QED BY <3>1, <3>2, <3>3
  <2> QED BY <1>1, <1>3, <1>5, <2>1, RequestsMove DEF TypeOK
<1>7. Placed'
  BY <1>1, <1>2, <1>3 DEF Placed
<1>8. /\ method' \in [Callers -> {"single", "discovery_single"}]
      /\ start' \in [Callers -> {"alone", "clientBusy", "peerBusy"}]
  BY <1>1 DEF TypeOK
<1>9. TypeOK' /\ Books'
  BY <1>1, <1>3, <1>6, <1>8, DiscoveriesStay DEF TypeOK, Books
<1> QED BY <1>1, <1>6, <1>7, <1>9, DiscoveriesStay, SamplesStay DEF Kept

LEMMA LaunchKeeps ==
  ASSUME IInv, NEW c \in Callers, LaunchRace(c)
  PROVE  Kept
<1> USE DEF IInv
<1>1. /\ UNCHANGED <<stats, discInflight, preferReprobe, peer, held, method, start, others>>
      /\ pc[c] = "race"
  BY DEF LaunchRace
<1> DEFINE Launched(R) ==
        /\ pc' = [pc EXCEPT ![c] = IF R = {} THEN "single" ELSE "racing"]
        /\ racers' = [racers EXCEPT ![c] = R]
        /\ inflight' = [p \in Peers |-> IF p \in R THEN inflight[p] + 1 ELSE inflight[p]]
<1>2. PICK R \in SUBSET Peers : Launched(R)
  <2>1. CASE Goto(c, "single") /\ UNCHANGED <<inflight, racers>>
    <3>1. racers[c] = {}
      BY <1>1 DEF Placed
    <3>2. racers' = [racers EXCEPT ![c] = {}]
      BY <2>1, <3>1 DEF TypeOK
    <3>3. inflight' = [p \in Peers |-> IF p \in {} THEN inflight[p] + 1 ELSE inflight[p]]
      BY <2>1 DEF TypeOK
    <3>4. Launched({})
      BY <2>1, <3>2, <3>3 DEF Goto
    <3> HIDE DEF Launched
    <3> QED BY <3>4
  <2>2. CASE \E Q \in SUBSET Peers : Launched({p \in Q : ~stats[p].cooling})
    <3>1. PICK Q \in SUBSET Peers : Launched({p \in Q : ~stats[p].cooling})
      BY <2>2
    <3>2. {p \in Q : ~stats[p].cooling} \in SUBSET Peers
      OBVIOUS
    <3> HIDE DEF Launched
    <3> QED BY <3>1, <3>2
  <2> QED BY <2>1, <2>2 DEF LaunchRace, Goto
<1>3. /\ pc' \in [Callers -> Labels] /\ racers' \in [Callers -> SUBSET Peers]
      /\ \A d \in Callers \ {c} : pc'[d] = pc[d] /\ racers'[d] = racers[d]
      /\ racers'[c] = R /\ pc'[c] = IF R = {} THEN "single" ELSE "racing"
  BY <1>2 DEF TypeOK, Labels
<1>4. \A p \in Peers : ~Marked(c, p) /\ (Marked(c, p)' <=> p \in R)
  BY <1>1, <1>3 DEF Marked, Placed
<1>5. RequestsCounted' /\ inflight' \in [Peers -> Nat]
  <2>1. \A p \in Peers : inflight'[p] - others'[p] - One(Marked(c, p)')
                         = inflight[p] - others[p] - One(Marked(c, p))
    BY <1>1, <1>2, <1>4 DEF One, TypeOK
  <2>2. inflight' \in [Peers -> Int]
    BY <1>2 DEF TypeOK
  <2> QED BY <1>1, <1>3, <2>1, <2>2, RequestsMove DEF TypeOK
<1>6. Placed'
  BY <1>1, <1>3 DEF Placed
<1>7. TypeOK' /\ Books'
  BY <1>1, <1>3, <1>5, DiscoveriesStay DEF TypeOK, Books
<1> QED BY <1>1, <1>5, <1>6, <1>7, DiscoveriesStay, SamplesStay DEF Kept

LEMMA RacerWinsKeeps ==
  ASSUME IInv, NEW c \in Callers, NEW p \in Peers, RacerWins(c, p)
  PROVE  Kept
<1> USE DEF IInv
<1>1. /\ UNCHANGED <<discInflight, preferReprobe, peer, held, method, start>>
      /\ p \in racers[c] /\ pc' = [pc EXCEPT ![c] = "idle"]
      /\ racers' = [racers EXCEPT ![c] = {}]
      /\ inflight' = [inflight EXCEPT ![p] = inflight[p] - 1]
      /\ others' = [r \in Peers |-> IF r \in racers[c] \ {p} THEN others[r] + 1 ELSE others[r]]
  BY DEF RacerWins, MarkInflight, Goto
<1>2. pc[c] = "racing" /\ stats \in [Peers -> StatsType]
  BY <1>1 DEF Placed, TypeOK, StatsType
<1>3. /\ pc' \in [Callers -> Labels] /\ racers' \in [Callers -> SUBSET Peers]
      /\ \A d \in Callers \ {c} : pc'[d] = pc[d] /\ racers'[d] = racers[d]
      /\ racers'[c] = {} /\ pc'[c] = "idle"
  BY <1>1 DEF TypeOK, Labels
<1>4. others' \in [Peers -> Nat] /\ inflight' \in [Peers -> Int]
  BY <1>1 DEF TypeOK
<1>5. \A r \in Peers : ~Marked(c, r)' /\ (Marked(c, r) <=> r \in racers[c])
  BY <1>2, <1>3 DEF Marked
<1>6. RequestsCounted' /\ inflight' \in [Peers -> Nat]
  <2>1. ASSUME NEW r \in Peers
        PROVE  inflight'[r] - others'[r] - One(Marked(c, r)')
               = inflight[r] - others[r] - One(Marked(c, r))
    <3>1. inflight[r] \in Int /\ others[r] \in Int
      BY DEF TypeOK
    <3>2. One(Marked(c, r)') = 0 /\ One(Marked(c, r)) = One(r \in racers[c])
      BY <1>5 DEF One
    <3>3. CASE r = p
      <4>1. inflight'[r] = inflight[r] - 1 /\ others'[r] = others[r] /\ One(r \in racers[c]) = 1
        BY <1>1, <3>3 DEF TypeOK, One
      <4> QED BY <3>1, <3>2, <4>1
    <3>4. CASE r # p
      <4>1. inflight'[r] = inflight[r] /\ others'[r] = others[r] + One(r \in racers[c])
        BY <1>1, <3>1, <3>4 DEF TypeOK, One
      <4>2. One(r \in racers[c]) \in Int
        BY DEF One
      <4> QED BY <3>1, <3>2, <4>1, <4>2
    <3> QED BY <3>3, <3>4
  <2> QED BY <1>1, <1>3, <1>4, <2>1, RequestsMove
<1>7. Placed'
  BY <1>1, <1>2, <1>3 DEF Placed
<1>8. /\ stats' \in [Peers -> StatsType] /\ Books'
      /\ \A r \in Peers : stats'[r].qualified > stats[r].qualified => r = p /\ inflight[r] <= 1
  <2>1. CASE recordSample(p, "race", "alone")
    BY <1>2, <2>1, recordSampleKeeps DEF PeerAlone
  <2>2. CASE UNCHANGED stats
    BY <1>2, <2>2 DEF Books, StatsType
  <2> QED BY <2>1, <2>2 DEF RacerWins, recordIgnoredSample
<1>9. \A r \in Peers : stats'[r].qualified > stats[r].qualified => Requests(r) = 1
  <2>1. Marked(c, p)
    BY <1>1, <1>5
  <2> QED BY <1>8, <2>1, MarkedCounts
<1>10. TypeOK'
  BY <1>1, <1>3, <1>4, <1>6, <1>8, DiscoveriesStay DEF TypeOK, StatsType
<1> QED BY <1>1, <1>6, <1>7, <1>8, <1>9, <1>10, DiscoveriesStay DEF Kept

LEMMA RacerFailsKeeps ==
  ASSUME IInv, NEW c \in Callers, NEW p \in Peers, RacerFails(c, p)
  PROVE  Kept
<1> USE DEF IInv
<1>1. /\ UNCHANGED <<discInflight, preferReprobe, peer, held, method, start, others>>
      /\ p \in racers[c] /\ racers' = [racers EXCEPT ![c] = racers[c] \ {p}]
      /\ inflight' = [inflight EXCEPT ![p] = inflight[p] - 1]
      /\ IF racers[c] = {p} THEN pc' = [pc EXCEPT ![c] = "idle"] ELSE UNCHANGED pc
  BY DEF RacerFails, MarkInflight, Goto
<1>2. pc[c] = "racing" /\ stats \in [Peers -> StatsType]
  BY <1>1 DEF Placed, TypeOK, StatsType
<1>3. /\ pc' \in [Callers -> Labels] /\ racers' \in [Callers -> SUBSET Peers]
      /\ \A d \in Callers \ {c} : pc'[d] = pc[d] /\ racers'[d] = racers[d]
      /\ racers'[c] = racers[c] \ {p}
      /\ pc'[c] = IF racers[c] = {p} THEN "idle" ELSE "racing"
  BY <1>1, <1>2 DEF TypeOK, Labels
<1>4. inflight' \in [Peers -> Int]
  BY <1>1 DEF TypeOK
<1>5. \A r \in Peers : /\ Marked(c, r) <=> r \in racers[c]
                       /\ Marked(c, r)' <=> r \in racers[c] /\ r # p
  BY <1>2, <1>3 DEF Marked
<1>6. RequestsCounted' /\ inflight' \in [Peers -> Nat]
  <2>1. ASSUME NEW r \in Peers
        PROVE  inflight'[r] - others'[r] - One(Marked(c, r)')
               = inflight[r] - others[r] - One(Marked(c, r))
    <3>1. inflight[r] \in Int /\ others[r] \in Int /\ others'[r] = others[r]
      BY <1>1 DEF TypeOK
    <3>2. CASE r = p
      <4>1. inflight'[r] = inflight[r] - 1 /\ One(Marked(c, r)') = 0 /\ One(Marked(c, r)) = 1
        BY <1>1, <1>5, <3>2 DEF TypeOK, One
      <4> QED BY <3>1, <4>1
    <3>3. CASE r # p
      <4>1. inflight'[r] = inflight[r] /\ One(Marked(c, r)') = One(Marked(c, r))
        BY <1>1, <1>5, <3>3 DEF TypeOK, One
      <4> QED BY <3>1, <4>1
    <3> QED BY <3>2, <3>3
  <2> QED BY <1>1, <1>3, <1>4, <2>1, RequestsMove DEF TypeOK
<1>7. Placed'
  BY <1>1, <1>2, <1>3 DEF Placed
<1>8. /\ stats' \in [Peers -> StatsType] /\ Books'
      /\ \A r \in Peers : stats'[r].qualified = stats[r].qualified
  <2>1. CASE recordFailure(p)
    BY <1>2, <2>1, AgingKeeps
  <2>2. CASE UNCHANGED stats
    BY <1>2, <2>2 DEF Books
  <2> QED BY <2>1, <2>2 DEF RacerFails
<1>9. TypeOK'
  BY <1>1, <1>3, <1>6, <1>8, DiscoveriesStay DEF TypeOK, StatsType
<1>10. \A r \in Peers : ~(stats'[r].qualified > stats[r].qualified)
  BY <1>2, <1>8 DEF StatsType
<1> QED BY <1>1, <1>6, <1>7, <1>8, <1>9, <1>10, DiscoveriesStay DEF Kept

\* Steps of no caller: rescues, late losers and time.
LEMMA OthersMove ==
  ASSUME IInv, UNCHANGED callerVars,
         inflight' \in [Peers -> Int], others' \in [Peers -> Nat],
         \A p \in Peers : inflight'[p] - others'[p] = inflight[p] - others[p]
  PROVE  RequestsCounted' /\ inflight' \in [Peers -> Nat]
<1> SUFFICES ASSUME NEW p \in Peers PROVE inflight'[p] = Requests(p)' /\ inflight'[p] \in Nat
  BY DEF RequestsCounted
<1> DEFINE n == Cardinality({c \in Callers : Marked(c, p)})
<1>1. n \in Nat
  <2>1. IsFiniteSet({c \in Callers : Marked(c, p)})
    BY FS_Subset
  <2> QED BY <2>1, FS_CardinalityType
<1>2. inflight[p] = n + others[p] /\ Requests(p)' = n + others'[p]
  BY DEF IInv, RequestsCounted, Requests, Marked, callerVars
<1> HIDE DEF n
<1>3. others[p] \in Nat /\ others'[p] \in Nat /\ inflight'[p] \in Int
  BY DEF IInv, TypeOK
<1> QED BY <1>1, <1>2, <1>3

LEMMA OthersKeep ==
  ASSUME IInv, NEW p \in Peers, RescueBegins(p) \/ OtherReturns(p) \/ Time(p)
  PROVE  Kept
<1> USE DEF IInv
<1>1. UNCHANGED <<discInflight, preferReprobe, callerVars>>
  BY DEF RescueBegins, OtherReturns, Time
<1>2. Placed'
  BY <1>1 DEF Placed, callerVars
<1>3. stats \in [Peers -> StatsType]
  BY DEF TypeOK, StatsType
<1>4. /\ inflight' \in [Peers -> Int] /\ others' \in [Peers -> Nat]
      /\ \A r \in Peers : inflight'[r] - others'[r] = inflight[r] - others[r]
  <2>1. CASE RescueBegins(p)
    <3>1. inflight' = [inflight EXCEPT ![p] = inflight[p] + 1] /\ others' = [others EXCEPT ![p] = others[p] + 1]
      BY <2>1 DEF RescueBegins, MarkInflight
    <3>2. inflight' \in [Peers -> Int] /\ others' \in [Peers -> Nat]
      BY <3>1 DEF TypeOK
    <3>3. ASSUME NEW r \in Peers PROVE inflight'[r] - others'[r] = inflight[r] - others[r]
      <4>1. inflight[r] \in Nat /\ others[r] \in Nat
        BY DEF TypeOK
      <4>2. IF r = p THEN inflight'[r] = inflight[r] + 1 /\ others'[r] = others[r] + 1
                     ELSE inflight'[r] = inflight[r] /\ others'[r] = others[r]
        BY <3>1 DEF TypeOK
      <4> QED BY <4>1, <4>2
    <3> QED BY <3>2, <3>3
  <2>2. CASE OtherReturns(p)
    <3>1. /\ inflight' = [inflight EXCEPT ![p] = inflight[p] - 1]
          /\ others' = [others EXCEPT ![p] = others[p] - 1] /\ others[p] > 0
      BY <2>2 DEF OtherReturns, MarkInflight
    <3>2. inflight' \in [Peers -> Int] /\ others' \in [Peers -> Nat]
      BY <3>1 DEF TypeOK
    <3>3. ASSUME NEW r \in Peers PROVE inflight'[r] - others'[r] = inflight[r] - others[r]
      <4>1. inflight[r] \in Nat /\ others[r] \in Nat
        BY DEF TypeOK
      <4>2. IF r = p THEN inflight'[r] = inflight[r] - 1 /\ others'[r] = others[r] - 1
                     ELSE inflight'[r] = inflight[r] /\ others'[r] = others[r]
        BY <3>1 DEF TypeOK
      <4> QED BY <4>1, <4>2
    <3> QED BY <3>2, <3>3
  <2>3. CASE Time(p)
    BY <2>3 DEF Time, TypeOK
  <2> QED BY <2>1, <2>2, <2>3
<1>5. RequestsCounted' /\ inflight' \in [Peers -> Nat]
  BY <1>1, <1>4, OthersMove
<1>6. /\ stats' \in [Peers -> StatsType] /\ Books'
      /\ \A r \in Peers : stats'[r].qualified > stats[r].qualified => Requests(r) = 1
  <2>1. CASE OtherReturns(p) /\ recordSample(p, "rescue", "alone")
    <3>1. /\ stats' \in [Peers -> StatsType] /\ Books'
          /\ \A r \in Peers : stats'[r].qualified > stats[r].qualified => r = p /\ inflight[p] <= 1
      BY <1>3, <2>1, recordSampleKeeps DEF PeerAlone
    <3>2. Requests(p) = inflight[p] /\ inflight[p] >= 1
      <4> DEFINE S == {c \in Callers : Marked(c, p)}
      <4>1. IsFiniteSet(S)
        BY FS_Subset
      <4>2. Cardinality(S) \in Nat
        BY <4>1, FS_CardinalityType
      <4>3. inflight[p] = Requests(p) /\ Requests(p) = Cardinality(S) + others[p]
        BY DEF RequestsCounted, Requests
      <4> HIDE DEF S
      <4>4. others[p] \in Nat /\ others[p] > 0
        BY <2>1 DEF OtherReturns, TypeOK
      <4> QED BY <4>2, <4>3, <4>4
    <3>3. inflight[p] \in Nat
      BY DEF TypeOK
    <3> QED BY <3>1, <3>2, <3>3
  <2>2. CASE UNCHANGED stats
    BY <1>3, <2>2 DEF Books, StatsType
  <2>3. CASE recordFailure(p) \/ SampleAges(p) \/ QualifiedAges(p) \/ CooldownEnds(p) \/ RetryEnds(p)
    BY <1>3, <2>3, AgingKeeps DEF StatsType
  <2> QED BY <2>1, <2>2, <2>3 DEF RescueBegins, OtherReturns, Time
<1>7. TypeOK'
  BY <1>1, <1>4, <1>5, <1>6, DiscoveriesStay DEF TypeOK, StatsType, callerVars
<1> QED BY <1>1, <1>2, <1>5, <1>6, <1>7, DiscoveriesStay DEF Kept, callerVars

-----------------------------------------------------------------------------
(* The invariant and what follows from it.                                 *)

LEMMA NextKeeps ==
  ASSUME IInv, [Next]_vars
  PROVE  Kept
<1>1. ASSUME NEW c \in Callers, Fetch(c) \/ CallerStep(c) PROVE Kept
  BY <1>1, PathKeeps, MarkKeeps, TransferKeeps, ReturnKeeps, LaunchKeeps, RacerWinsKeeps,
     RacerFailsKeeps DEF CallerStep
<1>2. CASE UNCHANGED vars
  <2>1. \A p \in Peers : stats'[p].qualified > stats[p].qualified => Requests(p) = 1
    BY <1>2, SamplesStay DEF vars, selectorVars
  <2>2. RequestsCounted' /\ DiscoveriesCounted' /\ Placed' /\ Books' /\ TypeOK'
    BY <1>2 DEF vars, selectorVars, callerVars, IInv, RequestsCounted, Requests, Marked,
                DiscoveriesCounted, Placed, Books, TypeOK
  <2> QED BY <2>1, <2>2 DEF Kept, IInv
<1> QED BY <1>1, <1>2, OthersKeep DEF Next

LEMMA InitIInv == Init => IInv
<1> SUFFICES ASSUME Init PROVE IInv
  OBVIOUS
<1> USE DEF Init
<1>1. TypeOK
  <2>1. [sample |-> "never", qualified |-> 0, aged |-> FALSE, cooling |-> FALSE, retry |-> FALSE]
          \in StatsType
    BY DEF StatsType
  <2>2. stats \in [Peers -> StatsType]
    BY <2>1
  <2> QED BY <2>2 DEF TypeOK, Labels, StatsType
<1>2. Books /\ Placed
  BY DEF Books, Placed
<1>3. RequestsCounted
  <2> SUFFICES ASSUME NEW p \in Peers PROVE Requests(p) = 0
    BY DEF RequestsCounted
  <2>1. ASSUME NEW c \in Callers PROVE ~Marked(c, p)
    BY DEF Marked
  <2>2. Requests(p) = Cardinality({}) + others[p]
    BY Zenon, <2>1 DEF Requests
  <2>3. others[p] = 0
    OBVIOUS
  <2> QED BY <2>2, <2>3, FS_EmptySet
<1>4. DiscoveriesCounted
  <2> SUFFICES ASSUME NEW p \in Peers PROVE Cardinality({c \in Callers : held[c] = p}) = 0
    BY DEF DiscoveriesCounted
  <2>1. {c \in Callers : held[c] = p} = {}
    OBVIOUS
  <2> QED BY <2>1, FS_EmptySet
<1> QED BY <1>1, <1>2, <1>3, <1>4 DEF IInv

LEMMA Invariance == Spec => []IInv
<1>1. IInv /\ [Next]_vars => IInv'
  BY NextKeeps DEF Kept
<1> QED BY <1>1, InitIInv, PTL DEF Spec

\* The selector's variables have their types: no counter is ever negative.
THEOREM Types == Spec => []TypeOK
<1>1. IInv => TypeOK
  BY DEF IInv
<1> QED BY <1>1, Invariance, PTL

\* The selector counts the requests of a peer right on every path of Fetch
\* (markInflight and the deferred calls that take it back).
THEOREM RequestsAreCounted == Spec => []RequestsCounted
<1>1. IInv => RequestsCounted
  BY DEF IInv
<1> QED BY <1>1, Invariance, PTL

\* The selector counts discoveries right, also those that fall back
\* (markDiscoveryInflight).
THEOREM DiscoveriesAreCounted == Spec => []DiscoveriesCounted
<1>1. IInv => DiscoveriesCounted
  BY DEF IInv
<1> QED BY <1>1, Invariance, PTL

\* A peer the selector calls fresh has an estimate (throughputState,
\* hasUsableThroughput).
THEOREM FreshHasEstimate == Spec => []FreshIsUsable
<1>1. IInv => FreshIsUsable
  <2> SUFFICES ASSUME IInv, NEW p \in Peers, throughputState(p) = "fresh"
               PROVE  hasUsableThroughput(p)
    BY DEF FreshIsUsable, measuredPeers
  <2>1. stats[p].qualified \in 0..2 /\ stats[p].cooling \in BOOLEAN /\ stats[p].aged \in BOOLEAN
    BY DEF IInv, TypeOK
  <2>2. ~stats[p].cooling /\ stats[p].qualified >= 2 /\ ~stats[p].aged
    BY <2>1 DEF throughputState, minCleanSamplesForFresh
  <2> QED BY <2>1, <2>2 DEF IInv, Books, hasUsableThroughput
<1> QED BY <1>1, Invariance, PTL

\* A sample is qualified only when the peer served nothing else (recordSample,
\* predictionSnapshot).
THEOREM SamplesAreUndisturbed == Spec => QualifiedAlone
<1>1. IInv /\ [Next]_vars =>
        [\A p \in Peers : stats'[p].qualified > stats[p].qualified => Requests(p) = 1]_vars
  BY NextKeeps DEF Kept
<1> QED BY <1>1, Invariance, PTL DEF Spec, QualifiedAlone
=============================================================================
