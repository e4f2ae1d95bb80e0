# A verification project for IPFS-VOD-Benchmark

The repository streams a video, split into segments, from several IPFS peers
and measures how well that works: a GraphSync client with an adaptive
scheduler, a Bitswap client as the baseline, and a benchmark server with a web
UI that seeds the peers, shapes their network, runs the clients, queues runs
and draws their timelines. This directory holds TLA+ modules of that code, TLC
configurations for small instances, and proofs for any instance of what matters
most. `PROJECT.json` lists, for every definition, the source lines it stands
for, the hazards of the code and the properties that cover them.

## Inventory

| Component | State | Operations | What makes it correct |
| --- | --- | --- | --- |
| Prefetcher (`pkg/prefetch`) | maps `cache`, `inflight`, `inflightWait`, `inflightCancel`, `inflightErr`, `rescued`; the queue; contexts | `Get`, `RequestRescue`, `RescueInflightRange`, `Start`, `Stop`, the workers and rescuers | one fetch in charge of a segment, no waiter forgotten, no channel closed twice, a rescue hurts nobody |
| Playback loop (`cmd/gs-client`, `main`) | `currentIndex`, the clock | play segment after segment | in order, each once it is there |
| Adaptive selector | `stats` per peer, `inflight`, `discoveryInflight`, `preferReprobeNext`, race offsets | choose a peer, mark, record samples and failures | right counts, samples not disturbed, discoveries limited, slots returned |
| GraphSync fetcher | `assignments`, stores and channel of a race, a wait group | `Fetch` (race, discovery, single), `RescueFetch`, revalidation | an assignment belongs to its flight, races end, losers are not blamed, their bytes are counted |
| Run executor (`cmd/benchmark-ui`) | `runs`, `runCancels`, `cancelRequest`; the containers' tc disciplines | start, cancel, `execute`, reshape | network as asked for, restored afterwards, a cancel ends the run |
| Run queue | `batch`, its cancel function | start, cancel, `executeQueue`, `waitRunDone` | items in order, statuses that settle, one run at a time |
| Seeding, `peers.json` | seed directory, manifest, blocks, `peers.json`, the peers' containers | seed, auto-seed, prepare a run, update `peers.json`, wait for peers and restart them | a manifest in place has its blocks, `peers.json` names all peers unless its write was cut short, the wait ends, peers serve what was seeded |
| POSL layout (`pkg/posl`) | segments, chunks | build from a file, read back | a segment is its byte range |
| Bitswap client | index of byte ranges, bytes per virtual segment | index, receive a block | a segment is ready with its last byte |
| Metrics | per-segment times | record, summarise | stalls and start-up delay as a player sees them, and the same for both clients |
| Timelines | ready times and bytes per peer of the segments | parse the events, project the playback | the drawing shows what happened |
| Server's other handlers, peers, UI, stores, transports, scripts, analysis | little | I/O, presentation | - |

How they meet. The playback loop calls the prefetcher; prefetcher and selector
call each other through the fetcher: the prefetcher calls `Fetch`, `ShouldRescue`
and `RescueFetch`, the fetcher calls back `RequestRescue`, `CachedRange` and
`CoveredRange`. All meet under three mutexes (`Prefetcher.mu`,
`adaptiveSelector.mu`, `assignmentsMu`), in channels and in contexts. In the
server, HTTP handlers and the goroutines of runs and batches share maps under
`server.mu` and talk through cancel functions and polled statuses; `peersMu`
guards the writes of `peers.json`, not all reads; the containers and the seed directory are shared without
any lock. The clients print events, from which the server draws a timeline.

What is hard: goroutines that look at a map under one lock and act under
another (prefetcher, selector, assignments); waiting on channels that someone
has to close; cancels that cross the start or the end of what they cancel;
rescues and races whose losers arrive late; two runs shaping the same
containers; a batch whose goroutine outlives it; a seed that dies half-way and
peers that boot from what it left; two ways to measure one playback.

## Modules

- `Prefetch` - the prefetcher and the playback loop. One action per locked
  region, channel operation or return of the fetcher, so goroutines interleave
  where the mutex lets them. `Playback` is the abstract specification (segments
  become available in any order and are played in order); `Prefetch`
  implements it (`ImplementsPlayback`), with `available` = `cache`, `next` =
  `cur` and a status read off the player's program counter. `PrefetchProofs`
  has the proofs.
- `Fetcher` - one segment's flights and rescues in the fetcher: assignments,
  races with their racers, the collection of results and the accounting of late
  losers, and what prefetcher contexts do to all of them. `FetcherProofs` has the
  proofs.
- `SumLemmas` - induction over numbers and finite sets, and sums, for the proofs
  about `Fetcher` and `Playout`.
- `Discovery` - every path of `Fetch` through the selector: race when nothing is
  measured, deferral, discovery with its fallback, single fetch, rescues and
  late losers as requests of the same counters. `MCDiscovery` has the symmetry
  set, `DiscoveryProofs` the proofs.
- `Runs` - the goroutines of runs: cancel maps, statuses, the reshape of each
  container as `tc qdisc del` then `add`, the command, the restore.
- `RunQueue` - extends `Runs` with batches: handlers, `executeQueue`,
  `waitRunDone`, updates ignored once another batch has taken the place.
  `RunQueueProofs` has the proofs about both.
- `Seeding` - seed requests, auto-seed, what is done under `peersMu` (the readiness
  wait, the script of `POST /update-peers`), `peers.json`, the containers of the peers, and the faults that hit them.
  `MCSeeding` lists the services of an instance, `SeedingProofs` has the proofs.
- `Layout` - the POSL layout of a file (`BuildLayoutFromReader`, reading back)
  and the Bitswap client's view of the same file (byte ranges of the DAG's
  leaves, virtual segments, their readiness). `LayoutProofs` has the lemmas about
  what is built.
- `Metrics` - the recorded times and one step of `computeQoE`.
- `Timeline` - what the timeline makes of the events: ready times, peers of
  segments, the projection of the playback.
- `Playout` - composes `Layout`, `Metrics` and `Timeline`: one video is split,
  delivered in any order and at any time, played by the GraphSync client and
  counted by the Bitswap client; then both are summarised and drawn. `MCPlayout`
  has the videos, `PlayoutProofs` the proofs.

Operators whose name begins with `Bug` are plausible slips in the operator
below them. No specification uses them; replacing the operator by them makes the
property named in `PROJECT.json` fail, which shows that the property notices.

### State and actions against the code

`Prefetch`: `cache`, `inflight`, `errs`, `rescued` are the keys of the maps;
`wait[i]` numbers the channel of a segment and `closed[i]` those closed;
`cancelOf[i]` is the goroutine whose `CancelFunc` is stored. The player's
labels follow `Get`; workers' follow `fetchAndStore`; `watch` holds the
goroutines of `RequestRescue`. The outcome of a fetch or a rescue is open.

`Fetcher`: one segment, which `OneFlight` of `Prefetch` justifies (a segment has
one flight at a time), with `assignment` for `assignments[index]`, `flight` and
`marked` for the prefetcher's wait channel and rescued mark, and the calls of
`Fetch` and `RescueFetch` with a program counter each. Racers have one of
their own, so a racer finds that it failed (`failed`, or `cut` when its context
was done) before it asks whether the race is over (`Judge`) and before it sends
(`Report`). `requestSegment` returns at the first error while GraphSync may still
deliver, so a racer's store grows whatever has become of the racer (`Store`), and
what its result said of it (`reported`) is kept apart. The selector's choice is
open: any peer, any subset for a race.

`Discovery`: a peer is known by the age of its last sample, its qualified
samples up to the two that suffice, whether the last of these is too old, its
cooldown and its retry delay; all ages may pass at any moment. Estimates,
deadlines, sizes and ids are not modelled: where they choose among candidates,
any candidate may be chosen. `discoveryPeerWithClass` reads the maps without
the lock; the model reads them at one instant, and the Go race itself is not
modelled. A request of a race or a rescue reports and is unmarked in one step;
where the snapshot of its start matters (a clean sample) the more permissive
value is taken. The snapshot of a peer without an entry shows an idle client
whatever else is under way (`Sees`); a peer that was never sampled may be one.

`Runs`, `RunQueue`: `state[r]` is the status the endpoint shows, `hasCancel` and
`cancelReq` the two maps, `calls` the cancel functions taken under the mutex
and called after it. Ids are handed out in order and stand for the UUIDs. A
command that its context killed returns `context.Canceled` and makes the run
cancelled, which in the model, where only a request cancels a run, says no more
than `cancelReq` does. Every container is found: in the code a slot without one
is a warning and is passed over.

`Seeding`: a file is the seeder that made it, `manifest` and `tmp` the two names
(a rename moves a reference, an open file is written wherever its name went).
`blocks[j]` says which part of the layout of `j` is in the block directory:
chunks come before the root. A container is stopped, waiting for a manifest
(`gs-peer.sh`), starting, or up with the root it announces. `peers.json` is
written in place (`os.WriteFile` and `cat >` truncate it): `OpenFile` empties it,
`WriteFile` fills it, and in between the server may die, the write fail or the
script be killed with its request; `torn` remembers that. The script finds all
identities in the containers' logs or gives up, as the logs may have it. A run
whose wait failed reads the file without the lock (`LoadPeerLabels`). A seed may
fail at every step of its own accord (`FailSeed`), and `Boot` skips the auto-seed
when the manifest cannot be inspected or there is no video; both are only logged
and the server comes up. Faults are a failed docker command, seed or write, a
skipped auto-seed, a lost answer, a cancelled request, a killed server, a dead or
recreated peer. `alone` and `overlapped` are history variables that the
properties use to say under which circumstances they hold.

`Layout`, `Metrics`, `Timeline`, `Playout`: a file is its size, the block size
of the Bitswap DAG and whether two of its blocks are equal (and thus one CID
with several ranges). Time is in milliseconds; the program's own work takes
none. `Build` reads the file chunk by chunk; `Receive` is the loop over
arriving blocks; `Consume` the player's `Get`, record and sleep; `ReadResult`
the parsing of one line of the log, in any order within a segment;
`SummaryStep` one iteration of `computeQoE`. The interval a run plays at is
computed as the form computes it.

## Runs

| Run | Instance | States | What it shows |
| --- | --- | --- | --- |
| `prefetch` | 3 segments, 2 workers, queue of 1 | 318 755 | flight maps, channels and cancel functions stay consistent; playback ends, rescuers end, `Playback` is implemented. The small queue makes pushes fail; three segments let worker, player and rescuers meet on one and differ on others |
| `fetcher` | 2 flights and a rescue, one of which may race 2 peers, of 2 blocks each | 414 132 | assignments stay with their flight, complete accounts hold what was reported, cancelled losers are not blamed, racers and accountants end |
| `queue_safety` | 2 batches of 2 items, a run by hand | 3 282 701 | items in order and settled statuses, also when a cancelled batch's goroutine is still at work under its successor |
| `queue_liveness` | 1 batch, 1 item twice, 2 containers, 2 networks | 171 367 | crossing reshapes leave the default network behind; no run of a batch follows one that failed or goes on; a cancelled run ends, and so does the goroutine of a cancelled batch |
| `queue_shape`, `queue_stop` | 1 batch, 2 runs | - | violations: see findings |
| `discovery_safety` | 2 callers, 2 peers, 2 slots | 2 413 679 | discoveries are counted right, qualified samples are taken alone, fresh peers have estimates |
| `discovery_liveness` | 1 caller, 2 peers, races of 2, rescues | 106 191 | requests are counted right with races and rescues; discovery slots come back |
| `discovery_fanout` | 2 callers, 1 slot | - | violation: see findings |
| `seeding` | 2 server starts; 2 of a seed request, a run and an update of `peers.json`; 2 peers, 1 fault | 211 281 | a published manifest is whole, `peers.json` complete unless a write was cut short, a quiet seed is served, waits end, a restart seeds again unless a fault hits the auto-seed, a run revives peers |
| `playout_measures` | 4 videos, 2 peers, deliveries until 5 ms | 473 432 | segments are byte ranges, readiness is exact, both clients measure the same playback, the timeline draws it |
| `playout_speed` | one video at speed 2 | - | violation: see findings |

Properties that carry the most: `ImplementsPlayback` (refinement), `OneFlight`,
`NoLostWakeup`, `QualifiedAlone`, `AssignmentIsOwn`, `CompleteCountsAll`,
`QuietNetworkIsDefault`, `BatchSettled`, `PublishedIsWhole`, `RunRevivesPeers`,
`SameQoE` and `ProjectionIsPlayback`. `SameQoE` compares two independent ways
through the code; `SegmentsAreRanges`, `VirtualSegmentsExact` and
`ClockIsPlanAndStalls` compare an algorithm with its definition.

Bounds.

- `MaxRuns`, `ByHand`, `MaxBatches` end the histories of the server after enough
  of them to overlap; `ByHand` of the runs may be started by a request, the
  others by a batch.
- `MaxOthers` bounds late requests per peer, `MaxFlights`, `Rescues` the calls for
  one segment: the second flight is the one a rescue of the first can hit.
- `MaxRaces` is 1: any one of the two flights and the rescue races, while the
  others ask a single peer or wait. Each race has stores, a channel and a context
  of its own; the safety properties with two races at once and one block (4.8
  million states) were checked, too, and hold.
- `Blocks` is 2: a racer's store is empty, has part of a segment or all of it, so
  a store may have grown between a result and the event.
- `MaxJobs` is 2: any two of a seed request, a run and an update of `peers.json`
  meet, on top of the seed the server runs by itself. A third would only wait
  for `peersMu` behind them; all three together were checked for safety (0.7
  million states), too.
- `MaxFaults` is 1, of any kind at any point; `RunRevivesPeers` starts when it has
  happened. Two `Autos` allow one restart of the server.
- `Files` has a short last segment, blocks that straddle segments, blocks that
  hold two, and a repeated block; `MaxTime` is long enough for stalls before
  every segment, `MaxLate` allows one fetch that was overtaken.

Two actors are what the races of this code need; a third repeats the roles.
Symmetry is used where safety alone is checked. Deadlock checking is off where
the system may stop: playback is over, or all runs, seeds or videos that the
bound allows have ended. `Fetcher` says when that is (`Ended`), so there TLC
looks for deadlocks.

Fairness. Goroutines run. In `Prefetch` and `Discovery`, `Fetch`, `RescueFetch`
and the requests of a race end, with data or an error (`requestSegment` has no
timeout of its own: a peer that never answers would stop the flight, and the
models assume it does not). `Fetcher` assumes less: a request ends once its
context is done, the race's timer fires, and no peer ever answers by itself.
Docker commands return, and a process whose context is cancelled is killed. It
is not assumed that a client command ends by itself, that docker succeeds, or
that anybody cancels anything. In `Seeding` the server works on what it began, a
peer's script runs and `peersMu`, when it stays free, is taken by whoever waits
for it; nobody has to send a request and no fault has to happen.

## What the runs found

- `RunsUnderItsNetwork`: a run shows its final status before it restores the
  network, so the next run of a queue reshapes the same containers at the same
  time and may run under default conditions although its log says otherwise.
- `StopStopsRun`: stopping a batch while its run is being started leaves a run
  that nothing stops.
- `WithinFanout`: discoveries are counted after the choice, so callers that
  choose at the same time exceed the fanout of the repository's `README.md:117`.
- `ProjectionIsPlayback` at speed 2: the timeline divides the interval of a run
  by the speed, although the interval the UI sent is divided already.

Seen while modelling, without a run of its own: with `n` prefetch workers,
`n + 1` segments can be requested at once, because `Get` fetches itself
(`README.md:115` promises at most `n`). Two seeds at the same time leave a
directory that is not whole; `PublishedIsWhole` is about the others, and no
document promises more. A rescue can use up the only rescue of the flight after
the one it was meant for.

## What is proved

`PrefetchProofs`, from the assumptions of `Prefetch` (any number of segments and
workers, any queue capacity and window):

- `Typing`: `TypeOK`.
- `Invariance`: `IInv`, the inductive invariant. `TypeOK` and the properties are
  not inductive alone. `OneFlight` needs to know which goroutine or queue slot is
  in charge of a segment and that a stale registration of a cached segment is
  the only exception (`OnlyStaleLeak`). `NoLostWakeup` needs that channels are
  numbered in the order they are made (`ChannelsNamed`) and that the player
  waits on a channel that is either registered or closed (`AwaitsKnownChannel`).
  `CancelOnlyOvertaken` needs where the goroutine of a stored `CancelFunc`
  is, and the refinement how the program counter of the player relates to the
  cache (`PlayerProgress`).
- `NeverDoubleClose`, `ExactlyOneFlight`, `NeverLostWakeup`,
  `RescuesAreHarmless` (`CancelOnlyOvertaken`) and `RescuersAreAlone`
  (`OneRescuePerFlight`): the safety properties, as consequences of `IInv`.
- `Refinement`: `Spec => ImplementsPlayback`, every step being a step of
  `Playback` or a stutter.

Argument. `NextTypeOK` goes through the actions once. The helper lemmas say what
the shared effects (`Register`, `CloseWait`, `StoreRescueResult`) do;
`StepKinds` and `NextSplit` cut `Next` into the kinds of step a conjunct can
notice, and each conjunct of `IInv` has a lemma of its own (`NextOneFlight`,
`NextChannels`, `NextPlayer`, `NextRescue`, `NextWatchNamed`, `NextCancel`).

`SeedingProofs`, from the assumptions of `Seeding` (any services, seeders, runs,
numbers of attempts and of faults): `Types`, `ManifestIsWhole` and
`FileKeepsPeers`. `PublishedIsWhole` is not inductive: that a rename publishes a
whole seed needs how far the seeder has come with its own files (`Progress`),
that it is the only one on the directory, and that a manifest in place means
that nobody is past its removal - together `Directory`, under the condition
that no two seeds were ever at work at once. `PeersFileIsComplete` says that a
file that names anybody names every service, and that one that names nobody is
being written or was left so by a fault. It needs that all services, and only
services, have been found before the file is opened (`WaitOK`), and that a write
is cut short and a script killed by a fault only (`FaultsSeen`). The lemmas go by the kind of
step: steps of a seeder, steps that leave the directory alone, the wait, the
server and the containers.

`FetcherProofs`, from the assumptions of `Fetcher` (any number of flights, rescues
and peers, all of which may race): `Types`, `AssignmentStays`
(`AssignmentIsOwn`), `CutRacersAreNotBlamed` (the action property
`LosersNotBlamed`) and `CompleteAccounts` (`CompleteCountsAll`). The inductive
invariant `IInv` adds to `AssignmentIsOwn` that flights follow one another, that
a flight has a peer exactly while it asks it, and that a racer's request is cut
only by a context that is done. The last is what `LosersNotBlamed` rests on:
contexts that are done stay so (`Cuts`), and `Judge` is the only step that
blames. The steps are sorted into those that leave the assignment alone
(`Aside`), those of the assignment's own flight, and the mark of a rescue.

The accountant knows only how many results it has taken. That so many results
mean that every racer is gone needs `Accounting`: a racer is heard of last when it
sends, sends once, and no account is opened before the race (`SentWhenGone`,
`RacesOnce`). Then the results taken go one-to-one to racers that are gone, and
as many of them as there are racers are all (`AllTakenAllGone`). A store may grow
after its racer has reported and after the event, and never shrinks, so the
total of a complete event is at least the bytes of all results (`ReportedIsStored`,
`SumAtMost`) and at most what the stores hold from then on (`BytesGrow`). More
cannot be said: a late block may be missed by the event.

`RunQueueProofs`, from the assumptions of `Runs` and `RunQueue` (any number of runs,
containers, networks, batches and items): `Types`, `NetworkIsRestored`
(`QuietNetworkIsDefault`), `StatusSettles` (`BatchSettled`) and
`RunsFollowEachOther` (`OneRunAtATime`). The invariant has a part for runs and a
part for the queue.

- Runs: whatever is not at the default network is some run's debt (`Owed`). A run
  owes a container from the moment it may shape it until it has restored it
  (`Owes`), for good when it gives up with an error; a container without any
  discipline may also be mended by a run that is about to add one, or that was
  cancelled and therefore will give up (`Mends`). When no run is going on and
  none has failed nobody owes anything. That no step of another run takes a debt
  away is what the proof of each step of `reshapeNetwork` shows.
- Queue: a goroutine that goes on has a last run that is done (`Waited`), and a
  status that is final stays (`FinalStays`, from `Going`); while the goroutine of
  the shown batch works, items before its own are done and those behind it were
  not begun (`AtWork`); `AtEnd` carries this over its last steps. The steps of a
  goroutine leave those of other batches alone (`OwnSuffices`).

`DiscoveryProofs`, from the assumptions of `Discovery` (any finite sets of peers and
callers, any fanouts, any number of requests of others): `Types`,
`RequestsAreCounted`, `DiscoveriesAreCounted`, `FreshHasEstimate` and
`SamplesAreUndisturbed` (the action property `QualifiedAlone`). The counts are
inductive together with what a caller's place says of the peers it has
(`Placed`): a caller is marked for its peer or for those of its race, never for
both. `RequestsMove` and `DiscoveriesMove` reduce a step to the caller that
takes it. `QualifiedAlone` follows from the count: a sample is qualified when
the count of its peer is at most one, and the request itself is one of it.
`FreshIsUsable` needs that a peer loses its qualified samples before its last
one (`Books`).

`PlayoutProofs` and `LayoutProofs`, from the assumptions of `Layout` and `Playout`
(videos, blocks, chunks and segments of any size, where a segment is a whole
number of chunks; any peers, speeds and times):

- `Types`. The model of the timeline is built by folding what was read, and its
  type says what every fold keeps.
- `SegmentsAreTheRanges` (`SegmentsAreRanges`). `LayoutInv` is the loop invariant
  of `BuildLayoutFromReader`: the segments so far are full, chunk `k` is the
  `k`-th piece of the file wherever it is, and what was read ends where the last
  chunk does (`Growing`); after the last flush only the last segment may be short
  (`Finished`). `BuiltShape` gives the number of segments and of chunks in
  multiplications instead of the code's divisions; `BuiltCounts` shows that
  `decodeRoot`'s division computes the same, `FlattenRanges` that chunks side by
  side read back as one range.
- `SegmentsAreReadyWhenWhole` (`VirtualSegmentsExact`). The client counts bytes per
  segment; `Counted` says that the counter is the number of the segment's bytes
  that arrived - of each range of a repeated block, and of no block twice - and `Reported` that a segment
  has its time exactly since the counter reached the size of a segment.
- `ColoursTellWhoDelivered` (`ColoursAreTrue`). `Coloured`: only a peer that
  delivered bytes of a segment has a share of it, whatever blocks straddle its
  ends; the peer with the largest share (`BestExists`) is one of these.
- `StallsAddUp` (`ClockIsPlanAndStalls`). `Summed` adds that a stall that goes on
  has its entry in the list, which the next late segment then makes longer; the
  sum over the list is related to the code's by the laws of `SumLemmas`.
- `ClientsMeasureTheSame` (`SameQoE`). The two summaries are compared segment by
  segment (`MeasuredAlike`): they have had the same stalls, the clocks differ by
  the time of indexing, and at the GraphSync client the clock is where the player
  was. The last needs `InTurn`, about the playback before: the player took each
  segment at the later of its arrival and the end of the one before.
- `TimelineShowsPlayback` (`ProjectionIsPlayback` at speed 1, the speed of the run
  that checks it; at others the property fails, see above). `LinesTrue`: no line
  of a segment is earlier than its arrival and one that is in time is among them,
  so the earliest of them, in any order of reading, is the arrival; the
  projection then moves through the segments as the player did (`InTurn`).

The library's theorems about induction and recursion take an operator as
parameter, which the provers cannot instantiate. `SumLemmas` does without: a set
of numbers that holds 0 and successors holds all, because the least number it
lacks would contradict that (`Inducts`), the same with the smallest subset of a
finite set (`LeastSubset`). So the function that a fold recurses over is shown
to exist and to be unique (`AddsExists`, `AddsUnique`), and sums follow the usual
laws. `Playout`'s other recursive function, the projection's, is proved about in
the same way (`EndsOf`).

Only model-checked: all liveness (leads-to under fairness is out of the proof
system's reach, as is `ENABLED`): `PlaybackEnds`, `RescuersEnd`, `RacesEnd`, the
ends of runs and batches, the return of discovery slots, and in `Seeding` the end
of the waits, seeds that are served and peers that are revived. The runs that
find a violation are counterexamples and have nothing to prove.

## What is left

Every invariant and every action property of the passing runs is a theorem,
except `SeedIsServed`. What else could be stated and proved is the safety that the
liveness properties rest on: that whoever waits - for a discovery slot, for
`peersMu`, for the end of a run - waits for somebody who is there to act, as
`NoLostWakeup` says of the player, and an abstract specification that the run
queue implements, as `Playback` is one for the prefetcher.

## Not modelled

- Text of logs, events and results; HTTP, the DHT and libp2p; the libraries'
  sessions: the models take what they may return.
- The estimators of the selector (predicted times, throughput): floating-point
  arithmetic over measured times. Wherever an estimate chooses, the models let
  any candidate be chosen, so what they show does not depend on it.
- `memoryBlockstore` and `validatingBlockstore`: one locked operation each.
- `POST /reshape`, which shapes the containers with the same function as a run
  does, on demand; the import into the Bitswap providers (one HTTP call after
  the other), summaries, downloads and `ffprobe` in the server: no state of the
  models.
- The web UI's pollers and components, deployment scripts and the offline
  analysis: presentation.
- The Go data race of `discoveryPeerWithClass` and `bufio.Scanner`'s line limit:
  their hazards say so in `PROJECT.json`.
