------------------------------ MODULE Playback ------------------------------
(***************************************************************************)
(* What the playback loop of the client may rely on, without a word about  *)
(* goroutines, maps and channels: segments become available in any order   *)
(* and stay available, they are played strictly in order, each one only    *)
(* once it is available, and playback gives up only on a segment that is   *)
(* missing.                                                                *)
(***************************************************************************)
EXTENDS Naturals

CONSTANT LastSegment

VARIABLES
  available,  \* segments whose bytes the client holds
  next,       \* the segment to play next
  status      \* "playing", "done" or "failed"

pvars == <<available, next, status>>

Init ==
  /\ available = {}
  /\ next = 0
  /\ status = "playing"

Obtain(i) ==
  /\ status # "failed"
  /\ available' = available \cup {i}
  /\ UNCHANGED <<next, status>>

Play ==
  /\ status = "playing"
  /\ next \in available
  /\ next' = next + 1
  /\ UNCHANGED <<available, status>>

Finish ==
  /\ status = "playing"
  /\ next = LastSegment + 1
  /\ status' = "done"
  /\ UNCHANGED <<available, next>>

GiveUp ==
  /\ status = "playing"
  /\ next \in 0..LastSegment
  /\ next \notin available
  /\ status' = "failed"
  /\ UNCHANGED <<available, next>>

Next ==
  \/ \E i \in 0..LastSegment : Obtain(i)
  \/ Play
  \/ Finish
  \/ GiveUp

Spec == Init /\ [][Next]_pvars
=============================================================================
