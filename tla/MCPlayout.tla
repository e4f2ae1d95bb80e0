------------------------------ MODULE MCPlayout ------------------------------
(* Playout for TLC: peers differ in nothing but their names. *)
EXTENDS Playout

\* a short last segment; blocks that straddle segments, or hold two of them
MCFiles == {<<5, 6>>, <<12, 5>>, <<16, 6>>, <<16, 8>>}
OneFile == {<<8, 4>>}

PeerSymmetry == Permutations(Peers)
=============================================================================
