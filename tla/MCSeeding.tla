----------------------------- MODULE MCSeeding -----------------------------
(* A small instance of Seeding.                                            *)
EXTENDS Seeding

CONSTANTS p1, p2
MCServices == <<p1, p2>>
=============================================================================
