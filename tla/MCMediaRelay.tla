----------------------------- MODULE MCMediaRelay -----------------------------
(* MediaRelay on a small instance. *)
EXTENDS MediaRelay, TLC

CONSTANTS r1, r2, r3, p1, p2

=============================================================================
