------------------------------ MODULE MCStreams ------------------------------
(* Streams on small instances. *)
EXTENDS Streams, TLC

CONSTANTS s1, s2, p1, p2, c1, c2, k1, k2

TwoDevices == p1 :> s1 @@ p2 :> s2
OneDevice == p1 :> s1 @@ p2 :> s1
OneViewer == p1 :> s1
SomePlan == p1 :> k1
OnePlan == p1 :> k1 @@ p2 :> k1
TwoPlans == p1 :> k1 @@ p2 :> k2

\* Sources are interchangeable.
AnySource == Permutations({c1, c2})

=============================================================================
