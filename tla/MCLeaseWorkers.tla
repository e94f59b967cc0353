---------------------------- MODULE MCLeaseWorkers ----------------------------
(* ControlLease with a worker for each of two devices, the second arriving while the first        *)
(* watches; and with one device that moves between two streams of one source while the host edits *)
(* its permission.  The initial state chooses.                                                    *)
EXTENDS MCControlLease

CONSTANT p3

\* The second device may watch two streams of its source.
ThreeStreams == p1 :> s1 @@ p2 :> s2 @@ p3 :> s2
TwoWorkers == p1 :> c1 @@ p2 :> c2 @@ p3 :> c2

\* Bound: where the first device is, each device watches one stream and may always use control.
Within ==
  connected[s1] # "new" =>
    /\ stream[p3] = "absent"
    /\ \A s \in Sessions : connected[s] = "connected" => mode[s] = "available"

WorkersSpec == (Watching({s1}, {p1}) \/ Watching({s2}, {p2, p3})) /\ [][Next]_vars

===============================================================================
