--------------------------- MODULE MCControlLease ---------------------------
(* ControlLease on small instances: two devices on one shared source, and one device that moves
   between its two streams. *)
EXTENDS ControlLease, TLC

CONSTANTS s1, s2, p1, p2, c1, c2

TwoViewers == p1 :> s1 @@ p2 :> s2
SharedSource == p1 :> c1 @@ p2 :> c1

OneMover == p1 :> s1 @@ p2 :> s1

\* The two viewers of TwoViewers are interchangeable.
Swap == {s1 :> s2 @@ s2 :> s1 @@ p1 :> p2 @@ p2 :> p1}

\* A state every run of the server passes through: the devices of S signed in, watching the streams
\* P, one of which each has selected, the others still to come, and nobody in control.
Watching(S, P) ==
  LET C == {SourceOf[p] : p \in P}
  IN /\ owner = None
     /\ op = None
     /\ phase = "idle"
     /\ after = "finish"
     /\ request = NoRequest
     /\ waiting = <<>>
     /\ connected = [s \in Sessions |-> IF s \in S THEN "connected" ELSE "new"]
     /\ mode = [s \in Sessions |-> IF s \in S THEN "available" ELSE "view-only"]
     /\ automatic = S
     /\ selected \in {f \in [Sessions -> Streams \cup {None}] :
                        \A s \in Sessions : IF s \in S THEN f[s] \in P /\ SessionOf[f[s]] = s
                                            ELSE f[s] = None}
     /\ stream = [p \in Streams |-> IF p \in P THEN "live" ELSE "absent"]
     /\ removal = [p \in Streams |-> "none"]
     /\ source = [c \in Sources |-> IF c \in C THEN "ready" ELSE "none"]
     /\ stopping = [c \in Sources |-> FALSE]
     /\ pipe = [c \in Sources |-> <<>>]
     /\ out = [c \in Sources |-> <<>>]
     /\ peers = [c \in Sources |-> {p \in P : SourceOf[p] = c}]
     /\ leaving = [c \in Sources |-> {}]
     /\ permitted = [c \in Sources |-> None]

\* Bound: the lines a worker or the server has not read.  A late command with a current one
\* behind it, and one unread answer, are all the orders the code tells apart.
ShortPipes == \A c \in Sources : Len(pipe[c]) <= 2 /\ Len(out[c]) <= 1

WatchingSpec == Watching(Sessions, Streams) /\ [][Next]_vars

FairWatchingSpec == WatchingSpec /\ Fairness

=============================================================================
