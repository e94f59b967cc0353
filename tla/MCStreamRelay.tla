---------------------------- MODULE MCStreamRelay ----------------------------
(* What must happen in the end to one stream of the server (Streams), to the viewers' sources in  *)
(* the media relay process (RelayCore), to a peer of a media worker (MediaWorker), and to what    *)
(* the owner asks of the macOS host (HostApp): modules that share no state.  The initial state    *)
(* chooses the one that moves.                                                                    *)
EXTENDS MCStreams, RelayCore, MediaWorker, HostApp

CONSTANTS o1, o2, r1, r2, g1, g2, v1, q1, q2, q3

VARIABLE part

relayedVars == <<part, vars, coreVars, netVars, brokerVars, hostAppVars>>

\* The viewer of each registration signed in from the first of its two addresses.
Group == o1 :> g1 @@ o2 :> g2
Hint == r1 :> g1 @@ r2 :> g2

RelayedInit ==
  /\ part \in {"stream", "relay", "worker", "host"}
  /\ Init
  /\ IF part = "relay" THEN CoreInit
     ELSE /\ regs = [r \in Regs |-> Absent] /\ pinned = [s \in Origins |-> NoPin]
          /\ lanes = NewWindow /\ uses = [s \in Origins |-> NoReg] /\ roams = 0 /\ ended = TRUE
  /\ IF part = "worker" THEN WorkerInit ELSE life = "over" /\ netAt = "gone" /\ WorkerBlank
  /\ IF part = "host" THEN HostInit ELSE HostBlank /\ quit = "done"

RelayedNext ==
  /\ UNCHANGED part
  /\ \/ part = "stream" /\ Next /\ UNCHANGED <<coreVars, netVars, brokerVars, hostAppVars>>
     \/ part = "relay" /\ CoreNext /\ UNCHANGED <<vars, netVars, brokerVars, hostAppVars>>
     \/ part = "worker" /\ WorkerNext /\ UNCHANGED <<vars, coreVars, hostAppVars>>
     \/ part = "host" /\ HostNext /\ UNCHANGED <<vars, coreVars, netVars, brokerVars>>

RelayedSpec ==
  /\ RelayedInit /\ [][RelayedNext]_relayedVars
  /\ Fairness /\ CoreFair /\ WorkerFair /\ HostFair

\* Whatever hangs or dies, what was asked is over in the end: every ending of a stream and the
\* server's stop, every removal of a peer, and every request of the macOS host's owner.
RequestsSettle == EndingsSettle /\ PeersConclude /\ HostSettles

=============================================================================
