---------------------------- MODULE MCStreamOffers ----------------------------
(* Offers of one session, and a latency measurement of one of its streams: they share no state,   *)
(* and the initial state chooses the part that moves.                                              *)
EXTENDS MCStreams, LatencyRun

VARIABLE part

offersAndMore == <<part, vars, latencyVars>>

\* A session that is over: nothing is awaited any more.
OffersOver ==
  /\ sub = [p \in Streams |-> "absent"] /\ src = [p \in Streams |-> None]
  /\ source = [c \in Sources |-> "none"] /\ creator = [c \in Sources |-> None]
  /\ worker = [c \in Sources |-> "exited"] /\ ready = [c \in Sources |-> TRUE]
  /\ entry = [p \in Streams |-> "none"] /\ answered = [p \in Streams |-> FALSE]
  /\ offer = [p \in Streams |-> "failed"] /\ ends = [p \in Streams |-> FALSE]
  /\ leaseWait = {} /\ closeWait = {} /\ stops = [s \in Sessions |-> {}]
  /\ online = {} /\ valid = Keys /\ stopping = FALSE
  /\ relayUp = FALSE /\ toRelay = <<>> /\ fromRelay = <<>> /\ registered = {} /\ path = {}

\* A viewer that has left before anything was measured.
LatencyOver ==
  /\ active = NoMeasure /\ kept = [s \in Watched |-> <<>>] /\ made = 0 /\ alive = {}
  /\ page = [Blank EXCEPT !.stream = NoStream] /\ tab = [shown |-> NoStream, gone |-> TRUE]
  /\ poll = Quiet /\ cancels = {} /\ offered = {} /\ probe = NoRun /\ posts = {} /\ lost = 0
  /\ measured = {}

PartsInit ==
  /\ part \in {"offers", "latency"}
  /\ IF part = "offers" THEN Init ELSE OffersOver
  /\ IF part = "latency" THEN LatencyInit ELSE LatencyOver

\* The server keeps running: what its shutdown brings about is asked of one stream alone.
PartsNext ==
  /\ UNCHANGED part
  /\ \/ part = "offers" /\ Next /\ ~stopping' /\ UNCHANGED latencyVars
     \/ part = "latency" /\ LatencyNext /\ UNCHANGED vars

PartsSpec == PartsInit /\ [][PartsNext]_offersAndMore /\ Fairness /\ LatencyFair

\* Nobody waits for ever: every offer is answered or fails, and every measurement, with its run and
\* its page, ends.
WaitsEnd == OffersEnd /\ MeasurementsSettle

=============================================================================
