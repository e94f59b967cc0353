---------------------------- MODULE MCStreamLimits ----------------------------
(* Two instances of Streams, on the same variables: a device whose two streams share an encode    *)
(* (the constants of the configuration), and two devices with plans of their own and a budget of  *)
(* one source (Budget); a media worker with two peers (MediaWorker); the frames it sends to its   *)
(* media-net (FramePath) and the audio's timestamps there (AudioTimeline).  But for the first two *)
(* they share no state; the initial state chooses the one that moves.                             *)
EXTENDS MCStreams, MediaWorker, FramePath, AudioTimeline

CONSTANTS v1, v2, f1, f2

VARIABLE part

limitsVars == <<part, vars, netVars, brokerVars, frameVars, timelineVars>>

Budget == INSTANCE Streams WITH
  Sessions <- {s1, s2}, Keys <- {k1, k2}, Changing <- {}, SessionOf <- TwoDevices, KeyOf <- TwoPlans,
  MaxSources <- 1, PerSession <- 1

LimitsInit ==
  /\ part \in {"shared", "budget", "worker", "frames", "audio"}
  /\ IF part = "budget" THEN Budget!Init ELSE Init
  /\ WorkerBlank
  /\ IF part = "worker" THEN life = "serving" /\ netAt = "loading" ELSE life = "over" /\ netAt = "gone"
  /\ FrameInit /\ (part # "frames" => format = [m \in Media |-> f1])
  /\ TimelineInit

LimitsNext ==
  /\ UNCHANGED part
  /\ \/ part = "shared" /\ Next /\ UNCHANGED <<netVars, brokerVars, frameVars, timelineVars>>
     \/ part = "budget" /\ Budget!Next /\ UNCHANGED <<netVars, brokerVars, frameVars, timelineVars>>
     \/ part = "worker" /\ WorkerNext /\ UNCHANGED <<vars, frameVars, timelineVars>>
     \/ part = "frames" /\ FrameNext /\ UNCHANGED <<vars, netVars, brokerVars, timelineVars>>
     \/ part = "audio" /\ TimelineNext /\ UNCHANGED <<vars, netVars, brokerVars, frameVars>>

LimitsSpec == LimitsInit /\ [][LimitsNext]_limitsVars

\* With two devices whose plans share nothing a worker that has not exited keeps its source's place
\* in the host's budget of one source.
HostBudgetHolds == part = "budget" => Budget!WorkersWithinBudget

=============================================================================
