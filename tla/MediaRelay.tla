------------------------------ MODULE MediaRelay ------------------------------
(***************************************************************************)
(* The supervisor of the media relay process (media-relay.mjs) with its    *)
(* callers in main.mjs: start at start-up, restart on every change of the  *)
(* media port, stop at shutdown, and the automatic restarts.               *)
(*                                                                         *)
(* stop and restart await the exit of the process they found: the exit     *)
(* event runs the exit handler, then every call that waits for it, in one  *)
(* turn of the event loop, and so they are one step here.                  *)
(***************************************************************************)
EXTENDS Naturals, FiniteSets

CONSTANTS
  Procs,       \* process ids; one may name a new process when nothing refers to the old one
  Streams,
  Limit,       \* RELAY_RESTARTS.limit
  MaxChanges,  \* bound on the changes of the media port
  None

ASSUME RelayAssumption ==
  /\ Limit \in Nat \ {0}
  /\ MaxChanges \in Nat
  /\ None \notin Procs

VARIABLES
  running,   \* relay processes
  bound,     \* those that hold the media port
  reported,  \* those that reported ready or failed
  ending,    \* those told to stop, killed or failed
  child,     \* #child
  state,     \* the supervisor's state
  stopFlag,  \* #stopping
  armed,     \* processes whose start timer runs
  stamps,    \* #restarts: automatic restarts in the last minute
  waiting,   \* restart calls that await the process's exit
  changes,   \* changes of the media port so far
  server,    \* running, shutting down (runtime.shutdown), stopping the relay, or stopped
  stream,    \* new, asked (allow awaits), unheard (written after stop), live or ended
  on         \* the process that was asked for the stream

procVars == <<running, bound, reported, ending>>
relayVars == <<child, state, stopFlag, armed, stamps>>
callVars == <<waiting, changes, server>>
streamVars == <<stream, on>>
vars == <<procVars, relayVars, callVars, streamVars>>

\* main.mjs starts the relay before it accepts anything.
Init ==
  \E p \in Procs :
    /\ running = {p} /\ bound = {} /\ reported = {} /\ ending = {}
    /\ child = p /\ state = "starting" /\ stopFlag = FALSE /\ armed = {p} /\ stamps = 0
    /\ waiting = [q \in Procs |-> 0] /\ changes = 0 /\ server = "running"
    /\ stream = [s \in Streams |-> "new"] /\ on = [s \in Streams |-> None]

-----------------------------------------------------------------------------
\* #pending: the allow calls that await an answer.
Pending == {s \in Streams : stream[s] \in {"asked", "unheard"}}

\* The streams of T end: #pending rejected, or onExit (relayStopped).
Ended(T) == [s \in Streams |-> IF s \in T THEN "ended" ELSE stream[s]]

Live == {s \in Streams : stream[s] = "live"}

\* Mutant: the start timer is not armed.
StartM(n, L, timers) ==
  /\ \E S \in SUBSET (Procs \ (L \cup timers)) :
       /\ Cardinality(S) = n
       /\ running' = L \cup S
       /\ child' \in S
  /\ armed' = timers
  /\ state' = "starting"
  /\ stopFlag' = FALSE

\* n calls of start, one after another, when the processes L run on: each launches a process and
\* arms its timer, and the last one's is #child.
Start(n, L, timers) ==
  /\ \E S \in SUBSET (Procs \ (L \cup timers)) :
       /\ Cardinality(S) = n
       /\ running' = L \cup S
       /\ armed' = timers \cup S
       /\ child' \in S
  /\ state' = "starting"
  /\ stopFlag' = FALSE

\* No start: the processes L run on, #child is gone.
NoStart(L, timers, next) ==
  /\ running' = L
  /\ armed' = timers
  /\ child' = None
  /\ state' = next
  /\ UNCHANGED stopFlag

-----------------------------------------------------------------------------
(* The relay process's reports. *)

\* Mutant: every process's report counts.
ReadyM(p) ==
  /\ p \in running \ reported
  /\ bound = {}
  /\ bound' = {p}
  /\ reported' = reported \cup {p}
  /\ state' = "listening"
  /\ armed' = armed \ {p}
  /\ UNCHANGED <<running, ending, child, stopFlag, stamps, callVars, streamVars>>

\* ready: the process holds the port.  onStarted belongs to the latest start, which is #child's.
Ready(p) ==
  /\ p \in running \ reported
  /\ bound = {}
  /\ bound' = {p}
  /\ reported' = reported \cup {p}
  /\ IF p = child THEN state' = "listening" /\ armed' = armed \ {p}
     ELSE UNCHANGED <<state, armed>>
  /\ UNCHANGED <<running, ending, child, stopFlag, stamps, callVars, streamVars>>

\* failed: the port is in use or refused, and the process ends.
Failed(p) ==
  /\ p \in running \ reported
  /\ reported' = reported \cup {p}
  /\ ending' = ending \cup {p}
  /\ IF p = child THEN state' = "unavailable" /\ armed' = armed \ {p}
     ELSE UNCHANGED <<state, armed>>
  /\ UNCHANGED <<running, bound, child, stopFlag, stamps, callVars, streamVars>>

\* 5 s without a report to this start: media is unavailable and the process is killed.
StartTimeout(p) ==
  /\ p \in armed
  /\ armed' = armed \ {p}
  /\ state' = "unavailable"
  /\ ending' = ending \cup ({p} \cap running)
  /\ UNCHANGED <<running, bound, reported, child, stopFlag, stamps, callVars, streamVars>>

-----------------------------------------------------------------------------
(* Exits.  Each says everything about running, the supervisor and the streams. *)

\* Mutant: a restart leaves the streams to the exit handler.
RestartedM(p, timers) ==
  /\ Start(waiting[p], running \ {p}, timers)
  /\ stamps' = 0
  /\ stream' = Ended(Pending)

\* The restart calls that waited go on after the handler: onExit, a fresh budget, and a start each.
Restarted(p, timers) ==
  /\ Start(waiting[p], running \ {p}, timers)
  /\ stamps' = 0
  /\ stream' = Ended(Pending \cup Live)

\* At most Limit automatic restarts a minute.
MayRestart == stamps < Limit

\* The handler alone.  Every exit rejects #pending; one while starting is onEarlyExit, one while
\* stopping is quiet, another ends every stream, and restarts a relay that listened.
Handled(p, timers) ==
  LET left == running \ {p}
  IN IF state = "starting"
     THEN /\ NoStart(left, timers, "unavailable")
          /\ stream' = Ended(Pending)
          /\ UNCHANGED stamps
     ELSE IF stopFlag
     THEN /\ NoStart(left, timers, "stopped")
          /\ stream' = Ended(Pending)
          /\ UNCHANGED stamps
     ELSE /\ stream' = Ended(Pending \cup Live)
          /\ \/ /\ state = "listening" /\ MayRestart
                /\ Start(1, left, timers)
                /\ stamps' = stamps + 1
             \/ /\ state = "listening" /\ ~MayRestart
                /\ NoStart(left, timers, "unavailable")
                /\ UNCHANGED stamps
             \/ /\ state # "listening"
                /\ NoStart(left, timers, state)
                /\ UNCHANGED stamps

\* A process exits; the exit of one that is not #child any more is ignored.
Exit(p) ==
  LET timers == IF state = "starting" THEN armed \ {p} ELSE armed
  IN /\ p \in running
     /\ bound' = bound \ {p}
     /\ reported' = reported \ {p}
     /\ ending' = ending \ {p}
     /\ IF p = child
        THEN /\ IF waiting[p] > 0 THEN Restarted(p, timers) ELSE Handled(p, timers)
             /\ waiting' = [waiting EXCEPT ![p] = 0]
             /\ server' = IF server = "stopping" THEN "stopped" ELSE server
        ELSE /\ running' = running \ {p}
             /\ UNCHANGED <<relayVars, waiting, server, stream>>
     /\ UNCHANGED <<changes, on>>

-----------------------------------------------------------------------------
(* Callers. *)

\* The media port changed: restart stops the process it finds and goes on when it has exited.
ChangePort ==
  /\ server = "running"
  /\ changes < MaxChanges
  /\ changes' = changes + 1
  /\ IF child = None
     THEN /\ Start(1, running, armed)
          /\ stamps' = 0
          /\ stream' = Ended(Pending \cup Live)
          /\ UNCHANGED <<ending, waiting>>
     ELSE /\ waiting' = [waiting EXCEPT ![child] = @ + 1]
          /\ stopFlag' = TRUE
          /\ ending' = ending \cup {child}
          /\ UNCHANGED <<running, child, state, armed, stamps, stream>>
  /\ UNCHANGED <<bound, reported, server, on>>

\* runtime.shutdown: every stream stops and no offer is admitted any more.
Shutdown ==
  /\ server = "running"
  /\ server' = "shutting"
  /\ stream' = Ended(Live)
  /\ UNCHANGED <<procVars, relayVars, waiting, changes, on>>

\* Mutant: a process that does not stop is not killed.
StopRelayM ==
  /\ server = "shutting"
  /\ stopFlag' = TRUE
  /\ IF child = None
     THEN state' = "stopped" /\ server' = "stopped"
     ELSE server' = "stopping" /\ UNCHANGED state
  /\ UNCHANGED <<procVars, child, armed, stamps, waiting, changes, streamVars>>

\* relay.stop.
StopRelay ==
  /\ server = "shutting"
  /\ stopFlag' = TRUE
  /\ IF child = None
     THEN state' = "stopped" /\ server' = "stopped" /\ UNCHANGED ending
     ELSE server' = "stopping" /\ ending' = ending \cup {child} /\ UNCHANGED state
  /\ UNCHANGED <<running, bound, reported, child, armed, stamps, waiting, changes, streamVars>>

\* A minute has passed since the oldest automatic restart.
WindowPasses ==
  /\ stamps > 0
  /\ stamps' = stamps - 1
  /\ UNCHANGED <<procVars, child, state, stopFlag, armed, callVars, streamVars>>

-----------------------------------------------------------------------------
(* Streams. *)

\* listening, and there is a process.
MayAsk == state = "listening" /\ child # None

\* allow: a line written after stop closed the pipe is lost.
Allow(s) ==
  /\ server = "running"
  /\ stream[s] = "new"
  /\ MayAsk
  /\ stream' = [stream EXCEPT ![s] = IF child \in ending THEN "unheard" ELSE "asked"]
  /\ on' = [on EXCEPT ![s] = child]
  /\ UNCHANGED <<procVars, relayVars, callVars>>

\* allowed: the offer goes on, unless the server is shutting down.
Allowed(s) ==
  /\ stream[s] = "asked"
  /\ child # None
  /\ stream' = [stream EXCEPT ![s] = IF server = "running" THEN "live" ELSE "ended"]
  /\ UNCHANGED <<procVars, relayVars, callVars, on>>

\* refused, or 5 s without an answer.
Rejected(s) ==
  /\ s \in Pending
  /\ stream' = [stream EXCEPT ![s] = "ended"]
  /\ UNCHANGED <<procVars, relayVars, callVars, on>>

\* A viewer leaves.
EndStream(s) ==
  /\ stream[s] = "live"
  /\ stream' = [stream EXCEPT ![s] = "ended"]
  /\ UNCHANGED <<procVars, relayVars, callVars, on>>

-----------------------------------------------------------------------------
Next ==
  \/ \E p \in Procs : Ready(p) \/ Failed(p) \/ StartTimeout(p) \/ Exit(p)
  \/ \E s \in Streams : Allow(s) \/ Allowed(s) \/ Rejected(s) \/ EndStream(s)
  \/ ChangePort \/ Shutdown \/ StopRelay \/ WindowPasses

Spec == Init /\ [][Next]_vars

\* Timers fire, the server goes on with its shutdown, and a process that was told to stop ends
\* (it is killed 2 s later).  Nothing is assumed of a process that runs.
Fairness ==
  /\ \A p \in Procs : WF_vars(StartTimeout(p)) /\ WF_vars(p \in ending /\ Exit(p))
  /\ \A s \in Streams : WF_vars(Rejected(s))
  /\ WF_vars(StopRelay)

FairSpec == Spec /\ Fairness

-----------------------------------------------------------------------------
(* Properties. *)

\* "If the relay exits, every stream stops": a stream that is live or that an offer waits for
\* was given to the process the supervisor has now, however exits, restarts and answers cross.
StreamsOnChild == \A s \in Pending \cup Live : child # None /\ on[s] = child

\* Offers are admitted only while the supervised process holds the media port.
ListeningIsBound == state = "listening" => child # None /\ child \in bound

\* What an offer and a live stream may rely on: the process they were given to holds the port and
\* is the one whose exit ends them.
RelayServes == StreamsOnChild /\ ListeningIsBound

\* A start never hangs: sign-in waits for it, and offers are told why media is unavailable.
StartSettles == (state = "starting") ~> (state # "starting")

\* Shutdown always ends, whatever restarts it meets.
ShutdownEnds == (server = "shutting") ~> (server = "stopped")

\* Neither a start nor a shutdown waits for ever for a process that hangs, exits or was replaced.
RelaySettles == StartSettles /\ ShutdownEnds

\* "one child": the media port belongs to one relay process.
OneRelay == Cardinality(running) <= 1

=============================================================================
