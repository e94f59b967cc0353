------------------------------ MODULE ServerLife ------------------------------
(***************************************************************************)
(* The server process (main.mjs): the desktop owner's approval             *)
(* (owner-start.mjs), start-up, the stop, and in between the plain HTTP    *)
(* listeners that follow the networks of this PC: the adapters there are   *)
(* (local-session-scope.mjs), the owner's answer about each network        *)
(* (network-confirmation.mjs) and the bound sockets                        *)
(* (lan-http-listeners.mjs).                                               *)
(*                                                                         *)
(* A network stands for its address on this PC.  The stop waits for the    *)
(* media (StreamRuntime, MediaRelay: modules Streams and MediaRelay) and   *)
(* for the HTTPS listener (module TlsListener), which are steps here.      *)
(***************************************************************************)
EXTENDS Naturals, Sequences, FiniteSets

CONSTANTS
  Nets,      \* networks whose address may be bound
  Loop,      \* the loopback addresses, always wanted
  Answers,   \* the owner's answers (network-confirm commands)
  MaxTicks,  \* bound on the 15 s refreshes
  Nobody     \* no host, no caller

ASSUME LifeAssumption ==
  /\ Loop \notin Nets /\ Nobody \notin Nets \cup {Loop} /\ MaxTicks \in Nat
  /\ IsFiniteSet(Answers)
  /\ "start" \notin Answers /\ "timer" \notin Answers /\ "stop" \notin Answers

Hosts == Nets \cup {Loop}

VARIABLES
  pipe,     \* lines the owner has sent; "end" closes the pipe
  phase,    \* approval, relay (relay.start), binding (http.start), running, failed, over
  halt,     \* where stop is: no, runtime, relay, http, tls, done
  present,  \* networks an eligible adapter is on
  decided,  \* KnownNetworks: the owner's answer for each network
  detect,   \* the LAN detection under way: idle, or the adapters it found
  scope,    \* bindAddresses
  closed,   \* the close of the listeners: no, asked or done
  line,     \* the listeners' queue of operations, the head is running
  work,     \* what the running operation wants, and the host it waits for
  sockets,    \* hosts with a listening socket
  reply,    \* each answer: what it says, and what it waits for
  listed,   \* this server's instance file is there
  ticks,    \* refreshes by the timer so far
  timer     \* the timer's callback waits for a detection

netVars == <<present, decided, detect, scope>>
httpVars == <<closed, line, work, sockets>>
lifeVars == <<pipe, phase, halt, netVars, httpVars, reply, listed, ticks, timer>>

NoWork == [wants |-> {}, host |-> Nobody, does |-> "idle"]
NoReply == [net |-> Nobody, allow |-> FALSE, at |-> "new"]

LifeInit ==
  /\ pipe \in {<<"start">>, <<"start", "stop">>, <<"other">>, <<"end">>, <<"start", "end">>}
  /\ phase = "approval" /\ halt = "no"
  /\ present \in SUBSET Nets
  /\ decided \in [Nets -> {"unknown", "allow", "deny"}]
  /\ detect = "idle" /\ scope = {}
  /\ closed = "no" /\ line = <<>> /\ work = NoWork /\ sockets = {}
  /\ reply = [a \in Answers |-> NoReply]
  /\ listed = FALSE /\ ticks = 0 /\ timer = FALSE

-----------------------------------------------------------------------------
(* Start-up. *)

\* KnownNetworks.apply: what the scope takes of the adapters.
Confirmed(rows) == {n \in rows : decided[n] = "allow"}

\* Mutant: the approval reads the whole chunk.
RestM == SelectSeq(pipe, LAMBDA l : l \notin {"start", "stop"})

\* waitForOwner consumes the approval line only.
Rest == Tail(pipe)

\* The approval, the settings, the first detection, the instance file and the protocol's reader;
\* then relay.start.
Approve ==
  /\ phase = "approval"
  /\ pipe # <<>> /\ Head(pipe) = "start"
  /\ pipe' = Rest
  /\ phase' = "relay"
  /\ scope' = Confirmed(present)
  /\ listed' = TRUE
  /\ UNCHANGED <<halt, present, decided, detect, httpVars, reply, ticks, timer>>

\* Another line, or the end of the pipe: the process ends, and nothing was started.
Refuse ==
  /\ phase = "approval"
  /\ pipe # <<>> /\ Head(pipe) # "start"
  /\ phase' = "over" /\ halt' = "done"
  /\ UNCHANGED <<pipe, netVars, httpVars, reply, listed, ticks, timer>>

\* relay.start has settled: http.start, which throws when stop has closed the listeners.
StartHttp ==
  /\ phase = "relay"
  /\ IF closed # "no" THEN phase' = "over" /\ UNCHANGED line
     ELSE phase' = "binding" /\ line' = Append(line, [op |-> "sync", by |-> "start"])
  /\ UNCHANGED <<pipe, halt, netVars, closed, work, sockets, reply, listed, ticks, timer>>

\* stop, in one turn up to its first await: timers, sessions, readers, and the listeners' close.
Stop ==
  /\ halt' = "runtime"
  /\ closed' = "asked"
  /\ line' = Append(line, [op |-> "close", by |-> "stop"])

\* The stop line, the end of the pipe, a signal, the owner process gone, or a failed listener.
BeginStop ==
  /\ phase \in {"relay", "binding", "running"} /\ halt = "no"
  /\ pipe' = <<>>
  /\ Stop
  /\ UNCHANGED <<phase, netVars, work, sockets, reply, listed, ticks, timer>>

\* stop's awaits, one after another; the instance file goes last.
StopGoesOn ==
  /\ \/ halt = "runtime" /\ halt' = "relay"
     \/ halt = "relay" /\ halt' = "http"
     \/ halt = "http" /\ closed = "done" /\ halt' = "tls"
     \/ halt = "tls" /\ halt' = "done"
  /\ listed' = (listed /\ halt' # "done")
  /\ UNCHANGED <<pipe, phase, netVars, httpVars, reply, ticks, timer>>

-----------------------------------------------------------------------------
(* Networks. *)

AdaptersChange ==
  /\ phase = "running" /\ halt = "no"
  /\ \E rows \in SUBSET Nets \ {present} : present' = rows
  /\ UNCHANGED <<pipe, phase, halt, decided, detect, scope, httpVars, reply, listed, ticks, timer>>

\* refresh: joins the detection under way.
Refresh == detect' = IF detect = "idle" THEN "detecting" ELSE detect

\* The 15 s timer.
Tick ==
  /\ phase \in {"relay", "binding", "running"} /\ halt = "no" /\ ticks < MaxTicks
  /\ ticks' = ticks + 1
  /\ timer' = TRUE
  /\ Refresh
  /\ UNCHANGED <<pipe, phase, halt, present, decided, scope, httpVars, reply, listed>>

\* enqueue(synchronize), for each of the callers.
Reconciles(callers) ==
  \E order \in [1..Cardinality(callers) -> callers] :
    /\ \A i, j \in DOMAIN order : order[i] = order[j] => i = j
    /\ line' = line \o [i \in DOMAIN order |-> [op |-> "sync", by |-> order[i]]]

\* reconcile throws before http.start was called.
Started == phase \in {"binding", "running", "failed"}

\* The detection ends: the owner's answers are applied to its rows and the scope follows in this
\* turn; when it failed the scope is empty.  Every caller that waited reconciles the listeners.
Detected ==
  /\ detect = "detecting"
  /\ detect' = "idle"
  /\ scope' \in {Confirmed(present), {}}
  /\ LET waiting == {a \in Answers : reply[a].at = "refreshing"}
         next == IF Started THEN "reconciling" ELSE "failed"
     IN /\ reply' = [a \in Answers |->
                      IF a \in waiting THEN [reply[a] EXCEPT !.at = next] ELSE reply[a]]
        /\ IF Started THEN Reconciles(waiting \cup {t \in {"timer"} : timer}) ELSE UNCHANGED line
  /\ timer' = FALSE
  /\ UNCHANGED <<pipe, phase, halt, present, decided, closed, work, sockets, listed, ticks>>

\* network-confirm for a network that was seen; the owner's answers are saved one at a time.
Confirm(a) ==
  /\ phase \in {"relay", "binding", "running"} /\ halt = "no"
  /\ reply[a].at = "new"
  /\ \E n \in present, allow \in BOOLEAN :
       reply' = [reply EXCEPT ![a] = [net |-> n, allow |-> allow, at |-> "queued"]]
  /\ UNCHANGED <<pipe, phase, halt, netVars, httpVars, listed, ticks, timer>>

\* decide has written the file: the answer counts, and the scope is refreshed.
Decide(a) ==
  /\ reply[a].at = "queued"
  /\ \/ /\ decided' = [decided EXCEPT ![reply[a].net] = IF reply[a].allow THEN "allow" ELSE "deny"]
        /\ reply' = [reply EXCEPT ![a].at = "refreshing"]
        /\ Refresh
     \/ /\ reply' = [reply EXCEPT ![a].at = "failed"]
        /\ UNCHANGED <<decided, detect>>
  /\ UNCHANGED <<pipe, phase, halt, present, scope, httpVars, listed, ticks, timer>>

-----------------------------------------------------------------------------
(* The listeners' queue. *)

Running(op) == line # <<>> /\ Head(line).op = op

\* Mutant: a refresh that ends late synchronizes closed listeners too.
MaySyncM == TRUE

\* Nothing is bound once close was asked for.
MaySync == closed = "no"

\* The operation's promise settles: the start-up, an answer or stop goes on.
Settles ==
  LET by == Head(line).by
  IN /\ line' = Tail(line)
     /\ work' = NoWork
     /\ reply' = IF by \in Answers THEN [reply EXCEPT ![by].at = "done"]
                 ELSE reply

\* synchronize begins: it wants the addresses of the scope at this moment.
BeginSync ==
  /\ Running("sync") /\ work = NoWork
  /\ IF MaySync
     THEN /\ work' = [wants |-> scope \cup {Loop}, host |-> Nobody, does |-> "next"]
          /\ UNCHANGED <<phase, line, reply>>
     ELSE /\ Settles
          /\ phase' = IF Head(line).by = "start" THEN "running" ELSE phase
  /\ UNCHANGED <<pipe, halt, netVars, closed, sockets, listed, ticks, timer>>

\* Mutant: listeners nobody wants any more are left alone.
NextHostsM ==
  IF Loop \notin sockets THEN {[host |-> Loop, does |-> "bind"]}
  ELSE {[host |-> h, does |-> "bind"] : h \in work.wants \ sockets}

\* Loopback first, then the listeners nobody wants any more, then the new ones.
NextHosts ==
  IF Loop \notin sockets THEN {[host |-> Loop, does |-> "bind"]}
  ELSE IF sockets \ work.wants # {} THEN {[host |-> h, does |-> "stop"] : h \in sockets \ work.wants}
  ELSE {[host |-> h, does |-> "bind"] : h \in work.wants \ sockets}

\* The next listener: a stopped one leaves the table, and its socket closes, at once.
SyncStep ==
  /\ Running("sync") /\ work.does = "next"
  /\ \E x \in NextHosts :
       /\ work' = [work EXCEPT !.host = x.host, !.does = x.does]
       /\ sockets' = IF x.does = "stop" THEN sockets \ {x.host} ELSE sockets
  /\ UNCHANGED <<pipe, phase, halt, netVars, closed, line, reply, listed, ticks, timer>>

\* It listens, or cannot bind, or its connections have closed.
HostDone ==
  /\ Running("sync") /\ work.host # Nobody
  /\ \/ /\ work.does = "bind"
        /\ sockets' = sockets \cup {work.host}
        /\ work' = [work EXCEPT !.host = Nobody, !.does = "next"]
     \/ /\ work.does = "bind" /\ work.host # Loop
        /\ work' = [work EXCEPT !.host = Nobody, !.does = "next", !.wants = @ \ {work.host}]
        /\ UNCHANGED sockets
     \/ /\ work.does = "stop"
        /\ work' = [work EXCEPT !.host = Nobody, !.does = "next"]
        /\ UNCHANGED sockets
  /\ UNCHANGED <<pipe, phase, halt, netVars, closed, line, reply, listed, ticks, timer>>

\* Every host was tried once.
SyncDone ==
  /\ Running("sync") /\ work.does = "next" /\ NextHosts = {}
  /\ Settles
  /\ phase' = IF Head(line).by = "start" THEN "running" ELSE phase
  /\ UNCHANGED <<pipe, halt, netVars, closed, sockets, listed, ticks, timer>>

\* Mutant: a failed operation leaves its queue rejected.
AfterFailureM == <<>>

\* queue = result.catch: the operations after a failed one still run.
AfterFailure == Tail(line)

\* The loopback address cannot be bound, which is required: start-up fails, and stops the server.
LoopFails ==
  /\ Running("sync") /\ work.does = "bind" /\ work.host = Loop
  /\ phase' = "failed"
  /\ work' = NoWork
  /\ IF halt = "no"
     THEN /\ halt' = "runtime" /\ closed' = "asked"
          /\ line' = Append(AfterFailure, [op |-> "close", by |-> "stop"])
     ELSE /\ line' = AfterFailure
          /\ UNCHANGED <<halt, closed>>
  /\ UNCHANGED <<pipe, netVars, sockets, reply, listed, ticks, timer>>

\* close: every listener in turn; the sockets close at once, the connections with them.
CloseHosts ==
  /\ Running("close")
  /\ IF sockets # {} THEN /\ \E h \in sockets : sockets' = sockets \ {h}
                        /\ UNCHANGED <<line, work, reply, closed>>
     ELSE Settles /\ closed' = "done" /\ UNCHANGED sockets
  /\ UNCHANGED <<pipe, phase, halt, netVars, listed, ticks, timer>>

-----------------------------------------------------------------------------
\* The owner's stop line, or the end of its pipe, is read once the protocol's reader is there.
OwnerStops == pipe # <<>> /\ BeginStop

LifeNext ==
  \/ Approve \/ Refuse \/ StartHttp \/ BeginStop \/ StopGoesOn
  \/ AdaptersChange \/ Tick \/ Detected
  \/ \E a \in Answers : Confirm(a) \/ Decide(a)
  \/ BeginSync \/ SyncStep \/ HostDone \/ SyncDone \/ LoopFails \/ CloseHosts

LifeSpec == LifeInit /\ [][LifeNext]_lifeVars

\* Every await of the server's own code returns (a socket or file operation, a detection with its
\* timeout), and a line in the pipe is read.  Nothing is assumed of the owner and the adapters.
LifeFair ==
  /\ WF_lifeVars(Approve \/ Refuse) /\ WF_lifeVars(StartHttp)
  /\ WF_lifeVars(StopGoesOn)
  /\ WF_lifeVars(BeginSync \/ SyncStep \/ HostDone \/ SyncDone \/ LoopFails \/ CloseHosts)
  /\ WF_lifeVars(OwnerStops)

FairLifeSpec == LifeSpec /\ LifeFair

-----------------------------------------------------------------------------
(* Properties. *)

\* When stop is over, and the instance file that keeps the offline config commands away is gone,
\* no listener is left and none is opened any more, whatever refresh, answer or start-up was
\* under way.
StoppedServesNobody ==
  ~listed => sockets = {} /\ (halt = "done" => work = NoWork)

\* Once the owner was told that a network is refused, nothing listens on it while no newer answer
\* about it is under way, although detections and reconciliations of before may end later.  (A stop
\* skips the reconciliation and closes the listeners itself.)
RefusedIsUnbound ==
  \A a \in Answers :
    LET n == reply[a].net
    IN /\ reply[a].at = "done"
       /\ decided[n] = "deny" /\ halt = "no"
       /\ \A b \in Answers \ {a} : reply[b].net = n => reply[b].at \in {"queued", "done", "failed"}
       => n \notin sockets

\* Nothing listens where it may not: neither after a stop nor on a refused network.
ListensWhereAllowed == StoppedServesNobody /\ RefusedIsUnbound

\* A stop that arrives with the approval, a start-up that fails, a signal: the stop always ends.
StopFinishes ==
  (halt = "runtime" \/ pipe = <<"start", "stop">>) ~> (halt = "done")

=============================================================================
