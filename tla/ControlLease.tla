---------------------------- MODULE ControlLease ----------------------------
(***************************************************************************)
(* Keyboard and mouse control: the server's lease (control-lease.mjs), its *)
(* callers in stream-runtime.mjs, the acknowledged commands of             *)
(* native-media.mjs and the permission each media worker enforces          *)
(* (media-worker.cpp, peer-permission.hpp).                                *)
(*                                                                         *)
(* The lease is a queue of operations, one running at a time.  Every await *)
(* of an operation is a phase, so timers, worker exits, disconnections and *)
(* other requests interleave exactly where the code yields.  A stream and  *)
(* a source are used once: their ids are fresh UUIDs in the code.          *)
(***************************************************************************)
EXTENDS Naturals, Sequences, FiniteSets

CONSTANTS
  Sessions,     \* signed-in devices
  Streams,      \* video subscriptions: the peers of the workers
  Sources,      \* shared sources, one media worker each
  SessionOf,    \* the session a stream belongs to
  SourceOf,     \* the source a stream is a peer of
  Modes,        \* permissions a device may have: all of AllModes, or fewer to bound a check
  Failing,      \* peers whose connection may fail: all Streams, or fewer to bound a check
  MaxWaiting,   \* bound on the operations waiting behind the running one
  None          \* no stream, session or request

AllModes == {"view-only", "approval", "available"}

ASSUME StreamsAssumption ==
  /\ Modes \subseteq AllModes
  /\ Failing \subseteq Streams
  /\ SessionOf \in [Streams -> Sessions]
  /\ SourceOf \in [Streams -> Sources]
  /\ MaxWaiting \in Nat
  /\ None \notin Streams \cup Sessions \cup Sources
  /\ Streams \cap Sources = {}

VARIABLES
  owner,      \* #owner: who the server says holds control
  op,         \* the running lease operation
  phase,      \* the await the running operation is at
  after,      \* what follows #release in the running operation
  request,    \* the latest setPermission call and its outcome
  waiting,    \* operations chained on #tail behind the running one
  connected,  \* sessions.list()
  mode,       \* the session's effective permission
  automatic,  \* automaticControl
  selected,   \* the stream the session last selected
  stream,     \* state of the registry's subscription
  removal,    \* who asked the worker first to remove the peer
  source,     \* state of the registry's source
  stopping,   \* NativeMedia stop() was called for the source
  pipe,       \* owner-pipe lines the worker has not read
  out,        \* worker lines the server has not read
  peers,      \* the worker's peers that are not removing
  leaving,    \* the worker's removing peers: media-net has not confirmed them closed
  permitted   \* PeerPermission.owner of the worker

leaseVars  == <<owner, op, phase, after, request, waiting>>
deviceVars == <<connected, mode, automatic, selected>>
streamVars == <<stream, removal, source, stopping>>
workerVars == <<pipe, out, peers, leaving, permitted>>
vars == <<leaseVars, deviceVars, streamVars, workerVars>>

\* An operation: what it does, for whom, and what its caller does when it ends.
Ops == [kind : {"grant", "revoke", "renew"}, session : Sessions \cup {None},
        stream : Streams \cup Sources \cup {None}, only : BOOLEAN, explicit : BOOLEAN,
        next : {"none", "select", "end", "close"}]

Owners == [session : Sessions, stream : Streams, explicit : BOOLEAN]

\* None is none of these records either.
ASSUME NoneAssumption == None \notin Ops \cup Owners

\* No setPermission call is of interest to the lease.
NoRequest == [stream |-> None, allowed |-> FALSE, reply |-> "error"]

\* The requestId of a command and of its answer matters in one way: whether it is the id of
\* the call that is still pending (current).
Commands == [type : {"permission"}, current : BOOLEAN, peer : Streams, allowed : BOOLEAN]
              \cup [type : {"remove"}, peers : SUBSET Streams]

Reports == [type : {"control-result"}, current : BOOLEAN, allowed : BOOLEAN]
             \cup [type : {"peer-closed", "peer-failed"}, peer : Streams]

TypeOK ==
  /\ owner \in Owners \cup {None}
  /\ op \in Ops \cup {None}
  /\ phase \in {"idle", "begin", "release", "remove", "grant", "renew", "cleanup"}
  /\ after \in {"grant", "cleanup", "finish"}
  /\ request \in [stream : Streams \cup {None}, allowed : BOOLEAN,
                  reply : {"wait", "true", "false", "error"}]
  /\ waiting \in Seq(Ops)
  /\ connected \in [Sessions -> {"new", "connected", "gone"}]
  /\ mode \in [Sessions -> AllModes]
  /\ automatic \subseteq Sessions
  /\ selected \in [Sessions -> Streams \cup {None}]
  /\ stream \in [Streams -> {"absent", "live", "closing", "last", "gone"}]
  /\ removal \in [Streams -> {"none", "lease", "other"}]
  /\ source \in [Sources -> {"none", "ready", "closing", "released"}]
  /\ stopping \in [Sources -> BOOLEAN]
  /\ pipe \in [Sources -> Seq(Commands)]
  /\ out \in [Sources -> Seq(Reports)]
  /\ peers \in [Sources -> SUBSET Streams]
  /\ leaving \in [Sources -> SUBSET Streams]
  /\ permitted \in [Sources -> Streams \cup {None}]

Init ==
  /\ owner = None
  /\ op = None
  /\ phase = "idle"
  /\ after = "finish"
  /\ request = NoRequest
  /\ waiting = <<>>
  /\ connected = [s \in Sessions |-> "new"]
  /\ mode = [s \in Sessions |-> "view-only"]
  /\ automatic = {}
  /\ selected = [s \in Sessions |-> None]
  /\ stream = [p \in Streams |-> "absent"]
  /\ removal = [p \in Streams |-> "none"]
  /\ source = [c \in Sources |-> "none"]
  /\ stopping = [c \in Sources |-> FALSE]
  /\ pipe = [c \in Sources |-> <<>>]
  /\ out = [c \in Sources |-> <<>>]
  /\ peers = [c \in Sources |-> {}]
  /\ leaving = [c \in Sources |-> {}]
  /\ permitted = [c \in Sources |-> None]

-----------------------------------------------------------------------------
(* Registry and permission lookups. *)

\* registry.subscription(p) is not null.
Subscribed(p) == stream[p] \in {"live", "closing"}

Subscriptions(c) == {p \in Streams : SourceOf[p] = c /\ Subscribed(p)}

\* currentControl: the target is live on a ready source and its device may hold control.
CurrentControl(s, p, explicit) ==
  /\ p \in Streams
  /\ SessionOf[p] = s
  /\ connected[s] = "connected"
  /\ stream[p] = "live"
  /\ source[SourceOf[p]] = "ready"
  /\ IF explicit THEN mode[s] # "view-only" ELSE mode[s] = "available"

\* #pending is not zero.
Pending == op # None

-----------------------------------------------------------------------------
(* Ending a subscription and a source. *)

\* Subscriptions C close and the workers are asked, once per peer, to remove those of E.  A
\* stopping worker is not asked: its exit is the answer.  The lines one turn of the event loop
\* writes to a worker travel together.
CloseAndRemove(C, E, by) ==
  LET removed == {p \in E : Subscribed(p) /\ removal[p] = "none"}
      asked(c) == {p \in removed : SourceOf[p] = c}
  IN /\ stream' = [p \in Streams |-> IF p \in C /\ Subscribed(p) THEN "closing" ELSE stream[p]]
     /\ removal' = [p \in Streams |-> IF p \in removed THEN by ELSE removal[p]]
     /\ pipe' = [c \in Sources |->
                   IF asked(c) # {} /\ ~stopping[c]
                   THEN Append(pipe[c], [type |-> "remove", peers |-> asked(c)])
                   ELSE pipe[c]]

\* #endSubscription up to its await.
EndSubscription(p, by) == CloseAndRemove({p}, {p}, by)

\* revalidate for one source: its subscriptions close and its worker is stopped.
CloseSource(c) ==
  /\ IF source[c] \in {"ready", "closing"}
     THEN /\ source' = [source EXCEPT ![c] = "closing"]
          /\ stream' = [p \in Streams |-> IF p \in Subscriptions(c) THEN "closing" ELSE stream[p]]
          /\ stopping' = [stopping EXCEPT ![c] = TRUE]
     ELSE UNCHANGED <<source, stream, stopping>>
  /\ UNCHANGED <<removal, pipe>>

-----------------------------------------------------------------------------
(* Lease operations, from one await to the next.  Each of these says everything about the
   lease, the streams and the pipes. *)

\* setPermission: rejected at once without a running worker, else sent with a new id.
Call(p, allowed, at) ==
  LET c == SourceOf[p]
      sent == Subscribed(p) /\ ~stopping[c]
  IN /\ phase' = at
     /\ request' = [stream |-> p, allowed |-> allowed, reply |-> IF sent THEN "wait" ELSE "error"]
     /\ pipe' = IF sent
                THEN [pipe EXCEPT ![c] = Append(@, [type |-> "permission", current |-> TRUE,
                                                    peer |-> p, allowed |-> allowed])]
                ELSE pipe
     /\ UNCHANGED <<stream, removal, source, stopping>>

\* Mutant: every settled operation records its target.
SelectsM(ok) == ok /\ op.session # None

\* selectStream goes on after its grant or revoke: the selection counts if the stream still lives.
Selects(ok) == op.next = "select" /\ ok /\ stream[op.stream] = "live"

\* The operation settles and its caller continues: stopStream and revalidate end the stream
\* or source however it settled, selectStream records the selection unless it was rejected.
Finish(ok) ==
  /\ IF waiting = <<>>
     THEN op' = None /\ phase' = "idle" /\ UNCHANGED waiting
     ELSE op' = Head(waiting) /\ phase' = "begin" /\ waiting' = Tail(waiting)
  /\ request' = NoRequest
  /\ after' = "finish"
  /\ CASE op.next = "end"   -> EndSubscription(op.stream, "other") /\ UNCHANGED <<source, stopping>>
       [] op.next = "close" -> CloseSource(op.stream)
       [] OTHER             -> UNCHANGED <<streamVars, pipe>>
  /\ selected' = IF Selects(ok) THEN [selected EXCEPT ![op.session] = op.stream] ELSE selected

\* Mutant: a failed grant leaves its peer alone.
CleanupM == Finish(FALSE)

\* The catch of grant: the peer that may hold permission is removed before the error is thrown.
Cleanup ==
  /\ phase' = "cleanup"
  /\ request' = NoRequest
  /\ after' = "finish"
  /\ EndSubscription(op.stream, "lease")
  /\ UNCHANGED <<op, waiting, source, stopping, selected>>

Target == CurrentControl(op.session, op.stream, op.explicit)

\* Mutant: a self-service request displaces the owner.
AvailableM(only) == TRUE

\* A self-service request (onlyIfAvailable) yields to any owner.
Available(only) == ~only \/ owner = None

\* What an operation does once #release has returned.
Resume(then) ==
  \/ /\ then = "grant"
     /\ Target
     /\ Call(op.stream, TRUE, "grant")
     /\ after' = "finish"
     /\ UNCHANGED <<op, waiting, selected>>
  \/ /\ then = "grant"
     /\ ~Target
     /\ Finish(FALSE)
  \/ then = "cleanup" /\ Cleanup
  \/ then = "finish" /\ Finish(TRUE)

\* #release: the owner is forgotten at once, the worker's acknowledgement is awaited.
Release(held, then) ==
  /\ owner' = None
  /\ IF held = None THEN Resume(then)
     ELSE /\ after' = then
          /\ Call(held.stream, FALSE, "release")
          /\ UNCHANGED <<op, waiting, selected>>

OwnerActive(o) == CurrentControl(o.session, o.stream, o.explicit)

\* Variables no lease step touches.
LeaseStepKeeps == UNCHANGED <<connected, mode, automatic, out, peers, leaving, permitted>>

\* Mutant: a grant does not release the previous owner first.
BeginGrantM ==
  /\ op.kind = "grant"
  /\ IF ~Available(op.only) \/ ~Target THEN Finish(FALSE) ELSE Resume("grant")
  /\ UNCHANGED owner

\* grant begins: a self-service request yields to an owner, a dead target is refused.
BeginGrant ==
  /\ op.kind = "grant"
  /\ IF ~Available(op.only) \/ ~Target
     THEN Finish(FALSE) /\ UNCHANGED owner
     ELSE Release(owner, "grant")

\* revoke begins: only the named session's control is released.
BeginRevoke ==
  /\ op.kind = "revoke"
  /\ IF owner # None /\ owner.session = op.session
     THEN Release(owner, "finish")
     ELSE Finish(TRUE) /\ UNCHANGED owner

\* Mutant: a renewal leaves an owner that is no longer active in place.
BeginRenewM ==
  /\ op.kind = "renew"
  /\ IF owner # None /\ OwnerActive(owner)
     THEN /\ Call(owner.stream, TRUE, "renew")
          /\ UNCHANGED <<owner, after, op, waiting, selected>>
     ELSE Finish(TRUE) /\ UNCHANGED owner

\* renew begins: an owner that may no longer hold control is released, another is extended.
BeginRenew ==
  /\ op.kind = "renew"
  /\ \/ owner = None /\ Finish(TRUE) /\ UNCHANGED owner
     \/ owner # None /\ ~OwnerActive(owner) /\ Release(owner, "finish")
     \/ /\ owner # None
        /\ OwnerActive(owner)
        /\ Call(owner.stream, TRUE, "renew")
        /\ UNCHANGED <<owner, after, op, waiting, selected>>

Begin ==
  /\ phase = "begin"
  /\ BeginGrant \/ BeginRevoke \/ BeginRenew
  /\ LeaseStepKeeps

\* Mutant: an unacknowledged revoke counts as done.
ReleasedM ==
  /\ phase = "release"
  /\ request.reply # "wait"
  /\ Resume(after)
  /\ UNCHANGED owner
  /\ LeaseStepKeeps

\* The awaited setPermission(previous, false) of #release settled.
Released ==
  /\ phase = "release"
  /\ request.reply # "wait"
  /\ IF request.reply = "false"
     THEN Resume(after)
     ELSE /\ phase' = "remove"
          /\ EndSubscription(request.stream, "lease")
          /\ UNCHANGED <<op, after, waiting, request, source, stopping, selected>>
  /\ UNCHANGED owner
  /\ LeaseStepKeeps

\* removePeer(p) returned: no subscription is left, and the call that unsubscribed the last
\* one also waited for the source to stop.
PeerRemoved(p) ==
  \/ stream[p] \in {"absent", "gone"}
  \/ stream[p] = "last" /\ removal[p] = "other"

\* The fail-closed removal of #release is done.
ReleasedByRemoval ==
  /\ phase = "remove"
  /\ PeerRemoved(request.stream)
  /\ Resume(after)
  /\ UNCHANGED owner
  /\ LeaseStepKeeps

\* The awaited setPermission(target, true) of grant settled: the owner is recorded only on an
\* acknowledged grant to a target that is still active.
Granted ==
  /\ phase = "grant"
  /\ request.reply # "wait"
  /\ IF request.reply = "true"
     THEN LET new == [session |-> op.session, stream |-> op.stream, explicit |-> op.explicit]
          IN IF Target
             THEN owner' = new /\ Finish(TRUE)
             ELSE Release(new, "cleanup")
     ELSE Cleanup /\ UNCHANGED owner
  /\ LeaseStepKeeps

\* The failed grant's peer is gone and the caller gets its error.
CleanedUp ==
  /\ phase = "cleanup"
  /\ PeerRemoved(op.stream)
  /\ Finish(FALSE)
  /\ UNCHANGED owner
  /\ LeaseStepKeeps

\* The awaited setPermission(owner, true) of renew settled.
Renewed ==
  /\ phase = "renew"
  /\ request.reply # "wait"
  /\ IF request.reply = "true" /\ OwnerActive(owner)
     THEN Finish(TRUE) /\ UNCHANGED owner
     ELSE Release(owner, "finish")
  /\ LeaseStepKeeps

LeaseStep == Begin \/ Released \/ ReleasedByRemoval \/ Granted \/ CleanedUp \/ Renewed

-----------------------------------------------------------------------------
(* Callers: viewers over HTTP, the host's command pipe, the server's timers. *)

NewOp(kind, s, p, only, explicit, next) ==
  [kind |-> kind, session |-> s, stream |-> p, only |-> only, explicit |-> explicit, next |-> next]

\* #serialize.  The first operation begins in a later job of the event loop.
Enqueue(o) ==
  /\ IF op = None
     THEN op' = o /\ phase' = "begin" /\ UNCHANGED waiting
     ELSE /\ Len(waiting) < MaxWaiting
          /\ waiting' = Append(waiting, o)
          /\ UNCHANGED <<op, phase>>
  /\ UNCHANGED <<owner, after, request>>

\* Every job of one event runs before the next event: a viewer's request never finds the head
\* of the queue not yet begun.
Quiet == phase # "begin"

\* A session is admitted; one whose permission is "available" may later take control itself.
Connect(s, m) ==
  /\ connected[s] = "new"
  /\ connected' = [connected EXCEPT ![s] = "connected"]
  /\ mode' = [mode EXCEPT ![s] = m]
  /\ automatic' = IF m = "available" THEN automatic \cup {s} ELSE automatic
  /\ UNCHANGED <<leaseVars, selected, streamVars, workerVars>>

\* An offer was answered: the stream is live and its worker knows the peer.
Join(p) ==
  LET c == SourceOf[p]
  IN /\ stream[p] = "absent"
     /\ connected[SessionOf[p]] = "connected"
     /\ source[c] \in {"none", "ready"}
     /\ ~stopping[c]
     /\ stream' = [stream EXCEPT ![p] = "live"]
     /\ source' = [source EXCEPT ![c] = "ready"]
     /\ peers' = [peers EXCEPT ![c] = @ \cup {p}]
     /\ UNCHANGED <<leaseVars, deviceVars, removal, stopping, pipe, out, leaving, permitted>>

\* The host edits the Access default or the device's own permission.
SetMode(s, m) ==
  /\ connected[s] = "connected"
  /\ mode[s] # m
  /\ mode' = [mode EXCEPT ![s] = m]
  /\ UNCHANGED <<leaseVars, connected, automatic, selected, streamVars, workerVars>>

\* selectStream: control the session holds on another stream moves along, or is given up
\* when the new stream may not hold it.  grant rejects while a change is pending.
SelectStream(s, p) ==
  /\ connected[s] = "connected"
  /\ SessionOf[p] = s
  /\ stream[p] = "live"
  /\ Quiet
  /\ IF owner # None /\ owner.session = s /\ owner.stream # p
     THEN /\ IF CurrentControl(s, p, owner.explicit)
             THEN ~Pending /\ Enqueue(NewOp("grant", s, p, FALSE, owner.explicit, "select"))
             ELSE Enqueue(NewOp("revoke", s, p, FALSE, FALSE, "select"))
          /\ UNCHANGED selected
     ELSE selected' = [selected EXCEPT ![s] = p] /\ UNCHANGED leaseVars
  /\ UNCHANGED <<connected, mode, automatic, streamVars, workerVars>>

\* requestControl: only for a session that may help itself, and only when nobody holds control.
RequestControl(s) ==
  /\ connected[s] = "connected"
  /\ s \in automatic
  /\ Quiet
  /\ CurrentControl(s, selected[s], FALSE)
  /\ Available(TRUE)
  /\ ~Pending
  /\ Enqueue(NewOp("grant", s, selected[s], TRUE, FALSE, "none"))
  /\ UNCHANGED <<deviceVars, streamVars, workerVars>>

\* Mutant: the viewer hands back control the host granted.
ReleaseControlM(s) ==
  /\ connected[s] = "connected"
  /\ Quiet
  /\ owner # None
  /\ owner.session = s
  /\ Enqueue(NewOp("revoke", s, None, FALSE, FALSE, "none"))
  /\ UNCHANGED <<deviceVars, streamVars, workerVars>>

\* releaseControl: control the session took itself is handed back, the host's grant is kept.
ReleaseControl(s) ==
  /\ connected[s] = "connected"
  /\ Quiet
  /\ owner # None
  /\ owner.session = s
  /\ ~owner.explicit
  /\ Enqueue(NewOp("revoke", s, None, FALSE, FALSE, "none"))
  /\ UNCHANGED <<deviceVars, streamVars, workerVars>>

\* command grant from the host.
HostGrant(s) ==
  /\ CurrentControl(s, selected[s], TRUE)
  /\ ~Pending
  /\ Enqueue(NewOp("grant", s, selected[s], FALSE, TRUE, "none"))
  /\ UNCHANGED <<deviceVars, streamVars, workerVars>>

\* Mutant: a revoke is queued only for the session that is the owner at this moment.
HostRevokeM(s) ==
  /\ connected[s] = "connected"
  /\ automatic' = automatic \ {s}
  /\ IF owner # None /\ owner.session = s
     THEN Enqueue(NewOp("revoke", s, None, FALSE, FALSE, "none"))
     ELSE UNCHANGED leaseVars
  /\ UNCHANGED <<connected, mode, selected, streamVars, workerVars>>

\* command revoke from the host: the session may not help itself again.
HostRevoke(s) ==
  /\ connected[s] = "connected"
  /\ automatic' = automatic \ {s}
  /\ Enqueue(NewOp("revoke", s, None, FALSE, FALSE, "none"))
  /\ UNCHANGED <<connected, mode, selected, streamVars, workerVars>>

\* stopStream of E, streams of session s: control on one of them is revoked before it ends.
StopStreams(s, E) ==
  LET held == {p \in E : owner # None /\ owner.stream = p}
  IN /\ CloseAndRemove(E, E \ held, "other")
     /\ IF held = {} THEN UNCHANGED leaseVars
        ELSE Enqueue(NewOp("revoke", s, owner.stream, FALSE, FALSE, "end"))
     /\ UNCHANGED <<source, stopping, out, peers, leaving, permitted>>

\* stop-stream from the host or /api/stream-stop from the viewer.
StopStream(p) ==
  /\ connected[SessionOf[p]] = "connected"
  /\ Subscribed(p)
  /\ StopStreams(SessionOf[p], {p})
  /\ UNCHANGED deviceVars

\* A session ends (sign-out, expiry, removal of its device): onRevoke and stopSession.
Disconnect(s) ==
  /\ connected[s] = "connected"
  /\ connected' = [connected EXCEPT ![s] = "gone"]
  /\ automatic' = automatic \ {s}
  /\ selected' = [selected EXCEPT ![s] = None]
  /\ mode' = [mode EXCEPT ![s] = "view-only"]
  /\ StopStreams(s, {p \in Streams : SessionOf[p] = s /\ Subscribed(p)})

\* revalidate found the source invalid (display or policy changed).
Revalidate(c) ==
  /\ source[c] = "ready"
  /\ IF owner # None /\ owner.stream \in Subscriptions(c)
     THEN /\ Enqueue(NewOp("revoke", owner.session, c, FALSE, FALSE, "close"))
          /\ UNCHANGED <<streamVars, pipe>>
     ELSE CloseSource(c) /\ UNCHANGED leaseVars
  /\ UNCHANGED <<deviceVars, out, peers, leaving, permitted>>

\* The 2 s control timer.
Renew ==
  /\ ~Pending
  /\ Enqueue(NewOp("renew", None, None, FALSE, FALSE, "none"))
  /\ UNCHANGED <<deviceVars, streamVars, workerVars>>

-----------------------------------------------------------------------------
(* native-media.mjs: timers, lines from the workers, worker exits. *)

\* A late command or answer: its id is not the pending one any more.
Late(m) == IF m.type \in {"permission", "control-result"} THEN [m EXCEPT !.current = FALSE] ELSE m

\* 1.5 s without an acknowledgement: the call is rejected and its answer will come late.
RequestTimeout ==
  /\ request.reply = "wait"
  /\ request' = [request EXCEPT !.reply = "error"]
  /\ pipe' = [c \in Sources |-> [k \in 1..Len(pipe[c]) |-> Late(pipe[c][k])]]
  /\ out' = [c \in Sources |-> [k \in 1..Len(out[c]) |-> Late(out[c][k])]]
  /\ UNCHANGED <<owner, op, phase, after, waiting, deviceVars, streamVars, peers, leaving, permitted>>

\* control-result: it settles the pending call whose id it carries and no other.
ReceiveResult(c, m) ==
  /\ m.type = "control-result"
  /\ IF request.reply = "wait" /\ m.current
     THEN request' = [request EXCEPT !.reply = IF m.allowed THEN "true" ELSE "false"]
     ELSE UNCHANGED request
  /\ UNCHANGED <<owner, op, phase, after, waiting, deviceVars, streamVars, pipe>>

\* The subscription leaves the registry; the last one of an open source stops it.
Unsubscribe(p) ==
  LET c == SourceOf[p]
      last == Subscriptions(c) = {p} /\ source[c] # "closing"
  IN /\ stream' = [stream EXCEPT ![p] = IF last THEN "last" ELSE "gone"]
     /\ source' = [source EXCEPT ![c] = IF last THEN "closing" ELSE @]
     /\ stopping' = [stopping EXCEPT ![c] = last \/ @]
     /\ selected' = [s \in Sessions |-> IF selected[s] = p THEN None ELSE selected[s]]

\* peer-closed: the removal is acknowledged and #endSubscription goes on.
ReceiveClosed(c, m) ==
  /\ m.type = "peer-closed"
  /\ IF Subscribed(m.peer) THEN Unsubscribe(m.peer) ELSE UNCHANGED <<stream, source, stopping, selected>>
  /\ UNCHANGED <<leaseVars, connected, mode, automatic, removal, pipe>>

\* peer-failed: a live peer's subscription ends; a peer being removed is left to peer-closed.
ReceiveFailed(c, m) ==
  /\ m.type = "peer-failed"
  /\ IF removal[m.peer] = "none" THEN EndSubscription(m.peer, "other")
     ELSE UNCHANGED <<stream, removal, pipe>>
  /\ UNCHANGED <<leaseVars, deviceVars, source, stopping>>

Receive(c) ==
  /\ out[c] # <<>>
  /\ out' = [out EXCEPT ![c] = Tail(@)]
  /\ LET m == Head(out[c])
     IN ReceiveResult(c, m) \/ ReceiveClosed(c, m) \/ ReceiveFailed(c, m)
  /\ UNCHANGED <<peers, leaving, permitted>>

\* Mutant: only the removals the lease asks for are bounded in time.
RemovalTimeoutM(p) ==
  /\ Subscribed(p)
  /\ removal[p] = "lease"
  /\ ~stopping[SourceOf[p]]
  /\ stopping' = [stopping EXCEPT ![SourceOf[p]] = TRUE]
  /\ UNCHANGED <<leaseVars, deviceVars, stream, removal, source, workerVars>>

\* 1.5 s without peer-closed: the peer may still be sending, so its source is stopped.
RemovalTimeout(p) ==
  /\ Subscribed(p)
  /\ removal[p] # "none"
  /\ ~stopping[SourceOf[p]]
  /\ stopping' = [stopping EXCEPT ![SourceOf[p]] = TRUE]
  /\ UNCHANGED <<leaseVars, deviceVars, stream, removal, source, workerVars>>

\* The worker process ended, by itself, on the stop line or killed 3 s after it: the pending
\* call is rejected, every removal is done and the registry releases the source.  The lease
\* keeps its owner until an operation looks at it.
WorkerExit(c) ==
  LET lost == {p \in Streams : SourceOf[p] = c /\ stream[p] # "absent"}
  IN /\ source[c] \in {"ready", "closing"}
     /\ source' = [source EXCEPT ![c] = "released"]
     /\ stream' = [p \in Streams |-> IF p \in lost THEN "gone" ELSE stream[p]]
     /\ selected' = [s \in Sessions |-> IF selected[s] \in lost THEN None ELSE selected[s]]
     /\ request' = [request EXCEPT !.reply =
                      IF @ = "wait" /\ SourceOf[request.stream] = c THEN "error" ELSE @]
     /\ pipe' = [pipe EXCEPT ![c] = <<>>]
     /\ out' = [out EXCEPT ![c] = <<>>]
     /\ peers' = [peers EXCEPT ![c] = {}]
     /\ leaving' = [leaving EXCEPT ![c] = {}]
     /\ permitted' = [permitted EXCEPT ![c] = None]
     /\ UNCHANGED <<owner, op, phase, after, waiting, connected, mode, automatic, removal, stopping>>

-----------------------------------------------------------------------------
(* media-worker.cpp. *)

\* control-permission: granting one peer ends the permission of any other peer of the source;
\* an unknown or removing peer clears it.  The reply says whether the named peer is permitted.
SetPeerPermission(c, m) ==
  LET known == m.peer \in peers[c]
  IN /\ m.type = "permission"
     /\ pipe' = [pipe EXCEPT ![c] = Tail(@)]
     /\ permitted' = [permitted EXCEPT ![c] =
                        IF m.allowed THEN (IF known THEN m.peer ELSE None)
                        ELSE IF @ = m.peer THEN None ELSE @]
     /\ out' = [out EXCEPT ![c] = Append(@, [type |-> "control-result", current |-> m.current,
                                             allowed |-> m.allowed /\ known])]
     /\ UNCHANGED <<peers, leaving>>

\* remove-peer: the permission ends at once.  A peer the worker does not know is reported
\* closed at once, another when media-net has closed it.
RemovePeer(c, p) ==
  LET m == Head(pipe[c])
      known == p \in peers[c]
      rest == IF m.peers = {p} THEN Tail(pipe[c])
              ELSE [pipe[c] EXCEPT ![1] = [type |-> "remove", peers |-> m.peers \ {p}]]
  IN /\ m.type = "remove"
     /\ p \in m.peers
     /\ pipe' = [pipe EXCEPT ![c] = rest]
     /\ permitted' = [permitted EXCEPT ![c] = IF @ = p THEN None ELSE @]
     /\ peers' = [peers EXCEPT ![c] = @ \ {p}]
     /\ leaving' = [leaving EXCEPT ![c] = IF known THEN @ \cup {p} ELSE @]
     /\ out' = IF known THEN out
               ELSE [out EXCEPT ![c] = Append(@, [type |-> "peer-closed", peer |-> p])]

WorkerCommand(c) ==
  /\ pipe[c] # <<>>
  /\ SetPeerPermission(c, Head(pipe[c])) \/ \E p \in Streams : RemovePeer(c, p)
  /\ UNCHANGED <<leaseVars, deviceVars, streamVars>>

\* media-net reports that a removing peer is closed.
PeerClosed(p) ==
  LET c == SourceOf[p]
  IN /\ p \in leaving[c]
     /\ leaving' = [leaving EXCEPT ![c] = @ \ {p}]
     /\ out' = [out EXCEPT ![c] = Append(@, [type |-> "peer-closed", peer |-> p])]
     /\ UNCHANGED <<leaseVars, deviceVars, streamVars, pipe, peers, permitted>>

\* The 5 s lease ran out without a renewal.
PermissionExpires(c) ==
  /\ permitted[c] # None
  /\ permitted' = [permitted EXCEPT ![c] = None]
  /\ UNCHANGED <<leaseVars, deviceVars, streamVars, pipe, out, peers, leaving>>

\* A viewer's connection failed.
PeerFails(p) ==
  LET c == SourceOf[p]
  IN /\ p \in Failing \cap peers[c]
     /\ peers' = [peers EXCEPT ![c] = @ \ {p}]
     /\ permitted' = [permitted EXCEPT ![c] = IF @ = p THEN None ELSE @]
     /\ out' = [out EXCEPT ![c] = Append(@, [type |-> "peer-failed", peer |-> p])]
     /\ UNCHANGED <<leaseVars, deviceVars, streamVars, pipe, leaving>>

-----------------------------------------------------------------------------
Next ==
  \/ LeaseStep
  \/ Renew
  \/ RequestTimeout
  \/ \E s \in Sessions : \/ Disconnect(s)
                         \/ RequestControl(s) \/ ReleaseControl(s)
                         \/ HostGrant(s) \/ HostRevoke(s)
                         \/ \E m \in Modes : Connect(s, m) \/ SetMode(s, m)
                         \/ \E p \in Streams : SelectStream(s, p)
  \/ \E p \in Streams : Join(p) \/ StopStream(p) \/ RemovalTimeout(p) \/ PeerFails(p) \/ PeerClosed(p)
  \/ \E c \in Sources : \/ Revalidate(c) \/ Receive(c) \/ WorkerExit(c)
                        \/ WorkerCommand(c) \/ PermissionExpires(c)

\* The server's own jobs and timers run; a stopped worker process ends (it is killed).  Nothing
\* is assumed of a running worker, which may stop reading, nor of viewers and the host.  The
\* control timer fires for ever, so it finds the lease idle again and again (strong fairness).
Fairness ==
  /\ WF_vars(LeaseStep)
  /\ WF_vars(RequestTimeout)
  /\ SF_vars(Renew)
  /\ \A p \in Streams : WF_vars(RemovalTimeout(p))
  /\ \A c \in Sources : WF_vars(stopping[c] /\ WorkerExit(c))

Spec == Init /\ [][Next]_vars
FairSpec == Spec /\ Fairness

-----------------------------------------------------------------------------
(* Properties. *)

\* At most one peer of all workers is permitted to send input, whatever acknowledgements are
\* lost or late: "only one peer holds it".
AtMostOnePermitted ==
  \A c, d \in Sources : permitted[c] # None /\ permitted[d] # None => c = d

\* A permitted peer is one the lease answers for: the owner, or the peer the running operation
\* is about to release, remove or has just granted.  No peer keeps input behind an idle lease.
PermittedIsAccounted ==
  \A c \in Sources : permitted[c] # None =>
    \/ owner # None /\ owner.stream = permitted[c]
    \/ phase \in {"release", "remove"} /\ request.stream = permitted[c]
    \/ phase \in {"grant", "cleanup"} /\ op.stream = permitted[c]

\* After the host revokes a session (or it ends) it holds no control it took by itself on a
\* stream that still exists, except while the revoke that takes it away is still queued.
RevokedCannotHold ==
  owner # None /\ ~owner.explicit /\ owner.session \notin automatic /\ Subscribed(owner.stream) =>
    \/ op # None /\ op.kind = "revoke" /\ op.session = owner.session
    \/ \E k \in 1..Len(waiting) : waiting[k].kind = "revoke" /\ waiting[k].session = owner.session

\* A viewer's own request never ends another session's control.
RequestNeverTakes ==
  [][(owner # None /\ owner'  # owner /\ op # None /\ op.kind = "grant" /\ op.only)
       => owner.session = op.session]_vars

\* Control the host granted is never given up by the viewer's own release: it ends by another
\* grant of the host or a move to another stream, by the host's revoke (which also ends self
\* service), with its stream or source, or at a renewal when the owner is no longer active or its
\* worker did not confirm it.
HostGrantStays ==
  [][(owner # None /\ owner.explicit /\ owner' # owner)
       => \/ op.kind = "grant" /\ op.explicit
          \/ op.kind = "revoke" /\ (op.next # "none" \/ owner.session \notin automatic)
          \/ op.kind = "renew" /\ (~OwnerActive(owner) \/ request.reply # "true")]_vars

\* Every subscription that starts to close leaves the registry, even when its worker hangs and
\* the lease is waiting for that same worker: no two of them wait on each other.
ClosingEnds == \A p \in Streams : (stream[p] = "closing") ~> (stream[p] \in {"last", "gone"})

\* An owner whose stream is gone (its worker exited, its peer failed) is dropped by the control
\* timer at the latest, provided the commands of the host do not keep the lease busy for ever.
DeadOwnerDropped ==
  ([]<>~Pending) =>
    \A p \in Streams :
      (owner # None /\ owner.stream = p /\ stream[p] = "gone")
        ~> (owner = None \/ owner.stream # p)

\* The lease as its clients see it: input passes from peer to peer through nobody.
Holder == INSTANCE ControlHolder WITH
  holders <- {permitted[c] : c \in Sources} \ {None}
\* The lease implements ControlHolder: whatever the workers and their pipes do, input passes from
\* peer to peer through nobody.
HandOver == Holder!Spec

=============================================================================
