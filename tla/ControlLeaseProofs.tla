-------------------------- MODULE ControlLeaseProofs --------------------------
(***************************************************************************)
(* Proofs about ControlLease for any number of devices, streams, sources   *)
(* and waiting operations.  The inductive invariant says, besides types,   *)
(* what an operation's phase implies (LeaseShape), which peers a worker    *)
(* can know (PeersExist), what a current command or answer in the pipes    *)
(* implies (CallOrder), and that whoever may get permission is a peer the  *)
(* lease answers for (HoldersAccounted).  A second one (Losing) says what  *)
(* the revokes and grants in the queue imply about the owner and about who *)
(* may help itself.                                                        *)
(***************************************************************************)
EXTENDS ControlLease, TLAPS

\* What the queue holds: a grant names a device and its stream, and an operation whose caller
\* ends a stream, closes a source or records a selection names it.
WellFormed(o) ==
  /\ o.kind = "grant" => o.session \in Sessions /\ o.stream \in Streams
  /\ o.next = "select" => o.session \in Sessions /\ o.stream \in Streams
  /\ o.next = "end" => o.stream \in Streams
  /\ o.next = "close" => o.stream \in Sources

QueuedOps == {o \in Ops : WellFormed(o)}

LeaseShape ==
  /\ op \in QueuedOps \cup {None}
  /\ waiting \in Seq(QueuedOps)
  /\ (phase = "idle") <=> (op = None)
  /\ phase \in {"grant", "cleanup"} => op.kind = "grant" /\ owner = None
  /\ after \in {"grant", "cleanup"} => op # None /\ op.kind = "grant"
  /\ phase \in {"release", "remove"} =>
       owner = None /\ request.stream \in Streams /\ ~request.allowed
  /\ phase = "renew" =>
       op.kind = "renew" /\ owner # None /\ request.stream = owner.stream /\ request.allowed
  /\ phase = "grant" => request.stream = op.stream /\ request.allowed
  /\ request.reply = "wait" => phase \in {"release", "grant", "renew"}
  /\ request.reply # "error" => phase \in {"release", "remove", "grant", "renew"}

\* A line to a worker names streams that have existed, a removal only peers of that worker.
LineExists(c, m) ==
  /\ m.type = "permission" => stream[m.peer] # "absent"
  /\ m.type = "remove" => \A p \in m.peers : SourceOf[p] = c /\ stream[p] # "absent"

\* A peer reported closed has gone for good.
ReportExists(c, m) ==
  m.type = "peer-closed" =>
    m.peer \notin peers[c] /\ SourceOf[m.peer] = c /\ stream[m.peer] # "absent"

\* A worker's peers are subscribed streams of its source; one reported closed, on its way out or
\* to be removed never becomes a peer again.
PeersExist ==
  \A c \in Sources :
    /\ \A p \in peers[c] : SourceOf[p] = c /\ Subscribed(p)
    /\ \A p \in leaving[c] : p \notin peers[c] /\ stream[p] # "absent"
    /\ permitted[c] \in peers[c] \cup {None}
    /\ \A k \in 1..Len(pipe[c]) : LineExists(c, pipe[c][k])
    /\ \A k \in 1..Len(out[c]) : ReportExists(c, out[c][k])

\* Permission commands and answers, and those that belong to the call that still waits.
IsCommand(m) == m.type = "permission"
CurrentCommand(m) == m.type = "permission" /\ m.current
CurrentResult(m) == m.type = "control-result" /\ m.current

\* The worker has done all the server asked of it about permission, and what it was last asked.
Done(c) ==
  /\ c = SourceOf[request.stream]
  /\ \A k \in 1..Len(pipe[c]) : ~IsCommand(pipe[c][k])
  /\ ~request.allowed => permitted[c] # request.stream

CallOrder ==
  /\ \A c \in Sources : \A k \in 1..Len(pipe[c]) :
       CurrentCommand(pipe[c][k]) =>
         /\ request.reply = "wait"
         /\ c = SourceOf[request.stream]
         /\ pipe[c][k].peer = request.stream /\ pipe[c][k].allowed = request.allowed
         /\ \A j \in 1..Len(pipe[c]) : IsCommand(pipe[c][j]) => j <= k
         /\ \A j \in 1..Len(out[c]) : ~CurrentResult(out[c][j])
  /\ \A c \in Sources : \A k \in 1..Len(out[c]) :
       CurrentResult(out[c][k]) =>
         /\ request.reply = "wait"
         /\ Done(c)
         /\ \A j \in 1..Len(out[c]) : CurrentResult(out[c][j]) => j = k
  /\ request.reply \in {"true", "false"} => \A c \in Sources : c = SourceOf[request.stream] => Done(c)

\* The peer is permitted, or would be once its worker has read its pipe.
MayHold(c, p) ==
  \/ permitted[c] = p
  \/ p \in peers[c] /\ \E k \in 1..Len(pipe[c]) :
                         IsCommand(pipe[c][k]) /\ pipe[c][k].allowed /\ pipe[c][k].peer = p

\* The lease answers for the peer.
Accounted(p) ==
  \/ owner # None /\ owner.stream = p
  \/ phase \in {"release", "remove"} /\ request.stream = p
  \/ phase \in {"grant", "cleanup"} /\ op.stream = p

HoldersAccounted == \A c \in Sources, p \in Streams : MayHold(c, p) => Accounted(p)

IInv == TypeOK /\ LeaseShape /\ PeersExist /\ CallOrder /\ HoldersAccounted
-----------------------------------------------------------------------------
(* Sequences. *)

\* Appending to a sequence.
LEMMA AppendAt ==
  ASSUME NEW S, NEW q \in Seq(S), NEW x \in S
  PROVE  /\ Append(q, x) \in Seq(S)
         /\ Len(Append(q, x)) = Len(q) + 1
         /\ \A k \in 1..Len(q) : Append(q, x)[k] = q[k]
         /\ Append(q, x)[Len(q) + 1] = x
  OBVIOUS

\* Taking the first element off a sequence.
LEMMA TailAt ==
  ASSUME NEW S, NEW q \in Seq(S), q # <<>>
  PROVE  /\ Tail(q) \in Seq(S)
         /\ Head(q) \in S
         /\ Len(q) \in Nat \ {0}
         /\ Len(Tail(q)) = Len(q) - 1
         /\ \A k \in 1..Len(Tail(q)) : k + 1 \in 1..Len(q) /\ Tail(q)[k] = q[k + 1]
         /\ Head(q) = q[1]
  OBVIOUS

\* The lines to and from a worker.
LEMMA RemoveIsCommand ==
  ASSUME NEW P \in SUBSET Streams
  PROVE  [type |-> "remove", peers |-> P] \in Commands
  BY DEF Commands

LEMMA PermissionIsCommand ==
  ASSUME NEW p \in Streams, NEW a \in BOOLEAN, NEW b \in BOOLEAN
  PROVE  [type |-> "permission", current |-> b, peer |-> p, allowed |-> a] \in Commands
  BY DEF Commands

LEMMA Fields ==
  /\ \A m \in Commands : \/ /\ m.type = "permission" /\ m.peer \in Streams
                            /\ m.current \in BOOLEAN /\ m.allowed \in BOOLEAN
                         \/ m.type = "remove" /\ m.peers \in SUBSET Streams
  /\ \A m \in Reports : \/ /\ m.type = "control-result"
                           /\ m.current \in BOOLEAN /\ m.allowed \in BOOLEAN
                        \/ m.type \in {"peer-closed", "peer-failed"} /\ m.peer \in Streams
  BY DEF Commands, Reports

\* Closing subscriptions keeps the types of what it changes.
LEMMA CloseAndRemoveType ==
  ASSUME TypeOK, NEW C, NEW E \in SUBSET Streams, NEW by \in {"lease", "other"},
         CloseAndRemove(C, E, by)
  PROVE  /\ stream' \in [Streams -> {"absent", "live", "closing", "last", "gone"}]
         /\ removal' \in [Streams -> {"none", "lease", "other"}]
         /\ pipe' \in [Sources -> Seq(Commands)]
<1>1. stream' \in [Streams -> {"absent", "live", "closing", "last", "gone"}]
  BY DEF TypeOK, CloseAndRemove
<1>2. removal' \in [Streams -> {"none", "lease", "other"}]
  BY DEF TypeOK, CloseAndRemove
<1>3. pipe' \in [Sources -> Seq(Commands)]
  <2> DEFINE asked(c) == {p \in E : Subscribed(p) /\ removal[p] = "none" /\ SourceOf[p] = c}
  <2>1. \A c \in Sources : Append(pipe[c], [type |-> "remove", peers |-> asked(c)]) \in Seq(Commands)
    BY RemoveIsCommand, AppendAt DEF TypeOK
  <2>2. pipe' = [c \in Sources |->
                  IF asked(c) # {} /\ ~stopping[c]
                  THEN Append(pipe[c], [type |-> "remove", peers |-> asked(c)])
                  ELSE pipe[c]]
    BY DEF CloseAndRemove
  <2> QED
    BY <2>1, <2>2 DEF TypeOK
<1> QED
  BY <1>1, <1>2, <1>3

-----------------------------------------------------------------------------
(* Types and the shape of the lease, by group of variables. *)

LeaseTypes ==
  /\ owner \in Owners \cup {None}
  /\ phase \in {"idle", "begin", "release", "remove", "grant", "renew", "cleanup"}
  /\ after \in {"grant", "cleanup", "finish"}
  /\ request \in [stream : Streams \cup {None}, allowed : BOOLEAN,
                  reply : {"wait", "true", "false", "error"}]
  /\ LeaseShape

DeviceTypes ==
  /\ connected \in [Sessions -> {"new", "connected", "gone"}]
  /\ mode \in [Sessions -> AllModes]
  /\ automatic \subseteq Sessions
  /\ selected \in [Sessions -> Streams \cup {None}]

StreamTypes ==
  /\ stream \in [Streams -> {"absent", "live", "closing", "last", "gone"}]
  /\ removal \in [Streams -> {"none", "lease", "other"}]
  /\ source \in [Sources -> {"none", "ready", "closing", "released"}]
  /\ stopping \in [Sources -> BOOLEAN]

WorkerTypes ==
  /\ pipe \in [Sources -> Seq(Commands)]
  /\ out \in [Sources -> Seq(Reports)]
  /\ peers \in [Sources -> SUBSET Streams]
  /\ leaving \in [Sources -> SUBSET Streams]
  /\ permitted \in [Sources -> Streams \cup {None}]

Shape == LeaseTypes /\ DeviceTypes /\ StreamTypes /\ WorkerTypes

\* The groups are the type invariant and the shape of the lease.
LEMMA ShapeIsTyped == Shape <=> TypeOK /\ LeaseShape
<1>1. ASSUME Shape PROVE TypeOK
  <2>1. op \in Ops \cup {None} /\ waiting \in Seq(Ops)
    BY <1>1 DEF Shape, LeaseTypes, LeaseShape, QueuedOps
  <2> QED
    BY <1>1, <2>1 DEF Shape, LeaseTypes, DeviceTypes, StreamTypes, WorkerTypes, TypeOK
<1>2. ASSUME TypeOK, LeaseShape PROVE Shape
  BY <1>2 DEF Shape, LeaseTypes, DeviceTypes, StreamTypes, WorkerTypes, TypeOK
<1> QED
  BY <1>1, <1>2 DEF Shape, LeaseTypes

\* A queued operation joins the queue or begins.
LEMMA EnqueueShape ==
  ASSUME LeaseTypes, NEW o \in QueuedOps, Enqueue(o)
  PROVE  LeaseTypes'
<1> USE DEF LeaseTypes, LeaseShape, Enqueue
<1>1. o # None
  BY NoneAssumption DEF QueuedOps
<1>2. CASE op = None
  BY <1>1, <1>2
<1>3. CASE op # None
  BY <1>3
<1> QED
  BY <1>2, <1>3

\* setPermission.
LEMMA CallShape ==
  ASSUME Shape, NEW p \in Streams, NEW allowed \in BOOLEAN, NEW at, Call(p, allowed, at)
  PROVE  /\ phase' = at
         /\ request' \in [stream : {p}, allowed : {allowed}, reply : {"wait", "error"}]
         /\ pipe' \in [Sources -> Seq(Commands)]
         /\ StreamTypes'
<1> USE DEF Shape, Call
<1>1. SourceOf[p] \in Sources
  BY StreamsAssumption
<1>2. Append(pipe[SourceOf[p]], [type |-> "permission", current |-> TRUE,
                                 peer |-> p, allowed |-> allowed]) \in Seq(Commands)
  BY <1>1, PermissionIsCommand, AppendAt DEF WorkerTypes
<1>3. pipe' \in [Sources -> Seq(Commands)]
  BY <1>2 DEF WorkerTypes
<1>4. StreamTypes'
  BY DEF StreamTypes
<1> QED
  BY <1>3, <1>4

\* The end of a stream or source by the caller of an operation.
LEMMA EndShape ==
  ASSUME Shape, NEW p \in Streams, NEW by \in {"lease", "other"}, EndSubscription(p, by),
         UNCHANGED <<source, stopping>>
  PROVE  StreamTypes' /\ pipe' \in [Sources -> Seq(Commands)]
<1>1. TypeOK /\ {p} \in SUBSET Streams
  BY ShapeIsTyped
<1> QED
  BY <1>1, CloseAndRemoveType DEF EndSubscription, StreamTypes, Shape

LEMMA CloseSourceShape ==
  ASSUME Shape, NEW c \in Sources, CloseSource(c)
  PROVE  StreamTypes' /\ pipe' \in [Sources -> Seq(Commands)]
<1>1. pipe' = pipe /\ removal' = removal
  BY DEF CloseSource
<1>2. CASE source[c] \in {"ready", "closing"}
  <2>1. source' \in [Sources -> {"none", "ready", "closing", "released"}]
    BY <1>2 DEF CloseSource, StreamTypes, Shape
  <2>2. stream' \in [Streams -> {"absent", "live", "closing", "last", "gone"}]
    BY <1>2 DEF CloseSource, StreamTypes, Shape
  <2>3. stopping' \in [Sources -> BOOLEAN]
    BY <1>2 DEF CloseSource, StreamTypes, Shape
  <2> QED
    BY <1>1, <2>1, <2>2, <2>3 DEF StreamTypes, Shape, WorkerTypes
<1>3. CASE source[c] \notin {"ready", "closing"}
  BY <1>1, <1>3 DEF CloseSource, StreamTypes, Shape, WorkerTypes
<1> QED
  BY <1>2, <1>3

\* An operation settles.
LEMMA FinishShape ==
  ASSUME Shape, op # None, NEW ok, Finish(ok), owner' \in Owners \cup {None}
  PROVE  LeaseTypes' /\ StreamTypes' /\ pipe' \in [Sources -> Seq(Commands)]
         /\ selected' \in [Sessions -> Streams \cup {None}]
<1>1. op \in QueuedOps /\ WellFormed(op)
  BY DEF Shape, LeaseTypes, LeaseShape, QueuedOps
<1>2. LeaseTypes'
  <2>1. /\ request' = NoRequest /\ after' = "finish" /\ phase' \in {"idle", "begin"}
        /\ \/ op' = None /\ phase' = "idle" /\ waiting' = waiting
           \/ waiting # <<>> /\ op' = Head(waiting) /\ phase' = "begin" /\ waiting' = Tail(waiting)
    BY DEF Finish
  <2>2. waiting' \in Seq(QueuedOps) /\ op' \in QueuedOps \cup {None}
        /\ ((phase' = "idle") <=> (op' = None))
    <3>1. CASE op' = None /\ phase' = "idle" /\ waiting' = waiting
      BY <3>1 DEF Shape, LeaseTypes, LeaseShape
    <3>2. CASE waiting # <<>> /\ op' = Head(waiting) /\ phase' = "begin" /\ waiting' = Tail(waiting)
      <4>1. Head(waiting) \in QueuedOps /\ Tail(waiting) \in Seq(QueuedOps)
        BY <3>2, TailAt DEF Shape, LeaseTypes, LeaseShape
      <4>2. Head(waiting) # None
        BY <4>1, NoneAssumption DEF QueuedOps
      <4> QED
        BY <3>2, <4>1, <4>2
    <3> QED
      BY <2>1, <3>1, <3>2
  <2>3. request' \in [stream : Streams \cup {None}, allowed : BOOLEAN,
                     reply : {"wait", "true", "false", "error"}] /\ request'.reply = "error"
    BY <2>1 DEF NoRequest
  <2> QED
    BY <2>1, <2>2, <2>3 DEF LeaseTypes, LeaseShape
<1>3. StreamTypes' /\ pipe' \in [Sources -> Seq(Commands)]
  <2>1. CASE op.next = "end"
    BY <1>1, <2>1, EndShape DEF Finish, WellFormed
  <2>2. CASE op.next = "close"
    BY <1>1, <2>2, CloseSourceShape DEF Finish, WellFormed
  <2>3. CASE op.next \notin {"end", "close"}
    BY <2>3 DEF Finish, Shape, StreamTypes, WorkerTypes, streamVars
  <2> QED
    BY <2>1, <2>2, <2>3
<1>4. selected' \in [Sessions -> Streams \cup {None}]
  BY <1>1 DEF Finish, Selects, Shape, DeviceTypes, WellFormed
<1> QED
  BY <1>2, <1>3, <1>4

\* A failed grant begins to remove its peer.
LEMMA CleanupShape ==
  ASSUME Shape, op # None, op.kind = "grant", Cleanup, owner' = None
  PROVE  LeaseTypes' /\ StreamTypes' /\ pipe' \in [Sources -> Seq(Commands)]
         /\ selected' \in [Sessions -> Streams \cup {None}]
<1>1. op.stream \in Streams
  BY DEF Shape, LeaseTypes, LeaseShape, QueuedOps, WellFormed
<1>2. StreamTypes' /\ pipe' \in [Sources -> Seq(Commands)]
  BY <1>1, EndShape DEF Cleanup
<1>3. request' \in [stream : Streams \cup {None}, allowed : BOOLEAN,
                   reply : {"wait", "true", "false", "error"}] /\ request'.reply = "error"
  BY DEF Cleanup, NoRequest
<1> QED
  BY <1>2, <1>3 DEF Cleanup, Shape, LeaseTypes, LeaseShape, DeviceTypes

\* What a lease step leaves to be checked about the types.
LeaseStepTyped ==
  /\ LeaseTypes'
  /\ StreamTypes'
  /\ pipe' \in [Sources -> Seq(Commands)]
  /\ selected' \in [Sessions -> Streams \cup {None}]

\* An operation goes on after #release.
LEMMA ResumeShape ==
  ASSUME Shape, op # None, NEW then \in {"grant", "cleanup", "finish"},
         then \in {"grant", "cleanup"} => op.kind = "grant",
         Resume(then), owner' = None
  PROVE  LeaseStepTyped
<1>1. CASE then = "grant" /\ Target
  <2>1. op \in QueuedOps /\ op.kind = "grant" /\ op.stream \in Streams
    BY <1>1 DEF Shape, LeaseTypes, LeaseShape, QueuedOps, WellFormed
  <2>2. Call(op.stream, TRUE, "grant") /\ after' = "finish" /\ UNCHANGED <<op, waiting, selected>>
    BY <1>1 DEF Resume
  <2>3. /\ phase' = "grant"
        /\ request' \in [stream : {op.stream}, allowed : {TRUE}, reply : {"wait", "error"}]
        /\ pipe' \in [Sources -> Seq(Commands)]
        /\ StreamTypes'
    BY <2>1, <2>2, CallShape
  <2> QED
    BY <2>1, <2>2, <2>3 DEF LeaseStepTyped, Shape, LeaseTypes, LeaseShape, DeviceTypes
<1>2. CASE then = "grant" /\ ~Target
  BY <1>2, FinishShape DEF Resume, LeaseStepTyped
<1>3. CASE then = "cleanup"
  BY <1>3, CleanupShape DEF Resume, LeaseStepTyped
<1>4. CASE then = "finish"
  BY <1>4, FinishShape DEF Resume, LeaseStepTyped
<1> QED
  BY <1>1, <1>2, <1>3, <1>4

\* #release.
LEMMA ReleaseShape ==
  ASSUME Shape, op # None, NEW held \in Owners \cup {None}, NEW then \in {"grant", "cleanup", "finish"},
         then \in {"grant", "cleanup"} => op.kind = "grant",
         Release(held, then)
  PROVE  LeaseStepTyped
<1>1. CASE held = None
  BY <1>1, ResumeShape DEF Release
<1>2. CASE held # None
  <2>1. held.stream \in Streams
    BY <1>2 DEF Owners
  <2>2. /\ owner' = None /\ after' = then /\ Call(held.stream, FALSE, "release")
        /\ UNCHANGED <<op, waiting, selected>>
    BY <1>2 DEF Release
  <2>3. /\ phase' = "release"
        /\ request' \in [stream : {held.stream}, allowed : {FALSE}, reply : {"wait", "error"}]
        /\ pipe' \in [Sources -> Seq(Commands)]
        /\ StreamTypes'
    BY <2>1, <2>2, CallShape
  <2> QED
    BY <2>1, <2>2, <2>3 DEF LeaseStepTyped, Shape, LeaseTypes, LeaseShape, DeviceTypes
<1> QED
  BY <1>1, <1>2

\* Every step of the running operation keeps the types and the shape of the lease.
LEMMA LeaseStepShape ==
  ASSUME Shape, LeaseStep
  PROVE  Shape'
<1>0. LeaseStepTyped => Shape'
  <2>1. LeaseStepKeeps
    BY DEF LeaseStep, Begin, Released, ReleasedByRemoval, Granted, CleanedUp, Renewed
  <2> QED
    BY <2>1 DEF LeaseStepKeeps, LeaseStepTyped, Shape, DeviceTypes, WorkerTypes
<1>a. owner \in Owners \cup {None} /\ after \in {"grant", "cleanup", "finish"}
  BY DEF Shape, LeaseTypes
<1>b. after \in {"grant", "cleanup"} => op.kind = "grant"
  BY DEF Shape, LeaseTypes, LeaseShape
<1>c. phase # "idle" => op # None /\ op \in QueuedOps
  BY DEF Shape, LeaseTypes, LeaseShape
<1>1. CASE Begin
  <2>1. op # None
    BY <1>1, <1>c DEF Begin
  <2>2. CASE BeginGrant
    BY <2>1, <2>2, <1>a, FinishShape, ReleaseShape, <1>0 DEF BeginGrant, LeaseStepTyped
  <2>3. CASE BeginRevoke
    BY <2>1, <2>3, <1>a, FinishShape, ReleaseShape, <1>0 DEF BeginRevoke, LeaseStepTyped
  <2>4. CASE BeginRenew
    <3>1. CASE owner = None /\ Finish(TRUE) /\ UNCHANGED owner
      BY <2>1, <3>1, <1>a, FinishShape, <1>0 DEF LeaseStepTyped
    <3>2. CASE owner # None /\ Release(owner, "finish")
      BY <2>1, <3>2, <1>a, ReleaseShape, <1>0
    <3>3. CASE /\ owner # None
               /\ Call(owner.stream, TRUE, "renew")
               /\ UNCHANGED <<owner, after, op, waiting, selected>>
      <4>1. owner.stream \in Streams
        BY <3>3, <1>a DEF Owners
      <4>2. /\ phase' = "renew"
            /\ request' \in [stream : {owner.stream}, allowed : {TRUE}, reply : {"wait", "error"}]
            /\ pipe' \in [Sources -> Seq(Commands)]
            /\ StreamTypes'
        BY <3>3, <4>1, CallShape
      <4>3. LeaseStepTyped
        BY <2>1, <2>4, <3>3, <4>1, <4>2 DEF BeginRenew, LeaseStepTyped, Shape, LeaseTypes, LeaseShape, DeviceTypes
      <4> QED
        BY <4>3, <1>0
    <3> QED
      BY <2>4, <3>1, <3>2, <3>3 DEF BeginRenew
  <2> QED
    BY <1>1, <2>2, <2>3, <2>4 DEF Begin
<1>2. CASE Released
  <2>1. owner = None /\ owner' = None /\ request.stream \in Streams /\ ~request.allowed /\ op # None
    BY <1>2, <1>c DEF Released, Shape, LeaseTypes, LeaseShape
  <2>2. CASE request.reply = "false"
    BY <1>2, <2>1, <2>2, <1>a, <1>b, ResumeShape, <1>0 DEF Released
  <2>3. CASE request.reply # "false"
    <3>1. /\ phase' = "remove" /\ EndSubscription(request.stream, "lease")
          /\ UNCHANGED <<op, after, waiting, request, source, stopping, selected>>
      BY <1>2, <2>3 DEF Released
    <3>2. StreamTypes' /\ pipe' \in [Sources -> Seq(Commands)]
      BY <2>1, <3>1, EndShape
    <3>3. LeaseTypes' /\ selected' \in [Sessions -> Streams \cup {None}]
      BY <1>2, <2>1, <3>1 DEF Released, Shape, LeaseTypes, LeaseShape, DeviceTypes
    <3> QED
      BY <3>2, <3>3, <1>0 DEF LeaseStepTyped
  <2> QED
    BY <2>2, <2>3
<1>3. CASE ReleasedByRemoval
  BY <1>3, <1>a, <1>b, <1>c, ResumeShape, <1>0 DEF ReleasedByRemoval, Shape, LeaseTypes, LeaseShape
<1>4. CASE Granted
  <2>1. op # None /\ op \in QueuedOps /\ op.kind = "grant" /\ owner = None
    BY <1>4, <1>c DEF Granted, Shape, LeaseTypes, LeaseShape
  <2> DEFINE new == [session |-> op.session, stream |-> op.stream, explicit |-> op.explicit]
  <2>2. new \in Owners
    BY <2>1 DEF QueuedOps, WellFormed, Ops, Owners
  <2>3. CASE request.reply = "true" /\ Target
    <3>1. owner' = new /\ Finish(TRUE)
      BY <1>4, <2>3 DEF Granted
    <3> QED
      BY <2>1, <2>2, <3>1, FinishShape, <1>0 DEF LeaseStepTyped
  <2>4. CASE request.reply = "true" /\ ~Target
    <3>1. Release(new, "cleanup")
      BY <1>4, <2>4 DEF Granted
    <3> QED
      BY <2>1, <2>2, <3>1, ReleaseShape, <1>0
  <2>5. CASE request.reply # "true"
    BY <1>4, <2>5, <2>1, CleanupShape, <1>0 DEF Granted, LeaseStepTyped
  <2> QED
    BY <2>3, <2>4, <2>5
<1>5. CASE CleanedUp
  BY <1>5, <1>a, <1>c, FinishShape, <1>0 DEF CleanedUp, LeaseStepTyped
<1>6. CASE Renewed
  BY <1>6, <1>a, <1>c, FinishShape, ReleaseShape, <1>0 DEF Renewed, LeaseStepTyped
<1> QED
  BY <1>1, <1>2, <1>3, <1>4, <1>5, <1>6 DEF LeaseStep

\* A lease nobody touches keeps its shape.
LEMMA LeaseKept ==
  ASSUME LeaseTypes, UNCHANGED leaseVars
  PROVE  LeaseTypes'
BY DEF LeaseTypes, LeaseShape, leaseVars

\* Devices, viewers, the host and the control timer.
LEMMA CallerShape ==
  ASSUME Shape, NEW s \in Sessions
  PROVE  /\ \A m \in Modes : Connect(s, m) \/ SetMode(s, m) => Shape'
         /\ \A p \in Streams : SelectStream(s, p) => Shape'
         /\ RequestControl(s) \/ ReleaseControl(s) => Shape'
         /\ HostGrant(s) \/ HostRevoke(s) => Shape'
         /\ Renew => Shape'
<1> USE DEF Shape
<1>0. /\ UNCHANGED deviceVars => DeviceTypes'
      /\ UNCHANGED streamVars => StreamTypes'
      /\ UNCHANGED workerVars => WorkerTypes'
  BY DEF deviceVars, streamVars, workerVars, DeviceTypes, StreamTypes, WorkerTypes
<1>n. \A kind \in {"revoke", "renew"}, t \in Sessions \cup {None}, explicit \in BOOLEAN :
        NewOp(kind, t, None, FALSE, explicit, "none") \in QueuedOps
  BY DEF NewOp, QueuedOps, Ops, WellFormed
<1>g. \A p \in Streams, only \in BOOLEAN, explicit \in BOOLEAN, next \in {"none", "select"} :
        /\ NewOp("grant", s, p, only, explicit, next) \in QueuedOps
        /\ NewOp("revoke", s, p, only, explicit, next) \in QueuedOps
  BY DEF NewOp, QueuedOps, Ops, WellFormed
<1>1. ASSUME NEW m \in Modes, Connect(s, m) \/ SetMode(s, m) PROVE Shape'
  <2>1. m \in AllModes
    BY StreamsAssumption
  <2>2. UNCHANGED <<leaseVars, selected, streamVars, workerVars>>
    BY <1>1 DEF Connect, SetMode
  <2>3. DeviceTypes'
    BY <1>1, <2>1 DEF Connect, SetMode, DeviceTypes
  <2> QED
    BY <1>0, <2>2, <2>3, LeaseKept
<1>2. ASSUME NEW p \in Streams, SelectStream(s, p) PROVE Shape'
  <2>1. /\ UNCHANGED <<connected, mode, automatic, streamVars, workerVars>>
        /\ selected' \in {selected, [selected EXCEPT ![s] = p]}
    BY <1>2 DEF SelectStream
  <2>2. DeviceTypes'
    BY <2>1 DEF DeviceTypes
  <2>3. LeaseTypes'
    <3>1. owner # None => owner.explicit \in BOOLEAN
      BY DEF LeaseTypes, Owners
    <3>2. CASE UNCHANGED leaseVars
      BY <3>2, LeaseKept
    <3>3. CASE owner # None /\ Enqueue(NewOp("grant", s, p, FALSE, owner.explicit, "select"))
      BY <3>1, <3>3, <1>g, EnqueueShape
    <3>4. CASE Enqueue(NewOp("revoke", s, p, FALSE, FALSE, "select"))
      BY <3>4, <1>g, EnqueueShape
    <3> QED
      BY <1>2, <3>2, <3>3, <3>4 DEF SelectStream
  <2> QED
    BY <1>0, <2>1, <2>2, <2>3
<1>3. ASSUME RequestControl(s) PROVE Shape'
  <2>1. selected[s] \in Streams
    BY <1>3 DEF RequestControl, CurrentControl
  <2>2. LeaseTypes'
    BY <1>3, <2>1, <1>g, EnqueueShape DEF RequestControl
  <2> QED
    BY <1>3, <2>2, <1>0 DEF RequestControl
<1>4. ASSUME ReleaseControl(s) PROVE Shape'
  BY <1>4, <1>n, <1>0, EnqueueShape DEF ReleaseControl
<1>5. ASSUME HostGrant(s) PROVE Shape'
  <2>1. selected[s] \in Streams
    BY <1>5 DEF HostGrant, CurrentControl
  <2>2. LeaseTypes'
    BY <1>5, <2>1, <1>g, EnqueueShape DEF HostGrant
  <2> QED
    BY <1>5, <2>2, <1>0 DEF HostGrant
<1>6. ASSUME HostRevoke(s) PROVE Shape'
  <2>1. LeaseTypes'
    BY <1>6, <1>n, EnqueueShape DEF HostRevoke
  <2>2. DeviceTypes'
    BY <1>6 DEF HostRevoke, DeviceTypes
  <2> QED
    BY <1>6, <2>1, <2>2, <1>0 DEF HostRevoke
<1>7. ASSUME Renew PROVE Shape'
  BY <1>7, <1>n, <1>0, EnqueueShape DEF Renew
<1> QED
  BY <1>1, <1>2, <1>3, <1>4, <1>5, <1>6, <1>7

\* Streams and sources that end by a caller.
LEMMA EndingShape ==
  ASSUME Shape
  PROVE  /\ \A p \in Streams : Join(p) \/ StopStream(p) => Shape'
         /\ \A s \in Sessions : Disconnect(s) => Shape'
         /\ \A c \in Sources : Revalidate(c) => Shape'
<1> USE DEF Shape
<1>1. ASSUME NEW s \in Sessions, NEW E \in SUBSET Streams, StopStreams(s, E)
      PROVE  LeaseTypes' /\ StreamTypes' /\ WorkerTypes'
  <2>1. CloseAndRemove(E, {p \in E : ~(owner # None /\ owner.stream = p)}, "other")
    <3>1. E \ {p \in E : owner # None /\ owner.stream = p}
            = {p \in E : ~(owner # None /\ owner.stream = p)}
      OBVIOUS
    <3> QED
      BY <1>1, <3>1 DEF StopStreams
  <2>2. UNCHANGED <<source, stopping, out, peers, leaving, permitted>>
    BY <1>1 DEF StopStreams
  <2>3. StreamTypes' /\ WorkerTypes'
    <3>1. TypeOK
      BY ShapeIsTyped
    <3>2. {p \in E : ~(owner # None /\ owner.stream = p)} \in SUBSET Streams
      OBVIOUS
    <3> QED
      BY <2>1, <2>2, <3>1, <3>2, CloseAndRemoveType DEF StreamTypes, WorkerTypes
  <2>4. LeaseTypes'
    <3> DEFINE held == {p \in E : owner # None /\ owner.stream = p}
    <3>1. CASE held = {}
      BY <1>1, <3>1, LeaseKept DEF StopStreams
    <3>2. CASE held # {}
      <4>1. owner # None /\ owner.stream \in Streams
        BY <3>2
      <4>2. NewOp("revoke", s, owner.stream, FALSE, FALSE, "end") \in QueuedOps
        BY <4>1 DEF NewOp, QueuedOps, Ops, WellFormed
      <4> QED
        BY <1>1, <3>2, <4>2, EnqueueShape DEF StopStreams
    <3> QED
      BY <3>1, <3>2
  <2> QED
    BY <2>3, <2>4
<1>2. ASSUME NEW p \in Streams, Join(p) PROVE Shape'
  <2>1. SourceOf[p] \in Sources
    BY StreamsAssumption
  <2>2. /\ UNCHANGED <<leaseVars, deviceVars, removal, stopping, pipe, out, leaving, permitted>>
        /\ stream' = [stream EXCEPT ![p] = "live"]
        /\ source' = [source EXCEPT ![SourceOf[p]] = "ready"]
        /\ peers' = [peers EXCEPT ![SourceOf[p]] = @ \cup {p}]
    BY <1>2 DEF Join
  <2>3. DeviceTypes'
    BY <2>2 DEF DeviceTypes, deviceVars
  <2>4. StreamTypes'
    BY <2>1, <2>2 DEF StreamTypes
  <2>5. WorkerTypes'
    BY <2>1, <2>2 DEF WorkerTypes
  <2> QED
    BY <2>2, <2>3, <2>4, <2>5, LeaseKept
<1>3. ASSUME NEW p \in Streams, StopStream(p) PROVE Shape'
  <2>1. SessionOf[p] \in Sessions /\ {p} \in SUBSET Streams
    BY StreamsAssumption
  <2>2. DeviceTypes'
    BY <1>3 DEF StopStream, deviceVars, DeviceTypes
  <2> QED
    BY <1>1, <1>3, <2>1, <2>2 DEF StopStream
<1>4. ASSUME NEW s \in Sessions, Disconnect(s) PROVE Shape'
  <2>1. DeviceTypes'
    BY <1>4 DEF Disconnect, DeviceTypes, AllModes
  <2>2. {p \in Streams : SessionOf[p] = s /\ Subscribed(p)} \in SUBSET Streams
    OBVIOUS
  <2> QED
    BY <1>1, <1>4, <2>1, <2>2 DEF Disconnect
<1>5. ASSUME NEW c \in Sources, Revalidate(c) PROVE Shape'
  <2>0. UNCHANGED <<deviceVars, out, peers, leaving, permitted>>
    BY <1>5 DEF Revalidate
  <2>1. DeviceTypes'
    BY <2>0 DEF deviceVars, DeviceTypes
  <2>2. CASE owner # None /\ owner.stream \in Subscriptions(c)
    <3>1. Enqueue(NewOp("revoke", owner.session, c, FALSE, FALSE, "close")) /\ UNCHANGED <<streamVars, pipe>>
      BY <1>5, <2>2 DEF Revalidate
    <3>2. NewOp("revoke", owner.session, c, FALSE, FALSE, "close") \in QueuedOps
      BY <2>2 DEF NewOp, QueuedOps, Ops, WellFormed, LeaseTypes, Owners
    <3>3. StreamTypes' /\ WorkerTypes'
      BY <2>0, <3>1 DEF streamVars, StreamTypes, WorkerTypes
    <3> QED
      BY <2>1, <3>1, <3>2, <3>3, EnqueueShape
  <2>3. CASE ~(owner # None /\ owner.stream \in Subscriptions(c))
    <3>1. CloseSource(c) /\ UNCHANGED leaseVars
      BY <1>5, <2>3 DEF Revalidate
    <3>2. StreamTypes' /\ WorkerTypes'
      BY <2>0, <3>1, CloseSourceShape DEF WorkerTypes
    <3> QED
      BY <2>1, <3>1, <3>2, LeaseKept
  <2> QED
    BY <2>2, <2>3
<1> QED
  BY <1>2, <1>3, <1>4, <1>5

\* A reply, or the end of waiting for one, keeps the shape of the lease.
LEMMA ReplyKeepsLease ==
  ASSUME LeaseTypes, UNCHANGED <<owner, op, phase, after, waiting>>, request.reply = "wait",
         NEW r \in {"true", "false", "error"}, request' = [request EXCEPT !.reply = r]
  PROVE  LeaseTypes'
BY DEF LeaseTypes, LeaseShape

\* A line of a pipe that comes late stays a line.
LEMMA LateTypes ==
  ASSUME WorkerTypes, NEW c \in Sources
  PROVE  /\ [k \in 1..Len(pipe[c]) |-> Late(pipe[c][k])] \in Seq(Commands)
         /\ [k \in 1..Len(out[c]) |-> Late(out[c][k])] \in Seq(Reports)
<1>1. \A m \in Commands : Late(m) \in Commands
  BY DEF Late, Commands
<1>2. \A m \in Reports : Late(m) \in Reports
  BY DEF Late, Reports
<1>3. /\ Len(pipe[c]) \in Nat /\ \A k \in 1..Len(pipe[c]) : pipe[c][k] \in Commands
      /\ Len(out[c]) \in Nat /\ \A k \in 1..Len(out[c]) : out[c][k] \in Reports
  BY DEF WorkerTypes
<1>4. /\ \A k \in 1..Len(pipe[c]) : Late(pipe[c][k]) \in Commands
      /\ \A k \in 1..Len(out[c]) : Late(out[c][k]) \in Reports
  BY <1>1, <1>2, <1>3
<1> QED
  BY <1>3, <1>4

\* native-media.mjs and the workers.
LEMMA MediaShape ==
  ASSUME Shape
  PROVE  /\ RequestTimeout => Shape'
         /\ \A p \in Streams : RemovalTimeout(p) \/ PeerClosed(p) \/ PeerFails(p) => Shape'
         /\ \A c \in Sources : Receive(c) \/ WorkerExit(c) \/ WorkerCommand(c)
                                 \/ PermissionExpires(c) => Shape'
<1> USE DEF Shape
<1>0. /\ UNCHANGED deviceVars => DeviceTypes'
      /\ UNCHANGED streamVars => StreamTypes'
      /\ UNCHANGED workerVars => WorkerTypes'
  BY DEF deviceVars, streamVars, workerVars, DeviceTypes, StreamTypes, WorkerTypes
<1>1. ASSUME RequestTimeout PROVE Shape'
  <2>1. LeaseTypes'
    BY <1>1, ReplyKeepsLease DEF RequestTimeout
  <2>2. WorkerTypes'
    BY <1>1, LateTypes DEF RequestTimeout, WorkerTypes
  <2> QED
    BY <1>1, <2>1, <2>2, <1>0 DEF RequestTimeout
<1>2. ASSUME NEW p \in Streams, RemovalTimeout(p) PROVE Shape'
  <2>1. StreamTypes'
    BY <1>2 DEF RemovalTimeout, StreamTypes
  <2> QED
    BY <1>2, <2>1, <1>0, LeaseKept DEF RemovalTimeout
<1>3. ASSUME NEW p \in Streams, PeerClosed(p) PROVE Shape'
  <2>1. [type |-> "peer-closed", peer |-> p] \in Reports /\ SourceOf[p] \in Sources
    BY StreamsAssumption DEF Reports
  <2>2. Append(out[SourceOf[p]], [type |-> "peer-closed", peer |-> p]) \in Seq(Reports)
    BY <2>1, AppendAt DEF WorkerTypes
  <2>3. WorkerTypes'
    BY <1>3, <2>1, <2>2 DEF PeerClosed, WorkerTypes
  <2> QED
    BY <1>3, <2>3, <1>0, LeaseKept DEF PeerClosed
<1>4. ASSUME NEW p \in Streams, PeerFails(p) PROVE Shape'
  <2>1. [type |-> "peer-failed", peer |-> p] \in Reports /\ SourceOf[p] \in Sources
    BY StreamsAssumption DEF Reports
  <2>2. Append(out[SourceOf[p]], [type |-> "peer-failed", peer |-> p]) \in Seq(Reports)
    BY <2>1, AppendAt DEF WorkerTypes
  <2>3. WorkerTypes'
    BY <1>4, <2>1, <2>2 DEF PeerFails, WorkerTypes
  <2> QED
    BY <1>4, <2>3, <1>0, LeaseKept DEF PeerFails
<1>5. ASSUME NEW c \in Sources, Receive(c) PROVE Shape'
  <2> DEFINE m == Head(out[c])
  <2>1. out[c] \in Seq(Reports) /\ out[c] # <<>>
    BY <1>5 DEF Receive, WorkerTypes
  <2>2. Tail(out[c]) \in Seq(Reports) /\ m \in Reports
    BY <2>1, TailAt
  <2>3. out' \in [Sources -> Seq(Reports)] /\ UNCHANGED <<peers, leaving, permitted>>
    BY <1>5, <2>2 DEF Receive, WorkerTypes
  <2>4. ReceiveResult(c, m) \/ ReceiveClosed(c, m) \/ ReceiveFailed(c, m)
    BY <1>5 DEF Receive
  <2> HIDE DEF m
  <2>5. CASE ReceiveResult(c, m)
    <3>1. LeaseTypes'
      <4>1. CASE UNCHANGED request
        BY <2>5, <4>1, LeaseKept DEF ReceiveResult, leaseVars
      <4>2. CASE ~UNCHANGED request
        BY <2>5, <4>2, ReplyKeepsLease DEF ReceiveResult
      <4> QED
        BY <4>1, <4>2
    <3> QED
      BY <2>3, <2>5, <3>1, <1>0 DEF ReceiveResult, WorkerTypes
  <2>6. CASE ReceiveClosed(c, m)
    <3>1. m.peer \in Streams
      BY <2>2, <2>6, Fields DEF ReceiveClosed
    <3>2. SourceOf[m.peer] \in Sources
      BY <3>1, StreamsAssumption
    <3>3. StreamTypes' /\ selected' \in [Sessions -> Streams \cup {None}]
      <4>1. CASE Subscribed(m.peer)
        <5>1. Unsubscribe(m.peer) /\ UNCHANGED removal
          BY <2>6, <4>1 DEF ReceiveClosed
        <5>2. stream' \in [Streams -> {"absent", "live", "closing", "last", "gone"}]
          BY <5>1, <3>1 DEF Unsubscribe, StreamTypes
        <5>3. source' \in [Sources -> {"none", "ready", "closing", "released"}]
          BY <5>1, <3>2 DEF Unsubscribe, StreamTypes
        <5>4. stopping' \in [Sources -> BOOLEAN]
          BY <5>1, <3>2 DEF Unsubscribe, StreamTypes
        <5>5. selected' \in [Sessions -> Streams \cup {None}]
          BY <5>1 DEF Unsubscribe, DeviceTypes
        <5> QED
          BY <5>1, <5>2, <5>3, <5>4, <5>5 DEF StreamTypes
      <4>2. CASE ~Subscribed(m.peer)
        BY <2>6, <4>2 DEF ReceiveClosed, StreamTypes, DeviceTypes
      <4> QED
        BY <4>1, <4>2
    <3> QED
      BY <2>3, <2>6, <3>3, LeaseKept DEF ReceiveClosed, WorkerTypes, DeviceTypes
  <2>7. CASE ReceiveFailed(c, m)
    <3>1. m.peer \in Streams
      BY <2>2, <2>7, Fields DEF ReceiveFailed
    <3>2. UNCHANGED <<leaseVars, deviceVars, source, stopping>>
      BY <2>7 DEF ReceiveFailed
    <3>3. StreamTypes' /\ pipe' \in [Sources -> Seq(Commands)]
      <4>1. CASE removal[m.peer] = "none"
        BY <2>7, <3>1, <3>2, <4>1, EndShape DEF ReceiveFailed
      <4>2. CASE removal[m.peer] # "none"
        BY <2>7, <4>2 DEF ReceiveFailed, StreamTypes, WorkerTypes
      <4> QED
        BY <4>1, <4>2
    <3> QED
      BY <2>3, <3>2, <3>3, <1>0, LeaseKept DEF WorkerTypes
  <2> QED
    BY <2>4, <2>5, <2>6, <2>7
<1>6. ASSUME NEW c \in Sources, WorkerExit(c) PROVE Shape'
  <2> DEFINE lost == {p \in Streams : SourceOf[p] = c /\ stream[p] # "absent"}
  <2>1. LeaseTypes'
    <3>1. CASE request.reply = "wait" /\ SourceOf[request.stream] = c
      BY <1>6, <3>1, ReplyKeepsLease DEF WorkerExit
    <3>2. CASE ~(request.reply = "wait" /\ SourceOf[request.stream] = c)
      <4>1. request' = request
        BY <1>6, <3>2 DEF WorkerExit, LeaseTypes
      <4> QED
        BY <1>6, <4>1, LeaseKept DEF WorkerExit, leaseVars
    <3> QED
      BY <3>1, <3>2
  <2>2. DeviceTypes'
    BY <1>6 DEF WorkerExit, DeviceTypes
  <2>3. StreamTypes'
    BY <1>6 DEF WorkerExit, StreamTypes
  <2>4. WorkerTypes'
    <3>1. <<>> \in Seq(Commands) /\ <<>> \in Seq(Reports)
      OBVIOUS
    <3> QED
      BY <1>6, <3>1 DEF WorkerExit, WorkerTypes
  <2> QED
    BY <2>1, <2>2, <2>3, <2>4
<1>7. ASSUME NEW c \in Sources, WorkerCommand(c) PROVE Shape'
  <2> DEFINE m == Head(pipe[c])
  <2>1. pipe[c] \in Seq(Commands) /\ pipe[c] # <<>>
    BY <1>7 DEF WorkerCommand, WorkerTypes
  <2>2. Tail(pipe[c]) \in Seq(Commands) /\ m \in Commands
    BY <2>1, TailAt
  <2>3. CASE SetPeerPermission(c, m)
    <3>1. m.peer \in Streams /\ m.current \in BOOLEAN /\ m.allowed \in BOOLEAN
      BY <2>2, <2>3, Fields DEF SetPeerPermission
    <3> DEFINE result == [type |-> "control-result", current |-> m.current,
                          allowed |-> m.allowed /\ m.peer \in peers[c]]
    <3>2. Append(out[c], result) \in Seq(Reports)
      <4>1. result \in Reports
        BY <3>1 DEF Reports
      <4> HIDE DEF result
      <4> QED
        BY <4>1, AppendAt DEF WorkerTypes
    <3> HIDE DEF m
    <3>3. /\ pipe' = [pipe EXCEPT ![c] = Tail(@)]
          /\ out' = [out EXCEPT ![c] = Append(@, result)]
          /\ UNCHANGED <<peers, leaving>>
      BY <2>3 DEF SetPeerPermission
    <3> HIDE DEF result
    <3>4. permitted' \in [Sources -> Streams \cup {None}]
      BY <2>3, <3>1 DEF SetPeerPermission, WorkerTypes
    <3>5. WorkerTypes'
      BY <2>2, <3>2, <3>3, <3>4 DEF WorkerTypes
    <3> QED
      BY <1>7, <3>5, <1>0, LeaseKept DEF WorkerCommand
  <2>4. ASSUME NEW p \in Streams, RemovePeer(c, p) PROVE Shape'
    <3>1. pipe' \in [Sources -> Seq(Commands)]
      <4> DEFINE less == [type |-> "remove", peers |-> m.peers \ {p}]
                 rest == IF m.peers = {p} THEN Tail(pipe[c]) ELSE [pipe[c] EXCEPT ![1] = less]
      <4>1. less \in Commands
        BY <2>2, <2>4, Fields, RemoveIsCommand DEF RemovePeer
      <4>2. pipe' = [pipe EXCEPT ![c] = rest]
        BY <2>4 DEF RemovePeer
      <4>3. rest \in Seq(Commands)
        <5> HIDE DEF less
        <5> QED
          BY <2>1, <2>2, <4>1
      <4> HIDE DEF rest
      <4> QED
        BY <4>2, <4>3 DEF WorkerTypes
    <3>2. out' \in [Sources -> Seq(Reports)]
      <4>1. [type |-> "peer-closed", peer |-> p] \in Reports
        BY DEF Reports
      <4>2. Append(out[c], [type |-> "peer-closed", peer |-> p]) \in Seq(Reports)
        BY <4>1, AppendAt DEF WorkerTypes
      <4> QED
        BY <2>4, <4>2 DEF RemovePeer, WorkerTypes
    <3>3. /\ permitted' \in [Sources -> Streams \cup {None}]
          /\ peers' \in [Sources -> SUBSET Streams]
          /\ leaving' \in [Sources -> SUBSET Streams]
      BY <2>4 DEF RemovePeer, WorkerTypes
    <3> QED
      BY <1>7, <3>1, <3>2, <3>3, <1>0, LeaseKept DEF WorkerCommand, WorkerTypes
  <2> QED
    BY <1>7, <2>3, <2>4 DEF WorkerCommand
<1>8. ASSUME NEW c \in Sources, PermissionExpires(c) PROVE Shape'
  <2>1. WorkerTypes'
    BY <1>8 DEF PermissionExpires, WorkerTypes
  <2> QED
    BY <1>8, <2>1, <1>0, LeaseKept DEF PermissionExpires
<1> QED
  BY <1>1, <1>2, <1>3, <1>4, <1>5, <1>6, <1>7, <1>8

\* The types and the shape hold at first and no step breaks them.
LEMMA InitShape == Init => Shape
BY DEF Init, NoRequest, Shape, LeaseTypes, LeaseShape, DeviceTypes, StreamTypes, WorkerTypes, AllModes

LEMMA NextShape == Shape /\ [Next]_vars => Shape'
<1> SUFFICES ASSUME Shape, [Next]_vars PROVE Shape'
  OBVIOUS
<1>1. CASE UNCHANGED vars
  BY <1>1, LeaseKept DEF vars, deviceVars, streamVars, workerVars,
                         Shape, DeviceTypes, StreamTypes, WorkerTypes
<1>2. CASE LeaseStep
  BY <1>2, LeaseStepShape
<1>3. CASE Renew
  <2>1. CASE Sessions # {}
    BY <1>3, <2>1, CallerShape
  <2>2. CASE Sessions = {}
    <3>1. NewOp("renew", None, None, FALSE, FALSE, "none") \in QueuedOps
      BY DEF NewOp, QueuedOps, Ops, WellFormed
    <3>2. LeaseTypes'
      BY <1>3, <3>1, EnqueueShape DEF Renew, Shape
    <3> QED
      BY <1>3, <3>2 DEF Renew, Shape, deviceVars, streamVars, workerVars,
                        DeviceTypes, StreamTypes, WorkerTypes
  <2> QED
    BY <2>1, <2>2
<1>4. CASE RequestTimeout
  BY <1>4, MediaShape
<1>5. ASSUME NEW s \in Sessions,
             \/ Disconnect(s)
             \/ RequestControl(s) \/ ReleaseControl(s)
             \/ HostGrant(s) \/ HostRevoke(s)
             \/ \E m \in Modes : Connect(s, m) \/ SetMode(s, m)
             \/ \E p \in Streams : SelectStream(s, p)
      PROVE  Shape'
  BY <1>5, CallerShape, EndingShape
<1>6. ASSUME NEW p \in Streams,
             Join(p) \/ StopStream(p) \/ RemovalTimeout(p) \/ PeerFails(p) \/ PeerClosed(p)
      PROVE  Shape'
  BY <1>6, EndingShape, MediaShape
<1>7. ASSUME NEW c \in Sources,
             \/ Revalidate(c) \/ Receive(c) \/ WorkerExit(c)
             \/ WorkerCommand(c) \/ PermissionExpires(c)
      PROVE  Shape'
  BY <1>7, EndingShape, MediaShape
<1> QED
  BY <1>1, <1>2, <1>3, <1>4, <1>5, <1>6, <1>7 DEF Next

\* Every state of the lease, its callers and its workers has its type, for any number of
\* devices, streams, sources and waiting operations.
THEOREM TypeCorrect == Spec => []TypeOK
<1>1. Spec => []Shape
  BY InitShape, NextShape, PTL DEF Spec
<1>2. Shape => TypeOK
  BY ShapeIsTyped
<1> QED
  BY <1>1, <1>2, PTL

-----------------------------------------------------------------------------
(* Who may hold control.  A step that touches neither workers nor the pending call is told by
   what it does to the pipes (Grows) and to the queue (Waits). *)

\* Streams stay subscribed and the only new lines to the workers remove peers.
Grows ==
  /\ \A p \in Streams : /\ Subscribed(p) => Subscribed(p)'
                        /\ stream[p] # "absent" => stream'[p] # "absent"
  /\ \A c \in Sources : \A k \in 1..Len(pipe'[c]) :
       \/ k \in 1..Len(pipe[c]) /\ pipe'[c][k] = pipe[c][k]
       \/ /\ pipe'[c][k].type = "remove"
          /\ \A p \in pipe'[c][k].peers : SourceOf[p] = c /\ stream'[p] # "absent"

\* The queue may have grown; the running operation is where it was.
Waits ==
  /\ UNCHANGED <<owner, request>>
  /\ UNCHANGED <<op, phase>> \/ (op = None /\ phase' = "begin")

\* What the lines in the pipes are.
LEMMA Lines ==
  ASSUME WorkerTypes, NEW c \in Sources
  PROVE  /\ pipe[c] \in Seq(Commands) /\ Len(pipe[c]) \in Nat
         /\ \A k \in 1..Len(pipe[c]) : pipe[c][k] \in Commands
         /\ out[c] \in Seq(Reports) /\ Len(out[c]) \in Nat
         /\ \A k \in 1..Len(out[c]) : out[c][k] \in Reports
         /\ peers[c] \subseteq Streams /\ leaving[c] \subseteq Streams
         /\ permitted[c] \in Streams \cup {None}
BY DEF WorkerTypes

\* The peer of a call that waits or was answered.
LEMMA Requested ==
  ASSUME Shape, request.reply # "error"
  PROVE  request.stream \in Streams /\ SourceOf[request.stream] \in Sources /\ request.stream # None
<1>1. request.stream \in Streams
  BY DEF Shape, LeaseTypes, LeaseShape, QueuedOps, WellFormed, Owners
<1> QED
  BY <1>1, StreamsAssumption

\* Ending subscriptions and sources only adds removals.
LEMMA CloseAndRemoveGrows ==
  ASSUME Shape, NEW C \in SUBSET Streams, NEW E \in SUBSET Streams, NEW by, CloseAndRemove(C, E, by)
  PROVE  Grows
<1> DEFINE removed == {p \in E : Subscribed(p) /\ removal[p] = "none"}
           asked(c) == {p \in removed : SourceOf[p] = c}
<1>1. \A p \in Streams : /\ Subscribed(p) => Subscribed(p)'
                         /\ stream[p] # "absent" => stream'[p] # "absent"
  BY DEF CloseAndRemove, Subscribed
<1>2. ASSUME NEW c \in Sources, NEW k \in 1..Len(pipe'[c])
      PROVE  \/ k \in 1..Len(pipe[c]) /\ pipe'[c][k] = pipe[c][k]
             \/ /\ pipe'[c][k].type = "remove"
                /\ \A p \in pipe'[c][k].peers : SourceOf[p] = c /\ stream'[p] # "absent"
  <2> DEFINE line == [type |-> "remove", peers |-> asked(c)]
  <2>1. pipe'[c] = IF asked(c) # {} /\ ~stopping[c] THEN Append(pipe[c], line) ELSE pipe[c]
    BY DEF CloseAndRemove
  <2>2. line \in Commands /\ line.type = "remove" /\ line.peers = asked(c)
    BY RemoveIsCommand
  <2>3. \A p \in asked(c) : SourceOf[p] = c /\ stream'[p] # "absent"
    BY <1>1 DEF Subscribed
  <2> HIDE DEF line
  <2>4. CASE pipe'[c] = pipe[c]
    BY <2>4
  <2>5. CASE pipe'[c] = Append(pipe[c], line)
    <3>1. k \in 1..Len(pipe[c]) \/ k = Len(pipe[c]) + 1
      BY <2>2, <2>5, Lines, AppendAt DEF Shape
    <3> QED
      BY <2>2, <2>3, <2>5, <3>1, Lines, AppendAt DEF Shape
  <2> QED
    BY <2>1, <2>4, <2>5
<1> QED
  BY <1>1, <1>2 DEF Grows

LEMMA KeptGrows ==
  ASSUME UNCHANGED <<stream, pipe>>
  PROVE  Grows
BY DEF Grows, Subscribed

LEMMA CloseSourceGrows ==
  ASSUME Shape, NEW c, CloseSource(c)
  PROVE  Grows
<1>1. \A p \in Streams : /\ Subscribed(p) => Subscribed(p)'
                         /\ stream[p] # "absent" => stream'[p] # "absent"
  <2>1. CASE stream' = [p \in Streams |-> IF p \in Subscriptions(c) THEN "closing" ELSE stream[p]]
    BY <2>1 DEF Subscribed, Subscriptions
  <2>2. CASE stream' = stream
    BY <2>2 DEF Subscribed
  <2> QED
    BY <2>1, <2>2 DEF CloseSource
<1>2. pipe' = pipe
  BY DEF CloseSource
<1> QED
  BY <1>1, <1>2 DEF Grows

\* The peers of the workers stay accurate, no new command is in the pipes, and nobody new may
\* hold permission.
LEMMA GrowsKeeps ==
  ASSUME Shape, Grows, UNCHANGED <<out, peers, leaving, permitted>>
  PROVE  /\ PeersExist => PeersExist'
         /\ CallOrder /\ UNCHANGED request => CallOrder'
         /\ CallOrder /\ request.reply # "wait" /\ request'.reply = "error" => CallOrder'
         /\ \A c \in Sources, p \in Streams : MayHold(c, p)' => MayHold(c, p)
<1>0. \A c \in Sources : \A k \in 1..Len(pipe'[c]) :
        IsCommand(pipe'[c][k]) => k \in 1..Len(pipe[c]) /\ pipe'[c][k] = pipe[c][k]
  BY DEF Grows, IsCommand
<1>1. ASSUME PeersExist PROVE PeersExist'
  <2> SUFFICES ASSUME NEW c \in Sources
               PROVE  (/\ \A p \in peers[c] : SourceOf[p] = c /\ Subscribed(p)
                       /\ \A p \in leaving[c] : p \notin peers[c] /\ stream[p] # "absent"
                       /\ permitted[c] \in peers[c] \cup {None}
                       /\ \A k \in 1..Len(pipe[c]) : LineExists(c, pipe[c][k])
                       /\ \A k \in 1..Len(out[c]) : ReportExists(c, out[c][k]))'
    BY DEF PeersExist
  <2>1. /\ \A p \in peers'[c] : SourceOf[p] = c /\ Subscribed(p)'
        /\ \A p \in leaving'[c] : p \notin peers'[c] /\ stream'[p] # "absent"
        /\ permitted'[c] \in peers'[c] \cup {None}
    BY <1>1, Lines DEF PeersExist, Grows, Shape
  <2>2. \A k \in 1..Len(pipe'[c]) : LineExists(c, pipe[c][k])'
    <3> SUFFICES ASSUME NEW k \in 1..Len(pipe'[c]) PROVE LineExists(c, pipe[c][k])'
      OBVIOUS
    <3>1. CASE k \in 1..Len(pipe[c]) /\ pipe'[c][k] = pipe[c][k]
      <4>1. LineExists(c, pipe[c][k]) /\ pipe[c][k] \in Commands
        BY <1>1, <3>1, Lines DEF PeersExist, Shape
      <4> QED
        BY <3>1, <4>1, Fields DEF LineExists, Grows
    <3>2. CASE /\ pipe'[c][k].type = "remove"
               /\ \A p \in pipe'[c][k].peers : SourceOf[p] = c /\ stream'[p] # "absent"
      BY <3>2 DEF LineExists
    <3> QED
      BY <3>1, <3>2 DEF Grows
  <2>3. \A k \in 1..Len(out'[c]) : ReportExists(c, out[c][k])'
    <3> SUFFICES ASSUME NEW k \in 1..Len(out[c]) PROVE ReportExists(c, out[c][k])'
      OBVIOUS
    <3>1. ReportExists(c, out[c][k]) /\ out[c][k] \in Reports
      BY <1>1, Lines DEF PeersExist, Shape
    <3> QED
      BY <3>1, Fields DEF ReportExists, Grows
  <2> QED
    BY <2>1, <2>2, <2>3
<1>2. ASSUME CallOrder, UNCHANGED request PROVE CallOrder'
  <2>1. \A c \in Sources : Done(c) => Done(c)'
    BY <1>0, <1>2 DEF Done
  <2>2. request'.reply \in {"true", "false"} =>
          \A c \in Sources : c = SourceOf[request'.stream] => Done(c)'
    BY <1>2, <2>1 DEF CallOrder
  <2>3. \A c \in Sources : \A k \in 1..Len(pipe'[c]) :
          CurrentCommand(pipe'[c][k]) =>
            /\ request'.reply = "wait"
            /\ c = SourceOf[request'.stream]
            /\ pipe'[c][k].peer = request'.stream /\ pipe'[c][k].allowed = request'.allowed
            /\ \A j \in 1..Len(pipe'[c]) : IsCommand(pipe'[c][j]) => j <= k
            /\ \A j \in 1..Len(out'[c]) : ~CurrentResult(out'[c][j])
    BY <1>0, <1>2 DEF CallOrder, CurrentCommand, IsCommand
  <2>4. \A c \in Sources : \A k \in 1..Len(out'[c]) :
          CurrentResult(out'[c][k]) =>
            /\ request'.reply = "wait"
            /\ Done(c)'
            /\ \A j \in 1..Len(out'[c]) : CurrentResult(out'[c][j]) => j = k
    BY <1>2, <2>1 DEF CallOrder
  <2> QED
    BY <2>2, <2>3, <2>4 DEF CallOrder
<1>3. ASSUME CallOrder, request.reply # "wait", request'.reply = "error" PROVE CallOrder'
  BY <1>0, <1>3 DEF CallOrder, CurrentCommand, IsCommand
<1>4. \A c \in Sources, p \in Streams : MayHold(c, p)' => MayHold(c, p)
  BY <1>0 DEF MayHold
<1> QED
  BY <1>1, <1>2, <1>3, <1>4

\* The part of the invariant that is about the peers.
Holds == PeersExist /\ CallOrder /\ HoldersAccounted

\* A call sends one command, and only when none is current.
LEMMA CallKeeps ==
  ASSUME Shape, PeersExist, CallOrder, request.reply # "wait",
         NEW p \in Streams, NEW allowed \in BOOLEAN, NEW at, Call(p, allowed, at),
         UNCHANGED <<out, peers, leaving, permitted>>
  PROVE  /\ PeersExist'
         /\ CallOrder'
         /\ \A c \in Sources, q \in Streams : MayHold(c, q)' => MayHold(c, q) \/ (allowed /\ q = p)
<1> DEFINE line == [type |-> "permission", current |-> TRUE, peer |-> p, allowed |-> allowed]
           sent == Subscribed(p) /\ ~stopping[SourceOf[p]]
<1>1. SourceOf[p] \in Sources /\ p # None
  BY StreamsAssumption
<1>2. /\ line \in Commands /\ line.type = "permission" /\ line.peer = p /\ line.allowed = allowed
      /\ line.current
  BY PermissionIsCommand
<1>3. /\ request' = [stream |-> p, allowed |-> allowed, reply |-> IF sent THEN "wait" ELSE "error"]
      /\ pipe' = IF sent THEN [pipe EXCEPT ![SourceOf[p]] = Append(@, line)] ELSE pipe
      /\ UNCHANGED stream
  BY DEF Call
<1> HIDE DEF line
<1>4. \A c \in Sources : \A k \in 1..Len(pipe'[c]) :
        \/ k \in 1..Len(pipe[c]) /\ pipe'[c][k] = pipe[c][k]
        \/ sent /\ c = SourceOf[p] /\ k = Len(pipe[c]) + 1 /\ pipe'[c][k] = line
  <2> SUFFICES ASSUME NEW c \in Sources, NEW k \in 1..Len(pipe'[c])
               PROVE  \/ k \in 1..Len(pipe[c]) /\ pipe'[c][k] = pipe[c][k]
                      \/ sent /\ c = SourceOf[p] /\ k = Len(pipe[c]) + 1 /\ pipe'[c][k] = line
    OBVIOUS
  <2>1. CASE sent /\ c = SourceOf[p]
    <3>1. pipe'[c] = Append(pipe[c], line)
      BY <1>3, <2>1 DEF Shape, WorkerTypes
    <3> HIDE DEF sent
    <3> QED
      BY <2>1, <3>1, <1>2, Lines, AppendAt DEF Shape
  <2>2. CASE ~(sent /\ c = SourceOf[p])
    <3>1. pipe'[c] = pipe[c]
      BY <1>3, <2>2 DEF Shape, WorkerTypes
    <3> QED
      BY <3>1
  <2> QED
    BY <2>1, <2>2
<1>5. sent => stream[p] # "absent" /\ request'.reply = "wait"
  BY <1>3 DEF Subscribed
<1>6. request'.stream = p /\ request'.allowed = allowed /\ request'.reply \in {"wait", "error"}
  BY <1>3
<1> HIDE DEF sent
<1>7. PeersExist'
  <2> SUFFICES ASSUME NEW c \in Sources
               PROVE  (/\ \A q \in peers[c] : SourceOf[q] = c /\ Subscribed(q)
                       /\ \A q \in leaving[c] : q \notin peers[c] /\ stream[q] # "absent"
                       /\ permitted[c] \in peers[c] \cup {None}
                       /\ \A k \in 1..Len(pipe[c]) : LineExists(c, pipe[c][k])
                       /\ \A k \in 1..Len(out[c]) : ReportExists(c, out[c][k]))'
    BY DEF PeersExist
  <2>1. \A k \in 1..Len(pipe'[c]) : LineExists(c, pipe[c][k])'
    BY <1>2, <1>3, <1>4, <1>5 DEF PeersExist, LineExists
  <2>2. \A k \in 1..Len(out'[c]) : ReportExists(c, out[c][k])'
    BY <1>3 DEF PeersExist, ReportExists
  <2> QED
    BY <1>3, <2>1, <2>2 DEF PeersExist, Subscribed
<1>8. CallOrder'
  <2>1. \A c \in Sources :
          /\ \A k \in 1..Len(pipe[c]) : ~CurrentCommand(pipe[c][k])
          /\ \A k \in 1..Len(out[c]) : ~CurrentResult(out[c][k])
    BY DEF CallOrder
  <2>2. \A c \in Sources : Len(pipe[c]) \in Nat
    BY Lines DEF Shape
  <2>3. \A c \in Sources : \A k \in 1..Len(pipe'[c]) :
          CurrentCommand(pipe'[c][k]) => sent /\ c = SourceOf[p] /\ k = Len(pipe[c]) + 1 /\ pipe'[c][k] = line
    BY <1>4, <2>1
  <2>4. \A c \in Sources : \A k \in 1..Len(pipe'[c]) :
          CurrentCommand(pipe'[c][k]) => \A j \in 1..Len(pipe'[c]) : IsCommand(pipe'[c][j]) => j <= k
    BY <1>4, <2>2, <2>3
  <2> QED
    BY <1>2, <1>5, <1>6, <2>1, <2>3, <2>4 DEF CallOrder
<1>9. ASSUME NEW c \in Sources, NEW q \in Streams, MayHold(c, q)'
      PROVE  MayHold(c, q) \/ (allowed /\ q = p)
  BY <1>2, <1>4, <1>9 DEF MayHold, IsCommand
<1> QED
  BY <1>7, <1>8, <1>9

\* A settled operation and a failed grant send no command.
LEMMA FinishGrows ==
  ASSUME Shape, op # None, NEW ok, Finish(ok)
  PROVE  Grows /\ request' = NoRequest
<1>1. op \in QueuedOps /\ WellFormed(op)
  BY DEF Shape, LeaseTypes, LeaseShape, QueuedOps
<1>2. request' = NoRequest
  BY DEF Finish
<1>3. CASE op.next = "end"
  <2>1. CloseAndRemove({op.stream}, {op.stream}, "other") /\ {op.stream} \in SUBSET Streams
    BY <1>1, <1>3 DEF Finish, EndSubscription, WellFormed
  <2> QED
    BY <1>2, <2>1, CloseAndRemoveGrows
<1>4. CASE op.next = "close"
  BY <1>2, <1>4, CloseSourceGrows DEF Finish
<1>5. CASE op.next \notin {"end", "close"}
  BY <1>2, <1>5, KeptGrows DEF Finish, streamVars
<1> QED
  BY <1>3, <1>4, <1>5

LEMMA CleanupGrows ==
  ASSUME Shape, op # None, op.kind = "grant", Cleanup
  PROVE  Grows /\ request' = NoRequest
<1>1. op.stream \in Streams
  BY DEF Shape, LeaseTypes, LeaseShape, QueuedOps, WellFormed
<1>2. CloseAndRemove({op.stream}, {op.stream}, "lease") /\ {op.stream} \in SUBSET Streams
  BY <1>1 DEF Cleanup, EndSubscription
<1> QED
  BY <1>2, CloseAndRemoveGrows DEF Cleanup

\* A settled operation leaves control with the owner alone.
LEMMA FinishHolds ==
  ASSUME Shape, PeersExist, CallOrder, op # None, request.reply # "wait", LeaseStepKeeps,
         NEW ok, Finish(ok),
         \A c \in Sources, p \in Streams : MayHold(c, p) => owner' # None /\ owner'.stream = p
  PROVE  Holds'
<1>1. Grows /\ request'.reply = "error"
  BY FinishGrows DEF NoRequest
<1>2. /\ PeersExist' /\ CallOrder'
      /\ \A c \in Sources, p \in Streams : MayHold(c, p)' => MayHold(c, p)
  BY <1>1, GrowsKeeps DEF LeaseStepKeeps
<1>3. HoldersAccounted'
  BY <1>2 DEF HoldersAccounted, Accounted
<1> QED
  BY <1>2, <1>3 DEF Holds

\* A failed grant keeps its peer accounted for until it is removed.
LEMMA CleanupHolds ==
  ASSUME Shape, PeersExist, CallOrder, op # None, op.kind = "grant", request.reply # "wait",
         LeaseStepKeeps, Cleanup,
         \A c \in Sources, p \in Streams : MayHold(c, p) => op.stream = p
  PROVE  Holds'
<1>1. Grows /\ request'.reply = "error"
  BY CleanupGrows DEF NoRequest
<1>2. /\ PeersExist' /\ CallOrder'
      /\ \A c \in Sources, p \in Streams : MayHold(c, p)' => MayHold(c, p)
  BY <1>1, GrowsKeeps DEF LeaseStepKeeps
<1>3. HoldersAccounted'
  BY <1>2 DEF HoldersAccounted, Accounted, Cleanup
<1> QED
  BY <1>2, <1>3 DEF Holds

\* Once nobody may hold control, what follows #release may only give it to the new target.
LEMMA ResumeHolds ==
  ASSUME Shape, PeersExist, CallOrder, op # None, request.reply # "wait", LeaseStepKeeps,
         NEW then \in {"grant", "cleanup", "finish"},
         then \in {"grant", "cleanup"} => op.kind = "grant",
         Resume(then),
         \A c \in Sources, p \in Streams : ~MayHold(c, p)
  PROVE  Holds'
<1>1. CASE then = "grant" /\ Target
  <2>1. op.stream \in Streams
    BY <1>1 DEF Target, CurrentControl
  <2>2. Call(op.stream, TRUE, "grant") /\ op' = op
    BY <1>1 DEF Resume
  <2>3. /\ PeersExist' /\ CallOrder'
        /\ \A c \in Sources, q \in Streams : MayHold(c, q)' => q = op.stream
    BY <2>1, <2>2, CallKeeps DEF LeaseStepKeeps
  <2>4. phase' = "grant"
    BY <2>2 DEF Call
  <2>5. HoldersAccounted'
    BY <2>2, <2>3, <2>4 DEF HoldersAccounted, Accounted
  <2> QED
    BY <2>3, <2>5 DEF Holds
<1>2. CASE then = "grant" /\ ~Target
  BY <1>2, FinishHolds DEF Resume
<1>3. CASE then = "cleanup"
  BY <1>3, CleanupHolds DEF Resume
<1>4. CASE then = "finish"
  BY <1>4, FinishHolds DEF Resume
<1> QED
  BY <1>1, <1>2, <1>3, <1>4

\* #release: the one peer that may hold control stays accounted for while its worker is asked.
LEMMA ReleaseHolds ==
  ASSUME Shape, PeersExist, CallOrder, op # None, request.reply # "wait", LeaseStepKeeps,
         NEW held \in Owners \cup {None}, NEW then \in {"grant", "cleanup", "finish"},
         then \in {"grant", "cleanup"} => op.kind = "grant",
         Release(held, then),
         \A c \in Sources, p \in Streams : MayHold(c, p) => held # None /\ held.stream = p
  PROVE  Holds'
<1>1. CASE held = None
  BY <1>1, ResumeHolds DEF Release
<1>2. CASE held # None
  <2>1. held.stream \in Streams
    BY <1>2 DEF Owners
  <2>2. Call(held.stream, FALSE, "release")
    BY <1>2 DEF Release
  <2>3. /\ PeersExist' /\ CallOrder'
        /\ \A c \in Sources, q \in Streams : MayHold(c, q)' => MayHold(c, q)
    BY <2>1, <2>2, CallKeeps DEF LeaseStepKeeps
  <2>4. phase' = "release" /\ request'.stream = held.stream
    BY <2>2 DEF Call
  <2>5. HoldersAccounted'
    BY <2>3, <2>4 DEF HoldersAccounted, Accounted
  <2> QED
    BY <2>3, <2>5 DEF Holds
<1> QED
  BY <1>1, <1>2

\* A peer that is gone from the registry is a peer of no worker.
LEMMA GoneHoldsNothing ==
  ASSUME Shape, PeersExist, NEW p \in Streams, ~Subscribed(p)
  PROVE  \A c \in Sources : ~MayHold(c, p)
BY StreamsAssumption DEF PeersExist, MayHold

\* Every step of the running operation keeps the peers accounted for.
LEMMA LeaseStepHolds ==
  ASSUME Shape, Holds, LeaseStep
  PROVE  Holds'
<1> USE DEF Holds
<1>a. owner \in Owners \cup {None} /\ after \in {"grant", "cleanup", "finish"}
  BY DEF Shape, LeaseTypes
<1>b. after \in {"grant", "cleanup"} => op.kind = "grant"
  BY DEF Shape, LeaseTypes, LeaseShape
<1>c. phase # "idle" => op # None /\ op \in QueuedOps
  BY DEF Shape, LeaseTypes, LeaseShape
<1>d. LeaseStepKeeps
  BY DEF LeaseStep, Begin, Released, ReleasedByRemoval, Granted, CleanedUp, Renewed
<1>1. CASE Begin
  <2>1. op # None /\ phase = "begin" /\ request.reply # "wait"
    BY <1>1, <1>c DEF Begin, Shape, LeaseTypes, LeaseShape
  <2>2. \A c \in Sources, p \in Streams : MayHold(c, p) => owner # None /\ owner.stream = p
    BY <2>1 DEF HoldersAccounted, Accounted
  <2>3. ASSUME NEW ok, Finish(ok), UNCHANGED owner PROVE Holds'
    BY <1>d, <2>1, <2>2, <2>3, FinishHolds
  <2>4. CASE BeginGrant
    BY <1>a, <1>d, <2>1, <2>2, <2>3, <2>4, ReleaseHolds DEF BeginGrant
  <2>5. CASE BeginRevoke
    BY <1>a, <1>d, <2>1, <2>2, <2>3, <2>5, ReleaseHolds DEF BeginRevoke
  <2>6. CASE BeginRenew
    <3>1. CASE owner = None /\ Finish(TRUE) /\ UNCHANGED owner
      BY <2>3, <3>1
    <3>2. CASE owner # None /\ Release(owner, "finish")
      BY <1>a, <1>d, <2>1, <2>2, <3>2, ReleaseHolds
    <3>3. CASE /\ owner # None
               /\ Call(owner.stream, TRUE, "renew")
               /\ UNCHANGED owner
      <4>1. owner.stream \in Streams
        BY <3>3, <1>a DEF Owners
      <4>2. /\ PeersExist' /\ CallOrder'
            /\ \A c \in Sources, q \in Streams : MayHold(c, q)' => MayHold(c, q) \/ q = owner.stream
        BY <1>d, <2>1, <3>3, <4>1, CallKeeps DEF LeaseStepKeeps
      <4>3. HoldersAccounted'
        BY <2>2, <3>3, <4>2 DEF HoldersAccounted, Accounted
      <4> QED
        BY <4>2, <4>3
    <3> QED
      BY <2>6, <3>1, <3>2, <3>3 DEF BeginRenew
  <2> QED
    BY <1>1, <2>4, <2>5, <2>6 DEF Begin
<1>2. CASE Released
  <2>1. /\ op # None /\ request.reply # "wait" /\ phase = "release" /\ owner = None /\ owner' = None
        /\ request.stream \in Streams /\ ~request.allowed
    BY <1>2, <1>c DEF Released, Shape, LeaseTypes, LeaseShape
  <2>2. \A c \in Sources, p \in Streams : MayHold(c, p) => p = request.stream
    BY <2>1 DEF HoldersAccounted, Accounted
  <2>3. CASE request.reply = "false"
    <3>1. \A c \in Sources : c = SourceOf[request.stream] => Done(c)
      BY <2>3 DEF CallOrder
    <3>2. \A c \in Sources : c = SourceOf[request.stream] => ~MayHold(c, request.stream)
      BY <2>1, <3>1 DEF Done, MayHold
    <3>3. \A c \in Sources : MayHold(c, request.stream) => SourceOf[request.stream] = c
      BY <2>1, StreamsAssumption DEF MayHold, PeersExist
    <3>4. \A c \in Sources, p \in Streams : ~MayHold(c, p)
      BY <2>2, <3>2, <3>3
    <3>5. Resume(after)
      BY <1>2, <2>3 DEF Released
    <3> QED
      BY <1>a, <1>b, <1>d, <2>1, <3>4, <3>5, ResumeHolds
  <2>4. CASE request.reply # "false"
    <3>1. /\ phase' = "remove" /\ EndSubscription(request.stream, "lease")
          /\ UNCHANGED <<op, request>>
      BY <1>2, <2>4 DEF Released
    <3>2. Grows
      <4>1. {request.stream} \in SUBSET Streams
        BY <2>1
      <4> QED
        BY <3>1, <4>1, CloseAndRemoveGrows DEF EndSubscription
    <3>3. /\ PeersExist' /\ CallOrder'
          /\ \A c \in Sources, p \in Streams : MayHold(c, p)' => MayHold(c, p)
      BY <1>d, <3>1, <3>2, GrowsKeeps DEF LeaseStepKeeps
    <3>4. HoldersAccounted'
      BY <2>2, <3>1, <3>3 DEF HoldersAccounted, Accounted
    <3> QED
      BY <3>3, <3>4
  <2> QED
    BY <2>3, <2>4
<1>3. CASE ReleasedByRemoval
  <2>1. /\ op # None /\ phase = "remove" /\ owner = None /\ owner' = None /\ request.stream \in Streams
        /\ request.reply # "wait" /\ Resume(after) /\ PeerRemoved(request.stream)
    BY <1>3, <1>c DEF ReleasedByRemoval, Shape, LeaseTypes, LeaseShape
  <2>2. \A c \in Sources, p \in Streams : MayHold(c, p) => p = request.stream
    BY <2>1 DEF HoldersAccounted, Accounted
  <2>3. ~Subscribed(request.stream)
    BY <2>1 DEF PeerRemoved, Subscribed
  <2>4. \A c \in Sources, p \in Streams : ~MayHold(c, p)
    BY <2>1, <2>2, <2>3, GoneHoldsNothing
  <2> QED
    BY <1>a, <1>b, <1>d, <2>1, <2>4, ResumeHolds
<1>4. CASE Granted
  <2>1. /\ op # None /\ op \in QueuedOps /\ op.kind = "grant" /\ phase = "grant" /\ owner = None
        /\ request.reply # "wait"
    BY <1>4, <1>c DEF Granted, Shape, LeaseTypes, LeaseShape
  <2>2. \A c \in Sources, p \in Streams : MayHold(c, p) => op.stream = p
    BY <2>1 DEF HoldersAccounted, Accounted
  <2> DEFINE new == [session |-> op.session, stream |-> op.stream, explicit |-> op.explicit]
  <2>3. new \in Owners
    BY <2>1 DEF QueuedOps, WellFormed, Ops, Owners
  <2>4. new # None /\ new.stream = op.stream
    BY <2>3, NoneAssumption
  <2>5. CASE request.reply = "true" /\ Target
    <3>1. owner' = new /\ Finish(TRUE)
      BY <1>4, <2>5 DEF Granted
    <3> HIDE DEF new
    <3> QED
      BY <1>d, <2>1, <2>2, <2>4, <3>1, FinishHolds
  <2>6. CASE request.reply = "true" /\ ~Target
    <3>1. Release(new, "cleanup")
      BY <1>4, <2>6 DEF Granted
    <3> HIDE DEF new
    <3> QED
      BY <1>d, <2>1, <2>2, <2>3, <2>4, <3>1, ReleaseHolds
  <2>7. CASE request.reply # "true"
    <3>1. Cleanup
      BY <1>4, <2>7 DEF Granted
    <3> QED
      BY <1>d, <2>1, <2>2, <3>1, CleanupHolds
  <2> QED
    BY <2>5, <2>6, <2>7
<1>5. CASE CleanedUp
  <2>1. /\ op # None /\ op \in QueuedOps /\ op.kind = "grant" /\ phase = "cleanup" /\ owner = None
        /\ request.reply # "wait" /\ Finish(FALSE) /\ PeerRemoved(op.stream)
    BY <1>5, <1>c DEF CleanedUp, Shape, LeaseTypes, LeaseShape
  <2>2. \A c \in Sources, p \in Streams : MayHold(c, p) => p = op.stream
    BY <2>1 DEF HoldersAccounted, Accounted
  <2>3. op.stream \in Streams /\ ~Subscribed(op.stream)
    BY <2>1 DEF QueuedOps, WellFormed, PeerRemoved, Subscribed
  <2>4. \A c \in Sources, p \in Streams : ~MayHold(c, p)
    BY <2>2, <2>3, GoneHoldsNothing
  <2> QED
    BY <1>d, <2>1, <2>4, FinishHolds
<1>6. CASE Renewed
  <2>1. op # None /\ phase = "renew" /\ request.reply # "wait"
    BY <1>6, <1>c DEF Renewed
  <2>2. \A c \in Sources, p \in Streams : MayHold(c, p) => owner # None /\ owner.stream = p
    BY <2>1 DEF HoldersAccounted, Accounted
  <2>3. CASE Finish(TRUE) /\ UNCHANGED owner
    BY <1>d, <2>1, <2>2, <2>3, FinishHolds
  <2>4. CASE Release(owner, "finish")
    BY <1>a, <1>d, <2>1, <2>2, <2>4, ReleaseHolds
  <2> QED
    BY <1>6, <2>3, <2>4 DEF Renewed
<1> QED
  BY <1>1, <1>2, <1>3, <1>4, <1>5, <1>6 DEF LeaseStep

\* A request that only joins the queue, ends streams or closes a source.
LEMMA QueueHolds ==
  ASSUME Shape, Holds, Waits, Grows, UNCHANGED <<out, peers, leaving, permitted>>
  PROVE  Holds'
<1>1. /\ PeersExist' /\ CallOrder'
      /\ \A c \in Sources, p \in Streams : MayHold(c, p)' => MayHold(c, p)
  BY GrowsKeeps DEF Holds, Waits
<1>2. \A p \in Streams : Accounted(p) => Accounted(p)'
  BY DEF Accounted, Waits, Shape, LeaseTypes, LeaseShape
<1> QED
  BY <1>1, <1>2 DEF Holds, HoldersAccounted

\* Joining the queue moves no operation.
LEMMA EnqueueWaits ==
  ASSUME UNCHANGED leaseVars \/ (\E o : Enqueue(o))
  PROVE  Waits
<1>1. CASE UNCHANGED leaseVars
  BY <1>1 DEF leaseVars, Waits
<1>2. ASSUME NEW o, Enqueue(o) PROVE Waits
  <2>1. CASE op = None
    BY <1>2, <2>1 DEF Enqueue, Waits
  <2>2. CASE op # None
    BY <1>2, <2>2 DEF Enqueue, Waits
  <2> QED
    BY <2>1, <2>2
<1> QED
  BY <1>1, <1>2

\* Devices, viewers, the host, the control timer and whatever ends streams and sources.
LEMMA CallerHolds ==
  ASSUME Shape, Holds
  PROVE  /\ \A s \in Sessions :
              /\ \A m \in Modes : Connect(s, m) \/ SetMode(s, m) => Holds'
              /\ \A p \in Streams : SelectStream(s, p) => Holds'
              /\ RequestControl(s) \/ ReleaseControl(s) => Holds'
              /\ HostGrant(s) \/ HostRevoke(s) \/ Disconnect(s) => Holds'
         /\ \A p \in Streams : StopStream(p) => Holds'
         /\ \A c \in Sources : Revalidate(c) => Holds'
         /\ Renew => Holds'
<1>1. ASSUME UNCHANGED <<streamVars, workerVars>>, UNCHANGED leaseVars \/ (\E o : Enqueue(o))
      PROVE  Holds'
  <2>1. UNCHANGED <<stream, pipe>> /\ UNCHANGED <<out, peers, leaving, permitted>>
    BY <1>1 DEF streamVars, workerVars
  <2> QED
    BY <1>1, <2>1, EnqueueWaits, KeptGrows, QueueHolds
<1>2. ASSUME NEW s, NEW E \in SUBSET Streams, StopStreams(s, E)
      PROVE  Holds'
  <2> DEFINE held == {p \in E : owner # None /\ owner.stream = p}
  <2>1. Grows
    <3>1. E \ held \in SUBSET Streams
      OBVIOUS
    <3>2. CloseAndRemove(E, E \ held, "other")
      BY <1>2 DEF StopStreams
    <3> HIDE DEF held
    <3> QED
      BY <3>1, <3>2, CloseAndRemoveGrows
  <2>2. Waits
    BY <1>2, EnqueueWaits DEF StopStreams
  <2> QED
    BY <1>2, <2>1, <2>2, QueueHolds DEF StopStreams
<1>3. ASSUME NEW s \in Sessions PROVE
        /\ \A m \in Modes : Connect(s, m) \/ SetMode(s, m) => Holds'
        /\ \A p \in Streams : SelectStream(s, p) => Holds'
        /\ RequestControl(s) \/ ReleaseControl(s) => Holds'
        /\ HostGrant(s) \/ HostRevoke(s) => Holds'
  BY <1>1 DEF Connect, SetMode, SelectStream, RequestControl, ReleaseControl, HostGrant, HostRevoke
<1>4. ASSUME NEW s \in Sessions, Disconnect(s) PROVE Holds'
  <2>1. {p \in Streams : SessionOf[p] = s /\ Subscribed(p)} \in SUBSET Streams
    OBVIOUS
  <2> QED
    BY <1>2, <1>4, <2>1 DEF Disconnect
<1>5. ASSUME NEW p \in Streams, StopStream(p) PROVE Holds'
  <2>1. {p} \in SUBSET Streams
    OBVIOUS
  <2> QED
    BY <1>2, <1>5, <2>1 DEF StopStream
<1>6. ASSUME NEW c \in Sources, Revalidate(c) PROVE Holds'
  <2>1. UNCHANGED <<out, peers, leaving, permitted>>
    BY <1>6 DEF Revalidate
  <2>2. Waits
    BY <1>6, EnqueueWaits DEF Revalidate
  <2>3. Grows
    BY <1>6, CloseSourceGrows, KeptGrows DEF Revalidate, streamVars
  <2> QED
    BY <2>1, <2>2, <2>3, QueueHolds
<1>7. ASSUME Renew PROVE Holds'
  BY <1>1, <1>7 DEF Renew
<1> QED
  BY <1>3, <1>4, <1>5, <1>6, <1>7

\* A stream joins: no line in any pipe names it yet.
LEMMA JoinHolds ==
  ASSUME Shape, Holds, NEW p \in Streams, Join(p)
  PROVE  Holds'
<1>1. /\ SourceOf[p] \in Sources /\ stream[p] = "absent" /\ stream' = [stream EXCEPT ![p] = "live"]
      /\ peers' = [peers EXCEPT ![SourceOf[p]] = @ \cup {p}]
      /\ UNCHANGED <<leaseVars, pipe, out, leaving, permitted>>
  BY StreamsAssumption DEF Join
<1>2. \A c \in Sources : peers'[c] = IF c = SourceOf[p] THEN peers[c] \cup {p} ELSE peers[c]
  BY <1>1 DEF Shape, WorkerTypes
<1>3. \A q \in Streams : stream'[q] = IF q = p THEN "live" ELSE stream[q]
  BY <1>1 DEF Shape, StreamTypes
<1>4. PeersExist'
  <2> SUFFICES ASSUME NEW c \in Sources
               PROVE  (/\ \A q \in peers[c] : SourceOf[q] = c /\ Subscribed(q)
                       /\ \A q \in leaving[c] : q \notin peers[c] /\ stream[q] # "absent"
                       /\ permitted[c] \in peers[c] \cup {None}
                       /\ \A k \in 1..Len(pipe[c]) : LineExists(c, pipe[c][k])
                       /\ \A k \in 1..Len(out[c]) : ReportExists(c, out[c][k]))'
    BY DEF PeersExist
  <2>1. /\ \A q \in peers'[c] : SourceOf[q] = c /\ Subscribed(q)'
        /\ \A q \in leaving'[c] : q \notin peers'[c] /\ stream'[q] # "absent"
        /\ permitted'[c] \in peers'[c] \cup {None}
    BY <1>1, <1>2, <1>3, Lines DEF Holds, PeersExist, Subscribed, Shape
  <2>2. \A k \in 1..Len(pipe'[c]) : LineExists(c, pipe[c][k])'
    BY <1>1, <1>3, Lines, Fields DEF Holds, PeersExist, LineExists, Shape
  <2>3. \A k \in 1..Len(out'[c]) : ReportExists(c, out[c][k])'
    BY <1>1, <1>2, <1>3, Lines, Fields DEF Holds, PeersExist, ReportExists, Shape
  <2> QED
    BY <2>1, <2>2, <2>3
<1>5. CallOrder'
  BY <1>1 DEF Holds, CallOrder, Done, leaseVars
<1>6. HoldersAccounted'
  <2> SUFFICES ASSUME NEW c \in Sources, NEW q \in Streams, MayHold(c, q)' PROVE Accounted(q)'
    BY DEF HoldersAccounted
  <2>1. MayHold(c, q)
    <3>1. CASE q = p
      <4>1. \A k \in 1..Len(pipe[c]) : IsCommand(pipe[c][k]) => pipe[c][k].peer # p
        BY <1>1 DEF Holds, PeersExist, LineExists, IsCommand
      <4> QED
        BY <1>1, <3>1, <4>1 DEF MayHold
    <3>2. CASE q # p
      BY <1>1, <1>2, <3>2 DEF MayHold
    <3> QED
      BY <3>1, <3>2
  <2> QED
    BY <1>1, <2>1 DEF Holds, HoldersAccounted, Accounted, leaseVars
<1> QED
  BY <1>4, <1>5, <1>6 DEF Holds

\* The call times out: nothing is current any more, and what may be permitted is the same.
LEMMA RequestTimeoutHolds ==
  ASSUME Shape, Holds, RequestTimeout
  PROVE  Holds'
<1>1. /\ request' = [request EXCEPT !.reply = "error"] /\ request.reply = "wait"
      /\ UNCHANGED <<owner, op, phase, stream, peers, leaving, permitted>>
  BY DEF RequestTimeout, streamVars
<1>2. \A c \in Sources :
        /\ Len(pipe'[c]) = Len(pipe[c]) /\ \A k \in 1..Len(pipe[c]) : pipe'[c][k] = Late(pipe[c][k])
        /\ Len(out'[c]) = Len(out[c]) /\ \A k \in 1..Len(out[c]) : out'[c][k] = Late(out[c][k])
  <2> SUFFICES ASSUME NEW c \in Sources
               PROVE  /\ Len(pipe'[c]) = Len(pipe[c])
                      /\ \A k \in 1..Len(pipe[c]) : pipe'[c][k] = Late(pipe[c][k])
                      /\ Len(out'[c]) = Len(out[c])
                      /\ \A k \in 1..Len(out[c]) : out'[c][k] = Late(out[c][k])
    OBVIOUS
  <2>1. Len(pipe[c]) \in Nat /\ Len(out[c]) \in Nat
    BY Lines DEF Shape
  <2>2. /\ pipe'[c] = [k \in 1..Len(pipe[c]) |-> Late(pipe[c][k])]
        /\ out'[c] = [k \in 1..Len(out[c]) |-> Late(out[c][k])]
    BY DEF RequestTimeout
  <2> QED
    BY <2>1, <2>2
<1>3. \A m \in Commands : /\ Late(m).type = m.type
                          /\ m.type = "permission" =>
                               Late(m).peer = m.peer /\ Late(m).allowed = m.allowed /\ ~Late(m).current
                          /\ m.type = "remove" => Late(m) = m
  BY DEF Late, Commands
<1>4. \A m \in Reports : /\ Late(m).type = m.type
                         /\ m.type = "control-result" => ~Late(m).current
                         /\ m.type # "control-result" => Late(m) = m
  BY DEF Late, Reports
<1>5. PeersExist'
  <2> SUFFICES ASSUME NEW c \in Sources
               PROVE  (/\ \A q \in peers[c] : SourceOf[q] = c /\ Subscribed(q)
                       /\ \A q \in leaving[c] : q \notin peers[c] /\ stream[q] # "absent"
                       /\ permitted[c] \in peers[c] \cup {None}
                       /\ \A k \in 1..Len(pipe[c]) : LineExists(c, pipe[c][k])
                       /\ \A k \in 1..Len(out[c]) : ReportExists(c, out[c][k]))'
    BY DEF PeersExist
  <2>1. \A k \in 1..Len(pipe'[c]) : LineExists(c, pipe[c][k])'
    BY <1>1, <1>2, <1>3, Lines DEF Holds, PeersExist, LineExists, Shape
  <2>2. \A k \in 1..Len(out'[c]) : ReportExists(c, out[c][k])'
    BY <1>1, <1>2, <1>4, Lines DEF Holds, PeersExist, ReportExists, Shape
  <2> QED
    BY <1>1, <2>1, <2>2 DEF Holds, PeersExist, Subscribed
<1>6. CallOrder'
  <2>1. ASSUME NEW c \in Sources
        PROVE  /\ \A k \in 1..Len(pipe'[c]) : ~CurrentCommand(pipe'[c][k])
               /\ \A k \in 1..Len(out'[c]) : ~CurrentResult(out'[c][k])
    <3>1. \A k \in 1..Len(pipe[c]) : pipe[c][k] \in Commands
      BY Lines DEF Shape
    <3>2. \A k \in 1..Len(out[c]) : out[c][k] \in Reports
      BY Lines DEF Shape
    <3>3. \A k \in 1..Len(pipe'[c]) : ~CurrentCommand(pipe'[c][k])
      BY <1>2, <1>3, <3>1 DEF CurrentCommand
    <3>4. \A k \in 1..Len(out'[c]) : ~CurrentResult(out'[c][k])
      BY <1>2, <1>4, <3>2 DEF CurrentResult
    <3> QED
      BY <3>3, <3>4
  <2>2. request'.reply = "error"
    BY <1>1 DEF Shape, LeaseTypes
  <2> QED
    BY <2>1, <2>2 DEF CallOrder
<1>7. HoldersAccounted'
  <2> SUFFICES ASSUME NEW c \in Sources, NEW q \in Streams, MayHold(c, q)' PROVE Accounted(q)'
    BY DEF HoldersAccounted
  <2>1. MayHold(c, q)
    BY <1>1, <1>2, <1>3, Lines DEF MayHold, IsCommand, Shape
  <2>2. request'.stream = request.stream
    BY <1>1 DEF Shape, LeaseTypes
  <2> QED
    BY <1>1, <2>1, <2>2 DEF Holds, HoldersAccounted, Accounted
<1> QED
  BY <1>5, <1>6, <1>7 DEF Holds

\* What has existed has existed.
LEMMA ExistsStays ==
  ASSUME \A p \in Streams : stream[p] # "absent" => stream'[p] # "absent", NEW c, NEW m \in Commands
  PROVE  LineExists(c, m) => LineExists(c, m)'
BY Fields DEF LineExists

\* A worker exits: it has no peers and no lines any more.
LEMMA WorkerExitHolds ==
  ASSUME Shape, Holds, NEW c \in Sources, WorkerExit(c)
  PROVE  Holds'
<1> DEFINE lost == {p \in Streams : SourceOf[p] = c /\ stream[p] # "absent"}
<1>1. /\ stream' = [p \in Streams |-> IF p \in lost THEN "gone" ELSE stream[p]]
      /\ UNCHANGED <<owner, op, phase>>
  BY DEF WorkerExit
<1>2. \A d \in Sources :
        /\ d = c => /\ pipe'[d] = <<>> /\ out'[d] = <<>> /\ peers'[d] = {} /\ leaving'[d] = {}
                    /\ permitted'[d] = None
        /\ d # c => /\ pipe'[d] = pipe[d] /\ out'[d] = out[d] /\ peers'[d] = peers[d]
                    /\ leaving'[d] = leaving[d] /\ permitted'[d] = permitted[d]
  BY DEF WorkerExit, Shape, WorkerTypes
<1>3. \A p \in Streams : /\ SourceOf[p] # c => stream'[p] = stream[p]
                         /\ stream[p] # "absent" => stream'[p] # "absent"
  BY <1>1
<1>4. /\ request'.stream = request.stream /\ request'.allowed = request.allowed
      /\ request'.reply = IF request.reply = "wait" /\ SourceOf[request.stream] = c
                          THEN "error" ELSE request.reply
  <2>1. CASE request.reply = "wait" /\ SourceOf[request.stream] = c
    <3>1. request' = [request EXCEPT !.reply = "error"]
      BY <2>1 DEF WorkerExit
    <3> QED
      BY <2>1, <3>1 DEF Shape, LeaseTypes
  <2>2. CASE ~(request.reply = "wait" /\ SourceOf[request.stream] = c)
    <3>1. request' = [request EXCEPT !.reply = request.reply]
      BY <2>2 DEF WorkerExit
    <3> QED
      BY <2>2, <3>1 DEF Shape, LeaseTypes
  <2> QED
    BY <2>1, <2>2
<1>5. PeersExist'
  <2> SUFFICES ASSUME NEW d \in Sources
               PROVE  (/\ \A q \in peers[d] : SourceOf[q] = d /\ Subscribed(q)
                       /\ \A q \in leaving[d] : q \notin peers[d] /\ stream[q] # "absent"
                       /\ permitted[d] \in peers[d] \cup {None}
                       /\ \A k \in 1..Len(pipe[d]) : LineExists(d, pipe[d][k])
                       /\ \A k \in 1..Len(out[d]) : ReportExists(d, out[d][k]))'
    BY DEF PeersExist
  <2>1. CASE d = c
    BY <1>2, <2>1
  <2>2. CASE d # c
    <3>1. /\ \A q \in peers'[d] : SourceOf[q] = d /\ Subscribed(q)'
          /\ \A q \in leaving'[d] : q \notin peers'[d] /\ stream'[q] # "absent"
          /\ permitted'[d] \in peers'[d] \cup {None}
      BY <1>2, <1>3, <2>2, Lines DEF Holds, PeersExist, Subscribed, Shape
    <3>2. \A k \in 1..Len(pipe'[d]) : LineExists(d, pipe[d][k])'
      <4> SUFFICES ASSUME NEW k \in 1..Len(pipe[d]) PROVE LineExists(d, pipe[d][k])'
        BY <1>2, <2>2
      <4>1. LineExists(d, pipe[d][k]) /\ pipe[d][k] \in Commands
        BY Lines DEF Holds, PeersExist, Shape
      <4> QED
        BY <1>2, <1>3, <2>2, <4>1, Fields DEF LineExists
    <3>3. \A k \in 1..Len(out'[d]) : ReportExists(d, out[d][k])'
      <4> SUFFICES ASSUME NEW k \in 1..Len(out[d]) PROVE ReportExists(d, out[d][k])'
        BY <1>2, <2>2
      <4>1. ReportExists(d, out[d][k]) /\ out[d][k] \in Reports
        BY Lines DEF Holds, PeersExist, Shape
      <4> QED
        BY <1>2, <1>3, <2>2, <4>1, Fields DEF ReportExists
    <3> QED
      BY <3>1, <3>2, <3>3
  <2> QED
    BY <2>1, <2>2
<1>6. CallOrder'
  <2>1. ASSUME request.reply # "error", NEW d \in Sources, Done(d) PROVE Done(d)'
    <3>1. d = SourceOf[request'.stream]
      BY <1>4, <2>1 DEF Done
    <3>2. \A k \in 1..Len(pipe'[d]) : ~IsCommand(pipe'[d][k])
      BY <1>2, <2>1 DEF Done
    <3>3. ~request'.allowed => permitted'[d] # request'.stream
      BY <1>2, <1>4, <2>1, Requested DEF Done
    <3> QED
      BY <3>1, <3>2, <3>3 DEF Done
  <2>2. CASE request.reply = "wait" /\ SourceOf[request.stream] = c
    <3>1. \A d \in Sources : \A k \in 1..Len(pipe'[d]) : ~CurrentCommand(pipe'[d][k])
      BY <1>2, <2>2 DEF Holds, CallOrder
    <3>2. \A d \in Sources : \A k \in 1..Len(out'[d]) : ~CurrentResult(out'[d][k])
      BY <1>2, <2>2 DEF Holds, CallOrder, Done
    <3> QED
      BY <1>4, <2>2, <3>1, <3>2 DEF CallOrder
  <2>3. CASE ~(request.reply = "wait" /\ SourceOf[request.stream] = c)
    <3>1. \A d \in Sources : \A k \in 1..Len(pipe'[d]) :
            CurrentCommand(pipe'[d][k]) =>
              /\ request'.reply = "wait"
              /\ d = SourceOf[request'.stream]
              /\ pipe'[d][k].peer = request'.stream /\ pipe'[d][k].allowed = request'.allowed
              /\ \A j \in 1..Len(pipe'[d]) : IsCommand(pipe'[d][j]) => j <= k
              /\ \A j \in 1..Len(out'[d]) : ~CurrentResult(out'[d][j])
      BY <1>2, <1>4, <2>3 DEF Holds, CallOrder
    <3>2. \A d \in Sources : \A k \in 1..Len(out'[d]) :
            CurrentResult(out'[d][k]) =>
              /\ request'.reply = "wait"
              /\ Done(d)'
              /\ \A j \in 1..Len(out'[d]) : CurrentResult(out'[d][j]) => j = k
      BY <1>2, <1>4, <2>1, <2>3 DEF Holds, CallOrder
    <3>3. request'.reply \in {"true", "false"} =>
            \A d \in Sources : d = SourceOf[request'.stream] => Done(d)'
      BY <1>4, <2>1, <2>3 DEF Holds, CallOrder
    <3> QED
      BY <3>1, <3>2, <3>3 DEF CallOrder
  <2> QED
    BY <2>2, <2>3
<1>7. HoldersAccounted'
  <2> SUFFICES ASSUME NEW d \in Sources, NEW q \in Streams, MayHold(d, q)' PROVE Accounted(q)'
    BY DEF HoldersAccounted
  <2>1. MayHold(d, q)
    BY <1>2, StreamsAssumption DEF MayHold
  <2> QED
    BY <1>1, <1>4, <2>1 DEF Holds, HoldersAccounted, Accounted
<1> QED
  BY <1>5, <1>6, <1>7 DEF Holds

\* The server reads the line of a worker: a current answer leaves nothing current behind it.
LEMMA ReceiveHolds ==
  ASSUME Shape, Holds, NEW c \in Sources, Receive(c)
  PROVE  Holds'
<1> DEFINE m == Head(out[c])
<1>1. /\ out[c] \in Seq(Reports) /\ out[c] # <<>> /\ UNCHANGED <<peers, leaving, permitted, owner, op, phase>>
      /\ out' = [out EXCEPT ![c] = Tail(@)]
  BY Lines DEF Receive, ReceiveResult, ReceiveClosed, ReceiveFailed, leaseVars, Shape
<1>2. /\ m \in Reports /\ 1 \in 1..Len(out[c]) /\ m = out[c][1]
      /\ \A k \in 1..Len(Tail(out[c])) : k + 1 \in 1..Len(out[c]) /\ Tail(out[c])[k] = out[c][k + 1]
  BY <1>1, TailAt
<1>3. ReceiveResult(c, m) \/ ReceiveClosed(c, m) \/ ReceiveFailed(c, m)
  BY DEF Receive
<1> HIDE DEF m
<1>4. \A d \in Sources :
        /\ d # c => out'[d] = out[d]
        /\ d = c => \A k \in 1..Len(out'[d]) : k + 1 \in 1..Len(out[d]) /\ out'[d][k] = out[d][k + 1]
  BY <1>1, <1>2 DEF Shape, WorkerTypes
<1>5. \A d \in Sources : \A k \in 1..Len(out'[d]) :
        \E i \in 1..Len(out[d]) : out'[d][k] = out[d][i]
  BY <1>4
<1>6. ASSUME UNCHANGED request,
             \A d \in Sources : \A k \in 1..Len(pipe'[d]) :
               IsCommand(pipe'[d][k]) => k \in 1..Len(pipe[d]) /\ pipe'[d][k] = pipe[d][k]
      PROVE  CallOrder'
  <2>1. \A d \in Sources : Done(d) => Done(d)'
    BY <1>1, <1>6 DEF Done
  <2>2. \A d \in Sources : \A k \in 1..Len(out'[d]) :
          CurrentResult(out'[d][k]) =>
            \A j \in 1..Len(out'[d]) : CurrentResult(out'[d][j]) => j = k
    <3> SUFFICES ASSUME NEW d \in Sources, NEW k \in 1..Len(out'[d]), NEW j \in 1..Len(out'[d]),
                        CurrentResult(out'[d][k]), CurrentResult(out'[d][j])
                 PROVE  j = k
      OBVIOUS
    <3>1. CASE d = c
      BY <1>4, <3>1 DEF Holds, CallOrder
    <3>2. CASE d # c
      BY <1>4, <3>2 DEF Holds, CallOrder
    <3> QED
      BY <3>1, <3>2
  <2>3. \A d \in Sources : \A k \in 1..Len(out'[d]) :
          CurrentResult(out'[d][k]) => request'.reply = "wait" /\ Done(d)'
    <3> SUFFICES ASSUME NEW d \in Sources, NEW k \in 1..Len(out'[d]), CurrentResult(out'[d][k])
                 PROVE  request'.reply = "wait" /\ Done(d)'
      OBVIOUS
    <3>1. PICK i \in 1..Len(out[d]) : out'[d][k] = out[d][i]
      BY <1>5
    <3>2. request.reply = "wait" /\ Done(d)
      BY <3>1 DEF Holds, CallOrder
    <3> QED
      BY <1>6, <2>1, <3>2
  <2>4. \A d \in Sources : \A k \in 1..Len(pipe'[d]) :
          CurrentCommand(pipe'[d][k]) =>
            /\ request'.reply = "wait"
            /\ d = SourceOf[request'.stream]
            /\ pipe'[d][k].peer = request'.stream /\ pipe'[d][k].allowed = request'.allowed
            /\ \A j \in 1..Len(pipe'[d]) : IsCommand(pipe'[d][j]) => j <= k
            /\ \A j \in 1..Len(out'[d]) : ~CurrentResult(out'[d][j])
    BY <1>5, <1>6, SMTT(20) DEF Holds, CallOrder, CurrentCommand, IsCommand
  <2>5. request'.reply \in {"true", "false"} =>
          \A d \in Sources : d = SourceOf[request'.stream] => Done(d)'
    BY <1>6, <2>1 DEF Holds, CallOrder
  <2> QED
    BY <2>2, <2>3, <2>4, <2>5 DEF CallOrder
<1>7. ASSUME \A p \in Streams : stream[p] # "absent" => stream'[p] # "absent",
             \A d \in Sources : \A p \in peers[d] : Subscribed(p)',
             \A d \in Sources : \A k \in 1..Len(pipe'[d]) : LineExists(d, pipe[d][k])'
      PROVE  PeersExist'
  <2> SUFFICES ASSUME NEW d \in Sources
               PROVE  (/\ \A q \in peers[d] : SourceOf[q] = d /\ Subscribed(q)
                       /\ \A q \in leaving[d] : q \notin peers[d] /\ stream[q] # "absent"
                       /\ permitted[d] \in peers[d] \cup {None}
                       /\ \A k \in 1..Len(pipe[d]) : LineExists(d, pipe[d][k])
                       /\ \A k \in 1..Len(out[d]) : ReportExists(d, out[d][k]))'
    BY DEF PeersExist
  <2>1. \A k \in 1..Len(out'[d]) : ReportExists(d, out[d][k])'
    <3> SUFFICES ASSUME NEW k \in 1..Len(out'[d]) PROVE ReportExists(d, out[d][k])'
      OBVIOUS
    <3>1. PICK i \in 1..Len(out[d]) : out'[d][k] = out[d][i]
      BY <1>5
    <3>2. ReportExists(d, out[d][i]) /\ out[d][i] \in Reports
      BY Lines DEF Holds, PeersExist, Shape
    <3> QED
      BY <1>1, <1>7, <3>1, <3>2, Fields DEF ReportExists
  <2>2. /\ \A q \in peers'[d] : SourceOf[q] = d /\ Subscribed(q)'
        /\ \A q \in leaving'[d] : q \notin peers'[d] /\ stream'[q] # "absent"
        /\ permitted'[d] \in peers'[d] \cup {None}
    BY <1>1, <1>7, Lines DEF Holds, PeersExist, Shape
  <2> QED
    BY <1>7, <2>1, <2>2
<1>8. CASE ReceiveResult(c, m)
  <2>1. UNCHANGED <<pipe, stream>> /\ m.type = "control-result"
    BY <1>8 DEF ReceiveResult, streamVars
  <2>2. PeersExist'
    <3>1. \A d \in Sources : \A k \in 1..Len(pipe'[d]) : LineExists(d, pipe[d][k])'
      BY <2>1 DEF Holds, PeersExist, LineExists
    <3> QED
      BY <1>7, <2>1, <3>1 DEF Holds, PeersExist, Subscribed
  <2>3. request'.stream = request.stream /\ request'.allowed = request.allowed
    BY <1>8 DEF ReceiveResult, Shape, LeaseTypes
  <2>4. CallOrder'
    <3>1. CASE UNCHANGED request
      BY <1>6, <2>1, <3>1
    <3>2. CASE request.reply = "wait" /\ m.current
      <4>1. CurrentResult(out[c][1])
        BY <1>2, <2>1, <3>2 DEF CurrentResult
      <4>2. /\ Done(c) /\ \A j \in 1..Len(out[c]) : CurrentResult(out[c][j]) => j = 1
        BY <1>2, <4>1 DEF Holds, CallOrder
      <4>3. \A d \in Sources : \A k \in 1..Len(pipe'[d]) : ~CurrentCommand(pipe'[d][k])
        BY <1>2, <2>1, <4>1, <4>2 DEF Holds, CallOrder, Done
      <4>4. \A d \in Sources : \A k \in 1..Len(out'[d]) : ~CurrentResult(out'[d][k])
        <5> SUFFICES ASSUME NEW d \in Sources, NEW k \in 1..Len(out'[d]), CurrentResult(out'[d][k])
                     PROVE  FALSE
          OBVIOUS
        <5>1. CASE d = c
          <6>1. k + 1 \in 1..Len(out[c]) /\ CurrentResult(out[c][k + 1])
            BY <1>4, <5>1
          <6>2. k + 1 = 1
            BY <4>2, <6>1
          <6> QED
            BY <6>2, <1>2, <5>1
        <5>2. CASE d # c
          BY <1>4, <4>2, <5>2 DEF Holds, CallOrder, Done
        <5> QED
          BY <5>1, <5>2
      <4>5. \A d \in Sources : d = SourceOf[request'.stream] => Done(d)'
        BY <1>1, <2>1, <2>3, <4>2 DEF Done
      <4> QED
        BY <4>3, <4>4, <4>5 DEF CallOrder
    <3> QED
      BY <1>8, <3>1, <3>2 DEF ReceiveResult
  <2>5. HoldersAccounted'
    BY <1>1, <2>1, <2>3 DEF Holds, HoldersAccounted, MayHold, Accounted
  <2> QED
    BY <2>2, <2>4, <2>5 DEF Holds
<1>9. CASE ReceiveClosed(c, m)
  <2>1. UNCHANGED <<pipe, request>> /\ m.type = "peer-closed"
    BY <1>9 DEF ReceiveClosed, leaseVars
  <2>2. m.peer \in Streams /\ m.peer \notin peers[c] /\ SourceOf[m.peer] = c /\ stream[m.peer] # "absent"
    BY <1>2, <2>1, Fields DEF Holds, PeersExist, ReportExists
  <2>3. \A p \in Streams : /\ stream[p] # "absent" => stream'[p] # "absent"
                           /\ p # m.peer => stream'[p] = stream[p]
    <3>1. CASE Subscribed(m.peer)
      BY <1>9, <2>2, <3>1 DEF ReceiveClosed, Unsubscribe, Shape, StreamTypes
    <3>2. CASE ~Subscribed(m.peer)
      BY <1>9, <3>2 DEF ReceiveClosed
    <3> QED
      BY <3>1, <3>2
  <2>4. \A d \in Sources : \A p \in peers[d] : Subscribed(p)'
    BY <2>2, <2>3, Lines DEF Holds, PeersExist, Subscribed, Shape
  <2>5. \A d \in Sources : \A k \in 1..Len(pipe'[d]) : LineExists(d, pipe[d][k])'
    <3> SUFFICES ASSUME NEW d \in Sources, NEW k \in 1..Len(pipe[d]) PROVE LineExists(d, pipe[d][k])'
      BY <2>1
    <3>1. LineExists(d, pipe[d][k]) /\ pipe[d][k] \in Commands
      BY Lines DEF Holds, PeersExist, Shape
    <3> QED
      BY <2>1, <2>3, <3>1, Fields DEF LineExists
  <2>6. PeersExist' /\ CallOrder'
    BY <1>6, <1>7, <2>1, <2>3, <2>4, <2>5
  <2>7. HoldersAccounted'
    BY <1>1, <2>1 DEF Holds, HoldersAccounted, MayHold, Accounted
  <2> QED
    BY <2>6, <2>7 DEF Holds
<1>10. CASE ReceiveFailed(c, m)
  <2>1. m.peer \in Streams /\ UNCHANGED request
    BY <1>2, <1>10, Fields DEF ReceiveFailed, leaseVars
  <2>2. Grows
    <3>1. CASE removal[m.peer] = "none"
      <4>1. CloseAndRemove({m.peer}, {m.peer}, "other") /\ {m.peer} \in SUBSET Streams
        BY <1>10, <2>1, <3>1 DEF ReceiveFailed, EndSubscription
      <4> QED
        BY <4>1, CloseAndRemoveGrows
    <3>2. CASE removal[m.peer] # "none"
      BY <1>10, <3>2, KeptGrows DEF ReceiveFailed
    <3> QED
      BY <3>1, <3>2
  <2>3. \A d \in Sources : \A k \in 1..Len(pipe'[d]) :
          IsCommand(pipe'[d][k]) => k \in 1..Len(pipe[d]) /\ pipe'[d][k] = pipe[d][k]
    BY <2>2 DEF Grows, IsCommand
  <2>4. PeersExist'
    <3>1. \A d \in Sources : \A k \in 1..Len(pipe'[d]) : LineExists(d, pipe[d][k])'
      <4> SUFFICES ASSUME NEW d \in Sources, NEW k \in 1..Len(pipe'[d]) PROVE LineExists(d, pipe[d][k])'
        OBVIOUS
      <4>1. CASE k \in 1..Len(pipe[d]) /\ pipe'[d][k] = pipe[d][k]
        <5>1. LineExists(d, pipe[d][k]) /\ pipe[d][k] \in Commands
          BY <4>1, Lines DEF Holds, PeersExist, Shape
        <5> QED
          BY <2>2, <4>1, <5>1, Fields DEF LineExists, Grows
      <4>2. CASE /\ pipe'[d][k].type = "remove"
                 /\ \A p \in pipe'[d][k].peers : SourceOf[p] = d /\ stream'[p] # "absent"
        BY <4>2 DEF LineExists
      <4> QED
        BY <2>2, <4>1, <4>2 DEF Grows
    <3>2. \A d \in Sources : \A p \in peers[d] : Subscribed(p)'
      BY <2>2, Lines DEF Holds, PeersExist, Grows, Shape
    <3> QED
      BY <1>7, <2>2, <3>1, <3>2 DEF Grows
  <2>5. CallOrder'
    BY <1>6, <2>1, <2>3
  <2>6. HoldersAccounted'
    BY <1>1, <2>1, <2>3 DEF Holds, HoldersAccounted, MayHold, Accounted
  <2> QED
    BY <2>4, <2>5, <2>6 DEF Holds
<1> QED
  BY <1>3, <1>8, <1>9, <1>10

\* A worker reads a permission command: the current one is the last it was sent.
LEMMA SetPeerPermissionHolds ==
  ASSUME Shape, Holds, NEW c \in Sources, pipe[c] # <<>>,
         SetPeerPermission(c, Head(pipe[c])), UNCHANGED <<leaseVars, deviceVars, streamVars>>
  PROVE  Holds'
<1> DEFINE m == Head(pipe[c])
           result == [type |-> "control-result", current |-> m.current,
                      allowed |-> m.allowed /\ m.peer \in peers[c]]
<1>1. /\ m \in Commands /\ 1 \in 1..Len(pipe[c]) /\ m = pipe[c][1] /\ m.type = "permission"
      /\ \A k \in 1..Len(Tail(pipe[c])) : k + 1 \in 1..Len(pipe[c]) /\ Tail(pipe[c])[k] = pipe[c][k + 1]
  BY Lines, TailAt DEF Shape, SetPeerPermission
<1>2. m.peer \in Streams /\ m.peer # None /\ m.current \in BOOLEAN /\ m.allowed \in BOOLEAN
  BY <1>1, Fields, StreamsAssumption
<1>3. result \in Reports /\ result.type = "control-result" /\ result.current = m.current
  BY <1>2 DEF Reports
<1>4. /\ pipe' = [pipe EXCEPT ![c] = Tail(@)]
      /\ permitted' = [permitted EXCEPT ![c] =
                         IF m.allowed THEN (IF m.peer \in peers[c] THEN m.peer ELSE None)
                         ELSE IF @ = m.peer THEN None ELSE @]
      /\ out' = [out EXCEPT ![c] = Append(@, result)]
      /\ UNCHANGED <<peers, leaving, stream, owner, op, phase, request>>
  BY DEF SetPeerPermission, leaseVars, streamVars
<1> HIDE DEF m, result
<1>5. \A d \in Sources :
        /\ d # c => pipe'[d] = pipe[d] /\ out'[d] = out[d] /\ permitted'[d] = permitted[d]
        /\ d = c =>
             /\ permitted'[d] = IF m.allowed THEN (IF m.peer \in peers[c] THEN m.peer ELSE None)
                                ELSE IF permitted[d] = m.peer THEN None ELSE permitted[d]
             /\ \A k \in 1..Len(pipe'[d]) : k + 1 \in 1..Len(pipe[d]) /\ pipe'[d][k] = pipe[d][k + 1]
             /\ Len(out[d]) \in Nat
             /\ \A k \in 1..Len(out'[d]) : \/ k \in 1..Len(out[d]) /\ out'[d][k] = out[d][k]
                                           \/ k = Len(out[d]) + 1 /\ out'[d][k] = result
  <2>1. ASSUME NEW d \in Sources, d # c
        PROVE  pipe'[d] = pipe[d] /\ out'[d] = out[d] /\ permitted'[d] = permitted[d]
    BY <1>4, <2>1 DEF Shape, WorkerTypes
  <2>2. /\ pipe'[c] = Tail(pipe[c]) /\ out'[c] = Append(out[c], result)
        /\ permitted'[c] = IF m.allowed THEN (IF m.peer \in peers[c] THEN m.peer ELSE None)
                           ELSE IF permitted[c] = m.peer THEN None ELSE permitted[c]
    BY <1>4 DEF Shape, WorkerTypes
  <2>3. \A k \in 1..Len(out'[c]) : \/ k \in 1..Len(out[c]) /\ out'[c][k] = out[c][k]
                                   \/ k = Len(out[c]) + 1 /\ out'[c][k] = result
    BY <1>3, <2>2, Lines, AppendAt DEF Shape
  <2>4. \A k \in 1..Len(pipe'[c]) : k + 1 \in 1..Len(pipe[c]) /\ pipe'[c][k] = pipe[c][k + 1]
    BY <1>1, <2>2
  <2>5. Len(out[c]) \in Nat
    BY Lines DEF Shape
  <2> QED
    BY <2>1, <2>2, <2>3, <2>4, <2>5, Zenon
<1>6. \A d \in Sources : \A k \in 1..Len(pipe'[d]) :
        \E i \in 1..Len(pipe[d]) : pipe'[d][k] = pipe[d][i]
  BY <1>5
<1>7. PeersExist'
  <2> SUFFICES ASSUME NEW d \in Sources
               PROVE  (/\ \A q \in peers[d] : SourceOf[q] = d /\ Subscribed(q)
                       /\ \A q \in leaving[d] : q \notin peers[d] /\ stream[q] # "absent"
                       /\ permitted[d] \in peers[d] \cup {None}
                       /\ \A k \in 1..Len(pipe[d]) : LineExists(d, pipe[d][k])
                       /\ \A k \in 1..Len(out[d]) : ReportExists(d, out[d][k]))'
    BY DEF PeersExist
  <2>1. /\ \A q \in peers'[d] : SourceOf[q] = d /\ Subscribed(q)'
        /\ \A q \in leaving'[d] : q \notin peers'[d] /\ stream'[q] # "absent"
        /\ permitted'[d] \in peers'[d] \cup {None}
    BY <1>4, <1>5 DEF Holds, PeersExist, Subscribed
  <2>2. \A k \in 1..Len(pipe'[d]) : LineExists(d, pipe[d][k])'
    BY <1>4, <1>6 DEF Holds, PeersExist, LineExists
  <2>3. \A k \in 1..Len(out'[d]) : ReportExists(d, out[d][k])'
    BY <1>3, <1>4, <1>5 DEF Holds, PeersExist, ReportExists
  <2> QED
    BY <2>1, <2>2, <2>3
<1>8. HoldersAccounted'
  <2> SUFFICES ASSUME NEW d \in Sources, NEW q \in Streams, MayHold(d, q)' PROVE Accounted(q)'
    BY DEF HoldersAccounted
  <2>1. MayHold(d, q)
    <3>1. CASE permitted'[d] = q
      <4>1. permitted[d] = q \/ (d = c /\ m.allowed /\ m.peer = q /\ q \in peers[c])
        BY <1>5, <3>1, StreamsAssumption
      <4> QED
        BY <1>1, <4>1 DEF MayHold, IsCommand
    <3>2. CASE q \in peers[d] /\ \E k \in 1..Len(pipe'[d]) :
                 IsCommand(pipe'[d][k]) /\ pipe'[d][k].allowed /\ pipe'[d][k].peer = q
      BY <1>6, <3>2 DEF MayHold
    <3> QED
      BY <1>4, <3>1, <3>2 DEF MayHold
  <2> QED
    BY <1>4, <2>1 DEF Holds, HoldersAccounted, Accounted
<1>9. CallOrder'
  <2>1. ASSUME NEW d \in Sources, d # c, Done(d) PROVE Done(d)'
    BY <1>4, <1>5, <2>1 DEF Done
  <2>2. ~Done(c)
    BY <1>1 DEF Done, IsCommand
  <2>3. CASE m.current
    <3>1. CurrentCommand(pipe[c][1])
      BY <1>1, <2>3 DEF CurrentCommand
    <3>2. /\ request.reply = "wait" /\ c = SourceOf[request.stream]
          /\ m.peer = request.stream /\ m.allowed = request.allowed
          /\ \A j \in 1..Len(pipe[c]) : IsCommand(pipe[c][j]) => j <= 1
          /\ \A j \in 1..Len(out[c]) : ~CurrentResult(out[c][j])
      BY <1>1, <3>1 DEF Holds, CallOrder
    <3>3. \A k \in 1..Len(pipe'[c]) : ~IsCommand(pipe'[c][k])
      <4> SUFFICES ASSUME NEW k \in 1..Len(pipe'[c]), IsCommand(pipe'[c][k]) PROVE FALSE
        OBVIOUS
      <4>1. k + 1 \in 1..Len(pipe[c]) /\ IsCommand(pipe[c][k + 1])
        BY <1>5
      <4>2. k + 1 <= 1
        BY <3>2, <4>1
      <4> QED
        BY <4>2
    <3>4. Done(c)'
      <4>1. ~request.allowed => permitted'[c] # request.stream
        BY <1>2, <1>5, <3>2
      <4> QED
        BY <1>4, <3>2, <3>3, <4>1 DEF Done
    <3>5. \A d \in Sources : \A k \in 1..Len(pipe'[d]) : ~CurrentCommand(pipe'[d][k])
      BY <1>5, <3>2, <3>3 DEF Holds, CallOrder, CurrentCommand, IsCommand
    <3>6. \A d \in Sources : \A k \in 1..Len(out'[d]) :
            CurrentResult(out'[d][k]) => d = c /\ k = Len(out[c]) + 1
      BY <1>5, <3>2 DEF Holds, CallOrder, Done
    <3> QED
      BY <1>4, <3>2, <3>4, <3>5, <3>6 DEF CallOrder
  <2>4. CASE ~m.current
    <3>1. \A k \in 1..Len(out[c]) : ~CurrentResult(out[c][k])
      BY <2>2 DEF Holds, CallOrder
    <3>2. \A k \in 1..Len(out'[c]) : ~CurrentResult(out'[c][k])
      BY <1>3, <1>5, <2>4, <3>1 DEF CurrentResult
    <3>3. ASSUME NEW d \in Sources, NEW k \in 1..Len(pipe'[d]), CurrentCommand(pipe'[d][k])
          PROVE  /\ request'.reply = "wait"
                 /\ d = SourceOf[request'.stream]
                 /\ pipe'[d][k].peer = request'.stream /\ pipe'[d][k].allowed = request'.allowed
                 /\ \A j \in 1..Len(pipe'[d]) : IsCommand(pipe'[d][j]) => j <= k
                 /\ \A j \in 1..Len(out'[d]) : ~CurrentResult(out'[d][j])
      <4>1. CASE d # c
        BY <1>4, <1>5, <3>3, <4>1 DEF Holds, CallOrder
      <4>2. CASE d = c
        <5>1. k + 1 \in 1..Len(pipe[c]) /\ pipe'[c][k] = pipe[c][k + 1] /\ CurrentCommand(pipe[c][k + 1])
          BY <1>5, <3>3, <4>2
        <5>2. /\ request.reply = "wait" /\ c = SourceOf[request.stream]
              /\ pipe[c][k + 1].peer = request.stream /\ pipe[c][k + 1].allowed = request.allowed
              /\ \A j \in 1..Len(pipe[c]) : IsCommand(pipe[c][j]) => j <= k + 1
          BY <5>1 DEF Holds, CallOrder
        <5>3. \A j \in 1..Len(pipe'[c]) : IsCommand(pipe'[c][j]) => j <= k
          <6> SUFFICES ASSUME NEW j \in 1..Len(pipe'[c]), IsCommand(pipe'[c][j]) PROVE j <= k
            OBVIOUS
          <6>1. j + 1 <= k + 1
            BY <1>5, <5>2
          <6>2. j \in Nat /\ k \in Nat
            OBVIOUS
          <6> QED
            BY <6>1, <6>2
        <5> QED
          BY <1>4, <3>2, <4>2, <5>1, <5>2, <5>3
      <4> QED
        BY <4>1, <4>2
    <3>4. \A d \in Sources : \A k \in 1..Len(out'[d]) :
            CurrentResult(out'[d][k]) =>
              /\ request'.reply = "wait"
              /\ Done(d)'
              /\ \A j \in 1..Len(out'[d]) : CurrentResult(out'[d][j]) => j = k
      <4> SUFFICES ASSUME NEW d \in Sources, NEW k \in 1..Len(out'[d]), CurrentResult(out'[d][k])
                   PROVE  /\ request'.reply = "wait"
                          /\ Done(d)'
                          /\ \A j \in 1..Len(out'[d]) : CurrentResult(out'[d][j]) => j = k
        OBVIOUS
      <4>1. d # c /\ out'[d] = out[d]
        BY <1>5, <3>2
      <4> QED
        BY <1>4, <2>1, <4>1 DEF Holds, CallOrder
    <3>5. request'.reply \in {"true", "false"} =>
            \A d \in Sources : d = SourceOf[request'.stream] => Done(d)'
      BY <1>4, <2>1, <2>2 DEF Holds, CallOrder
    <3> QED
      BY <3>3, <3>4, <3>5 DEF CallOrder
  <2> QED
    BY <1>2, <2>3, <2>4
<1> QED
  BY <1>7, <1>8, <1>9 DEF Holds

\* A worker that only takes permission away, reads other lines and reports other things.
LEMMA LessHolds ==
  ASSUME Shape, CallOrder, HoldersAccounted, UNCHANGED <<owner, op, phase, request>>,
         NEW c \in Sources, NEW i \in {0, 1},
         \A d \in Sources : d # c =>
           pipe'[d] = pipe[d] /\ out'[d] = out[d] /\ permitted'[d] = permitted[d] /\ peers'[d] = peers[d],
         \A k \in 1..Len(pipe'[c]) : IsCommand(pipe'[c][k]) =>
           k \in Nat /\ k + i \in 1..Len(pipe[c]) /\ pipe'[c][k] = pipe[c][k + i],
         \A k \in 1..Len(out'[c]) : CurrentResult(out'[c][k]) =>
           k \in 1..Len(out[c]) /\ out'[c][k] = out[c][k],
         permitted'[c] \in {permitted[c], None},
         peers'[c] \subseteq peers[c]
  PROVE  CallOrder' /\ HoldersAccounted'
<1>1. HoldersAccounted'
  <2> SUFFICES ASSUME NEW d \in Sources, NEW q \in Streams, MayHold(d, q)' PROVE Accounted(q)'
    BY DEF HoldersAccounted
  <2>1. MayHold(d, q)
    <3>1. CASE d = c
      BY <3>1, StreamsAssumption DEF MayHold
    <3>2. CASE d # c
      BY <3>2 DEF MayHold
    <3> QED
      BY <3>1, <3>2
  <2> QED
    BY <2>1 DEF HoldersAccounted, Accounted
<1>2. ASSUME request.reply # "error", NEW d \in Sources, Done(d) PROVE Done(d)'
  <2>1. CASE d = c
    <3>1. \A k \in 1..Len(pipe'[c]) : ~IsCommand(pipe'[c][k])
      BY <1>2, <2>1 DEF Done
    <3>2. ~request.allowed => permitted'[c] # request.stream
      BY <1>2, <2>1, Requested DEF Done
    <3> QED
      BY <1>2, <2>1, <3>1, <3>2 DEF Done
  <2>2. CASE d # c
    BY <1>2, <2>2 DEF Done
  <2> QED
    BY <2>1, <2>2
<1>3. ASSUME NEW d \in Sources, NEW k \in 1..Len(pipe'[d]), CurrentCommand(pipe'[d][k])
      PROVE  /\ request'.reply = "wait"
             /\ d = SourceOf[request'.stream]
             /\ pipe'[d][k].peer = request'.stream /\ pipe'[d][k].allowed = request'.allowed
             /\ \A j \in 1..Len(pipe'[d]) : IsCommand(pipe'[d][j]) => j <= k
             /\ \A j \in 1..Len(out'[d]) : ~CurrentResult(out'[d][j])
  <2>1. CASE d # c
    BY <1>3, <2>1 DEF CallOrder
  <2>2. CASE d = c
    <3>1. k \in Nat /\ k + i \in 1..Len(pipe[c]) /\ pipe'[c][k] = pipe[c][k + i]
      BY <1>3, <2>2 DEF CurrentCommand, IsCommand
    <3>2. /\ request.reply = "wait" /\ c = SourceOf[request.stream]
          /\ pipe[c][k + i].peer = request.stream /\ pipe[c][k + i].allowed = request.allowed
          /\ \A j \in 1..Len(pipe[c]) : IsCommand(pipe[c][j]) => j <= k + i
          /\ \A j \in 1..Len(out[c]) : ~CurrentResult(out[c][j])
      BY <1>3, <2>2, <3>1 DEF CallOrder
    <3>3. \A j \in 1..Len(pipe'[c]) : IsCommand(pipe'[c][j]) => j <= k
      <4> SUFFICES ASSUME NEW j \in 1..Len(pipe'[c]), IsCommand(pipe'[c][j]) PROVE j <= k
        OBVIOUS
      <4>1. j \in Nat /\ j + i \in 1..Len(pipe[c]) /\ IsCommand(pipe[c][j + i])
        OBVIOUS
      <4>2. j + i <= k + i
        BY <3>2, <4>1
      <4> QED
        BY <3>1, <4>1, <4>2
    <3>4. \A j \in 1..Len(out'[c]) : ~CurrentResult(out'[c][j])
      BY <3>2
    <3> QED
      BY <2>2, <3>1, <3>2, <3>3, <3>4
  <2> QED
    BY <2>1, <2>2
<1>4. ASSUME NEW d \in Sources, NEW k \in 1..Len(out'[d]), CurrentResult(out'[d][k])
      PROVE  /\ request'.reply = "wait"
             /\ Done(d)'
             /\ \A j \in 1..Len(out'[d]) : CurrentResult(out'[d][j]) => j = k
  <2>1. /\ k \in 1..Len(out[d]) /\ CurrentResult(out[d][k])
        /\ \A j \in 1..Len(out'[d]) : CurrentResult(out'[d][j]) =>
             j \in 1..Len(out[d]) /\ CurrentResult(out[d][j])
    BY <1>4
  <2>2. request.reply = "wait" /\ Done(d)
    BY <2>1 DEF CallOrder
  <2>3. \A j \in 1..Len(out'[d]) : CurrentResult(out'[d][j]) => j = k
    BY <2>1 DEF CallOrder
  <2> QED
    BY <1>2, <2>2, <2>3
<1>5. request'.reply \in {"true", "false"} =>
        \A d \in Sources : d = SourceOf[request'.stream] => Done(d)'
  BY <1>2 DEF CallOrder
<1>6. CallOrder'
  BY <1>3, <1>4, <1>5 DEF CallOrder
<1> QED
  BY <1>1, <1>6

\* A worker removes a peer.
LEMMA RemovePeerHolds ==
  ASSUME Shape, Holds, NEW c \in Sources, NEW p \in Streams, pipe[c] # <<>>,
         RemovePeer(c, p), UNCHANGED <<leaseVars, deviceVars, streamVars>>
  PROVE  Holds'
<1> DEFINE m == Head(pipe[c])
           less == [type |-> "remove", peers |-> m.peers \ {p}]
           closed == [type |-> "peer-closed", peer |-> p]
<1>1. /\ m \in Commands /\ 1 \in 1..Len(pipe[c]) /\ m = pipe[c][1] /\ m.type = "remove"
      /\ Len(Tail(pipe[c])) = Len(pipe[c]) - 1 /\ Len(pipe[c]) \in Nat
      /\ \A k \in 1..Len(Tail(pipe[c])) : k + 1 \in 1..Len(pipe[c]) /\ Tail(pipe[c])[k] = pipe[c][k + 1]
  BY Lines, TailAt DEF Shape, RemovePeer
<1>2. m.peers \in SUBSET Streams /\ p \in m.peers /\ p # None
  BY <1>1, Fields, StreamsAssumption DEF RemovePeer
<1>3. less \in Commands /\ less.type = "remove" /\ less.peers = m.peers \ {p}
  BY <1>2, RemoveIsCommand
<1>4. closed \in Reports /\ closed.type = "peer-closed" /\ closed.peer = p
  BY DEF Reports
<1>5. LineExists(c, m)
  BY <1>1 DEF Holds, PeersExist
<1>6. SourceOf[p] = c /\ stream[p] # "absent"
  BY <1>1, <1>2, <1>5 DEF LineExists
<1>7. UNCHANGED <<owner, op, phase, request, stream>>
  BY DEF leaseVars, streamVars
<1>8. /\ permitted'[c] = IF permitted[c] = p THEN None ELSE permitted[c]
      /\ peers'[c] = peers[c] \ {p}
      /\ leaving'[c] = IF p \in peers[c] THEN leaving[c] \cup {p} ELSE leaving[c]
      /\ \A d \in Sources : d # c => /\ permitted'[d] = permitted[d] /\ peers'[d] = peers[d]
                                     /\ leaving'[d] = leaving[d]
  BY DEF RemovePeer, Shape, WorkerTypes
<1>9. /\ pipe'[c] = IF m.peers = {p} THEN Tail(pipe[c]) ELSE [pipe[c] EXCEPT ![1] = less]
      /\ \A d \in Sources : d # c => pipe'[d] = pipe[d]
  BY DEF RemovePeer, Shape, WorkerTypes
<1>10. /\ out'[c] = IF p \in peers[c] THEN out[c] ELSE Append(out[c], closed)
       /\ \A d \in Sources : d # c => out'[d] = out[d]
  BY DEF RemovePeer, Shape, WorkerTypes
<1> HIDE DEF m, less, closed
<1>11. \A k \in 1..Len(out'[c]) : \/ k \in 1..Len(out[c]) /\ out'[c][k] = out[c][k]
                                  \/ p \notin peers[c] /\ out'[c][k] = closed
  <2>1. CASE p \in peers[c]
    BY <1>10, <2>1
  <2>2. CASE p \notin peers[c]
    <3>1. out'[c] = Append(out[c], closed)
      BY <1>10, <2>2
    <3> QED
      BY <1>4, <2>2, <3>1, Lines, AppendAt DEF Shape
  <2> QED
    BY <2>1, <2>2
<1>12. \/ \A k \in 1..Len(pipe'[c]) : /\ k \in Nat /\ k + 1 \in 1..Len(pipe[c])
                                      /\ pipe'[c][k] = pipe[c][k + 1]
       \/ \A k \in 1..Len(pipe'[c]) : /\ k \in Nat /\ k + 0 \in 1..Len(pipe[c])
                                      /\ pipe'[c][k] = IF k = 1 THEN less ELSE pipe[c][k + 0]
  <2>1. CASE m.peers = {p}
    BY <1>1, <1>9, <2>1
  <2>2. CASE m.peers # {p}
    <3>1. pipe'[c] = [pipe[c] EXCEPT ![1] = less]
      BY <1>9, <2>2
    <3>2. pipe[c] \in Seq(Commands)
      BY Lines DEF Shape
    <3> QED
      BY <1>1, <1>3, <3>1, <3>2
  <2> QED
    BY <2>1, <2>2
<1>13. PeersExist'
  <2> SUFFICES ASSUME NEW d \in Sources
               PROVE  (/\ \A q \in peers[d] : SourceOf[q] = d /\ Subscribed(q)
                       /\ \A q \in leaving[d] : q \notin peers[d] /\ stream[q] # "absent"
                       /\ permitted[d] \in peers[d] \cup {None}
                       /\ \A k \in 1..Len(pipe[d]) : LineExists(d, pipe[d][k])
                       /\ \A k \in 1..Len(out[d]) : ReportExists(d, out[d][k]))'
    BY DEF PeersExist
  <2>1. /\ \A q \in peers'[d] : SourceOf[q] = d /\ Subscribed(q)'
        /\ \A q \in leaving'[d] : q \notin peers'[d] /\ stream'[q] # "absent"
        /\ permitted'[d] \in peers'[d] \cup {None}
    BY <1>6, <1>7, <1>8 DEF Holds, PeersExist, Subscribed
  <2>2. \A k \in 1..Len(pipe'[d]) : LineExists(d, pipe[d][k])'
    <3> SUFFICES ASSUME NEW k \in 1..Len(pipe'[d]) PROVE LineExists(d, pipe[d][k])'
      OBVIOUS
    <3>1. CASE \E i \in 1..Len(pipe[d]) : pipe'[d][k] = pipe[d][i]
      BY <1>7, <3>1 DEF Holds, PeersExist, LineExists
    <3>2. CASE d = c /\ pipe'[d][k] = less
      BY <1>1, <1>3, <1>5, <1>7, <3>2 DEF LineExists
    <3>3. CASE d # c
      BY <1>9, <3>1, <3>3
    <3>4. CASE d = c
      <4>1. (\E i \in 1..Len(pipe[c]) : pipe'[c][k] = pipe[c][i]) \/ pipe'[c][k] = less
        BY <1>12, <3>4
      <4> QED
        BY <3>1, <3>2, <3>4, <4>1
    <3> QED
      BY <3>3, <3>4
  <2>3. \A k \in 1..Len(out'[d]) : ReportExists(d, out[d][k])'
    <3> SUFFICES ASSUME NEW k \in 1..Len(out'[d]) PROVE ReportExists(d, out[d][k])'
      OBVIOUS
    <3>1. CASE k \in 1..Len(out[d]) /\ out'[d][k] = out[d][k]
      BY <1>7, <1>8, <3>1 DEF Holds, PeersExist, ReportExists
    <3>2. CASE d = c /\ p \notin peers[c] /\ out'[d][k] = closed
      BY <1>4, <1>6, <1>7, <1>8, <3>2 DEF ReportExists
    <3>3. CASE d # c
      BY <1>10, <3>1, <3>3
    <3>4. CASE d = c
      BY <1>11, <3>1, <3>2, <3>4
    <3> QED
      BY <3>3, <3>4
  <2> QED
    BY <2>1, <2>2, <2>3
<1>14. CallOrder' /\ HoldersAccounted'
  <2>1. \A k \in 1..Len(out'[c]) : CurrentResult(out'[c][k]) =>
          k \in 1..Len(out[c]) /\ out'[c][k] = out[c][k]
    BY <1>4, <1>11 DEF CurrentResult
  <2>2. ~IsCommand(less)
    BY <1>3 DEF IsCommand
  <2>3. PICK i \in {0, 1} :
          \A k \in 1..Len(pipe'[c]) : IsCommand(pipe'[c][k]) =>
            k \in Nat /\ k + i \in 1..Len(pipe[c]) /\ pipe'[c][k] = pipe[c][k + i]
    BY <1>12, <2>2
  <2> QED
    BY <1>7, <1>8, <1>9, <1>10, <2>1, <2>3, LessHolds DEF Holds
<1> QED
  BY <1>13, <1>14 DEF Holds

\* media-net closed a removing peer, the lease of a peer ran out, or a peer failed.
LEMMA PeerHolds ==
  ASSUME Shape, Holds
  PROVE  /\ \A p \in Streams : PeerClosed(p) \/ PeerFails(p) \/ RemovalTimeout(p) => Holds'
         /\ \A c \in Sources : PermissionExpires(c) => Holds'
<1>1. ASSUME NEW p \in Streams, RemovalTimeout(p) PROVE Holds'
  BY <1>1 DEF RemovalTimeout, leaseVars, workerVars, Holds, PeersExist, CallOrder, HoldersAccounted,
              LineExists, ReportExists, Subscribed, Done, MayHold, Accounted
<1>2. ASSUME NEW c \in Sources, PermissionExpires(c) PROVE Holds'
  <2>1. /\ UNCHANGED <<owner, op, phase, request, stream, pipe, out, peers, leaving>>
        /\ permitted' = [permitted EXCEPT ![c] = None]
    BY <1>2 DEF PermissionExpires, leaseVars, streamVars
  <2>2. permitted'[c] = None /\ \A d \in Sources : d # c => permitted'[d] = permitted[d]
    BY <2>1 DEF Shape, WorkerTypes
  <2>3. PeersExist'
    BY <2>1, <2>2 DEF Holds, PeersExist, LineExists, ReportExists, Subscribed
  <2>4. CallOrder' /\ HoldersAccounted'
    <3>1. \A k \in 1..Len(pipe'[c]) : k \in Nat /\ k + 0 = k
      OBVIOUS
    <3>2. \A k \in 1..Len(pipe'[c]) : IsCommand(pipe'[c][k]) =>
            k \in Nat /\ k + 0 \in 1..Len(pipe[c]) /\ pipe'[c][k] = pipe[c][k + 0]
      BY <2>1, <3>1
    <3> QED
      BY <2>1, <2>2, <3>2, LessHolds DEF Holds
  <2> QED
    BY <2>3, <2>4 DEF Holds
<1>3. ASSUME NEW p \in Streams, NEW report \in Reports, report.type \in {"peer-closed", "peer-failed"},
             report.type = "peer-closed" => p \in leaving[SourceOf[p]], report.peer = p,
             UNCHANGED <<owner, op, phase, request, stream, pipe>>,
             out' = [out EXCEPT ![SourceOf[p]] = Append(@, report)],
             peers' \in {peers, [peers EXCEPT ![SourceOf[p]] = @ \ {p}]},
             leaving' \in {leaving, [leaving EXCEPT ![SourceOf[p]] = @ \ {p}]},
             \/ permitted' = permitted /\ peers' = peers
             \/ permitted' = [permitted EXCEPT ![SourceOf[p]] = IF @ = p THEN None ELSE @]
      PROVE  Holds'
  <2> DEFINE c == SourceOf[p]
  <2>1. c \in Sources
    BY StreamsAssumption
  <2> HIDE DEF c
  <2>2. /\ \A d \in Sources : d # c => /\ pipe'[d] = pipe[d] /\ out'[d] = out[d] /\ peers'[d] = peers[d]
                                       /\ leaving'[d] = leaving[d] /\ permitted'[d] = permitted[d]
        /\ out'[c] = Append(out[c], report)
        /\ leaving'[c] \subseteq leaving[c]
    BY <1>3, <2>1 DEF c, Shape, WorkerTypes
  <2>3. \/ permitted'[c] = permitted[c] /\ peers'[c] = peers[c]
        \/ /\ peers'[c] \in {peers[c], peers[c] \ {p}}
           /\ permitted'[c] = IF permitted[c] = p THEN None ELSE permitted[c]
    BY <1>3, <2>1 DEF c, Shape, WorkerTypes
  <2>4. \A k \in 1..Len(out'[c]) : \/ k \in 1..Len(out[c]) /\ out'[c][k] = out[c][k]
                                   \/ out'[c][k] = report
    BY <1>3, <2>1, <2>2, Lines, AppendAt DEF Shape
  <2>5. PeersExist'
    <3> SUFFICES ASSUME NEW d \in Sources
                 PROVE  (/\ \A q \in peers[d] : SourceOf[q] = d /\ Subscribed(q)
                         /\ \A q \in leaving[d] : q \notin peers[d] /\ stream[q] # "absent"
                         /\ permitted[d] \in peers[d] \cup {None}
                         /\ \A k \in 1..Len(pipe[d]) : LineExists(d, pipe[d][k])
                         /\ \A k \in 1..Len(out[d]) : ReportExists(d, out[d][k]))'
      BY DEF PeersExist
    <3>0. peers'[d] \subseteq peers[d] /\ leaving'[d] \subseteq leaving[d]
      BY <2>2, <2>3
    <3>1. /\ \A q \in peers'[d] : SourceOf[q] = d /\ Subscribed(q)'
          /\ \A q \in leaving'[d] : q \notin peers'[d] /\ stream'[q] # "absent"
      BY <1>3, <3>0 DEF Holds, PeersExist, Subscribed
    <3>2. permitted'[d] \in peers'[d] \cup {None}
      <4>1. permitted[d] \in peers[d] \cup {None}
        BY DEF Holds, PeersExist
      <4>2. CASE d = c
        BY <2>3, <4>1, <4>2
      <4>3. CASE d # c
        BY <2>2, <4>1, <4>3
      <4> QED
        BY <4>2, <4>3
    <3>3. \A k \in 1..Len(pipe'[d]) : LineExists(d, pipe[d][k])'
      BY <1>3 DEF Holds, PeersExist, LineExists
    <3>4. \A k \in 1..Len(out'[d]) : ReportExists(d, out[d][k])'
      <4> SUFFICES ASSUME NEW k \in 1..Len(out'[d]) PROVE ReportExists(d, out[d][k])'
        OBVIOUS
      <4>1. CASE k \in 1..Len(out[d]) /\ out'[d][k] = out[d][k]
        <5>1. ReportExists(d, out[d][k])
          BY <4>1 DEF Holds, PeersExist
        <5> QED
          BY <1>3, <3>0, <4>1, <5>1 DEF ReportExists
      <4>2. CASE d = c /\ out'[d][k] = report
        <5>1. report.type = "peer-closed" => p \notin peers[c] /\ stream[p] # "absent"
          BY <1>3, <2>1 DEF Holds, PeersExist, c
        <5> QED
          BY <1>3, <3>0, <4>2, <5>1 DEF ReportExists, c
      <4>3. CASE d # c
        BY <2>2, <4>1, <4>3
      <4> QED
        BY <2>4, <4>1, <4>2, <4>3
    <3> QED
      BY <3>1, <3>2, <3>3, <3>4
  <2>6. CallOrder' /\ HoldersAccounted'
    <3>1. \A k \in 1..Len(pipe'[c]) : IsCommand(pipe'[c][k]) =>
            k \in Nat /\ k + 0 \in 1..Len(pipe[c]) /\ pipe'[c][k] = pipe[c][k + 0]
      BY <1>3
    <3>2. \A k \in 1..Len(out'[c]) : CurrentResult(out'[c][k]) =>
            k \in 1..Len(out[c]) /\ out'[c][k] = out[c][k]
      BY <1>3, <2>4 DEF CurrentResult
    <3>3. permitted'[c] \in {permitted[c], None} /\ peers'[c] \subseteq peers[c]
      BY <2>3
    <3> QED
      BY <1>3, <2>1, <2>2, <3>1, <3>2, <3>3, LessHolds DEF Holds
  <2> QED
    BY <2>5, <2>6 DEF Holds
<1>4. ASSUME NEW p \in Streams, PeerClosed(p) PROVE Holds'
  <2>1. [type |-> "peer-closed", peer |-> p] \in Reports
    BY DEF Reports
  <2> QED
    BY <1>3, <1>4, <2>1 DEF PeerClosed, leaseVars, streamVars
<1>5. ASSUME NEW p \in Streams, PeerFails(p) PROVE Holds'
  <2>1. [type |-> "peer-failed", peer |-> p] \in Reports
    BY DEF Reports
  <2> QED
    BY <1>3, <1>5, <2>1 DEF PeerFails, leaseVars, streamVars
<1> QED
  BY <1>1, <1>2, <1>4, <1>5

-----------------------------------------------------------------------------
(* The invariant and what follows from it. *)

LEMMA InitHolds == Init => Holds
BY StreamsAssumption DEF Init, NoRequest, Holds, PeersExist, CallOrder, HoldersAccounted, MayHold

\* No step breaks the invariant.
LEMMA NextHolds == Shape /\ Holds /\ [Next]_vars => Holds'
<1> SUFFICES ASSUME Shape, Holds, [Next]_vars PROVE Holds'
  OBVIOUS
<1>1. CASE UNCHANGED vars
  BY <1>1 DEF vars, leaseVars, deviceVars, streamVars, workerVars, Holds, PeersExist, CallOrder,
              HoldersAccounted, LineExists, ReportExists, Subscribed, Done, MayHold, Accounted
<1>2. CASE LeaseStep
  BY <1>2, LeaseStepHolds
<1>3. CASE Renew
  BY <1>3, CallerHolds
<1>4. CASE RequestTimeout
  BY <1>4, RequestTimeoutHolds
<1>5. ASSUME NEW s \in Sessions,
             \/ Disconnect(s)
             \/ RequestControl(s) \/ ReleaseControl(s)
             \/ HostGrant(s) \/ HostRevoke(s)
             \/ \E m \in Modes : Connect(s, m) \/ SetMode(s, m)
             \/ \E p \in Streams : SelectStream(s, p)
      PROVE  Holds'
  BY <1>5, CallerHolds
<1>6. ASSUME NEW p \in Streams,
             Join(p) \/ StopStream(p) \/ RemovalTimeout(p) \/ PeerFails(p) \/ PeerClosed(p)
      PROVE  Holds'
  BY <1>6, JoinHolds, CallerHolds, PeerHolds
<1>7. ASSUME NEW c \in Sources, Revalidate(c) \/ Receive(c) \/ WorkerExit(c) \/ PermissionExpires(c)
      PROVE  Holds'
  BY <1>7, CallerHolds, ReceiveHolds, WorkerExitHolds, PeerHolds
<1>8. ASSUME NEW c \in Sources, WorkerCommand(c) PROVE Holds'
  BY <1>8, SetPeerPermissionHolds, RemovePeerHolds DEF WorkerCommand
<1> QED
  BY <1>1, <1>2, <1>3, <1>4, <1>5, <1>6, <1>7, <1>8 DEF Next

\* The inductive invariant is an invariant.
THEOREM Invariant == Spec => []IInv
<1>1. Init => Shape /\ Holds
  BY InitShape, InitHolds
<1>2. (Shape /\ Holds) /\ [Next]_vars => (Shape /\ Holds)'
  BY NextShape, NextHolds
<1>3. Shape /\ Holds => IInv
  BY ShapeIsTyped DEF Holds, IInv
<1> QED
  BY <1>1, <1>2, <1>3, PTL DEF Spec

\* No peer keeps input that the server has forgotten: whoever a worker permits is the owner, or the
\* peer the running operation is releasing, removing or granting.
THEOREM PermittedAccounted == Spec => []PermittedIsAccounted
<1>1. IInv => PermittedIsAccounted
  BY DEF IInv, TypeOK, HoldersAccounted, MayHold, Accounted, PermittedIsAccounted
<1> QED
  BY <1>1, Invariant, PTL

\* At most one peer of all workers is permitted to send input, for any number of viewers, shared
\* sources and waiting requests, and whatever acknowledgements are lost or late.
THEOREM OnePermitted == Spec => []AtMostOnePermitted
<1>1. IInv => AtMostOnePermitted
  <2> SUFFICES ASSUME IInv, NEW c \in Sources, NEW d \in Sources, permitted[c] # None, permitted[d] # None
               PROVE  c = d
    BY DEF AtMostOnePermitted
  <2>1. permitted[c] \in Streams /\ permitted[d] \in Streams
    BY DEF IInv, TypeOK
  <2>2. Accounted(permitted[c]) /\ Accounted(permitted[d])
    BY <2>1 DEF IInv, HoldersAccounted, MayHold
  <2>3. permitted[c] = permitted[d]
    BY <2>2 DEF IInv, LeaseShape, Accounted
  <2> QED
    BY <2>3 DEF IInv, PeersExist
<1> QED
  BY <1>1, Invariant, PTL

\* The owner changes by a step of the running operation alone.
LEMMA OwnerByLease ==
  ASSUME [Next]_vars, owner' # owner
  PROVE  LeaseStep
<1>1. \A s \in Sessions : \A p \in Streams : ~SelectStream(s, p)
  BY DEF SelectStream, Enqueue, leaseVars
<1>2. \A s \in Sessions : ~Disconnect(s)
  BY DEF Disconnect, StopStreams, Enqueue, leaseVars
<1>3. \A s \in Sessions : /\ ~(RequestControl(s) \/ ReleaseControl(s) \/ HostGrant(s) \/ HostRevoke(s))
                          /\ \A m \in Modes : ~(Connect(s, m) \/ SetMode(s, m))
  BY DEF RequestControl, ReleaseControl, HostGrant, HostRevoke, Connect, SetMode, Enqueue, leaseVars
<1>4. \A p \in Streams : ~(Join(p) \/ StopStream(p) \/ RemovalTimeout(p) \/ PeerFails(p) \/ PeerClosed(p))
  BY DEF Join, StopStream, StopStreams, RemovalTimeout, PeerFails, PeerClosed, Enqueue, leaseVars
<1>5. \A c \in Sources : ~(Revalidate(c) \/ Receive(c) \/ WorkerExit(c)
                             \/ WorkerCommand(c) \/ PermissionExpires(c))
  BY DEF Revalidate, Receive, ReceiveResult, ReceiveClosed, ReceiveFailed, WorkerExit,
         WorkerCommand, PermissionExpires, Enqueue, leaseVars
<1>6. ~Renew /\ ~RequestTimeout /\ ~UNCHANGED vars
  BY DEF Renew, RequestTimeout, Enqueue, leaseVars, vars
<1> QED
  BY <1>1, <1>2, <1>3, <1>4, <1>5, <1>6 DEF Next

\* A viewer's own request never ends another session's control: it goes on past its first check
\* only when nobody holds control, and nobody gets it while it runs.
THEOREM NeverTakes == Spec => RequestNeverTakes
<1>1. ASSUME IInv, [Next]_vars, owner # None, owner' # owner, op # None, op.kind = "grant", op.only
      PROVE  owner.session = op.session
  <2>1. phase \in {"idle", "begin"}
    BY <1>1 DEF IInv, TypeOK, LeaseShape
  <2>2. LeaseStep
    BY <1>1, OwnerByLease
  <2>3. BeginGrant
    BY <1>1, <2>1, <2>2 DEF LeaseStep, Begin, Released, ReleasedByRemoval, Granted, CleanedUp, Renewed,
                            BeginRevoke, BeginRenew
  <2> QED
    BY <1>1, <2>3 DEF BeginGrant, Available
<1>2. IInv /\ [Next]_vars =>
        [(owner # None /\ owner' # owner /\ op # None /\ op.kind = "grant" /\ op.only)
          => owner.session = op.session]_vars
  BY <1>1
<1> QED
  BY <1>2, Invariant, PTL DEF Spec, RequestNeverTakes

-----------------------------------------------------------------------------
(* Who may keep control.  Beside the shape of the lease: no grant waits in the queue, and what a
   revoke in the queue and a grant under way say about the owner and its device. *)

\* A revoke of the session is queued behind the running operation, or is that operation.
Queued(s) == \E k \in 1..Len(waiting) : waiting[k].kind = "revoke" /\ waiting[k].session = s
Revoking(s) == (op # None /\ op.kind = "revoke" /\ op.session = s) \/ Queued(s)

\* A revoke on its own: the viewer's release or the host's revoke.
Returns(o) == o.kind = "revoke" /\ o.next = "none"

\* The device has been signed in.
Known(s) == s \in Sessions /\ connected[s] # "new"

QueueOrder ==
  /\ op = None => waiting = <<>>
  /\ \A k \in 1..Len(waiting) : waiting[k].kind # "grant"
  /\ op # None /\ (op.kind = "grant" \/ Returns(op)) => Known(op.session)
  /\ \A k \in 1..Len(waiting) : Returns(waiting[k]) => Known(waiting[k].session)

\* The owner's stream has existed, and a device that may not help itself any more loses the
\* control it took itself.
OwnerLosing ==
  owner # None =>
    /\ owner.session = SessionOf[owner.stream]
    /\ connected[owner.session] # "new"
    /\ stream[owner.stream] # "absent"
    /\ (/\ ~owner.explicit
        /\ owner.session \notin automatic
        /\ connected[owner.session] = "connected" \/ Subscribed(owner.stream))
         => Revoking(owner.session)

\* A grant under way for such a device is followed by its revoke, and the only grant without
\* the host that goes past an owner moves the control that owner took itself.
GrantLosing ==
  op # None /\ op.kind = "grant" =>
    /\ ~op.explicit /\ op.session \notin automatic /\ connected[op.session] = "connected" => Queued(op.session)
    /\ phase = "begin" /\ ~op.only /\ ~op.explicit => owner # None /\ ~owner.explicit

\* A release waits for the session.
Returning(s) ==
  \/ op # None /\ Returns(op) /\ op.session = s
  \/ \E k \in 1..Len(waiting) : Returns(waiting[k]) /\ waiting[k].session = s

\* What a session that may help itself hands back is not the host's to give.
ReturnsOwn ==
  \A s \in automatic : Returning(s) =>
    /\ owner # None /\ owner.explicit => owner.session # s
    /\ op # None => op.kind # "grant"

Losing == QueueOrder /\ OwnerLosing /\ GrantLosing /\ ReturnsOwn

-----------------------------------------------------------------------------
(* Streams and devices only age. *)

\* A stream that has existed never comes back.
Ages ==
  \A p \in Streams : stream[p] # "absent" => stream'[p] # "absent" /\ (Subscribed(p)' => Subscribed(p))

\* A device signs in once and may help itself only from then on.
DevicesAge ==
  /\ \A s \in Sessions : connected[s] # "new" =>
       connected'[s] # "new" /\ (connected'[s] = "connected" => connected[s] = "connected")
  /\ \A s \in automatic' : s \in automatic \/ connected[s] = "new"

LEMMA CloseAndRemoveAges ==
  ASSUME NEW C, NEW E, NEW by, CloseAndRemove(C, E, by)
  PROVE  Ages
BY DEF CloseAndRemove, Ages, Subscribed

LEMMA CloseSourceAges ==
  ASSUME NEW c, CloseSource(c)
  PROVE  Ages
<1>1. CASE stream' = [p \in Streams |-> IF p \in Subscriptions(c) THEN "closing" ELSE stream[p]]
  BY <1>1 DEF Ages, Subscriptions, Subscribed
<1>2. CASE stream' = stream
  BY <1>2 DEF Ages, Subscribed
<1> QED
  BY <1>1, <1>2 DEF CloseSource

LEMMA KeptAges ==
  ASSUME stream' = stream
  PROVE  Ages
BY DEF Ages, Subscribed

-----------------------------------------------------------------------------
(* The queue. *)

\* What the queue holds.
LEMMA QueueTypes ==
  ASSUME Shape
  PROVE  /\ op # None => op \in QueuedOps /\ op \in Ops
         /\ waiting \in Seq(QueuedOps) /\ Len(waiting) \in Nat
         /\ \A k \in 1..Len(waiting) : waiting[k] \in QueuedOps
         /\ owner # None => owner \in Owners
BY DEF Shape, LeaseTypes, LeaseShape, QueuedOps

\* An operation joins the queue.
LEMMA EnqueueQueues ==
  ASSUME Shape, NEW o \in QueuedOps, Enqueue(o)
  PROVE  /\ owner' = owner
         /\ op = None => op' = o /\ waiting' = waiting /\ phase' = "begin"
         /\ op # None => op' = op /\ phase' = phase /\ waiting' = Append(waiting, o)
         /\ \A k \in 1..Len(waiting) : k \in 1..Len(waiting') /\ waiting'[k] = waiting[k]
         /\ op # None => Len(waiting') \in 1..Len(waiting') /\ waiting'[Len(waiting')] = o
         /\ \A k \in 1..Len(waiting') : (k \in 1..Len(waiting) /\ waiting'[k] = waiting[k]) \/ waiting'[k] = o
<1>1. waiting \in Seq(QueuedOps) /\ Len(waiting) \in Nat
  BY QueueTypes
<1>2. CASE op = None
  BY <1>1, <1>2 DEF Enqueue
<1>3. CASE op # None
  <2>1. op' = op /\ phase' = phase /\ waiting' = Append(waiting, o) /\ owner' = owner
    BY <1>3 DEF Enqueue
  <2>2. /\ Len(waiting') = Len(waiting) + 1
        /\ \A k \in 1..Len(waiting) : waiting'[k] = waiting[k]
        /\ waiting'[Len(waiting) + 1] = o
    BY <1>1, <2>1, AppendAt
  <2> QED
    BY <1>1, <1>3, <2>1, <2>2
<1> QED
  BY <1>2, <1>3

\* So does every revoke that waits.
LEMMA EnqueueRevokes ==
  ASSUME Shape, NEW o \in QueuedOps, Enqueue(o)
  PROVE  /\ \A s : Queued(s) => Queued(s)'
         /\ \A s : Revoking(s) => Revoking(s)'
         /\ o.kind = "revoke" => Revoking(o.session)' /\ (op # None => Queued(o.session)')
         /\ \A s : Returning(s)' => Returning(s) \/ (Returns(o) /\ o.session = s)
<1>0. o # None
  BY NoneAssumption DEF QueuedOps
<1>1. \A s : Queued(s) => Queued(s)'
  BY EnqueueQueues DEF Queued
<1>2. \A s : Revoking(s) => Revoking(s)'
  BY <1>1, EnqueueQueues DEF Revoking
<1>3. ASSUME o.kind = "revoke" PROVE Revoking(o.session)' /\ (op # None => Queued(o.session)')
  <2>1. op # None => Queued(o.session)'
    BY <1>3, EnqueueQueues DEF Queued
  <2>2. op = None => op' = o
    BY EnqueueQueues
  <2> QED
    BY <1>0, <1>3, <2>1, <2>2 DEF Revoking
<1>4. \A s : Returning(s)' => Returning(s) \/ (Returns(o) /\ o.session = s)
  BY EnqueueQueues DEF Returning, Returns
<1> QED
  BY <1>1, <1>2, <1>3, <1>4

\* A session that may not help itself any more: its revoke is queued, or it has left and holds
\* control on no stream that still exists.
LosesControl ==
  \A s \in Sessions : s \in automatic /\ s \notin automatic' =>
    \/ Revoking(s)' /\ (op # None => Queued(s)')
    \/ /\ connected'[s] # "connected"
       /\ owner # None /\ owner.session = s /\ Subscribed(owner.stream)' => Revoking(s)'

\* What the owner's device and stream may still become.
LEMMA OwnerAges ==
  ASSUME Shape, OwnerLosing, Ages, DevicesAge, owner # None, owner' = owner
  PROVE  /\ owner.session \in Sessions /\ owner.stream \in Streams
         /\ connected'[owner.session] # "new" /\ stream'[owner.stream] # "absent"
         /\ connected'[owner.session] = "connected" => connected[owner.session] = "connected"
         /\ Subscribed(owner.stream)' => Subscribed(owner.stream)
<1>1. owner.session \in Sessions /\ owner.stream \in Streams
  BY QueueTypes DEF Owners
<1>2. connected[owner.session] # "new" /\ stream[owner.stream] # "absent"
  BY DEF OwnerLosing
<1> QED
  BY <1>1, <1>2 DEF DevicesAge, Ages, Subscribed

\* Devices come, change and go, and the lease is left alone.
LEMMA KeptLosing ==
  ASSUME Shape, Losing, Ages, DevicesAge, LosesControl, UNCHANGED <<owner, op, phase, waiting>>
  PROVE  Losing'
<1> USE DEF Losing
<1>0. /\ op # None => op \in Ops
      /\ owner # None => owner.session \in Sessions /\ owner.stream \in Streams
  BY QueueTypes DEF Owners
<1>1. QueueOrder'
  BY DEF QueueOrder, Known, DevicesAge
<1>2. OwnerLosing'
  <2> SUFFICES ASSUME owner # None PROVE OwnerLosing'
    BY DEF OwnerLosing
  <2>2. Revoking(owner.session) => Revoking(owner.session)'
    BY DEF Revoking, Queued
  <2> QED
    BY <2>2, OwnerAges DEF OwnerLosing, LosesControl
<1>3. GrantLosing'
  <2> SUFFICES ASSUME op # None, op.kind = "grant" PROVE GrantLosing'
    BY DEF GrantLosing
  <2>1. Known(op.session)
    BY DEF QueueOrder
  <2>2. Queued(op.session) => Queued(op.session)'
    BY DEF Queued
  <2> QED
    BY <2>1, <2>2 DEF GrantLosing, Known, DevicesAge, LosesControl
<1>4. ReturnsOwn'
  <2>1. \A s : Returning(s)' => Returning(s)
    BY DEF Returning
  <2>2. \A s : Returning(s) => Known(s)
    BY DEF Returning, QueueOrder
  <2> QED
    BY <2>1, <2>2 DEF ReturnsOwn, Known, DevicesAge
<1> QED
  BY <1>1, <1>2, <1>3, <1>4

\* An operation joins the queue: a grant only when nothing runs, for a device that may help
\* itself, for the host, or for control the device took itself; a release only of control the
\* host did not give.
Fits(o) ==
  /\ o \in QueuedOps
  /\ o.kind = "grant" \/ Returns(o) => Known(o.session)
  /\ o.kind = "grant" =>
       /\ op = None
       /\ ~o.explicit => o.session \in automatic
       /\ ~o.only /\ ~o.explicit => owner # None /\ ~owner.explicit
  /\ Returns(o) =>
       \/ o.session \notin automatic'
       \/ /\ owner # None /\ owner.explicit => owner.session # o.session
          /\ op # None => op.kind # "grant"

LEMMA EnqueueLosing ==
  ASSUME Shape, Losing, Ages, DevicesAge, LosesControl, NEW o, Fits(o), Enqueue(o),
         o.kind = "grant" => UNCHANGED automatic
  PROVE  Losing'
<1> USE DEF Losing
<1>0. /\ op # None => op \in Ops
      /\ owner # None => owner.session \in Sessions /\ owner.stream \in Streams
      /\ o \in QueuedOps /\ o # None
  BY QueueTypes, NoneAssumption DEF Owners, Fits, QueuedOps
<1>q. /\ owner' = owner
      /\ op = None => op' = o /\ waiting' = waiting /\ phase' = "begin"
      /\ op # None => op' = op /\ phase' = phase
      /\ \A k \in 1..Len(waiting') : (k \in 1..Len(waiting) /\ waiting'[k] = waiting[k]) \/ waiting'[k] = o
  BY <1>0, EnqueueQueues
<1>r. /\ \A s : Queued(s) => Queued(s)'
      /\ \A s : Revoking(s) => Revoking(s)'
      /\ \A s : Returning(s)' => Returning(s) \/ (Returns(o) /\ o.session = s)
  BY <1>0, EnqueueRevokes
<1>1. QueueOrder'
  <2>1. \A s : Known(s) => Known(s)'
    BY DEF Known, DevicesAge
  <2>2. op' # None
    BY <1>0, <1>q
  <2>3. \A k \in 1..Len(waiting') : waiting'[k].kind # "grant"
    <3>1. CASE op = None
      BY <1>q, <3>1 DEF QueueOrder
    <3>2. CASE op # None
      BY <1>q, <3>2 DEF QueueOrder, Fits
    <3> QED
      BY <3>1, <3>2
  <2>4. (op'.kind = "grant" \/ Returns(op')) => Known(op'.session)
    BY <1>q DEF QueueOrder, Fits
  <2>5. \A k \in 1..Len(waiting') : Returns(waiting'[k]) => Known(waiting'[k].session)
    BY <1>q DEF QueueOrder, Fits
  <2> QED
    BY <2>1, <2>2, <2>3, <2>4, <2>5 DEF QueueOrder, Returns
<1>2. OwnerLosing'
  <2> SUFFICES ASSUME owner # None PROVE OwnerLosing'
    BY <1>q DEF OwnerLosing
  <2> QED
    BY <1>q, <1>r, OwnerAges DEF OwnerLosing, LosesControl
<1>3. GrantLosing'
  <2>1. CASE op = None
    <3>1. ASSUME o.kind = "grant" PROVE GrantLosing'
      BY <1>0, <1>q, <2>1, <3>1 DEF GrantLosing, Fits
    <3>2. ASSUME o.kind # "grant" PROVE GrantLosing'
      BY <1>q, <2>1, <3>2 DEF GrantLosing
    <3> QED
      BY <3>1, <3>2
  <2>2. CASE op # None
    <3> SUFFICES ASSUME op.kind = "grant" PROVE GrantLosing'
      BY <1>q, <2>2 DEF GrantLosing
    <3>1. Known(op.session)
      BY <2>2 DEF QueueOrder
    <3> QED
      BY <1>q, <1>r, <2>2, <3>1 DEF GrantLosing, Known, DevicesAge, LosesControl
  <2> QED
    BY <2>1, <2>2
<1>4. ReturnsOwn'
  <2> SUFFICES ASSUME NEW s \in automatic', Returning(s)'
               PROVE  /\ owner' # None /\ owner'.explicit => owner'.session # s
                      /\ op' # None => op'.kind # "grant"
    BY DEF ReturnsOwn
  <2>1. CASE Returning(s)
    <3>1. Known(s)
      BY <2>1 DEF Returning, QueueOrder
    <3>2. s \in automatic
      BY <3>1 DEF Known, DevicesAge
    <3>3. op # None
      BY <2>1 DEF Returning, QueueOrder
    <3> QED
      BY <1>q, <2>1, <3>2, <3>3 DEF ReturnsOwn
  <2>2. CASE Returns(o) /\ o.session = s
    <3>1. o.kind # "grant"
      BY <2>2 DEF Returns
    <3> QED
      BY <1>q, <2>2, <3>1 DEF Fits
  <2> QED
    BY <1>r, <2>1, <2>2
<1> QED
  BY <1>1, <1>2, <1>3, <1>4

\* A step that touches neither the lease nor who may help itself.
LEMMA AgingLosing ==
  ASSUME Shape, Losing, Ages, UNCHANGED <<owner, op, phase, waiting, connected, automatic>>
  PROVE  Losing'
BY KeptLosing DEF DevicesAge, LosesControl

\* Devices, viewers, the host and the control timer.
LEMMA CallerLosing ==
  ASSUME Shape, Losing, NEW s \in Sessions
  PROVE  /\ \A m \in Modes : Connect(s, m) \/ SetMode(s, m) => Losing'
         /\ \A p \in Streams : SelectStream(s, p) => Losing'
         /\ RequestControl(s) \/ ReleaseControl(s) => Losing'
         /\ HostGrant(s) \/ HostRevoke(s) => Losing'
<1>0. /\ op # None => op \in QueuedOps
      /\ owner # None => owner \in Owners
  BY QueueTypes
<1>k. UNCHANGED <<connected, automatic>> => DevicesAge /\ LosesControl
  BY DEF DevicesAge, LosesControl
<1>s. UNCHANGED streamVars => Ages
  BY KeptAges DEF streamVars
<1>n. ASSUME NEW p \in Streams \cup {None}
      PROVE  NewOp("revoke", s, p, FALSE, FALSE, "none") \in QueuedOps
  BY DEF NewOp, QueuedOps, Ops, WellFormed
<1>m. ASSUME NEW p \in Streams
      PROVE  NewOp("revoke", s, p, FALSE, FALSE, "select") \in QueuedOps
  BY DEF NewOp, QueuedOps, Ops, WellFormed
<1>g. \A p \in Streams, only \in BOOLEAN, explicit \in BOOLEAN, next \in {"none", "select"} :
        NewOp("grant", s, p, only, explicit, next) \in QueuedOps
  BY DEF NewOp, QueuedOps, Ops, WellFormed
<1>1. ASSUME NEW m \in Modes, Connect(s, m) PROVE Losing'
  <2>1. UNCHANGED <<owner, op, phase, waiting>> /\ UNCHANGED streamVars
    BY <1>1 DEF Connect, leaseVars
  <2>2. connected \in [Sessions -> {"new", "connected", "gone"}]
    BY DEF Shape, DeviceTypes
  <2>3. DevicesAge /\ LosesControl
    BY <1>1, <2>2 DEF Connect, DevicesAge, LosesControl
  <2> QED
    BY <1>s, <2>1, <2>3, KeptLosing
<1>2. ASSUME NEW m \in Modes, SetMode(s, m) PROVE Losing'
  BY <1>2, <1>s, AgingLosing DEF SetMode, leaseVars
<1>3. ASSUME NEW p \in Streams, SelectStream(s, p) PROVE Losing'
  <2>1. UNCHANGED <<connected, automatic>> /\ UNCHANGED streamVars
    BY <1>3 DEF SelectStream
  <2>2. Known(s)
    BY <1>3 DEF SelectStream, Known
  <2>3. CASE UNCHANGED leaseVars
    BY <2>1, <2>3, <1>s, AgingLosing DEF leaseVars
  <2>4. CASE /\ owner # None /\ owner.session = s /\ CurrentControl(s, p, owner.explicit) /\ ~Pending
             /\ Enqueue(NewOp("grant", s, p, FALSE, owner.explicit, "select"))
    <3>1. owner.explicit \in BOOLEAN
      BY <1>0, <2>4 DEF Owners
    <3>2. op = None
      BY <2>4 DEF Pending
    <3>3. ~owner.explicit => s \in automatic
      <4>1. ~Revoking(s)
        BY <3>2 DEF Losing, QueueOrder, Revoking, Queued
      <4> QED
        BY <2>4, <4>1 DEF Losing, OwnerLosing, CurrentControl
    <3> DEFINE o == NewOp("grant", s, p, FALSE, owner.explicit, "select")
    <3>4. /\ o \in QueuedOps /\ o.kind = "grant" /\ o.session = s /\ o.explicit = owner.explicit
      BY <1>g, <3>1 DEF NewOp
    <3> HIDE DEF o
    <3>5. Fits(o)
      BY <2>2, <2>4, <3>2, <3>3, <3>4 DEF Fits, Returns
    <3> QED
      BY <1>k, <1>s, <2>1, <2>4, <3>5, EnqueueLosing DEF o
  <2>5. CASE Enqueue(NewOp("revoke", s, p, FALSE, FALSE, "select"))
    <3> DEFINE o == NewOp("revoke", s, p, FALSE, FALSE, "select")
    <3>1. o \in QueuedOps /\ o.kind = "revoke" /\ o.next = "select"
      BY <1>m DEF NewOp
    <3> HIDE DEF o
    <3>2. Fits(o)
      BY <3>1 DEF Fits, Returns
    <3> QED
      BY <1>k, <1>s, <2>1, <2>5, <3>1, <3>2, EnqueueLosing DEF o
  <2> QED
    BY <1>3, <2>3, <2>4, <2>5 DEF SelectStream
<1>4. ASSUME RequestControl(s) PROVE Losing'
  <2> DEFINE o == NewOp("grant", s, selected[s], TRUE, FALSE, "none")
  <2>1. o \in QueuedOps /\ o.kind = "grant" /\ o.session = s /\ o.only
    BY <1>4, <1>g DEF RequestControl, CurrentControl, NewOp
  <2>2. Enqueue(o) /\ UNCHANGED <<connected, automatic>> /\ UNCHANGED streamVars
    BY <1>4 DEF RequestControl, deviceVars
  <2> HIDE DEF o
  <2>3. Fits(o)
    BY <1>4, <2>1 DEF RequestControl, Pending, Known, Fits, Returns
  <2> QED
    BY <1>k, <1>s, <2>2, <2>3, EnqueueLosing
<1>5. ASSUME ReleaseControl(s) PROVE Losing'
  <2> DEFINE o == NewOp("revoke", s, None, FALSE, FALSE, "none")
  <2>1. o \in QueuedOps /\ o.kind = "revoke" /\ o.session = s
    BY <1>n DEF NewOp
  <2>2. Enqueue(o) /\ UNCHANGED <<connected, automatic>> /\ UNCHANGED streamVars
    BY <1>5 DEF ReleaseControl, deviceVars
  <2> HIDE DEF o
  <2>3. op # None => op.kind # "grant"
    BY <1>5 DEF ReleaseControl, Quiet, Shape, LeaseTypes, LeaseShape
  <2>4. Fits(o)
    BY <1>5, <2>1, <2>3 DEF ReleaseControl, Known, Fits, Returns
  <2> QED
    BY <1>k, <1>s, <2>1, <2>2, <2>4, EnqueueLosing
<1>6. ASSUME HostGrant(s) PROVE Losing'
  <2> DEFINE o == NewOp("grant", s, selected[s], FALSE, TRUE, "none")
  <2>1. o \in QueuedOps /\ o.kind = "grant" /\ o.session = s /\ o.explicit
    BY <1>6, <1>g DEF HostGrant, CurrentControl, NewOp
  <2>2. Enqueue(o) /\ UNCHANGED <<connected, automatic>> /\ UNCHANGED streamVars
    BY <1>6 DEF HostGrant, deviceVars
  <2> HIDE DEF o
  <2>3. Fits(o)
    BY <1>6, <2>1 DEF HostGrant, CurrentControl, Pending, Known, Fits, Returns
  <2> QED
    BY <1>k, <1>s, <2>2, <2>3, EnqueueLosing
<1>7. ASSUME HostRevoke(s) PROVE Losing'
  <2> DEFINE o == NewOp("revoke", s, None, FALSE, FALSE, "none")
  <2>1. o \in QueuedOps /\ o.kind = "revoke" /\ o.session = s
    BY <1>n DEF NewOp
  <2>2. Enqueue(o) /\ connected' = connected /\ automatic' = automatic \ {s} /\ UNCHANGED streamVars
    BY <1>7 DEF HostRevoke
  <2> HIDE DEF o
  <2>3. Fits(o)
    BY <1>7, <2>1, <2>2 DEF HostRevoke, Known, Fits, Returns
  <2>4. DevicesAge
    BY <2>2 DEF DevicesAge
  <2>5. Revoking(s)' /\ (op # None => Queued(s)')
    BY <2>1, <2>2, EnqueueRevokes
  <2>6. LosesControl
    BY <2>2, <2>5 DEF LosesControl
  <2> QED
    BY <1>s, <2>1, <2>2, <2>3, <2>4, <2>6, EnqueueLosing
<1> QED
  BY <1>1, <1>2, <1>3, <1>4, <1>5, <1>6, <1>7

\* The control timer.
LEMMA RenewLosing ==
  ASSUME Shape, Losing, Renew
  PROVE  Losing'
<1> DEFINE o == NewOp("renew", None, None, FALSE, FALSE, "none")
<1>1. o \in QueuedOps /\ o.kind = "renew"
  BY DEF NewOp, QueuedOps, Ops, WellFormed
<1>2. Enqueue(o) /\ UNCHANGED <<connected, automatic, stream>>
  BY DEF Renew, deviceVars, streamVars
<1> HIDE DEF o
<1>3. Fits(o)
  BY <1>1 DEF Fits, Returns
<1>4. DevicesAge /\ LosesControl
  BY <1>2 DEF DevicesAge, LosesControl
<1> QED
  BY <1>1, <1>2, <1>3, <1>4, KeptAges, EnqueueLosing

\* Streams and sources that end by a caller.  A session that leaves has the control it holds on
\* a stream that still exists taken away.
LEMMA EndingLosing ==
  ASSUME Shape, Losing
  PROVE  /\ \A p \in Streams : Join(p) \/ StopStream(p) => Losing'
         /\ \A s \in Sessions : Disconnect(s) => Losing'
         /\ \A c \in Sources : Revalidate(c) => Losing'
<1>0. owner # None => owner.session \in Sessions /\ owner.stream \in Streams
  BY QueueTypes DEF Owners
<1>1. ASSUME NEW s \in Sessions, NEW E \in SUBSET Streams, StopStreams(s, E), DevicesAge,
             \A t \in Sessions : t \in automatic /\ t \notin automatic' => t = s,
             automatic' # automatic =>
               /\ connected'[s] # "connected"
               /\ owner # None /\ owner.session = s /\ Subscribed(owner.stream) => owner.stream \in E
      PROVE  Losing'
  <2> DEFINE held == {p \in E : owner # None /\ owner.stream = p}
  <2>1. CloseAndRemove(E, E \ held, "other")
    BY <1>1 DEF StopStreams
  <2>2. Ages
    <3> HIDE DEF held
    <3> QED
      BY <2>1, CloseAndRemoveAges
  <2>3. CASE held = {}
    <3>1. UNCHANGED <<owner, op, phase, waiting>>
      BY <1>1, <2>3 DEF StopStreams, leaseVars
    <3>2. \A t \in Sessions : owner # None /\ owner.session = t /\ Subscribed(owner.stream)'
            => Subscribed(owner.stream)
      BY <1>0, <2>2, <3>1 DEF Ages, Losing, OwnerLosing, Subscribed
    <3>3. LosesControl
      <4> SUFFICES ASSUME NEW t \in Sessions, t \in automatic, t \notin automatic'
                   PROVE  /\ connected'[t] # "connected"
                          /\ ~(owner # None /\ owner.session = t /\ Subscribed(owner.stream)')
        BY DEF LosesControl
      <4> QED
        BY <1>1, <2>3, <3>2
    <3> QED
      BY <1>1, <2>2, <3>1, <3>3, KeptLosing
  <2>4. CASE held # {}
    <3>1. owner # None /\ owner.stream \in Streams
      BY <2>4
    <3> DEFINE o == NewOp("revoke", s, owner.stream, FALSE, FALSE, "end")
    <3>2. o \in QueuedOps /\ o.kind = "revoke" /\ o.session = s /\ o.next = "end"
      BY <3>1 DEF NewOp, QueuedOps, Ops, WellFormed
    <3>3. Enqueue(o)
      BY <1>1, <2>4 DEF StopStreams
    <3> HIDE DEF o
    <3>4. Fits(o)
      BY <3>2 DEF Fits, Returns
    <3>5. Revoking(s)' /\ (op # None => Queued(s)')
      BY <3>2, <3>3, EnqueueRevokes
    <3>6. LosesControl
      BY <1>1, <3>5 DEF LosesControl
    <3> QED
      BY <1>1, <2>2, <3>2, <3>3, <3>4, <3>6, EnqueueLosing
  <2> QED
    BY <2>3, <2>4
<1>2. ASSUME NEW p \in Streams, Join(p) PROVE Losing'
  <2>1. Ages
    BY <1>2 DEF Join, Ages, Subscribed, Shape, StreamTypes
  <2> QED
    BY <1>2, <2>1, AgingLosing DEF Join, leaseVars, deviceVars
<1>3. ASSUME NEW p \in Streams, StopStream(p) PROVE Losing'
  <2>1. SessionOf[p] \in Sessions /\ {p} \in SUBSET Streams
    BY StreamsAssumption
  <2>2. StopStreams(SessionOf[p], {p}) /\ UNCHANGED <<connected, automatic>>
    BY <1>3 DEF StopStream, deviceVars
  <2>3. DevicesAge
    BY <2>2 DEF DevicesAge
  <2> QED
    BY <1>1, <2>1, <2>2, <2>3
<1>4. ASSUME NEW s \in Sessions, Disconnect(s) PROVE Losing'
  <2> DEFINE E == {p \in Streams : SessionOf[p] = s /\ Subscribed(p)}
  <2>1. E \in SUBSET Streams /\ StopStreams(s, E)
    BY <1>4 DEF Disconnect
  <2>2. /\ connected' = [connected EXCEPT ![s] = "gone"] /\ automatic' = automatic \ {s}
        /\ connected[s] = "connected" /\ connected \in [Sessions -> {"new", "connected", "gone"}]
    BY <1>4 DEF Disconnect, Shape, DeviceTypes
  <2>3. DevicesAge
    BY <2>2 DEF DevicesAge
  <2>4. connected'[s] # "connected"
    BY <2>2
  <2>5. owner # None /\ owner.session = s /\ Subscribed(owner.stream) => owner.stream \in E
    BY <1>0 DEF Losing, OwnerLosing
  <2> HIDE DEF E
  <2> QED
    BY <1>1, <2>1, <2>2, <2>3, <2>4, <2>5
<1>5. ASSUME NEW c \in Sources, Revalidate(c) PROVE Losing'
  <2>1. UNCHANGED <<connected, automatic>>
    BY <1>5 DEF Revalidate, deviceVars
  <2>2. CASE owner # None /\ owner.stream \in Subscriptions(c)
    <3> DEFINE o == NewOp("revoke", owner.session, c, FALSE, FALSE, "close")
    <3>1. o \in QueuedOps /\ o.kind = "revoke" /\ o.next = "close"
      BY <1>0, <2>2 DEF NewOp, QueuedOps, Ops, WellFormed
    <3>2. Enqueue(o) /\ UNCHANGED stream
      BY <1>5, <2>2 DEF Revalidate, streamVars
    <3> HIDE DEF o
    <3>3. Fits(o)
      BY <3>1 DEF Fits, Returns
    <3>4. DevicesAge /\ LosesControl
      BY <2>1 DEF DevicesAge, LosesControl
    <3> QED
      BY <3>1, <3>2, <3>3, <3>4, KeptAges, EnqueueLosing
  <2>3. CASE ~(owner # None /\ owner.stream \in Subscriptions(c))
    <3>1. CloseSource(c) /\ UNCHANGED <<owner, op, phase, waiting>>
      BY <1>5, <2>3 DEF Revalidate, leaseVars
    <3> QED
      BY <2>1, <3>1, CloseSourceAges, AgingLosing
  <2> QED
    BY <2>2, <2>3
<1> QED
  BY <1>2, <1>3, <1>4, <1>5

\* native-media.mjs and the workers.
LEMMA MediaLosing ==
  ASSUME Shape, Losing
  PROVE  /\ RequestTimeout => Losing'
         /\ \A p \in Streams : RemovalTimeout(p) \/ PeerClosed(p) \/ PeerFails(p) => Losing'
         /\ \A c \in Sources : Receive(c) \/ WorkerExit(c) \/ WorkerCommand(c)
                                 \/ PermissionExpires(c) => Losing'
<1>1. ASSUME RequestTimeout PROVE Losing'
  BY <1>1, KeptAges, AgingLosing DEF RequestTimeout, deviceVars, streamVars
<1>2. ASSUME NEW p \in Streams, RemovalTimeout(p) PROVE Losing'
  BY <1>2, KeptAges, AgingLosing DEF RemovalTimeout, leaseVars, deviceVars
<1>3. ASSUME NEW p \in Streams, PeerClosed(p) \/ PeerFails(p) PROVE Losing'
  BY <1>3, KeptAges, AgingLosing DEF PeerClosed, PeerFails, leaseVars, deviceVars, streamVars
<1>4. ASSUME NEW c \in Sources, WorkerCommand(c) \/ PermissionExpires(c) PROVE Losing'
  BY <1>4, KeptAges, AgingLosing DEF WorkerCommand, PermissionExpires, leaseVars, deviceVars, streamVars
<1>5. ASSUME NEW c \in Sources, WorkerExit(c) PROVE Losing'
  <2>1. Ages
    BY <1>5 DEF WorkerExit, Ages, Subscribed
  <2> QED
    BY <1>5, <2>1, AgingLosing DEF WorkerExit
<1>6. ASSUME NEW c \in Sources, Receive(c) PROVE Losing'
  <2>1. PICK m \in Reports : ReceiveResult(c, m) \/ ReceiveClosed(c, m) \/ ReceiveFailed(c, m)
    <3>1. Head(out[c]) \in Reports
      BY <1>6, TailAt DEF Receive, Shape, WorkerTypes
    <3> QED
      BY <1>6, <3>1 DEF Receive
  <2>2. CASE ReceiveResult(c, m)
    BY <2>2, KeptAges, AgingLosing DEF ReceiveResult, deviceVars, streamVars
  <2>3. CASE ReceiveClosed(c, m)
    <3>1. Ages
      <4>1. CASE Subscribed(m.peer)
        <5>1. m.peer \in Streams
          BY <2>1, <2>3, Fields DEF ReceiveClosed
        <5>2. Unsubscribe(m.peer)
          BY <2>3, <4>1 DEF ReceiveClosed
        <5> QED
          BY <5>1, <5>2 DEF Unsubscribe, Ages, Subscribed, Shape, StreamTypes
      <4>2. CASE ~Subscribed(m.peer)
        BY <2>3, <4>2, KeptAges DEF ReceiveClosed
      <4> QED
        BY <4>1, <4>2
    <3> QED
      BY <2>3, <3>1, AgingLosing DEF ReceiveClosed, leaseVars
  <2>4. CASE ReceiveFailed(c, m)
    <3>1. Ages
      BY <2>4, KeptAges, CloseAndRemoveAges DEF ReceiveFailed, EndSubscription
    <3> QED
      BY <2>4, <3>1, AgingLosing DEF ReceiveFailed, leaseVars, deviceVars
  <2> QED
    BY <2>1, <2>2, <2>3, <2>4
<1> QED
  BY <1>1, <1>2, <1>3, <1>4, <1>5, <1>6

-----------------------------------------------------------------------------
(* The running operation goes on or gives way to the next one. *)

Stays == op' = op /\ waiting' = waiting /\ phase' \notin {"idle", "begin"}

Pops ==
  \/ waiting = <<>> /\ op' = None /\ waiting' = waiting
  \/ waiting # <<>> /\ op' = Head(waiting) /\ waiting' = Tail(waiting)

\* The operation records its own session as the owner.
Gains ==
  /\ op.kind = "grant" /\ Target /\ Pops
  /\ owner' = [session |-> op.session, stream |-> op.stream, explicit |-> op.explicit]

LEMMA FinishMoves ==
  ASSUME NEW ok, Finish(ok)
  PROVE  Pops /\ Ages
<1>1. Pops
  BY DEF Finish, Pops
<1>2. Ages
  <2>1. CASE op.next = "end"
    BY <2>1, CloseAndRemoveAges DEF Finish, EndSubscription
  <2>2. CASE op.next = "close"
    BY <2>2, CloseSourceAges DEF Finish
  <2>3. CASE op.next \notin {"end", "close"}
    BY <2>3, KeptAges DEF Finish, streamVars
  <2> QED
    BY <2>1, <2>2, <2>3
<1> QED
  BY <1>1, <1>2

LEMMA CleanupMoves ==
  ASSUME Cleanup
  PROVE  Stays /\ Ages
BY CloseAndRemoveAges DEF Cleanup, EndSubscription, Stays

LEMMA CallMoves ==
  ASSUME NEW p, NEW allowed, NEW at \in {"release", "grant", "renew"}, Call(p, allowed, at),
         UNCHANGED <<op, waiting>>
  PROVE  Stays /\ Ages
BY KeptAges DEF Call, Stays

LEMMA ResumeMoves ==
  ASSUME NEW then, Resume(then)
  PROVE  (Stays \/ Pops) /\ Ages
BY FinishMoves, CleanupMoves, CallMoves DEF Resume

LEMMA ReleaseMoves ==
  ASSUME NEW held, NEW then, Release(held, then)
  PROVE  (Stays \/ Pops) /\ Ages /\ owner' = None
BY ResumeMoves, CallMoves DEF Release

\* What a step of the running operation does to the queue and the owner, and why it takes an
\* owner's control away.
LEMMA LeaseStepMoves ==
  ASSUME Shape, LeaseStep
  PROVE  /\ UNCHANGED <<connected, automatic>>
         /\ op # None /\ Ages
         /\ Stays \/ Pops
         /\ \/ owner' = None
            \/ owner' = owner /\ (owner # None /\ op.kind = "revoke" => owner.session # op.session)
            \/ Gains
         /\ owner # None /\ owner' # owner =>
              \/ op.kind = "grant" /\ phase = "begin" /\ Available(op.only)
              \/ op.kind = "revoke" /\ owner.session = op.session
              \/ op.kind = "renew" /\ (~OwnerActive(owner) \/ request.reply # "true")
<1>0. UNCHANGED <<connected, automatic>>
  BY DEF LeaseStep, Begin, Released, ReleasedByRemoval, Granted, CleanedUp, Renewed, LeaseStepKeeps
<1>t. /\ (phase = "idle") <=> (op = None)
      /\ phase \in {"grant", "cleanup"} => op.kind = "grant" /\ owner = None
      /\ phase \in {"release", "remove"} => owner = None
      /\ phase = "renew" => op.kind = "renew"
  BY DEF Shape, LeaseTypes, LeaseShape
<1> DEFINE Goal ==
      /\ Ages
      /\ Stays \/ Pops
      /\ \/ owner' = None
         \/ owner' = owner /\ (owner # None /\ op.kind = "revoke" => owner.session # op.session)
         \/ Gains
      /\ owner # None /\ owner' # owner =>
           \/ op.kind = "grant" /\ phase = "begin" /\ Available(op.only)
           \/ op.kind = "revoke" /\ owner.session = op.session
           \/ op.kind = "renew" /\ (~OwnerActive(owner) \/ request.reply # "true")
<1>1. ASSUME phase = "begin", BeginGrant PROVE Goal
  BY <1>1, FinishMoves, ReleaseMoves DEF BeginGrant
<1>2. ASSUME phase = "begin", BeginRevoke PROVE Goal
  BY <1>2, FinishMoves, ReleaseMoves DEF BeginRevoke
<1>3. ASSUME phase = "begin", BeginRenew PROVE Goal
  <2>1. CASE owner = None /\ Finish(TRUE) /\ UNCHANGED owner
    BY <1>3, <2>1, FinishMoves
  <2>2. CASE owner # None /\ ~OwnerActive(owner) /\ Release(owner, "finish")
    BY <1>3, <2>2, ReleaseMoves DEF BeginRenew
  <2>3. CASE Call(owner.stream, TRUE, "renew") /\ UNCHANGED <<owner, after, op, waiting, selected>>
    BY <1>3, <2>3, CallMoves DEF BeginRenew
  <2> QED
    BY <1>3, <2>1, <2>2, <2>3 DEF BeginRenew
<1>4. ASSUME Released PROVE Goal
  <2>1. owner = None /\ owner' = None
    BY <1>4, <1>t DEF Released
  <2>2. CASE Resume(after)
    BY <2>1, <2>2, ResumeMoves
  <2>3. CASE phase' = "remove" /\ EndSubscription(request.stream, "lease") /\ UNCHANGED <<op, waiting>>
    BY <2>1, <2>3, CloseAndRemoveAges DEF EndSubscription, Stays
  <2> QED
    BY <1>4, <2>2, <2>3 DEF Released
<1>5. ASSUME ReleasedByRemoval PROVE Goal
  BY <1>5, <1>t, ResumeMoves DEF ReleasedByRemoval
<1>6. ASSUME Granted PROVE Goal
  <2>0. owner = None /\ op.kind = "grant"
    BY <1>6, <1>t DEF Granted
  <2> DEFINE new == [session |-> op.session, stream |-> op.stream, explicit |-> op.explicit]
  <2>1. CASE Target /\ owner' = new /\ Finish(TRUE)
    BY <2>0, <2>1, FinishMoves DEF Gains
  <2>2. CASE Release(new, "cleanup")
    BY <2>0, <2>2, ReleaseMoves
  <2>3. CASE Cleanup /\ UNCHANGED owner
    BY <2>0, <2>3, CleanupMoves
  <2> QED
    BY <1>6, <2>1, <2>2, <2>3 DEF Granted
<1>7. ASSUME CleanedUp PROVE Goal
  BY <1>7, <1>t, FinishMoves DEF CleanedUp
<1>8. ASSUME Renewed PROVE Goal
  <2>1. CASE Finish(TRUE) /\ UNCHANGED owner
    BY <1>8, <1>t, <2>1, FinishMoves DEF Renewed
  <2>2. CASE ~(request.reply = "true" /\ OwnerActive(owner)) /\ Release(owner, "finish")
    BY <1>8, <1>t, <2>2, ReleaseMoves DEF Renewed
  <2> QED
    BY <1>8, <2>1, <2>2 DEF Renewed
<1>9. Goal
  BY <1>1, <1>2, <1>3, <1>4, <1>5, <1>6, <1>7, <1>8 DEF LeaseStep, Begin
<1>10. op # None
  BY <1>t DEF LeaseStep, Begin, Released, ReleasedByRemoval, Granted, CleanedUp, Renewed
<1> QED
  BY <1>0, <1>9, <1>10

\* The queue after the step: what waited still waits or runs now.
LEMMA MovesQueue ==
  ASSUME Shape, Stays \/ Pops
  PROVE  /\ op' # None => (op' = op /\ phase' \notin {"idle", "begin"})
                          \/ (Len(waiting) \in Nat \ {0} /\ op' = waiting[1])
         /\ \A k \in 1..Len(waiting') : \E j \in 1..Len(waiting) : waiting'[k] = waiting[j]
         /\ \A s : Queued(s) => Revoking(s)'
         /\ op' = op => Pops \/ \A s : Queued(s) => Queued(s)'
<1>1. waiting \in Seq(QueuedOps) /\ Len(waiting) \in Nat
  BY QueueTypes
<1>2. CASE Stays
  BY <1>1, <1>2 DEF Stays, Queued, Revoking
<1>3. CASE waiting = <<>> /\ op' = None /\ waiting' = waiting
  BY <1>3 DEF Queued, Revoking, Pops
<1>4. CASE waiting # <<>> /\ op' = Head(waiting) /\ waiting' = Tail(waiting)
  <2>1. /\ Len(waiting) \in Nat \ {0} /\ Head(waiting) = waiting[1]
        /\ Len(waiting') = Len(waiting) - 1
        /\ \A k \in 1..Len(waiting') : k + 1 \in 1..Len(waiting) /\ waiting'[k] = waiting[k + 1]
        /\ op' \in QueuedOps
    BY <1>1, <1>4, TailAt
  <2>2. op' # None
    BY <2>1, NoneAssumption DEF QueuedOps
  <2>3. ASSUME NEW s, Queued(s) PROVE Revoking(s)'
    <3>1. PICK k \in 1..Len(waiting) : waiting[k].kind = "revoke" /\ waiting[k].session = s
      BY <2>3 DEF Queued
    <3>2. CASE k = 1
      BY <1>4, <2>1, <2>2, <3>1, <3>2 DEF Revoking
    <3>3. CASE k # 1
      <4>1. k - 1 \in 1..Len(waiting') /\ waiting'[k - 1] = waiting[k]
        BY <1>1, <2>1, <3>3
      <4> QED
        BY <3>1, <4>1 DEF Revoking, Queued
    <3> QED
      BY <3>2, <3>3
  <2>4. \A k \in 1..Len(waiting') : \E j \in 1..Len(waiting) : waiting'[k] = waiting[j]
    BY <2>1
  <2> QED
    BY <1>4, <2>1, <2>3, <2>4 DEF Pops
<1> QED
  BY <1>2, <1>3, <1>4 DEF Pops

\* No step of an operation breaks it.
LEMMA LeaseStepLosing ==
  ASSUME Shape, Losing, LeaseStep
  PROVE  Losing'
<1>m. /\ UNCHANGED <<connected, automatic>> /\ op # None /\ Ages
      /\ Stays \/ Pops
      /\ \/ owner' = None
         \/ owner' = owner /\ (owner # None /\ op.kind = "revoke" => owner.session # op.session)
         \/ Gains
  BY LeaseStepMoves
<1>q. /\ op' # None => (op' = op /\ phase' \notin {"idle", "begin"})
                        \/ (Len(waiting) \in Nat \ {0} /\ op' = waiting[1])
      /\ \A k \in 1..Len(waiting') : \E j \in 1..Len(waiting) : waiting'[k] = waiting[j]
      /\ \A s : Queued(s) => Revoking(s)'
  BY <1>m, MovesQueue
<1>w. \A k \in 1..Len(waiting) : waiting[k].kind # "grant"
  BY DEF Losing, QueueOrder
<1>h. Len(waiting) \in Nat \ {0} => 1 \in 1..Len(waiting)
  OBVIOUS
<1>1. QueueOrder'
  <2>1. op' = None => waiting' = <<>>
    <3>1. CASE Stays
      BY <1>m, <3>1 DEF Stays
    <3>2. CASE waiting = <<>> /\ op' = None /\ waiting' = waiting
      BY <3>2
    <3>3. CASE waiting # <<>> /\ op' = Head(waiting)
      <4>1. Head(waiting) \in QueuedOps
        BY <3>3, QueueTypes, TailAt
      <4> QED
        BY <3>3, <4>1, NoneAssumption DEF QueuedOps
    <3> QED
      BY <1>m, <3>1, <3>2, <3>3 DEF Pops
  <2>2. \A s : Known(s) => Known(s)'
    BY <1>m DEF Known
  <2>3. \A k \in 1..Len(waiting') : waiting'[k].kind # "grant" /\ (Returns(waiting'[k]) => Known(waiting'[k].session))
    BY <1>q DEF Losing, QueueOrder
  <2>4. op' # None /\ (op'.kind = "grant" \/ Returns(op')) => Known(op'.session)
    BY <1>m, <1>q, <1>h DEF Losing, QueueOrder
  <2> QED
    BY <2>1, <2>2, <2>3, <2>4 DEF QueueOrder, Returns
<1>2. OwnerLosing'
  <2>1. CASE owner' = None
    BY <2>1 DEF OwnerLosing
  <2>2. CASE owner' = owner /\ (owner # None /\ op.kind = "revoke" => owner.session # op.session)
    <3> SUFFICES ASSUME owner # None PROVE OwnerLosing'
      BY <2>2 DEF OwnerLosing
    <3>1. Revoking(owner.session) => Revoking(owner.session)'
      <4>1. Revoking(owner.session) => Queued(owner.session)
        BY <2>2 DEF Revoking
      <4>2. Queued(owner.session) => \E s : s = owner.session /\ Revoking(s)'
        BY <1>q
      <4> QED
        BY <2>2, <4>1, <4>2 DEF Revoking, Queued
    <3>2. DevicesAge
      BY <1>m DEF DevicesAge
    <3> QED
      BY <1>m, <2>2, <3>1, <3>2, OwnerAges DEF Losing, OwnerLosing
  <2>3. CASE Gains
    <3>1. /\ op.kind = "grant" /\ owner'.session = op.session /\ owner'.stream = op.stream
          /\ owner'.explicit = op.explicit
          /\ connected[op.session] = "connected" /\ stream[op.stream] = "live"
          /\ op.stream \in Streams /\ SessionOf[op.stream] = op.session
      BY <2>3 DEF Gains, Target, CurrentControl
    <3>2. stream'[op.stream] # "absent"
      BY <1>m, <3>1 DEF Ages
    <3>3. ~op.explicit /\ op.session \notin automatic => Queued(op.session)
      BY <1>m, <3>1 DEF Losing, GrantLosing
    <3>4. PICK s : s = op.session
      OBVIOUS
    <3>5. owner'.session = s /\ (~owner'.explicit /\ s \notin automatic => Revoking(s)')
      BY <1>q, <3>1, <3>3, <3>4
    <3>6. ~owner'.explicit /\ owner'.session \notin automatic => Revoking(owner.session)'
      BY <3>5 DEF Revoking, Queued
    <3> QED
      BY <1>m, <3>1, <3>2, <3>6 DEF OwnerLosing
  <2> QED
    BY <1>m, <2>1, <2>2, <2>3
<1>3. GrantLosing'
  <2> SUFFICES ASSUME op' # None, op'.kind = "grant" PROVE GrantLosing'
    BY DEF GrantLosing
  <2>1. op' = op /\ phase' \notin {"idle", "begin"}
    BY <1>q, <1>w, <1>h
  <2>2. CASE Stays
    <3>1. \A s : Queued(s) => Queued(s)'
      BY <2>2 DEF Stays, Queued
    <3> QED
      BY <1>m, <2>1, <3>1 DEF GrantLosing, Losing
  <2>3. CASE Pops
    <3>1. op' \in {waiting[k] : k \in 1..Len(waiting)}
      BY <2>3, QueueTypes, TailAt DEF Pops
    <3> QED
      BY <1>w, <3>1
  <2> QED
    BY <1>m, <2>2, <2>3
<1>4. ReturnsOwn'
  <2> SUFFICES ASSUME NEW s \in automatic', Returning(s)'
               PROVE  /\ owner' # None /\ owner'.explicit => owner'.session # s
                      /\ op' # None => op'.kind # "grant"
    BY DEF ReturnsOwn
  <2>1. Returning(s) /\ s \in automatic
    BY <1>m, <1>q, <1>h DEF Returning
  <2>2. op.kind # "grant" /\ (owner # None /\ owner.explicit => owner.session # s)
    BY <1>m, <2>1 DEF Losing, ReturnsOwn
  <2>3. op' # None => op'.kind # "grant"
    BY <1>q, <1>w, <1>h, <2>2
  <2> QED
    BY <1>m, <2>2, <2>3 DEF Gains
<1> QED
  BY <1>1, <1>2, <1>3, <1>4 DEF Losing

\* It holds at first and no step breaks it.
LEMMA NextLosing == Shape /\ Losing /\ [Next]_vars => Losing'
<1> SUFFICES ASSUME Shape, Losing, [Next]_vars PROVE Losing'
  OBVIOUS
<1>1. CASE UNCHANGED vars
  BY <1>1, KeptAges, AgingLosing DEF vars, leaseVars, deviceVars, streamVars
<1>2. CASE LeaseStep
  BY <1>2, LeaseStepLosing
<1>3. CASE Renew
  BY <1>3, RenewLosing
<1>4. CASE RequestTimeout
  BY <1>4, MediaLosing
<1>5. ASSUME NEW s \in Sessions,
             \/ Disconnect(s)
             \/ RequestControl(s) \/ ReleaseControl(s)
             \/ HostGrant(s) \/ HostRevoke(s)
             \/ \E m \in Modes : Connect(s, m) \/ SetMode(s, m)
             \/ \E p \in Streams : SelectStream(s, p)
      PROVE  Losing'
  BY <1>5, CallerLosing, EndingLosing
<1>6. ASSUME NEW p \in Streams,
             Join(p) \/ StopStream(p) \/ RemovalTimeout(p) \/ PeerFails(p) \/ PeerClosed(p)
      PROVE  Losing'
  BY <1>6, EndingLosing, MediaLosing
<1>7. ASSUME NEW c \in Sources,
             \/ Revalidate(c) \/ Receive(c) \/ WorkerExit(c)
             \/ WorkerCommand(c) \/ PermissionExpires(c)
      PROVE  Losing'
  BY <1>7, EndingLosing, MediaLosing
<1> QED
  BY <1>1, <1>2, <1>3, <1>4, <1>5, <1>6, <1>7 DEF Next

LEMMA LosingInvariant == Spec => [](Shape /\ Losing)
<1>1. Init => Shape /\ Losing
  <2>1. Init => Losing
    BY DEF Init, Losing, QueueOrder, OwnerLosing, GrantLosing, ReturnsOwn
  <2> QED
    BY <2>1, InitShape
<1>2. (Shape /\ Losing) /\ [Next]_vars => (Shape /\ Losing)'
  BY NextShape, NextLosing
<1> QED
  BY <1>1, <1>2, PTL DEF Spec

\* After the host revokes a session, or the session ends, it holds no control it took by itself on
\* a stream that still exists but while the revoke that takes it away is queued, for any number of
\* sessions, streams and waiting operations and whatever grants were under way.
THEOREM RevokedLoses == Spec => []RevokedCannotHold
<1>1. Losing => RevokedCannotHold
  <2> SUFFICES ASSUME OwnerLosing, owner # None, ~owner.explicit, owner.session \notin automatic,
                      Subscribed(owner.stream)
               PROVE  \/ op # None /\ op.kind = "revoke" /\ op.session = owner.session
                      \/ \E k \in 1..Len(waiting) :
                           waiting[k].kind = "revoke" /\ waiting[k].session = owner.session
    BY DEF Losing, RevokedCannotHold
  <2>1. Revoking(owner.session)
    BY DEF OwnerLosing
  <2> QED
    BY <2>1 DEF Revoking, Queued
<1> QED
  BY <1>1, LosingInvariant, PTL

\* Control the host granted is never given up by the viewer's own release: a release is queued only
\* for control the viewer took itself, and no grant that could make it the host's runs by then.
THEOREM HostKeeps == Spec => HostGrantStays
<1>1. ASSUME Shape, Losing, [Next]_vars, owner # None, owner.explicit, owner' # owner
      PROVE  \/ op.kind = "grant" /\ op.explicit
             \/ op.kind = "revoke" /\ (op.next # "none" \/ owner.session \notin automatic)
             \/ op.kind = "renew" /\ (~OwnerActive(owner) \/ request.reply # "true")
  <2>1. LeaseStep
    BY <1>1, OwnerByLease
  <2>2. /\ op # None
        /\ \/ op.kind = "grant" /\ phase = "begin" /\ Available(op.only)
           \/ op.kind = "revoke" /\ owner.session = op.session
           \/ op.kind = "renew" /\ (~OwnerActive(owner) \/ request.reply # "true")
    BY <1>1, <2>1, LeaseStepMoves
  <2>3. CASE op.kind = "grant" /\ phase = "begin" /\ Available(op.only)
    <3>1. ~op.only
      BY <1>1, <2>3 DEF Available
    <3> QED
      BY <1>1, <2>2, <2>3, <3>1 DEF Losing, GrantLosing
  <2>4. CASE op.kind = "revoke" /\ owner.session = op.session
    <3>1. op.next = "none" /\ owner.session \in automatic => Returning(owner.session)
      BY <2>2, <2>4 DEF Returning, Returns
    <3> QED
      BY <1>1, <2>4, <3>1 DEF Losing, ReturnsOwn
  <2> QED
    BY <2>2, <2>3, <2>4
<1>2. (Shape /\ Losing) /\ [Next]_vars =>
        [(owner # None /\ owner.explicit /\ owner' # owner)
          => \/ op.kind = "grant" /\ op.explicit
             \/ op.kind = "revoke" /\ (op.next # "none" \/ owner.session \notin automatic)
             \/ op.kind = "renew" /\ (~OwnerActive(owner) \/ request.reply # "true")]_vars
  BY <1>1
<1> QED
  BY <1>2, LosingInvariant, PTL DEF Spec, HostGrantStays

-----------------------------------------------------------------------------
(* The lease implements ControlHolder: input passes from peer to peer through nobody. *)

holders == {permitted[c] : c \in Sources} \ {None}

\* Two peers never may hold permission at once, permitted or about to be.
LEMMA OneMayHold ==
  ASSUME IInv, NEW c \in Sources, NEW d \in Sources, NEW p \in Streams, NEW q \in Streams,
         MayHold(c, p), MayHold(d, q)
  PROVE  p = q
<1>1. Accounted(p) /\ Accounted(q)
  BY DEF IInv, HoldersAccounted
<1> QED
  BY <1>1 DEF IInv, LeaseShape, Accounted

\* A worker permits only a peer that was permitted or had been sent for.
LEMMA PermittedWasExpected ==
  ASSUME Shape, [Next]_vars, NEW c \in Sources, NEW p \in Streams, permitted'[c] = p
  PROVE  MayHold(c, p)
<1>1. CASE UNCHANGED permitted
  BY <1>1 DEF MayHold
<1>2. CASE permitted'[c] \in {permitted[c], None}
  BY <1>2, StreamsAssumption DEF MayHold
<1>3. ASSUME NEW d \in Sources, WorkerExit(d) \/ PermissionExpires(d) PROVE MayHold(c, p)
  <2>1. permitted' = [permitted EXCEPT ![d] = None]
    BY <1>3 DEF WorkerExit, PermissionExpires
  <2> QED
    BY <1>2, <2>1 DEF Shape, WorkerTypes
<1>4. ASSUME NEW q \in Streams, PeerFails(q) PROVE MayHold(c, p)
  <2>1. permitted' = [permitted EXCEPT ![SourceOf[q]] = IF @ = q THEN None ELSE @]
    BY <1>4 DEF PeerFails
  <2> QED
    BY <1>2, <2>1 DEF Shape, WorkerTypes
<1>5. ASSUME NEW d \in Sources, WorkerCommand(d) PROVE MayHold(c, p)
  <2>1. CASE \E q \in Streams : RemovePeer(d, q)
    <3>1. PICK q \in Streams : permitted' = [permitted EXCEPT ![d] = IF @ = q THEN None ELSE @]
      BY <2>1 DEF RemovePeer
    <3> QED
      BY <1>2, <3>1 DEF Shape, WorkerTypes
  <2>2. CASE SetPeerPermission(d, Head(pipe[d]))
    <3> DEFINE m == Head(pipe[d])
    <3>1. pipe[d] # <<>> /\ 1 \in 1..Len(pipe[d]) /\ m = pipe[d][1] /\ m.type = "permission"
      BY <1>5, <2>2, Lines, TailAt DEF Shape, WorkerCommand, SetPeerPermission
    <3>2. permitted' = [permitted EXCEPT ![d] =
                          IF m.allowed THEN (IF m.peer \in peers[d] THEN m.peer ELSE None)
                          ELSE IF @ = m.peer THEN None ELSE @]
      BY <2>2 DEF SetPeerPermission
    <3> HIDE DEF m
    <3>3. CASE c = d /\ m.allowed /\ m.peer \in peers[d]
      BY <3>1, <3>2, <3>3 DEF MayHold, IsCommand, Shape, WorkerTypes
    <3>4. CASE ~(c = d /\ m.allowed /\ m.peer \in peers[d])
      BY <1>2, <3>2, <3>4 DEF Shape, WorkerTypes
    <3> QED
      BY <3>3, <3>4
  <2> QED
    BY <1>5, <2>1, <2>2 DEF WorkerCommand
<1>6. CASE LeaseStep
  BY <1>1, <1>6 DEF LeaseStep, Begin, Released, ReleasedByRemoval, Granted, CleanedUp, Renewed, LeaseStepKeeps
<1>7. ASSUME NEW s \in Sessions,
             \/ Disconnect(s)
             \/ RequestControl(s) \/ ReleaseControl(s)
             \/ HostGrant(s) \/ HostRevoke(s)
             \/ \E m \in Modes : Connect(s, m) \/ SetMode(s, m)
             \/ \E q \in Streams : SelectStream(s, q)
      PROVE  UNCHANGED permitted
  BY <1>7 DEF Disconnect, StopStreams, RequestControl, ReleaseControl, HostGrant, HostRevoke, Connect,
              SetMode, SelectStream, workerVars
<1>8. ASSUME NEW q \in Streams, Join(q) \/ StopStream(q) \/ RemovalTimeout(q) \/ PeerClosed(q)
      PROVE  UNCHANGED permitted
  BY <1>8 DEF Join, StopStream, StopStreams, RemovalTimeout, PeerClosed, workerVars
<1>9. ASSUME NEW d \in Sources, Revalidate(d) \/ Receive(d) PROVE UNCHANGED permitted
  BY <1>9 DEF Revalidate, Receive
<1>10. CASE Renew \/ RequestTimeout \/ UNCHANGED vars
  BY <1>1, <1>10 DEF Renew, RequestTimeout, vars, workerVars
<1> QED
  BY <1>1, <1>3, <1>4, <1>5, <1>6, <1>7, <1>8, <1>9, <1>10 DEF Next

\* The workers together implement the abstract holder: nobody at first, and every step leaves the
\* holder, drops it, or lets a peer take control that nobody held.
THEOREM HandOverImplemented == Spec => HandOver
<1>1. Init => Holder!Init
  BY StreamsAssumption DEF Init, Holder!Init
<1>2. IInv /\ [Next]_vars => [Holder!Next]_holders
  <2> SUFFICES ASSUME IInv, [Next]_vars, holders' # holders PROVE Holder!Next
    BY DEF holders
  <2>0. Shape
    BY ShapeIsTyped DEF IInv
  <2>1. \A p \in holders : \E c \in Sources : p \in Streams /\ MayHold(c, p)
    BY <2>0 DEF holders, MayHold, Shape, WorkerTypes
  <2>2. \A p \in holders' : \E c \in Sources : p \in Streams /\ MayHold(c, p)
    <3>1. permitted' \in [Sources -> Streams \cup {None}]
      BY <2>0, NextShape DEF Shape, WorkerTypes
    <3> QED
      BY <2>0, <3>1, PermittedWasExpected DEF holders
  <2>3. \A p \in holders \cup holders', q \in holders \cup holders' : p = q
    BY <2>1, <2>2, OneMayHold DEF holders
  <2>4. CASE holders = {}
    <3>1. PICK p \in Streams : p \in holders'
      BY <2>2, <2>4
    <3>2. holders' = {p}
      BY <2>3, <3>1
    <3>3. Holder!Take(p)
      BY <2>4, <3>2 DEF Holder!Take, holders
    <3> QED
      BY <3>3 DEF Holder!Next
  <2>5. CASE holders # {}
    <3>1. holders' = {}
      BY <2>3, <2>5
    <3>2. Holder!Drop
      BY <2>5, <3>1 DEF Holder!Drop, holders
    <3> QED
      BY <3>2 DEF Holder!Next
  <2> QED
    BY <2>4, <2>5
<1> QED
  BY <1>1, <1>2, Invariant, PTL DEF Spec, HandOver, Holder!Spec, holders

=============================================================================
