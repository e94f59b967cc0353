----------------------------- MODULE MediaWorker -----------------------------
(***************************************************************************)
(* The media worker of one source, as its main loop sees the world: the    *)
(* server's commands, media-net's reports, what viewers type, timers.      *)
(* The worker is the broker: it alone presses keys, and only for a peer    *)
(* that has control.  Keys it holds down are state of the operating        *)
(* system, which outlives the peer that pressed them.                      *)
(*                                                                         *)
(* The lease's own protocol between server and worker is ControlLease's;   *)
(* here the permission changes at any time.  Assumed: the operating system *)
(* takes the release of a key whose press it took.                         *)
(***************************************************************************)
EXTENDS MediaNet

CONSTANT NoViewer

VARIABLES
  life,      \* "serving", "failing" or "stopping" (the loop was told to quit), "over", "killed"
  netUp,     \* media-net reported
  waiting,   \* peers that arrived before, in order
  near,      \* peer -> what the worker keeps of it
  permitted, \* the peer the lease names
  pressed,   \* keys and buttons held down
  told,      \* peer -> the last thing the server was told of it
  removals   \* peers the server asked to remove

brokerVars == <<life, netUp, waiting, near, permitted, pressed, told, removals>>

Unknown == [at |-> "none", notify |-> FALSE, answered |-> FALSE, control |-> FALSE]

WorkerBlank ==
  /\ NetBlank
  /\ netUp = FALSE /\ waiting = <<>>
  /\ near = [v \in Viewers |-> Unknown]
  /\ permitted = NoViewer /\ pressed = {}
  /\ told = [v \in Viewers |-> "nothing"] /\ removals = {}

WorkerInit == life = "serving" /\ netAt = "loading" /\ WorkerBlank

\* The memory of both processes is gone, with what was under way between them; the operating
\* system is left with `down`, the server with what it was told.
Gone(how, down) ==
  /\ life' = how /\ pressed' = down
  /\ netAt' = "gone" /\ far' = [v \in Viewers |-> NoPeer] /\ shown' = {}
  /\ toNet' = <<>> /\ fromNet' = <<>> /\ typed' = <<>>
  /\ netUp' = FALSE /\ waiting' = <<>> /\ near' = [v \in Viewers |-> Unknown] /\ permitted' = NoViewer
  /\ UNCHANGED <<told, removals>>

\* Quitting the loop does not stop what its current turn still dispatches.
Turning == life \in {"serving", "failing", "stopping"}
Serving == life = "serving"
Fatal == life' = IF life = "serving" THEN "failing" ELSE life

IsWaiting(v) == \E i \in DOMAIN waiting : waiting[i] = v
Known(v) == near[v].at \in {"known", "removing"}
Live(v) == near[v].at = "known"
Controllers == {v \in Viewers : near[v].control}

State(v, on) == [type |-> "control-state", peer |-> v, control |-> on]
About(type, v) == [type |-> type, peer |-> v]
SendNet(lines) == toNet' = IF netAt = "gone" THEN toNet ELSE toNet \o lines

\* The peers that wait, without v, which waits once.
Without(q, v) ==
  LET k == CHOOSE i \in DOMAIN q : q[i] = v
  IN [i \in 1..(Len(q) - 1) |-> IF i < k THEN q[i] ELSE q[i + 1]]

\* revoke_peer: what a peer with control holds down is released.
Released(v) == IF near[v].control THEN {} ELSE pressed

\* add_peer.
AddPeer(v) ==
  /\ Serving /\ near[v].at = "none" /\ ~IsWaiting(v) /\ v \notin removals /\ told[v] = "nothing"
  /\ IF netUp
     THEN /\ near' = [near EXCEPT ![v].at = "known"]
          /\ SendNet(<<About("add-peer", v)>>)
          /\ UNCHANGED waiting
     ELSE waiting' = Append(waiting, v) /\ UNCHANGED <<near, toNet>>
  /\ UNCHANGED <<netAt, far, shown, fromNet, typed,
                 life, netUp, permitted, pressed, told, removals>>

\* remove_peer, asked by the server: a peer media-net knows is closed when media-net says so.
RemovePeer(v) ==
  /\ Serving /\ v \in Leaving \ removals /\ (Known(v) \/ IsWaiting(v) \/ told[v] # "nothing")
  /\ removals' = removals \cup {v}
  /\ waiting' = IF IsWaiting(v) THEN Without(waiting, v) ELSE waiting
  /\ IF Live(v)
     THEN /\ permitted' = IF permitted = v THEN NoViewer ELSE permitted
          /\ pressed' = Released(v)
          /\ near' = [near EXCEPT ![v] = [@ EXCEPT !.at = "removing", !.notify = TRUE, !.control = FALSE]]
          /\ SendNet(<<State(v, FALSE), About("remove-peer", v)>>)
          /\ UNCHANGED told
     ELSE /\ told' = [told EXCEPT ![v] = "closed"]
          /\ UNCHANGED <<permitted, pressed, near, toNet>>
  /\ UNCHANGED <<netAt, far, shown, fromNet, typed, life, netUp>>

-----------------------------------------------------------------------------
(* Permission. *)

MayControl(v) == permitted = v

\* Mutant: a peer that is not permitted any more is not told.
EnforcedM(lease, stale) ==
  LET out == {v \in Controllers : v \in stale \/ lease # v}
  IN /\ near' = [v \in Viewers |-> IF v \in out THEN [near[v] EXCEPT !.control = FALSE] ELSE near[v]]
     /\ pressed' = IF out # {} THEN {} ELSE pressed
     /\ UNCHANGED toNet

\* enforce_permission under `lease`, and with the pings of `stale` missing.
Enforced(lease, stale) ==
  LET out == {v \in Controllers : v \in stale \/ lease # v}
  IN /\ near' = [v \in Viewers |-> IF v \in out THEN [near[v] EXCEPT !.control = FALSE] ELSE near[v]]
     /\ pressed' = IF out # {} THEN {} ELSE pressed
     /\ \E order \in [1..Cardinality(out) -> out] :
          /\ \A v \in out : \E i \in DOMAIN order : order[i] = v
          /\ SendNet([i \in DOMAIN order |-> State(order[i], FALSE)])

\* control-permission: the server grants it, to one peer instead of any other.
Grant(v) ==
  /\ Serving /\ Len(toNet) < MaxSent /\ near[v].at # "none" /\ permitted # v
  /\ permitted' = IF Live(v) THEN v ELSE NoViewer
  /\ Enforced(permitted', {})
  /\ UNCHANGED <<netAt, far, shown, fromNet, typed,
                 life, netUp, waiting, told, removals>>

\* control-permission: the server withdraws it, and the peer is told even if it had no control.
Revoke(v) ==
  /\ Serving /\ Len(toNet) < MaxSent /\ Known(v)
  /\ permitted' = IF permitted = v THEN NoViewer ELSE permitted
  /\ near' = [near EXCEPT ![v].control = FALSE]
  /\ pressed' = Released(v)
  /\ SendNet(<<State(v, FALSE)>>)
  /\ UNCHANGED <<netAt, far, shown, fromNet, typed,
                 life, netUp, waiting, told, removals>>

\* The lease runs out.
Lapse ==
  /\ Serving /\ Len(toNet) < MaxSent
  /\ permitted # NoViewer /\ permitted' = NoViewer
  /\ UNCHANGED <<netVars, life, netUp, waiting, near, pressed, told, removals>>

\* The timer of every second: a peer that is not permitted, or has not pinged for 5 s, loses control.
EnforceTick ==
  /\ life = "serving"
  /\ \E v \in Controllers : Enforced(permitted, {v})
  /\ UNCHANGED <<netAt, far, shown, fromNet, typed,
                 life, netUp, waiting, permitted, told, removals>>

-----------------------------------------------------------------------------
(* What media-net reports (net_message) and what viewers type (input_message). *)

\* The peer is gone from the worker: nothing of it stays pressed.
Forgotten(v) ==
  /\ near' = [near EXCEPT ![v] = [Unknown EXCEPT !.at = "gone"]]
  /\ pressed' = Released(v)

NetIsUp ==
  /\ netUp' = TRUE
  /\ near' = [v \in Viewers |-> IF IsWaiting(v) THEN [Unknown EXCEPT !.at = "known"] ELSE near[v]]
  /\ SendNet([i \in DOMAIN waiting |-> About("add-peer", waiting[i])])
  /\ waiting' = <<>>
  /\ UNCHANGED <<permitted, pressed, told, life>>

Answered(v) ==
  /\ IF Live(v) /\ ~near[v].answered
     THEN near' = [near EXCEPT ![v].answered = TRUE] /\ told' = [told EXCEPT ![v] = "answered"]
     ELSE UNCHANGED <<near, told>>
  /\ UNCHANGED <<netUp, waiting, permitted, pressed, life, toNet>>

FailedPeer(v) ==
  /\ IF Live(v)
     THEN /\ Forgotten(v)
          /\ permitted' = IF permitted = v THEN NoViewer ELSE permitted
          /\ told' = [told EXCEPT ![v] = "failed"]
     ELSE UNCHANGED <<near, pressed, permitted, told>>
  /\ UNCHANGED <<netUp, waiting, life, toNet>>

Closed(v) ==
  /\ IF Known(v)
     THEN /\ Forgotten(v)
          /\ told' = IF near[v].notify THEN [told EXCEPT ![v] = "closed"] ELSE told
     ELSE UNCHANGED <<near, pressed, told>>
  /\ UNCHANGED <<netUp, waiting, permitted, life, toNet>>

ChannelClosed(v) ==
  /\ IF Known(v)
     THEN near' = [near EXCEPT ![v].control = FALSE] /\ pressed' = Released(v)
     ELSE UNCHANGED <<near, pressed>>
  /\ UNCHANGED <<netUp, waiting, permitted, told, life, toNet>>

\* net_message; once a shutdown has begun the lines are dropped.
NetMessage ==
  /\ Turning /\ fromNet # <<>>
  /\ fromNet' = Tail(fromNet)
  /\ LET m == Head(fromNet)
     IN IF life = "stopping"
        THEN UNCHANGED <<netUp, waiting, near, permitted, pressed, told, life, toNet>>
        ELSE CASE m.type = "net-ready" -> NetIsUp
               [] m.type = "answer" -> Answered(m.peer)
               [] m.type = "peer-failed" -> FailedPeer(m.peer)
               [] m.type = "peer-closed" -> Closed(m.peer)
               [] m.type = "channel-closed" -> ChannelClosed(m.peer)
               [] m.type = "fatal" ->
                    Fatal /\ UNCHANGED <<netUp, waiting, near, permitted, pressed, told, toNet>>
  /\ UNCHANGED <<netAt, far, shown, typed, removals>>

\* A page's wish for control: its own is withdrawn first, and every other peer's if it gets it.
TakenOver(v, on) ==
  /\ near' = [w \in Viewers |-> IF w = v THEN [near[v] EXCEPT !.control = on]
                                ELSE [near[w] EXCEPT !.control = @ /\ ~on]]
  /\ pressed' = IF near[v].control \/ (on /\ Controllers # {}) THEN {} ELSE pressed

\* The peer's own state after its message, and what the message does; control that is not allowed
\* any more ends before the message is looked at.
Input(m) ==
  LET v == m.peer
      keeps == near[v].control /\ MayControl(v)
      kept == IF near[v].control /\ ~keeps THEN {} ELSE pressed
      others == IF m.type = "control" /\ m.enabled /\ MayControl(v) THEN Controllers \ {v} ELSE {}
      now == CASE m.type = "control" -> m.enabled /\ MayControl(v)
               [] m.type = "release" -> FALSE
               [] OTHER -> keeps
  IN /\ IF m.type = "control" THEN TakenOver(v, now)
        ELSE /\ near' = [near EXCEPT ![v].control = now]
             /\ pressed' = CASE m.type = "release" -> Released(v)
                             [] m.type = "key" -> IF ~keeps THEN kept
                                                  ELSE IF m.down THEN kept \cup {m.code}
                                                  ELSE kept \ {m.code}
     /\ \E order \in [1..Cardinality(others) -> others] :
          /\ \A w \in others : \E i \in DOMAIN order : order[i] = w
          /\ SendNet([i \in DOMAIN order |-> State(order[i], FALSE)] \o <<State(v, now)>>)
     /\ UNCHANGED life

\* input_message: of a live peer only; a display that changed ends the source instead.
InputMessage ==
  /\ Turning /\ typed # <<>>
  /\ typed' = Tail(typed)
  /\ LET m == Head(typed)
     IN IF ~Live(m.peer) THEN UNCHANGED <<near, pressed, toNet, life>>
        ELSE \/ Input(m)
             \/ pressed' = {} /\ Fatal /\ UNCHANGED <<near, toNet>>
  /\ UNCHANGED <<netAt, far, shown, fromNet,
                 netUp, waiting, permitted, told, removals>>

-----------------------------------------------------------------------------
(* The end. *)

\* fail_from_thread: a pipe of media-net ended, and everything it held was read.
PipeEnds ==
  /\ life = "serving" /\ netAt = "gone" /\ (fromNet = <<>> \/ typed = <<>>)
  /\ life' = "failing"
  /\ UNCHANGED <<netVars, netUp, waiting, near, permitted, pressed, told, removals>>

\* media-net did not report in 20 s, or the display of the timer's check changed, with the keys released.
SourceFails ==
  /\ life = "serving"
  /\ \/ ~netUp /\ UNCHANGED pressed
     \/ pressed' = {}
  /\ life' = "failing"
  /\ UNCHANGED <<netVars, netUp, waiting, near, permitted, told, removals>>

\* begin_shutdown: stop, or the server's end of the pipe is closed.
BeginShutdown ==
  /\ life = "serving"
  /\ life' = "stopping"
  /\ UNCHANGED <<netVars, netUp, waiting, near, permitted, pressed, told, removals>>

\* Mutant: what is held when the loop ends stays down.
LoopEndsM ==
  /\ life \in {"failing", "stopping"}
  /\ Gone("over", pressed)

\* The main loop has returned: keys are released, media-net is ended.
LoopEnds ==
  /\ life \in {"failing", "stopping"}
  /\ Gone("over", {})

\* The loop hangs for 5 s after the shutdown began: the process ends at once, and the keys stay down.
Deadline ==
  /\ life = "stopping"
  /\ Gone("killed", pressed)

-----------------------------------------------------------------------------

WorkerTurn ==
  \/ \E v \in Viewers : AddPeer(v) \/ RemovePeer(v) \/ Grant(v) \/ Revoke(v)
  \/ Lapse \/ EnforceTick \/ NetMessage \/ InputMessage
  \/ PipeEnds \/ SourceFails \/ BeginShutdown \/ LoopEnds \/ Deadline

NetTurn ==
  /\ Serving
  /\ \/ NetReady(NoViewer) \/ Command \/ NetEnds(NoViewer)
     \/ \E v \in Viewers :
          SendAnswer(v) \/ FailPeer(v) \/ Unlinked(v) \/ OpenChannel(v) \/ Types(v) \/ CloseChannel(v)
  /\ UNCHANGED brokerVars

WorkerNext == WorkerTurn \/ NetTurn

\* The main loops take their turns, a pad is unlinked, a loop that was told to quit returns.
WorkerFair ==
  /\ WF_<<netVars, brokerVars>>(NetMessage) /\ WF_<<netVars, brokerVars>>(InputMessage)
  /\ WF_<<netVars, brokerVars>>(PipeEnds) /\ WF_<<netVars, brokerVars>>(LoopEnds)
  /\ WF_<<netVars, brokerVars>>(Serving /\ Command /\ UNCHANGED brokerVars)
  /\ \A v \in Viewers :
       WF_<<netVars, brokerVars>>(Serving /\ Unlinked(v) /\ UNCHANGED brokerVars)

WorkerSpec == WorkerInit /\ [][WorkerNext]_<<netVars, brokerVars>> /\ WorkerFair

-----------------------------------------------------------------------------
(* Properties. *)

\* Keys are down only while exactly one peer has control, whatever ends it: its revocation, another
\* peer's turn, a lost lease or page, a failed connection, a removal, the end of the source.  Only a
\* worker that had to be killed leaves them.
HeldIsControlled ==
  /\ Cardinality(Controllers) <= 1 /\ \A v \in Controllers : Live(v)
  /\ pressed # {} /\ life # "killed" => Controllers # {}

\* When nothing is under way between the processes, a page shows control exactly if its peer has it.
PagesAreTold ==
  life = "serving" /\ netAt = "up" /\ toNet = <<>> /\ fromNet = <<>> /\ typed = <<>>
    => \A v \in Viewers :
         Live(v) /\ far[v].at = "answered" /\ far[v].channel = "open"
           => (v \in shown <=> near[v].control)

\* What the broker keeps on both of its sides: the host's keys and the viewers' pages follow control.
BrokerKeeps == HeldIsControlled /\ PagesAreTold

\* What the server is told of a peer goes forward only: an answer once, a failure once, and nothing
\* after it was closed; and every removal it asks for is confirmed, or the worker ends, as it does
\* when media-net is gone.
PeersConclude ==
  /\ [][\A v \in Viewers : told'[v] # told[v] =>
          \/ told[v] = "nothing" /\ v \notin removals
          \/ told[v] = "answered" /\ told'[v] = "failed"
          \/ told[v] # "closed" /\ told'[v] = "closed" /\ v \in removals']_<<told, removals>>
  /\ []<>(\/ life \in {"over", "killed"}
          \/ netAt # "gone" /\ \A v \in removals : told[v] = "closed")

=============================================================================
