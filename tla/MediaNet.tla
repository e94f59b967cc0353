------------------------------- MODULE MediaNet -------------------------------
(***************************************************************************)
(* media-net: the sandboxed process of one source that talks to its        *)
(* viewers.  It executes the worker's commands in order on its main loop,  *)
(* reports on the control pipe, and passes what a viewer types on the      *)
(* input pipe, which is another pipe: the two are not ordered with each    *)
(* other.  The streaming threads and WebRTC act at times of their own.     *)
(*                                                                         *)
(* Abstracted: SDP, payloaders and elements (an add may fail before or     *)
(* after the peer exists), logs and metrics.  The server's stream ids are  *)
(* random, so no id is used twice and the index that tells two peers of    *)
(* one id apart is left out.                                               *)
(***************************************************************************)
EXTENDS Sequences, Naturals, FiniteSets

CONSTANTS
  Viewers,    \* peers, by their stream ids
  Leaving,    \* the peers that are refused, fail, close their channel or are removed; the others stay
  KeyCodes,   \* keys and buttons
  MaxTyped,   \* bound on the messages of viewers under way
  MaxSent,    \* bound on the commands under way when the world outside moves
  MaxLines    \* bound on the reports under way: a full pipe blocks media-net

VARIABLES
  netAt,   \* "loading", "up", "gone"
  far,     \* peer -> its connection here and its data channel
  shown,   \* viewers whose page was last told it has control
  toNet,   \* control pipe, worker to media-net: commands
  fromNet, \* control pipe, media-net to worker: reports
  typed    \* input pipe: what viewers sent

netVars == <<netAt, far, shown, toNet, fromNet, typed>>

NoPeer == [at |-> "none", channel |-> "none"]

\* No peers, and nothing under way.
NetBlank ==
  /\ far = [v \in Viewers |-> NoPeer]
  /\ shown = {}
  /\ toNet = <<>> /\ fromNet = <<>> /\ typed = <<>>

\* What media-net writes on the control pipe: one line of `type` about a peer.
Report(type, v) == [type |-> type, peer |-> v]
Emit(lines) == Len(fromNet) < MaxLines /\ fromNet' = fromNet \o lines

\* The peers of the map.
Present(v) == far[v].at \in {"joining", "answered", "leaving"}

\* Everything is loaded, and privileges are dropped, before anything is read from the worker.
NetReady(anyone) ==
  /\ netAt = "loading"
  /\ netAt' = "up"
  /\ Emit(<<Report("net-ready", anyone)>>)
  /\ UNCHANGED <<far, shown, toNet, typed>>

\* add_peer: refused before the peer exists, failed when it cannot be linked to the source (and
\* then removed like any other), or on its way to an answer.
AddedPeer(v, outcome) ==
  /\ far' = [far EXCEPT ![v].at = CASE outcome = "refused" -> "closed"
                                    [] outcome = "unlinked" -> "leaving"
                                    [] outcome = "joining" -> "joining"]
  /\ Emit(IF outcome = "joining" THEN <<>> ELSE <<Report("peer-failed", v)>>)
  /\ UNCHANGED shown

\* Mutant: a peer the process does not know is not answered for.
RemovedPeerM(v) ==
  /\ IF Present(v)
     THEN far' = [far EXCEPT ![v].at = "leaving"] /\ UNCHANGED fromNet
     ELSE UNCHANGED <<far, fromNet>>
  /\ UNCHANGED shown

\* remove_peer: an unknown peer is answered for at once, a leaving one when it has left.
RemovedPeer(v) ==
  /\ IF Present(v)
     THEN far' = [far EXCEPT ![v].at = "leaving"] /\ UNCHANGED fromNet
     ELSE Emit(<<Report("peer-closed", v)>>) /\ UNCHANGED far
  /\ UNCHANGED shown

\* control-state: the viewer's page is told, if its channel is there.
ToldState(v, on) ==
  /\ shown' = IF far[v].at \in {"joining", "answered"} /\ far[v].channel = "open"
              THEN IF on THEN shown \cup {v} ELSE shown \ {v}
              ELSE shown
  /\ UNCHANGED <<far, fromNet>>

\* command: the next line of the worker, on the main loop.
Command ==
  /\ netAt = "up" /\ toNet # <<>>
  /\ toNet' = Tail(toNet)
  /\ LET c == Head(toNet)
     IN CASE c.type = "add-peer" ->
               \E o \in IF c.peer \in Leaving THEN {"refused", "unlinked", "joining"} ELSE {"joining"} :
                 AddedPeer(c.peer, o)
          [] c.type = "remove-peer" -> RemovedPeer(c.peer)
          [] c.type = "control-state" -> ToldState(c.peer, c.control)
  /\ UNCHANGED <<netAt, typed>>

\* send_answer, when the last local candidate is gathered.
SendAnswer(v) ==
  /\ netAt = "up" /\ far[v].at = "joining"
  /\ far' = [far EXCEPT ![v].at = "answered"]
  /\ Emit(<<Report("answer", v)>>)
  /\ UNCHANGED <<netAt, shown, toNet, typed>>

\* fail_peer: the connection failed, no answer could be made, or an element of the peer's bin
\* reported an error.
FailPeer(v) ==
  /\ netAt = "up" /\ v \in Leaving /\ far[v].at \in {"joining", "answered"}
  /\ far' = [far EXCEPT ![v].at = "leaving"]
  /\ Emit(<<Report("peer-failed", v)>>)
  /\ UNCHANGED <<netAt, shown, toNet, typed>>

\* unlink_probe and destroy_peer: the last pad is unlinked, the bin is destroyed.
Unlinked(v) ==
  /\ netAt = "up" /\ far[v].at = "leaving"
  /\ far' = [far EXCEPT ![v] = [at |-> "closed", channel |-> "closed"]]
  /\ Emit(<<Report("peer-closed", v)>>)
  /\ UNCHANGED <<netAt, shown, toNet, typed>>

\* channel_created: the viewer's page opens its input channel.
OpenChannel(v) ==
  /\ netAt = "up" /\ far[v] = [at |-> "answered", channel |-> "none"]
  /\ far' = [far EXCEPT ![v].channel = "open"]
  /\ UNCHANGED <<netAt, shown, toNet, fromNet, typed>>

\* What a page sends: its wish for control, releases, keys and buttons going down and up.  Pings are
\* left out: the worker finds them missing at any time (Enforced).
Texts(v) ==
  [peer : {v}, type : {"release"}]
  \cup [peer : {v}, type : {"control"}, enabled : BOOLEAN]
  \cup [peer : {v}, type : {"key"}, code : KeyCodes, down : BOOLEAN]

\* channel_message, on a streaming thread: also while the peer is being removed.
Types(v) ==
  /\ netAt = "up" /\ far[v].channel = "open" /\ Len(typed) < MaxTyped /\ Len(toNet) < MaxSent
  /\ \E m \in Texts(v) : typed' = Append(typed, m)
  /\ UNCHANGED <<netAt, far, shown, toNet, fromNet>>

\* channel_closed.
CloseChannel(v) ==
  /\ netAt = "up" /\ v \in Leaving /\ far[v].channel = "open"
  /\ far' = [far EXCEPT ![v].channel = "closed"]
  /\ Emit(<<Report("channel-closed", v)>>)
  /\ UNCHANGED <<netAt, shown, toNet, typed>>

\* The process ends: an error of a shared element is reported first, a crash or a broken pipe is not.
NetEnds(anyone) ==
  /\ netAt # "gone"
  /\ netAt' = "gone"
  /\ \/ Emit(<<Report("fatal", anyone)>>)
     \/ fromNet' = fromNet
  /\ far' = [v \in Viewers |-> NoPeer] /\ shown' = {} /\ toNet' = <<>>
  /\ UNCHANGED typed

=============================================================================
