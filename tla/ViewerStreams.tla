---------------------------- MODULE ViewerStreams ----------------------------
(***************************************************************************)
(* The viewer in a browser: its streams (stream-subscriptions.js) and what *)
(* runs beside them (viewer/app.js): the first selection, the user's       *)
(* choices, the heartbeat and leaving.  The server is one session's        *)
(* answers to it (http-app.mjs); what they say of control is left out.     *)
(*                                                                         *)
(* A row is the peer an operation has created and is named after it.  A    *)
(* call may fail before the server has seen it; its answer travels until   *)
(* the browser takes it.                                                   *)
(***************************************************************************)
EXTENDS Naturals, FiniteSets

CONSTANTS
  Ops,        \* selections; each runs once
  First,      \* the selection of startSubscriptions, which the user's do not wait for
  Displays,
  NoRow, NoDisplay,
  MaxRows,    \* rows a viewer keeps (2 in the code)
  MaxLapses, \* bound on streams that end by themselves
  MaxLosses   \* bound on calls that fail

ASSUME ViewerAssumption ==
  /\ First \in Ops /\ NoRow \notin Ops /\ NoDisplay \notin Displays
  /\ MaxRows \in Nat \ {0} /\ MaxLapses \in Nat /\ MaxLosses \in Nat

VARIABLES
  op,       \* each selection: where it is, its display, the row it works on
  rows,     \* each row: made, has its streamId, closed, its stream-stop
  table,    \* this.rows: the row of each display
  selected, \* the row the video element shows
  beat,     \* the heartbeat: where it is, the ids known when it left, the answer
  left,     \* close and the session's disconnect: no, leaving, gone
  live,     \* server: rows whose stream runs
  lapses, losses

viewVars == <<rows, table, selected>>
viewerVars == <<op, viewVars, beat, left, live, lapses, losses>>

Fresh0 == [made |-> FALSE, id |-> FALSE, closed |-> FALSE, stop |-> "no", display |-> NoDisplay]

ViewerInit ==
  /\ op = [p \in Ops |-> [at |-> "idle", display |-> NoDisplay, row |-> NoRow]]
  /\ rows = [p \in Ops |-> Fresh0]
  /\ table = [d \in Displays |-> NoRow]
  /\ selected = NoRow
  /\ beat = [at |-> "idle", known |-> {}, streams |-> {}]
  /\ left = "no"
  /\ live = {}
  /\ lapses = 0 /\ losses = 0

-----------------------------------------------------------------------------
(* Rows. *)

InTable == {table[d] : d \in Displays} \ {NoRow}

\* closeRow takes the entry of the row's display, whichever row is there.
CloseRow(q) ==
  /\ table' = IF rows[q].closed \/ rows[q].display = NoDisplay THEN table
              ELSE [table EXCEPT ![rows[q].display] = NoRow]
  /\ selected' = IF selected = q /\ ~rows[q].closed THEN NoRow ELSE selected

\* stop: the row closes, and its stream-stop is sent when the stream's id is known.
StopRow(q) ==
  /\ CloseRow(q)
  /\ rows' = [rows EXCEPT ![q].closed = TRUE,
                          ![q].stop = IF rows[q].id /\ @ = "no" THEN "sent" ELSE @]

Stopping(q) == rows[q].stop = "sent"

Busy == \E p \in Ops \ {First} : op[p].at \notin {"idle", "done"}

\* The selection makes its row once the codecs are known; one row too many is stopped before.
MakeWay(p, d) ==
  \/ /\ Cardinality(InTable) < MaxRows
     /\ op' = [op EXCEPT ![p] = [at |-> "codecs", display |-> d, row |-> NoRow]]
     /\ UNCHANGED viewVars
  \/ /\ Cardinality(InTable) >= MaxRows
     /\ \E q \in (IF selected = NoRow THEN InTable ELSE {selected}) :
          /\ StopRow(q)
          /\ op' = [op EXCEPT ![p] = [at |-> "making", display |-> d, row |-> q]]

\* select: the user chooses one display at a time.
Select(p, d, other) ==
  /\ left = "no" /\ op[p].at = "idle"
  /\ p = First \/ (op[First].at # "idle" /\ ~Busy)
  /\ LET old == table[d]
     IN \/ /\ old # NoRow /\ ~other
           /\ op' = [op EXCEPT ![p] = [@ EXCEPT !.at = "selecting", !.display = d, !.row = old]]
           /\ UNCHANGED viewVars
        \/ /\ old # NoRow /\ other
           /\ StopRow(old)
           /\ op' = [op EXCEPT ![p] = [@ EXCEPT !.at = "stopping", !.display = d, !.row = old]]
        \/ /\ old = NoRow
           /\ MakeWay(p, d)
  /\ UNCHANGED <<beat, left, live, lapses, losses>>

\* The display's old row, or the one too many, is stopped; a stop that fails ends the selection.
GoOn(p) ==
  /\ op[p].at \in {"stopping", "making"} /\ ~Stopping(op[p].row)
  /\ \/ /\ rows[op[p].row].stop = "failed"
        /\ op' = [op EXCEPT ![p].at = "done"]
        /\ UNCHANGED viewVars
     \/ /\ rows[op[p].row].stop # "failed"
        /\ IF op[p].at = "stopping" THEN MakeWay(p, op[p].display)
           ELSE /\ op' = [op EXCEPT ![p].at = "codecs", ![p].row = NoRow]
                /\ UNCHANGED viewVars
  /\ UNCHANGED <<beat, left, live, lapses, losses>>

\* The codecs are known: the row is in the table and selected, and gathers its candidates.
MakeRow(p) ==
  /\ op[p].at = "codecs"
  /\ rows' = [rows EXCEPT ![p] = [@ EXCEPT !.made = TRUE, !.display = op[p].display]]
  /\ table' = [table EXCEPT ![op[p].display] = p]
  /\ selected' = p
  /\ op' = [op EXCEPT ![p].at = "gathering", ![p].row = p]
  /\ UNCHANGED <<beat, left, live, lapses, losses>>

Cancelled(p) == left # "no" \/ rows[op[p].row].closed

\* Candidates are gathered, or that times out: the offer goes out unless the row was closed.
Gathered(p) ==
  /\ op[p].at = "gathering"
  /\ \/ /\ ~Cancelled(p)
        /\ op' = [op EXCEPT ![p].at = "offering"]
        /\ UNCHANGED viewVars
     \/ /\ op' = [op EXCEPT ![p].at = "done"]
        /\ StopRow(p)
  /\ UNCHANGED <<beat, left, live, lapses, losses>>

\* Mutant: an answer for a row that was closed meanwhile is dropped.
LateAnswerM(p) == rows[p].stop

\* negotiate: the stream of a row that was closed meanwhile is stopped.
LateAnswer(p) == IF Cancelled(p) THEN "sent" ELSE rows[p].stop

\* The offer's answer: the row knows its stream; the browser may not accept the description.
Answered(p) ==
  /\ op[p].at = "answered"
  /\ IF Cancelled(p)
     THEN /\ op' = [op EXCEPT ![p].at = "done"]
          /\ CloseRow(p)
          /\ rows' = [rows EXCEPT ![p].id = TRUE, ![p].closed = TRUE, ![p].stop = LateAnswer(p)]
     ELSE \/ /\ op' = [op EXCEPT ![p].at = "selecting"]
             /\ rows' = [rows EXCEPT ![p].id = TRUE]
             /\ UNCHANGED <<table, selected>>
          \/ /\ op' = [op EXCEPT ![p].at = "done"]
             /\ CloseRow(p)
             /\ rows' = [rows EXCEPT ![p].id = TRUE, ![p].closed = TRUE, ![p].stop = "sent"]
  /\ UNCHANGED <<beat, left, live, lapses, losses>>

\* The offer was refused, or its answer did not come.
OfferFailed(p) ==
  /\ op[p].at = "refused"
  /\ op' = [op EXCEPT ![p].at = "done"]
  /\ StopRow(p)
  /\ UNCHANGED <<beat, left, live, lapses, losses>>

\* stream-select's answer.
Selected(p) ==
  /\ op[p].at = "chosen"
  /\ op' = [op EXCEPT ![p].at = "done"]
  /\ IF Cancelled(p) THEN UNCHANGED viewVars
     ELSE selected' = op[p].row /\ UNCHANGED <<rows, table>>
  /\ UNCHANGED <<beat, left, live, lapses, losses>>

-----------------------------------------------------------------------------
(* The heartbeat. *)

SendBeat ==
  /\ left = "no" /\ beat.at = "idle" /\ op[First].at # "idle"
  /\ beat' = [beat EXCEPT !.at = "sent", !.known = {q \in InTable : rows[q].id}]
  /\ UNCHANGED <<op, viewVars, left, live, lapses, losses>>

\* Mutant: every row the answer does not list is over.
VanishedM == {q \in InTable : rows[q].id /\ q \notin beat.streams}

\* A stream that began after the heartbeat left cannot be in its answer.
Vanished == {q \in InTable : rows[q].id /\ q \in beat.known /\ q \notin beat.streams}

\* update
TakeBeat ==
  /\ beat.at = "back"
  /\ beat' = [beat EXCEPT !.at = "idle", !.known = {}, !.streams = {}]
  /\ IF left = "no"
     THEN /\ rows' = [q \in Ops |-> IF q \in Vanished THEN [rows[q] EXCEPT !.closed = TRUE, !.stop = "over"]
                                    ELSE rows[q]]
          /\ table' = [d \in Displays |-> IF table[d] \in Vanished THEN NoRow ELSE table[d]]
          /\ selected' = IF selected \in Vanished THEN NoRow ELSE selected
     ELSE UNCHANGED viewVars
  /\ UNCHANGED <<op, left, live, lapses, losses>>

\* disconnect: the peers close when the server has answered.
Leave ==
  /\ left = "no"
  /\ left' = "leaving"
  /\ UNCHANGED <<op, viewVars, beat, live, lapses, losses>>

-----------------------------------------------------------------------------
(* The server. *)

\* The offer: a new stream, or refused (a limit, the session is over).
ServeOffer(p) ==
  /\ op[p].at = "offering"
  /\ \/ /\ left # "gone"
        /\ live' = live \cup {p}
        /\ op' = [op EXCEPT ![p].at = "answered"]
     \/ /\ op' = [op EXCEPT ![p].at = "refused"]
        /\ UNCHANGED live
  /\ UNCHANGED <<viewVars, beat, left, lapses, losses>>

\* stream-select of a stream the session has.
ServeSelect(p) ==
  /\ op[p].at = "selecting"
  /\ LET q == op[p].row
     IN op' = [op EXCEPT ![p].at = IF rows[q].id /\ q \in live THEN "chosen" ELSE "done"]
  /\ UNCHANGED <<viewVars, beat, left, live, lapses, losses>>

ServeStop(q) ==
  /\ Stopping(q)
  /\ live' = live \ {q}
  /\ rows' = [rows EXCEPT ![q].stop = "done"]
  /\ UNCHANGED <<op, table, selected, beat, left, lapses, losses>>

ServeBeat ==
  /\ beat.at = "sent"
  /\ beat' = [beat EXCEPT !.at = "back", !.streams = live]
  /\ UNCHANGED <<op, viewVars, left, live, lapses, losses>>

\* The session is over, and its streams with it.
ServeLeave ==
  /\ left = "leaving"
  /\ left' = "gone"
  /\ live' = {}
  /\ UNCHANGED <<op, viewVars, beat, lapses, losses>>

\* A stream ends by itself.
StreamEnds ==
  /\ lapses < MaxLapses /\ lapses' = lapses + 1
  /\ \E q \in live : live' = live \ {q}
  /\ UNCHANGED <<op, viewVars, beat, left, losses>>

\* A call fails: an offer or stream-stop the server has not seen, or an answer that is lost.
Lost ==
  /\ losses < MaxLosses /\ losses' = losses + 1
  /\ \/ \E p \in Ops : /\ op[p].at = "answered"
                       /\ op' = [op EXCEPT ![p].at = "refused"]
                       /\ UNCHANGED rows
     \/ \E q \in Ops : /\ Stopping(q)
                       /\ rows' = [rows EXCEPT ![q].stop = "failed"]
                       /\ UNCHANGED op
  /\ UNCHANGED <<table, selected, beat, left, live, lapses>>

Serve ==
  \/ \E p \in Ops : ServeOffer(p) \/ ServeSelect(p) \/ ServeStop(p)
  \/ ServeBeat \/ ServeLeave

ViewerGoesOn ==
  \E p \in Ops : GoOn(p) \/ MakeRow(p) \/ Gathered(p) \/ Answered(p) \/ OfferFailed(p) \/ Selected(p)

ViewerNext ==
  \/ \E p \in Ops, d \in Displays, other \in BOOLEAN : Select(p, d, other)
  \/ ViewerGoesOn \/ Serve
  \/ SendBeat \/ TakeBeat \/ Leave
  \/ StreamEnds \/ Lost

ViewerSpec == ViewerInit /\ [][ViewerNext]_viewerVars

\* Calls are answered or fail, the browser takes the answers, and the heartbeat's timer goes on.
ViewerFair ==
  /\ \A p \in Ops : /\ WF_viewerVars(ServeStop(p)) /\ WF_viewerVars(ServeOffer(p))
                    /\ WF_viewerVars(ServeSelect(p))
                    /\ WF_viewerVars(Answered(p) \/ OfferFailed(p) \/ Selected(p))
  /\ WF_viewerVars(SendBeat) /\ WF_viewerVars(ServeBeat) /\ WF_viewerVars(TakeBeat)

FairViewerSpec == ViewerSpec /\ ViewerFair

-----------------------------------------------------------------------------
(* Properties. *)

\* A heartbeat that left before an offer was answered must not close the stream the offer began:
\* what the viewer takes for ended has ended at the server.
EndedIsOver == \A q \in Ops : rows[q].stop = "over" => q \notin live

\* A stream the viewer has closed, even while its offer was being answered, ends at the server,
\* unless the call that says so fails.
ClosedRowsStop ==
  \A q \in Ops : (rows[q].closed /\ rows[q].id /\ q \in live)
                   ~> (q \notin live \/ rows[q].stop = "failed")

=============================================================================
