----------------------------- MODULE ClientProofs -----------------------------
(***************************************************************************)
(* What the browser's side keeps, for every number of selections,          *)
(* displays, losses and submissions; and what its latency measurement      *)
(* reads off a frame and reports, for codes of any width.                  *)
(***************************************************************************)
EXTENDS ViewerStreams, LoginPage, LatencyCodes, SequenceTheorems, FiniteSetTheorems,
        WellFoundedInduction, NaturalsInduction, TLAPS

-----------------------------------------------------------------------------
(* The viewer's streams. *)

Places ==
  {"idle", "selecting", "stopping", "making", "codecs", "gathering", "offering", "answered",
   "refused", "chosen", "done"}

OpRecords == [at : Places, display : Displays \cup {NoDisplay}, row : Ops \cup {NoRow}]

RowRecords ==
  [made : BOOLEAN, id : BOOLEAN, closed : BOOLEAN,
   stop : {"no", "sent", "done", "failed", "over"}, display : Displays \cup {NoDisplay}]

\* A selection that waits for a row has it, and one that stops a display's row knows the display.
Working ==
  \A p \in Ops :
    /\ op[p].at \in {"stopping", "making", "gathering"} => op[p].row \in Ops
    /\ op[p].at = "stopping" => op[p].display \in Displays

ViewerTypes ==
  /\ op \in [Ops -> OpRecords]
  /\ Working
  /\ rows \in [Ops -> RowRecords]
  /\ table \in [Displays -> Ops \cup {NoRow}]
  /\ selected \in Ops \cup {NoRow}
  /\ beat \in [at : {"idle", "sent", "back"}, known : SUBSET Ops, streams : SUBSET Ops]
  /\ live \in SUBSET Ops

\* The selection has not sent its offer.
Before(p) == op[p].at \in {"idle", "stopping", "making", "codecs", "gathering", "offering"}

\* A stream begins once, with the offer of its row: until it goes out there is none.
BeginsOnce == \A q \in Ops : Before(q) => q \notin live /\ ~rows[q].id

\* What the heartbeat knew has an id, so it had begun when the answer was made.
AnswerIsFair ==
  \A q \in beat.known : rows[q].id /\ (beat.at = "back" /\ q \notin beat.streams => q \notin live)

\* The property, and that what was taken for ended had begun.
OverIsOver == \A q \in Ops : rows[q].stop = "over" => rows[q].id /\ q \notin live

ViewerInv == ViewerTypes /\ BeginsOnce /\ AnswerIsFair /\ OverIsOver

LEMMA ViewerStarts == ViewerInit => ViewerInv
<1>. SUFFICES ASSUME ViewerInit PROVE ViewerInv
  OBVIOUS
<1>1. op \in [Ops -> OpRecords] /\ \A p \in Ops : op[p].at = "idle"
  BY DEF ViewerInit, OpRecords, Places
<1>2. rows \in [Ops -> RowRecords] /\ \A p \in Ops : rows[p].id = FALSE /\ rows[p].stop = "no"
  BY DEF ViewerInit, RowRecords, Fresh0
<1>3. /\ table \in [Displays -> Ops \cup {NoRow}] /\ selected \in Ops \cup {NoRow}
      /\ beat \in [at : {"idle", "sent", "back"}, known : SUBSET Ops, streams : SUBSET Ops]
      /\ beat.known = {} /\ live = {}
  BY DEF ViewerInit
<1>4. ViewerTypes
  BY <1>1, <1>2, <1>3 DEF ViewerTypes, Working
<1>5. BeginsOnce /\ AnswerIsFair /\ OverIsOver
  BY <1>1, <1>2, <1>3 DEF BeginsOnce, AnswerIsFair, OverIsOver
<1>. QED
  BY <1>4, <1>5 DEF ViewerInv

\* A selection goes to another place.
LEMMA OpMoves ==
  ASSUME op \in [Ops -> OpRecords], NEW p \in Ops, NEW a \in Places,
         op' = [op EXCEPT ![p].at = a]
  PROVE  /\ op' \in [Ops -> OpRecords]
         /\ \A r \in Ops : /\ op'[r].at = IF r = p THEN a ELSE op[r].at
                           /\ op'[r].row = op[r].row /\ op'[r].display = op[r].display
<1>1. op' = [op EXCEPT ![p] = [op[p] EXCEPT !.at = a]]
  OBVIOUS
<1>2. PICK m \in OpRecords : m = [op[p] EXCEPT !.at = a]
  BY DEF OpRecords
<1>3. m.at = a /\ m.row = op[p].row /\ m.display = op[p].display
  BY <1>2 DEF OpRecords
<1>. QED
  BY <1>1, <1>2, <1>3

\* A row that is stopped neither gets an id nor is taken for ended.
LEMMA StopRowKeeps ==
  ASSUME ViewerTypes, NEW q \in Ops, StopRow(q)
  PROVE  /\ rows' \in [Ops -> RowRecords]
         /\ table' \in [Displays -> Ops \cup {NoRow}] /\ selected' \in Ops \cup {NoRow}
         /\ \A r \in Ops : /\ rows'[r].id = rows[r].id
                           /\ rows'[r].stop = "over" => rows[r].stop = "over"
<1>1. PICK s \in {"no", "sent", "done", "failed", "over"} :
        /\ s = IF rows[q].id /\ rows[q].stop = "no" THEN "sent" ELSE rows[q].stop
        /\ s = "over" => rows[q].stop = "over"
  BY DEF ViewerTypes, Working, RowRecords
<1>2. PICK m \in RowRecords : m = [rows[q] EXCEPT !.closed = TRUE, !.stop = s]
  <2>1. rows[q] \in RowRecords
    BY DEF ViewerTypes, Working
  <2>. QED
    BY <1>1, <2>1 DEF RowRecords
<1>3. m.id = rows[q].id /\ m.stop = s
  BY <1>2 DEF ViewerTypes, Working, RowRecords
<1>4. rows' = [rows EXCEPT ![q] = m]
  BY <1>1, <1>2 DEF StopRow, ViewerTypes, Working, RowRecords
<1>5. /\ rows' \in [Ops -> RowRecords]
      /\ \A r \in Ops : /\ rows'[r].id = rows[r].id
                        /\ rows'[r].stop = "over" => rows[r].stop = "over"
  BY <1>1, <1>3, <1>4 DEF ViewerTypes, Working
<1>6. table' \in [Displays -> Ops \cup {NoRow}] /\ selected' \in Ops \cup {NoRow}
  BY DEF StopRow, CloseRow, ViewerTypes, Working
<1>. QED
  BY <1>5, <1>6

\* What most steps do: no stream begins, the heartbeat is left alone, a row gets an id only when its
\* offer has gone out, and none is taken for ended.
LEMMA ViewerQuiet ==
  ASSUME ViewerInv, ViewerTypes', live' \subseteq live, beat' = beat,
         \A r \in Ops : /\ Before(r)' => Before(r) /\ rows'[r].id = rows[r].id
                        /\ rows[r].id => rows'[r].id
                        /\ rows'[r].stop = "over" => rows[r].stop = "over"
  PROVE  ViewerInv'
<1>1. BeginsOnce'
  BY DEF ViewerInv, BeginsOnce
<1>2. AnswerIsFair'
  BY DEF ViewerInv, AnswerIsFair, ViewerTypes, Working
<1>3. OverIsOver'
  BY DEF ViewerInv, OverIsOver
<1>. QED
  BY <1>1, <1>2, <1>3 DEF ViewerInv

\* MakeWay keeps the rest of the viewer as it must be.
LEMMA MakeWayKeeps ==
  ASSUME ViewerTypes, NEW p \in Ops, NEW d \in Displays, MakeWay(p, d),
         op[p].at \in {"idle", "stopping"}
  PROVE  /\ op' \in [Ops -> OpRecords]
         /\ Working'
         /\ \A r \in Ops : Before(r)' => Before(r)
         /\ rows' \in [Ops -> RowRecords]
         /\ table' \in [Displays -> Ops \cup {NoRow}] /\ selected' \in Ops \cup {NoRow}
         /\ \A r \in Ops : /\ rows'[r].id = rows[r].id
                           /\ rows'[r].stop = "over" => rows[r].stop = "over"
<1>1. CASE /\ UNCHANGED viewVars
           /\ op' = [op EXCEPT ![p] = [at |-> "codecs", display |-> d, row |-> NoRow]]
  <2>1. [at |-> "codecs", display |-> d, row |-> NoRow] \in OpRecords
    BY DEF OpRecords, Places
  <2>2. PICK m \in OpRecords : /\ m = [at |-> "codecs", display |-> d, row |-> NoRow]
                               /\ m.at = "codecs"
    BY <2>1
  <2>3. op' = [op EXCEPT ![p] = m]
    BY <1>1, <2>2
  <2>. QED
    BY <1>1, <2>2, <2>3 DEF ViewerTypes, Working, viewVars, Before
<1>2. CASE \E q \in (IF selected = NoRow THEN InTable ELSE {selected}) :
             /\ StopRow(q)
             /\ op' = [op EXCEPT ![p] = [at |-> "making", display |-> d, row |-> q]]
  <2>1. PICK q \in (IF selected = NoRow THEN InTable ELSE {selected}) :
             /\ StopRow(q)
             /\ op' = [op EXCEPT ![p] = [at |-> "making", display |-> d, row |-> q]]
    BY <1>2
  <2>2. q \in Ops
    BY <2>1 DEF InTable, ViewerTypes, Working
  <2>3. [at |-> "making", display |-> d, row |-> q] \in OpRecords
    BY <2>2 DEF OpRecords, Places
  <2>4. PICK m \in OpRecords : /\ m = [at |-> "making", display |-> d, row |-> q]
                               /\ m.at = "making" /\ m.row = q
    BY <2>3
  <2>5. op' = [op EXCEPT ![p] = m]
    BY <2>1, <2>4
  <2>6. /\ op' \in [Ops -> OpRecords]
        /\ Working'
        /\ \A r \in Ops : Before(r)' => Before(r)
    BY <2>2, <2>4, <2>5 DEF ViewerTypes, Working, Before
  <2>. QED
    BY <2>1, <2>2, <2>6, StopRowKeeps
<1>. QED
  BY <1>1, <1>2 DEF MakeWay

\* The answer to an offer: the row has its id from here on.
LEMMA AnsweredKeeps ==
  ASSUME ViewerInv, NEW p \in Ops, Answered(p)
  PROVE  ViewerInv'
<1>. USE DEF Answered
<1>1. PICK a \in {"done", "selecting"} : op' = [op EXCEPT ![p].at = a]
  OBVIOUS
<1>2. /\ op' \in [Ops -> OpRecords]
      /\ \A r \in Ops : /\ op'[r].at = IF r = p THEN a ELSE op[r].at
                        /\ op'[r].row = op[r].row /\ op'[r].display = op[r].display
  <2>1. a \in Places /\ op \in [Ops -> OpRecords]
    BY DEF Places, ViewerInv, ViewerTypes, Working
  <2>. QED
    BY <1>1, <2>1, OpMoves
<1>3. PICK m \in RowRecords : /\ rows' = [rows EXCEPT ![p] = m]
                              /\ m.id = TRUE /\ (m.stop = "over" => rows[p].stop = "over")
  <2>. DEFINE shut(s) == [rows[p] EXCEPT !.id = TRUE, !.closed = TRUE, !.stop = s]
  <2>1. rows[p] \in RowRecords /\ rows \in [Ops -> RowRecords]
    BY DEF ViewerInv, ViewerTypes, Working
  <2>2. CASE rows' = [rows EXCEPT ![p].id = TRUE]
    <3>1. [rows[p] EXCEPT !.id = TRUE] \in RowRecords
      BY <2>1 DEF RowRecords
    <3>2. /\ [rows[p] EXCEPT !.id = TRUE].id = TRUE
          /\ [rows[p] EXCEPT !.id = TRUE].stop = rows[p].stop
      BY <2>1 DEF RowRecords
    <3>. QED
      BY <2>2, <3>1, <3>2
  <2>3. CASE rows' = [rows EXCEPT ![p].id = TRUE, ![p].closed = TRUE, ![p].stop = "sent"]
    <3>1. shut("sent") \in RowRecords
      BY <2>1 DEF RowRecords
    <3>2. shut("sent").id = TRUE /\ shut("sent").stop = "sent"
      BY <2>1 DEF RowRecords
    <3>3. rows' = [rows EXCEPT ![p] = shut("sent")]
      BY <2>1, <2>3 DEF RowRecords
    <3>4. PICK m \in RowRecords : m = shut("sent")
      BY <3>1
    <3>. HIDE DEF shut
    <3>. QED
      BY <3>2, <3>3, <3>4
  <2>. QED
    BY <2>2, <2>3 DEF LateAnswer
<1>4. beat' = beat /\ live' = live
  OBVIOUS
<1>5. table' \in [Displays -> Ops \cup {NoRow}] /\ selected' \in Ops \cup {NoRow}
  BY DEF ViewerInv, ViewerTypes, Working, CloseRow
<1>6. ViewerTypes'
  <2>1. Working'
    BY <1>2 DEF ViewerInv, ViewerTypes, Working
  <2>2. rows' \in [Ops -> RowRecords]
    BY <1>3 DEF ViewerInv, ViewerTypes, Working
  <2>. QED
    BY <1>2, <1>4, <1>5, <2>1, <2>2 DEF ViewerInv, ViewerTypes, Working
<1>7. \A r \in Ops : /\ Before(r)' => Before(r) /\ rows'[r].id = rows[r].id
                     /\ rows[r].id => rows'[r].id
                     /\ rows'[r].stop = "over" => rows[r].stop = "over"
  BY <1>2, <1>3 DEF ViewerInv, ViewerTypes, Working, Before
<1>. QED
  BY <1>4, <1>6, <1>7, ViewerQuiet

\* A choice of the user's.
LEMMA SelectKeeps ==
  ASSUME ViewerInv, NEW p \in Ops, NEW d \in Displays, NEW other \in BOOLEAN, Select(p, d, other)
  PROVE  ViewerInv'
<1>1. op[p].at = "idle" /\ beat' = beat /\ live' = live
  BY DEF Select
<1>2. ViewerTypes
  BY DEF ViewerInv
<1>3. CASE table[d] # NoRow /\ ~other /\ UNCHANGED viewVars
           /\ op' = [op EXCEPT ![p] = [@ EXCEPT !.at = "selecting", !.display = d, !.row = table[d]]]
  <2>1. table[d] \in Ops
    BY <1>2, <1>3 DEF ViewerTypes, Working
  <2>2. op[p] \in OpRecords
    BY <1>2 DEF ViewerTypes, Working
  <2>3. [op[p] EXCEPT !.at = "selecting", !.display = d, !.row = table[d]] \in OpRecords
    BY <2>1, <2>2 DEF OpRecords, Places
  <2>4. [op[p] EXCEPT !.at = "selecting", !.display = d, !.row = table[d]].at = "selecting"
    BY <2>2 DEF OpRecords
  <2>5. PICK m \in OpRecords : m.at = "selecting" /\ op' = [op EXCEPT ![p] = m]
    BY <1>3, <2>3, <2>4
  <2>6. /\ op' \in [Ops -> OpRecords]
        /\ Working'
        /\ \A r \in Ops : Before(r)' => Before(r)
    BY <1>2, <2>5 DEF ViewerTypes, Working, Before
  <2>7. ViewerTypes'
    BY <1>1, <1>2, <1>3, <2>6 DEF ViewerTypes, Working, viewVars
  <2>. QED
    BY <1>1, <1>3, <2>6, <2>7, ViewerQuiet DEF viewVars
<1>4. CASE table[d] # NoRow /\ other /\ StopRow(table[d])
           /\ op' = [op EXCEPT ![p] = [@ EXCEPT !.at = "stopping", !.display = d, !.row = table[d]]]
  <2>1. table[d] \in Ops
    BY <1>2, <1>4 DEF ViewerTypes, Working
  <2>2. op[p] \in OpRecords
    BY <1>2 DEF ViewerTypes, Working
  <2>3. [op[p] EXCEPT !.at = "stopping", !.display = d, !.row = table[d]] \in OpRecords
    BY <2>1, <2>2 DEF OpRecords, Places
  <2>4. /\ [op[p] EXCEPT !.at = "stopping", !.display = d, !.row = table[d]].row = table[d]
        /\ [op[p] EXCEPT !.at = "stopping", !.display = d, !.row = table[d]].display = d
    BY <2>2 DEF OpRecords
  <2>5. PICK m \in OpRecords : /\ m.row \in Ops /\ m.display \in Displays
                               /\ op' = [op EXCEPT ![p] = m]
    BY <1>4, <2>1, <2>3, <2>4
  <2>6. /\ op' \in [Ops -> OpRecords]
        /\ Working'
        /\ \A r \in Ops : Before(r)' => Before(r)
    BY <1>1, <1>2, <2>5 DEF ViewerTypes, Working, Before
  <2>7. /\ rows' \in [Ops -> RowRecords]
        /\ table' \in [Displays -> Ops \cup {NoRow}] /\ selected' \in Ops \cup {NoRow}
        /\ \A r \in Ops : /\ rows'[r].id = rows[r].id
                          /\ rows'[r].stop = "over" => rows[r].stop = "over"
    BY <1>2, <1>4, <2>1, StopRowKeeps
  <2>8. ViewerTypes'
    BY <1>1, <1>2, <2>6, <2>7 DEF ViewerTypes, Working
  <2>. QED
    BY <1>1, <2>6, <2>7, <2>8, ViewerQuiet
<1>5. CASE MakeWay(p, d)
  <2>1. /\ op' \in [Ops -> OpRecords]
        /\ Working'
        /\ \A r \in Ops : Before(r)' => Before(r)
        /\ rows' \in [Ops -> RowRecords]
        /\ table' \in [Displays -> Ops \cup {NoRow}] /\ selected' \in Ops \cup {NoRow}
        /\ \A r \in Ops : /\ rows'[r].id = rows[r].id
                          /\ rows'[r].stop = "over" => rows[r].stop = "over"
    BY <1>1, <1>2, <1>5, MakeWayKeeps
  <2>2. ViewerTypes'
    BY <1>1, <1>2, <2>1 DEF ViewerTypes, Working
  <2>. QED
    BY <1>1, <2>1, <2>2, ViewerQuiet
<1>. QED
  BY <1>3, <1>4, <1>5 DEF Select

\* A selection that only moves on, whatever becomes of the table.
LEMMA MovesKeep ==
  ASSUME ViewerInv, NEW p \in Ops, NEW a \in Places, op' = [op EXCEPT ![p].at = a],
         a \in {"stopping", "making", "gathering"} => FALSE,
         a \in {"codecs", "offering"} => Before(p), a # "idle",
         rows' \in [Ops -> RowRecords],
         \A r \in Ops : /\ rows'[r].id = rows[r].id
                        /\ rows'[r].stop = "over" => rows[r].stop = "over",
         table' \in [Displays -> Ops \cup {NoRow}], selected' \in Ops \cup {NoRow},
         beat' = beat, live' = live
  PROVE  ViewerInv'
<1>1. op \in [Ops -> OpRecords]
  BY DEF ViewerInv, ViewerTypes, Working
<1>2. /\ op' \in [Ops -> OpRecords]
      /\ \A r \in Ops : /\ op'[r].at = IF r = p THEN a ELSE op[r].at
                        /\ op'[r].row = op[r].row /\ op'[r].display = op[r].display
  BY <1>1, OpMoves
<1>3. Working'
  BY <1>2 DEF ViewerInv, ViewerTypes, Working
<1>4. ViewerTypes'
  BY <1>2, <1>3 DEF ViewerInv, ViewerTypes, Working
<1>5. \A r \in Ops : Before(r)' => Before(r)
  BY <1>2 DEF Before, Places
<1>. QED
  BY <1>4, <1>5, ViewerQuiet

LEMMA ViewerGoesOnKeeps ==
  ASSUME ViewerInv, NEW p \in Ops,
         GoOn(p) \/ MakeRow(p) \/ Gathered(p) \/ OfferFailed(p) \/ Selected(p)
  PROVE  ViewerInv'
<1>1. ViewerTypes
  BY DEF ViewerInv
<1>2. {"done", "codecs", "gathering", "offering"} \subseteq Places
  BY DEF Places
<1>3. beat' = beat /\ live' = live
  BY DEF GoOn, MakeRow, Gathered, OfferFailed, Selected
<1>4. CASE GoOn(p)
  <2>1. CASE op' = [op EXCEPT ![p].at = "done"] /\ UNCHANGED viewVars
    BY <1>1, <1>2, <1>3, <2>1, MovesKeep DEF ViewerTypes, Working, viewVars
  <2>2. CASE op[p].at = "stopping" /\ MakeWay(p, op[p].display)
    <3>1. op[p].display \in Displays
      BY <1>1, <2>2 DEF ViewerTypes, Working
    <3>2. QED
      <4>1. /\ op' \in [Ops -> OpRecords]
            /\ Working'
            /\ \A r \in Ops : Before(r)' => Before(r)
            /\ rows' \in [Ops -> RowRecords]
            /\ table' \in [Displays -> Ops \cup {NoRow}] /\ selected' \in Ops \cup {NoRow}
            /\ \A r \in Ops : /\ rows'[r].id = rows[r].id
                              /\ rows'[r].stop = "over" => rows[r].stop = "over"
        BY <1>1, <2>2, <3>1, MakeWayKeeps
      <4>2. ViewerTypes'
        BY <1>1, <1>3, <4>1 DEF ViewerTypes, Working
      <4>. QED
        BY <1>3, <4>1, <4>2, ViewerQuiet
  <2>3. CASE op' = [op EXCEPT ![p].at = "codecs", ![p].row = NoRow] /\ UNCHANGED viewVars
             /\ op[p].at \in {"stopping", "making"}
    <3>1. op[p] \in OpRecords
      BY <1>1 DEF ViewerTypes, Working
    <3>2. [op[p] EXCEPT !.at = "codecs", !.row = NoRow] \in OpRecords
      BY <3>1 DEF OpRecords, Places
    <3>3. [op[p] EXCEPT !.at = "codecs", !.row = NoRow].at = "codecs"
      BY <3>1 DEF OpRecords
    <3>4. op' = [op EXCEPT ![p] = [op[p] EXCEPT !.at = "codecs", !.row = NoRow]]
      BY <1>1, <2>3 DEF ViewerTypes, Working, OpRecords
    <3>5. PICK m \in OpRecords : m.at = "codecs" /\ op' = [op EXCEPT ![p] = m]
      BY <3>2, <3>3, <3>4
    <3>6. /\ op' \in [Ops -> OpRecords]
          /\ Working'
          /\ \A r \in Ops : Before(r)' => Before(r)
      BY <1>1, <2>3, <3>5, ZenonT(30) DEF ViewerTypes, Working, Before
    <3>7. ViewerTypes'
      BY <1>1, <1>3, <2>3, <3>6 DEF ViewerTypes, Working, viewVars
    <3>. QED
      BY <1>3, <2>3, <3>6, <3>7, ViewerQuiet DEF viewVars
  <2>. QED
    BY <1>4, <2>1, <2>2, <2>3 DEF GoOn
<1>5. CASE MakeRow(p)
  <2>1. PICK m \in OpRecords : m.at = "gathering" /\ m.row = p /\ op' = [op EXCEPT ![p] = m]
    <3>1. op[p] \in OpRecords
      BY <1>1 DEF ViewerTypes, Working
    <3>2. [op[p] EXCEPT !.at = "gathering", !.row = p] \in OpRecords
      BY <3>1 DEF OpRecords, Places
    <3>3. /\ [op[p] EXCEPT !.at = "gathering", !.row = p].at = "gathering"
          /\ [op[p] EXCEPT !.at = "gathering", !.row = p].row = p
      BY <3>1 DEF OpRecords
    <3>4. op' = [op EXCEPT ![p] = [op[p] EXCEPT !.at = "gathering", !.row = p]]
      BY <1>1, <1>5 DEF MakeRow, ViewerTypes, Working, OpRecords
    <3>. QED
      BY <3>2, <3>3, <3>4
  <2>2. PICK n \in RowRecords : /\ n.id = rows[p].id /\ n.stop = rows[p].stop
                                /\ rows' = [rows EXCEPT ![p] = n]
    <3>1. rows[p] \in RowRecords /\ op[p].display \in Displays \cup {NoDisplay}
      BY <1>1 DEF ViewerTypes, Working, OpRecords
    <3>2. [rows[p] EXCEPT !.made = TRUE, !.display = op[p].display] \in RowRecords
      BY <3>1 DEF RowRecords
    <3>3. /\ [rows[p] EXCEPT !.made = TRUE, !.display = op[p].display].id = rows[p].id
          /\ [rows[p] EXCEPT !.made = TRUE, !.display = op[p].display].stop = rows[p].stop
      BY <3>1 DEF RowRecords
    <3>. QED
      BY <1>5, <3>2, <3>3 DEF MakeRow
  <2>3. table' \in [Displays -> Ops \cup {NoRow}] /\ selected' \in Ops \cup {NoRow}
    BY <1>1, <1>5 DEF MakeRow, ViewerTypes, Working
  <2>4. op[p].at = "codecs"
    BY <1>5 DEF MakeRow
  <2>5. /\ op' \in [Ops -> OpRecords]
        /\ Working'
        /\ \A r \in Ops : Before(r)' => Before(r)
    BY <1>1, <2>1, <2>4 DEF ViewerTypes, Working, Before
  <2>6. /\ rows' \in [Ops -> RowRecords]
        /\ \A r \in Ops : rows'[r].id = rows[r].id /\ rows'[r].stop = rows[r].stop
    BY <1>1, <2>2 DEF ViewerTypes, Working
  <2>7. ViewerTypes'
    BY <1>1, <1>3, <2>3, <2>5, <2>6 DEF ViewerTypes, Working
  <2>. QED
    BY <1>3, <2>5, <2>6, <2>7, ViewerQuiet
<1>6. CASE Gathered(p)
  <2>1. CASE op' = [op EXCEPT ![p].at = "offering"] /\ UNCHANGED viewVars
    <3>1. Before(p)
      BY <1>6 DEF Gathered, Before
    <3>. QED
      BY <1>1, <1>2, <1>3, <2>1, <3>1, MovesKeep DEF ViewerTypes, Working, viewVars
  <2>2. CASE op' = [op EXCEPT ![p].at = "done"] /\ StopRow(p)
    <3>1. /\ rows' \in [Ops -> RowRecords]
          /\ table' \in [Displays -> Ops \cup {NoRow}] /\ selected' \in Ops \cup {NoRow}
          /\ \A r \in Ops : /\ rows'[r].id = rows[r].id
                            /\ rows'[r].stop = "over" => rows[r].stop = "over"
      BY <1>1, <2>2, StopRowKeeps
    <3>. QED
      BY <1>2, <1>3, <2>2, <3>1, MovesKeep
  <2>. QED
    BY <1>6, <2>1, <2>2 DEF Gathered
<1>7. CASE OfferFailed(p)
  <2>1. /\ rows' \in [Ops -> RowRecords]
        /\ table' \in [Displays -> Ops \cup {NoRow}] /\ selected' \in Ops \cup {NoRow}
        /\ \A r \in Ops : /\ rows'[r].id = rows[r].id
                          /\ rows'[r].stop = "over" => rows[r].stop = "over"
    BY <1>1, <1>7, StopRowKeeps DEF OfferFailed
  <2>. QED
    BY <1>2, <1>3, <1>7, <2>1, MovesKeep DEF OfferFailed
<1>8. CASE Selected(p)
  <2>1. rows' = rows /\ table' = table /\ selected' \in Ops \cup {NoRow}
    BY <1>1, <1>8 DEF Selected, viewVars, ViewerTypes, Working, OpRecords
  <2>. QED
    BY <1>1, <1>2, <1>3, <1>8, <2>1, MovesKeep DEF Selected, ViewerTypes, Working
<1>. QED
  BY <1>4, <1>5, <1>6, <1>7, <1>8

\* The only step that begins a stream: its row has no id yet, so no heartbeat knew it.
LEMMA ServeOfferKeeps ==
  ASSUME ViewerInv, NEW p \in Ops, ServeOffer(p)
  PROVE  ViewerInv'
<1>1. ViewerTypes /\ op[p].at = "offering" /\ beat' = beat /\ UNCHANGED viewVars
  BY DEF ViewerInv, ServeOffer
<1>2. PICK a \in {"answered", "refused"} : op' = [op EXCEPT ![p].at = a] /\ live' \subseteq live \cup {p}
  BY DEF ServeOffer
<1>3. /\ op' \in [Ops -> OpRecords]
      /\ \A r \in Ops : /\ op'[r].at = IF r = p THEN a ELSE op[r].at
                        /\ op'[r].row = op[r].row /\ op'[r].display = op[r].display
  <2>1. a \in Places /\ op \in [Ops -> OpRecords]
    BY <1>1 DEF Places, ViewerTypes
  <2>. QED
    BY <1>2, <2>1, OpMoves
<1>4. Working'
  BY <1>1, <1>3 DEF ViewerTypes, Working
<1>5. ViewerTypes'
  BY <1>1, <1>2, <1>3, <1>4 DEF ViewerTypes, viewVars
<1>6. ~rows[p].id
  BY <1>1 DEF ViewerInv, BeginsOnce, Before
<1>7. BeginsOnce'
  <2>. SUFFICES ASSUME NEW q \in Ops, Before(q)' PROVE q \notin live' /\ ~rows'[q].id
    BY DEF BeginsOnce
  <2>1. q # p /\ Before(q)
    BY <1>3 DEF Before
  <2>. QED
    BY <1>1, <1>2, <2>1 DEF ViewerInv, BeginsOnce, viewVars
<1>8. AnswerIsFair'
  BY <1>1, <1>2, <1>6 DEF ViewerInv, AnswerIsFair, viewVars
<1>9. OverIsOver'
  BY <1>1, <1>2, <1>6 DEF ViewerInv, OverIsOver, viewVars
<1>. QED
  BY <1>5, <1>7, <1>8, <1>9 DEF ViewerInv

\* The heartbeat: what it knows has an id, its answer is what runs, and what both leave out is over.
LEMMA SendBeatKeeps ==
  ASSUME ViewerInv, SendBeat
  PROVE  ViewerInv'
<1>1. UNCHANGED <<op, rows, table, selected, live>> /\ ViewerTypes /\ beat.at = "idle"
  BY DEF SendBeat, viewVars, ViewerInv
<1>2. {q \in InTable : rows[q].id} \subseteq Ops
  BY <1>1 DEF InTable, ViewerTypes
<1>3. PICK b \in [at : {"idle", "sent", "back"}, known : SUBSET Ops, streams : SUBSET Ops] :
        /\ b = [beat EXCEPT !.at = "sent", !.known = {q \in InTable : rows[q].id}]
        /\ b.at = "sent" /\ b.known = {q \in InTable : rows[q].id}
  <2>. DEFINE b == [beat EXCEPT !.at = "sent", !.known = {q \in InTable : rows[q].id}]
  <2>1. beat \in [at : {"idle", "sent", "back"}, known : SUBSET Ops, streams : SUBSET Ops]
    BY <1>1 DEF ViewerTypes
  <2>2. b \in [at : {"idle", "sent", "back"}, known : SUBSET Ops, streams : SUBSET Ops]
    BY <1>2, <2>1
  <2>3. b.at = "sent" /\ b.known = {q \in InTable : rows[q].id}
    BY <2>1
  <2>. HIDE DEF b
  <2>. QED
    BY <2>2, <2>3 DEF b
<1>4. beat' = b
  BY <1>3 DEF SendBeat
<1>5. ViewerTypes'
  BY <1>1, <1>3, <1>4 DEF ViewerTypes, Working
<1>6. BeginsOnce' /\ OverIsOver'
  BY <1>1 DEF ViewerInv, BeginsOnce, OverIsOver, Before
<1>7. AnswerIsFair'
  BY <1>1, <1>3, <1>4 DEF AnswerIsFair
<1>. QED
  BY <1>5, <1>6, <1>7 DEF ViewerInv

LEMMA ServeBeatKeeps ==
  ASSUME ViewerInv, ServeBeat
  PROVE  ViewerInv'
<1>1. UNCHANGED <<op, rows, table, selected, live>> /\ ViewerTypes
  BY DEF ServeBeat, viewVars, ViewerInv
<1>2. PICK b \in [at : {"idle", "sent", "back"}, known : SUBSET Ops, streams : SUBSET Ops] :
        beat' = b /\ b.known = beat.known /\ b.streams = live
  <2>. DEFINE b == [beat EXCEPT !.at = "back", !.streams = live]
  <2>1. /\ beat \in [at : {"idle", "sent", "back"}, known : SUBSET Ops, streams : SUBSET Ops]
        /\ live \in SUBSET Ops
    BY <1>1 DEF ViewerTypes
  <2>2. b \in [at : {"idle", "sent", "back"}, known : SUBSET Ops, streams : SUBSET Ops]
    BY <2>1
  <2>3. b.known = beat.known /\ b.streams = live
    BY <2>1
  <2>4. beat' = b
    BY DEF ServeBeat
  <2>. HIDE DEF b
  <2>. QED
    BY <2>2, <2>3, <2>4
<1>3. ViewerTypes'
  BY <1>1, <1>2 DEF ViewerTypes, Working
<1>4. BeginsOnce' /\ OverIsOver'
  BY <1>1 DEF ViewerInv, BeginsOnce, OverIsOver, Before
<1>5. AnswerIsFair'
  BY <1>1, <1>2 DEF ViewerInv, AnswerIsFair
<1>. QED
  BY <1>3, <1>4, <1>5 DEF ViewerInv

LEMMA TakeBeatKeeps ==
  ASSUME ViewerInv, TakeBeat
  PROVE  ViewerInv'
<1>1. UNCHANGED <<op, live>> /\ ViewerTypes /\ beat.at = "back"
  BY DEF TakeBeat, ViewerInv
<1>2. PICK b \in [at : {"idle", "sent", "back"}, known : SUBSET Ops, streams : SUBSET Ops] :
        beat' = b /\ b.known = {}
  <2>. DEFINE b == [beat EXCEPT !.at = "idle", !.known = {}, !.streams = {}]
  <2>1. beat \in [at : {"idle", "sent", "back"}, known : SUBSET Ops, streams : SUBSET Ops]
    BY <1>1 DEF ViewerTypes
  <2>2. b \in [at : {"idle", "sent", "back"}, known : SUBSET Ops, streams : SUBSET Ops] /\ b.known = {}
    BY <2>1
  <2>3. beat' = b
    BY DEF TakeBeat
  <2>. HIDE DEF b
  <2>. QED
    BY <2>2, <2>3
<1>3. \A q \in Vanished : q \in Ops /\ rows[q].id /\ q \notin live
  BY <1>1 DEF Vanished, InTable, ViewerInv, AnswerIsFair, ViewerTypes
<1>4. /\ rows' \in [Ops -> RowRecords]
      /\ \A q \in Ops : /\ rows'[q].id = rows[q].id
                        /\ rows'[q].stop = "over" => rows[q].stop = "over" \/ q \in Vanished
  <2>1. CASE left = "no"
    <3>1. ASSUME NEW q \in Ops
          PROVE  /\ [rows[q] EXCEPT !.closed = TRUE, !.stop = "over"] \in RowRecords
                 /\ [rows[q] EXCEPT !.closed = TRUE, !.stop = "over"].id = rows[q].id
      <4>1. rows[q] \in RowRecords
        BY <1>1 DEF ViewerTypes
      <4>. QED
        BY <4>1 DEF RowRecords
    <3>2. rows' = [q \in Ops |-> IF q \in Vanished
                                 THEN [rows[q] EXCEPT !.closed = TRUE, !.stop = "over"] ELSE rows[q]]
      BY <2>1 DEF TakeBeat
    <3>3. \A q \in Ops : rows[q] \in RowRecords
      BY <1>1 DEF ViewerTypes
    <3>. QED
      BY <3>1, <3>2, <3>3
  <2>2. CASE left # "no"
    BY <1>1, <2>2 DEF TakeBeat, viewVars, ViewerTypes
  <2>. QED
    BY <2>1, <2>2
<1>5. table' \in [Displays -> Ops \cup {NoRow}] /\ selected' \in Ops \cup {NoRow}
  BY <1>1 DEF TakeBeat, viewVars, ViewerTypes
<1>6. ViewerTypes'
  BY <1>1, <1>2, <1>4, <1>5 DEF ViewerTypes, Working
<1>7. BeginsOnce'
  BY <1>1, <1>4 DEF ViewerInv, BeginsOnce, Before
<1>8. AnswerIsFair'
  BY <1>2 DEF AnswerIsFair
<1>9. OverIsOver'
  BY <1>1, <1>3, <1>4 DEF ViewerInv, OverIsOver
<1>. QED
  BY <1>6, <1>7, <1>8, <1>9 DEF ViewerInv

\* The server's other steps, the lost calls, and leaving.
LEMMA OtherStepsKeep ==
  ASSUME ViewerInv,
         \/ \E p \in Ops : ServeSelect(p) \/ ServeStop(p)
         \/ ServeLeave \/ StreamEnds \/ Lost \/ Leave
  PROVE  ViewerInv'
<1>1. ViewerTypes
  BY DEF ViewerInv
<1>2. {"done", "chosen", "refused"} \subseteq Places
  BY DEF Places
<1>3. ASSUME NEW p \in Ops, ServeSelect(p) PROVE ViewerInv'
  <2>1. PICK a \in {"done", "chosen"} : op' = [op EXCEPT ![p].at = a]
    BY <1>3 DEF ServeSelect
  <2>. QED
    BY <1>1, <1>2, <1>3, <2>1, MovesKeep DEF ServeSelect, viewVars, ViewerTypes
<1>4. ASSUME NEW q \in Ops, NEW s \in {"done", "failed"}, rows' = [rows EXCEPT ![q].stop = s],
             live' \subseteq live, UNCHANGED <<op, table, selected, beat>>
      PROVE  ViewerInv'
  <2>1. PICK m \in RowRecords : m.id = rows[q].id /\ m.stop = s /\ rows' = [rows EXCEPT ![q] = m]
    <3>1. rows[q] \in RowRecords
      BY <1>1 DEF ViewerTypes
    <3>2. [rows[q] EXCEPT !.stop = s] \in RowRecords
      BY <3>1 DEF RowRecords
    <3>3. [rows[q] EXCEPT !.stop = s].id = rows[q].id /\ [rows[q] EXCEPT !.stop = s].stop = s
      BY <3>1 DEF RowRecords
    <3>. QED
      BY <1>4, <3>2, <3>3
  <2>2. /\ rows' \in [Ops -> RowRecords]
        /\ \A r \in Ops : /\ rows'[r].id = rows[r].id
                          /\ rows'[r].stop = "over" => rows[r].stop = "over"
    BY <1>1, <2>1 DEF ViewerTypes
  <2>3. ViewerTypes'
    BY <1>1, <1>4, <2>2 DEF ViewerTypes, Working
  <2>. QED
    BY <1>4, <2>2, <2>3, ViewerQuiet DEF Before
<1>5. ASSUME NEW q \in Ops, ServeStop(q) PROVE ViewerInv'
  BY <1>4, <1>5 DEF ServeStop
<1>6. ASSUME live' \subseteq live, UNCHANGED <<op, rows, table, selected, beat>> PROVE ViewerInv'
  <2>1. ViewerTypes'
    BY <1>1, <1>6 DEF ViewerTypes, Working
  <2>. QED
    BY <1>6, <2>1, ViewerQuiet DEF Before
<1>7. CASE ServeLeave \/ StreamEnds \/ Leave
  BY <1>6, <1>7 DEF ServeLeave, StreamEnds, Leave, viewVars
<1>8. CASE Lost
  <2>1. UNCHANGED <<table, selected, beat, live>>
    BY <1>8 DEF Lost
  <2>2. ASSUME NEW p \in Ops, op' = [op EXCEPT ![p].at = "refused"], rows' = rows PROVE ViewerInv'
    BY <1>1, <1>2, <2>1, <2>2, MovesKeep DEF ViewerTypes
  <2>3. ASSUME NEW q \in Ops, rows' = [rows EXCEPT ![q].stop = "failed"], op' = op PROVE ViewerInv'
    BY <1>4, <2>1, <2>3
  <2>. QED
    BY <1>8, <2>2, <2>3 DEF Lost
<1>. QED
  BY <1>3, <1>5, <1>7, <1>8

LEMMA ViewerStep == ViewerInv /\ [ViewerNext]_viewerVars => ViewerInv'
<1>. SUFFICES ASSUME ViewerInv, [ViewerNext]_viewerVars PROVE ViewerInv'
  OBVIOUS
<1>1. CASE \E p \in Ops, d \in Displays, other \in BOOLEAN : Select(p, d, other)
  BY <1>1, SelectKeeps
<1>2. CASE ViewerGoesOn
  BY <1>2, ViewerGoesOnKeeps, AnsweredKeeps DEF ViewerGoesOn
<1>3. CASE Serve
  BY <1>3, ServeOfferKeeps, ServeBeatKeeps, OtherStepsKeep DEF Serve
<1>4. CASE SendBeat \/ TakeBeat
  BY <1>4, SendBeatKeeps, TakeBeatKeeps
<1>5. CASE Leave \/ StreamEnds \/ Lost
  BY <1>5, OtherStepsKeep
<1>6. CASE UNCHANGED viewerVars
  BY <1>6 DEF ViewerInv, ViewerTypes, Working, BeginsOnce, AnswerIsFair, OverIsOver, Before,
              viewerVars, viewVars
<1>. QED
  BY <1>1, <1>2, <1>3, <1>4, <1>5, <1>6 DEF ViewerNext

\* A heartbeat never closes a stream that began after it left: what the viewer takes for ended has
\* ended at the server, whatever was selected, stopped or lost between (update's known ids).
THEOREM HeartbeatIsFair == ViewerSpec => []EndedIsOver
<1>1. ViewerInv => EndedIsOver
  BY DEF ViewerInv, OverIsOver, EndedIsOver
<1>. QED
  BY <1>1, ViewerStarts, ViewerStep, PTL DEF ViewerSpec

-----------------------------------------------------------------------------
(* The login page. *)

SubmitPlaces ==
  {"idle", "asked", "unanswered", "answered", "stale", "fetching", "starting", "listed", "failing",
   "retiring", "returning", "done"}

Submissions == [Submits -> [at : SubmitPlaces, of : Submits \cup {NoSubmit}]]
Views ==
  [Submits -> [at : {"none", "alive", "closing", "broken", "over"}, shown : BOOLEAN, tell : BOOLEAN]]
\* A return that ends a session says whose.
Return == [at : {"no", "closing"}, of : Submits \cup {NoSubmit}] \cup [at : {"retiring"}, of : Submits]
Returns == [Callers -> Return]

LoginTypes ==
  /\ submit \in Submissions /\ view \in Views /\ back \in Returns
  /\ mounted \in Submits \cup {NoSubmit} /\ pending \in Submits \cup {NoSubmit}
  /\ admitted \in [Submits -> {"none", "live", "over"}] /\ missed \in SUBSET Submits

\* A submission has no session before the server admits it, and has missed one whose answer was lost.
NotYet(a) ==
  /\ submit[a].at \in {"idle", "asked"} => admitted[a] # "live"
  /\ submit[a].at = "unanswered" => a \in missed

\* The submission waits while it comes back to the login.
Waits(a) == back[<<a, "submit">>].at # "no" => submit[a].at = "returning"

\* The submission is to use the session or to end it; it has a viewer that has not ended.
InHand(a) == submit[a].at \in {"answered", "stale", "fetching", "failing", "retiring"}
Up(a) == view[a].at \notin {"none", "over"}
Held(a) == admitted[a] = "live" /\ a \notin missed => InHand(a) \/ Up(a)

LoginInv == LoginTypes /\ \A a \in Submits : NotYet(a) /\ Waits(a) /\ Held(a)

LEMMA LoginStarts == LoginInit => LoginInv
<1>. SUFFICES ASSUME LoginInit PROVE LoginInv
  OBVIOUS
<1>1. submit \in Submissions /\ \A a \in Submits : submit[a].at = "idle"
  BY DEF LoginInit, Submissions, SubmitPlaces
<1>2. back \in Returns /\ \A c \in Callers : back[c].at = "no"
  BY DEF LoginInit, Returns, Return
<1>3. view \in Views
  BY DEF LoginInit, Views, Unbuilt
<1>4. /\ mounted \in Submits \cup {NoSubmit} /\ pending \in Submits \cup {NoSubmit}
      /\ admitted \in [Submits -> {"none", "live", "over"}] /\ missed \in SUBSET Submits
      /\ \A a \in Submits : admitted[a] = "none"
  BY DEF LoginInit
<1>5. \A a \in Submits : <<a, "submit">> \in Callers
  BY DEF Callers
<1>6. \A a \in Submits : NotYet(a) /\ Waits(a) /\ Held(a)
  BY <1>1, <1>2, <1>4, <1>5 DEF NotYet, Waits, Held
<1>. QED
  BY <1>1, <1>2, <1>3, <1>4, <1>6 DEF LoginInv, LoginTypes

-----------------------------------------------------------------------------
(* What the steps do to one submission. *)

\* A submission goes to another place.
LEMMA SubmitMoves ==
  ASSUME submit \in Submissions, NEW a \in Submits, NEW p \in SubmitPlaces
  PROVE  /\ [submit EXCEPT ![a].at = p] \in Submissions
         /\ \A b \in Submits :
              [submit EXCEPT ![a].at = p][b].at = IF b = a THEN p ELSE submit[b].at
<1>1. submit[a] \in [at : SubmitPlaces, of : Submits \cup {NoSubmit}]
  BY DEF Submissions
<1>2. [submit[a] EXCEPT !.at = p] \in [at : SubmitPlaces, of : Submits \cup {NoSubmit}]
  BY <1>1
<1>3. [submit[a] EXCEPT !.at = p].at = p
  BY <1>1
<1>4. [submit EXCEPT ![a].at = p] = [submit EXCEPT ![a] = [submit[a] EXCEPT !.at = p]]
  BY DEF Submissions
<1>5. PICK m \in [at : SubmitPlaces, of : Submits \cup {NoSubmit}] :
        m = [submit[a] EXCEPT !.at = p] /\ m.at = p
  BY <1>2, <1>3
<1>6. [submit EXCEPT ![a].at = p] = [submit EXCEPT ![a] = m]
  BY <1>4, <1>5
<1>. QED
  BY <1>5, <1>6 DEF Submissions

\* The same of a submission that waits for a viewer, or for none any more.
LEMMA SubmitSet ==
  ASSUME NEW S \in Submissions, NEW a \in Submits, NEW p \in SubmitPlaces,
         NEW o \in Submits \cup {NoSubmit}
  PROVE  /\ [S EXCEPT ![a] = [at |-> p, of |-> o]] \in Submissions
         /\ \A b \in Submits :
              [S EXCEPT ![a] = [at |-> p, of |-> o]][b].at = IF b = a THEN p ELSE S[b].at
<1>1. PICK m \in [at : SubmitPlaces, of : Submits \cup {NoSubmit}] :
        m = [at |-> p, of |-> o] /\ m.at = p
  <2>1. [at |-> p, of |-> o] \in [at : SubmitPlaces, of : Submits \cup {NoSubmit}]
    OBVIOUS
  <2>. QED
    BY <2>1
<1>2. /\ [S EXCEPT ![a] = m] \in Submissions
      /\ \A b \in Submits : [S EXCEPT ![a] = m][b].at = IF b = a THEN p ELSE S[b].at
  BY <1>1 DEF Submissions
<1>. QED
  BY <1>1, <1>2

LEMMA SubmissionMoves ==
  ASSUME submit \in Submissions, NEW a \in Submits, NEW p \in SubmitPlaces,
         submit' = [submit EXCEPT ![a].at = p]
  PROVE  /\ submit' \in Submissions
         /\ \A b \in Submits : submit'[b].at = IF b = a THEN p ELSE submit[b].at
<1>1. /\ [submit EXCEPT ![a].at = p] \in Submissions
      /\ \A b \in Submits :
           [submit EXCEPT ![a].at = p][b].at = IF b = a THEN p ELSE submit[b].at
  BY SubmitMoves
<1>. QED
  BY <1>1

LEMMA SubmissionSet ==
  ASSUME submit \in Submissions, NEW a \in Submits, NEW p \in SubmitPlaces,
         NEW o \in Submits \cup {NoSubmit},
         submit' = [submit EXCEPT ![a] = [at |-> p, of |-> o]]
  PROVE  /\ submit' \in Submissions
         /\ \A b \in Submits : submit'[b].at = IF b = a THEN p ELSE submit[b].at
<1>1. PICK S \in Submissions : S = submit
  OBVIOUS
<1>2. /\ [S EXCEPT ![a] = [at |-> p, of |-> o]] \in Submissions
      /\ \A b \in Submits :
           [S EXCEPT ![a] = [at |-> p, of |-> o]][b].at = IF b = a THEN p ELSE S[b].at
  BY SubmitSet
<1>. QED
  BY <1>1, <1>2

\* A viewer that is told to close is closing, or cannot: it has not ended.
LEMMA DisposedKeeps ==
  ASSUME NEW V \in Views, NEW a \in Submits, NEW t \in BOOLEAN
  PROVE  /\ Disposed(V, a, t) \in Views
         /\ \A b \in Submits : /\ b # a => Disposed(V, a, t)[b] = V[b]
                               /\ Disposed(V, a, t)[a].at \in {"closing", "broken"}
<1>. DEFINE R == [at : {"none", "alive", "closing", "broken", "over"}, shown : BOOLEAN, tell : BOOLEAN]
<1>1. PICK s \in {"closing", "broken"} : s = IF markup = a THEN "closing" ELSE "broken"
  OBVIOUS
<1>2. V[a] \in R
  BY DEF Views
<1>3. [V[a] EXCEPT !.at = s, !.tell = t] \in R
  BY <1>2
<1>4. [V[a] EXCEPT !.at = s, !.tell = t].at = s
  BY <1>2
<1>5. Disposed(V, a, t) = [V EXCEPT ![a] = [V[a] EXCEPT !.at = s, !.tell = t]]
  BY <1>1, <1>2 DEF Disposed, Views
<1>6. PICK m \in R : m = [V[a] EXCEPT !.at = s, !.tell = t]
  BY <1>3
<1>. HIDE DEF R
<1>7. Disposed(V, a, t) = [V EXCEPT ![a] = m] /\ m.at \in {"closing", "broken"}
  BY <1>4, <1>5, <1>6
<1>8. V \in [Submits -> R]
  BY DEF Views, R
<1>9. [V EXCEPT ![a] = m] \in [Submits -> R]
  BY <1>8
<1>. QED
  BY <1>7, <1>8, <1>9 DEF Views, R

\* The page has told the server of the session's end, or has missed it.
LEMMA ToldEnds ==
  ASSUME LoginTypes, NEW a \in Submits, Told(a)
  PROVE  /\ admitted' \in [Submits -> {"none", "live", "over"}] /\ missed' \in SUBSET Submits
         /\ missed \subseteq missed'
         /\ admitted'[a] = "over" \/ a \in missed'
         /\ \A b \in Submits : admitted'[b] = "live" => admitted[b] = "live"
BY DEF Told, LoginTypes

\* Coming back touches a submission only when it is its own and has come to its end.
LEMMA GoBackKeeps ==
  ASSUME LoginTypes, NEW c \in Callers, NEW held \in Submits \cup {NoSubmit}, NEW S \in Submissions,
         GoBack(c, held, S)
  PROVE  /\ submit' \in Submissions /\ back' \in Returns /\ pending' \in Submits \cup {NoSubmit}
         /\ \A d \in Callers : d # c => back'[d] = back[d]
         /\ \A b \in Submits : \/ submit'[b].at = S[b].at
                               \/ c = <<b, "submit">> /\ submit'[b].at = "done" /\ back'[c].at = "no"
<1>1. CASE held # NoSubmit
  <2>1. PICK m \in Return : m = [at |-> "retiring", of |-> held]
    BY <1>1 DEF Return
  <2>2. back' = [back EXCEPT ![c] = m]
    BY <1>1, <2>1 DEF GoBack
  <2>3. submit' = S /\ pending' = held
    BY <1>1 DEF GoBack
  <2>4. back \in [Callers -> Return]
    BY DEF LoginTypes, Returns
  <2>5. back' \in [Callers -> Return] /\ \A d \in Callers : d # c => back'[d] = back[d]
    BY <2>2, <2>4
  <2>. QED
    BY <2>3, <2>5 DEF Returns
<1>2. CASE held = NoSubmit
  <2>1. PICK m \in Return : m = [at |-> "no", of |-> NoSubmit] /\ m.at = "no"
    <3>1. [at |-> "no", of |-> NoSubmit] \in Return
      BY DEF Return
    <3>. QED
      BY <3>1
  <2>2. back' = [back EXCEPT ![c] = m] /\ m.at = "no"
    BY <1>2, <2>1 DEF GoBack
  <2>3. submit' = Shown(c, S) /\ pending' = NoSubmit
    BY <1>2 DEF GoBack
  <2>4. back \in [Callers -> Return]
    BY DEF LoginTypes, Returns
  <2>5. /\ back' \in [Callers -> Return] /\ back'[c].at = "no"
        /\ \A d \in Callers : d # c => back'[d] = back[d]
    BY <2>2, <2>4
  <2>6. /\ submit' \in Submissions
        /\ \A b \in Submits : \/ submit'[b].at = S[b].at
                              \/ c = <<b, "submit">> /\ submit'[b].at = "done"
    <3>1. CASE c[2] = "submit"
      <4>1. c[1] \in Submits /\ c = <<c[1], "submit">>
        BY <3>1 DEF Callers
      <4>2. "done" \in SubmitPlaces
        BY DEF SubmitPlaces
      <4>3. submit' = [S EXCEPT ![c[1]] = [at |-> "done", of |-> NoSubmit]]
        BY <2>3, <3>1 DEF Shown
      <4>. QED
        <5>1. /\ [S EXCEPT ![c[1]] = [at |-> "done", of |-> NoSubmit]] \in Submissions
              /\ \A b \in Submits :
                   [S EXCEPT ![c[1]] = [at |-> "done", of |-> NoSubmit]][b].at
                     = IF b = c[1] THEN "done" ELSE S[b].at
          BY <4>1, <4>2, SubmitSet
        <5>. QED
          BY <4>1, <4>3, <5>1
    <3>2. CASE c[2] # "submit"
      BY <2>3, <3>2 DEF Shown
    <3>. QED
      BY <3>1, <3>2
  <2>. QED
    BY <2>3, <2>5, <2>6 DEF Returns
<1>. QED
  BY <1>1, <1>2

LEMMA ReturnKeeps ==
  ASSUME LoginTypes, NEW c \in Callers, NEW held \in Submits \cup {NoSubmit}, NEW S \in Submissions,
         NEW V \in Views, ReturnToLogin(c, held, V, S)
  PROVE  /\ submit' \in Submissions /\ back' \in Returns /\ pending' \in Submits \cup {NoSubmit}
         /\ view' \in Views /\ mounted' \in Submits \cup {NoSubmit}
         /\ \A d \in Callers : d # c => back'[d] = back[d]
         /\ \A b \in Submits : \/ submit'[b].at = S[b].at
                               \/ c = <<b, "submit">> /\ submit'[b].at = "done" /\ back'[c].at = "no"
         /\ \A b \in Submits : V[b].at \notin {"none", "over"} => Up(b)'
<1>1. view' \in Views /\ \A b \in Submits : V[b].at \notin {"none", "over"} => Up(b)'
  <2>1. CASE Alive(mounted)
    <3>1. mounted \in Submits
      BY <2>1 DEF Alive, LoginTypes
    <3>2. view' = Disposed(V, mounted, FALSE)
      BY <2>1 DEF ReturnToLogin
    <3>. QED
      BY <3>1, <3>2, DisposedKeeps DEF Up
  <2>2. CASE ~Alive(mounted)
    BY <2>2 DEF ReturnToLogin, Up
  <2>. QED
    BY <2>1, <2>2
<1>2. mounted' = NoSubmit
  BY DEF ReturnToLogin
<1>3. CASE Alive(mounted) /\ markup = mounted
  <2>1. PICK m \in Return : m = [at |-> "closing", of |-> mounted]
    BY DEF LoginTypes, Return
  <2>2. back' = [back EXCEPT ![c] = m] /\ submit' = S /\ pending' = held
    BY <1>3, <2>1 DEF ReturnToLogin
  <2>3. back \in [Callers -> Return]
    BY DEF LoginTypes, Returns
  <2>4. back' \in [Callers -> Return] /\ \A d \in Callers : d # c => back'[d] = back[d]
    BY <2>2, <2>3
  <2>. QED
    BY <1>1, <1>2, <2>2, <2>4 DEF Returns
<1>4. CASE GoBack(c, held, S)
  BY <1>1, <1>2, <1>4, GoBackKeeps
<1>. QED
  BY <1>3, <1>4 DEF ReturnToLogin

\* What most steps do: one submission goes on, no session starts, and none is left without its holder.
LEMMA LoginQuiet ==
  ASSUME LoginInv, LoginTypes', NEW a \in Submits, NEW p \in SubmitPlaces,
         \A b \in Submits : submit'[b].at = IF b = a THEN p ELSE submit[b].at,
         back' = back, submit[a].at # "returning" \/ p = "returning",
         p \in {"idle", "asked"} => submit[a].at \in {"idle", "asked"},
         p = "unanswered" => submit[a].at = "unanswered",
         missed \subseteq missed',
         \A b \in Submits : /\ admitted'[b] = "live" => admitted[b] = "live"
                            /\ Up(b) => Up(b)' \/ (b = a /\ InHand(a)')
                                               \/ admitted'[b] # "live" \/ b \in missed',
         InHand(a) => InHand(a)' \/ Up(a)' \/ admitted'[a] # "live" \/ a \in missed'
  PROVE  LoginInv'
<1>. SUFFICES ASSUME NEW b \in Submits PROVE NotYet(b)' /\ Waits(b)' /\ Held(b)'
  BY DEF LoginInv
<1>1. NotYet(b) /\ Waits(b) /\ Held(b)
  BY DEF LoginInv
<1>2. NotYet(b)'
  BY <1>1 DEF NotYet
<1>3. Waits(b)'
  BY <1>1 DEF Waits
<1>4. Held(b)'
  <2>1. b # a => (InHand(b) => InHand(b)')
    BY DEF InHand
  <2>. QED
    BY <1>1, <2>1 DEF Held
<1>. QED
  BY <1>2, <1>3, <1>4

LEMMA SubmissionKeeps ==
  ASSUME LoginInv, NEW a \in Submits,
         \/ Submit(a) \/ EnterViewer(a) \/ StaleRetired(a) \/ Profiles(a) \/ StartEnds(a)
         \/ ViewerGone(a)
  PROVE  LoginInv'
<1>1. LoginTypes /\ submit \in Submissions
  BY DEF LoginInv, LoginTypes
<1>2. {"asked", "fetching", "stale", "done", "listed", "retiring"} \subseteq SubmitPlaces
  BY DEF SubmitPlaces
<1>3. CASE Submit(a)
  <2>1. /\ submit' \in Submissions
        /\ \A b \in Submits : submit'[b].at = IF b = a THEN "asked" ELSE submit[b].at
    BY <1>1, <1>2, <1>3, SubmissionMoves DEF Submit
  <2>2. LoginTypes' /\ back' = back /\ admitted' = admitted /\ missed' = missed /\ view' = view
    BY <1>1, <1>3, <2>1 DEF Submit, LoginTypes
  <2>3. submit[a].at = "idle"
    BY <1>3 DEF Submit
  <2>4. ~InHand(a) /\ \A b \in Submits : Up(b) => Up(b)'
    BY <2>2, <2>3 DEF InHand, Up
  <2>. QED
    BY <1>2, <2>1, <2>2, <2>3, <2>4, LoginQuiet
<1>4. CASE EnterViewer(a)
  <2>1. PICK p \in {"fetching", "stale"} : submit' = [submit EXCEPT ![a].at = p]
    BY <1>4 DEF EnterViewer, TooLateFor
  <2>2. /\ submit' \in Submissions
        /\ \A b \in Submits : submit'[b].at = IF b = a THEN p ELSE submit[b].at
    <3>1. p \in SubmitPlaces
      BY <1>2
    <3>. QED
      BY <1>1, <2>1, <3>1, SubmissionMoves
  <2>3. LoginTypes' /\ back' = back /\ admitted' = admitted /\ missed' = missed /\ view' = view
    BY <1>1, <1>4, <2>2 DEF EnterViewer, LoginTypes
  <2>4. submit[a].at = "answered"
    BY <1>4 DEF EnterViewer
  <2>5. InHand(a)' /\ \A b \in Submits : Up(b) => Up(b)'
    BY <2>2, <2>3 DEF InHand, Up
  <2>. QED
    BY <1>2, <2>2, <2>3, <2>4, <2>5, LoginQuiet
<1>5. CASE StaleRetired(a)
  <2>1. /\ submit' \in Submissions
        /\ \A b \in Submits : submit'[b].at = IF b = a THEN "done" ELSE submit[b].at
    BY <1>1, <1>2, <1>5, SubmissionMoves DEF StaleRetired
  <2>2. /\ admitted' \in [Submits -> {"none", "live", "over"}] /\ missed' \in SUBSET Submits
        /\ missed \subseteq missed'
        /\ admitted'[a] = "over" \/ a \in missed'
        /\ \A b \in Submits : admitted'[b] = "live" => admitted[b] = "live"
    BY <1>1, <1>5, ToldEnds DEF StaleRetired
  <2>3. UNCHANGED <<turn, mounted, pending, view, back>> /\ submit[a].at = "stale"
    BY <1>5 DEF StaleRetired, pageVars
  <2>4. LoginTypes'
    BY <1>1, <2>1, <2>2, <2>3 DEF LoginTypes
  <2>5. \A b \in Submits : Up(b) => Up(b)'
    BY <2>3 DEF Up
  <2>. QED
    BY <1>2, <2>1, <2>2, <2>3, <2>4, <2>5, LoginQuiet
<1>6. CASE Profiles(a)
  <2>1. /\ submit' \in Submissions
        /\ \A b \in Submits : submit'[b].at = IF b = a THEN "listed" ELSE submit[b].at
    BY <1>1, <1>2, <1>6, SubmissionMoves DEF Profiles
  <2>2. LoginTypes' /\ back' = back /\ admitted' = admitted /\ missed' = missed /\ view' = view
    BY <1>1, <1>6, <2>1 DEF Profiles, LoginTypes, pageVars
  <2>3. submit[a].at = "starting"
    BY <1>6 DEF Profiles
  <2>4. ~InHand(a) /\ \A b \in Submits : Up(b) => Up(b)'
    BY <2>2, <2>3 DEF InHand, Up
  <2>. QED
    BY <1>2, <2>1, <2>2, <2>3, <2>4, LoginQuiet
<1>7. CASE StartEnds(a)
  <2>1. /\ submit' \in Submissions
        /\ \A b \in Submits : submit'[b].at = IF b = a THEN "done" ELSE submit[b].at
    BY <1>1, <1>2, <1>7, SubmissionMoves DEF StartEnds
  <2>2. LoginTypes' /\ back' = back /\ admitted' = admitted /\ missed' = missed /\ view' = view
    BY <1>1, <1>7, <2>1 DEF StartEnds, LoginTypes
  <2>3. submit[a].at = "listed"
    BY <1>7 DEF StartEnds
  <2>4. ~InHand(a) /\ \A b \in Submits : Up(b) => Up(b)'
    BY <2>2, <2>3 DEF InHand, Up
  <2>. QED
    BY <1>2, <2>1, <2>2, <2>3, <2>4, LoginQuiet
<1>8. CASE ViewerGone(a)
  <2>1. /\ submit' \in Submissions
        /\ \A b \in Submits : submit'[b].at = IF b = a THEN "retiring" ELSE submit[b].at
    BY <1>1, <1>2, <1>8, SubmissionMoves DEF ViewerGone
  <2>2. LoginTypes' /\ back' = back /\ admitted' = admitted /\ missed' = missed /\ view' = view
    BY <1>1, <1>8, <2>1 DEF ViewerGone, LoginTypes, pageVars
  <2>3. submit[a].at = "failing"
    BY <1>8 DEF ViewerGone
  <2>4. InHand(a)' /\ \A b \in Submits : Up(b) => Up(b)'
    BY <2>1, <2>2 DEF InHand, Up
  <2>. QED
    BY <1>2, <2>1, <2>2, <2>3, <2>4, LoginQuiet
<1>. QED
  BY <1>3, <1>4, <1>5, <1>6, <1>7, <1>8

LEMMA MountKeeps ==
  ASSUME LoginInv, NEW a \in Submits, Mount(a)
  PROVE  LoginInv'
<1>. DEFINE R == [at : {"none", "alive", "closing", "broken", "over"}, shown : BOOLEAN, tell : BOOLEAN]
<1>1. LoginTypes /\ submit \in Submissions /\ view \in [Submits -> R]
  BY DEF LoginInv, LoginTypes, Views
<1>2. "starting" \in SubmitPlaces
  BY DEF SubmitPlaces
<1>3. /\ submit' \in Submissions
      /\ \A b \in Submits : submit'[b].at = IF b = a THEN "starting" ELSE submit[b].at
  BY <1>1, <1>2, SubmissionMoves DEF Mount
<1>4. PICK m \in R : m.at = "alive" /\ view' = [view EXCEPT ![a] = m]
  <2>1. view[a] \in R
    BY <1>1
  <2>2. [view[a] EXCEPT !.at = "alive"] \in R /\ [view[a] EXCEPT !.at = "alive"].at = "alive"
    BY <2>1
  <2>3. view' = [view EXCEPT ![a] = [view[a] EXCEPT !.at = "alive"]]
    BY DEF Mount
  <2>. HIDE DEF R
  <2>. QED
    BY <2>2, <2>3
<1>5. view' \in Views
  <2>. HIDE DEF R
  <2>1. view' \in [Submits -> R]
    BY <1>1, <1>4
  <2>. QED
    BY <2>1 DEF Views, R
<1>6. Up(a)' /\ \A b \in Submits : Up(b) => Up(b)'
  <2>. HIDE DEF R
  <2>. QED
    BY <1>1, <1>4 DEF Up
<1>7. /\ back' = back /\ admitted' = admitted /\ missed' = missed
      /\ pending' = pending /\ mounted' = a /\ submit[a].at = "fetching"
  BY DEF Mount
<1>8. LoginTypes'
  BY <1>1, <1>3, <1>5, <1>7 DEF LoginTypes
<1>. QED
  BY <1>2, <1>3, <1>6, <1>7, <1>8, LoginQuiet

\* The page's viewer is told to close before the session is ended.
LEMMA EnterFailsKeeps ==
  ASSUME LoginInv, NEW a \in Submits, EnterFails(a)
  PROVE  LoginInv'
<1>1. LoginTypes /\ submit \in Submissions /\ view \in Views
  BY DEF LoginInv, LoginTypes
<1>2. PICK p \in {"failing", "retiring"}, o \in Submits \cup {NoSubmit} :
        submit' = [submit EXCEPT ![a] = [at |-> p, of |-> o]]
  BY <1>1 DEF EnterFails, LoginTypes
<1>3. p \in SubmitPlaces
  BY DEF SubmitPlaces
<1>4. /\ submit' \in Submissions
      /\ \A b \in Submits : submit'[b].at = IF b = a THEN p ELSE submit[b].at
  BY <1>1, <1>2, <1>3, SubmissionSet
<1>5. view' \in Views /\ \A b \in Submits : Up(b) => Up(b)'
  <2>1. CASE Alive(mounted)
    <3>1. mounted \in Submits
      BY <1>1, <2>1 DEF Alive, LoginTypes
    <3>2. view' = Disposed(view, mounted, FALSE)
      BY <2>1 DEF EnterFails
    <3>. QED
      BY <1>1, <3>1, <3>2, DisposedKeeps DEF Up
  <2>2. CASE ~Alive(mounted)
    BY <1>1, <2>2 DEF EnterFails, Up
  <2>. QED
    BY <2>1, <2>2
<1>6. /\ back' = back /\ admitted' = admitted /\ missed' = missed /\ pending' = pending
      /\ mounted' = NoSubmit /\ submit[a].at \in {"fetching", "starting", "listed"}
  BY DEF EnterFails
<1>7. LoginTypes'
  BY <1>1, <1>4, <1>5, <1>6 DEF LoginTypes
<1>8. InHand(a)'
  BY <1>4 DEF InHand
<1>. QED
  BY <1>3, <1>4, <1>5, <1>6, <1>7, <1>8, LoginQuiet

\* A session starts: its submission has it, or has missed it.
LEMMA AdmitKeeps ==
  ASSUME LoginInv, NEW a \in Submits, Admit(a)
  PROVE  LoginInv'
<1>1. LoginTypes /\ submit \in Submissions
  BY DEF LoginInv, LoginTypes
<1>2. PICK p \in {"answered", "unanswered"} : /\ submit' = [submit EXCEPT ![a].at = p]
                                              /\ p = "unanswered" => a \in missed'
  BY DEF Admit
<1>3. p \in SubmitPlaces
  BY DEF SubmitPlaces
<1>4. /\ submit' \in Submissions
      /\ \A b \in Submits : submit'[b].at = IF b = a THEN p ELSE submit[b].at
  BY <1>1, <1>2, <1>3, SubmissionMoves
<1>5. /\ admitted' = [admitted EXCEPT ![a] = "live"] /\ missed \subseteq missed'
      /\ missed' \in SUBSET Submits /\ view' = view /\ back' = back /\ submit[a].at = "asked"
      /\ mounted' = mounted /\ pending' = pending
  BY <1>1 DEF Admit, pageVars, LoginTypes
<1>6. LoginTypes'
  BY <1>1, <1>4, <1>5 DEF LoginTypes
<1>. SUFFICES ASSUME NEW b \in Submits PROVE NotYet(b)' /\ Waits(b)' /\ Held(b)'
  BY <1>6 DEF LoginInv
<1>7. NotYet(b) /\ Waits(b) /\ Held(b)
  BY DEF LoginInv
<1>8. admitted \in [Submits -> {"none", "live", "over"}]
  BY <1>1 DEF LoginTypes
<1>9. NotYet(b)'
  BY <1>2, <1>4, <1>5, <1>7, <1>8 DEF NotYet
<1>10. Waits(b)'
  BY <1>4, <1>5, <1>7 DEF Waits
<1>11. Held(b)'
  BY <1>2, <1>4, <1>5, <1>7, <1>8 DEF Held, InHand, Up
<1>. QED
  BY <1>9, <1>10, <1>11

\* Where no submission goes on, but one that has waited for the login comes to its end.
LEMMA LoginStill ==
  ASSUME LoginInv, LoginTypes',
         \A b \in Submits : \/ submit'[b].at = submit[b].at
                            \/ /\ submit[b].at = "returning" /\ submit'[b].at = "done"
                               /\ back'[<<b, "submit">>].at = "no",
         \A b \in Submits : back'[<<b, "submit">>].at # "no" => back[<<b, "submit">>].at # "no",
         missed \subseteq missed',
         \A b \in Submits : /\ admitted'[b] = "live" => admitted[b] = "live"
                            /\ Up(b) => Up(b)' \/ admitted'[b] # "live" \/ b \in missed'
  PROVE  LoginInv'
<1>. SUFFICES ASSUME NEW b \in Submits PROVE NotYet(b)' /\ Waits(b)' /\ Held(b)'
  BY DEF LoginInv
<1>1. NotYet(b) /\ Waits(b) /\ Held(b)
  BY DEF LoginInv
<1>2. NotYet(b)'
  BY <1>1 DEF NotYet
<1>3. Waits(b)'
  BY <1>1 DEF Waits
<1>4. Held(b)'
  <2>1. InHand(b) => InHand(b)'
    BY DEF InHand
  <2>. QED
    BY <1>1, <2>1 DEF Held
<1>. QED
  BY <1>2, <1>3, <1>4

\* A submission fails once it has no session any more.
LEMMA SubmitFailsKeeps ==
  ASSUME LoginInv, NEW a \in Submits, NEW held \in Submits \cup {NoSubmit}, SubmitFails(a, held),
         submit[a].at # "returning",
         admitted' \in [Submits -> {"none", "live", "over"}], missed' \in SUBSET Submits,
         missed \subseteq missed', admitted'[a] # "live" \/ a \in missed',
         \A b \in Submits : admitted'[b] = "live" => admitted[b] = "live"
  PROVE  LoginInv'
<1>1. LoginTypes /\ submit \in Submissions /\ view \in Views
  BY DEF LoginInv, LoginTypes
<1>2. {"returning", "done"} \subseteq SubmitPlaces
  BY DEF SubmitPlaces
<1>3. CASE turn = a
  <2>. DEFINE c == <<a, "submit">>
  <2>1. PICK S \in Submissions :
          /\ \A b \in Submits : S[b].at = IF b = a THEN "returning" ELSE submit[b].at
          /\ ReturnToLogin(c, held, view, S)
    <3>1. /\ [submit EXCEPT ![a].at = "returning"] \in Submissions
          /\ \A b \in Submits :
               [submit EXCEPT ![a].at = "returning"][b].at = IF b = a THEN "returning" ELSE submit[b].at
      BY <1>1, <1>2, SubmitMoves
    <3>2. ReturnToLogin(c, held, view, [submit EXCEPT ![a].at = "returning"])
      BY <1>3 DEF SubmitFails
    <3>. QED
      BY <3>1, <3>2
  <2>2. /\ c \in Callers
        /\ \A b \in Submits : <<b, "submit">> \in Callers /\ (<<b, "submit">> = c => b = a)
    BY DEF Callers
  <2>. HIDE DEF c
  <2>3. /\ submit' \in Submissions /\ back' \in Returns /\ pending' \in Submits \cup {NoSubmit}
        /\ view' \in Views /\ mounted' \in Submits \cup {NoSubmit}
        /\ \A d \in Callers : d # c => back'[d] = back[d]
        /\ \A b \in Submits : \/ submit'[b].at = S[b].at
                              \/ c = <<b, "submit">> /\ submit'[b].at = "done" /\ back'[c].at = "no"
        /\ \A b \in Submits : view[b].at \notin {"none", "over"} => Up(b)'
    BY <1>1, <2>1, <2>2, ReturnKeeps
  <2>4. LoginTypes'
    BY <2>3 DEF LoginTypes
  <2>. SUFFICES ASSUME NEW b \in Submits PROVE NotYet(b)' /\ Waits(b)' /\ Held(b)'
    BY <2>4 DEF LoginInv
  <2>5. NotYet(b) /\ Waits(b) /\ Held(b)
    BY DEF LoginInv
  <2>6. CASE b = a
    <3>1. submit'[a].at \in {"returning", "done"}
      BY <2>1, <2>3
    <3>2. back'[<<a, "submit">>].at # "no" => submit'[a].at = "returning"
      BY <2>1, <2>2, <2>3
    <3>. QED
      BY <2>6, <3>1, <3>2 DEF NotYet, Waits, Held
  <2>7. CASE b # a
    <3>1. submit'[b].at = submit[b].at /\ back'[<<b, "submit">>] = back[<<b, "submit">>]
      BY <2>1, <2>2, <2>3, <2>7
    <3>2. Up(b) => Up(b)'
      BY <2>3 DEF Up
    <3>. QED
      BY <2>5, <3>1, <3>2 DEF NotYet, Waits, Held, InHand
  <2>. QED
    BY <2>6, <2>7
<1>4. CASE turn # a
  <2>1. submit' = [submit EXCEPT ![a] = [at |-> "done", of |-> NoSubmit]]
    BY <1>4 DEF SubmitFails
  <2>2. /\ submit' \in Submissions
        /\ \A b \in Submits : submit'[b].at = IF b = a THEN "done" ELSE submit[b].at
    BY <1>1, <1>2, <2>1, SubmissionSet
  <2>3. pending' = held /\ mounted' = mounted /\ view' = view /\ back' = back
    BY <1>4 DEF SubmitFails
  <2>4. LoginTypes' /\ \A b \in Submits : Up(b) => Up(b)'
    BY <1>1, <2>2, <2>3 DEF LoginTypes, Up
  <2>. QED
    BY <1>2, <2>2, <2>3, <2>4, LoginQuiet
<1>. QED
  BY <1>3, <1>4

LEMMA FailuresKeep ==
  ASSUME LoginInv, NEW a \in Submits, Refused(a) \/ Retired(a)
  PROVE  LoginInv'
<1>1. LoginTypes /\ NotYet(a)
  BY DEF LoginInv
<1>2. CASE Refused(a)
  <2>1. /\ SubmitFails(a, pending) /\ submit[a].at \in {"asked", "unanswered"}
        /\ admitted' = admitted /\ missed' = missed
    BY <1>2 DEF Refused
  <2>2. pending \in Submits \cup {NoSubmit} /\ (admitted[a] # "live" \/ a \in missed)
    BY <1>1, <2>1 DEF LoginTypes, NotYet
  <2>. QED
    BY <1>1, <2>1, <2>2, SubmitFailsKeeps DEF LoginTypes
<1>3. CASE Retired(a)
  <2>1. SubmitFails(a, NoSubmit) /\ submit[a].at = "retiring" /\ Told(a)
    BY <1>3 DEF Retired
  <2>2. /\ admitted' \in [Submits -> {"none", "live", "over"}] /\ missed' \in SUBSET Submits
        /\ missed \subseteq missed' /\ (admitted'[a] = "over" \/ a \in missed')
        /\ \A b \in Submits : admitted'[b] = "live" => admitted[b] = "live"
    BY <1>1, <2>1, ToldEnds
  <2>. QED
    BY <2>1, <2>2, SubmitFailsKeeps
<1>. QED
  BY <1>2, <1>3

LEMMA BackGoesOnKeeps ==
  ASSUME LoginInv, NEW c \in Callers, BackGoesOn(c)
  PROVE  LoginInv'
<1>1. LoginTypes /\ submit \in Submissions
  BY DEF LoginInv, LoginTypes
<1>2. PICK held \in Submits \cup {NoSubmit} : GoBack(c, held, submit)
  BY <1>1 DEF BackGoesOn, LoginTypes
<1>3. back[c].at # "no" /\ mounted' = mounted /\ view' = view
  BY DEF BackGoesOn
<1>4. /\ admitted' \in [Submits -> {"none", "live", "over"}] /\ missed' \in SUBSET Submits
      /\ missed \subseteq missed'
      /\ \A b \in Submits : admitted'[b] = "live" => admitted[b] = "live"
  <2>1. CASE UNCHANGED <<admitted, missed>>
    BY <1>1, <2>1 DEF LoginTypes
  <2>2. CASE back[c].at = "retiring" /\ Told(back[c].of)
    <3>1. back[c].of \in Submits
      BY <1>1, <2>2 DEF LoginTypes, Returns, Return
    <3>. QED
      BY <1>1, <2>2, <3>1, ToldEnds
  <2>. QED
    BY <2>1, <2>2 DEF BackGoesOn
<1>5. /\ submit' \in Submissions /\ back' \in Returns /\ pending' \in Submits \cup {NoSubmit}
      /\ \A d \in Callers : d # c => back'[d] = back[d]
      /\ \A b \in Submits : \/ submit'[b].at = submit[b].at
                            \/ c = <<b, "submit">> /\ submit'[b].at = "done" /\ back'[c].at = "no"
  BY <1>1, <1>2, GoBackKeeps
<1>6. LoginTypes' /\ \A b \in Submits : Up(b) => Up(b)'
  BY <1>1, <1>3, <1>4, <1>5 DEF LoginTypes, Up
<1>7. \A b \in Submits : Waits(b) /\ <<b, "submit">> \in Callers
  BY DEF LoginInv, Callers
<1>8. \A b \in Submits : \/ submit'[b].at = submit[b].at
                         \/ /\ submit[b].at = "returning" /\ submit'[b].at = "done"
                            /\ back'[<<b, "submit">>].at = "no"
  BY <1>3, <1>5, <1>7 DEF Waits
<1>9. \A b \in Submits : back'[<<b, "submit">>].at # "no" => back[<<b, "submit">>].at # "no"
  BY <1>3, <1>5, <1>7
<1>. QED
  BY <1>4, <1>6, <1>8, <1>9, LoginStill

\* A viewer ends with the session it has told the server of.
LEMMA ViewerClosedKeeps ==
  ASSUME LoginInv, NEW a \in Submits, ViewerClosed(a)
  PROVE  LoginInv'
<1>. DEFINE R == [at : {"none", "alive", "closing", "broken", "over"}, shown : BOOLEAN, tell : BOOLEAN]
<1>1. LoginTypes /\ submit \in Submissions /\ view \in Views /\ pending \in Submits \cup {NoSubmit}
  BY DEF LoginInv, LoginTypes
<1>2. PICK V \in Views :
        /\ V = [view EXCEPT ![a].at = "over"]
        /\ \A b \in Submits : b # a => V[b] = view[b]
  <2>1. view[a] \in R /\ view \in [Submits -> R]
    BY <1>1 DEF Views
  <2>2. [view[a] EXCEPT !.at = "over"] \in R
    BY <2>1
  <2>3. PICK m \in R : m = [view[a] EXCEPT !.at = "over"]
    BY <2>2
  <2>4. [view EXCEPT ![a].at = "over"] = [view EXCEPT ![a] = m]
    BY <2>1, <2>3
  <2>. HIDE DEF R
  <2>5. /\ [view EXCEPT ![a] = m] \in [Submits -> R]
        /\ \A b \in Submits : b # a => [view EXCEPT ![a] = m][b] = view[b]
    BY <2>1
  <2>. QED
    BY <2>4, <2>5 DEF Views, R
<1>3. Told(a)
  BY DEF ViewerClosed
<1>4. /\ admitted' \in [Submits -> {"none", "live", "over"}] /\ missed' \in SUBSET Submits
      /\ missed \subseteq missed' /\ (admitted'[a] = "over" \/ a \in missed')
      /\ \A b \in Submits : admitted'[b] = "live" => admitted[b] = "live"
  BY <1>1, <1>3, ToldEnds
<1>5. /\ submit' \in Submissions /\ back' \in Returns /\ pending' \in Submits \cup {NoSubmit}
      /\ view' \in Views /\ mounted' \in Submits \cup {NoSubmit}
      /\ \A b \in Submits : /\ submit'[b].at = submit[b].at
                            /\ back'[<<b, "submit">>] = back[<<b, "submit">>]
                            /\ V[b].at \notin {"none", "over"} => Up(b)'
  <2>1. CASE view[a].tell
    <3>. DEFINE c == <<a, "viewer">>
    <3>1. c \in Callers /\ \A b \in Submits : <<b, "submit">> \in Callers /\ <<b, "submit">> # c
      BY DEF Callers
    <3>2. ReturnToLogin(c, pending, V, submit)
      BY <1>2, <2>1 DEF ViewerClosed
    <3>. HIDE DEF c
    <3>3. /\ submit' \in Submissions /\ back' \in Returns /\ pending' \in Submits \cup {NoSubmit}
          /\ view' \in Views /\ mounted' \in Submits \cup {NoSubmit}
          /\ \A d \in Callers : d # c => back'[d] = back[d]
          /\ \A b \in Submits : \/ submit'[b].at = submit[b].at
                                \/ c = <<b, "submit">> /\ submit'[b].at = "done" /\ back'[c].at = "no"
          /\ \A b \in Submits : V[b].at \notin {"none", "over"} => Up(b)'
      BY <1>1, <3>1, <3>2, ReturnKeeps
    <3>. QED
      BY <3>1, <3>3
  <2>2. CASE ~view[a].tell
    <3>1. view' = V /\ UNCHANGED <<submit, pageVars, back>>
      BY <1>2, <2>2 DEF ViewerClosed
    <3>. QED
      BY <1>1, <3>1 DEF pageVars, LoginTypes, Up
  <2>. QED
    BY <2>1, <2>2
<1>6. LoginTypes'
  BY <1>4, <1>5 DEF LoginTypes
<1>7. \A b \in Submits : Up(b) => Up(b)' \/ admitted'[b] # "live" \/ b \in missed'
  BY <1>2, <1>4, <1>5 DEF Up
<1>. QED
  BY <1>4, <1>5, <1>6, <1>7, LoginStill

LEMMA PanelKeeps ==
  ASSUME LoginInv, NEW a \in Submits, ViewerStops(a) \/ ShowPanel(a) \/ SessionOver(a)
  PROVE  LoginInv'
<1>. DEFINE R == [at : {"none", "alive", "closing", "broken", "over"}, shown : BOOLEAN, tell : BOOLEAN]
<1>1. LoginTypes /\ submit \in Submissions /\ view \in Views
      /\ admitted \in [Submits -> {"none", "live", "over"}]
  BY DEF LoginInv, LoginTypes
<1>2. view' \in Views /\ \A b \in Submits : Up(b) => Up(b)'
  <2>1. CASE ViewerStops(a)
    <3>1. view' = Disposed(view, a, TRUE)
      BY <2>1 DEF ViewerStops
    <3>. QED
      BY <1>1, <3>1, DisposedKeeps, ZenonT(30) DEF Up
  <2>2. CASE ShowPanel(a)
    <3>1. view[a] \in R /\ view \in [Submits -> R]
      BY <1>1 DEF Views
    <3>2. [view[a] EXCEPT !.shown = TRUE] \in R /\ [view[a] EXCEPT !.shown = TRUE].at = view[a].at
      BY <3>1
    <3>3. PICK m \in R : m = [view[a] EXCEPT !.shown = TRUE] /\ m.at = view[a].at
      BY <3>2
    <3>4. view' = [view EXCEPT ![a] = m]
      BY <2>2, <3>1, <3>3 DEF ShowPanel
    <3>. HIDE DEF R
    <3>5. view' \in [Submits -> R] /\ \A b \in Submits : view'[b].at = view[b].at
      BY <3>1, <3>3, <3>4
    <3>. QED
      BY <3>5 DEF Views, R, Up
  <2>3. CASE SessionOver(a)
    BY <1>1, <2>3 DEF SessionOver, Up
  <2>. QED
    BY <2>1, <2>2, <2>3
<1>3. /\ UNCHANGED <<submit, mounted, pending, back, missed>>
      /\ admitted' \in [Submits -> {"none", "live", "over"}]
      /\ \A b \in Submits : admitted'[b] = "live" => admitted[b] = "live"
  BY <1>1 DEF ViewerStops, ShowPanel, SessionOver, pageVars
<1>4. LoginTypes'
  BY <1>1, <1>2, <1>3 DEF LoginTypes
<1>. QED
  BY <1>2, <1>3, <1>4, LoginStill

LEMMA LoginStep == LoginInv /\ [LoginNext]_loginVars => LoginInv'
<1>. SUFFICES ASSUME LoginInv, [LoginNext]_loginVars PROVE LoginInv'
  OBVIOUS
<1>1. ASSUME NEW a \in Submits,
             \/ Submit(a) \/ Admit(a) \/ Refused(a) \/ EnterViewer(a) \/ StaleRetired(a)
             \/ Mount(a) \/ Profiles(a) \/ ShowPanel(a) \/ StartEnds(a)
             \/ EnterFails(a) \/ ViewerGone(a) \/ Retired(a)
             \/ ViewerStops(a) \/ ViewerClosed(a) \/ SessionOver(a)
      PROVE  LoginInv'
  BY <1>1, SubmissionKeeps, AdmitKeeps, FailuresKeep, MountKeeps, PanelKeeps, EnterFailsKeeps,
     ViewerClosedKeeps
<1>2. ASSUME NEW c \in Callers, BackGoesOn(c) PROVE LoginInv'
  BY <1>2, BackGoesOnKeeps
<1>3. CASE UNCHANGED loginVars
  BY <1>3 DEF LoginInv, LoginTypes, NotYet, Waits, Held, InHand, Up, loginVars, pageVars
<1>. QED
  BY <1>1, <1>2, <1>3 DEF LoginNext

\* The page drops no session, however many submissions, failures, late answers and returns meet
\* (enterViewer, returnToLogin, the viewer's disconnect): the ones it may lose are those a call lost.
THEOREM SessionsStayHeld == LoginSpec => []SessionsAreHeld
<1>1. LoginInv => SessionsAreHeld
  BY DEF LoginInv, Held, InHand, Up, SessionsAreHeld
<1>. QED
  BY <1>1, LoginStarts, LoginStep, PTL DEF LoginSpec

-----------------------------------------------------------------------------
(* What a latency measurement reads and reports. *)

\* A positive factor cancels.
LEMMA Cancel ==
  ASSUME NEW a \in Int, NEW b \in Int, NEW d \in Nat, d > 0, a * d < b * d
  PROVE  a < b
<1>1. ASSUME b <= a PROVE FALSE
  <2>1. b * d <= a * d
    BY <1>1
  <2>. QED BY <2>1
<1>. QED BY <1>1

\* A quotient, by what it is.
LEMMA Quotient ==
  ASSUME NEW n \in Nat, NEW d \in Nat, d > 0
  PROVE  /\ n \div d \in Nat
         /\ (n \div d) * d <= n /\ n < (n \div d) * d + d
  OBVIOUS


LEMMA Least ==
  ASSUME NEW T \in SUBSET Nat, T # {}
  PROVE  \E x \in T : \A y \in T : x <= y
<1>1. PICK R : R = OpToRel(<, Nat)
  OBVIOUS
<1>2. IsWellFoundedOn(R, Nat)
  BY <1>1, NatLessThanWellFounded
<1>3. PICK x \in T : \A y \in T : ~(<<y, x>> \in R)
  BY <1>2, WFMin
<1>4. ASSUME NEW y \in T PROVE x <= y
  <2>1. <<y, x>> \in R <=> y < x
    BY <1>1 DEF OpToRel
  <2>. QED BY <1>3, <2>1
<1>. QED BY <1>4

\* Induction, of a set.
LEMMA Inductive ==
  ASSUME NEW n \in Nat, NEW T, 0 \in T, \A k \in 0..(n - 1) : k \in T => k + 1 \in T
  PROVE  0..n \subseteq T
<1>. SUFFICES ASSUME NEW m \in 0..n, m \notin T PROVE FALSE
  OBVIOUS
<1>0. (0..n) \ T \in SUBSET Nat /\ m \in (0..n) \ T
  OBVIOUS
<1>1. PICK x \in (0..n) \ T : \A y \in (0..n) \ T : x <= y
  BY <1>0, Least
<1>2. x # 0 /\ x - 1 \in 0..n /\ x - 1 \in 0..(n - 1)
  BY <1>1
<1>3. x - 1 \in T
  BY <1>1, <1>2
<1>4. (x - 1) + 1 \in T
  BY <1>2, <1>3
<1>. QED BY <1>1, <1>4

\* Numbers doubled n times, with b[k] added at the k-th.
Doubles(f, n, first, b) ==
  /\ f \in [0..n -> Nat] /\ f[0] = first
  /\ \A k \in 1..n : f[k] = 2 * f[k - 1] + b[k]

LEMMA DoublesExist ==
  ASSUME NEW n \in Nat, NEW first \in Nat, NEW b, \A k \in 1..n : b[k] \in Nat
  PROVE  \E f : Doubles(f, n, first, b)
<1>. DEFINE T == {k \in 0..n : \E f : Doubles(f, k, first, b)}
<1>1. 0 \in T
  <2>1. Doubles([k \in 0..0 |-> first], 0, first, b)
    BY DEF Doubles
  <2>. QED BY <2>1
<1>2. ASSUME NEW k \in 0..(n - 1), k \in T PROVE k + 1 \in T
  <2>1. PICK f : Doubles(f, k, first, b)
    BY <1>2
  <2>2. b[k + 1] \in Nat /\ k \in Nat
    BY <1>2
  <2>3. PICK g : g = [i \in 0..(k + 1) |-> IF i = k + 1 THEN 2 * f[k] + b[k + 1] ELSE f[i]]
    OBVIOUS
  <2>4. f \in [0..k -> Nat] /\ f[k] \in Nat /\ f[0] = first
    BY <2>1, <2>2 DEF Doubles
  <2>5. g \in [0..(k + 1) -> Nat]
    BY <2>2, <2>3, <2>4
  <2>6. g[0] = first /\ g[k + 1] = 2 * f[k] + b[k + 1] /\ \A i \in 0..k : g[i] = f[i]
    BY <2>2, <2>3, <2>4
  <2>7. ASSUME NEW i \in 1..(k + 1) PROVE g[i] = 2 * g[i - 1] + b[i]
    <3>1. CASE i = k + 1
      BY <2>2, <2>6, <3>1
    <3>2. CASE i \in 1..k
      BY <2>1, <2>2, <2>6, <3>2 DEF Doubles
    <3>. QED BY <2>2, <3>1, <3>2
  <2>8. Doubles(g, k + 1, first, b)
    BY <2>5, <2>6, <2>7 DEF Doubles
  <2>. QED BY <2>8
<1>. HIDE DEF T
<1>3. n \in T
  BY <1>1, <1>2, Inductive
<1>. USE DEF T
<1>. QED BY <1>3

\* What a function that is defined by doubling is.
Doubling(f, n, first, b) == f = [k \in 0..n |-> IF k = 0 THEN first ELSE 2 * f[k - 1] + b[k]]

LEMMA Recursion ==
  ASSUME NEW n \in Nat, NEW first \in Nat, NEW b, \A k \in 1..n : b[k] \in Nat,
         NEW g, g = CHOOSE f : Doubling(f, n, first, b)
  PROVE  Doubles(g, n, first, b)
<1>1. PICK f : Doubles(f, n, first, b)
  BY DoublesExist
<1>2. Doubling(f, n, first, b)
  <2>1. f \in [0..n -> Nat] /\ f[0] = first /\ \A k \in 1..n : f[k] = 2 * f[k - 1] + b[k]
    BY <1>1 DEF Doubles
  <2>2. \A k \in 0..n : f[k] = IF k = 0 THEN first ELSE 2 * f[k - 1] + b[k]
    BY <2>1
  <2>. QED BY <2>1, <2>2 DEF Doubling
<1>3. Doubling(g, n, first, b)
  BY <1>2
<1>4. DOMAIN g = 0..n /\ \A k \in 0..n : g[k] = IF k = 0 THEN first ELSE 2 * g[k - 1] + b[k]
  BY <1>3 DEF Doubling
<1>5. g[0] = first /\ \A k \in 1..n : g[k] = 2 * g[k - 1] + b[k]
  BY <1>4
<1>. DEFINE T == {k \in 0..n : g[k] \in Nat}
<1>6. 0 \in T
  BY <1>5
<1>7. ASSUME NEW k \in 0..(n - 1), k \in T PROVE k + 1 \in T
  <2>1. k + 1 \in 1..n /\ (k + 1) - 1 = k /\ g[k] \in Nat
    BY <1>7
  <2>2. g[k + 1] = 2 * g[k] + b[k + 1] /\ b[k + 1] \in Nat
    BY <1>5, <2>1
  <2>. QED BY <2>1, <2>2
<1>8. 0..n \subseteq T
  <2>. HIDE DEF T
  <2>. QED BY <1>6, <1>7, Inductive
<1>9. g = [k \in 0..n |-> g[k]]
  BY <1>3 DEF Doubling
<1>10. g \in [0..n -> Nat]
  BY <1>8, <1>9
<1>. QED BY <1>5, <1>10 DEF Doubles

-----------------------------------------------------------------------------

LEMMA BitsNat == Bits \in Nat \ {0} /\ Width \in 1..Bits
<1>1. Parts \in Nat \ {0} /\ Width \in Nat \ {0}
  BY CodeAssumption
<1>2. 1 * Width <= Parts * Width
  BY <1>1
<1>. QED BY <1>1, <1>2 DEF Bits

\* Each power is twice the one before.
LEMMA Powers ==
  /\ \A k \in 0..Bits : Power[k] \in Nat \ {0}
  /\ Power[0] = 1 /\ \A k \in 0..(Bits - 1) : Power[k + 1] = 2 * Power[k]
<1>1. PICK none : none = [k \in 1..Bits |-> 0]
  OBVIOUS
<1>2. none \in [1..Bits -> {0}] /\ \A k \in 1..Bits : none[k] \in Nat
  BY <1>1
<1>3. PICK f : Doubles(f, Bits, 1, none)
  BY <1>2, BitsNat, DoublesExist
<1>4. f = [k \in 0..Bits |-> IF k = 0 THEN 1 ELSE 2 * f[k - 1]]
  <2>1. f \in [0..Bits -> Nat] /\ f[0] = 1 /\ \A k \in 1..Bits : f[k] = 2 * f[k - 1] + none[k]
    BY <1>3 DEF Doubles
  <2>2. ASSUME NEW k \in 1..Bits PROVE f[k] = 2 * f[k - 1]
    <3>1. k - 1 \in 0..Bits
      BY BitsNat
    <3>2. f[k - 1] \in Nat /\ none[k] = 0
      BY <1>2, <2>1, <3>1
    <3>. QED BY <2>1, <3>2
  <2>3. \A k \in 0..Bits : f[k] = IF k = 0 THEN 1 ELSE 2 * f[k - 1]
    BY <2>1, <2>2, BitsNat
  <2>. QED BY <2>1, <2>3
<1>5. Power = [k \in 0..Bits |-> IF k = 0 THEN 1 ELSE 2 * Power[k - 1]]
  BY <1>4, Zenon DEF Power
<1>6. \A k \in 0..Bits : Power[k] = IF k = 0 THEN 1 ELSE 2 * Power[k - 1]
  BY <1>5
<1>7. Power[0] = 1 /\ \A k \in 0..(Bits - 1) : Power[k + 1] = 2 * Power[k]
  <2>1. ASSUME NEW k \in 0..(Bits - 1) PROVE k + 1 \in 0..Bits /\ k + 1 # 0 /\ (k + 1) - 1 = k
    BY BitsNat
  <2>2. 0 \in 0..Bits
    BY BitsNat
  <2>. QED BY <1>6, <2>1, <2>2
<1>. DEFINE T == {k \in 0..Bits : Power[k] \in Nat \ {0}}
<1>8. 0 \in T
  BY <1>7, BitsNat
<1>9. ASSUME NEW k \in 0..(Bits - 1), k \in T PROVE k + 1 \in T
  <2>1. Power[k] \in Nat \ {0} /\ Power[k + 1] = 2 * Power[k]
    BY <1>7, <1>9
  <2>2. k + 1 \in 0..Bits
    BY BitsNat
  <2>. QED BY <2>1, <2>2
<1>10. 0..Bits \subseteq T
  <2>. HIDE DEF T
  <2>. QED BY <1>8, <1>9, BitsNat, Inductive
<1>. QED BY <1>7, <1>10

\* A code's number, and the numbers its first bits are.
LEMMA Numbers ==
  ASSUME NEW b, \A k \in 1..Bits : b[k] \in {0, 1}
  PROVE  \E f : Doubles(f, Bits, 0, b) /\ Number(b) = f[Bits]
<1>1. PICK f : f = CHOOSE g : Doubling(g, Bits, 0, b)
  OBVIOUS
<1>2. Number(b) = f[Bits]
  BY <1>1, Zenon DEF Number, Doubling
<1>3. \A k \in 1..Bits : b[k] \in Nat
  OBVIOUS
<1>4. Doubles(f, Bits, 0, b)
  BY <1>1, <1>3, BitsNat, Recursion
<1>. QED BY <1>2, <1>4

\* A quotient is known by its bounds; and halves of quotients.
LEMMA QuotientIs ==
  ASSUME NEW n \in Nat, NEW d \in Nat, d > 0, NEW q \in Int, q * d <= n, n < q * d + d
  PROVE  n \div d = q
<1>1. PICK k : k = n \div d
  OBVIOUS
<1>2. k \in Nat /\ k * d <= n /\ n < k * d + d
  BY <1>1, Quotient
<1>3. q * d + d = (q + 1) * d /\ k * d + d = (k + 1) * d
  BY <1>2
<1>4. q < k + 1
  <2>1. q * d < (k + 1) * d
    BY <1>2, <1>3
  <2>. QED BY <1>2, <2>1, Cancel
<1>5. k < q + 1
  <2>1. k * d < (q + 1) * d
    BY <1>2, <1>3
  <2>. QED BY <1>2, <2>1, Cancel
<1>. QED BY <1>1, <1>2, <1>4, <1>5

LEMMA HalfQuotient ==
  ASSUME NEW n \in Nat, NEW d \in Nat, d > 0
  PROVE  n \div (2 * d) = (n \div d) \div 2
<1>1. PICK q : q = n \div d
  OBVIOUS
<1>2. q \in Nat /\ q * d <= n /\ n < q * d + d
  BY <1>1, Quotient
<1>3. PICK h : h = q \div 2
  OBVIOUS
<1>4. h \in Nat /\ (q = 2 * h \/ q = 2 * h + 1)
  BY <1>2, <1>3
<1>5. PICK c : c = 2 * d
  OBVIOUS
<1>6. c \in Nat /\ c > 0 /\ h * c = (2 * h) * d
  BY <1>4, <1>5
<1>7. h * c <= n /\ n < h * c + c
  <2>1. CASE q = 2 * h
    BY <1>2, <1>4, <1>5, <1>6, <2>1
  <2>2. CASE q = 2 * h + 1
    <3>1. q * d = h * c + d
      BY <1>4, <1>6, <2>2
    <3>. QED BY <1>2, <1>4, <1>5, <1>6, <3>1
  <2>. QED BY <1>4, <2>1, <2>2
<1>8. n \div c = h
  BY <1>4, <1>6, <1>7, QuotientIs
<1>. QED BY <1>1, <1>3, <1>5, <1>8

LEMMA BitIs ==
  ASSUME NEW v \in Nat, NEW i \in 0..Bits
  PROVE  v \div Power[i] \in Nat /\ Bit(v, i) \in {0, 1}
<1>1. PICK p : p = Power[i]
  OBVIOUS
<1>2. p \in Nat /\ p > 0
  BY <1>1, Powers
<1>3. v \div p \in Nat
  BY <1>2, Quotient
<1>. QED BY <1>1, <1>3 DEF Bit

\* The number of a number's own bits is the number.
LEMMA ReadsBack ==
  ASSUME NEW v \in 0..(Wrap - 1), NEW b, \A i \in 1..Bits : b[i] = Bit(v, Bits - i)
  PROVE  Number(b) = v
<1>0. v \in Nat /\ v < Power[Bits] /\ Bits \in Nat \ {0}
  BY BitsNat, Powers DEF Wrap
<1>1. \A i \in 1..Bits : b[i] \in {0, 1}
  <2> SUFFICES ASSUME NEW i \in 1..Bits PROVE b[i] \in {0, 1}
    OBVIOUS
  <2>1. Bits - i \in 0..Bits
    BY <1>0
  <2>. QED BY <1>0, <2>1, BitIs
<1>2. PICK f : Doubles(f, Bits, 0, b) /\ Number(b) = f[Bits]
  BY <1>1, Numbers
<1>. DEFINE T == {k \in 0..Bits : f[k] = v \div Power[Bits - k]}
<1>3. 0 \in T
  <2>1. PICK p : p = Power[Bits]
    OBVIOUS
  <2>2. p \in Nat /\ p > 0 /\ v < p
    BY <1>0, <2>1, Powers
  <2>3. v \div p = 0
    BY <1>0, <2>2, QuotientIs
  <2>4. f[0] = 0 /\ Bits - 0 = Bits
    BY <1>0, <1>2 DEF Doubles
  <2>. QED BY <1>0, <2>1, <2>3, <2>4
<1>4. ASSUME NEW k \in 0..(Bits - 1), k \in T PROVE k + 1 \in T
  <2>1. PICK m : m = Bits - (k + 1)
    OBVIOUS
  <2>2. m \in 0..(Bits - 1) /\ m + 1 = Bits - k /\ k + 1 \in 1..Bits /\ k + 1 \in 0..Bits /\ (k + 1) - 1 = k
    BY <1>0, <2>1
  <2>3. PICK p : p = Power[m]
    OBVIOUS
  <2>4. p \in Nat /\ p > 0 /\ Power[m + 1] = 2 * p
    BY <1>0, <2>2, <2>3, Powers
  <2>5. PICK q : q = v \div p
    OBVIOUS
  <2>6. q \in Nat
    BY <1>0, <2>4, <2>5, Quotient
  <2>7. f[k] = q \div 2
    BY <1>0, <1>4, <2>2, <2>4, <2>5, HalfQuotient
  <2>8. f[k + 1] = 2 * f[k] + b[k + 1]
    BY <1>2, <2>2 DEF Doubles
  <2>9. b[k + 1] = q % 2
    BY <2>1, <2>2, <2>3, <2>5 DEF Bit
  <2>10. f[k + 1] = q
    BY <2>6, <2>7, <2>8, <2>9
  <2>. QED BY <2>1, <2>2, <2>3, <2>5, <2>10
<1>5. Bits \in T
  <2>. HIDE DEF T
  <2>1. 0..Bits \subseteq T
    BY <1>0, <1>3, <1>4, Inductive
  <2>. QED BY <1>0, <2>1
<1>6. f[Bits] = v \div 1
  BY <1>0, <1>5, Powers
<1>. QED BY <1>0, <1>2, <1>6

\* A code's number has the code's bits.
LEMMA BitsOfNumber ==
  ASSUME NEW b, \A i \in 1..Bits : b[i] \in {0, 1}
  PROVE  Number(b) \in Nat /\ \A i \in 1..Bits : Bit(Number(b), Bits - i) = b[i]
<1>0. Bits \in Nat \ {0}
  BY BitsNat
<1>1. PICK f : Doubles(f, Bits, 0, b) /\ Number(b) = f[Bits]
  BY Numbers
<1>2. PICK v : v = f[Bits]
  OBVIOUS
<1>3. f \in [0..Bits -> Nat] /\ v \in Nat /\ \A k \in 1..Bits : f[k] = 2 * f[k - 1] + b[k]
  BY <1>0, <1>1, <1>2 DEF Doubles
<1>. DEFINE T == {k \in 0..Bits : v \div Power[k] = f[Bits - k]}
<1>4. 0 \in T
  <2>1. v \div 1 = v /\ Bits - 0 = Bits
    BY <1>0, <1>3
  <2>. QED BY <1>0, <1>2, <2>1, Powers
<1>5. ASSUME NEW k \in 0..(Bits - 1), k \in T PROVE k + 1 \in T
  <2>1. PICK m : m = Bits - (k + 1)
    OBVIOUS
  <2>2. m \in 0..Bits /\ m + 1 = Bits - k /\ m + 1 \in 1..Bits /\ (m + 1) - 1 = m /\ k + 1 \in 0..Bits
    BY <1>0, <2>1
  <2>3. PICK p : p = Power[k]
    OBVIOUS
  <2>4. p \in Nat /\ p > 0 /\ Power[k + 1] = 2 * p
    BY <1>0, <2>3, Powers
  <2>5. f[m + 1] = 2 * f[m] + b[m + 1] /\ f[m] \in Nat /\ b[m + 1] \in {0, 1}
    BY <1>3, <2>2
  <2>6. v \div p = f[m + 1]
    BY <1>5, <2>2, <2>3
  <2>7. (v \div p) \div 2 = f[m]
    BY <2>5, <2>6
  <2>8. v \div (2 * p) = f[m]
    BY <1>3, <2>4, <2>7, HalfQuotient
  <2>. QED BY <2>1, <2>2, <2>4, <2>8
<1>6. ASSUME NEW i \in 1..Bits PROVE Bit(v, Bits - i) = b[i]
  <2>1. Bits - i \in 0..Bits /\ Bits - (Bits - i) = i /\ i - 1 \in 0..Bits
    BY <1>0
  <2>2. 0..Bits \subseteq T
    <3>. HIDE DEF T
    <3>. QED BY <1>0, <1>4, <1>5, Inductive
  <2>3. v \div Power[Bits - i] = f[i]
    BY <2>1, <2>2
  <2>4. f[i] = 2 * f[i - 1] + b[i] /\ f[i - 1] \in Nat /\ b[i] \in {0, 1}
    BY <1>3, <2>1
  <2>5. f[i] % 2 = b[i]
    BY <2>4
  <2>. QED BY <2>3, <2>5 DEF Bit
<1>. QED BY <1>1, <1>2, <1>3, <1>6

\* Two numbers that differ in one bit differ in one bit of their checks.
LEMMA OneFlip ==
  ASSUME NEW v \in Nat, NEW w \in Nat, NEW m \in 0..(Bits - 1), Bit(v, m) # Bit(w, m),
         \A p \in (0..(Bits - 1)) \ {m} : Bit(v, p) = Bit(w, p)
  PROVE  \E i \in 0..(Width - 1) : Check(v, i) # Check(w, i)
<1>1. Parts \in Nat /\ Width \in Nat /\ Width > 0 /\ m \in Nat /\ m < Parts * Width
  BY CodeAssumption DEF Bits
<1>2. PICK j : j = m \div Width
  OBVIOUS
<1>3. j \in Nat /\ j * Width <= m /\ m < j * Width + Width
  BY <1>1, <1>2, Quotient
<1>4. PICK i : i = m - j * Width
  OBVIOUS
<1>5. i \in 0..(Width - 1) /\ j * Width + i = m
  BY <1>1, <1>3, <1>4
<1>6. j \in 0..(Parts - 1)
  <2>1. j * Width < Parts * Width
    BY <1>1, <1>3
  <2>2. j < Parts
    BY <1>1, <1>3, <2>1, Cancel
  <2>. QED BY <1>1, <1>3, <2>2
<1>7. ASSUME NEW k \in 0..(Parts - 1), k # j PROVE Bit(v, k * Width + i) = Bit(w, k * Width + i)
  <2>1. k \in Nat /\ (k + 1) * Width <= Parts * Width /\ 0 <= k * Width
    BY <1>1, <1>7
  <2>2. k * Width + i \in 0..(Bits - 1)
    <3>1. (k + 1) * Width = k * Width + Width
      BY <1>1, <2>1
    <3>. QED BY <1>1, <1>5, <2>1, <3>1 DEF Bits
  <2>3. k * Width # j * Width
    <3>1. CASE k < j
      <4>1. (k + 1) * Width <= j * Width
        BY <1>1, <1>3, <2>1, <3>1
      <4>2. (k + 1) * Width = k * Width + Width
        BY <1>1, <2>1
      <4>. QED BY <1>1, <1>3, <2>1, <4>1, <4>2
    <3>2. CASE j < k
      <4>1. (j + 1) * Width <= k * Width
        BY <1>1, <1>3, <2>1, <3>2
      <4>2. (j + 1) * Width = j * Width + Width
        BY <1>1, <1>3
      <4>. QED BY <1>1, <1>3, <2>1, <4>1, <4>2
    <3>. QED BY <1>3, <1>7, <2>1, <3>1, <3>2
  <2>4. k * Width + i # m
    BY <1>1, <1>3, <1>5, <2>1, <2>3
  <2>. QED BY <2>2, <2>4
<1>8. Bit(v, m) \in {0, 1} /\ Bit(w, m) \in {0, 1} /\ Bit(Mask, i) \in {0, 1}
  <2>1. m \in 0..Bits /\ i \in 0..Bits
    BY <1>5, BitsNat
  <2>. QED BY <2>1, BitIs, CodeAssumption
<1>9. ASSUME NEW x \in Nat, NEW y \in Nat, Bit(x, m) = 1, Bit(y, m) # 1,
             \A k \in (0..(Parts - 1)) \ {j} : Bit(x, k * Width + i) = Bit(y, k * Width + i)
      PROVE  Check(x, i) # Check(y, i)
  <2>1. Ones(x, i) = Ones(y, i) \cup {j} /\ j \notin Ones(y, i)
    BY <1>5, <1>6, <1>9 DEF Ones
  <2>2. IsFiniteSet(Ones(y, i))
    <3>1. IsFiniteSet(0..(Parts - 1))
      BY <1>1, FS_Interval
    <3>. QED BY <3>1, FS_Subset DEF Ones
  <2>3. PICK n : n = Cardinality(Ones(y, i))
    OBVIOUS
  <2>4. n \in Nat /\ Cardinality(Ones(x, i)) = n + 1
    BY <2>1, <2>2, <2>3, FS_AddElement, FS_CardinalityType
  <2>5. PICK c : c = Bit(Mask, i)
    OBVIOUS
  <2>6. Check(x, i) = (c + (n + 1)) % 2 /\ Check(y, i) = (c + n) % 2
    BY <2>3, <2>4, <2>5 DEF Check
  <2>. QED BY <1>8, <2>4, <2>5, <2>6
<1>10. Check(v, i) # Check(w, i)
  <2>1. CASE Bit(v, m) = 1
    <3>1. Bit(w, m) # 1
      BY <2>1
    <3>. QED BY <1>7, <1>9, <2>1, <3>1
  <2>2. CASE Bit(w, m) = 1
    <3>1. Bit(v, m) # 1
      BY <2>2
    <3>2. Check(w, i) # Check(v, i)
      BY <1>7, <1>9, <2>2, <3>1
    <3>. QED BY <3>2
  <2>. QED BY <1>8, <2>1, <2>2
<1>. QED BY <1>5, <1>10

\* One cell of a code that is read wrong makes it unreadable, or does not matter.
LEMMA DecodeIsTrue ==
  ASSUME NEW v \in 0..(Wrap - 1), NEW bits, DOMAIN bits = 1..(Bits + Width), NEW t,
         \A i \in 1..(Bits + Width) : i # t => bits[i] = Encode(v)[i]
  PROVE  Decode(bits) \in {v, Unread}
<1>. SUFFICES ASSUME \A i \in DOMAIN bits : bits[i] \in {0, 1}, Agrees(bits, Number(bits))
              PROVE  Number(bits) = v
  BY DEF Decode
<1>1. Bits \in Nat /\ Width \in Nat /\ v \in Nat
  BY BitsNat
<1>2. PICK w : w = Number(bits)
  OBVIOUS
<1>3. \A i \in 1..Bits : i \in 1..(Bits + Width) /\ bits[i] \in {0, 1}
  BY <1>1
<1>4. w \in Nat /\ \A i \in 1..Bits : Bit(w, Bits - i) = bits[i]
  BY <1>2, <1>3, BitsOfNumber
<1>5. \A i \in 1..Bits : i # t => bits[i] = Bit(v, Bits - i)
  BY <1>1, <1>3 DEF Encode
<1>6. CASE \A i \in 1..Bits : bits[i] = Bit(v, Bits - i)
  BY <1>6, ReadsBack
<1>7. CASE \E i \in 1..Bits : bits[i] # Bit(v, Bits - i)
  <2>1. t \in 1..Bits /\ bits[t] # Bit(v, Bits - t)
    BY <1>5, <1>7
  <2>2. PICK m : m = Bits - t
    OBVIOUS
  <2>3. m \in 0..(Bits - 1) /\ Bit(v, m) # Bit(w, m)
    BY <1>1, <1>4, <2>1, <2>2
  <2>4. ASSUME NEW p \in (0..(Bits - 1)) \ {m} PROVE Bit(v, p) = Bit(w, p)
    <3>1. Bits - p \in 1..Bits /\ Bits - (Bits - p) = p /\ Bits - p # t
      BY <1>1, <2>1, <2>2
    <3>. QED BY <1>4, <1>5, <3>1
  <2>5. PICK i \in 0..(Width - 1) : Check(v, i) # Check(w, i)
    BY <1>1, <1>4, <2>3, <2>4, OneFlip
  <2>6. PICK k : k = Width - i
    OBVIOUS
  <2>7. k \in 1..Width /\ Width - k = i /\ Bits + k \in 1..(Bits + Width) /\ Bits + k # t /\ ~(Bits + k <= Bits)
        /\ Bits + Width - (Bits + k) = i
    BY <1>1, <2>1, <2>6
  <2>8. bits[Bits + k] = Check(v, i)
    BY <2>7 DEF Encode
  <2>9. bits[Bits + k] = Check(w, i)
    BY <1>2, <2>7 DEF Agrees
  <2>. QED BY <2>5, <2>8, <2>9
<1>. QED BY <1>6, <1>7

LEMMA EncodesBits ==
  ASSUME NEW v \in Nat, NEW i \in 1..(Bits + Width)
  PROVE  Encode(v)[i] \in {0, 1}
<1>1. Bits \in Nat /\ Width \in 1..Bits /\ Parts \in Nat
  BY BitsNat, CodeAssumption
<1>2. CASE i <= Bits
  <2>1. Bits - i \in 0..Bits
    BY <1>1, <1>2
  <2>. QED BY <1>2, <2>1, BitIs DEF Encode
<1>3. CASE ~(i <= Bits)
  <2>1. PICK k : k = Bits + Width - i
    OBVIOUS
  <2>2. k \in 0..Bits
    BY <1>1, <1>3, <2>1
  <2>3. Bit(Mask, k) \in {0, 1}
    BY <2>2, BitIs, CodeAssumption
  <2>4. Cardinality(Ones(v, k)) \in Nat
    <3>1. IsFiniteSet(0..(Parts - 1))
      BY <1>1, FS_Interval
    <3>. QED BY <3>1, FS_Subset, FS_CardinalityType DEF Ones
  <2>5. Check(v, k) \in {0, 1}
    BY <2>3, <2>4 DEF Check
  <2>. QED BY <1>3, <2>1, <2>5 DEF Encode
<1>. QED BY <1>2, <1>3

\* If the references are read right, so is every cell that was not changed: it is as black or as white
\* as a reference that was not changed either.
LEMMA FrameIsTrue ==
  ASSUME NEW v \in 0..(Wrap - 1)
  PROVE  ReadFrame(Luma(Encode(v))) \in {v, Unread}
<1>1. Bits \in Nat /\ Width \in Nat /\ Bits > 0 /\ Width > 0 /\ v \in Nat
  BY BitsNat
<1>2. PICK code : code = Encode(v)
  OBVIOUS
<1>3. PICK luma : luma = Luma(code)
  OBVIOUS
<1>4. PICK black : black = luma[1] + luma[4]
  OBVIOUS
<1>5. PICK white : white = luma[2] + luma[3]
  OBVIOUS
<1>6. PICK read : read = [c \in Cells |-> Classify(luma[c], black, white)]
  OBVIOUS
<1>7. PICK bits : bits = [i \in 1..(Bits + Width) |-> read[i + 4]]
  OBVIOUS
<1>8. ReadFrame(luma) = IF read[1] = 0 /\ read[4] = 0 /\ read[2] = 1 /\ read[3] = 1 THEN Decode(bits) ELSE Unread
  BY <1>4, <1>5, <1>6, <1>7 DEF ReadFrame
<1>9. CASE ~(read[1] = 0 /\ read[4] = 0 /\ read[2] = 1 /\ read[3] = 1)
  BY <1>2, <1>3, <1>8, <1>9
<1>10. CASE read[1] = 0 /\ read[4] = 0 /\ read[2] = 1 /\ read[3] = 1
  <2>1. PICK b : b = Classify(seen.black, black, white)
    OBVIOUS
  <2>2. PICK w : w = Classify(seen.white, black, white)
    OBVIOUS
  <2>3. 1 \in Cells /\ 2 \in Cells /\ 3 \in Cells /\ 4 \in Cells
    BY <1>1 DEF Cells
  <2>4. \A c \in Cells \ {changed.cell} :
          luma[c] = LET bit == IF c \in References THEN (IF c \in {2, 3} THEN 1 ELSE 0) ELSE code[c - 4]
                    IN IF bit = 1 THEN seen.white ELSE seen.black
    BY <1>3 DEF Luma
  <2>5. /\ \A c \in {1, 4} : c # changed.cell => luma[c] = seen.black
        /\ \A c \in {2, 3} : c # changed.cell => luma[c] = seen.white
    BY <2>3, <2>4 DEF References
  <2>6. b = 0
    <3>1. PICK c \in {1, 4} : c # changed.cell
      OBVIOUS
    <3>2. read[c] = b
      BY <1>6, <2>1, <2>3, <2>5, <3>1
    <3>. QED BY <1>10, <3>2
  <2>7. w = 1
    <3>1. PICK c \in {2, 3} : c # changed.cell
      OBVIOUS
    <3>2. read[c] = w
      BY <1>6, <2>2, <2>3, <2>5, <3>1
    <3>. QED BY <1>10, <3>2
  <2>8. ASSUME NEW i \in 1..(Bits + Width), i # changed.cell - 4 PROVE bits[i] = code[i]
    <3>1. PICK c : c = i + 4
      OBVIOUS
    <3>2. c \in Cells /\ c \notin References /\ c - 4 = i /\ c # changed.cell
      BY <1>1, <2>8, <3>1 DEF Cells, References
    <3>3. code[i] \in {0, 1}
      BY <1>1, <1>2, EncodesBits
    <3>4. luma[c] = IF code[i] = 1 THEN seen.white ELSE seen.black
      BY <2>4, <3>2
    <3>5. read[c] = code[i]
      BY <1>6, <2>1, <2>2, <2>6, <2>7, <3>2, <3>3, <3>4
    <3>. QED BY <1>7, <3>1, <3>5
  <2>9. Decode(bits) \in {v, Unread}
    BY <1>2, <1>7, <2>8, DecodeIsTrue
  <2>. QED BY <1>2, <1>3, <1>8, <1>10, <2>9
<1>. QED BY <1>9, <1>10

LEMMA WrapEven == Wrap \in Nat /\ Wrap > 1 /\ Wrap % 2 = 0
<1>1. PICK k : k = Bits - 1
  OBVIOUS
<1>2. k \in 0..(Bits - 1) /\ k + 1 = Bits /\ k \in 0..Bits
  BY <1>1, BitsNat
<1>3. PICK p : p = Power[k]
  OBVIOUS
<1>4. p \in Nat /\ p > 0 /\ Power[Bits] = 2 * p
  BY <1>2, <1>3, Powers
<1>. QED BY <1>4 DEF Wrap

\* The full time, from its low bits and a clock that is wrong by up to half of a wrap.
LEMMA UnwrapIsTrue ==
  ASSUME NEW ms \in Nat, NEW off \in (0 - Wrap \div 2)..(Wrap \div 2 - 1)
  PROVE  Unwrap(ms % Wrap, ms + off) = ms
<1>1. PICK c : c = Wrap
  OBVIOUS
<1>2. c \in Nat /\ c > 1 /\ c % 2 = 0
  BY <1>1, WrapEven
<1>3. PICK q : q = ms \div c
  OBVIOUS
<1>4. PICK low : low = ms % c
  OBVIOUS
<1>5. q \in Nat /\ low \in Nat /\ ms = q * c + low
  BY <1>2, <1>3, <1>4
<1>6. off \in Int /\ 0 <= 2 * off + c /\ 2 * off + c < 2 * c
  BY <1>1, <1>2
<1>7. PICK n : n = 2 * ((ms + off) - low) + c
  OBVIOUS
<1>8. n = q * (2 * c) + (2 * off + c)
  BY <1>2, <1>5, <1>6, <1>7
<1>9. PICK d : d = 2 * c
  OBVIOUS
<1>10. d \in Nat /\ d > 0 /\ q * d \in Nat /\ n = q * d + (2 * off + c)
  BY <1>2, <1>5, <1>8, <1>9
<1>11. n \in Nat /\ q * d <= n /\ n < q * d + d
  <2>1. PICK e : e = 2 * off + c
    OBVIOUS
  <2>2. e \in Nat /\ e < d
    BY <1>2, <1>6, <1>9, <2>1
  <2>. QED BY <1>10, <2>1, <2>2
<1>12. n \div d = q
  BY <1>5, <1>10, <1>11, QuotientIs
<1>13. Unwrap(low, ms + off) = low + (n \div d) * c
  BY <1>1, <1>7, <1>9 DEF Unwrap
<1>. QED BY <1>1, <1>2, <1>4, <1>5, <1>12, <1>13

LEMMA PositionIsOn ==
  ASSUME NEW half \in Int
  PROVE  Position(half) \in 0..Steps
<1>1. Steps \in Nat
  BY WrapEven DEF Steps
<1>. QED BY <1>1 DEF Position

CodeTypes ==
  /\ painted \in Nat /\ skew \in Skews /\ pointer \in Int
  /\ sampled \in Seq(Timings)

LEMMA FramesAreTrue == CodeTypes => FramesReadTrue
<1> SUFFICES ASSUME CodeTypes PROVE FramesReadTrue
  OBVIOUS
<1>1. PICK low : low = painted % Wrap
  OBVIOUS
<1>2. PICK p : p = Position(pointer)
  OBVIOUS
<1>3. low \in 0..(Wrap - 1) /\ p \in 0..(Wrap - 1) /\ p \in 0..Steps
  BY <1>1, <1>2, WrapEven, PositionIsOn DEF CodeTypes, Steps
<1>4. PICK time : time = ReadFrame(Luma(EncodeTimestamp(painted)))
  OBVIOUS
<1>5. PICK place : place = ReadFrame(Luma(Encode(Position(pointer))))
  OBVIOUS
<1>6. time \in {low, Unread}
  BY <1>1, <1>3, <1>4, FrameIsTrue DEF EncodeTimestamp
<1>7. place \in {p, Unread}
  BY <1>2, <1>3, <1>5, FrameIsTrue
<1>8. Unwrap(low, painted + skew) = painted
  BY <1>1, UnwrapIsTrue, CodeAssumption DEF CodeTypes
<1>. QED BY <1>2, <1>3, <1>4, <1>5, <1>6, <1>7, <1>8 DEF FramesReadTrue

-----------------------------------------------------------------------------
(* The timings. *)

\* A set of integers that is finite has a least and a greatest element.
LEMMA Extremes ==
  ASSUME NEW V \in SUBSET Int, IsFiniteSet(V), V # {}
  PROVE  (\E x \in V : \A y \in V : x <= y) /\ (\E x \in V : \A y \in V : y <= x)
<1>. DEFINE Low(x) == {y \in V : y < x}
<1>. DEFINE High(x) == {y \in V : x < y}
<1>1. ASSUME NEW x PROVE IsFiniteSet(Low(x)) /\ Cardinality(Low(x)) \in Nat
  BY FS_Subset, FS_CardinalityType
<1>2. ASSUME NEW x PROVE IsFiniteSet(High(x)) /\ Cardinality(High(x)) \in Nat
  BY FS_Subset, FS_CardinalityType
<1>3. PICK L : L = {Cardinality(Low(x)) : x \in V}
  OBVIOUS
<1>4. PICK H : H = {Cardinality(High(x)) : x \in V}
  OBVIOUS
<1>5. L \in SUBSET Nat /\ H \in SUBSET Nat /\ L # {} /\ H # {}
  <2>. HIDE DEF Low, High
  <2>. QED BY <1>1, <1>2, <1>3, <1>4
<1>6. ASSUME NEW x \in V, \A z \in V : Cardinality(Low(x)) <= Cardinality(Low(z)), NEW y \in V
      PROVE  x <= y
  <2>. SUFFICES ASSUME y < x PROVE FALSE
    OBVIOUS
  <2>0. \A z \in V : z < y => z < x
    OBVIOUS
  <2>1. Low(y) \subseteq Low(x) /\ y \in Low(x) /\ y \notin Low(y)
    <3>1. Low(y) \subseteq Low(x)
      BY <2>0
    <3>2. y \in Low(x)
      OBVIOUS
    <3>3. y \in Int /\ ~(y < y)
      OBVIOUS
    <3>. QED BY <3>1, <3>2, <3>3
  <2>2. Low(y) # Low(x)
    BY <2>1
  <2>. HIDE DEF Low
  <2>3. Cardinality(Low(y)) < Cardinality(Low(x))
    BY <1>1, <2>1, <2>2, FS_Subset
  <2>. QED BY <1>1, <1>6, <2>3
<1>7. ASSUME NEW x \in V, \A z \in V : Cardinality(High(x)) <= Cardinality(High(z)), NEW y \in V
      PROVE  y <= x
  <2>. SUFFICES ASSUME x < y PROVE FALSE
    OBVIOUS
  <2>0. \A z \in V : y < z => x < z
    OBVIOUS
  <2>1. High(y) \subseteq High(x) /\ y \in High(x) /\ y \notin High(y)
    <3>1. High(y) \subseteq High(x)
      BY <2>0
    <3>2. y \in High(x)
      OBVIOUS
    <3>3. y \in Int /\ ~(y < y)
      OBVIOUS
    <3>. QED BY <3>1, <3>2, <3>3
  <2>2. High(y) # High(x)
    BY <2>1
  <2>. HIDE DEF High
  <2>3. Cardinality(High(y)) < Cardinality(High(x))
    BY <1>2, <2>1, <2>2, FS_Subset
  <2>. QED BY <1>2, <1>7, <2>3
<1>. HIDE DEF Low, High
<1>8. PICK a \in L : \A b \in L : a <= b
  BY <1>5, Least
<1>9. PICK x \in V : a = Cardinality(Low(x))
  BY <1>3, <1>8
<1>10. PICK c \in H : \A b \in H : c <= b
  BY <1>5, Least
<1>11. PICK y \in V : c = Cardinality(High(y))
  BY <1>4, <1>10
<1>12. \A z \in V : Cardinality(Low(x)) <= Cardinality(Low(z))
  BY <1>3, <1>8, <1>9
<1>13. \A z \in V : Cardinality(High(y)) <= Cardinality(High(z))
  BY <1>4, <1>10, <1>11
<1>. QED BY <1>6, <1>7, <1>12, <1>13

LEMMA KeptFits ==
  ASSUME sampled \in Seq(Timings), NEW minimum \in Minimums, NEW kept, kept = Kept(sampled, minimum)
  PROVE  /\ IsFiniteSet(kept) /\ Cardinality(kept) \in 0..MaxTimings
         /\ \A i \in kept : sampled[i] \in Int /\ minimum <= sampled[i] /\ sampled[i] <= MaxMs
<1>1. PICK n : n = Len(sampled)
  OBVIOUS
<1>2. n \in Nat /\ DOMAIN sampled = 1..n /\ \A i \in 1..n : sampled[i] \in Timings
  BY <1>1
<1>3. kept \subseteq 1..n /\ IsFiniteSet(1..n)
  BY <1>2, FS_Interval DEF Kept
<1>4. IsFiniteSet(kept) /\ Cardinality(kept) \in Nat
  BY <1>3, FS_Subset, FS_CardinalityType
<1>5. ASSUME NEW i \in kept PROVE sampled[i] \in Int /\ minimum <= sampled[i] /\ sampled[i] <= MaxMs
  <2>1. Fits(sampled[i], minimum) /\ sampled[i] \in Timings
    BY <1>2, <1>3 DEF Kept
  <2>2. sampled[i] # NotFinite
    BY <2>1 DEF Fits
  <2>3. sampled[i] \in Int
    BY <2>1, <2>2, CodeAssumption
  <2>. QED BY <2>1, <2>3 DEF Fits
<1>6. Cardinality(kept) <= MaxTimings
  <2>1. CASE kept = {}
    BY <2>1, FS_EmptySet, CodeAssumption
  <2>2. CASE kept # {}
    <3>1. kept \in SUBSET Int
      BY <1>3
    <3>2. PICK m \in kept : \A i \in kept : i <= m
      BY <1>4, <2>2, <3>1, Extremes
    <3>3. kept \subseteq Fitting(sampled, minimum, m)
      <4>1. ASSUME NEW i \in kept PROVE i \in Fitting(sampled, minimum, m)
        <5>1. i \in 1..m
          BY <1>3, <3>2
        <5>2. Fits(sampled[i], minimum)
          BY DEF Kept
        <5>. QED BY <5>1, <5>2 DEF Fitting
      <4>. QED BY <4>1
    <3>4. IsFiniteSet(Fitting(sampled, minimum, m))
      <4>1. m \in Int /\ IsFiniteSet(1..m)
        BY <3>1, FS_Interval
      <4>. QED BY <4>1, FS_Subset DEF Fitting
    <3>5. Cardinality(Fitting(sampled, minimum, m)) <= MaxTimings
      BY <3>2 DEF Kept
    <3>6. Cardinality(kept) <= Cardinality(Fitting(sampled, minimum, m))
      BY <3>3, <3>4, FS_Subset
    <3>7. Cardinality(Fitting(sampled, minimum, m)) \in Nat
      BY <3>4, FS_CardinalityType
    <3>. QED BY <1>4, <3>5, <3>6, <3>7, CodeAssumption
  <2>. QED BY <2>1, <2>2
<1>. QED BY <1>4, <1>5, <1>6, CodeAssumption

\* Those of a size below v, and up to it.
Below(values, kept, v) == {i \in kept : values[i] < v}
UpTo(values, kept, v) == {i \in kept : values[i] <= v}

LEMMA SidesCount ==
  ASSUME NEW values, NEW kept, IsFiniteSet(kept), NEW v
  PROVE  /\ IsFiniteSet(Below(values, kept, v)) /\ Cardinality(Below(values, kept, v)) \in Nat
         /\ IsFiniteSet(UpTo(values, kept, v)) /\ Cardinality(UpTo(values, kept, v)) \in Nat
         /\ Cardinality(kept) \in Nat
BY FS_Subset, FS_CardinalityType DEF Below, UpTo

\* There is a k-th.
LEMMA RankedIs ==
  ASSUME NEW values, NEW kept, IsFiniteSet(kept), \A i \in kept : values[i] \in Int,
         NEW k \in 1..Cardinality(kept), NEW r, r = Ranked(values, kept, k)
  PROVE  /\ r \in {values[i] : i \in kept}
         /\ Cardinality(Below(values, kept, r)) < k /\ k <= Cardinality(UpTo(values, kept, r))
<1>1. PICK V : V = {values[i] : i \in kept}
  OBVIOUS
<1>2. V \in SUBSET Int /\ IsFiniteSet(V)
  <2>1. PICK f : f = [i \in kept |-> values[i]]
    OBVIOUS
  <2>2. f \in Surjection(kept, V)
    BY <1>1, <2>1 DEF Surjection
  <2>3. IsFiniteSet(V)
    BY <2>2, FS_Surjection
  <2>4. V \in SUBSET Int
    BY <1>1
  <2>. QED BY <2>3, <2>4
<1>3. Cardinality(kept) \in Nat /\ kept # {}
  BY SidesCount, FS_EmptySet
<1>4. PICK W : W = {v \in V : k <= Cardinality(UpTo(values, kept, v))}
  OBVIOUS
<1>5. W # {}
  <2>1. V # {}
    BY <1>1, <1>3
  <2>2. PICK g \in V : \A y \in V : y <= g
    BY <1>2, <2>1, Extremes
  <2>3. UpTo(values, kept, g) = kept
    BY <1>1, <2>2 DEF UpTo
  <2>. QED BY <1>4, <2>2, <2>3
<1>6. W \in SUBSET Int /\ IsFiniteSet(W)
  BY <1>2, <1>4, FS_Subset
<1>7. PICK v \in W : \A y \in W : v <= y
  BY <1>5, <1>6, Extremes
<1>8. Cardinality(Below(values, kept, v)) < k
  <2>1. PICK U : U = {y \in V : y < v}
    OBVIOUS
  <2>2. U \in SUBSET Int /\ IsFiniteSet(U)
    BY <1>2, <2>1, FS_Subset
  <2>3. CASE U = {}
    <3>1. Below(values, kept, v) = {}
      BY <1>1, <2>1, <2>3 DEF Below
    <3>. QED BY <3>1, FS_EmptySet
  <2>4. CASE U # {}
    <3>1. PICK u \in U : \A y \in U : y <= u
      BY <2>2, <2>4, Extremes
    <3>2. u \in V /\ u < v /\ u \in Int /\ v \in Int
      BY <1>2, <1>6, <2>1, <3>1
    <3>3. u \notin W
      <4>1. ASSUME u \in W PROVE FALSE
        BY <1>7, <3>2, <4>1
      <4>. QED BY <4>1
    <3>4. ~(k <= Cardinality(UpTo(values, kept, u)))
      BY <1>4, <3>2, <3>3
    <3>5. Below(values, kept, v) = UpTo(values, kept, u)
      <4>1. ASSUME NEW i \in kept PROVE values[i] < v <=> values[i] <= u
        <5>1. values[i] \in V /\ values[i] \in Int
          BY <1>1
        <5>2. values[i] < v => values[i] <= u
          BY <2>1, <3>1, <5>1
        <5>. QED BY <3>2, <5>1, <5>2
      <4>. QED BY <4>1 DEF Below, UpTo
    <3>. QED BY <3>4, <3>5, SidesCount
  <2>. QED BY <2>3, <2>4
<1>9. v \in V /\ k <= Cardinality(UpTo(values, kept, v))
  BY <1>4, <1>7
<1>. DEFINE Q(x) == /\ Cardinality({i \in kept : values[i] < x}) < k
                    /\ k <= Cardinality({i \in kept : values[i] <= x})
<1>10. Q(v)
  BY <1>8, <1>9 DEF Below, UpTo
<1>11. r = CHOOSE x \in V : Q(x)
  BY <1>1 DEF Ranked
<1>12. r \in V /\ Q(r)
  <2>. HIDE DEF Q
  <2>. QED BY <1>9, <1>10, <1>11
<1>. QED BY <1>1, <1>12 DEF Below, UpTo

LEMMA RanksAscend ==
  ASSUME NEW values, NEW kept, IsFiniteSet(kept), \A i \in kept : values[i] \in Int,
         NEW k \in 1..Cardinality(kept), NEW l \in 1..Cardinality(kept), k <= l,
         NEW r, r = Ranked(values, kept, k), NEW s, s = Ranked(values, kept, l)
  PROVE  r <= s
<1>1. Cardinality(Below(values, kept, r)) < k /\ r \in Int
  BY RankedIs
<1>2. l <= Cardinality(UpTo(values, kept, s)) /\ s \in Int
  BY RankedIs
<1>. SUFFICES ASSUME s < r PROVE FALSE
  BY <1>1, <1>2
<1>3. UpTo(values, kept, s) \subseteq Below(values, kept, r)
  BY <1>1, <1>2 DEF UpTo, Below
<1>4. Cardinality(UpTo(values, kept, s)) <= Cardinality(Below(values, kept, r))
  BY <1>3, SidesCount, FS_Subset
<1>. QED BY <1>1, <1>2, <1>4, SidesCount

LEMMA RoundKeeps ==
  ASSUME NEW minimum \in Minimums, NEW x \in Int, minimum <= x, x <= MaxMs
  PROVE  Round(x) \in minimum..MaxMs
<1>1. PICK h \in Nat : MaxMs = 2 * h
  BY CodeAssumption
<1>2. \E m \in Int : minimum = 2 * m
  <2>1. CASE minimum = 0
    <3>1. 0 \in Int /\ minimum = 2 * 0
      BY <2>1
    <3>. QED BY <3>1
  <2>2. CASE minimum = 0 - MaxMs
    <3>1. PICK l : l = 0 - h
      OBVIOUS
    <3>2. l \in Int /\ minimum = 2 * l
      BY <1>1, <2>2, <3>1
    <3>. QED BY <3>2
  <2>. QED BY <2>1, <2>2 DEF Minimums
<1>3. PICK m \in Int : minimum = 2 * m
  BY <1>2
<1>. QED BY <1>1, <1>3, CodeAssumption DEF Round

LEMMA RoundAscends ==
  ASSUME NEW x \in Int, NEW y \in Int, x <= y
  PROVE  Round(x) <= Round(y)
BY DEF Round

\* What is summed up: its ranks are in order, and none is beyond what the server takes.
LEMMA SummaryIsTaken ==
  ASSUME sampled \in Seq(Timings), NEW minimum \in Minimums, NEW timing, timing = Within(sampled, minimum)
  PROVE  /\ Taken(timing, minimum)
         /\ timing.count > 0 => /\ timing.min <= timing.median /\ timing.median <= timing.p95
                                /\ timing.p95 <= timing.max
<1>1. PICK kept : kept = Kept(sampled, minimum)
  OBVIOUS
<1>2. PICK n : n = Cardinality(kept)
  OBVIOUS
<1>3. /\ IsFiniteSet(kept) /\ n \in 0..MaxTimings /\ n \in Nat
      /\ \A i \in kept : sampled[i] \in Int /\ minimum <= sampled[i] /\ sampled[i] <= MaxMs
  BY <1>1, <1>2, KeptFits, CodeAssumption
<1>4. CASE n = 0
  <2>1. timing = [count |-> 0]
    BY <1>1, <1>2, <1>4 DEF Within, Summarize
  <2>2. ~(timing.count > 0)
    BY <2>1
  <2>. QED BY <2>1, <2>2 DEF Taken
<1>5. CASE n # 0
  <2>1. PICK a : a = (50 * n + 99) \div 100
    OBVIOUS
  <2>2. PICK b : b = (95 * n + 99) \div 100
    OBVIOUS
  <2>3. 1 \in 1..n /\ a \in 1..n /\ b \in 1..n /\ n \in 1..n /\ 1 <= a /\ a <= b /\ b <= n
    BY <1>3, <1>5, <2>1, <2>2
  <2>4. PICK r1 : r1 = Ranked(sampled, kept, 1)
    OBVIOUS
  <2>5. PICK ra : ra = Ranked(sampled, kept, a)
    OBVIOUS
  <2>6. PICK rb : rb = Ranked(sampled, kept, b)
    OBVIOUS
  <2>7. PICK rn : rn = Ranked(sampled, kept, n)
    OBVIOUS
  <2>8. timing = [count |-> n, min |-> Round(r1), median |-> Round(ra), p95 |-> Round(rb), max |-> Round(rn)]
    BY <1>1, <1>2, <1>5, <2>1, <2>2, <2>4, <2>5, <2>6, <2>7 DEF Within, Summarize
  <2>9. ASSUME NEW k \in 1..n, NEW r, r = Ranked(sampled, kept, k)
        PROVE  r \in Int /\ Round(r) \in minimum..MaxMs
    <3>1. PICK i \in kept : r = sampled[i]
      BY <1>2, <1>3, <2>9, RankedIs
    <3>. QED BY <1>3, <3>1, RoundKeeps
  <2>10. r1 \in Int /\ ra \in Int /\ rb \in Int /\ rn \in Int
    BY <2>3, <2>4, <2>5, <2>6, <2>7, <2>9
  <2>11. /\ Round(r1) \in minimum..MaxMs /\ Round(ra) \in minimum..MaxMs
         /\ Round(rb) \in minimum..MaxMs /\ Round(rn) \in minimum..MaxMs
    BY <2>3, <2>4, <2>5, <2>6, <2>7, <2>9
  <2>12. r1 <= ra /\ ra <= rb /\ rb <= rn
    <3>1. r1 <= ra
      BY <1>2, <1>3, <2>3, <2>4, <2>5, RanksAscend
    <3>2. ra <= rb
      BY <1>2, <1>3, <2>3, <2>5, <2>6, RanksAscend
    <3>3. rb <= rn
      BY <1>2, <1>3, <2>3, <2>6, <2>7, RanksAscend
    <3>. QED BY <3>1, <3>2, <3>3
  <2>13. Round(r1) <= Round(ra) /\ Round(ra) <= Round(rb) /\ Round(rb) <= Round(rn)
    BY <2>10, <2>12, RoundAscends
  <2>14. Taken(timing, minimum)
    <3>1. timing.count \in 0..MaxTimings
      BY <1>3, <2>8
    <3>2. \A field \in {"min", "median", "p95", "max"} : timing[field] \in minimum..MaxMs
      BY <2>8, <2>11
    <3>. QED BY <3>1, <3>2 DEF Taken
  <2>. QED BY <2>8, <2>13, <2>14
<1>. QED BY <1>4, <1>5

\* The limit of the offset is a whole tenth, so rounding to tenths does not pass it.
LEMMA OffsetKeeps ==
  ASSUME NEW x \in Int, x \in OffsetsTaken
  PROVE  Round(x) \in OffsetsTaken
<1>1. PICK h : h = 10 * MaxOffset
  OBVIOUS
<1>2. h \in Nat /\ OffsetsTaken = (0 - 2 * h)..(2 * h)
  BY <1>1, CodeAssumption DEF OffsetsTaken
<1>3. PICK q : q = (x + 1) \div 2
  OBVIOUS
<1>4. q \in Int /\ 0 - h <= q /\ q <= h
  BY <1>2, <1>3
<1>5. Round(x) = q * 2
  BY <1>3 DEF Round
<1>. QED BY <1>2, <1>4, <1>5

LEMMA ClocksFit == CodeTypes => ClocksAreTaken
<1>. SUFFICES ASSUME CodeTypes, NEW trip \in Trips, NEW e \in (0 - trip)..trip, Offset(e) \in OffsetsTaken
              PROVE  ClockTaken(ClockOf(trip, e))
  BY DEF ClocksAreTaken
<1>1. PICK clock : clock = ClockOf(trip, e)
  OBVIOUS
<1>2. clock.offset = Round(Offset(e)) /\ clock.uncertainty = Round(trip)
  BY <1>1 DEF ClockOf
<1>3. Offset(e) \in Int
  BY CodeAssumption DEF OffsetsTaken
<1>4. Round(Offset(e)) \in OffsetsTaken
  BY <1>3, OffsetKeeps
<1>5. Round(trip) \in 0..MaxMs
  <2>1. 0 \in Minimums /\ trip \in Int /\ 0 <= trip /\ trip <= MaxMs
    BY CodeAssumption DEF Minimums
  <2>. QED BY <2>1, RoundKeeps
<1>. QED BY <1>1, <1>2, <1>4, <1>5 DEF ClockTaken

LEMMA ReportsFit == CodeTypes => ReportsAreTaken
<1>1. CodeTypes => TimingsAreTaken
  BY SummaryIsTaken DEF CodeTypes, TimingsAreTaken
<1>. QED BY <1>1, ClocksFit DEF ReportsAreTaken

LEMMA CodeStep ==
  ASSUME CodeTypes, [NextFrame]_codeVars
  PROVE  CodeTypes'
<1>1. CASE UNCHANGED codeVars
  BY <1>1 DEF codeVars, CodeTypes
<1>2. CASE NextFrame
  <2>1. PICK t \in Timings : sampled' = Sampled(t)
    BY <1>2 DEF NextFrame
  <2>2. sampled' \in Seq(Timings)
    <3>1. sampled \in Seq(Timings)
      BY DEF CodeTypes
    <3>2. CASE Len(sampled) <= MaxTimings
      <4>1. sampled' = Append(sampled, t)
        BY <2>1, <3>2 DEF Sampled
      <4>. QED BY <3>1, <4>1, AppendProperties
    <3>3. CASE ~(Len(sampled) <= MaxTimings)
      <4>1. sampled' = Tail(sampled) /\ sampled # <<>>
        BY <2>1, <3>1, <3>3, CodeAssumption DEF Sampled
      <4>. QED BY <3>1, <4>1, HeadTailProperties
    <3>. QED BY <3>2, <3>3
  <2>. QED BY <1>2, <2>2 DEF NextFrame, CodeTypes
<1>. QED BY <1>1, <1>2

\* For any widths, lumas and contrasts, whatever cell of a frame was changed and however far the
\* clocks are apart (up to half of the wrap), the viewer reads the time and the position that were
\* painted or nothing; and whatever it timed, and however it measured a clock that is right to a day,
\* the server takes these of its report (latency-probe.js, latency-results.mjs).
THEOREM CodesAreRight == CodeSpec => []CodesHold
<1>1. CodeInit => CodeTypes
  <2>. SUFFICES ASSUME CodeInit PROVE CodeTypes
    OBVIOUS
  <2>1. sampled \in Seq(Timings)
    BY DEF CodeInit
  <2>. QED BY <2>1, CodeAssumption DEF CodeInit, CodeTypes
<1>2. CodeTypes /\ [NextFrame]_codeVars => CodeTypes'
  BY CodeStep
<1>3. CodeTypes => CodesHold
  BY FramesAreTrue, ReportsFit DEF CodesHold
<1>. QED BY <1>1, <1>2, <1>3, PTL DEF CodeSpec

=============================================================================
