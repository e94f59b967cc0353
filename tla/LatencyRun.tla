------------------------------ MODULE LatencyRun ------------------------------
(***************************************************************************)
(* A latency measurement, from the click in Diagnostics to its outcome:    *)
(* the page that shows the probe full screen (diagnostics.js), the server  *)
(* that holds at most one measurement and settles it lazily                *)
(* (latency-probes.mjs), the viewer that runs it (viewer/app.js,           *)
(* viewer/latency-probe.js) and the calls between them.                    *)
(*                                                                         *)
(* Abstracted: what is measured, and the clock: a deadline may pass at any *)
(* time.  Assumed: Diagnostics' bearer does not expire meanwhile, and the  *)
(* browser enters full screen or refuses to before the next click.         *)
(***************************************************************************)
EXTENDS Naturals, Sequences, FiniteSets

CONSTANTS
  Watched,    \* the streams of one viewer
  NoStream, NoMeasure,
  MaxMade,    \* bound on measurements
  MaxLost,    \* bound on calls and answers that are lost
  Kept        \* finished measurements kept for a stream (HISTORY)

ASSUME LatencyAssumption ==
  /\ NoStream \notin Watched /\ NoMeasure \notin Watched
  /\ MaxMade \in Nat /\ MaxLost \in Nat /\ Kept \in Nat \ {0}

VARIABLES
  active,   \* the server's measurement
  kept,     \* the outcomes kept for each stream, newest first
  made,     \* measurements requested so far; the last one's id
  alive,    \* streams that are live
  page,     \* Diagnostics' page and the click that opens the probe
  poll,     \* Diagnostics' snapshot: asked for, answered
  cancels,  \* cancels on their way
  offered,  \* telemetry answers that carry a measurement
  tab,      \* the viewer: the stream it shows, whether it has left
  probe,    \* latencyRun
  posts,    \* reports on their way
  lost,
  measured  \* observed: the runs that came to their end

latencyVars ==
  <<active, kept, made, alive, page, poll, cancels, offered, tab, probe, posts, lost, measured>>

serverVars == <<active, kept, made>>

Measurements == 1..MaxMade
NoRun == [id |-> 0]

Quiet == [at |-> "idle", watching |-> 0, answer |-> 0, stream |-> NoStream]
Blank == [click |-> "idle", id |-> 0, answer |-> 0, shown |-> FALSE, handle |-> FALSE,
          left |-> FALSE, stream |-> NoStream]

LatencyInit ==
  /\ active = NoMeasure /\ kept = [s \in Watched |-> <<>>] /\ made = 0 /\ alive = Watched
  /\ \E s \in Watched :
       /\ page = [Blank EXCEPT !.stream = s]
       /\ tab = [shown |-> s, gone |-> FALSE]
  /\ poll = Quiet /\ cancels = {} /\ offered = {} /\ probe = NoRun /\ posts = {} /\ lost = 0
  /\ measured = {}

-----------------------------------------------------------------------------
(* The server.  Every method settles what has ended or is overdue first. *)

\* Mutant: no deadline is looked at.
WhyM(a) == IF a.stream \notin alive THEN "ended" ELSE "going"

Why(a) == IF a.stream \notin alive THEN "ended" ELSE IF a.late THEN "expired" ELSE "going"

Over == active # NoMeasure /\ Why(active) # "going"

\* #finish: the outcome goes to the front of the stream's history.
Finished(h, a, outcome) ==
  LET all == <<[id |-> a.id, outcome |-> outcome]>> \o h[a.stream]
  IN [h EXCEPT ![a.stream] = SubSeq(all, 1, IF Len(all) < Kept THEN Len(all) ELSE Kept)]

Now == IF Over THEN NoMeasure ELSE active
Past == IF Over THEN Finished(kept, active, "failed") ELSE kept

Settle == active' = Now /\ kept' = Past /\ UNCHANGED made

EndMeasure(outcome) == active' = NoMeasure /\ kept' = Finished(Past, Now, outcome) /\ UNCHANGED made

\* request, for a live stream; refused while another measurement is active.
Request(s) ==
  IF Now = NoMeasure
  THEN /\ made' = made + 1
       /\ active' = [id |-> made + 1, stream |-> s, state |-> "requested", picked |-> FALSE, late |-> FALSE]
       /\ kept' = Past
  ELSE Settle

\* A deadline passes: 15 s for a request, 120 s for a run.
TooLate ==
  /\ active # NoMeasure /\ ~active.late
  /\ active' = [active EXCEPT !.late = TRUE]
  /\ UNCHANGED <<kept, made, alive, page, poll, cancels, offered, tab, probe, posts, lost, measured>>

\* The stream or its session ends.
StreamEnds(s) ==
  /\ s \in alive
  /\ alive' = alive \ {s}
  /\ UNCHANGED <<serverVars, page, poll, cancels, offered, tab, probe, posts, lost, measured>>

\* The viewer's telemetry: the measurement of its stream rides on the answer, once.
Telemetry(s) ==
  /\ s \in alive /\ ~tab.gone
  /\ IF Now # NoMeasure /\ Now.stream = s /\ Now.state = "requested" /\ ~Now.picked
     THEN /\ active' = [Now EXCEPT !.picked = TRUE] /\ kept' = Past /\ UNCHANGED made
          /\ offered' = offered \cup {[id |-> Now.id, stream |-> s]}
     ELSE Settle /\ UNCHANGED offered
  /\ UNCHANGED <<alive, page, poll, cancels, tab, probe, posts, lost, measured>>

\* Mutant: the report of any run of the stream's viewer is taken.
MatchesM(post) == Now # NoMeasure /\ Now.stream = post.stream

Matches(post) == Now # NoMeasure /\ Now.id = post.id /\ Now.stream = post.stream

\* report: started, failed or done; anything else of the active measurement fails it.
Report(post) ==
  IF ~Matches(post) THEN Settle
  ELSE IF post.state = "running" /\ Now.state = "requested"
       THEN /\ active' = [Now EXCEPT !.state = "running", !.late = FALSE]
            /\ kept' = Past /\ UNCHANGED made
       ELSE EndMeasure(IF post.state = "done" /\ Now.state = "running" THEN "done" ELSE "failed")

\* The run that announced itself is told; it ends if it is refused or the answer is lost.
PostArrives(post) ==
  LET mine == post.state = "running" /\ probe.id = post.id
      allowed == Matches(post) /\ Now.state = "requested"
  IN /\ post \in posts
     /\ posts' = posts \ {post}
     /\ Report(post)
     /\ \/ /\ probe' = IF ~mine THEN probe ELSE IF allowed THEN [probe EXCEPT !.at = "allowed"] ELSE NoRun
           /\ UNCHANGED lost
        \/ mine /\ allowed /\ lost < MaxLost /\ probe' = NoRun /\ lost' = lost + 1
     /\ UNCHANGED <<alive, page, poll, cancels, offered, tab, measured>>

CancelArrives(i) ==
  /\ i \in cancels
  /\ cancels' = cancels \ {i}
  /\ IF Now # NoMeasure /\ Now.id = i THEN EndMeasure("failed") ELSE Settle
  /\ UNCHANGED <<alive, page, poll, offered, tab, probe, posts, lost, measured>>

-----------------------------------------------------------------------------
(* Diagnostics. *)

\* The owner picks a stream and measures it.  Full screen is entered first, and may be left again
\* before showProbe returns: the page then keeps the handle of a probe that is closed.
Measure(s) ==
  /\ page.click = "idle" /\ ~page.handle /\ made < MaxMade
  /\ \E left \in BOOLEAN :
       page' = [page EXCEPT !.click = "posting", !.stream = s, !.handle = TRUE, !.shown = ~left, !.left = left]
  /\ UNCHANGED <<serverVars, alive, poll, cancels, offered, tab, probe, posts, lost, measured>>

\* Esc: the measurement is cancelled, at once if it is known.
Escape ==
  /\ page.shown
  /\ page' = [page EXCEPT !.shown = FALSE, !.handle = FALSE, !.id = 0, !.left = page.click # "idle"]
  /\ cancels' = IF page.click = "idle" /\ page.id # 0 THEN cancels \cup {page.id} ELSE cancels
  /\ UNCHANGED <<serverVars, alive, poll, offered, tab, probe, posts, lost, measured>>

\* The click comes to nothing: the page closes.
Closed == [page EXCEPT !.click = "idle", !.shown = FALSE, !.handle = FALSE, !.left = FALSE, !.answer = 0]

RequestArrives ==
  /\ page.click = "posting"
  /\ IF page.stream \in alive
     THEN /\ Request(page.stream)
          /\ page' = [page EXCEPT !.click = "answered", !.answer = IF Now = NoMeasure THEN made + 1 ELSE 0]
     ELSE /\ UNCHANGED serverVars
          /\ page' = [page EXCEPT !.click = "answered"]
  /\ UNCHANGED <<alive, poll, cancels, offered, tab, probe, posts, lost, measured>>

\* The request's answer; without one, or refused, the page closes the probe.
Requested ==
  /\ page.click = "answered"
  /\ \/ /\ page.answer = 0
        /\ page' = Closed
        /\ UNCHANGED cancels
     \/ /\ page.answer # 0 /\ page.left
        /\ page' = [page EXCEPT !.click = "idle", !.left = FALSE, !.answer = 0]
        /\ cancels' = cancels \cup {page.answer}
     \/ /\ page.answer # 0 /\ ~page.left
        /\ page' = [page EXCEPT !.click = "idle", !.id = page.answer, !.answer = 0]
        /\ UNCHANGED cancels
  /\ UNCHANGED <<serverVars, alive, poll, offered, tab, probe, posts, lost, measured>>

RequestFails ==
  /\ page.click \in {"posting", "answered"} /\ lost < MaxLost
  /\ page' = Closed
  /\ lost' = lost + 1
  /\ UNCHANGED <<serverVars, alive, poll, cancels, offered, tab, probe, posts, measured>>

\* refresh, every second (while the page watches nothing, its answer changes nothing here): what the page watches, and the server's snapshot of its stream.
Refresh ==
  /\ poll.at = "idle" /\ page.id # 0
  /\ Settle
  /\ poll' = [at |-> "answered", watching |-> page.id, stream |-> page.stream,
              answer |-> IF Now # NoMeasure /\ Now.stream = page.stream THEN Now.id ELSE 0]
  /\ UNCHANGED <<alive, page, cancels, offered, tab, probe, posts, lost, measured>>

\* Mutant: the probe stays on screen when its measurement has ended.
LeavesM == FALSE

\* The measurement the page showed when it asked is over, and still the one it shows.
Leaves == poll.watching # 0 /\ poll.watching = page.id /\ poll.answer # page.id

Refreshed ==
  /\ poll.at = "answered"
  /\ poll' = Quiet
  /\ page' = IF poll.stream = page.stream /\ Leaves
             THEN [page EXCEPT !.shown = FALSE, !.handle = FALSE, !.id = 0] ELSE page
  /\ UNCHANGED <<serverVars, alive, cancels, offered, tab, probe, posts, lost, measured>>

-----------------------------------------------------------------------------
(* The viewer. *)

Fails(o, outcome) == posts' = posts \cup {[id |-> o.id, stream |-> o.stream, state |-> outcome]}

\* onLatencyProbe and startLatencyProbe: one run at a time, on the stream that is shown.
TakeOffer(o) ==
  /\ o \in offered
  /\ offered' = offered \ {o}
  /\ \/ tab.gone /\ UNCHANGED <<probe, posts>>
     \/ /\ ~tab.gone /\ (probe # NoRun \/ tab.shown # o.stream)
        /\ Fails(o, "failed") /\ UNCHANGED probe
     \/ /\ ~tab.gone /\ probe = NoRun /\ tab.shown = o.stream
        /\ probe' = [id |-> o.id, stream |-> o.stream, at |-> "loading", why |-> "going"]
        /\ UNCHANGED posts
  /\ UNCHANGED <<serverVars, alive, page, poll, cancels, tab, lost, measured>>

\* stop: the first reason stands (another stream or Cancel, which report a failure, or leaving).
Stopped(why) == IF probe # NoRun /\ probe.why = "going" THEN [probe EXCEPT !.why = why] ELSE probe

Aborted == probe.why # "going"

\* outcomeReport: nothing of a viewer that left.
Ends(outcome) ==
  /\ probe' = NoRun
  /\ IF outcome = "cancelled" /\ probe.why = "gone" THEN UNCHANGED posts
     ELSE Fails(probe, IF outcome = "done" THEN "done" ELSE "failed")

\* runLatencyProbe's first checks; then it plans its trials and reads frames.
Begins ==
  \/ Aborted /\ Ends("cancelled")
  \/ ~Aborted /\ Ends("no-control")
  \/ ~Aborted /\ probe' = [probe EXCEPT !.at = "looking"] /\ UNCHANGED posts

\* The import: the server serves the module only while this session has a measurement; a later
\* run may find it imported.
Import ==
  /\ probe # NoRun /\ probe.at = "loading"
  /\ Settle
  /\ \/ (Now # NoMeasure \/ made > 1) /\ Begins
     \/ Ends("unsupported")
  /\ UNCHANGED <<alive, page, poll, cancels, offered, tab, lost, measured>>

\* The barcode is found and the run announced; or that takes over 2 s, or control is gone by then.
Looked ==
  /\ probe # NoRun /\ probe.at = "looking"
  /\ \/ Aborted /\ Ends("cancelled")
     \/ ~Aborted /\ Ends("failed")
     \/ /\ ~Aborted /\ page.shown /\ tab.shown = probe.stream /\ probe.stream \in alive
        /\ probe' = [probe EXCEPT !.at = "announcing"]
        /\ Fails(probe, "running")
  /\ UNCHANGED <<serverVars, alive, page, poll, cancels, offered, tab, lost, measured>>

\* The run, whose trials and strokes send input now, ends: stopped, without control, without the
\* page (or a key press that does nothing), or done.
RunEnds ==
  /\ probe # NoRun /\ probe.at = "allowed"
  /\ \/ Aborted /\ Ends("cancelled") /\ UNCHANGED measured
     \/ ~Aborted /\ Ends("failed") /\ UNCHANGED measured
     \/ ~Aborted /\ Ends("done") /\ measured' = measured \cup {probe.id}
  /\ UNCHANGED <<serverVars, alive, page, poll, cancels, offered, tab, lost>>

\* The user: another stream or none, Cancel, leaving.  Control comes and goes at any time; the
\* run looks before each input.
ShowStream(s) ==
  /\ ~tab.gone /\ s # tab.shown
  /\ tab' = [tab EXCEPT !.shown = s]
  /\ probe' = IF probe # NoRun /\ probe.stream # s THEN Stopped("stopped") ELSE probe
  /\ UNCHANGED <<serverVars, alive, page, poll, cancels, offered, posts, lost, measured>>

CancelRun ==
  /\ probe # NoRun /\ ~Aborted
  /\ probe' = Stopped("stopped")
  /\ UNCHANGED <<serverVars, alive, page, poll, cancels, offered, tab, posts, lost, measured>>

Leave ==
  /\ ~tab.gone
  /\ tab' = [shown |-> NoStream, gone |-> TRUE]
  /\ probe' = Stopped("gone")
  /\ UNCHANGED <<serverVars, alive, page, poll, cancels, offered, posts, lost, measured>>

-----------------------------------------------------------------------------
(* Losses.  Nothing is sent again. *)

Lose ==
  /\ lost < MaxLost
  /\ lost' = lost + 1
  /\ \/ \E i \in cancels : cancels' = cancels \ {i} /\ UNCHANGED <<poll, offered, probe, posts>>
     \/ \E o \in offered : offered' = offered \ {o} /\ UNCHANGED <<poll, cancels, probe, posts>>
     \/ poll.at # "idle" /\ poll' = Quiet /\ UNCHANGED <<cancels, offered, probe, posts>>
     \/ \E post \in posts :
          /\ posts' = posts \ {post}
          /\ probe' = IF post.state = "running" /\ probe.id = post.id THEN NoRun ELSE probe
          /\ UNCHANGED <<poll, cancels, offered>>
  /\ UNCHANGED <<serverVars, alive, page, tab, measured>>

PageNext ==
  \/ \E s \in Watched : Measure(s)
  \/ Escape \/ RequestArrives \/ Requested \/ RequestFails \/ Refresh \/ Refreshed
  \/ \E i \in Measurements : CancelArrives(i)

ViewerRunNext ==
  \/ \E s \in Watched : Telemetry(s)
  \/ \E s \in Watched \cup {NoStream} : ShowStream(s)
  \/ \E o \in offered : TakeOffer(o)
  \/ \E post \in posts : PostArrives(post)
  \/ Import \/ Looked \/ RunEnds \/ CancelRun \/ Leave

LatencyNext ==
  \/ PageNext \/ ViewerRunNext
  \/ TooLate \/ (\E s \in Watched : StreamEnds(s)) \/ Lose

LatencySpec == LatencyInit /\ [][LatencyNext]_latencyVars

\* The page's timer and the browsers' own steps come; a deadline passes; calls that are not lost
\* arrive.  The owner, the viewer's user and frames may do nothing.
LatencyFair ==
  /\ WF_latencyVars(RequestArrives) /\ WF_latencyVars(Requested)
  /\ WF_latencyVars(Refresh) /\ WF_latencyVars(Refreshed)
  /\ WF_latencyVars(TooLate) /\ WF_latencyVars(\E o \in offered : TakeOffer(o))
  /\ WF_latencyVars(\E post \in posts : PostArrives(post))
  /\ WF_latencyVars(Import) /\ WF_latencyVars(Looked)
  /\ WF_latencyVars(RunEnds)

-----------------------------------------------------------------------------
(* Properties. *)

Outcomes(s) == {kept[s][i] : i \in DOMAIN kept[s]}

\* One measurement has one outcome: what Diagnostics shows as its results is what its own run
\* measured, however late the reports of other runs, and the active measurement has no outcome yet.
ResultsAreOwn ==
  /\ \A s \in Watched : \A o \in Outcomes(s) : o.outcome = "done" => o.id \in measured
  /\ \A s \in Watched : \A i, j \in DOMAIN kept[s] : kept[s][i].id = kept[s][j].id => i = j
  /\ active # NoMeasure => \A s \in Watched : \A o \in Outcomes(s) : o.id # active.id

\* Every measurement comes to an outcome, and its run and the page that shows the probe end,
\* whoever leaves, whatever is lost and whatever is cancelled or comes too late.  (Measurements are
\* finitely many here, so they have all ended when nothing is measured, run or shown.)
MeasurementsSettle ==
  (active # NoMeasure \/ probe # NoRun \/ page.shown)
    ~> (Now = NoMeasure /\ probe = NoRun /\ ~page.shown)

=============================================================================
