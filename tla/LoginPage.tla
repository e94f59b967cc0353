------------------------------- MODULE LoginPage -------------------------------
(***************************************************************************)
(* The page a browser signs in on (web-client/src/app.js) and the viewers  *)
(* it mounts (viewer/app.js): one submission at a time asks for a session  *)
(* and starts a viewer with it, a viewer that ends brings the login back,  *)
(* and both may be closing the same session.                               *)
(*                                                                         *)
(* connectionAttempt is the submission that is current; coming back to the *)
(* login makes it none's.  What has no await between is one step.  Only    *)
(* how a viewer starts and ends is here, its streams are ViewerStreams.    *)
(* Registration, stored keys and closing the page are left out.            *)
(***************************************************************************)
EXTENDS Naturals, FiniteSets

CONSTANTS
  Submits,     \* submissions of the connection key's form and of the sign-in form
  NoSubmit,
  MaxMissed    \* bound on calls that fail and leave a session at the server

ASSUME LoginAssumption == NoSubmit \notin Submits /\ MaxMissed \in Nat

VARIABLES
  submit,   \* each submission: where it is, and the viewer it waits for
  turn,     \* connectionAttempt
  mounted,  \* viewer: the submission whose viewer the page has
  pending,  \* pendingSessionId: the submission it is of
  markup,   \* the submission whose viewer's elements are in the page
  welcome,  \* the login is shown
  view,     \* each submission's viewer: has it shown its panel, does the page hear of its end
  back,     \* returnToLogin, called by a submission or at a viewer's end, and what it waits for
  admitted, \* server: the session of each submission
  missed    \* sessions the page could not end

pageVars == <<turn, mounted, pending, markup, welcome>>
loginVars == <<submit, pageVars, view, back, admitted, missed>>

Callers == Submits \X {"submit", "viewer"}
Unbuilt == [at |-> "none", shown |-> FALSE, tell |-> FALSE]

LoginInit ==
  /\ submit = [a \in Submits |-> [at |-> "idle", of |-> NoSubmit]]
  /\ turn = NoSubmit /\ mounted = NoSubmit /\ pending = NoSubmit /\ markup = NoSubmit
  /\ welcome = TRUE
  /\ view = [a \in Submits |-> Unbuilt]
  /\ back = [c \in Callers |-> [at |-> "no", of |-> NoSubmit]]
  /\ admitted = [a \in Submits |-> "none"]
  /\ missed = {}

-----------------------------------------------------------------------------
Connecting == \E a \in Submits : submit[a].at \notin {"idle", "done"}

Alive(a) == a # NoSubmit /\ view[a].at = "alive"

\* The disconnect of an alive viewer; with `tell` its end brings the login back.  Without its
\* elements it throws before the server is called.
Disposed(V, a, tell) ==
  [V EXCEPT ![a].at = IF markup = a THEN "closing" ELSE "broken", ![a].tell = tell]

\* A call that ends a session is answered, or fails.
Told(a) ==
  \/ /\ admitted' = [admitted EXCEPT ![a] = "over"]
     /\ UNCHANGED missed
  \/ /\ Cardinality(missed) < MaxMissed
     /\ missed' = missed \cup {a}
     /\ UNCHANGED admitted

\* The submission S ends with the return c, when it is the submission that returns.
Shown(c, S) == IF c[2] = "submit" THEN [S EXCEPT ![c[1]] = [at |-> "done", of |-> NoSubmit]] ELSE S

\* The rest of returnToLogin, once the viewer is closed: the session that has no viewer yet ends,
\* the login is shown.
GoBack(c, held, S) ==
  IF held # NoSubmit
  THEN /\ back' = [back EXCEPT ![c] = [at |-> "retiring", of |-> held]]
       /\ pending' = held /\ submit' = S
       /\ UNCHANGED <<markup, welcome>>
  ELSE /\ back' = [back EXCEPT ![c] = [at |-> "no", of |-> NoSubmit]]
       /\ pending' = NoSubmit /\ submit' = Shown(c, S)
       /\ markup' = NoSubmit /\ welcome' = TRUE

\* returnToLogin: the page's viewer, whosever it is, closes first.
ReturnToLogin(c, held, V, S) ==
  /\ turn' = NoSubmit /\ mounted' = NoSubmit
  /\ view' = IF Alive(mounted) THEN Disposed(V, mounted, FALSE) ELSE V
  /\ IF Alive(mounted) /\ markup = mounted
     THEN /\ back' = [back EXCEPT ![c] = [at |-> "closing", of |-> mounted]]
          /\ pending' = held /\ submit' = S
          /\ UNCHANGED <<markup, welcome>>
     ELSE GoBack(c, held, S)

\* A submission fails: the login comes back, unless it has already.
SubmitFails(a, held) ==
  IF turn = a
  THEN ReturnToLogin(<<a, "submit">>, held, view, [submit EXCEPT ![a].at = "returning"])
  ELSE /\ submit' = [submit EXCEPT ![a] = [at |-> "done", of |-> NoSubmit]]
       /\ pending' = held
       /\ markup' = IF submit[a].at = "retiring" THEN NoSubmit ELSE markup
       /\ UNCHANGED <<turn, mounted, welcome, view, back>>

-----------------------------------------------------------------------------
(* A submission. *)

Submit(a) ==
  /\ welcome /\ ~Connecting /\ submit[a].at = "idle"
  /\ submit' = [submit EXCEPT ![a].at = "asked"]
  /\ turn' = a
  /\ UNCHANGED <<mounted, pending, markup, welcome, view, back, admitted, missed>>

\* The server admits it; the answer may be lost.
Admit(a) ==
  /\ submit[a].at = "asked"
  /\ admitted' = [admitted EXCEPT ![a] = "live"]
  /\ \/ /\ submit' = [submit EXCEPT ![a].at = "answered"]
        /\ UNCHANGED missed
     \/ /\ Cardinality(missed) < MaxMissed /\ missed' = missed \cup {a}
        /\ submit' = [submit EXCEPT ![a].at = "unanswered"]
  /\ UNCHANGED <<pageVars, view, back>>

\* The key or the password is refused, or the answer does not come.
Refused(a) ==
  /\ submit[a].at \in {"asked", "unanswered"}
  /\ SubmitFails(a, pending)
  /\ UNCHANGED <<admitted, missed>>

\* Mutant: what came too late is dropped.
TooLateForM == "done"

TooLateFor == "stale"

\* enterViewer: the session is the page's, unless the login has come back meanwhile.
EnterViewer(a) ==
  /\ submit[a].at = "answered"
  /\ IF turn = a
     THEN /\ pending' = a
          /\ submit' = [submit EXCEPT ![a].at = "fetching"]
     ELSE /\ submit' = [submit EXCEPT ![a].at = TooLateFor]
          /\ UNCHANGED pending
  /\ UNCHANGED <<turn, mounted, markup, welcome, view, back, admitted, missed>>

StaleRetired(a) ==
  /\ submit[a].at = "stale"
  /\ submit' = [submit EXCEPT ![a].at = "done"]
  /\ Told(a)
  /\ UNCHANGED <<pageVars, view, back>>

\* The fragment, its style and its module are there: the viewer is made and starts.
Mount(a) ==
  /\ submit[a].at = "fetching"
  /\ submit' = [submit EXCEPT ![a].at = "starting"]
  /\ mounted' = a /\ markup' = a
  /\ view' = [view EXCEPT ![a].at = "alive"]
  /\ UNCHANGED <<turn, pending, welcome, back, admitted, missed>>

\* The server sends a session its catalog.
Profiles(a) ==
  /\ submit[a].at = "starting" /\ admitted[a] = "live"
  /\ submit' = [submit EXCEPT ![a].at = "listed"]
  /\ UNCHANGED <<pageVars, view, back, admitted, missed>>

\* startSubscriptions: the panel takes the login's place.
ShowPanel(a) ==
  /\ submit[a].at = "listed" /\ Alive(a) /\ ~view[a].shown /\ markup = a
  /\ view' = [view EXCEPT ![a].shown = TRUE]
  /\ welcome' = FALSE
  /\ UNCHANGED <<submit, turn, mounted, pending, markup, back, admitted, missed>>

\* start comes to its end, also when the viewer has been closed meanwhile.
StartEnds(a) ==
  /\ submit[a].at = "listed" /\ view[a].shown /\ (Alive(a) => markup = a)
  /\ submit' = [submit EXCEPT ![a].at = "done"]
  /\ pending' = NoSubmit
  /\ UNCHANGED <<turn, mounted, markup, welcome, view, back, admitted, missed>>

\* The viewer cannot be had, or does not start: it closes, then the session ends.
EnterFails(a) ==
  /\ submit[a].at \in {"fetching", "starting", "listed"}
  /\ mounted' = NoSubmit
  /\ view' = IF Alive(mounted) THEN Disposed(view, mounted, FALSE) ELSE view
  /\ submit' = [submit EXCEPT ![a] = IF Alive(mounted) /\ markup = mounted
                                      THEN [at |-> "failing", of |-> mounted]
                                      ELSE [at |-> "retiring", of |-> NoSubmit]]
  /\ UNCHANGED <<turn, pending, markup, welcome, back, admitted, missed>>

ViewerGone(a) ==
  /\ submit[a].at = "failing" /\ view[submit[a].of].at = "over"
  /\ submit' = [submit EXCEPT ![a].at = "retiring"]
  /\ UNCHANGED <<pageVars, view, back, admitted, missed>>

\* The bearer is retired; the login comes back.
Retired(a) ==
  /\ submit[a].at = "retiring"
  /\ Told(a)
  /\ SubmitFails(a, NoSubmit)

-----------------------------------------------------------------------------
(* Coming back. *)

BackGoesOn(c) ==
  /\ \/ /\ back[c].at = "closing" /\ view[back[c].of].at = "over"
        /\ GoBack(c, pending, submit)
        /\ UNCHANGED <<admitted, missed>>
     \/ /\ back[c].at = "retiring"
        /\ Told(back[c].of)
        /\ GoBack(c, NoSubmit, submit)
  /\ UNCHANGED <<turn, mounted, view>>

\* The user leaves, or the heartbeat fails.
ViewerStops(a) ==
  /\ Alive(a) /\ view[a].shown
  /\ view' = Disposed(view, a, TRUE)
  /\ UNCHANGED <<submit, pageVars, back, admitted, missed>>

\* The server has answered the viewer's disconnect, or 5 s are over.
ViewerClosed(a) ==
  /\ view[a].at = "closing"
  /\ Told(a)
  /\ LET V == [view EXCEPT ![a].at = "over"]
     IN IF view[a].tell THEN ReturnToLogin(<<a, "viewer">>, pending, V, submit)
        ELSE view' = V /\ UNCHANGED <<submit, pageVars, back>>

\* The server ends a session: the owner, or no heartbeat.
SessionOver(a) ==
  /\ admitted[a] = "live"
  /\ admitted' = [admitted EXCEPT ![a] = "over"]
  /\ UNCHANGED <<submit, pageVars, view, back, missed>>

LoginNext ==
  \/ \E a \in Submits :
       \/ Submit(a) \/ Admit(a) \/ Refused(a) \/ EnterViewer(a) \/ StaleRetired(a)
       \/ Mount(a) \/ Profiles(a) \/ ShowPanel(a) \/ StartEnds(a)
       \/ EnterFails(a) \/ ViewerGone(a) \/ Retired(a)
       \/ ViewerStops(a) \/ ViewerClosed(a) \/ SessionOver(a)
  \/ \E c \in Callers : BackGoesOn(c)

LoginSpec == LoginInit /\ [][LoginNext]_loginVars

-----------------------------------------------------------------------------
(* Properties. *)

\* The page drops no session: one that the server still keeps has its submission, which is to use
\* it or to end it, or a viewer that has not ended; also after a late end of one viewer has met the
\* start of the next.  A call that should have ended a session may have failed.
SessionsAreHeld ==
  \A a \in Submits :
    admitted[a] = "live" /\ a \notin missed =>
      \/ submit[a].at \in {"answered", "stale", "fetching", "failing", "retiring"}
      \/ view[a].at \notin {"none", "over"}

=============================================================================
