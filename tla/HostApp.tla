-------------------------------- MODULE HostApp --------------------------------
(***************************************************************************)
(* The macOS host and the server it runs (ServerHostModel, ServerProcess,  *)
(* OfflineSettings): sharing starts and stops, the owner's commands wait   *)
(* for their replies, settings change through the offline config command   *)
(* while no server runs, and Quit waits for the server.                    *)
(*                                                                         *)
(* The server is only what the host sees of it: it reads lines, writes     *)
(* lines, may leave a command unanswered and may end at any time.          *)
(* Abstracted: what settings say, and lines that only redraw (status,      *)
(* clients, displays).  Assumed: the task of a click starts before the     *)
(* next event, the approval line is accepted, and the server answers a     *)
(* regeneration, which has no timeout.                                     *)
(***************************************************************************)
EXTENDS Naturals, Sequences, FiniteSets

CONSTANTS
  Commands,       \* commands with a requestId, each given once
  Regenerations,  \* certificate regenerations, whose reply has no id
  Edits,          \* changes of the access settings
  MaxLaunches,    \* bound on servers started
  MaxAsked        \* bound on requests made

HostRequests == Commands \cup Regenerations \cup Edits

ASSUME HostAssumption ==
  /\ MaxLaunches \in Nat /\ MaxAsked \in Nat
  /\ Commands \cap Regenerations = {} /\ Edits \cap (Commands \cup Regenerations) = {}

VARIABLES
  sharing,
  process,     \* the server the host knows, by launch; 0: nil
  launches,
  stopAsked,   \* stopRequested
  serving,     \* the server as a process of the system
  stdin,       \* lines the server has not read
  stdinOpen,
  toAnswer,    \* requests the server has read and not answered
  stdout,      \* what the main queue has not run: lines, and the exit after the last of them
  job,         \* what each request waits for
  config,      \* config commands still to run for a change while no server runs
  saving,      \* accessSaving
  kills,       \* launches whose 5 s to stop run
  quit

hostAppVars ==
  <<sharing, process, launches, stopAsked, serving, stdin, stdinOpen, toAnswer, stdout, job,
    config, saving, kills, quit>>

serverSide == <<serving, stdin, stdinOpen, toAnswer>>
hostSide == <<sharing, process, launches, stopAsked>>
requestSide == <<job, config, saving>>

Out(what, r, ok) == [what |-> what, request |-> r, ok |-> ok]

HostBlank ==
  /\ sharing = "off" /\ process = 0 /\ launches = 0 /\ stopAsked = FALSE
  /\ serving = "none" /\ stdin = <<>> /\ stdinOpen = FALSE /\ toAnswer = {} /\ stdout = <<>>
  /\ job = [r \in HostRequests |-> "idle"] /\ config = [e \in Edits |-> 0] /\ saving = FALSE
  /\ kills = {}

HostInit == HostBlank /\ quit = "no"

-----------------------------------------------------------------------------
(* Sharing. *)

\* send: queued in order; a server that is gone takes nothing.
Send(line) == stdin' = IF stdinOpen THEN Append(stdin, line) ELSE stdin

StartSharing ==
  /\ quit = "no" /\ sharing \in {"off", "stoppedUnexpectedly"}
  /\ \/ /\ sharing' = "stoppedUnexpectedly" /\ stopAsked' = FALSE  \* no runtime, or it cannot be spawned
        /\ UNCHANGED <<process, launches, serverSide>>
     \/ /\ launches < MaxLaunches
        /\ sharing' = "starting" /\ stopAsked' = FALSE
        /\ launches' = launches + 1 /\ process' = launches + 1
        /\ serving' = "gate" /\ stdin' = <<"start">> /\ stdinOpen' = TRUE /\ toAnswer' = {}
  /\ UNCHANGED <<stdout, requestSide, kills, quit>>

\* stopSharing: a stop line, and five seconds for it.
Stop ==
  IF process # 0 /\ sharing # "stopping"
  THEN /\ stopAsked' = TRUE /\ sharing' = "stopping"
       /\ Send("stop") /\ kills' = kills \cup {process}
  ELSE UNCHANGED <<stopAsked, sharing, stdin, kills>>

StopSharing ==
  /\ quit # "done" /\ process # 0 /\ Stop
  /\ UNCHANGED <<process, launches, serving, stdinOpen, toAnswer, stdout, requestSide, quit>>

\* The timer ends only the server it was started for.
StillRuns(n) == process = n

KillTimer(n) ==
  /\ n \in kills
  /\ kills' = kills \ {n}
  /\ serving' = IF StillRuns(n) /\ serving \notin {"none", "ended"} THEN "killed" ELSE serving
  /\ UNCHANGED <<hostSide, stdin, stdinOpen, toAnswer, stdout, requestSide, quit>>

\* Quit: sharing stops first; the app ends once the server has.
Quit ==
  /\ quit = "no"
  /\ IF process # 0 THEN quit' = "waiting" /\ Stop
     ELSE quit' = "done" /\ UNCHANGED <<stopAsked, sharing, stdin, kills>>
  /\ UNCHANGED <<process, launches, serving, stdinOpen, toAnswer, stdout, requestSide>>

-----------------------------------------------------------------------------
(* Requests. *)

MayAsk(r) ==
  /\ quit # "done" /\ job[r] = "idle"
  /\ Cardinality({q \in HostRequests : job[q] # "idle"}) < MaxAsked

\* request: a continuation that a reply, 15 s or the server's exit resumes; fails at once without
\* a server.
Asks(r) ==
  IF process # 0 /\ stdinOpen
  THEN job' = [job EXCEPT ![r] = "sent"] /\ stdin' = Append(stdin, r)
  ELSE job' = [job EXCEPT ![r] = "failed"] /\ UNCHANGED stdin

OwnerCommand(r) ==
  /\ MayAsk(r)
  /\ Asks(r)
  /\ UNCHANGED <<hostSide, serving, stdinOpen, toAnswer, stdout, config, saving, kills, quit>>

TlsWaiting == {r \in Regenerations : job[r] = "sent"}

\* regenerateCertificate: one at a time.
Regenerate(r) ==
  /\ MayAsk(r) /\ process # 0 /\ TlsWaiting = {}
  /\ Asks(r)
  /\ UNCHANGED <<hostSide, serving, stdinOpen, toAnswer, stdout, config, saving, kills, quit>>

\* accessEditable.
Editable == ~saving /\ sharing \notin {"starting", "stopping"}

MayEdit(e) == MayAsk(e) /\ Editable

\* The change is a command to the server.
Saves(e) == process # 0 /\ Asks(e) /\ saving' = (job'[e] = "sent") /\ UNCHANGED config

\* The change is n config commands, one after the other.
Configures(e, n) ==
  /\ process = 0
  /\ job' = [job EXCEPT ![e] = "config"] /\ config' = [config EXCEPT ![e] = n] /\ saving' = TRUE
  /\ UNCHANGED stdin

EditRest == UNCHANGED <<hostSide, serving, stdinOpen, toAnswer, stdout, kills, quit>>

ChangeAccess(e) == MayEdit(e) /\ (Saves(e) \/ Configures(e, 1)) /\ EditRest

\* Without a server, it starts sharing instead, or does nothing.
SetRemoteAccess(e) == MayEdit(e) /\ sharing = "running" /\ Saves(e) /\ EditRest

SaveRemoteSettings(e) == MayEdit(e) /\ (Saves(e) \/ Configures(e, 3)) /\ EditRest

\* run: a config command ends, is refused (a server runs, say) or takes over 15 s.
ConfigEnds(e) ==
  /\ job[e] = "config"
  /\ \/ /\ config[e] > 1
        /\ config' = [config EXCEPT ![e] = @ - 1] /\ UNCHANGED <<job, saving>>
     \/ /\ config' = [config EXCEPT ![e] = 0]
        /\ \E how \in {"failed"} \cup (IF config[e] = 1 THEN {"ok"} ELSE {}) :
             job' = [job EXCEPT ![e] = how]
        /\ saving' = FALSE
  /\ UNCHANGED <<hostSide, serverSide, stdout, kills, quit>>

\* The continuations that R leaves are resumed; an edit is no longer being saved.
Resume(R, how) ==
  /\ job' = [r \in HostRequests |-> IF r \in R THEN how ELSE job[r]]
  /\ saving' = (saving /\ R \cap Edits = {})
  /\ UNCHANGED config

NoReply(r) ==
  /\ r \notin Regenerations /\ job[r] = "sent"
  /\ Resume({r}, "failed")
  /\ UNCHANGED <<hostSide, serverSide, stdout, kills, quit>>

-----------------------------------------------------------------------------
(* What the server writes, in order, on the main queue. *)

\* A reply resumes the request with its id, if it still waits; a regeneration's has none, and
\* resumes the one that waits.
Resumed(line) ==
  IF line.request \in Regenerations THEN TlsWaiting
  ELSE {r \in {line.request} : job[r] = "sent"}

\* Mutant: a regeneration is left waiting when the server exits.
AbandonedM == {r \in HostRequests : job[r] = "sent" /\ r \notin Regenerations}

Abandoned == {r \in HostRequests : job[r] = "sent"}

\* exited, whichever way it ended.
Exited(clean) ==
  /\ process' = 0 /\ stopAsked' = FALSE
  /\ sharing' = IF stopAsked \/ clean THEN "off" ELSE "stoppedUnexpectedly"
  /\ Resume(Abandoned, "failed")
  /\ quit' = IF quit = "waiting" THEN "done" ELSE quit

Receive ==
  /\ stdout # <<>>
  /\ stdout' = Tail(stdout)
  /\ LET line == Head(stdout)
     IN \/ /\ line.what = "ready"
           /\ sharing' = "running"
           /\ UNCHANGED <<process, stopAsked, requestSide, quit>>
        \/ /\ line.what = "reply"
           /\ Resume(Resumed(line), IF line.ok THEN "ok" ELSE "failed")
           /\ UNCHANGED <<sharing, process, stopAsked, quit>>
        \/ line.what = "exit" /\ Exited(line.ok)
  /\ UNCHANGED <<launches, serverSide, kills>>

-----------------------------------------------------------------------------
(* The server process. *)

Alive == serving \in {"gate", "starting", "up", "stopping"}

\* Commands wait until it serves.
ServerReads ==
  /\ stdin # <<>> /\ serving \in {"gate", "starting", "up"}
  /\ LET line == Head(stdin)
     IN \/ line = "start" /\ serving = "gate" /\ serving' = "starting" /\ UNCHANGED toAnswer
        \/ line = "stop" /\ serving' = "stopping" /\ UNCHANGED toAnswer
        \/ line \in HostRequests /\ serving = "up" /\ toAnswer' = toAnswer \cup {line} /\ UNCHANGED serving
  /\ stdin' = Tail(stdin)
  /\ UNCHANGED <<hostSide, stdinOpen, stdout, requestSide, kills, quit>>

ServerReady ==
  /\ serving = "starting"
  /\ serving' = "up" /\ stdout' = Append(stdout, Out("ready", "none", TRUE))
  /\ UNCHANGED <<hostSide, stdin, stdinOpen, toAnswer, requestSide, kills, quit>>

ServerAnswers(r) ==
  /\ r \in toAnswer /\ serving = "up"
  /\ toAnswer' = toAnswer \ {r}
  /\ \E ok \in BOOLEAN : stdout' = Append(stdout, Out("reply", r, ok))
  /\ UNCHANGED <<hostSide, serving, stdin, stdinOpen, requestSide, kills, quit>>

\* It exits: told to, killed, or for a reason of its own.
ServerEnds ==
  /\ Alive \/ serving = "killed"
  /\ serving' = "ended"
  /\ UNCHANGED <<hostSide, stdin, stdinOpen, toAnswer, stdout, requestSide, kills, quit>>

\* The thread that waits for it: the last line first, then its input is closed and the exit is told.
Reaped ==
  /\ serving = "ended"
  /\ serving' = "none" /\ stdin' = <<>> /\ stdinOpen' = FALSE /\ toAnswer' = {}
  /\ \E clean \in BOOLEAN : stdout' = Append(stdout, Out("exit", "none", clean))
  /\ UNCHANGED <<hostSide, requestSide, kills, quit>>

HostNext ==
  \/ StartSharing \/ StopSharing \/ Quit \/ Receive
  \/ \E n \in kills : KillTimer(n)
  \/ \E r \in Commands : OwnerCommand(r)
  \/ \E r \in Regenerations : Regenerate(r)
  \/ \E e \in Edits : ChangeAccess(e) \/ SetRemoteAccess(e) \/ SaveRemoteSettings(e) \/ ConfigEnds(e)
  \/ \E r \in HostRequests : NoReply(r) \/ ServerAnswers(r)
  \/ ServerReads \/ ServerReady \/ ServerEnds \/ Reaped

\* The main queue runs, timers fire, a process that was killed or ended is reaped.  Of the server:
\* it reads, gets ready or ends, and answers a regeneration unless it ends.
HostFair ==
  /\ WF_hostAppVars(Receive) /\ WF_hostAppVars(Reaped)
  /\ WF_hostAppVars(\E n \in kills : KillTimer(n))
  /\ WF_hostAppVars(serving = "killed" /\ ServerEnds)
  /\ WF_hostAppVars(ServerReads) /\ WF_hostAppVars(ServerReady)
  /\ \A r \in Regenerations : WF_hostAppVars(ServerAnswers(r))
  /\ \A r \in Commands \cup Edits : WF_hostAppVars(NoReply(r))
  /\ \A e \in Edits : WF_hostAppVars(ConfigEnds(e))

-----------------------------------------------------------------------------
(* Properties. *)

\* What the window says of sharing is true of the server the host knows, and a server is killed only
\* when its own stop was asked for, although the timer of an earlier stop may end later.
OnlyStoppedIsKilled ==
  /\ process = 0 <=> sharing \in {"off", "stoppedUnexpectedly"}
  /\ serving = "killed" => stopAsked

\* Every command, regeneration and change of settings the owner makes comes to an answer or an
\* error, its settings can be edited again, and Quit is let go, whether the server answers, hangs,
\* stops or dies, and whether sharing is started again meanwhile; and no other server is killed
\* for it.
HostSettles ==
  /\ (saving \/ \E r \in HostRequests : job[r] = "sent")
       ~> (~saving /\ \A r \in HostRequests : job[r] # "sent")
  /\ (quit = "waiting") ~> (quit = "done")
  /\ []OnlyStoppedIsKilled

=============================================================================
