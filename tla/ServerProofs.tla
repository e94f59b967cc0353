----------------------------- MODULE ServerProofs -----------------------------
(***************************************************************************)
(* The server process: the media relay it supervises (MediaRelay), its own *)
(* life and HTTP listeners (ServerLife) and its HTTPS listener with the    *)
(* certificates it serves (TlsListener), for any number of processes,      *)
(* streams, port changes, commands, networks, answers and certificates;    *)
(* and the relay process (RelayCore), for any registrations and sources.   *)
(***************************************************************************)
EXTENDS MediaRelay, RelayCore, ServerLife, TlsListener, SequenceTheorems, FiniteSetTheorems, TLAPS

States == {"starting", "listening", "unavailable", "stopped"}

StreamStates == {"new", "asked", "unheard", "live", "ended"}

RelayTypes ==
  /\ child \in Procs \cup {None} /\ state \in States /\ stopFlag \in BOOLEAN
  /\ waiting \in [Procs -> Nat]
  /\ server \in {"running", "shutting", "stopping", "stopped"}
  /\ stream \in [Streams -> StreamStates] /\ on \in [Streams -> Procs \cup {None}]

\* A start has no streams: whatever led to it ended them.
StartIsEmpty == state = "starting" => Pending \cup Live = {}

\* A process that exits quietly has a restart that goes on after it, or the server is stopping.
StopHasReason ==
  stopFlag /\ child # None => waiting[child] > 0 \/ server \in {"stopping", "stopped"}

\* No stream goes live once the server shuts down.
NoneAfterShutdown == server # "running" => Live = {}

RelayIInv ==
  RelayTypes /\ StartIsEmpty /\ StopHasReason /\ NoneAfterShutdown /\ RelayServes

LEMMA InitRelay == Init => RelayIInv
<1> SUFFICES ASSUME Init PROVE RelayIInv
  OBVIOUS
<1>1. Pending = {} /\ Live = {}
  BY DEF Init, Pending, Live
<1>2. RelayTypes
  <2>1. child \in Procs /\ state \in States /\ stopFlag \in BOOLEAN /\ server = "running"
    BY DEF Init, States
  <2>2. waiting = [q \in Procs |-> 0] /\ stream = [s \in Streams |-> "new"] /\ on = [s \in Streams |-> None]
    BY DEF Init
  <2> QED
    BY <2>1, <2>2 DEF RelayTypes, StreamStates
<1>3. state = "starting" /\ stopFlag = FALSE
  BY DEF Init
<1> QED
  BY <1>1, <1>2, <1>3 DEF RelayIInv, StartIsEmpty, StopHasReason, NoneAfterShutdown, RelayServes,
    StreamsOnChild, ListeningIsBound

\* Streams that end are neither live nor waited for.
LEMMA EndedStreams ==
  ASSUME RelayTypes, NEW T \in SUBSET Streams, stream' = Ended(T)
  PROVE  /\ stream' \in [Streams -> StreamStates]
         /\ Pending' = Pending \ T /\ Live' = Live \ T
BY DEF RelayTypes, Ended, Pending, Live, StreamStates

\* A stream that moves alone.
LEMMA MovedStream ==
  ASSUME RelayTypes, NEW s \in Streams, NEW x \in StreamStates, stream' = [stream EXCEPT ![s] = x]
  PROVE  /\ stream' \in [Streams -> StreamStates]
         /\ Pending' = IF x \in {"asked", "unheard"} THEN Pending \cup {s} ELSE Pending \ {s}
         /\ Live' = IF x = "live" THEN Live \cup {s} ELSE Live \ {s}
BY DEF RelayTypes, Pending, Live, StreamStates

LEMMA StreamsMove ==
  ASSUME RelayIInv, NEW s \in Streams, Allow(s) \/ Allowed(s) \/ Rejected(s) \/ EndStream(s)
  PROVE  RelayIInv'
<1> DEFINE kept == <<procVars, relayVars, callVars>>
<1> USE DEF RelayIInv, kept, procVars, relayVars, callVars
<1>1. CASE Allow(s)
  <2>1. PICK x \in {"asked", "unheard"} : stream' = [stream EXCEPT ![s] = x]
    BY <1>1 DEF Allow
  <2>2. /\ stream' \in [Streams -> StreamStates] /\ Pending' = Pending \cup {s} /\ Live' = Live \ {s}
    BY <2>1, MovedStream DEF StreamStates
  <2>3. StreamsOnChild'
    BY <1>1, <2>2 DEF Allow, MayAsk, RelayTypes, RelayServes, StreamsOnChild
  <2> QED
    BY <1>1, <2>2, <2>3 DEF Allow, MayAsk, RelayTypes, StartIsEmpty, StopHasReason, NoneAfterShutdown,
      RelayServes, ListeningIsBound
<1>2. CASE Allowed(s)
  <2>1. PICK x \in {"live", "ended"} : /\ stream' = [stream EXCEPT ![s] = x]
                                       /\ server # "running" => x = "ended"
    BY <1>2 DEF Allowed
  <2>2. /\ stream' \in [Streams -> StreamStates] /\ Pending' = Pending \ {s}
        /\ Live' = IF x = "live" THEN Live \cup {s} ELSE Live \ {s}
    BY <2>1, MovedStream DEF StreamStates
  <2>3. s \in Pending
    BY <1>2 DEF Allowed, Pending
  <2> QED
    BY <1>2, <2>1, <2>2, <2>3 DEF Allowed, RelayTypes, StartIsEmpty, StopHasReason, NoneAfterShutdown,
      RelayServes, StreamsOnChild, ListeningIsBound
<1>3. CASE Rejected(s) \/ EndStream(s)
  <2>1. /\ stream' \in [Streams -> StreamStates] /\ Pending' = Pending \ {s} /\ Live' = Live \ {s}
    BY <1>3, MovedStream DEF Rejected, EndStream, StreamStates
  <2> QED
    BY <1>3, <2>1 DEF Rejected, EndStream, RelayTypes, StartIsEmpty, StopHasReason, NoneAfterShutdown,
      RelayServes, StreamsOnChild, ListeningIsBound
<1> QED
  BY <1>1, <1>2, <1>3

\* What a process reports, and a start that takes too long.
LEMMA RelayReports ==
  ASSUME RelayIInv, NEW p \in Procs, Ready(p) \/ Failed(p) \/ StartTimeout(p)
  PROVE  RelayIInv'
<1> USE DEF RelayIInv, callVars, streamVars
<1>1. UNCHANGED <<child, stopFlag, waiting, server, stream, on>> /\ state' \in States
  BY DEF Ready, Failed, StartTimeout, RelayTypes, States
<1>2. state' = state \/ state' # "starting"
  BY DEF Ready, Failed, StartTimeout
<1>3. ListeningIsBound'
  BY RelayAssumption DEF Ready, Failed, StartTimeout, RelayServes, ListeningIsBound, RelayTypes
<1> QED
  BY <1>1, <1>2, <1>3 DEF RelayTypes, StartIsEmpty, StopHasReason, NoneAfterShutdown, RelayServes,
    StreamsOnChild, Pending, Live

\* A start, whatever it follows, leaves a supervisor that waits for nobody's streams.
LEMMA StartKeeps ==
  ASSUME RelayIInv, NEW n \in Nat, NEW L, NEW timers, Start(n, L, timers),
         stream' = Ended(Pending \cup Live), UNCHANGED on, waiting' \in [Procs -> Nat],
         server' \in {"running", "shutting", "stopping", "stopped"}
  PROVE  RelayIInv'
<1>1. /\ stream' \in [Streams -> StreamStates]
      /\ Pending' = {} /\ Live' = {}
  <2>1. Pending \cup Live \in SUBSET Streams
    BY DEF Pending, Live
  <2> QED
    BY <2>1, EndedStreams DEF RelayIInv
<1>2. child' \in Procs /\ state' = "starting" /\ stopFlag' = FALSE
  BY DEF Start
<1> QED
  BY <1>1, <1>2 DEF RelayIInv, RelayTypes, States, StartIsEmpty, StopHasReason, NoneAfterShutdown,
    RelayServes, StreamsOnChild, ListeningIsBound

\* Nor does a supervisor that has no process any more.
LEMMA NoStartKeeps ==
  ASSUME RelayIInv, NEW L, NEW timers, NEW next \in States \ {"starting", "listening"},
         NoStart(L, timers, next), stream' = Ended(Pending \cup Live), UNCHANGED on,
         waiting' \in [Procs -> Nat], server' \in {"running", "shutting", "stopping", "stopped"}
  PROVE  RelayIInv'
<1>1. /\ stream' \in [Streams -> StreamStates]
      /\ Pending' = {} /\ Live' = {}
  <2>1. Pending \cup Live \in SUBSET Streams
    BY DEF Pending, Live
  <2> QED
    BY <2>1, EndedStreams DEF RelayIInv
<1> QED
  BY <1>1 DEF NoStart, RelayIInv, RelayTypes, States, StartIsEmpty, StopHasReason, NoneAfterShutdown,
    RelayServes, StreamsOnChild, ListeningIsBound

LEMMA RelayExits ==
  ASSUME RelayIInv, NEW p \in Procs, Exit(p)
  PROVE  RelayIInv'
<1> DEFINE timers == IF state = "starting" THEN armed \ {p} ELSE armed
<1> USE DEF RelayIInv
<1>1. CASE p # child
  BY <1>1, RelayAssumption DEF Exit, relayVars, RelayTypes, StartIsEmpty, StopHasReason,
    NoneAfterShutdown, RelayServes, StreamsOnChild, ListeningIsBound, Pending, Live
<1>2. CASE p = child
  <2>1. /\ waiting' \in [Procs -> Nat] /\ UNCHANGED on
        /\ server' \in {"running", "shutting", "stopping", "stopped"}
        /\ server' = "running" => server = "running"
    BY <1>2 DEF Exit, RelayTypes
  <2>2. CASE waiting[p] > 0
    <3>1. Start(waiting[p], running \ {p}, timers) /\ stream' = Ended(Pending \cup Live)
      BY <1>2, <2>2 DEF Exit, Restarted
    <3> QED
      BY <2>1, <3>1, StartKeeps DEF RelayTypes
  <2>3. CASE ~(waiting[p] > 0)
    <3>1. Handled(p, timers)
      BY <1>2, <2>3 DEF Exit
    <3>2. Start(1, running \ {p}, timers) /\ stream' = Ended(Pending \cup Live) => RelayIInv'
      BY <2>1, StartKeeps
    <3>3. (state = "starting" \/ stopFlag) => Live = {}
      BY <1>2, <2>3, RelayAssumption DEF StartIsEmpty, StopHasReason, NoneAfterShutdown
    <3>4. stream' = Ended(Pending \cup Live)
      <4>1. (state = "starting" \/ stopFlag) => stream' = Ended(Pending) /\ Pending \cup Live = Pending
        BY <3>1, <3>3 DEF Handled
      <4> QED
        BY <3>1, <4>1 DEF Handled
    <3>5. \/ Start(1, running \ {p}, timers)
          \/ \E next \in States \ {"starting", "listening"} : NoStart(running \ {p}, timers, next)
      BY <3>1 DEF Handled, States, RelayTypes
    <3> QED
      BY <2>1, <3>2, <3>4, <3>5, NoStartKeeps
  <2> QED
    BY <2>2, <2>3
<1> QED
  BY <1>1, <1>2

LEMMA RelayCallers ==
  ASSUME RelayIInv, ChangePort \/ Shutdown \/ StopRelay \/ WindowPasses
  PROVE  RelayIInv'
<1> USE DEF RelayIInv, procVars, relayVars, callVars, streamVars
<1>1. CASE ChangePort
  <2>1. CASE child = None
    BY <1>1, <2>1, StartKeeps DEF ChangePort, RelayTypes
  <2>2. CASE child # None
    <3>1. waiting' \in [Procs -> Nat] /\ waiting'[child] > 0
      BY <1>1, <2>2 DEF ChangePort, RelayTypes
    <3> QED
      BY <1>1, <2>2, <3>1 DEF ChangePort, RelayTypes, StartIsEmpty, StopHasReason, NoneAfterShutdown,
        RelayServes, StreamsOnChild, ListeningIsBound, Pending, Live
  <2> QED
    BY <2>1, <2>2
<1>2. CASE Shutdown
  <2>1. stream' \in [Streams -> StreamStates] /\ Pending' = Pending \ Live /\ Live' = Live \ Live
    <3>1. Live \in SUBSET Streams
      BY DEF Live
    <3> QED
      BY <1>2, <3>1, EndedStreams DEF Shutdown
  <2> QED
    BY <1>2, <2>1 DEF Shutdown, RelayTypes, StartIsEmpty, StopHasReason, NoneAfterShutdown, RelayServes,
      StreamsOnChild, ListeningIsBound
<1>3. CASE StopRelay
  BY <1>3 DEF StopRelay, RelayTypes, States, StartIsEmpty, StopHasReason, NoneAfterShutdown, RelayServes,
    StreamsOnChild, ListeningIsBound, Pending, Live
<1>4. CASE WindowPasses
  BY <1>4 DEF WindowPasses, RelayTypes, StartIsEmpty, StopHasReason, NoneAfterShutdown, RelayServes,
    StreamsOnChild, ListeningIsBound, Pending, Live
<1> QED
  BY <1>1, <1>2, <1>3, <1>4

LEMMA RelayStep == RelayIInv /\ [Next]_vars => RelayIInv'
<1> SUFFICES ASSUME RelayIInv, [Next]_vars PROVE RelayIInv'
  OBVIOUS
<1>1. CASE UNCHANGED vars
  BY <1>1 DEF vars, procVars, relayVars, callVars, streamVars, RelayIInv, RelayTypes, StartIsEmpty,
    StopHasReason, NoneAfterShutdown, RelayServes, StreamsOnChild, ListeningIsBound, Pending, Live
<1> QED
  BY <1>1, RelayReports, RelayExits, StreamsMove, RelayCallers DEF Next

\* An offer that waits for the relay, and a stream that is live, were given to the process the
\* supervisor has now, and offers go to a process that holds the media port: exits, restarts,
\* changes of the port, late answers and a shutdown in any order (media-relay.mjs).
THEOREM RelayKeepsServing == Spec => []RelayServes
<1>1. RelayIInv => RelayServes
  BY DEF RelayIInv
<1> QED
  BY InitRelay, RelayStep, <1>1, PTL DEF Spec

-----------------------------------------------------------------------------
(* The HTTPS listener. *)

\* The fingerprint the listener reports is that of the certificate it serves, and a closed listener
\* reports none, whatever attempts, renewals, errors and a close do (tls/listener.mjs).
THEOREM ReportsTheServed == TlsSpec => []ReportIsServed
<1>1. TlsInit => ReportIsServed
  BY DEF TlsInit, ReportIsServed
<1>2. ReportIsServed /\ [TlsNext]_tlsVars => ReportIsServed'
  <2> SUFFICES ASSUME ReportIsServed, [TlsNext]_tlsVars PROVE ReportIsServed'
    OBVIOUS
  <2>1. ASSUME NEW result, Run(result), shut' = shut, secure # NoCert => ~shut PROVE ReportIsServed'
    BY <2>1 DEF Run, Rotate, ReportIsServed
  <2>2. CASE RecheckAny
    BY <2>1, <2>2 DEF RecheckAny, Recheck, ReportIsServed
  <2>3. ASSUME NEW r \in Asks, Regenerate(r) PROVE ReportIsServed'
    BY <2>1, <2>3 DEF Regenerate, ReportIsServed
  <2>4. CASE RunQueued
    BY <2>1, <2>4 DEF RunQueued, ReportIsServed
  <2>5. CASE Listens \/ BindFails \/ ListenerError \/ Close \/ Ages \/ OperatorReplaces
    BY <2>5 DEF Listens, Late, BindFails, ListenerError, Close, Ages, OperatorReplaces, ReportIsServed
  <2>6. CASE UNCHANGED tlsVars
    BY <2>6 DEF tlsVars, ReportIsServed
  <2> QED
    BY <2>2, <2>3, <2>4, <2>5, <2>6 DEF TlsNext
<1> QED
  BY <1>1, <1>2, PTL DEF TlsSpec

CertFiles == [first : Certs \cup {NoCert}, second : Certs \cup {NoCert}]

Attempts == [by : Asks, joins : BOOLEAN]

AskRecord == [at : {"new", "waiting", "running", "ok", "no"}, had : SUBSET (Certs \cup {NoCert})]

TlsTypes ==
  /\ disk \in CertFiles
  /\ secure \in Certs \cup {NoCert} /\ binding \in Certs \cup {NoCert}
  /\ queue \in Seq(Attempts) /\ asked \in [Asks -> AskRecord] /\ failed \in BOOLEAN

\* Attempts of the queue are of commands that came while a certificate could be generated, and
\* only the head can be under way.
QueuedAttempts ==
  /\ queue # <<>> => strategy \notin {"provided", "off"}
  /\ \A i \in 1..Len(queue) : asked[queue[i].by].at # "new" /\ (queue[i].joins => i = 1)

\* The command whose attempt is under way, or has just ended, is answered by a certificate it did
\* not know.
AttemptIsNew ==
  queue # <<>> /\ queue[1].joins =>
    LET had == asked[queue[1].by].had
    IN /\ binding # NoCert => binding \notin had
       /\ binding = NoCert => secure = NoCert \/ failed \/ secure \notin had

\* Nothing is served while a new server is being bound.
BindsAlone == binding # NoCert => secure = NoCert

RenewIInv == TlsTypes /\ QueuedAttempts /\ AttemptIsNew /\ BindsAlone

\* The step of RegeneratedIsNew.
ServesNew ==
  \A r \in Asks : asked'[r].at = "ok" /\ asked[r].at # "ok"
                     => secure' \notin asked'[r].had \cup {NoCert}

\* What a forced attempt serves is new to every command.
LEMMA ForcedIsNew ==
  ASSUME TlsTypes, strategy \notin {"provided", "off"}, NEW result \in Provision(TRUE), ~Fails(result)
  PROVE  /\ Matched(result.cred)
         /\ result.cred.first \notin {NoCert, disk.first, secure, binding}
         /\ \A r \in Asks : result.cred.first \notin asked[r].had
<1>1. PICK c \in Fresh : result.cred = Pair(c)
  BY DEF Provision, SelfSigned, Windows, Mkcert, WithoutRoot, Exported, Unusable, Result, Nothing, Fails
<1>2. c \notin {disk.first, secure, binding} /\ c \in Certs
  BY DEF Fresh, Held
<1>3. \A r \in Asks : c \notin asked[r].had
  BY DEF Fresh, Held
<1> QED
  BY <1>1, <1>2, <1>3, TlsAssumption DEF Pair, Matched

\* What provisioning may leave and give.
LEMMA ProvisionTypes ==
  ASSUME TlsTypes, NEW force \in BOOLEAN, NEW result \in Provision(force)
  PROVE  result.cred \in CertFiles /\ result.files \in CertFiles
<1>1. Fresh \subseteq Certs
  BY DEF Fresh
<1>2. /\ Nothing \in CertFiles /\ disk \in CertFiles
      /\ \A c \in Certs : /\ Pair(c) \in CertFiles /\ [disk EXCEPT !.first = c] \in CertFiles
                          /\ Exported(c) \subseteq CertFiles
  BY DEF TlsTypes, CertFiles, Nothing, Pair, Exported
<1>3. Kept.cred = disk /\ Kept.files = disk /\ Unusable.cred = Nothing /\ Unusable.files = disk
  BY DEF Kept, Unusable, Result
<1>4. ASSUME NEW c \in Certs, NEW f \in CertFiles, NEW cred, cred \in {Nothing, Pair(c)},
             result = Result(cred, f, {c})
      PROVE  result.cred \in CertFiles /\ result.files \in CertFiles
  BY <1>2, <1>4 DEF Result
<1>5. CASE strategy = "self-signed" /\ result \notin {Kept, Unusable}
  <2>1. PICK c \in Fresh : result \in {Result(Pair(c), Pair(c), {c}),
                                      Result(Nothing, [disk EXCEPT !.first = c], {c})}
    BY <1>5 DEF Provision, SelfSigned
  <2> QED
    BY <1>1, <1>2, <1>4, <2>1
<1>6. CASE strategy = "windows" /\ result \notin {Kept, Unusable}
  <2>1. PICK c \in Fresh :
          \E f \in Exported(c) : result \in {Result(Pair(c), f, {c}), Result(Nothing, f, {c})}
    BY <1>6 DEF Provision, Windows
  <2> QED
    BY <1>1, <1>2, <1>4, <2>1
<1>7. CASE strategy = "mkcert" /\ result \notin {Kept, Unusable}
  <2>1. PICK c \in Fresh : result \in {Result(Pair(c), Pair(c), {c}), Result(Nothing, Pair(c), {c}),
                                      Result(Nothing, [disk EXCEPT !.first = c], {c})}
    BY <1>7 DEF Provision, Mkcert, WithoutRoot
  <2> QED
    BY <1>1, <1>2, <1>4, <2>1
<1>8. CASE strategy \notin {"self-signed", "windows", "mkcert"}
  BY <1>2, <1>3, <1>8 DEF Provision, Provided
<1> QED
  BY <1>2, <1>3, <1>5, <1>6, <1>7, <1>8

LEMMA RunTypes ==
  ASSUME TlsTypes, BindsAlone, binding = NoCert, NEW force \in BOOLEAN, NEW result \in Provision(force), Run(result)
  PROVE  /\ disk' \in CertFiles /\ secure' \in Certs \cup {NoCert} /\ binding' \in Certs \cup {NoCert}
         /\ failed' \in BOOLEAN /\ BindsAlone'
<1>1. result.cred.first \in Certs \cup {NoCert} /\ result.files \in CertFiles
  BY ProvisionTypes DEF CertFiles
<1> QED
  BY <1>1 DEF Run, Rotate, TlsTypes, BindsAlone

\* A forced attempt that ends at once serves a certificate that is new, or says that it failed.
LEMMA ForcedRun ==
  ASSUME TlsTypes, binding = NoCert, strategy \notin {"provided", "off"},
         NEW result \in Provision(TRUE), Run(result), NEW r \in Asks
  PROVE  /\ binding' # NoCert => binding' \notin asked[r].had \cup Known
         /\ binding' = NoCert => failed' \/ secure' \notin asked[r].had \cup Known \cup {NoCert}
BY ForcedIsNew DEF Run, Rotate, Known, TlsTypes

LEMMA InitRenew == TlsInit => RenewIInv
<1> SUFFICES ASSUME TlsInit PROVE RenewIInv
  OBVIOUS
<1>1. NotAsked \in AskRecord
  BY DEF NotAsked, AskRecord
<1>2. disk \in CertFiles
  BY TlsAssumption DEF TlsInit, OldFiles, CertFiles
<1>3. /\ secure = NoCert /\ binding = NoCert /\ queue = <<>> /\ asked = [r \in Asks |-> NotAsked]
      /\ failed = FALSE
  BY DEF TlsInit
<1>4. TlsTypes
  <2>1. queue \in Seq(Attempts) /\ asked \in [Asks -> AskRecord]
    BY <1>1, <1>3
  <2> QED
    BY <1>2, <1>3, <2>1 DEF TlsTypes
<1> QED
  BY <1>3, <1>4 DEF RenewIInv, QueuedAttempts, AttemptIsNew, BindsAlone

\* Attempts that are nobody's: the re-check, which nothing waits behind when it starts.
LEMMA RecheckRenews ==
  ASSUME RenewIInv, RecheckAny
  PROVE  RenewIInv' /\ ServesNew
<1>1. PICK result \in Provision(FALSE) : Recheck(result)
  BY DEF RecheckAny
<1>2. binding = NoCert /\ queue = <<>> /\ UNCHANGED <<queue, asked, strategy>>
  BY <1>1 DEF Recheck, InFlight
<1> QED
  BY <1>1, <1>2, RunTypes DEF Recheck, RenewIInv, TlsTypes, QueuedAttempts, AttemptIsNew, ServesNew

LEMMA RegenerateRenews ==
  ASSUME RenewIInv, NEW r \in Asks, Regenerate(r)
  PROVE  RenewIInv' /\ ServesNew
<1> DEFINE ask(at) == [at |-> at, had |-> Known]
<1> USE DEF RenewIInv
<1>1. Known \subseteq Certs \cup {NoCert} /\ asked[r].at = "new" /\ strategy \notin {"provided", "off"}
  BY DEF Regenerate, Known, TlsTypes, CertFiles
<1>2. \A i \in 1..Len(queue) : queue[i].by # r /\ queue[i].by \in Asks
  <2>1. \A i \in 1..Len(queue) : queue[i] \in Attempts
    BY DEF TlsTypes
  <2> QED
    BY <1>1, <2>1 DEF QueuedAttempts, Attempts
<1>3. \A at \in {"waiting", "running", "ok", "no"} : ask(at) \in AskRecord
  BY <1>1 DEF AskRecord
<1>4. CASE InFlight
  <2>1. /\ queue' = Append(queue, [by |-> r, joins |-> FALSE])
        /\ asked' = [asked EXCEPT ![r] = ask("waiting")]
        /\ UNCHANGED <<disk, secure, binding, failed, strategy>>
    BY <1>4 DEF Regenerate, Joins
  <2>2. TlsTypes' /\ asked'[r] = ask("waiting") /\ \A q \in Asks \ {r} : asked'[q] = asked[q]
    BY <1>3, <2>1 DEF TlsTypes, Attempts
  <2>3. /\ Len(queue') = Len(queue) + 1 /\ queue'[Len(queue) + 1] = [by |-> r, joins |-> FALSE]
        /\ \A i \in 1..Len(queue) : queue'[i] = queue[i]
    BY <2>1 DEF TlsTypes
  <2>4. QueuedAttempts'
    BY <1>1, <1>2, <2>1, <2>2, <2>3 DEF QueuedAttempts, TlsTypes
  <2>5. AttemptIsNew'
    <3>1. CASE queue = <<>>
      BY <2>3, <3>1 DEF AttemptIsNew
    <3>2. CASE queue # <<>>
      <4>1. 1 \in 1..Len(queue)
        BY <3>2 DEF TlsTypes
      <4> QED
        BY <1>2, <2>1, <2>2, <2>3, <3>2, <4>1 DEF AttemptIsNew
    <3> QED
      BY <3>1, <3>2
  <2> QED
    BY <2>1, <2>2, <2>4, <2>5 DEF BindsAlone, ServesNew
<1>5. CASE ~InFlight
  <2>1. binding = NoCert /\ queue = <<>>
    BY <1>5 DEF InFlight
  <2>2. PICK result \in Provision(TRUE) :
          LET now == [asked EXCEPT ![r] = ask("running")]
          IN /\ Run(result)
             /\ queue' = IF binding' = NoCert THEN queue ELSE <<[by |-> r, joins |-> TRUE]>>
             /\ asked' = IF binding' = NoCert THEN Reply(now, r, secure' # NoCert) ELSE now
    BY <1>5 DEF Regenerate
  <2>3. /\ binding' # NoCert => binding' \notin Known
        /\ binding' = NoCert => failed' \/ secure' \notin Known \cup {NoCert}
    BY <1>1, <2>1, <2>2, ForcedRun
  <2>4. PICK at \in {"running", "ok", "no"} :
          /\ asked' = [asked EXCEPT ![r] = ask(at)]
          /\ at = "ok" => binding' = NoCert /\ secure' # NoCert /\ ~failed'
    <3>1. CASE binding' = NoCert
      <4>1. asked' = [asked EXCEPT ![r] = ask(IF secure' # NoCert /\ ~failed' THEN "ok" ELSE "no")]
        BY <2>2, <3>1 DEF Reply, TlsTypes
      <4> QED
        BY <3>1, <4>1
    <3>2. CASE binding' # NoCert
      BY <2>2, <3>2
    <3> QED
      BY <3>1, <3>2
  <2>5. asked' \in [Asks -> AskRecord] /\ asked'[r] = ask(at) /\ \A q \in Asks \ {r} : asked'[q] = asked[q]
    BY <1>3, <2>4 DEF TlsTypes
  <2>6. queue' \in Seq(Attempts) /\ (queue' # <<>> => queue' = <<[by |-> r, joins |-> TRUE]>> /\ binding' # NoCert)
    <3>1. [by |-> r, joins |-> TRUE] \in Attempts
      BY DEF Attempts
    <3>2. <<[by |-> r, joins |-> TRUE]>> \in Seq(Attempts) /\ queue \in Seq(Attempts)
      BY <3>1 DEF TlsTypes
    <3> QED
      BY <2>1, <2>2, <3>2
  <2>7. TlsTypes' /\ BindsAlone'
    BY <2>1, <2>2, <2>5, <2>6, RunTypes DEF TlsTypes
  <2>8. QueuedAttempts'
    <3>1. strategy' = strategy
      BY DEF Regenerate
    <3>2. asked'[r].at # "new"
      BY <2>5
    <3> QED
      BY <1>1, <2>6, <3>1, <3>2 DEF QueuedAttempts
  <2>9. AttemptIsNew'
    BY <2>3, <2>5, <2>6 DEF AttemptIsNew
  <2>10. ServesNew
    BY <2>3, <2>4, <2>5 DEF ServesNew
  <2> QED
    BY <2>7, <2>8, <2>9, <2>10
<1> QED
  BY <1>4, <1>5

\* The attempt at the head of the queue is ready to go on.
LEMMA HeadOfQueue ==
  ASSUME RenewIInv, RunQueued
  PROVE  /\ binding = NoCert /\ queue # <<>> /\ strategy \notin {"provided", "off"} /\ strategy' = strategy
         /\ Head(queue) = queue[1] /\ 1 \in 1..Len(queue) /\ queue[1] \in Attempts
         /\ queue[1].by \in Asks /\ asked[queue[1].by].at # "new"
<1>1. /\ binding = NoCert /\ queue # <<>> /\ strategy \notin {"provided", "off"} /\ strategy' = strategy
      /\ Head(queue) = queue[1] /\ 1 \in 1..Len(queue) /\ queue[1] \in Attempts
  BY DEF RunQueued, QueuedAttempts, TlsTypes, RenewIInv
<1> QED
  BY <1>1 DEF QueuedAttempts, Attempts, RenewIInv

\* The head leaves the queue with an answer that says "ok" only of a new certificate.
HeadAnswered(at) ==
  /\ queue' = Tail(queue)
  /\ asked' = [asked EXCEPT ![queue[1].by].at = at]
  /\ at = "ok" => secure' # NoCert /\ secure' \notin asked[queue[1].by].had

LEMMA HeadLeaves ==
  ASSUME RenewIInv, RunQueued, NEW at \in {"ok", "no"}, HeadAnswered(at)
  PROVE  /\ asked' \in [Asks -> AskRecord] /\ queue' \in Seq(Attempts)
         /\ QueuedAttempts' /\ AttemptIsNew' /\ ServesNew
<1> DEFINE r == queue[1].by
<1> USE DEF RenewIInv
<1>1. /\ queue' \in Seq(Attempts) /\ Len(queue') = Len(queue) - 1
      /\ \A i \in 1..Len(queue') : queue'[i] = queue[i + 1]
  BY HeadOfQueue DEF TlsTypes, HeadAnswered
<1>2. r \in Asks /\ asked[r].at # "new"
  BY HeadOfQueue
<1>3. /\ asked' \in [Asks -> AskRecord]
      /\ asked'[r] = [at |-> at, had |-> asked[r].had] /\ \A q \in Asks \ {r} : asked'[q] = asked[q]
  BY <1>2 DEF TlsTypes, AskRecord, HeadAnswered
<1>4. \A i \in 1..Len(queue') : /\ queue'[i] = queue[i + 1] /\ queue[i + 1].by \in Asks
                                 /\ ~queue'[i].joins /\ asked[queue[i + 1].by].at # "new"
  <2>1. \A i \in 1..Len(queue') : i + 1 \in 1..Len(queue) /\ i + 1 # 1 /\ queue'[i] = queue[i + 1]
    BY <1>1 DEF TlsTypes
  <2>2. \A i \in 1..Len(queue) : queue[i] \in Attempts
    BY DEF TlsTypes
  <2> QED
    BY <2>1, <2>2 DEF QueuedAttempts, Attempts
<1>5. QueuedAttempts'
  <2>1. strategy' \notin {"provided", "off"}
    BY HeadOfQueue
  <2>2. ASSUME NEW i \in 1..Len(queue') PROVE asked'[queue'[i].by].at # "new" /\ ~queue'[i].joins
    <3>1. PICK q \in Asks : q = queue'[i].by /\ asked[q].at # "new" /\ ~queue'[i].joins
      BY <1>4
    <3>2. asked'[q].at # "new"
      BY <1>3, <3>1
    <3> QED
      BY <3>1, <3>2
  <2> QED
    BY <2>1, <2>2 DEF QueuedAttempts
<1>6. AttemptIsNew'
  <2>1. queue' # <<>> => 1 \in 1..Len(queue')
    BY <1>1
  <2> QED
    BY <1>4, <2>1 DEF AttemptIsNew
<1>7. ServesNew
  BY <1>3 DEF ServesNew, HeadAnswered
<1> QED
  BY <1>1, <1>3, <1>5, <1>6, <1>7

LEMMA QueuedRenews ==
  ASSUME RenewIInv, RunQueued
  PROVE  RenewIInv' /\ ServesNew
<1> DEFINE r == queue[1].by
<1> USE DEF RenewIInv
<1>1. CASE queue[1].joins
  <2>1. /\ asked' = [asked EXCEPT ![r].at = IF secure # NoCert /\ ~failed THEN "ok" ELSE "no"]
        /\ queue' = Tail(queue) /\ disk' = disk /\ secure' = secure /\ binding' = binding /\ failed' = failed
    BY <1>1, HeadOfQueue DEF RunQueued
  <2>2. secure = NoCert \/ failed \/ secure \notin asked[r].had
    BY <1>1, HeadOfQueue DEF AttemptIsNew
  <2>3. CASE secure # NoCert /\ ~failed
    <3>1. HeadAnswered("ok")
      BY <2>1, <2>2, <2>3 DEF HeadAnswered
    <3> QED
      BY <2>1, <3>1, HeadLeaves DEF TlsTypes, BindsAlone
  <2>4. CASE ~(secure # NoCert /\ ~failed)
    <3>1. HeadAnswered("no")
      BY <2>1, <2>4 DEF HeadAnswered
    <3> QED
      BY <2>1, <3>1, HeadLeaves DEF TlsTypes, BindsAlone
  <2> QED
    BY <2>3, <2>4
<1>2. CASE ~queue[1].joins
  <2>1. PICK result \in Provision(TRUE) :
          /\ Run(result)
          /\ IF binding' = NoCert
             THEN queue' = Tail(queue) /\ asked' = Reply(asked, r, secure' # NoCert)
             ELSE queue' = [queue EXCEPT ![1] = [by |-> r, joins |-> TRUE]] /\ UNCHANGED asked
    BY <1>2, HeadOfQueue DEF RunQueued
  <2>2. /\ binding' # NoCert => binding' \notin asked[r].had
        /\ binding' = NoCert => failed' \/ secure' \notin asked[r].had \cup {NoCert}
    BY <2>1, HeadOfQueue, ForcedRun
  <2>3. /\ disk' \in CertFiles /\ secure' \in Certs \cup {NoCert} /\ binding' \in Certs \cup {NoCert}
        /\ failed' \in BOOLEAN /\ BindsAlone'
    BY <2>1, HeadOfQueue, RunTypes
  <2>4. CASE binding' = NoCert
    <3>1. /\ asked' = [asked EXCEPT ![r].at = IF secure' # NoCert /\ ~failed' THEN "ok" ELSE "no"]
          /\ queue' = Tail(queue)
      BY <2>1, <2>4, HeadOfQueue DEF Reply
    <3>2. CASE secure' # NoCert /\ ~failed'
      <4>1. HeadAnswered("ok")
        BY <2>2, <2>4, <3>1, <3>2 DEF HeadAnswered
      <4> QED
        BY <2>3, <4>1, HeadLeaves DEF TlsTypes
    <3>3. CASE ~(secure' # NoCert /\ ~failed')
      <4>1. HeadAnswered("no")
        BY <3>1, <3>3 DEF HeadAnswered
      <4> QED
        BY <2>3, <4>1, HeadLeaves DEF TlsTypes
    <3> QED
      BY <3>2, <3>3
  <2>5. CASE binding' # NoCert
    <3>1. queue' = [queue EXCEPT ![1] = [by |-> r, joins |-> TRUE]] /\ asked' = asked
      BY <2>1, <2>5
    <3>2. /\ queue' \in Seq(Attempts)
          /\ Len(queue') = Len(queue) /\ queue'[1] = [by |-> r, joins |-> TRUE]
          /\ \A i \in 2..Len(queue) : queue'[i] = queue[i]
      <4>1. [by |-> r, joins |-> TRUE] \in Attempts
        BY HeadOfQueue DEF Attempts
      <4>2. queue \in Seq(Attempts) /\ 1 \in 1..Len(queue)
        BY HeadOfQueue DEF TlsTypes
      <4>3. PICK x \in Attempts : x = [by |-> r, joins |-> TRUE]
        BY <4>1
      <4>4. queue' = [queue EXCEPT ![1] = x]
        BY <3>1, <4>3
      <4>5. /\ queue' \in Seq(Attempts) /\ Len(queue') = Len(queue)
            /\ \A j \in 1..Len(queue) : queue'[j] = IF j = 1 THEN x ELSE queue[j]
        BY <4>2, <4>4, ExceptSeq
      <4>6. queue'[1] = x
        BY <4>2, <4>5
      <4>7. \A i \in 2..Len(queue) : queue'[i] = queue[i]
        <5>1. Len(queue) \in Nat
          BY <4>2
        <5> QED
          BY <4>5, <5>1
      <4> QED
        BY <4>3, <4>5, <4>6, <4>7, Zenon
    <3>3. QueuedAttempts'
      BY <3>1, <3>2, HeadOfQueue DEF QueuedAttempts, TlsTypes
    <3>4. AttemptIsNew' /\ ServesNew
      BY <2>2, <2>5, <3>1, <3>2 DEF AttemptIsNew, ServesNew
    <3> QED
      BY <2>3, <3>1, <3>2, <3>3, <3>4 DEF TlsTypes
  <2> QED
    BY <2>4, <2>5
<1> QED
  BY <1>1, <1>2

\* What happens to the listener, its port and its certificates meanwhile.
LEMMA ListenerRenews ==
  ASSUME RenewIInv,
         Listens \/ BindFails \/ ListenerError \/ Close \/ Ages \/ OperatorReplaces \/ UNCHANGED tlsVars
  PROVE  RenewIInv' /\ ServesNew
<1>1. UNCHANGED <<strategy, queue, asked>>
  BY DEF Listens, BindFails, ListenerError, Close, Ages, OperatorReplaces, tlsVars
<1>2. OldFiles \subseteq CertFiles
  BY TlsAssumption DEF OldFiles, CertFiles
<1>3. /\ disk' \in CertFiles /\ secure' \in Certs \cup {NoCert} /\ binding' \in Certs \cup {NoCert}
      /\ failed' \in BOOLEAN
  BY <1>2 DEF Listens, BindFails, ListenerError, Close, Ages, OperatorReplaces, tlsVars, RenewIInv, TlsTypes
<1>4. /\ binding' = binding \/ binding' = NoCert
      /\ secure' = secure \/ secure' = NoCert \/ (binding # NoCert /\ secure' = binding /\ binding' = NoCert)
      /\ failed' \/ (failed' = failed /\ binding' = binding) \/ secure' = NoCert
         \/ (binding # NoCert /\ secure' = binding /\ binding' = NoCert)
         \/ (binding # NoCert /\ secure' = secure)
  BY DEF Listens, BindFails, ListenerError, Close, Ages, OperatorReplaces, tlsVars
<1>5. AttemptIsNew' /\ BindsAlone'
  BY <1>1, <1>4 DEF RenewIInv, AttemptIsNew, BindsAlone
<1> QED
  BY <1>1, <1>3, <1>5 DEF RenewIInv, TlsTypes, QueuedAttempts, ServesNew

\* The host is told that its certificate was regenerated only when one is served that was not there
\* when it asked, whatever attempt was under way, waits or ends first (tls/listener.mjs,
\* owner-commands.mjs).
THEOREM RenewalIsNew == TlsSpec => RegeneratedIsNew
<1>1. RenewIInv /\ [TlsNext]_tlsVars => RenewIInv' /\ ServesNew
  BY RecheckRenews, RegenerateRenews, QueuedRenews, ListenerRenews DEF TlsNext
<1>2. RenewIInv /\ [TlsNext]_tlsVars => [ServesNew]_tlsVars
  BY <1>1
<1> QED
  BY InitRenew, <1>1, <1>2, PTL DEF TlsSpec, RegeneratedIsNew, ServesNew

-----------------------------------------------------------------------------
(* The life of the server and its HTTP listeners. *)

ReplyRecord ==
  [net : Nets \cup {Nobody}, allow : BOOLEAN,
   at : {"new", "queued", "refreshing", "reconciling", "done", "failed"}]

WorkRecord == [wants : SUBSET Hosts, host : Hosts \cup {Nobody}, does : {"next", "bind", "stop"}]

Entry == [op : {"sync", "close"}, by : Answers \cup {"start", "timer", "stop"}]

LifeTypes ==
  /\ phase \in {"approval", "relay", "binding", "running", "failed", "over"}
  /\ halt \in {"no", "runtime", "relay", "http", "tls", "done"} /\ closed \in {"no", "asked", "done"}
  /\ present \subseteq Nets /\ scope \subseteq Nets /\ sockets \subseteq Hosts
  /\ decided \in [Nets -> {"unknown", "allow", "deny"}]
  /\ reply \in [Answers -> ReplyRecord]
  /\ \A a \in Answers : reply[a].at # "new" => reply[a].net \in Nets
  /\ line \in Seq(Entry)
  /\ work \in WorkRecord \cup {NoWork}

\* The queue: synchronizations come after http.start, and one for each answer that waits for it.
LineInv ==
  /\ \A i \in 1..Len(line) : line[i].op = "sync" => Started
  /\ \A i \in 1..Len(line) : line[i].op = "close" => closed # "no"
  /\ \A i \in 1..Len(line) : line[i].by \in Answers => reply[line[i].by].at = "reconciling"
  /\ \A i, j \in 1..Len(line) : line[i].by \in Answers /\ line[i].by = line[j].by => i = j

\* Work is of the synchronization at the head, which binds what it wants.
WorkInv ==
  work # NoWork => /\ Running("sync") /\ Loop \in work.wants
                   /\ work.does = "bind" => work.host \in work.wants

\* What holds before http.start, and after the listeners were closed.
Unbound == sockets = {} /\ work = NoWork

PhaseInv ==
  /\ phase = "approval" => halt = "no" /\ ~listed /\ line = <<>>
  /\ ~Started \/ closed = "done" => Unbound
  /\ halt = "no" => closed = "no"
  /\ halt = "tls" => closed = "done"
  /\ ~listed => closed = "done" \/ (phase \in {"approval", "over"} /\ line = <<>>)

\* Answers about a network on their way to the listeners.
Awaiting(n) == {b \in Answers : reply[b].net = n /\ reply[b].at \in {"refreshing", "reconciling"}}

\* A refused network that is in the scope, bound or about to be is one whose refusal is on its way:
\* in the scope until the detection ends, in what an operation wants until the next operation.
DeniedInv ==
  halt = "no" => \A n \in Nets : decided[n] = "deny" =>
    /\ n \in scope => \E b \in Awaiting(n) : reply[b].at = "refreshing"
    /\ n \in sockets => Awaiting(n) # {}
    /\ work # NoWork /\ n \in work.wants => Awaiting(n) \ {Head(line).by} # {}

LifeIInv == LifeTypes /\ LineInv /\ WorkInv /\ PhaseInv /\ DeniedInv

LEMMA InvListens == LifeIInv => ListensWhereAllowed
<1> SUFFICES ASSUME LifeIInv PROVE ListensWhereAllowed
  OBVIOUS
<1> USE DEF LifeIInv
<1>1. StoppedServesNobody
  BY DEF PhaseInv, Unbound, Started, StoppedServesNobody
<1>2. RefusedIsUnbound
  <2> SUFFICES ASSUME NEW a \in Answers, reply[a].at = "done", decided[reply[a].net] = "deny", halt = "no",
                      \A b \in Answers \ {a} : reply[b].net = reply[a].net
                                              => reply[b].at \in {"queued", "done", "failed"}
               PROVE  reply[a].net \notin sockets
    BY DEF RefusedIsUnbound
  <2>1. reply[a].net \in Nets /\ Awaiting(reply[a].net) = {}
    BY DEF LifeTypes, Awaiting
  <2> QED
    BY <2>1 DEF DeniedInv
<1> QED
  BY <1>1, <1>2 DEF ListensWhereAllowed

LEMMA InitLife == LifeInit => LifeIInv
<1> SUFFICES ASSUME LifeInit PROVE LifeIInv
  OBVIOUS
<1>1. NoReply \in ReplyRecord /\ NoReply.at = "new"
  BY DEF NoReply, ReplyRecord
<1>2. LifeTypes
  <2>1. line \in Seq(Entry) /\ reply \in [Answers -> ReplyRecord] /\ \A a \in Answers : reply[a].at = "new"
    BY <1>1 DEF LifeInit
  <2> QED
    BY <2>1 DEF LifeInit, LifeTypes
<1>3. LineInv /\ WorkInv /\ PhaseInv /\ DeniedInv
  BY DEF LifeInit, LineInv, WorkInv, PhaseInv, Unbound, DeniedInv
<1> QED
  BY <1>2, <1>3 DEF LifeIInv

\* An operation that is nobody's answer joins the queue.
LEMMA LineGrows ==
  ASSUME LifeTypes, LineInv, NEW x \in Entry, x.by \notin Answers, x.op = "sync" => Started',
         x.op = "close" => closed' # "no", closed # "no" => closed' # "no",
         line' = Append(line, x), UNCHANGED reply, Started => Started'
  PROVE  line' \in Seq(Entry) /\ LineInv' /\ (line # <<>> => Head(line') = Head(line))
<1>1. /\ line' \in Seq(Entry) /\ Len(line') = Len(line) + 1 /\ line'[Len(line) + 1] = x
      /\ \A i \in 1..Len(line) : line'[i] = line[i]
  BY AppendProperties DEF LifeTypes
<1>2. Len(line) \in Nat /\ (line # <<>> => Head(line) = line[1] /\ Head(line') = line'[1] /\ 1 \in 1..Len(line))
  BY <1>1 DEF LifeTypes
<1> QED
  BY <1>1, <1>2 DEF LineInv

\* The head leaves the queue, and its answer is done.
LEMMA LineShrinks ==
  ASSUME LifeTypes, LineInv, line # <<>>, line' = Tail(line), Started => Started', closed # "no" => closed' # "no",
         \A b \in Answers \ {Head(line).by} : reply'[b] = reply[b]
  PROVE  line' \in Seq(Entry) /\ LineInv'
<1>1. /\ line' \in Seq(Entry) /\ Len(line') = Len(line) - 1 /\ Len(line) \in Nat /\ Head(line) = line[1]
      /\ \A i \in 1..Len(line') : line'[i] = line[i + 1] /\ i + 1 \in 1..Len(line) /\ 1 \in 1..Len(line)
  BY HeadTailProperties DEF LifeTypes
<1>2. \A i \in 1..Len(line') : line[i + 1].by \in Answers => line[i + 1].by # Head(line).by
  BY <1>1 DEF LineInv
<1> QED
  BY <1>1, <1>2 DEF LineInv

\* The callers of a detection that has ended join the queue, each once, and none was in it.
LEMMA LineReconciles ==
  ASSUME LifeTypes, LineInv, Started, Started', UNCHANGED closed,
         NEW callers \in SUBSET (Answers \cup {"timer"}), Reconciles(callers),
         \A b \in callers \cap Answers : reply[b].at = "refreshing" /\ reply'[b].at = "reconciling",
         \A b \in Answers \ callers : reply'[b] = reply[b]
  PROVE  line' \in Seq(Entry) /\ LineInv' /\ (line # <<>> => line' # <<>> /\ Head(line') = Head(line))
<1>1. PICK order \in [1..Cardinality(callers) -> callers] :
        /\ \A i, j \in DOMAIN order : order[i] = order[j] => i = j
        /\ line' = line \o [i \in DOMAIN order |-> [op |-> "sync", by |-> order[i]]]
  BY DEF Reconciles
<1> DEFINE n == Cardinality(callers)
           len == Len(line)
<1>2. n \in Nat /\ len \in Nat
  <2>1. IsFiniteSet(Answers \cup {"timer"})
    BY LifeAssumption, FS_Singleton, FS_Union
  <2> QED
    BY <2>1, FS_Subset, FS_CardinalityType DEF LifeTypes
<1>3. PICK new : new = [i \in 1..n |-> [op |-> "sync", by |-> order[i]]]
  OBVIOUS
<1>4. /\ line' \in Seq(Entry) /\ Len(line') = len + n
      /\ \A i \in 1..(len + n) : line'[i] = IF i <= len THEN line[i] ELSE new[i - len]
  <2>1. \A i \in 1..n : [op |-> "sync", by |-> order[i]] \in Entry
    BY <1>1 DEF Entry
  <2>2. new \in [1..n -> Entry]
    BY <1>3, <2>1
  <2>3. new \in Seq(Entry) /\ Len(new) = n
    BY <1>2, <2>2, LenProperties
  <2>4. line' = line \o new
    BY <1>1, <1>3
  <2> QED
    BY <2>3, <2>4, ConcatProperties DEF LifeTypes
<1>5. \A i \in 1..len : line'[i] = line[i] /\ i \in 1..Len(line')
  BY <1>2, <1>4
<1>6. \A i \in 1..Len(line') : i > len =>
        /\ i - len \in 1..n /\ line'[i].by = order[i - len] /\ order[i - len] \in callers
        /\ line'[i].op = "sync"
  <2> SUFFICES ASSUME NEW i \in 1..Len(line'), i > len
               PROVE  /\ i - len \in 1..n /\ line'[i].by = order[i - len] /\ order[i - len] \in callers
                      /\ line'[i].op = "sync"
    OBVIOUS
  <2>1. i - len \in 1..n /\ line'[i] = new[i - len]
    BY <1>2, <1>4
  <2> QED
    BY <1>1, <1>3, <2>1
<1>7. \A i \in 1..len : line[i].by \in Answers => line[i].by \notin callers
  BY DEF LineInv
<1>8. \A i \in 1..Len(line') : i <= len => i \in 1..len
  BY <1>2, <1>3, <1>4
<1>9. \A i \in 1..Len(line') : line'[i].by \in Answers => reply'[line'[i].by].at = "reconciling"
  BY <1>2, <1>5, <1>6, <1>7, <1>8 DEF LineInv
<1>10. ASSUME NEW i \in 1..Len(line'), NEW j \in 1..Len(line'), line'[i].by \in Answers,
              line'[i].by = line'[j].by
       PROVE  i = j
  <2>1. CASE i <= len /\ j <= len
    BY <1>5, <1>8, <1>10, <2>1 DEF LineInv
  <2>2. CASE i > len /\ j > len
    <3>1. order[i - len] = order[j - len] /\ i - len \in DOMAIN order /\ j - len \in DOMAIN order
      BY <1>1, <1>6, <1>10, <2>2
    <3>2. i - len = j - len
      BY <1>1, <3>1
    <3> QED
      BY <1>3, <3>2
  <2>3. CASE (i <= len /\ j > len) \/ (i > len /\ j <= len)
    BY <1>5, <1>6, <1>7, <1>8, <1>10, <2>3
  <2> QED
    BY <1>3, <2>1, <2>2, <2>3
<1>11. line # <<>> => line' # <<>> /\ Head(line') = Head(line)
  <2>1. line # <<>> => 1 \in 1..len /\ Head(line) = line[1]
    BY DEF LifeTypes
  <2>2. line # <<>> => line' # <<>> /\ Head(line') = line'[1]
    BY <1>2, <1>4, <2>1
  <2> QED
    BY <1>5, <2>1, <2>2
<1>12. \A i \in 1..Len(line') : line'[i].op = "close" => closed' # "no"
  BY <1>2, <1>5, <1>6, <1>8 DEF LineInv
<1> QED
  BY <1>4, <1>9, <1>10, <1>11, <1>12 DEF LineInv

\* Start-up and the stop, which bind nothing themselves.
LEMMA StartsAndStops ==
  ASSUME LifeIInv, Approve \/ Refuse \/ BeginStop \/ StopGoesOn
  PROVE  LifeIInv'
<1> USE DEF LifeIInv, netVars, httpVars
<1>1. CASE Approve
  <2>1. /\ phase' = "relay" /\ scope' = Confirmed(present) /\ listed'
        /\ line = <<>> /\ halt = "no" /\ UNCHANGED <<halt, present, decided, closed, line, work, sockets, reply>>
    BY <1>1 DEF Approve, PhaseInv
  <2>2. ~Started /\ Unbound /\ Len(line) = 0
    BY <1>1, <2>1 DEF Approve, Started, PhaseInv
  <2>3. LifeTypes' /\ LineInv'
    BY <2>1, <2>2 DEF LifeTypes, LineInv, Confirmed
  <2>4. PhaseInv' /\ WorkInv'
    BY <2>1, <2>2 DEF PhaseInv, WorkInv, Unbound, Running
  <2>5. DeniedInv'
    BY <2>1, <2>2 DEF DeniedInv, Confirmed, Unbound
  <2> QED
    BY <2>3, <2>4, <2>5
<1>2. CASE Refuse
  <2>1. /\ phase = "approval" /\ phase' = "over" /\ halt' = "done"
        /\ UNCHANGED <<present, decided, scope, closed, line, work, sockets, reply, listed>>
    BY <1>2 DEF Refuse
  <2>2. ~Started /\ ~Started' /\ line = <<>> /\ Len(line) = 0 /\ Unbound
    BY <2>1 DEF Started, PhaseInv
  <2>3. LifeTypes' /\ LineInv'
    BY <2>1, <2>2 DEF LifeTypes, LineInv
  <2> QED
    BY <2>1, <2>2, <2>3 DEF PhaseInv, WorkInv, Unbound, Running, DeniedInv
<1>3. CASE BeginStop
  <2>1. /\ halt = "no" /\ halt' = "runtime" /\ closed' = "asked"
        /\ line' = Append(line, [op |-> "close", by |-> "stop"])
        /\ phase \in {"relay", "binding", "running"}
        /\ UNCHANGED <<phase, present, decided, scope, work, sockets, reply, listed>>
    BY <1>3 DEF BeginStop, Stop
  <2>2. line' \in Seq(Entry) /\ LineInv' /\ (line # <<>> => Head(line') = Head(line))
    BY <2>1, LineGrows, LifeAssumption DEF Entry, Started
  <2>3. LifeTypes'
    BY <2>1, <2>2 DEF LifeTypes
  <2>4. line # <<>> => line' # <<>>
    BY <2>1 DEF LifeTypes
  <2>5. WorkInv'
    BY <2>1, <2>2, <2>4 DEF WorkInv, Running
  <2>6. PhaseInv'
    BY <2>1 DEF PhaseInv, Unbound, Started
  <2> QED
    BY <2>1, <2>2, <2>3, <2>5, <2>6 DEF DeniedInv
<1>4. CASE StopGoesOn
  <2>1. /\ halt # "no" /\ halt' \in {"relay", "http", "tls", "done"}
        /\ (halt' = "tls" => closed = "done") /\ (halt' = "done" => closed = "done")
        /\ UNCHANGED <<phase, present, decided, scope, closed, line, work, sockets, reply>>
        /\ listed' = (listed /\ halt' # "done")
    BY <1>4 DEF StopGoesOn, PhaseInv
  <2>2. LifeTypes' /\ LineInv' /\ WorkInv'
    BY <2>1 DEF LifeTypes, LineInv, Started, WorkInv, Running
  <2>3. PhaseInv'
    BY <1>4, <2>1 DEF StopGoesOn, PhaseInv, Unbound, Started
  <2> QED
    BY <2>1, <2>2, <2>3 DEF DeniedInv
<1> QED
  BY <1>1, <1>2, <1>3, <1>4

LEMMA StartsHttp ==
  ASSUME LifeIInv, StartHttp
  PROVE  LifeIInv'
<1> USE DEF LifeIInv, netVars, httpVars
<1>1. /\ phase = "relay" /\ ~Started /\ Unbound
      /\ UNCHANGED <<halt, present, decided, scope, closed, work, sockets, reply, listed>>
  BY DEF StartHttp, Started, PhaseInv
<1>2. listed \/ closed = "done"
  BY <1>1 DEF PhaseInv
<1>3. CASE closed # "no"
  <2>1. phase' = "over" /\ line' = line
    BY <1>3 DEF StartHttp
  <2> QED
    BY <1>1, <1>2, <1>3, <2>1 DEF LifeTypes, LineInv, WorkInv, PhaseInv, Unbound, Started, Running, DeniedInv
<1>4. CASE closed = "no"
  <2>1. phase' = "binding" /\ line' = Append(line, [op |-> "sync", by |-> "start"])
    BY <1>4 DEF StartHttp
  <2>2. line' \in Seq(Entry) /\ LineInv'
    BY <1>1, <2>1, LineGrows, LifeAssumption DEF Entry, Started
  <2>3. LifeTypes'
    BY <1>1, <2>1, <2>2 DEF LifeTypes
  <2>4. WorkInv' /\ PhaseInv'
    BY <1>1, <1>2, <1>4, <2>1 DEF WorkInv, PhaseInv, Unbound, Started
  <2>5. DeniedInv'
    BY <1>1 DEF DeniedInv, Awaiting, Unbound
  <2> QED
    BY <2>2, <2>3, <2>4, <2>5
<1> QED
  BY <1>3, <1>4

\* Adapters, the timer, and the owner's answers up to the detection they wait for.
LEMMA NetworksMove ==
  ASSUME LifeIInv, AdaptersChange \/ Tick \/ \E a \in Answers : Confirm(a) \/ Decide(a)
  PROVE  LifeIInv'
<1> USE DEF LifeIInv, netVars, httpVars
<1>1. CASE AdaptersChange \/ Tick
  <2>1. /\ UNCHANGED <<phase, halt, decided, scope, closed, line, work, sockets, reply, listed>>
        /\ present' \subseteq Nets
    BY <1>1 DEF AdaptersChange, Tick, LifeTypes
  <2>2. LifeTypes' /\ LineInv' /\ WorkInv' /\ PhaseInv'
    BY <2>1 DEF LifeTypes, LineInv, Started, WorkInv, Running, PhaseInv, Unbound
  <2>3. DeniedInv'
    BY <2>1 DEF DeniedInv, Awaiting
  <2> QED
    BY <2>2, <2>3
<1>2. ASSUME NEW a \in Answers, Confirm(a) \/ Decide(a) PROVE LifeIInv'
  <2>1. /\ UNCHANGED <<phase, halt, present, scope, closed, line, work, sockets, listed>>
        /\ reply[a].at \in {"new", "queued"}
    BY <1>2 DEF Confirm, Decide
  <2>2. PICK x \in ReplyRecord : /\ reply' = [reply EXCEPT ![a] = x]
                                /\ x.at \in {"queued", "refreshing", "failed"} /\ x.net \in Nets
                                /\ \/ decided' = decided
                                   \/ /\ x.at = "refreshing"
                                      /\ \E d \in {"allow", "deny"} : decided' = [decided EXCEPT ![x.net] = d]
    <3>1. CASE Confirm(a)
      <4>1. PICK n \in present, allow \in BOOLEAN :
              reply' = [reply EXCEPT ![a] = [net |-> n, allow |-> allow, at |-> "queued"]]
        BY <3>1 DEF Confirm
      <4>2. [net |-> n, allow |-> allow, at |-> "queued"] \in ReplyRecord /\ n \in Nets
        BY DEF ReplyRecord, LifeTypes
      <4> QED
        BY <3>1, <4>1, <4>2 DEF Confirm
    <3>2. CASE Decide(a)
      <4>1. reply[a] \in ReplyRecord /\ reply[a].net \in Nets
        BY <3>2 DEF Decide, LifeTypes
      <4>2. ASSUME NEW at \in {"refreshing", "failed"}, reply' = [reply EXCEPT ![a].at = at]
            PROVE  \E x \in ReplyRecord : /\ reply' = [reply EXCEPT ![a] = x] /\ x.at = at
                                          /\ x.net = reply[a].net
        <5>1. [reply[a] EXCEPT !.at = at] \in ReplyRecord
          BY <4>1 DEF ReplyRecord
        <5> QED
          BY <4>1, <4>2, <5>1 DEF ReplyRecord
      <4>3. CASE reply' = [reply EXCEPT ![a].at = "failed"] /\ UNCHANGED <<decided, detect>>
        BY <4>1, <4>2, <4>3
      <4>4. CASE /\ reply' = [reply EXCEPT ![a].at = "refreshing"]
                 /\ decided' = [decided EXCEPT ![reply[a].net] = IF reply[a].allow THEN "allow" ELSE "deny"]
        <5>1. PICK x \in ReplyRecord : /\ reply' = [reply EXCEPT ![a] = x] /\ x.at = "refreshing"
                                      /\ x.net = reply[a].net
          BY <4>2, <4>4
        <5>2. \E d \in {"allow", "deny"} : decided' = [decided EXCEPT ![x.net] = d]
          BY <4>4, <5>1
        <5> QED
          BY <4>1, <5>1, <5>2
      <4> QED
        BY <3>2, <4>3, <4>4 DEF Decide
    <3> QED
      BY <1>2, <3>1, <3>2
  <2>3. reply'[a] = x /\ reply' \in [Answers -> ReplyRecord] /\ \A b \in Answers \ {a} : reply'[b] = reply[b]
    BY <2>2 DEF LifeTypes
  <2>4. LifeTypes'
    BY <2>1, <2>2, <2>3 DEF LifeTypes
  <2>5. LineInv' /\ WorkInv' /\ PhaseInv'
    BY <2>1, <2>2, <2>3 DEF LineInv, Started, WorkInv, Running, PhaseInv, Unbound
  <2>6. a \notin {b \in Answers : reply[b].at \in {"refreshing", "reconciling"}}
    BY <2>1
  <2>7. \A n \in Nets : Awaiting(n) \subseteq Awaiting(n)'
    BY <2>1, <2>3 DEF Awaiting
  <2>8. DeniedInv'
    <3> SUFFICES ASSUME halt = "no", NEW n \in Nets, decided'[n] = "deny"
                 PROVE  /\ n \in scope => \E b \in Awaiting(n)' : reply'[b].at = "refreshing"
                        /\ n \in sockets => Awaiting(n)' # {}
                        /\ work # NoWork /\ n \in work.wants => Awaiting(n)' \ {Head(line).by} # {}
      BY <2>1 DEF DeniedInv
    <3>1. CASE decided[n] = "deny"
      BY <2>1, <2>3, <2>7, <3>1 DEF DeniedInv, Awaiting
    <3>2. CASE decided[n] # "deny"
      <4>1. x.at = "refreshing" /\ x.net = n
        BY <2>2, <3>2 DEF LifeTypes
      <4>2. a \in Awaiting(n)' /\ reply'[a].at = "refreshing"
        BY <2>3, <4>1 DEF Awaiting
      <4>3. line # <<>> => a # Head(line).by
        <5>1. line # <<>> => 1 \in 1..Len(line) /\ Head(line) = line[1]
          BY DEF LifeTypes
        <5> QED
          BY <2>1, <5>1 DEF LineInv
      <4>4. work # NoWork => line # <<>>
        BY DEF WorkInv, Running
      <4> QED
        BY <4>2, <4>3, <4>4
    <3> QED
      BY <3>1, <3>2
  <2> QED
    BY <2>4, <2>5, <2>8
<1> QED
  BY <1>1, <1>2

\* The detection ends: what waited for it goes on to the queue.
LEMMA DetectionEnds ==
  ASSUME LifeIInv, Detected
  PROVE  LifeIInv'
<1> USE DEF LifeIInv, netVars, httpVars
<1> DEFINE waiting0 == {a \in Answers : reply[a].at = "refreshing"}
           next == IF Started THEN "reconciling" ELSE "failed"
<1>1. /\ UNCHANGED <<phase, halt, present, decided, closed, work, sockets, listed>>
      /\ scope' \in {Confirmed(present), {}}
      /\ reply' = [a \in Answers |-> IF a \in waiting0 THEN [reply[a] EXCEPT !.at = next] ELSE reply[a]]
      /\ IF Started THEN Reconciles(waiting0 \cup {t \in {"timer"} : timer}) ELSE UNCHANGED line
  BY DEF Detected
<1>2. /\ reply' \in [Answers -> ReplyRecord]
      /\ \A a \in waiting0 : reply'[a].at = next /\ reply'[a].net = reply[a].net
      /\ \A a \in Answers \ waiting0 : reply'[a] = reply[a]
  <2>1. \A a \in Answers : reply[a] \in ReplyRecord
    BY DEF LifeTypes
  <2>2. \A a \in Answers : /\ [reply[a] EXCEPT !.at = next] \in ReplyRecord
                            /\ [reply[a] EXCEPT !.at = next].at = next
                            /\ [reply[a] EXCEPT !.at = next].net = reply[a].net
    BY <2>1 DEF ReplyRecord
  <2> QED
    BY <1>1, <2>1, <2>2
<1>3. Started' <=> Started
  BY <1>1 DEF Started
<1>4. line' \in Seq(Entry) /\ LineInv' /\ (line # <<>> => line' # <<>> /\ Head(line') = Head(line))
  <2>1. CASE Started
    <3>1. PICK callers \in SUBSET (Answers \cup {"timer"}) :
            Reconciles(callers) /\ callers \cap Answers = waiting0
      BY <1>1, <2>1, LifeAssumption
    <3>2. \A b \in callers \cap Answers : reply[b].at = "refreshing" /\ reply'[b].at = "reconciling"
      BY <1>2, <2>1, <3>1
    <3>3. \A b \in Answers \ callers : reply'[b] = reply[b]
      BY <1>2, <3>1
    <3>4. closed' = closed
      BY <1>1
    <3> QED
      BY <1>3, <2>1, <3>1, <3>2, <3>3, <3>4, LineReconciles
  <2>2. CASE ~Started
    BY <1>1, <1>2, <1>3, <2>2 DEF LifeTypes, LineInv
  <2> QED
    BY <2>1, <2>2
<1>5. scope' \subseteq Nets /\ \A n \in Nets : decided[n] = "deny" => n \notin scope'
  BY <1>1 DEF Confirmed, LifeTypes
<1>6. LifeTypes'
  BY <1>1, <1>2, <1>4, <1>5 DEF LifeTypes
<1>7. WorkInv' /\ PhaseInv'
  BY <1>1, <1>3, <1>4 DEF WorkInv, Running, PhaseInv, Unbound, Started
<1>8. DeniedInv'
  <2>1. CASE Started
    <3>1. \A n \in Nets : Awaiting(n)' = Awaiting(n)
      BY <1>2, <2>1 DEF Awaiting
    <3>2. work # NoWork => line # <<>>
      BY DEF WorkInv, Running
    <3> QED
      BY <1>1, <1>4, <1>5, <3>1, <3>2 DEF DeniedInv
  <2>2. CASE ~Started
    BY <1>1, <1>5, <2>2 DEF DeniedInv, PhaseInv, Unbound
  <2> QED
    BY <2>1, <2>2
<1> QED
  BY <1>4, <1>6, <1>7, <1>8

\* What the operation at the head does to its sockets, while it stays the head.
LEMMA WorkGoesOn ==
  ASSUME LifeIInv, SyncStep \/ HostDone
  PROVE  LifeIInv'
<1> USE DEF LifeIInv, netVars, httpVars
<1>1. /\ UNCHANGED <<phase, halt, present, decided, scope, closed, line, reply, listed>>
      /\ Running("sync") /\ work # NoWork /\ work \in WorkRecord
  <2>1. NoWork.does = "idle" /\ NoWork.host = Nobody
    BY DEF NoWork
  <2>2. Running("sync") /\ (work.does = "next" \/ work.host # Nobody)
    BY DEF SyncStep, HostDone
  <2>3. work # NoWork
    BY <2>1, <2>2
  <2> QED
    BY <2>2, <2>3 DEF SyncStep, HostDone, LifeTypes
<1>2. /\ work' \in WorkRecord /\ work' # NoWork /\ work'.wants \subseteq work.wants /\ Loop \in work'.wants
      /\ work'.does = "bind" => work'.host \in work'.wants
      /\ sockets' \subseteq sockets \cup work.wants
  <2>1. CASE SyncStep
    <3>1. PICK x \in NextHosts : /\ work' = [work EXCEPT !.host = x.host, !.does = x.does]
                                /\ sockets' = IF x.does = "stop" THEN sockets \ {x.host} ELSE sockets
      BY <2>1 DEF SyncStep
    <3>2. x.host \in Hosts /\ x.does \in {"bind", "stop"} /\ (x.does = "bind" => x.host \in work.wants)
      BY <1>1 DEF NextHosts, LifeTypes, WorkInv, WorkRecord, Hosts
    <3>3. work' = [wants |-> work.wants, host |-> x.host, does |-> x.does]
      BY <1>1, <3>1 DEF WorkRecord
    <3>4. work' \in WorkRecord /\ work'.wants = work.wants /\ work'.host = x.host /\ work'.does = x.does
      BY <1>1, <3>2, <3>3 DEF WorkRecord
    <3> QED
      BY <1>1, <3>1, <3>2, <3>4 DEF NoWork, WorkInv
  <2>2. CASE HostDone
    <3>1. PICK w : /\ work' = [work EXCEPT !.host = Nobody, !.does = "next", !.wants = w]
                   /\ w \subseteq work.wants /\ Loop \in w
                   /\ sockets' = sockets \/ (sockets' = sockets \cup {work.host} /\ work.does = "bind")
      <4>1. work = [wants |-> work.wants, host |-> work.host, does |-> work.does]
        BY <1>1 DEF WorkRecord
      <4>2. CASE /\ work.does = "bind" /\ work.host # Loop /\ UNCHANGED sockets
                 /\ work' = [work EXCEPT !.host = Nobody, !.does = "next", !.wants = @ \ {work.host}]
        BY <1>1, <4>2 DEF WorkInv
      <4>3. CASE /\ work' = [work EXCEPT !.host = Nobody, !.does = "next"]
                 /\ sockets' = sockets \/ (sockets' = sockets \cup {work.host} /\ work.does = "bind")
        <5>1. work' = [work EXCEPT !.host = Nobody, !.does = "next", !.wants = work.wants]
          BY <1>1, <4>3 DEF WorkRecord
        <5> QED
          BY <1>1, <4>3, <5>1 DEF WorkInv
      <4> QED
        BY <2>2, <4>2, <4>3 DEF HostDone
    <3>2. work' = [wants |-> w, host |-> Nobody, does |-> "next"]
      BY <1>1, <3>1 DEF WorkRecord
    <3> QED
      BY <1>1, <3>1, <3>2 DEF WorkRecord, NoWork, WorkInv
  <2> QED
    BY <2>1, <2>2
<1>3. LifeTypes' /\ LineInv' /\ WorkInv'
  BY <1>1, <1>2 DEF LifeTypes, LineInv, Started, WorkInv, Running, WorkRecord
<1>4. PhaseInv'
  BY <1>1, <1>2 DEF PhaseInv, Unbound, Started
<1>5. \A n \in Nets : Awaiting(n)' = Awaiting(n)
  BY <1>1 DEF Awaiting
<1>6. DeniedInv'
  BY <1>1, <1>2, <1>5 DEF DeniedInv
<1> QED
  BY <1>3, <1>4, <1>6

LEMMA SyncBegins ==
  ASSUME LifeIInv, BeginSync, MaySync
  PROVE  LifeIInv'
<1> USE DEF LifeIInv, netVars, httpVars
<1>1. /\ UNCHANGED <<phase, halt, present, decided, scope, closed, line, sockets, reply, listed>>
      /\ work' = [wants |-> scope \cup {Loop}, host |-> Nobody, does |-> "next"]
      /\ Running("sync") /\ closed = "no"
  BY DEF BeginSync, MaySync
<1>2. work' \in WorkRecord /\ work' # NoWork
  BY <1>1 DEF WorkRecord, NoWork, LifeTypes, Hosts
<1>3. LifeTypes' /\ LineInv' /\ WorkInv'
  BY <1>1, <1>2 DEF LifeTypes, LineInv, Started, WorkInv, Running
<1>4. line # <<>> /\ 1 \in 1..Len(line) /\ Head(line) = line[1] /\ line[1].op = "sync"
  BY <1>1 DEF Running, LifeTypes
<1>5. PhaseInv'
  BY <1>1, <1>4 DEF PhaseInv, LineInv, Unbound, Started
<1>6. DeniedInv'
  <2> SUFFICES ASSUME halt = "no", NEW n \in Nets, decided[n] = "deny", n \in work'.wants
               PROVE  Awaiting(n) \ {Head(line).by} # {}
    BY <1>1 DEF DeniedInv, Awaiting
  <2>1. n \in scope
    BY <1>1, LifeAssumption
  <2>2. PICK b \in Awaiting(n) : reply[b].at = "refreshing"
    BY <2>1 DEF DeniedInv
  <2>3. b # Head(line).by
    BY <1>4, <2>2 DEF Awaiting, LineInv
  <2> QED
    BY <2>2, <2>3
<1> QED
  BY <1>3, <1>5, <1>6

\* The operation at the head settles: a synchronization that was skipped or is complete, or a close.
LEMMA OperationsSettle ==
  ASSUME LifeIInv, line # <<>>, Settles, UNCHANGED <<halt, netVars, sockets, listed>>,
         phase' = phase \/ (phase' = "running" /\ Started),
         closed' = closed \/ (closed' = "done" /\ halt # "no" /\ sockets = {}),
         halt = "no" => NextHosts = {} /\ work # NoWork
  PROVE  LifeIInv'
<1> USE DEF LifeIInv, netVars
<1> DEFINE by == Head(line).by
<1>1. /\ line' = Tail(line) /\ work' = NoWork
      /\ reply' = IF by \in Answers THEN [reply EXCEPT ![by].at = "done"] ELSE reply
  BY DEF Settles
<1>2. /\ reply' \in [Answers -> ReplyRecord]
      /\ \A b \in Answers : reply'[b].net = reply[b].net /\ (b # by => reply'[b] = reply[b])
      /\ by \in Answers => reply[by].at = "reconciling"
  <2>1. by \in Answers => reply[by].at = "reconciling"
    <3>1. 1 \in 1..Len(line) /\ by = line[1].by
      BY DEF LifeTypes
    <3> QED
      BY <3>1 DEF LineInv
  <2>2. CASE by \in Answers
    <3>1. reply[by] \in ReplyRecord
      BY <2>2 DEF LifeTypes
    <3>2. [reply[by] EXCEPT !.at = "done"] \in ReplyRecord /\ [reply[by] EXCEPT !.at = "done"].net = reply[by].net
      BY <3>1 DEF ReplyRecord
    <3> QED
      BY <1>1, <2>1, <2>2, <3>2 DEF LifeTypes
  <2>3. CASE by \notin Answers
    BY <1>1, <2>3 DEF LifeTypes
  <2> QED
    BY <2>1, <2>2, <2>3
<1>3. Started => Started'
  BY DEF Started
<1>4. line' \in Seq(Entry) /\ LineInv'
  BY <1>1, <1>2, <1>3, LineShrinks
<1>5. LifeTypes'
  BY <1>1, <1>2, <1>4 DEF LifeTypes
<1>6. WorkInv' /\ PhaseInv'
  BY <1>1 DEF WorkInv, PhaseInv, Unbound, Started, LifeTypes
<1>7. DeniedInv'
  <2> SUFFICES ASSUME halt = "no", NEW n \in Nets, decided[n] = "deny"
               PROVE  /\ n \in scope => \E b \in Awaiting(n)' : reply'[b].at = "refreshing"
                      /\ n \in sockets => Awaiting(n)' # {}
    BY <1>1 DEF DeniedInv
  <2>1. Awaiting(n) \ {by} \subseteq Awaiting(n)'
    BY <1>2 DEF Awaiting
  <2>2. n \in scope => \E b \in Awaiting(n)' : reply'[b].at = "refreshing"
    <3>1. n \in scope => \E b \in Awaiting(n) : reply[b].at = "refreshing"
      BY DEF DeniedInv
    <3> QED
      BY <1>2, <2>1, <3>1 DEF Awaiting
  <2>3. n \in sockets => n \in work.wants
    <3>1. CASE Loop \notin sockets
      BY <3>1 DEF NextHosts
    <3>2. CASE Loop \in sockets
      <4>1. sockets \ work.wants = {}
        <5> SUFFICES ASSUME NEW h \in sockets \ work.wants PROVE FALSE
          OBVIOUS
        <5>1. [host |-> h, does |-> "stop"] \in NextHosts
          BY <3>2 DEF NextHosts
        <5> QED
          BY <5>1
      <4> QED
        BY <4>1
    <3> QED
      BY <3>1, <3>2
  <2> QED
    BY <2>1, <2>2, <2>3 DEF DeniedInv
<1> QED
  BY <1>4, <1>5, <1>6, <1>7

LEMMA OperationsEnd ==
  ASSUME LifeIInv, (BeginSync /\ ~MaySync) \/ SyncDone \/ CloseHosts
  PROVE  LifeIInv'
<1> USE DEF LifeIInv
<1>1. CASE BeginSync /\ ~MaySync
  <2>1. Started /\ halt # "no"
    <3>1. 1 \in 1..Len(line) /\ line[1].op = "sync"
      BY <1>1 DEF BeginSync, Running, LifeTypes
    <3> QED
      BY <1>1, <3>1 DEF LineInv, MaySync, PhaseInv
  <2> QED
    BY <1>1, <2>1, OperationsSettle DEF BeginSync, Running, netVars
<1>2. CASE SyncDone
  <2>1. Started
    <3>1. 1 \in 1..Len(line) /\ line[1].op = "sync"
      BY <1>2 DEF SyncDone, Running, LifeTypes
    <3> QED
      BY <3>1 DEF LineInv
  <2>2. work # NoWork
    BY <1>2 DEF SyncDone, NoWork
  <2> QED
    BY <1>2, <2>1, <2>2, OperationsSettle DEF SyncDone, Running, netVars
<1>3. CASE CloseHosts /\ sockets = {}
  <2>1. halt # "no"
    <3>1. 1 \in 1..Len(line) /\ line[1].op = "close"
      BY <1>3 DEF CloseHosts, Running, LifeTypes
    <3> QED
      BY <3>1 DEF LineInv, PhaseInv
  <2> QED
    BY <1>3, <2>1, OperationsSettle DEF CloseHosts, Running, netVars
<1>4. CASE CloseHosts /\ sockets # {}
  <2>1. /\ UNCHANGED <<phase, halt, present, decided, scope, closed, line, work, reply, listed>>
        /\ sockets' \subseteq sockets
    BY <1>4 DEF CloseHosts, netVars
  <2>2. LifeTypes' /\ LineInv' /\ WorkInv' /\ PhaseInv'
    BY <2>1 DEF LifeTypes, LineInv, Started, WorkInv, Running, PhaseInv, Unbound
  <2>3. DeniedInv'
    BY <2>1 DEF DeniedInv, Awaiting
  <2> QED
    BY <2>2, <2>3
<1> QED
  BY <1>1, <1>2, <1>3, <1>4

\* The loopback address cannot be bound.
LEMMA StartFails ==
  ASSUME LifeIInv, LoopFails
  PROVE  LifeIInv'
<1> USE DEF LifeIInv, netVars
<1>1. /\ phase' = "failed" /\ work' = NoWork /\ halt' # "no"
      /\ UNCHANGED <<present, decided, scope, sockets, reply, listed>>
      /\ Running("sync") /\ work # NoWork /\ work.does = "bind"
  <2>1. NoWork.does = "idle"
    BY DEF NoWork
  <2>2. Running("sync") /\ work.does = "bind"
    BY DEF LoopFails
  <2> QED
    BY <2>1, <2>2 DEF LoopFails
<1>2. Started /\ Started' /\ closed # "done" /\ line # <<>>
  <2>1. 1 \in 1..Len(line) /\ line[1].op = "sync"
    BY <1>1 DEF Running, LifeTypes
  <2> QED
    BY <1>1, <2>1 DEF LineInv, PhaseInv, Unbound, Started
<1>3. CASE halt = "no"
  <2>1. /\ halt' = "runtime" /\ closed' = "asked" /\ line' = Append(Tail(line), [op |-> "close", by |-> "stop"])
    BY <1>3 DEF LoopFails, AfterFailure
  <2>2. PICK rest \in Seq(Entry) : /\ rest = Tail(line) /\ Len(rest) = Len(line) - 1 /\ Len(line) \in Nat
                                  /\ \A i \in 1..Len(rest) : rest[i] = line[i + 1] /\ i + 1 \in 1..Len(line)
    <3>1. /\ Tail(line) \in Seq(Entry) /\ Len(Tail(line)) = Len(line) - 1 /\ Len(line) \in Nat
          /\ \A i \in 1..Len(Tail(line)) : Tail(line)[i] = line[i + 1]
      BY <1>2, HeadTailProperties DEF LifeTypes
    <3>2. \A i \in 1..Len(Tail(line)) : i + 1 \in 1..Len(line)
      BY <3>1
    <3> QED
      BY <3>1, <3>2
  <2>3. [op |-> "close", by |-> "stop"] \in Entry
    BY DEF Entry
  <2>4. /\ line' \in Seq(Entry) /\ Len(line') = Len(rest) + 1 /\ Len(rest) \in Nat
        /\ line'[Len(rest) + 1] = [op |-> "close", by |-> "stop"]
        /\ \A i \in 1..Len(rest) : line'[i] = line[i + 1] /\ i + 1 \in 1..Len(line)
    BY <2>1, <2>2, <2>3, AppendProperties
  <2>5. LineInv'
    <3>1. line'[Len(rest) + 1].by \notin Answers
      BY <2>4, LifeAssumption
    <3> QED
      BY <1>1, <1>2, <2>1, <2>4, <3>1 DEF LineInv
  <2>6. LifeTypes'
    BY <1>1, <2>1, <2>4 DEF LifeTypes
  <2>7. listed
    BY <1>2 DEF PhaseInv
  <2> QED
    BY <1>1, <1>2, <2>1, <2>5, <2>6, <2>7 DEF WorkInv, PhaseInv, DeniedInv
<1>4. CASE halt # "no"
  <2>1. line' = Tail(line) /\ UNCHANGED <<halt, closed>>
    BY <1>4 DEF LoopFails, AfterFailure
  <2>2. line' \in Seq(Entry) /\ LineInv'
    BY <1>1, <1>2, <2>1, LineShrinks
  <2>3. LifeTypes'
    BY <1>1, <2>1, <2>2 DEF LifeTypes
  <2>4. listed
    BY <1>2 DEF PhaseInv
  <2> QED
    BY <1>1, <1>2, <1>4, <2>1, <2>2, <2>3, <2>4 DEF WorkInv, PhaseInv, DeniedInv
<1> QED
  BY <1>3, <1>4

LEMMA LifeStep == LifeIInv /\ [LifeNext]_lifeVars => LifeIInv'
<1> SUFFICES ASSUME LifeIInv, [LifeNext]_lifeVars PROVE LifeIInv'
  OBVIOUS
<1>1. CASE UNCHANGED lifeVars
  <2>1. UNCHANGED <<phase, halt, present, decided, scope, closed, line, work, sockets, reply, listed>>
    BY <1>1 DEF lifeVars, netVars, httpVars
  <2>2. LifeTypes' /\ LineInv' /\ WorkInv' /\ PhaseInv'
    BY <2>1 DEF LifeIInv, LifeTypes, LineInv, Started, WorkInv, Running, PhaseInv, Unbound
  <2>3. DeniedInv'
    BY <2>1 DEF LifeIInv, DeniedInv, Awaiting
  <2> QED
    BY <2>2, <2>3 DEF LifeIInv
<1> QED
  BY <1>1, StartsAndStops, StartsHttp, NetworksMove, DetectionEnds, WorkGoesOn, SyncBegins, OperationsEnd,
    StartFails DEF LifeNext

\* Nothing listens where it may not: not after the stop is over, whatever refresh, answer or start-up
\* was under way, and not on a network that the owner was told is refused (main.mjs,
\* network-confirmation.mjs, lan-http-listeners.mjs).
THEOREM ListensOnlyWhereAllowed == LifeSpec => []ListensWhereAllowed
BY InitLife, LifeStep, InvListens, PTL DEF LifeSpec

-----------------------------------------------------------------------------
(* The relay process.  A pin is of a registration that is there and that   *)
(* was proved: what a command or a sweep takes away takes its pins along.  *)

CoreTypes ==
  /\ regs \in [Regs -> [here : BOOLEAN, age : Nat, once : BOOLEAN, expired : BOOLEAN]]
  /\ pinned \in [Origins -> [reg : Regs \cup {NoReg}, idle : Nat, ready : BOOLEAN]]
  /\ uses \in [Origins -> Regs \cup {NoReg}]
  /\ ended \in BOOLEAN

\* A registration is proved while it is there, and reported as expired when it is not.
OnceThere == \A r \in Regs : /\ regs[r].once => regs[r].here
                             /\ regs[r].here => ~regs[r].expired

\* A pin is of a registration that was proved.
PinsProved == \A s \in Origins : pinned[s].reg = NoReg \/ regs[pinned[s].reg].once

CoreInv == CoreTypes /\ OnceThere /\ PinsProved

\* Both modules count alike.
LEMMA SameCount ==
  ASSUME NEW S
  PROVE  Table!Cardinality(S) = Cardinality(S)
BY DEF Table!Cardinality, Cardinality

LEMMA InitCore == CoreInit => CoreInv /\ Table!TableInit
<1> SUFFICES ASSUME CoreInit PROVE CoreInv /\ Table!TableInit
  OBVIOUS
<1>1. CoreTypes
  BY RelayCoreAssumption DEF CoreInit, CoreTypes, Absent, NoPin
<1>2. OnceThere /\ PinsProved
  BY DEF CoreInit, OnceThere, PinsProved, Absent, NoPin
<1>3. There = {} /\ Proved = {} /\ Lapsed = {}
  BY DEF CoreInit, There, Proved, Lapsed, Absent
<1>4. Routes = [s \in Origins |-> NoReg]
  BY DEF CoreInit, Routes, NoPin
<1>. QED BY <1>1, <1>2, <1>3, <1>4 DEF CoreInv, CoreInit, Table!TableInit

\* Pins of registrations that go away.
LEMMA UnpinnedTypes ==
  ASSUME CoreTypes, NEW gone
  PROVE  /\ Unpinned(gone) \in [Origins -> [reg : Regs \cup {NoReg}, idle : Nat, ready : BOOLEAN]]
         /\ \A s \in Origins : Unpinned(gone)[s].reg = IF pinned[s].reg \in gone THEN NoReg ELSE pinned[s].reg
<1>1. NoPin \in [reg : Regs \cup {NoReg}, idle : Nat, ready : BOOLEAN] /\ NoPin.reg = NoReg
  BY DEF NoPin
<1>2. pinned \in [Origins -> [reg : Regs \cup {NoReg}, idle : Nat, ready : BOOLEAN]]
  BY DEF CoreTypes
<1>. QED BY <1>1, <1>2 DEF Unpinned

\* A command adds a registration.
LEMMA AllowMaps ==
  ASSUME CoreInv, NEW r \in Regs, AllowReg(r)
  PROVE  CoreInv' /\ Table!Open(r)
<1>1. CoreTypes /\ OnceThere /\ PinsProved /\ ~ended /\ ~regs[r].here /\ UNCHANGED <<pinned, uses, ended>>
  BY DEF CoreInv, AllowReg, There
<1>2. PICK new : new = [Absent EXCEPT !.here = TRUE]
  OBVIOUS
<1>3. /\ new \in [here : BOOLEAN, age : Nat, once : BOOLEAN, expired : BOOLEAN]
      /\ new.here /\ ~new.once /\ ~new.expired
      /\ regs' = [regs EXCEPT ![r] = new]
  BY <1>2 DEF AllowReg, Absent
<1>4. \A q \in Regs : regs'[q] = IF q = r THEN new ELSE regs[q]
  BY <1>1, <1>3 DEF CoreTypes
<1>5. CoreTypes'
  BY <1>1, <1>3 DEF CoreTypes
<1>6. ~regs[r].once
  BY <1>1 DEF OnceThere
<1>7. OnceThere' /\ PinsProved'
  BY <1>1, <1>3, <1>4, <1>6 DEF OnceThere, PinsProved, CoreTypes
<1>8. There' = There \cup {r} /\ Proved' = Proved /\ Lapsed' = Lapsed \ {r}
  <2>1. There' = There \cup {r}
    BY <1>3, <1>4 DEF There
  <2>2. Proved' = Proved
    BY <1>3, <1>4, <1>6, <2>1 DEF Proved
  <2>3. Lapsed' = Lapsed \ {r}
    BY <1>3, <1>4 DEF Lapsed
  <2>. QED BY <2>1, <2>2, <2>3
<1>9. Routes' = Routes
  BY <1>1 DEF Routes
<1>10. r \notin There /\ Table!Cardinality(There) < MaxRegs
  BY SameCount DEF AllowReg
<1>. QED BY <1>1, <1>5, <1>7, <1>8, <1>9, <1>10 DEF CoreInv, Table!Open

\* A command takes one away, and its pins.
LEMMA RevokeMaps ==
  ASSUME CoreInv, NEW r \in Regs, RevokeReg(r)
  PROVE  CoreInv' /\ Table!Close(r)
<1>1. CoreTypes /\ OnceThere /\ PinsProved /\ ~ended /\ regs[r].here /\ UNCHANGED <<uses, ended>>
  BY DEF CoreInv, RevokeReg, There
<1>2. \A q \in Regs : regs'[q] = IF q = r THEN Absent ELSE regs[q]
  BY <1>1 DEF CoreTypes, RevokeReg
<1>3. Absent \in [here : BOOLEAN, age : Nat, once : BOOLEAN, expired : BOOLEAN]
      /\ ~Absent.here /\ ~Absent.once /\ ~Absent.expired
  BY DEF Absent
<1>4. pinned' = Unpinned({r})
  BY DEF RevokeReg
<1>5. \A s \in Origins : pinned'[s].reg = IF pinned[s].reg = r THEN NoReg ELSE pinned[s].reg
  BY <1>1, <1>4, UnpinnedTypes
<1>6. CoreTypes'
  <2>1. regs' \in [Regs -> [here : BOOLEAN, age : Nat, once : BOOLEAN, expired : BOOLEAN]]
    BY <1>1, <1>3 DEF CoreTypes, RevokeReg
  <2>. QED BY <1>1, <1>4, <2>1, UnpinnedTypes DEF CoreTypes
<1>7. OnceThere'
  BY <1>1, <1>2, <1>3 DEF OnceThere
<1>8. PinsProved'
  BY <1>1, <1>2, <1>5, RelayCoreAssumption DEF PinsProved, CoreTypes
<1>9. There' = There \ {r} /\ Proved' = Proved \ {r} /\ Lapsed' = Lapsed
  <2>1. There' = There \ {r}
    BY <1>2, <1>3 DEF There
  <2>2. Proved' = Proved \ {r}
    <3>1. \A q \in Regs : q \in Proved' <=> q \in There /\ q # r /\ regs[q].once
      BY <1>2, <2>1 DEF Proved
    <3>. QED BY <3>1 DEF Proved, There
  <2>3. ~regs[r].expired
    BY <1>1 DEF OnceThere
  <2>4. Lapsed' = Lapsed
    BY <1>2, <1>3, <2>3 DEF Lapsed
  <2>. QED BY <2>1, <2>2, <2>4
<1>10. Routes' = Table!Without({r})
  BY <1>5 DEF Routes, Table!Without
<1>11. r \in There
  BY DEF RevokeReg
<1>. QED BY <1>1, <1>6, <1>7, <1>8, <1>9, <1>10, <1>11 DEF CoreInv, Table!Close

\* The relay's end leaves nothing.
LEMMA FinishMaps ==
  ASSUME CoreInv, Finish
  PROVE  CoreInv' /\ Table!Shut
<1>1. CoreTypes /\ ~ended /\ ended' = TRUE /\ uses' = uses
      /\ regs' = [q \in Regs |-> Absent] /\ pinned' = Unpinned(Regs)
  BY DEF CoreInv, Finish
<1>2. Absent \in [here : BOOLEAN, age : Nat, once : BOOLEAN, expired : BOOLEAN]
      /\ ~Absent.here /\ ~Absent.once /\ ~Absent.expired
  BY DEF Absent
<1>3. \A s \in Origins : pinned'[s].reg = IF pinned[s].reg \in Regs THEN NoReg ELSE pinned[s].reg
  BY <1>1, UnpinnedTypes
<1>4. CoreTypes'
  BY <1>1, <1>2, UnpinnedTypes DEF CoreTypes
<1>5. OnceThere'
  BY <1>1, <1>2 DEF OnceThere
<1>6. PinsProved'
  BY <1>1, <1>3 DEF PinsProved, CoreTypes
<1>7. There' = {} /\ Proved' = {} /\ Lapsed' = {}
  BY <1>1, <1>2 DEF There, Proved, Lapsed
<1>8. Routes' = Table!Without(Regs)
  BY <1>3 DEF Routes, Table!Without
<1>. QED BY <1>1, <1>4, <1>5, <1>6, <1>7, <1>8 DEF CoreInv, Table!Shut

\* A sweep takes registrations nobody proved himself for; a pin has none of them.
LEMMA SweepMaps ==
  ASSUME CoreInv, Sweep
  PROVE  CoreInv' /\ Table!Lapse
<1>1. CoreTypes /\ OnceThere /\ PinsProved /\ ~ended /\ UNCHANGED <<uses, ended>>
  BY DEF CoreInv, Sweep
<1>2. PICK lapse : lapse = [Absent EXCEPT !.expired = TRUE]
  OBVIOUS
<1>3. lapse \in [here : BOOLEAN, age : Nat, once : BOOLEAN, expired : BOOLEAN]
      /\ ~lapse.here /\ ~lapse.once /\ lapse.expired
  BY <1>2 DEF Absent
<1>4. ASSUME NEW q \in Regs
      PROVE  /\ regs'[q] \in [here : BOOLEAN, age : Nat, once : BOOLEAN, expired : BOOLEAN]
             /\ q \in Expired => regs'[q] = lapse
             /\ q \notin Expired => /\ regs'[q].here = regs[q].here
                                    /\ regs'[q].once = regs[q].once
                                    /\ regs'[q].expired = regs[q].expired
  <2>1. regs[q] \in [here : BOOLEAN, age : Nat, once : BOOLEAN, expired : BOOLEAN]
    BY <1>1 DEF CoreTypes
  <2>2. regs'[q] = CASE q \in Expired -> lapse
                     [] q \in There /\ regs[q].age < Expires -> [regs[q] EXCEPT !.age = @ + 1]
                     [] OTHER -> regs[q]
    BY <1>2 DEF Sweep
  <2>3. CASE q \in Expired
    <3>1. regs'[q] = lapse
      <4>1. ~(regs[q].age < Expires)
        BY <2>1, <2>3, RelayCoreAssumption DEF Expired
      <4>. QED BY <2>2, <2>3, <4>1
    <3>. QED BY <1>3, <2>3, <3>1
  <2>4. CASE q \notin Expired /\ q \in There /\ regs[q].age < Expires
    BY <2>1, <2>2, <2>4
  <2>5. CASE q \notin Expired /\ ~(q \in There /\ regs[q].age < Expires)
    BY <2>1, <2>2, <2>5
  <2>. QED BY <2>3, <2>4, <2>5
<1>5. \A q \in Expired : q \in There /\ ~regs[q].once
  BY DEF Expired
<1>6. PICK left : left = Unpinned(Expired)
  OBVIOUS
<1>7. /\ left \in [Origins -> [reg : Regs \cup {NoReg}, idle : Nat, ready : BOOLEAN]]
      /\ \A s \in Origins : left[s].reg = pinned[s].reg
  <2>1. ASSUME NEW s \in Origins PROVE pinned[s].reg \notin Expired
    BY <1>1, <1>5, RelayCoreAssumption DEF PinsProved, There
  <2>. QED BY <1>1, <1>6, <2>1, UnpinnedTypes
<1>8. PICK quiet \in SUBSET Origins : quiet = {s \in Origins : left[s].reg = NoReg \/ left[s].idle + 1 >= PinIdle}
  OBVIOUS
<1>9. pinned' = [s \in Origins |-> IF s \in quiet THEN NoPin ELSE [left[s] EXCEPT !.idle = @ + 1]]
  BY <1>6, <1>8 DEF Sweep
<1>10. /\ pinned' \in [Origins -> [reg : Regs \cup {NoReg}, idle : Nat, ready : BOOLEAN]]
       /\ \A s \in Origins : pinned'[s].reg = IF s \in quiet THEN NoReg ELSE pinned[s].reg
  <2>1. NoPin \in [reg : Regs \cup {NoReg}, idle : Nat, ready : BOOLEAN] /\ NoPin.reg = NoReg
    BY DEF NoPin
  <2>2. ASSUME NEW s \in Origins
        PROVE  /\ [left[s] EXCEPT !.idle = @ + 1] \in [reg : Regs \cup {NoReg}, idle : Nat, ready : BOOLEAN]
               /\ [left[s] EXCEPT !.idle = @ + 1].reg = pinned[s].reg
    BY <1>7
  <2>. QED BY <1>9, <2>1, <2>2
<1>11. CoreTypes'
  <2>1. regs' \in [Regs -> [here : BOOLEAN, age : Nat, once : BOOLEAN, expired : BOOLEAN]]
    BY <1>4 DEF Sweep
  <2>. QED BY <1>1, <1>10, <2>1 DEF CoreTypes
<1>12. OnceThere'
  <2> SUFFICES ASSUME NEW q \in Regs
               PROVE  (regs'[q].once => regs'[q].here) /\ (regs'[q].here => ~regs'[q].expired)
    BY DEF OnceThere
  <2>1. CASE q \in Expired
    BY <1>3, <1>4, <2>1
  <2>2. CASE q \notin Expired
    BY <1>1, <1>4, <2>2 DEF OnceThere
  <2>. QED BY <2>1, <2>2
<1>13. PinsProved'
  <2> SUFFICES ASSUME NEW s \in Origins, pinned'[s].reg # NoReg PROVE regs'[pinned'[s].reg].once
    BY DEF PinsProved
  <2>1. PICK q \in Regs : q = pinned[s].reg /\ pinned'[s].reg = q /\ regs[q].once
    BY <1>1, <1>10 DEF PinsProved, CoreTypes
  <2>2. q \notin Expired
    BY <1>5, <2>1
  <2>. QED BY <1>4, <2>1, <2>2
<1>14. Expired \in SUBSET (There \ Proved)
  BY <1>5 DEF Proved
<1>15. There' = There \ Expired
  BY <1>3, <1>4 DEF There
<1>16. Proved' = Proved
  BY <1>3, <1>4, <1>14, <1>15 DEF Proved, There
<1>17. Lapsed' = Lapsed \cup Expired
  BY <1>3, <1>4, <1>5 DEF Lapsed, There
<1>18. Routes' = [s \in Origins |-> IF s \in quiet THEN NoReg ELSE Routes[s]]
  BY <1>10 DEF Routes
<1>. QED BY <1>1, <1>11, <1>12, <1>13, <1>14, <1>15, <1>16, <1>17, <1>18 DEF CoreInv, Table!Lapse

\* A check with a registration's credentials pins its source.
LEMMA CheckMaps ==
  ASSUME CoreInv, NEW s \in Origins, NEW r \in Regs, Check(s, r)
  PROVE  CoreInv' /\ Table!Route(s, r)
<1>1. /\ CoreTypes /\ OnceThere /\ PinsProved /\ ~ended /\ UNCHANGED <<uses, ended>>
      /\ pinned[s].reg = NoReg /\ uses[s] = r /\ r \in There /\ Cardinality(PinsOf(r)) < MaxPins
  BY DEF CoreInv, Check
<1>2. PICK new : new = [reg |-> r, idle |-> 0, ready |-> FALSE]
  OBVIOUS
<1>3. /\ new \in [reg : Regs \cup {NoReg}, idle : Nat, ready : BOOLEAN] /\ new.reg = r
      /\ pinned' = [pinned EXCEPT ![s] = new]
  BY <1>2 DEF Check
<1>4. \A t \in Origins : pinned'[t] = IF t = s THEN new ELSE pinned[t]
  BY <1>1, <1>3 DEF CoreTypes
<1>5. PICK proven : proven = [regs[r] EXCEPT !.once = TRUE]
  OBVIOUS
<1>6. /\ proven \in [here : BOOLEAN, age : Nat, once : BOOLEAN, expired : BOOLEAN]
      /\ proven.once /\ proven.here = regs[r].here /\ proven.expired = regs[r].expired
  <2>1. regs[r] \in [here : BOOLEAN, age : Nat, once : BOOLEAN, expired : BOOLEAN]
    BY <1>1 DEF CoreTypes
  <2>. QED BY <1>5, <2>1
<1>7. regs' = [regs EXCEPT ![r] = proven]
  BY <1>1, <1>5 DEF Check, CoreTypes
<1>8. \A q \in Regs : regs'[q] = IF q = r THEN proven ELSE regs[q]
  BY <1>1, <1>7 DEF CoreTypes
<1>9. CoreTypes'
  BY <1>1, <1>3, <1>6, <1>7 DEF CoreTypes
<1>10. OnceThere' /\ PinsProved'
  <2>1. OnceThere'
    BY <1>1, <1>6, <1>8 DEF OnceThere, There
  <2>2. PinsProved'
    <3> SUFFICES ASSUME NEW t \in Origins, pinned'[t].reg # NoReg PROVE regs'[pinned'[t].reg].once
      BY DEF PinsProved
    <3>1. CASE t = s
      BY <1>3, <1>4, <1>6, <1>8, <3>1
    <3>2. CASE t # s
      BY <1>1, <1>4, <1>6, <1>8, <3>2 DEF PinsProved, CoreTypes
    <3>. QED BY <3>1, <3>2
  <2>. QED BY <2>1, <2>2
<1>11. There' = There /\ Lapsed' = Lapsed
  BY <1>6, <1>8 DEF There, Lapsed
<1>12. Proved' = Proved \cup {r}
  BY <1>1, <1>6, <1>8, <1>11 DEF Proved, There
<1>13. Routes' = [Routes EXCEPT ![s] = r] /\ Routes[s] = NoReg
  <2>1. \A t \in Origins : Routes'[t] = IF t = s THEN r ELSE Routes[t]
    BY <1>3, <1>4 DEF Routes
  <2>2. Routes \in [Origins -> {pinned[t].reg : t \in Origins}] /\ Routes' = [t \in Origins |-> Routes'[t]]
    BY DEF Routes
  <2>. QED BY <1>1, <2>1, <2>2 DEF Routes
<1>14. Table!Cardinality(Table!RoutesOf(r)) < MaxPins
  <2>1. PinsOf(r) = Table!RoutesOf(r)
    BY DEF PinsOf, Routes, Table!RoutesOf
  <2>. QED BY <1>1, <2>1, SameCount
<1>. QED BY <1>1, <1>9, <1>10, <1>11, <1>12, <1>13, <1>14 DEF CoreInv, Table!Route

\* Other datagrams, and what the viewer does, leave the table as it is.
LEMMA TrafficMaps ==
  ASSUME CoreInv, NEW s \in Origins, Noise(s) \/ PinReady(s) \/ FromPinned(s) \/ FromWorker(s)
  PROVE  CoreInv' /\ UNCHANGED Table!tableVars
<1>1. CoreTypes /\ OnceThere /\ PinsProved /\ UNCHANGED <<regs, uses, ended>>
  BY DEF CoreInv, Noise, PinReady, FromPinned, FromWorker
<1>2. PICK pin : pinned' = [pinned EXCEPT ![s] = pin]
                 /\ pin \in [reg : Regs \cup {NoReg}, idle : Nat, ready : BOOLEAN] /\ pin.reg = pinned[s].reg
  <2>1. pinned[s] \in [reg : Regs \cup {NoReg}, idle : Nat, ready : BOOLEAN] /\ DOMAIN pinned = Origins
    BY <1>1 DEF CoreTypes
  <2>2. CASE Noise(s)
    <3>1. pinned' = [pinned EXCEPT ![s] = pinned[s]]
      BY <1>1, <2>2 DEF Noise, CoreTypes
    <3>. QED BY <2>1, <3>1
  <2>3. CASE PinReady(s)
    <3>1. pinned' = [pinned EXCEPT ![s] = [pinned[s] EXCEPT !.ready = TRUE, !.idle = 0]]
      BY <1>1, <2>3 DEF PinReady, CoreTypes
    <3>2. PICK pin : pin = [pinned[s] EXCEPT !.ready = TRUE, !.idle = 0]
      OBVIOUS
    <3>3. pin \in [reg : Regs \cup {NoReg}, idle : Nat, ready : BOOLEAN] /\ pin.reg = pinned[s].reg
      BY <2>1, <3>2
    <3>. QED BY <3>1, <3>2, <3>3
  <2>4. CASE FromPinned(s) \/ FromWorker(s)
    <3>1. pinned' = [pinned EXCEPT ![s] = [pinned[s] EXCEPT !.idle = 0]]
      BY <1>1, <2>4 DEF FromPinned, FromWorker, CoreTypes
    <3>2. PICK pin : pin = [pinned[s] EXCEPT !.idle = 0]
      OBVIOUS
    <3>3. pin \in [reg : Regs \cup {NoReg}, idle : Nat, ready : BOOLEAN] /\ pin.reg = pinned[s].reg
      BY <2>1, <3>2
    <3>. QED BY <3>1, <3>2, <3>3
  <2>. QED BY <2>2, <2>3, <2>4
<1>3. \A t \in Origins : pinned'[t].reg = pinned[t].reg
  BY <1>1, <1>2 DEF CoreTypes
<1>4. CoreTypes'
  BY <1>1, <1>2 DEF CoreTypes
<1>5. OnceThere' /\ PinsProved'
  BY <1>1, <1>3 DEF OnceThere, PinsProved
<1>6. There' = There /\ Proved' = Proved /\ Lapsed' = Lapsed
  BY <1>1 DEF There, Proved, Lapsed
<1>7. Routes' = Routes
  BY <1>3 DEF Routes
<1>. QED BY <1>1, <1>4, <1>5, <1>6, <1>7 DEF CoreInv, Table!tableVars

LEMMA RoamMaps ==
  ASSUME CoreInv, NEW s \in Origins, NEW r \in Regs \cup {NoReg}, Roam(s, r)
  PROVE  CoreInv' /\ Table!Move(s)
<1>1. CoreTypes /\ UNCHANGED <<regs, pinned, ended>> /\ uses' = [uses EXCEPT ![s] = r]
  BY DEF CoreInv, Roam
<1>2. CoreTypes'
  BY <1>1 DEF CoreTypes
<1>3. OnceThere' /\ PinsProved'
  BY <1>1 DEF CoreInv, OnceThere, PinsProved
<1>4. There' = There /\ Proved' = Proved /\ Lapsed' = Lapsed /\ Routes' = Routes
  BY <1>1 DEF There, Proved, Lapsed, Routes
<1>. QED BY <1>1, <1>2, <1>3, <1>4 DEF CoreInv, Table!Move

LEMMA CoreMaps ==
  ASSUME CoreInv, [CoreNext]_coreVars
  PROVE  CoreInv' /\ [Table!TableNext]_Table!tableVars
<1>1. ASSUME NEW r \in Regs, AllowReg(r) \/ RevokeReg(r)
      PROVE  CoreInv' /\ [Table!TableNext]_Table!tableVars
  BY <1>1, AllowMaps, RevokeMaps DEF Table!TableNext
<1>2. CASE Finish \/ Sweep
  BY <1>2, FinishMaps, SweepMaps DEF Table!TableNext
<1>3. ASSUME NEW s \in Origins, Noise(s) \/ PinReady(s) \/ FromPinned(s) \/ FromWorker(s)
      PROVE  CoreInv' /\ [Table!TableNext]_Table!tableVars
  BY <1>3, TrafficMaps
<1>4. ASSUME NEW s \in Origins, NEW r \in Regs, Check(s, r)
      PROVE  CoreInv' /\ [Table!TableNext]_Table!tableVars
  BY <1>4, CheckMaps DEF Table!TableNext
<1>5. ASSUME NEW s \in Origins, NEW r \in Regs \cup {NoReg}, Roam(s, r)
      PROVE  CoreInv' /\ [Table!TableNext]_Table!tableVars
  BY <1>5, RoamMaps DEF Table!TableNext
<1>6. CASE UNCHANGED coreVars
  <2>1. UNCHANGED <<regs, pinned, uses, ended>>
    BY <1>6 DEF coreVars
  <2>2. CoreInv'
    BY <2>1 DEF CoreInv, CoreTypes, OnceThere, PinsProved
  <2>3. UNCHANGED Table!tableVars
    BY <2>1 DEF Table!tableVars, There, Proved, Lapsed, Routes
  <2>. QED BY <2>2, <2>3
<1>. QED BY <1>1, <1>2, <1>3, <1>4, <1>5, <1>6 DEF CoreNext

\* For any registrations, sources, limits and viewers that roam: a source is pinned to no registration
\* but the one it proved itself for, its pin ends with it, and a registration that was proved does
\* not expire (media-relay/relay.mjs).
THEOREM RoutesImplemented == CoreSpec => RelayRoutes
<1>1. CoreInit => CoreInv /\ Table!TableInit
  BY InitCore
<1>2. CoreInv /\ [CoreNext]_coreVars => CoreInv' /\ [Table!TableNext]_Table!tableVars
  BY CoreMaps
<1>. QED BY <1>1, <1>2, PTL DEF CoreSpec, RelayRoutes, Table!TableSpec

=============================================================================
