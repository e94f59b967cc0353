------------------------------- MODULE Streams -------------------------------
(***************************************************************************)
(* The life of a stream: admission in the registry (stream-registry.mjs),  *)
(* offers, endings, revalidation and shutdown in stream-runtime.mjs, the   *)
(* workers of native-media.mjs and each stream's registration with the     *)
(* media relay (media-relay.mjs).                                          *)
(*                                                                         *)
(* An offer (#subscribe) is a coroutine whose awaits are the values of     *)
(* offer.  Any number of #endSubscription calls may await one removal:     *)
(* they share it, so one flag per stream stands for them.  Ids are fresh   *)
(* UUIDs in the code: each stream and source is used once.                 *)
(***************************************************************************)
EXTENDS Naturals, Sequences, FiniteSets

CONSTANTS
  Sessions, Streams, Sources,
  Keys,         \* plans that share no encode (sourceKey)
  Changing,     \* plans whose display may come and go: all Keys, or fewer to bound a check
  SessionOf,    \* the session that offers a stream
  KeyOf,        \* the plan of a stream
  MaxSources,   \* host budget: sources not yet released
  PerSession,   \* registered streams of one session
  None

ASSUME StreamsAssumption ==
  /\ SessionOf \in [Streams -> Sessions]
  /\ KeyOf \in [Streams -> Keys]
  /\ Changing \subseteq Keys
  /\ MaxSources \in Nat /\ PerSession \in Nat
  /\ None \notin Streams \cup Sources \cup Keys

VARIABLES
  sub,        \* state of the registry's subscription
  src,        \* its source
  source,     \* state of the registry's source
  creator,    \* the stream whose offer started the source's worker
  worker,     \* NativeMedia.workers: none, running, stopping or exited
  ready,      \* the worker reported ready
  entry,      \* the peer's entry in its worker's record
  answered,   \* addPeer's promise holds an answer its offer has not taken
  offer,      \* where the offer is
  ends,       \* an #endSubscription call awaits the peer's removal
  leaseWait,  \* stopStream awaits the lease's revoke before it ends the stream
  closeWait,  \* revalidate awaits the lease's revoke before it closes the source
  stops,      \* streams whose end stopSession awaits (sessionStops)
  online,     \* sessions in the session store
  valid,      \* plans the policy and the connected displays allow now
  stopping,   \* shutdown has begun
  relayUp,    \* the relay listens
  toRelay,    \* lines the relay has not read
  fromRelay,  \* lines the server has not read
  registered, \* the relay's registrations
  path        \* relayPaths

registryVars == <<sub, src, source, creator>>
processVars == <<worker, ready, entry>>
workerVars == <<processVars, answered>>
callVars == <<offer, ends, leaseWait, closeWait, stops>>
hostVars == <<online, valid, stopping>>
relayVars == <<relayUp, toRelay, fromRelay, registered, path>>
vars == <<registryVars, workerVars, callVars, hostVars, relayVars>>

\* Lines to and from the relay.  The revokes one turn of the event loop sends travel together.
Line(type, P) == [type |-> type, streams |-> P]

Init ==
  /\ sub = [p \in Streams |-> "absent"]
  /\ src = [p \in Streams |-> None]
  /\ source = [c \in Sources |-> "none"]
  /\ creator = [c \in Sources |-> None]
  /\ worker = [c \in Sources |-> "none"]
  /\ ready = [c \in Sources |-> FALSE]
  /\ entry = [p \in Streams |-> "none"]
  /\ answered = [p \in Streams |-> FALSE]
  /\ offer = [p \in Streams |-> "none"]
  /\ ends = [p \in Streams |-> FALSE]
  /\ leaseWait = {}
  /\ closeWait = {}
  /\ stops = [s \in Sessions |-> {}]
  /\ online = Sessions
  /\ valid = Keys
  /\ stopping = FALSE
  /\ relayUp = TRUE
  /\ toRelay = <<>>
  /\ fromRelay = <<>>
  /\ registered = {}
  /\ path = {}

-----------------------------------------------------------------------------
(* The registry. *)

Registered(p) == sub[p] \in {"starting", "live", "closing"}
Subscriptions(c) == {p \in Streams : Registered(p) /\ src[p] = c}
Held(c) == source[c] \in {"starting", "ready", "closing"}

\* sourceKey of a source's plan.
Key(c) == KeyOf[creator[c]]

\* Mutant: only a source whose worker is ready is shared.
ShareableM(k) == {c \in Sources : source[c] = "ready" /\ Key(c) = k}

\* subscribe shares a source with the same plan that is not closing.
Shareable(k) == {c \in Sources : source[c] \in {"starting", "ready"} /\ Key(c) = k}

\* media.workers.has.
HasWorker(c) == worker[c] \in {"running", "stopping"}

-----------------------------------------------------------------------------
(* Endings.  Each says everything about the registry, the workers, ends and the relay. *)

\* #endSubscription of the streams E up to its await, and the registry's closing transition of
\* the streams C.  A running worker is asked to remove the peer, a stopping worker's exit is
\* awaited; a stream whose worker was never launched is unsubscribed at once.
End(C, E) ==
  LET begun == {p \in E : Registered(p)}
      unserved == {p \in begun : worker[src[p]] = "none"}
      asked == {p \in begun : worker[src[p]] = "running"}
  IN /\ sub' = [p \in Streams |-> IF p \in unserved THEN "gone"
                                  ELSE IF p \in C /\ Registered(p) THEN "closing" ELSE sub[p]]
     /\ source' = [c \in Sources |->
                     IF Subscriptions(c) # {} /\ Subscriptions(c) \subseteq unserved
                     THEN "released" ELSE source[c]]
     /\ entry' = [p \in Streams |-> IF p \in asked THEN "removing" ELSE entry[p]]
     /\ ends' = [p \in Streams |-> ends[p] \/ p \in begun \ unserved]
     /\ UNCHANGED <<src, creator, worker, ready>>

\* #forget of the streams P: those with a media path are revoked at the relay.
Forget(P) ==
  /\ path' = path \ P
  /\ toRelay' = IF path \cap P # {} /\ relayUp
                THEN Append(toRelay, Line("revoke", path \cap P)) ELSE toRelay

\* Mutant: the source is released when its worker is told to stop, not when it exits.
UnsubscribeM(p) ==
  LET c == src[p]
      last == Subscriptions(c) = {p} /\ source[c] # "closing"
  IN /\ sub' = [sub EXCEPT ![p] = "gone"]
     /\ ends' = [ends EXCEPT ![p] = FALSE]
     /\ source' = [source EXCEPT ![c] = IF last THEN "released" ELSE @]
     /\ worker' = [worker EXCEPT ![c] = IF last THEN "stopping" ELSE @]
     /\ Forget({p})

\* Mutant: a source that is still starting is left to its start.
UnsubscribeReadyM(p) ==
  LET c == src[p]
      last == Subscriptions(c) = {p} /\ source[c] = "ready"
  IN /\ sub' = [sub EXCEPT ![p] = "gone"]
     /\ ends' = [ends EXCEPT ![p] = FALSE]
     /\ source' = [source EXCEPT ![c] = IF last THEN "closing" ELSE @]
     /\ worker' = [worker EXCEPT ![c] = IF last THEN "stopping" ELSE @]
     /\ Forget({p})

\* #endSubscription after its await: the last subscription closes and stops its source.
Unsubscribe(p) ==
  LET c == src[p]
      last == Subscriptions(c) = {p} /\ source[c] # "closing"
  IN /\ sub' = [sub EXCEPT ![p] = "gone"]
     /\ ends' = [ends EXCEPT ![p] = FALSE]
     /\ source' = [source EXCEPT ![c] = IF last THEN "closing" ELSE @]
     /\ worker' = [worker EXCEPT ![c] = IF last THEN "stopping" ELSE @]
     /\ Forget({p})

\* stopStream of E by a session's end, its viewer, the host or the relay's exit.  Control on one
\* of them, held, is revoked first.
StopStreams(E, held) ==
  /\ End(E, E \ held)
  /\ leaseWait' = leaseWait \cup held

\* The streams a lease's owner may be on.
MayBeOwned == {{}} \cup {{p} : p \in {q \in Streams : sub[q] = "live"}}

\* stopSession of the sessions T; one that is already stopping is not stopped again.
StopSessions(T) ==
  LET todo == {s \in T : stops[s] = {}}
      E == {p \in Streams : Registered(p) /\ SessionOf[p] \in todo}
  IN /\ \E held \in MayBeOwned : StopStreams(E, held \cap E)
     /\ stops' = [s \in Sessions |-> IF s \in todo THEN {p \in E : SessionOf[p] = s} ELSE stops[s]]

-----------------------------------------------------------------------------
(* Offers. *)

\* valid: the stream's plan is of the applied policy, on a display that is still there as it was.
Valid(k) == k \in valid

\* Mutant: a session that is being stopped may offer.
MayOfferM(s, k) == s \in online /\ ~stopping /\ k \in valid /\ relayUp

\* What an offer is checked for before it is admitted.
MayOffer(s, k) == s \in online /\ ~stopping /\ stops[s] = {} /\ Valid(k) /\ relayUp

\* subscribe: a usable plan of a session that has room for it.
MaySubscribe(s) == Cardinality({q \in Streams : Registered(q) /\ SessionOf[q] = s}) < PerSession

\* Mutant: the source to be added is not counted.
MayStartM == Cardinality({c \in Sources : Held(c)}) <= MaxSources

\* The host has room for another source (its bitrate and pixel budgets may refuse it earlier).
MayStart == Cardinality({c \in Sources : Held(c)}) < MaxSources

\* media.start: the process runs, or could not be launched.
Launched == {"running", "none"}

\* offerVideo up to the first await of #subscribe: the source is shared or created, its worker
\* launched (or refused at once) and the peer added.
Offer(p) ==
  LET s == SessionOf[p]
      k == KeyOf[p]
  IN /\ sub[p] = "absent"
     /\ MayOffer(s, k)
     /\ MaySubscribe(s)
     /\ sub' = [sub EXCEPT ![p] = "starting"]
     /\ offer' = [offer EXCEPT ![p] = "negotiating"]
     /\ \/ \E c \in Shareable(k) :
             /\ src' = [src EXCEPT ![p] = c]
             /\ entry' = [entry EXCEPT ![p] = IF worker[c] = "running" THEN "negotiating" ELSE "none"]
             /\ UNCHANGED <<source, creator, worker>>
        \/ /\ Shareable(k) = {}
           /\ MayStart
           /\ \E c \in Sources, launched \in Launched :
                /\ source[c] = "none"
                /\ src' = [src EXCEPT ![p] = c]
                /\ source' = [source EXCEPT ![c] = "starting"]
                /\ creator' = [creator EXCEPT ![c] = p]
                /\ worker' = [worker EXCEPT ![c] = launched]
                /\ entry' = [entry EXCEPT ![p] = IF launched = "running" THEN "negotiating" ELSE "none"]
     /\ UNCHANGED <<ready, answered, ends, leaseWait, closeWait, stops, hostVars, relayVars>>

\* The catch of #subscribe: the stream is ended, then the offer fails.
Fail(p) == End({p}, {p}) /\ offer' = [offer EXCEPT ![p] = "ending"]

\* started of #subscribe: only the creator waits for its source's worker.
Started(p) == creator[src[p]] = p => ready[src[p]]

\* Mutant: a worker that exits while it starts does not reject its start.
SettledM(p) == entry[p] # "negotiating" /\ Started(p)

\* Promise.allSettled: the peer is live or failed, and the worker ready, gone or never launched.
Settled(p) ==
  /\ entry[p] # "negotiating"
  /\ Started(p) \/ ~HasWorker(src[p])

\* Both settled: a live peer goes on to the port check.
OfferSettles(p) ==
  /\ offer[p] = "negotiating"
  /\ Settled(p)
  /\ answered' = [answered EXCEPT ![p] = FALSE]
  /\ IF answered[p] /\ Started(p)
     THEN offer' = [offer EXCEPT ![p] = "port"] /\ UNCHANGED <<registryVars, processVars, ends>>
     ELSE Fail(p)
  /\ UNCHANGED <<leaseWait, closeWait, stops, hostVars, relayVars>>

\* checkPort and relayAddresses returned: the stream is sent to the relay, unless the port is not
\* the worker's or the relay stopped listening.
Allow(p) ==
  /\ offer[p] = "port"
  /\ \/ /\ relayUp
        /\ offer' = [offer EXCEPT ![p] = "relay"]
        /\ toRelay' = Append(toRelay, Line("allow", {p}))
        /\ UNCHANGED <<registryVars, processVars, ends>>
     \/ Fail(p) /\ UNCHANGED toRelay
  /\ UNCHANGED <<answered, leaseWait, closeWait, stops, hostVars, relayUp, fromRelay, registered, path>>

\* 5 s without an answer from the relay: the registration is revoked and the offer fails.
AllowTimeout(p) ==
  /\ offer[p] = "relay"
  /\ Fail(p)
  /\ toRelay' = Append(toRelay, Line("revoke", {p}))
  /\ UNCHANGED <<answered, leaseWait, closeWait, stops, hostVars, relayUp, fromRelay, registered, path>>

\* The relay has the stream: its path is recorded and the stream goes live, unless its session,
\* its plan, its subscription or the server ended meanwhile.
Allowed(p) ==
  /\ offer[p] = "relay"
  /\ path' = path \cup {p}
  /\ IF SessionOf[p] \in online /\ ~stopping /\ Valid(KeyOf[p]) /\ sub[p] = "starting"
     THEN /\ sub' = [sub EXCEPT ![p] = "live"]
          /\ offer' = [offer EXCEPT ![p] = "answered"]
          /\ UNCHANGED <<src, source, creator, processVars, ends>>
     ELSE Fail(p)

\* Nobody authenticated in time: the stream ends.
PathExpired(p) == End({p}, {p}) /\ UNCHANGED <<offer, path>>

\* A line from the relay: the answer to an allow nobody waits for any more is dropped.
ReceiveRelay ==
  /\ fromRelay # <<>>
  /\ fromRelay' = Tail(fromRelay)
  /\ LET m == Head(fromRelay)
     IN \E p \in m.streams :
          \/ m.type = "allowed" /\ Allowed(p)
          \/ m.type = "refused" /\ offer[p] = "relay" /\ Fail(p) /\ UNCHANGED path
          \/ m.type = "expired" /\ PathExpired(p)
          \/ /\ m.type \in {"allowed", "refused"} /\ offer[p] # "relay"
             /\ UNCHANGED <<registryVars, processVars, ends, offer, path>>
  /\ UNCHANGED <<answered, leaseWait, closeWait, stops, hostVars, relayUp, toRelay, registered>>

\* Mutant: the catch leaves the relay to #forget.
OfferFailsM(p) ==
  /\ offer[p] = "ending"
  /\ sub[p] = "gone"
  /\ offer' = [offer EXCEPT ![p] = "failed"]
  /\ UNCHANGED <<registryVars, workerVars, ends, leaseWait, closeWait, stops, hostVars, relayVars>>

\* The failed offer's #endSubscription returned: a path recorded after the stream was forgotten
\* is revoked here.
OfferFails(p) ==
  /\ offer[p] = "ending"
  /\ sub[p] = "gone"
  /\ offer' = [offer EXCEPT ![p] = "failed"]
  /\ Forget({p})
  /\ UNCHANGED <<registryVars, workerVars, ends, leaseWait, closeWait, stops, hostVars,
                 relayUp, fromRelay, registered>>

-----------------------------------------------------------------------------
(* Endings by viewers, the host, sessions and displays. *)

StopStream(p) ==
  /\ Registered(p)
  /\ SessionOf[p] \in online
  /\ \E held \in MayBeOwned : StopStreams({p}, held \cap {p})
  /\ UNCHANGED <<answered, offer, closeWait, stops, hostVars, relayVars>>

\* The lease's revoke settled.
StopAfterLease(p) ==
  /\ p \in leaseWait
  /\ leaseWait' = leaseWait \ {p}
  /\ End({p}, {p})
  /\ UNCHANGED <<answered, offer, closeWait, stops, hostVars, relayVars>>

\* Every stopStream of a stopSession returned.
SessionStopped(s) ==
  /\ stops[s] # {}
  /\ \A p \in stops[s] : sub[p] = "gone"
  /\ stops' = [stops EXCEPT ![s] = {}]
  /\ UNCHANGED <<registryVars, workerVars, offer, ends, leaseWait, closeWait, hostVars, relayVars>>

Disconnect(s) ==
  /\ s \in online
  /\ online' = online \ {s}
  /\ StopSessions({s})
  /\ UNCHANGED <<answered, offer, closeWait, valid, stopping, relayVars>>

\* closeSource of C and stop of their workers; a source without a worker is released at once.
Close(C) ==
  LET unserved == {c \in C : worker[c] = "none"}
  IN /\ source' = [c \in Sources |-> IF c \in unserved THEN "released"
                                     ELSE IF c \in C THEN "closing" ELSE source[c]]
     /\ sub' = [p \in Streams |-> IF ~Registered(p) \/ src[p] \notin C THEN sub[p]
                                  ELSE IF src[p] \in unserved THEN "gone" ELSE "closing"]
     /\ worker' = [c \in Sources |-> IF c \in C \ unserved THEN "stopping" ELSE worker[c]]
     /\ UNCHANGED <<src, creator, ready, entry, answered>>

\* The displays changed: revalidate closes every open source whose plan is not valid, one whose
\* stream holds control after the lease's revoke.
DisplaysChange(keys) ==
  /\ ~stopping
  /\ keys # valid
  /\ valid' = keys
  /\ LET C == {c \in Sources : source[c] \in {"starting", "ready"} /\ Key(c) \notin keys}
     IN \E held \in MayBeOwned :
          LET late == {c \in C : held \cap Subscriptions(c) # {}}
          IN Close(C \ late) /\ closeWait' = closeWait \cup late
  /\ UNCHANGED <<offer, ends, leaseWait, stops, online, stopping, relayVars>>

CloseAfterLease(c) ==
  /\ c \in closeWait
  /\ closeWait' = closeWait \ {c}
  /\ Close({c} \cap {d \in Sources : Held(d)})
  /\ UNCHANGED <<offer, ends, leaseWait, stops, hostVars, relayVars>>

\* stopAll; the media.shutdown that follows it finds no running worker (ShutdownStopsWorkers).
Shutdown ==
  /\ ~stopping
  /\ stopping' = TRUE
  /\ StopSessions(Sessions)
  /\ UNCHANGED <<answered, offer, closeWait, online, valid, relayVars>>

-----------------------------------------------------------------------------
(* Workers.  A line that crosses a change of the entry's state is ignored, so a worker's report
   and its receipt are one step. *)

WorkerReady(c) ==
  /\ HasWorker(c)
  /\ ~ready[c]
  /\ ready' = [ready EXCEPT ![c] = TRUE]
  /\ source' = [source EXCEPT ![c] = IF @ = "starting" THEN "ready" ELSE @]
  /\ UNCHANGED <<sub, src, creator, worker, entry, answered, callVars, hostVars, relayVars>>

\* answer: media-net is up, so the ready line came first.
Answer(p) ==
  /\ entry[p] = "negotiating"
  /\ ready[src[p]]
  /\ entry' = [entry EXCEPT ![p] = "live"]
  /\ answered' = [answered EXCEPT ![p] = TRUE]
  /\ UNCHANGED <<registryVars, worker, ready, callVars, hostVars, relayVars>>

\* peer-failed: a negotiating peer fails its offer, a live one ends its stream.
PeerFailed(p) ==
  /\ \/ /\ entry[p] = "negotiating"
        /\ entry' = [entry EXCEPT ![p] = "none"]
        /\ UNCHANGED <<registryVars, ends, worker, ready>>
     \/ entry[p] = "live" /\ End({p}, {p})
  /\ UNCHANGED <<answered, offer, leaseWait, closeWait, stops, hostVars, relayVars>>

\* 15 s without an answer: the offer fails and the peer is removed.
NegotiationTimeout(p) ==
  /\ entry[p] = "negotiating"
  /\ entry' = [entry EXCEPT ![p] = IF worker[src[p]] = "running" THEN "removing" ELSE "none"]
  /\ UNCHANGED <<registryVars, worker, ready, answered, callVars, hostVars, relayVars>>

\* peer-closed: the removal is done, and with it every #endSubscription that awaits it.
PeerClosed(p) ==
  /\ entry[p] = "removing"
  /\ entry' = [entry EXCEPT ![p] = "none"]
  /\ IF ends[p] THEN Unsubscribe(p) ELSE UNCHANGED <<sub, source, worker, ends, path, toRelay>>
  /\ UNCHANGED <<src, creator, ready, answered, offer, leaseWait, closeWait, stops, hostVars,
                 relayUp, fromRelay, registered>>

\* Mutant: the peer is given up, its worker is not stopped.
RemovalTimeoutM(p) ==
  /\ entry[p] = "removing"
  /\ worker[src[p]] = "running"
  /\ entry' = [entry EXCEPT ![p] = "none"]
  /\ UNCHANGED <<registryVars, worker, ready, answered, callVars, hostVars, relayVars>>

\* 1.5 s without peer-closed: the source is stopped.
RemovalTimeout(p) ==
  /\ entry[p] = "removing"
  /\ worker[src[p]] = "running"
  /\ worker' = [worker EXCEPT ![src[p]] = "stopping"]
  /\ UNCHANGED <<registryVars, ready, entry, answered, callVars, hostVars, relayVars>>

\* The process ended: its peers and removals are done and the registry releases the source.
WorkerExit(c) ==
  LET lost == Subscriptions(c)
  IN /\ HasWorker(c)
     /\ worker' = [worker EXCEPT ![c] = "exited"]
     /\ source' = [source EXCEPT ![c] = "released"]
     /\ entry' = [p \in Streams |-> IF src[p] = c THEN "none" ELSE entry[p]]
     /\ sub' = [p \in Streams |-> IF p \in lost THEN "gone" ELSE sub[p]]
     /\ ends' = [p \in Streams |-> ends[p] /\ p \notin lost]
     /\ Forget(lost)
     /\ UNCHANGED <<src, creator, ready, answered, offer, leaseWait, closeWait, stops, hostVars,
                    relayUp, fromRelay, registered>>

-----------------------------------------------------------------------------
(* The relay process. *)

\* A line from the server: allow registers the stream or is refused, revoke forgets it.
RelayReads ==
  /\ toRelay # <<>>
  /\ toRelay' = Tail(toRelay)
  /\ LET m == Head(toRelay)
     IN \/ /\ m.type = "revoke"
           /\ registered' = registered \ m.streams
           /\ UNCHANGED fromRelay
        \/ /\ m.type = "allow"
           /\ registered' = registered \cup m.streams
           /\ fromRelay' = Append(fromRelay, [m EXCEPT !.type = "allowed"])
        \/ /\ m.type = "allow"
           /\ fromRelay' = Append(fromRelay, [m EXCEPT !.type = "refused"])
           /\ UNCHANGED registered
  /\ UNCHANGED <<registryVars, workerVars, callVars, hostVars, relayUp, path>>

\* 15 s without an authenticated check (which the model leaves out: any registration may expire).
RelayExpires(p) ==
  /\ p \in registered
  /\ registered' = registered \ {p}
  /\ fromRelay' = Append(fromRelay, Line("expired", {p}))
  /\ UNCHANGED <<registryVars, workerVars, callVars, hostVars, relayUp, toRelay, path>>

\* The relay exits: the calls that wait for it are rejected and every stream stops.
RelayExit ==
  /\ relayUp
  /\ relayUp' = FALSE
  /\ toRelay' = <<>>
  /\ fromRelay' = <<>>
  /\ registered' = {}
  /\ offer' = [p \in Streams |-> IF offer[p] = "relay" THEN "ending" ELSE offer[p]]
  /\ StopSessions(Sessions)
  /\ UNCHANGED <<answered, closeWait, hostVars, path>>

RelayRestart ==
  /\ ~relayUp
  /\ relayUp' = TRUE
  /\ UNCHANGED <<registryVars, workerVars, callVars, hostVars, toRelay, fromRelay, registered, path>>

-----------------------------------------------------------------------------
Next ==
  \/ \E p \in Streams :
       \/ Offer(p) \/ OfferSettles(p) \/ Allow(p) \/ AllowTimeout(p) \/ OfferFails(p)
       \/ StopStream(p) \/ StopAfterLease(p)
       \/ Answer(p) \/ PeerFailed(p) \/ NegotiationTimeout(p) \/ PeerClosed(p) \/ RemovalTimeout(p)
       \/ RelayExpires(p)
  \/ \E s \in Sessions : Disconnect(s) \/ SessionStopped(s)
  \/ \E c \in Sources : CloseAfterLease(c) \/ WorkerReady(c) \/ WorkerExit(c)
  \/ \E keys \in SUBSET Changing : DisplaysChange((Keys \ Changing) \cup keys)
  \/ ReceiveRelay \/ RelayReads \/ RelayExit \/ RelayRestart
  \/ Shutdown

Spec == Init /\ [][Next]_vars

\* The server's own jobs and timers run, the lease settles (ClosingEnds of ControlLease), a
\* stopped worker ends (it is killed) and a worker reports ready or ends (its own 20 s timer; one
\* that hangs is stopped by the removal timeout).  Nothing is assumed of a running worker or of
\* the relay.
Fairness ==
  /\ \A p \in Streams :
       /\ WF_vars(OfferSettles(p)) /\ WF_vars(Allow(p)) /\ WF_vars(AllowTimeout(p))
       /\ WF_vars(OfferFails(p)) /\ WF_vars(StopAfterLease(p))
       /\ WF_vars(NegotiationTimeout(p)) /\ WF_vars(RemovalTimeout(p))
  /\ \A s \in Sessions : WF_vars(SessionStopped(s))
  /\ \A c \in Sources : /\ WF_vars(CloseAfterLease(c))
                        /\ WF_vars(worker[c] = "stopping" /\ WorkerExit(c))
                        /\ WF_vars(WorkerReady(c) \/ (~ready[c] /\ WorkerExit(c)))

FairSpec == Spec /\ Fairness

-----------------------------------------------------------------------------
(* Properties. *)

\* A worker that has not exited keeps its source's place in the budget: the host never runs more
\* workers than it admits sources, however endings, failures and new offers interleave.
WorkersWithinBudget ==
  /\ \A c \in Sources : HasWorker(c) => Held(c)
  /\ Cardinality({c \in Sources : HasWorker(c)}) <= MaxSources

\* Viewers of one plan share one encode: two open sources never have the same plan.
OneOpenSourcePerKey ==
  \A c, d \in Sources :
    source[c] \in {"starting", "ready"} /\ source[d] \in {"starting", "ready"} /\ Key(c) = Key(d)
      => c = d

\* No open source is left without a subscription, and a closing one serves nobody: its last
\* subscriptions are closing.
NoIdleSource ==
  \A c \in Sources :
    /\ source[c] \in {"starting", "ready"} => Subscriptions(c) # {}
    /\ source[c] = "closing" => \A p \in Subscriptions(c) : sub[p] = "closing"

\* Viewers share what can be shared, nothing runs for nobody, and the host stays in its budget.
SourcesAreBounded == OneOpenSourcePerKey /\ NoIdleSource /\ WorkersWithinBudget

\* A live stream can carry media: its peer is live in its worker, and the relay listens and has
\* the stream, unless it has just expired it.
LiveIsServed ==
  \A p \in Streams : sub[p] = "live" =>
    /\ entry[p] = "live" /\ HasWorker(src[p])
    /\ p \in path /\ relayUp
    /\ p \in registered \/ \E k \in DOMAIN fromRelay : fromRelay[k] = Line("expired", {p})

\* The relay forwards nothing for a stream that has ended: a registration without a subscription
\* is being revoked, or its offer is about to find out.
RegistrationIsOwned ==
  \A p \in registered :
    \/ Registered(p)
    \/ offer[p] = "relay"
    \/ offer[p] = "ending" /\ p \in path
    \/ \E k \in DOMAIN toRelay : toRelay[k].type = "revoke" /\ p \in toRelay[k].streams

\* The relay has exactly the streams that may carry media, as far as lines on their way allow.
RelayFollowsStreams == LiveIsServed /\ RegistrationIsOwned

\* Every ending ends, with a worker that hangs, dies or never becomes ready.
EndingsFinish == \A p \in Streams : (sub[p] = "closing") ~> (sub[p] = "gone")

\* Every offer is answered or fails: a viewer is never left waiting for a worker or the relay.
OffersEnd == \A p \in Streams : (offer[p] = "negotiating") ~> (offer[p] \in {"answered", "failed"})

\* Once every stream of a shutdown has ended no worker runs, although none was told to stop for
\* the shutdown itself, and none starts after it.
ShutdownStopsWorkers == stopping ~> [](\A c \in Sources : ~HasWorker(c))

\* Both: what is told to end does, one by one and with the server.
EndingsSettle == EndingsFinish /\ ShutdownStopsWorkers

=============================================================================
