---------------------------- MODULE StreamsProofs ----------------------------
(* Proofs about Streams, for any number of sessions, streams, plans and sources.  The registry     *)
(* (RegistryInv) comes first: what a source has to do with its subscriptions, its worker and the   *)
(* peers there, from the few things a step may do to them (RegistryStep).  Then the streams        *)
(* (StreamInv): where an offer is, what the relay has and which lines are on their way.  Last the  *)
(* latency measurement, which runs beside them (LatencyInv).                                       *)
EXTENDS Streams, LatencyRun, SequenceTheorems, FiniteSetTheorems, TLAPS

LineTo == [type : {"allow", "revoke"}, streams : SUBSET Streams]
LineFrom == [type : {"allowed", "refused", "expired"}, streams : SUBSET Streams]

StreamTypes ==
  /\ sub \in [Streams -> {"absent", "starting", "live", "closing", "gone"}]
  /\ src \in [Streams -> Sources \cup {None}]
  /\ source \in [Sources -> {"none", "starting", "ready", "closing", "released"}]
  /\ creator \in [Sources -> Streams \cup {None}]
  /\ worker \in [Sources -> {"none", "running", "stopping", "exited"}]
  /\ ready \in [Sources -> BOOLEAN]
  /\ entry \in [Streams -> {"none", "negotiating", "live", "removing"}]
  /\ answered \in [Streams -> BOOLEAN]
  /\ offer \in [Streams -> {"none", "negotiating", "port", "relay", "ending", "failed", "answered"}]
  /\ ends \in [Streams -> BOOLEAN]
  /\ leaseWait \in SUBSET Streams /\ closeWait \in SUBSET Sources
  /\ stops \in [Sessions -> SUBSET Streams]
  /\ online \in SUBSET Sessions /\ valid \in SUBSET Keys
  /\ stopping \in BOOLEAN /\ relayUp \in BOOLEAN
  /\ toRelay \in Seq(LineTo) /\ fromRelay \in Seq(LineFrom)
  /\ registered \in SUBSET Streams /\ path \in SUBSET Streams

\* Lines about a stream on their way.
Sending(type, p) == \E k \in DOMAIN toRelay : toRelay[k].type = type /\ p \in toRelay[k].streams
Told(type, p) == \E k \in DOMAIN fromRelay : fromRelay[k].type = type /\ p \in fromRelay[k].streams
Expiring(p) == \E k \in DOMAIN fromRelay : fromRelay[k] = Line("expired", {p})

\* A stream is allowed once, and before it is revoked.
Ordered(p) ==
  \A j, k \in DOMAIN toRelay :
    (p \in toRelay[j].streams /\ p \in toRelay[k].streams /\ toRelay[j].type = "allow")
      => (j <= k /\ (toRelay[k].type = "allow" => j = k))

Leaving(p) == sub[p] \in {"closing", "gone"}

\* Where an offer is, its stream's subscription and peer.
OfferInv(p) ==
  /\ (sub[p] = "absent") <=> (offer[p] = "none")
  /\ sub[p] = "absent" => ~answered[p]
  /\ entry[p] = "negotiating" => offer[p] = "negotiating" /\ ~answered[p]
  /\ answered[p] => offer[p] = "negotiating"
  /\ (answered[p] \/ offer[p] \in {"port", "relay", "answered"} \/ p \in path) => worker[src[p]] # "none"
  /\ (sub[p] = "starting" /\ (answered[p] \/ offer[p] \in {"port", "relay"})) => entry[p] = "live"
  /\ sub[p] = "live" => entry[p] = "live" /\ p \in path /\ relayUp
  /\ stops[SessionOf[p]] # {} => sub[p] \notin {"starting", "live"}
  /\ p \in path => Registered(p) \/ offer[p] = "ending"

\* What the relay has of a stream, and what is on its way.
LinesInv(p) ==
  /\ offer[p] \in {"none", "negotiating", "port"} =>
       /\ ~Sending("allow", p) /\ ~Sending("revoke", p)
       /\ ~Told("allowed", p) /\ ~Told("refused", p) /\ ~Told("expired", p)
       /\ p \notin registered /\ p \notin path
  /\ Sending("revoke", p) => Leaving(p)
  /\ Told("allowed", p) => p \in registered \/ Expiring(p) \/ Leaving(p)
  /\ Told("refused", p) => p \notin registered
  /\ Sending("allow", p) => /\ offer[p] = "relay" \/ Sending("revoke", p)
                            /\ ~Told("allowed", p) /\ ~Told("refused", p) /\ p \notin registered
  /\ Ordered(p)
  /\ p \in registered => p \in path \/ offer[p] = "relay" \/ Sending("revoke", p)
  /\ sub[p] = "live" => p \in registered \/ Expiring(p)

\* A relay that has exited has nothing, and no offer waits for it.
DownInv ==
  ~relayUp => /\ toRelay = <<>> /\ fromRelay = <<>> /\ registered = {}
              /\ \A p \in Streams : offer[p] # "relay"

StreamInv == DownInv /\ \A p \in Streams : OfferInv(p) /\ LinesInv(p)

\* A peer's entry is in the record of a worker that has not exited.
PeerInv ==
  \A p \in Streams :
    /\ sub[p] = "absent" => entry[p] = "none"
    /\ sub[p] # "absent" => src[p] \in Sources
    /\ entry[p] # "none" => HasWorker(src[p])

\* A released source has no subscription left, and its worker has exited.
SourceInv ==
  /\ \A c \in Sources :
       /\ source[c] # "none" => creator[c] \in Streams
       /\ source[c] \in {"none", "released"} => Subscriptions(c) = {}
       /\ HasWorker(c) => Held(c)
  /\ OneOpenSourcePerKey /\ NoIdleSource

\* A source that was never admitted never had a worker.
FreshInv == \A c \in Sources : source[c] = "none" => worker[c] = "none"

BudgetInv ==
  /\ IsFiniteSet({c \in Sources : Held(c)})
  /\ Cardinality({c \in Sources : Held(c)}) <= MaxSources

-----------------------------------------------------------------------------
(* Types. *)

LEMMA LinesAppend ==
  ASSUME NEW S, NEW q \in Seq(S), NEW m \in S
  PROVE  /\ Append(q, m) \in Seq(S)
         /\ DOMAIN Append(q, m) = 1..(Len(q) + 1) /\ DOMAIN q = 1..Len(q) /\ Len(q) \in Nat
         /\ \A k \in DOMAIN q : Append(q, m)[k] = q[k]
         /\ Append(q, m)[Len(q) + 1] = m
  OBVIOUS

LEMMA LinesTail ==
  ASSUME NEW S, NEW q \in Seq(S), q # <<>>
  PROVE  /\ Tail(q) \in Seq(S) /\ Head(q) \in S /\ Head(q) = q[1] /\ 1 \in DOMAIN q
         /\ DOMAIN q = 1..Len(q) /\ Len(q) \in Nat /\ DOMAIN Tail(q) = 1..(Len(q) - 1)
         /\ \A k \in DOMAIN Tail(q) : k + 1 \in DOMAIN q /\ Tail(q)[k] = q[k + 1]
  OBVIOUS

LEMMA EndTypes ==
  ASSUME StreamTypes, NEW C, NEW E, End(C, E)
  PROVE  /\ sub' \in [Streams -> {"absent", "starting", "live", "closing", "gone"}]
         /\ source' \in [Sources -> {"none", "starting", "ready", "closing", "released"}]
         /\ entry' \in [Streams -> {"none", "negotiating", "live", "removing"}]
         /\ ends' \in [Streams -> BOOLEAN]
         /\ UNCHANGED <<src, creator, worker, ready>>
<1>1. sub' \in [Streams -> {"absent", "starting", "live", "closing", "gone"}]
  BY DEF End, StreamTypes
<1>2. source' \in [Sources -> {"none", "starting", "ready", "closing", "released"}]
  BY DEF End, StreamTypes
<1>3. entry' \in [Streams -> {"none", "negotiating", "live", "removing"}]
  BY DEF End, StreamTypes
<1>4. ends' \in [Streams -> BOOLEAN]
  BY DEF End, StreamTypes
<1> QED
  BY <1>1, <1>2, <1>3, <1>4 DEF End

LEMMA ForgetTypes ==
  ASSUME StreamTypes, NEW P, Forget(P)
  PROVE  path' \in SUBSET Streams /\ toRelay' \in Seq(LineTo)
<1>1. path' \in SUBSET Streams
  BY DEF Forget, StreamTypes
<1>2. Line("revoke", path \cap P) \in LineTo
  BY DEF Line, LineTo, StreamTypes
<1>3. toRelay \in Seq(LineTo)
  BY DEF StreamTypes
<1> QED
  BY <1>1, <1>2, <1>3, LinesAppend DEF Forget

LEMMA CloseTypes ==
  ASSUME StreamTypes, NEW C, Close(C)
  PROVE  /\ sub' \in [Streams -> {"absent", "starting", "live", "closing", "gone"}]
         /\ source' \in [Sources -> {"none", "starting", "ready", "closing", "released"}]
         /\ worker' \in [Sources -> {"none", "running", "stopping", "exited"}]
         /\ UNCHANGED <<src, creator, ready, entry, answered>>
<1>1. sub' \in [Streams -> {"absent", "starting", "live", "closing", "gone"}]
  BY DEF Close, StreamTypes
<1>2. source' \in [Sources -> {"none", "starting", "ready", "closing", "released"}]
  BY DEF Close, StreamTypes
<1>3. worker' \in [Sources -> {"none", "running", "stopping", "exited"}]
  BY DEF Close, StreamTypes
<1> QED
  BY <1>1, <1>2, <1>3 DEF Close

LEMMA StopSessionsTypes ==
  ASSUME StreamTypes, NEW T \in SUBSET Sessions, StopSessions(T)
  PROVE  /\ \E C, E \in SUBSET Streams : E \subseteq C /\ End(C, E)
         /\ leaseWait' \in SUBSET Streams
         /\ stops' \in [Sessions -> SUBSET Streams]
<1> DEFINE todo == {s \in T : stops[s] = {}}
           E == {p \in Streams : Registered(p) /\ SessionOf[p] \in todo}
<1>1. PICK held \in MayBeOwned : StopStreams(E, held \cap E)
  BY DEF StopSessions
<1>2. End(E, E \ (held \cap E)) /\ leaseWait' = leaseWait \cup (held \cap E)
  BY <1>1 DEF StopStreams
<1>3. stops' \in [Sessions -> SUBSET Streams]
  BY DEF StopSessions, StreamTypes
<1> QED
  BY <1>2, <1>3 DEF StreamTypes

LEMMA TypesStep == StreamTypes /\ [Next]_vars => StreamTypes'
<1> SUFFICES ASSUME StreamTypes, [Next]_vars PROVE StreamTypes'
  OBVIOUS
<1>1. ASSUME NEW p \in Streams, Offer(p)  PROVE StreamTypes'
  <2>1. /\ sub' = [sub EXCEPT ![p] = "starting"] /\ offer' = [offer EXCEPT ![p] = "negotiating"]
        /\ UNCHANGED <<ready, answered, ends, leaseWait, closeWait, stops, hostVars, relayVars>>
    BY <1>1 DEF Offer
  <2>2. \/ \E c \in Sources :
             /\ src' = [src EXCEPT ![p] = c]
             /\ entry' = [entry EXCEPT ![p] = IF worker[c] = "running" THEN "negotiating" ELSE "none"]
             /\ UNCHANGED <<source, creator, worker>>
        \/ \E c \in Sources, launched \in Launched :
             /\ src' = [src EXCEPT ![p] = c]
             /\ source' = [source EXCEPT ![c] = "starting"]
             /\ creator' = [creator EXCEPT ![c] = p]
             /\ worker' = [worker EXCEPT ![c] = launched]
             /\ entry' = [entry EXCEPT ![p] = IF launched = "running" THEN "negotiating" ELSE "none"]
    BY <1>1 DEF Offer, Shareable
  <2>3. CASE \E c \in Sources :
               /\ src' = [src EXCEPT ![p] = c]
               /\ entry' = [entry EXCEPT ![p] = IF worker[c] = "running" THEN "negotiating" ELSE "none"]
               /\ UNCHANGED <<source, creator, worker>>
    <3>1. src' \in [Streams -> Sources \cup {None}]
      BY <2>3 DEF StreamTypes
    <3>2. entry' \in [Streams -> {"none", "negotiating", "live", "removing"}]
      BY <2>3 DEF StreamTypes
    <3> QED
      BY <2>1, <2>3, <3>1, <3>2 DEF StreamTypes, hostVars, relayVars
  <2>4. ASSUME NEW c \in Sources, NEW launched \in Launched,
               /\ src' = [src EXCEPT ![p] = c]
               /\ source' = [source EXCEPT ![c] = "starting"]
               /\ creator' = [creator EXCEPT ![c] = p]
               /\ worker' = [worker EXCEPT ![c] = launched]
               /\ entry' = [entry EXCEPT ![p] = IF launched = "running" THEN "negotiating" ELSE "none"]
        PROVE  StreamTypes'
    <3>1. /\ src' \in [Streams -> Sources \cup {None}]
          /\ source' \in [Sources -> {"none", "starting", "ready", "closing", "released"}]
          /\ creator' \in [Sources -> Streams \cup {None}]
      BY <2>4 DEF StreamTypes
    <3>2. worker' \in [Sources -> {"none", "running", "stopping", "exited"}]
      BY <2>4 DEF StreamTypes, Launched
    <3>3. entry' \in [Streams -> {"none", "negotiating", "live", "removing"}]
      BY <2>4 DEF StreamTypes
    <3> QED
      BY <2>1, <3>1, <3>2, <3>3 DEF StreamTypes, hostVars, relayVars
  <2> QED
    BY <2>2, <2>3, <2>4
<1>2. ASSUME NEW p \in Streams, OfferSettles(p)  PROVE StreamTypes'
  <2>1. /\ answered' = [answered EXCEPT ![p] = FALSE]
        /\ UNCHANGED <<leaseWait, closeWait, stops, hostVars, relayVars>>
        /\ \/ offer' = [offer EXCEPT ![p] = "port"] /\ UNCHANGED <<registryVars, processVars, ends>>
           \/ Fail(p)
    BY <1>2 DEF OfferSettles
  <2>2. CASE offer' = [offer EXCEPT ![p] = "port"] /\ UNCHANGED <<registryVars, processVars, ends>>
    BY <2>1, <2>2 DEF StreamTypes, registryVars, processVars, hostVars, relayVars
  <2>3. CASE Fail(p)
    <3>1. End({p}, {p}) /\ offer' = [offer EXCEPT ![p] = "ending"]
      BY <2>3 DEF Fail
    <3> QED
      BY <2>1, <3>1, EndTypes DEF StreamTypes, hostVars, relayVars
  <2> QED
    BY <2>1, <2>2, <2>3
<1>3. ASSUME NEW p \in Streams, Allow(p)  PROVE StreamTypes'
  <2>1. Line("allow", {p}) \in LineTo /\ toRelay \in Seq(LineTo)
    BY DEF Line, LineTo, StreamTypes
  <2>2. UNCHANGED <<answered, leaseWait, closeWait, stops, hostVars, relayUp, fromRelay, registered, path>>
    BY <1>3 DEF Allow
  <2>3. CASE /\ offer' = [offer EXCEPT ![p] = "relay"] /\ toRelay' = Append(toRelay, Line("allow", {p}))
             /\ UNCHANGED <<registryVars, processVars, ends>>
    BY <2>1, <2>2, <2>3, LinesAppend DEF StreamTypes, registryVars, processVars, hostVars
  <2>4. CASE Fail(p) /\ UNCHANGED toRelay
    <3>1. End({p}, {p}) /\ offer' = [offer EXCEPT ![p] = "ending"]
      BY <2>4 DEF Fail
    <3> QED
      BY <2>2, <2>4, <3>1, EndTypes DEF StreamTypes, hostVars
  <2> QED
    BY <1>3, <2>3, <2>4 DEF Allow
<1>4. ASSUME NEW p \in Streams, AllowTimeout(p)  PROVE StreamTypes'
  <2>1. Line("revoke", {p}) \in LineTo /\ toRelay \in Seq(LineTo)
    BY DEF Line, LineTo, StreamTypes
  <2> QED
    BY <1>4, <2>1, EndTypes, LinesAppend DEF AllowTimeout, Fail, StreamTypes, hostVars
<1>5. ASSUME NEW p \in Streams, OfferFails(p)  PROVE StreamTypes'
  BY <1>5, ForgetTypes DEF OfferFails, StreamTypes, registryVars, workerVars, processVars, hostVars
<1>6. ASSUME NEW p \in Streams, StopStream(p)  PROVE StreamTypes'
  BY <1>6, EndTypes DEF StopStream, StopStreams, StreamTypes, hostVars, relayVars
<1>7. ASSUME NEW p \in Streams, StopAfterLease(p)  PROVE StreamTypes'
  BY <1>7, EndTypes DEF StopAfterLease, StreamTypes, hostVars, relayVars
<1>8. ASSUME NEW p \in Streams, Answer(p)  PROVE StreamTypes'
  BY <1>8 DEF Answer, StreamTypes, registryVars, callVars, hostVars, relayVars
<1>9. ASSUME NEW p \in Streams, PeerFailed(p)  PROVE StreamTypes'
  BY <1>9, EndTypes, ZenonT(30) DEF PeerFailed, StreamTypes, registryVars, hostVars, relayVars
<1>10. ASSUME NEW p \in Streams, NegotiationTimeout(p)  PROVE StreamTypes'
  BY <1>10 DEF NegotiationTimeout, StreamTypes, registryVars, callVars, hostVars, relayVars
<1>11. ASSUME NEW p \in Streams, PeerClosed(p)  PROVE StreamTypes'
  <2>1. /\ entry' = [entry EXCEPT ![p] = "none"]
        /\ UNCHANGED <<src, creator, ready, answered, offer, leaseWait, closeWait, stops, hostVars,
                       relayUp, fromRelay, registered>>
    BY <1>11 DEF PeerClosed
  <2>2. CASE UNCHANGED <<sub, source, worker, ends, path, toRelay>>
    BY <2>1, <2>2 DEF StreamTypes, hostVars
  <2>3. CASE Unsubscribe(p)
    <3>1. path' \in SUBSET Streams /\ toRelay' \in Seq(LineTo)
      BY <2>3, ForgetTypes DEF Unsubscribe
    <3>2. sub' \in [Streams -> {"absent", "starting", "live", "closing", "gone"}] /\ ends' \in [Streams -> BOOLEAN]
      BY <2>3 DEF Unsubscribe, StreamTypes
    <3>3. /\ source' \in [Sources -> {"none", "starting", "ready", "closing", "released"}]
          /\ worker' \in [Sources -> {"none", "running", "stopping", "exited"}]
      BY <2>3 DEF Unsubscribe, StreamTypes
    <3> QED
      BY <2>1, <3>1, <3>2, <3>3 DEF StreamTypes, hostVars
  <2> QED
    BY <1>11, <2>2, <2>3 DEF PeerClosed
<1>12. ASSUME NEW p \in Streams, RemovalTimeout(p)  PROVE StreamTypes'
  BY <1>12 DEF RemovalTimeout, StreamTypes, registryVars, callVars, hostVars, relayVars
<1>13. ASSUME NEW p \in Streams, RelayExpires(p)  PROVE StreamTypes'
  <2>1. Line("expired", {p}) \in LineFrom /\ fromRelay \in Seq(LineFrom)
    BY DEF Line, LineFrom, StreamTypes
  <2> QED
    BY <1>13, <2>1, LinesAppend DEF RelayExpires, StreamTypes, registryVars, workerVars, processVars, callVars, hostVars
<1>14. ASSUME NEW s \in Sessions, Disconnect(s)  PROVE StreamTypes'
  BY <1>14, EndTypes, StopSessionsTypes DEF Disconnect, StreamTypes, relayVars
<1>15. ASSUME NEW s \in Sessions, SessionStopped(s)  PROVE StreamTypes'
  BY <1>15 DEF SessionStopped, StreamTypes, registryVars, workerVars, processVars, hostVars, relayVars
<1>16. ASSUME NEW c \in Sources, CloseAfterLease(c)  PROVE StreamTypes'
  BY <1>16, CloseTypes DEF CloseAfterLease, StreamTypes, hostVars, relayVars
<1>17. ASSUME NEW c \in Sources, WorkerReady(c)  PROVE StreamTypes'
  BY <1>17 DEF WorkerReady, StreamTypes, callVars, hostVars, relayVars
<1>18. ASSUME NEW c \in Sources, WorkerExit(c)  PROVE StreamTypes'
  BY <1>18, ForgetTypes DEF WorkerExit, StreamTypes, hostVars
<1>19. ASSUME NEW keys \in SUBSET Changing, DisplaysChange((Keys \ Changing) \cup keys)  PROVE StreamTypes'
  BY <1>19, CloseTypes, StreamsAssumption DEF DisplaysChange, StreamTypes, relayVars
<1>20. ASSUME ReceiveRelay  PROVE StreamTypes'
  <2>1. fromRelay \in Seq(LineFrom) /\ fromRelay # <<>> /\ fromRelay' = Tail(fromRelay)
    BY <1>20 DEF ReceiveRelay, StreamTypes
  <2>2. Tail(fromRelay) \in Seq(LineFrom) /\ Head(fromRelay) \in LineFrom
    BY <2>1, LinesTail
  <2>3. PICK p \in Streams :
             \/ Allowed(p)
             \/ Fail(p) /\ UNCHANGED path
             \/ PathExpired(p)
             \/ UNCHANGED <<registryVars, processVars, ends, offer, path>>
    BY <1>20, <2>2 DEF ReceiveRelay, LineFrom
  <2>4. UNCHANGED <<answered, leaseWait, closeWait, stops, hostVars, relayUp, toRelay, registered>>
    BY <1>20 DEF ReceiveRelay
  <2>5. CASE Allowed(p)
    <3>1. path' \in SUBSET Streams
      BY <2>5 DEF Allowed, StreamTypes
    <3>2. CASE End({p}, {p}) /\ offer' = [offer EXCEPT ![p] = "ending"]
      BY <2>1, <2>2, <2>4, <3>1, <3>2, EndTypes DEF StreamTypes, hostVars
    <3>3. CASE /\ sub' = [sub EXCEPT ![p] = "live"] /\ offer' = [offer EXCEPT ![p] = "answered"]
               /\ UNCHANGED <<src, source, creator, processVars, ends>>
      BY <2>1, <2>2, <2>4, <3>1, <3>3 DEF StreamTypes, processVars, hostVars
    <3> QED
      BY <2>5, <3>2, <3>3 DEF Allowed, Fail
  <2>6. CASE Fail(p) /\ UNCHANGED path
    BY <2>1, <2>2, <2>4, <2>6, EndTypes DEF Fail, StreamTypes, hostVars
  <2>7. CASE PathExpired(p)
    BY <2>1, <2>2, <2>4, <2>7, EndTypes DEF PathExpired, StreamTypes, hostVars
  <2>8. CASE UNCHANGED <<registryVars, processVars, ends, offer, path>>
    BY <2>1, <2>2, <2>4, <2>8 DEF StreamTypes, registryVars, processVars, hostVars
  <2> QED
    BY <2>3, <2>5, <2>6, <2>7, <2>8
<1>21. ASSUME RelayReads  PROVE StreamTypes'
  <2>1. toRelay \in Seq(LineTo) /\ toRelay # <<>> /\ fromRelay \in Seq(LineFrom)
    BY <1>21 DEF RelayReads, StreamTypes
  <2>2. Tail(toRelay) \in Seq(LineTo) /\ Head(toRelay) \in LineTo
    BY <2>1, LinesTail
  <2>3. \A type \in {"allowed", "refused"} : [Head(toRelay) EXCEPT !.type = type] \in LineFrom
    BY <2>2 DEF LineTo, LineFrom
  <2>4. fromRelay' \in Seq(LineFrom)
    <3>1. PICK type \in {"allowed", "refused"} :
            fromRelay' \in {fromRelay, Append(fromRelay, [Head(toRelay) EXCEPT !.type = type])}
      BY <1>21 DEF RelayReads
    <3>2. PICK a \in LineFrom : a = [Head(toRelay) EXCEPT !.type = type]
      BY <2>3
    <3>3. fromRelay' \in {fromRelay, Append(fromRelay, a)}
      BY <3>1, <3>2
    <3>4. Append(fromRelay, a) \in Seq(LineFrom)
      BY <2>1, LinesAppend
    <3> QED
      BY <2>1, <3>3, <3>4
  <2>5. registered' \in SUBSET Streams
    BY <1>21, <2>2 DEF RelayReads, LineTo, StreamTypes
  <2> QED
    BY <1>21, <2>2, <2>4, <2>5 DEF RelayReads, StreamTypes, registryVars, workerVars, processVars, callVars, hostVars
<1>22. ASSUME RelayExit  PROVE StreamTypes'
  <2>1. /\ relayUp' = FALSE /\ toRelay' = <<>> /\ fromRelay' = <<>> /\ registered' = {}
        /\ offer' = [p \in Streams |-> IF offer[p] = "relay" THEN "ending" ELSE offer[p]]
        /\ StopSessions(Sessions) /\ UNCHANGED <<answered, closeWait, hostVars, path>>
    BY <1>22 DEF RelayExit
  <2>2. /\ offer' \in [Streams -> {"none", "negotiating", "port", "relay", "ending", "failed", "answered"}]
        /\ relayUp' \in BOOLEAN /\ registered' \in SUBSET Streams
    BY <2>1 DEF StreamTypes
  <2>5. toRelay' \in Seq(LineTo) /\ fromRelay' \in Seq(LineFrom)
    BY <2>1
  <2>3. PICK C, E \in SUBSET Streams : E \subseteq C /\ End(C, E)
    BY <2>1, StopSessionsTypes
  <2>4. leaseWait' \in SUBSET Streams /\ stops' \in [Sessions -> SUBSET Streams]
    BY <2>1, StopSessionsTypes
  <2> QED
    BY <2>1, <2>2, <2>3, <2>4, <2>5, EndTypes DEF StreamTypes, hostVars
<1>23. ASSUME RelayRestart  PROVE StreamTypes'
  BY <1>23 DEF RelayRestart, StreamTypes, registryVars, workerVars, processVars, callVars, hostVars
<1>24. ASSUME Shutdown  PROVE StreamTypes'
  BY <1>24, EndTypes, StopSessionsTypes DEF Shutdown, StreamTypes, relayVars
<1>25. CASE UNCHANGED vars
  BY <1>25 DEF vars, registryVars, workerVars, processVars, callVars, hostVars, relayVars, StreamTypes
<1> QED
  BY <1>1, <1>2, <1>3, <1>4, <1>5, <1>6, <1>7, <1>8, <1>9, <1>10, <1>11, <1>12, <1>13, <1>14, <1>15, <1>16, <1>17, <1>18, <1>19, <1>20, <1>21, <1>22, <1>23, <1>24, <1>25 DEF Next

\* The variables keep their types: a line to or from the relay is about known streams.
THEOREM TypesHold == Spec => []StreamTypes
<1>1. Init => StreamTypes
  <2> SUFFICES ASSUME Init PROVE StreamTypes
    OBVIOUS
  <2>1. /\ sub \in [Streams -> {"absent", "starting", "live", "closing", "gone"}]
        /\ src \in [Streams -> Sources \cup {None}]
        /\ source \in [Sources -> {"none", "starting", "ready", "closing", "released"}]
        /\ creator \in [Sources -> Streams \cup {None}]
        /\ worker \in [Sources -> {"none", "running", "stopping", "exited"}]
        /\ ready \in [Sources -> BOOLEAN]
    BY DEF Init
  <2>2. /\ entry \in [Streams -> {"none", "negotiating", "live", "removing"}]
        /\ answered \in [Streams -> BOOLEAN] /\ ends \in [Streams -> BOOLEAN]
        /\ offer \in [Streams -> {"none", "negotiating", "port", "relay", "ending", "failed", "answered"}]
        /\ stops \in [Sessions -> SUBSET Streams]
    BY DEF Init
  <2>3. toRelay \in Seq(LineTo) /\ fromRelay \in Seq(LineFrom)
    BY DEF Init
  <2>4. /\ leaseWait = {} /\ closeWait = {} /\ online = Sessions /\ valid = Keys
        /\ stopping = FALSE /\ relayUp = TRUE /\ registered = {} /\ path = {}
    BY DEF Init
  <2> QED
    BY <2>1, <2>2, <2>3, <2>4 DEF StreamTypes
<1> QED
  BY <1>1, TypesStep, PTL DEF Spec
-----------------------------------------------------------------------------
(* Sources. *)

\* What a step may do to the registry, the workers and their peers.
GoesLive(p) ==
  /\ sub[p] = "starting" /\ sub' = [sub EXCEPT ![p] = "live"]
  /\ UNCHANGED <<src, source, creator, processVars>>

RegistryStep ==
  \/ \E p \in Streams : Offer(p) \/ PeerClosed(p) \/ RemovalTimeout(p) \/ GoesLive(p)
  \/ \E C, E \in SUBSET Streams : E \subseteq C /\ End(C, E)
  \/ \E C \in SUBSET {c \in Sources : Held(c)} : Close(C)
  \/ \E c \in Sources : WorkerReady(c) \/ WorkerExit(c)
  \/ /\ UNCHANGED <<registryVars, worker>>
     /\ \A p \in Streams : entry[p] = "none" => entry'[p] = "none"

\* Every step is one of these, whatever else it does.
LEMMA StepsOfTheRegistry == StreamTypes /\ [Next]_vars => RegistryStep
<1> SUFFICES ASSUME StreamTypes, [Next]_vars PROVE RegistryStep
  OBVIOUS
<1>1. ASSUME NEW p \in Streams, Offer(p) \/ PeerClosed(p) \/ RemovalTimeout(p)  PROVE RegistryStep
  BY <1>1 DEF RegistryStep
<1>2. ASSUME NEW c \in Sources, WorkerReady(c) \/ WorkerExit(c)  PROVE RegistryStep
  BY <1>2 DEF RegistryStep
<1>3. ASSUME NEW p \in Streams, End({p}, {p})  PROVE RegistryStep
  <2>1. {p} \in SUBSET Streams /\ {p} \subseteq {p}
    OBVIOUS
  <2> QED
    BY <1>3, <2>1 DEF RegistryStep
<1>4. ASSUME NEW T \in SUBSET Sessions, StopSessions(T)  PROVE RegistryStep
  BY <1>4, StopSessionsTypes DEF RegistryStep
<1>5. ASSUME UNCHANGED <<registryVars, processVars>>  PROVE RegistryStep
  BY <1>5 DEF RegistryStep, processVars
<1>6. ASSUME NEW p \in Streams,
             OfferSettles(p) \/ Allow(p) \/ AllowTimeout(p) \/ OfferFails(p) \/ StopAfterLease(p)
      PROVE  RegistryStep
  BY <1>3, <1>5, <1>6 DEF OfferSettles, Allow, AllowTimeout, OfferFails, StopAfterLease, Fail, workerVars, processVars
<1>7. ASSUME NEW p \in Streams, StopStream(p)  PROVE RegistryStep
  <2>1. PICK held : StopStreams({p}, held \cap {p})
    BY <1>7 DEF StopStream
  <2>2. {p} \in SUBSET Streams /\ {p} \ (held \cap {p}) \in SUBSET Streams
        /\ {p} \ (held \cap {p}) \subseteq {p}
    OBVIOUS
  <2> QED
    BY <2>1, <2>2 DEF StopStreams, RegistryStep
<1>8. ASSUME NEW p \in Streams, Answer(p) \/ PeerFailed(p) \/ NegotiationTimeout(p)  PROVE RegistryStep
  <2>1. CASE entry[p] = "live" /\ End({p}, {p})
    BY <1>3, <2>1
  <2>2. CASE entry[p] # "none" /\ UNCHANGED <<registryVars, worker>> /\ \E e : entry' = [entry EXCEPT ![p] = e]
    BY <2>2 DEF RegistryStep, StreamTypes
  <2> QED
    BY <1>8, <2>1, <2>2 DEF Answer, PeerFailed, NegotiationTimeout
<1>9. ASSUME NEW s \in Sessions, Disconnect(s) \/ SessionStopped(s)  PROVE RegistryStep
  <2>1. {s} \in SUBSET Sessions
    OBVIOUS
  <2> QED
    BY <1>4, <1>5, <1>9, <2>1 DEF Disconnect, SessionStopped, workerVars
<1>10. ASSUME NEW C, Close(C \cap {c \in Sources : Held(c)})  PROVE RegistryStep
  BY <1>10 DEF RegistryStep
<1>11. ASSUME NEW c \in Sources, CloseAfterLease(c)  PROVE RegistryStep
  BY <1>10, <1>11 DEF CloseAfterLease
<1>12. ASSUME NEW keys, DisplaysChange(keys)  PROVE RegistryStep
  <2>1. PICK C, late : C \subseteq {c \in Sources : Held(c)} /\ Close(C \ late)
    BY <1>12 DEF DisplaysChange, Held
  <2>2. (C \ late) \cap {c \in Sources : Held(c)} = C \ late
    BY <2>1
  <2> QED
    BY <1>10, <2>1, <2>2
<1>13. ASSUME ReceiveRelay  PROVE RegistryStep
  <2>1. Head(fromRelay) \in LineFrom
    BY <1>13, LinesTail DEF ReceiveRelay, StreamTypes
  <2>2. PICK p \in Head(fromRelay).streams :
          Allowed(p) \/ End({p}, {p}) \/ UNCHANGED <<registryVars, processVars>>
    BY <1>13 DEF ReceiveRelay, Fail, PathExpired
  <2>3. p \in Streams
    BY <2>1 DEF LineFrom
  <2>4. ASSUME Allowed(p)  PROVE GoesLive(p) \/ End({p}, {p})
    BY <2>4 DEF Allowed, Fail, GoesLive
  <2>5. CASE GoesLive(p)
    BY <2>3, <2>5 DEF RegistryStep
  <2> QED
    BY <1>3, <1>5, <2>2, <2>3, <2>4, <2>5
<1>14. ASSUME RelayExit  PROVE RegistryStep
  BY <1>4, <1>14 DEF RelayExit
<1>15. ASSUME Shutdown  PROVE RegistryStep
  BY <1>4, <1>15 DEF Shutdown
<1>16. ASSUME \/ \E p \in Streams : RelayExpires(p)
              \/ RelayReads \/ RelayRestart \/ UNCHANGED vars
       PROVE  RegistryStep
  <2>1. UNCHANGED <<registryVars, processVars>>
    <3>1. CASE UNCHANGED vars
      BY <3>1 DEF vars, workerVars
    <3> QED
      BY <1>16, <3>1 DEF RelayExpires, RelayReads, RelayRestart, workerVars
  <2> QED
    BY <1>5, <2>1
<1> QED
  BY <1>1, <1>2, <1>6, <1>7, <1>8, <1>9, <1>11, <1>12, <1>13, <1>14, <1>15, <1>16 DEF Next

\* A worker's peers are in its record only while it has not exited.
LEMMA PeersStep == StreamTypes /\ SourceInv /\ PeerInv /\ RegistryStep => PeerInv'
<1> SUFFICES ASSUME StreamTypes, SourceInv, PeerInv, RegistryStep PROVE PeerInv'
  OBVIOUS
<1>1. ASSUME NEW p \in Streams, Offer(p)  PROVE PeerInv'
  <2>1. sub[p] = "absent" /\ sub' = [sub EXCEPT ![p] = "starting"]
    BY <1>1 DEF Offer
  <2>2. PICK c \in Sources, e \in {"negotiating", "none"} :
          /\ src' = [src EXCEPT ![p] = c] /\ entry' = [entry EXCEPT ![p] = e]
          /\ e = "negotiating" => worker'[c] = "running"
          /\ \A d \in Sources : d = c \/ worker'[d] = worker[d]
          /\ worker'[c] = worker[c] \/ source[c] = "none"
    <3>1. CASE \E c \in Sources :
                 /\ src' = [src EXCEPT ![p] = c]
                 /\ entry' = [entry EXCEPT ![p] = IF worker[c] = "running" THEN "negotiating" ELSE "none"]
                 /\ worker' = worker
      BY <3>1
    <3>2. CASE \E c \in Sources, launched \in Launched :
                 /\ source[c] = "none"
                 /\ src' = [src EXCEPT ![p] = c]
                 /\ worker' = [worker EXCEPT ![c] = launched]
                 /\ entry' = [entry EXCEPT ![p] = IF launched = "running" THEN "negotiating" ELSE "none"]
      BY <3>2 DEF StreamTypes
    <3> QED
      BY <1>1, <3>1, <3>2 DEF Offer, Shareable
  <2>3. ASSUME NEW q \in Streams, q # p, entry[q] # "none"  PROVE HasWorker(src[q])' /\ src'[q] = src[q]
    BY <2>1, <2>2, <2>3 DEF PeerInv, SourceInv, HasWorker, Held, StreamTypes
  <2> QED
    BY <2>1, <2>2, <2>3 DEF PeerInv, HasWorker, StreamTypes
<1>2. ASSUME NEW p \in Streams, PeerClosed(p)  PROVE PeerInv'
  <2>1. /\ entry[p] = "removing" /\ entry' = [entry EXCEPT ![p] = "none"] /\ src' = src
        /\ \A q \in Streams : sub'[q] = sub[q] \/ (q = p /\ sub'[q] = "gone")
        /\ \A c \in Sources : worker'[c] = worker[c] \/ (c = src[p] /\ worker'[c] = "stopping")
    <3>1. CASE UNCHANGED <<sub, source, worker>>
      BY <1>2, <3>1 DEF PeerClosed
    <3>2. CASE Unsubscribe(p)
      <4>1. \A q \in Streams : sub'[q] = sub[q] \/ (q = p /\ sub'[q] = "gone")
        BY <3>2 DEF Unsubscribe, StreamTypes
      <4>2. \A c \in Sources : worker'[c] = worker[c] \/ (c = src[p] /\ worker'[c] = "stopping")
        BY <3>2 DEF Unsubscribe, StreamTypes
      <4> QED
        BY <1>2, <4>1, <4>2 DEF PeerClosed
    <3> QED
      BY <1>2, <3>1, <3>2 DEF PeerClosed
  <2> QED
    BY <2>1 DEF PeerInv, HasWorker, StreamTypes
<1>3. ASSUME NEW p \in Streams, RemovalTimeout(p)  PROVE PeerInv'
  BY <1>3 DEF RemovalTimeout, registryVars, PeerInv, HasWorker, StreamTypes
<1>4. ASSUME NEW p \in Streams, GoesLive(p)  PROVE PeerInv'
  BY <1>4 DEF GoesLive, processVars, PeerInv, HasWorker, StreamTypes
<1>5. ASSUME NEW C \in SUBSET Streams, NEW E \in SUBSET Streams, E \subseteq C, End(C, E)  PROVE PeerInv'
  <2>1. /\ UNCHANGED <<src, worker>>
        /\ \A q \in Streams : sub'[q] = sub[q] \/ (Registered(q) /\ sub'[q] \in {"closing", "gone"})
        /\ \A q \in Streams : entry'[q] = entry[q] \/ (Registered(q) /\ worker[src[q]] = "running")
    <3>1. \A q \in Streams : sub'[q] = sub[q] \/ (Registered(q) /\ sub'[q] \in {"closing", "gone"})
      BY <1>5 DEF End, Registered
    <3>2. \A q \in Streams : entry'[q] = entry[q] \/ (Registered(q) /\ worker[src[q]] = "running")
      BY <1>5 DEF End, Registered
    <3> QED
      BY <1>5, <3>1, <3>2 DEF End
  <2> QED
    BY <2>1 DEF PeerInv, HasWorker, Registered
<1>6. ASSUME NEW C \in SUBSET {c \in Sources : Held(c)}, Close(C)  PROVE PeerInv'
  <2>1. /\ UNCHANGED <<src, entry>>
        /\ \A q \in Streams : sub'[q] = sub[q] \/ (Registered(q) /\ sub'[q] \in {"closing", "gone"})
        /\ \A c \in Sources : worker'[c] = worker[c] \/ worker'[c] = "stopping"
    <3>1. \A q \in Streams : sub'[q] = sub[q] \/ (Registered(q) /\ sub'[q] \in {"closing", "gone"})
      BY <1>6 DEF Close, Registered
    <3>2. \A c \in Sources : worker'[c] = worker[c] \/ worker'[c] = "stopping"
      BY <1>6 DEF Close
    <3> QED
      BY <1>6, <3>1, <3>2 DEF Close
  <2> QED
    BY <2>1 DEF PeerInv, HasWorker, Registered
<1>7. ASSUME NEW c \in Sources, WorkerReady(c)  PROVE PeerInv'
  BY <1>7 DEF WorkerReady, PeerInv, HasWorker
<1>8. ASSUME NEW c \in Sources, WorkerExit(c)  PROVE PeerInv'
  <2>1. /\ src' = src /\ worker' = [worker EXCEPT ![c] = "exited"]
        /\ \A q \in Streams : sub'[q] = sub[q] \/ (Registered(q) /\ sub'[q] = "gone")
        /\ \A q \in Streams : entry'[q] = IF src[q] = c THEN "none" ELSE entry[q]
    <3>1. \A q \in Streams : sub'[q] = sub[q] \/ (Registered(q) /\ sub'[q] = "gone")
      BY <1>8 DEF WorkerExit, Subscriptions, Registered
    <3>2. \A q \in Streams : entry'[q] = IF src[q] = c THEN "none" ELSE entry[q]
      BY <1>8 DEF WorkerExit
    <3> QED
      BY <1>8, <3>1, <3>2 DEF WorkerExit
  <2> QED
    BY <2>1 DEF PeerInv, HasWorker, Registered, StreamTypes
<1>9. CASE /\ UNCHANGED <<registryVars, worker>>
           /\ \A p \in Streams : entry[p] = "none" => entry'[p] = "none"
  BY <1>9 DEF registryVars, PeerInv, HasWorker
<1> QED
  BY <1>1, <1>2, <1>3, <1>4, <1>5, <1>6, <1>7, <1>8, <1>9 DEF RegistryStep

\* A source leaves the budget only when its last subscription is gone and its worker has exited, or
\* was never launched.
LEMMA SourcesStep == StreamTypes /\ SourceInv /\ PeerInv /\ RegistryStep => SourceInv'
<1> SUFFICES ASSUME StreamTypes, SourceInv, PeerInv, RegistryStep PROVE SourceInv'
  OBVIOUS
<1>1. ASSUME NEW p \in Streams, Offer(p)  PROVE SourceInv'
  <2>1. sub[p] = "absent" /\ sub' = [sub EXCEPT ![p] = "starting"]
    BY <1>1 DEF Offer
  <2>2. ASSUME NEW c \in Sources, src' = [src EXCEPT ![p] = c]
        PROVE  /\ Subscriptions(c)' = Subscriptions(c) \cup {p}
               /\ \A d \in Sources : d # c => Subscriptions(d)' = Subscriptions(d)
               /\ \A q \in Streams : q # p => sub'[q] = sub[q]
               /\ \A d \in Sources : p \notin Subscriptions(d)
    BY <2>1, <2>2 DEF Subscriptions, Registered, StreamTypes
  <2>3. CASE \E c \in Shareable(KeyOf[p]) :
               src' = [src EXCEPT ![p] = c] /\ UNCHANGED <<source, creator, worker>>
    <3>1. PICK c \in Sources : /\ source[c] \in {"starting", "ready"} /\ src' = [src EXCEPT ![p] = c]
                               /\ UNCHANGED <<source, creator, worker>>
      BY <2>3 DEF Shareable
    <3>2. OneOpenSourcePerKey'
      BY <3>1 DEF SourceInv, OneOpenSourcePerKey, Key
    <3>3. ASSUME NEW d \in Sources
          PROVE  /\ source[d] \in {"starting", "ready"} => Subscriptions(d)' # {}
                 /\ source[d] = "closing" => \A q \in Subscriptions(d)' : sub'[q] = "closing"
                 /\ source[d] # "none" => creator[d] \in Streams
                 /\ source[d] \in {"none", "released"} => Subscriptions(d)' = {}
                 /\ HasWorker(d) => Held(d)
      <4>1. CASE d = c
        BY <2>2, <3>1, <4>1 DEF SourceInv
      <4>2. CASE d # c
        <5>1. Subscriptions(d)' = Subscriptions(d) /\ \A q \in Subscriptions(d) : sub'[q] = sub[q]
          BY <2>2, <3>1, <4>2 DEF Subscriptions
        <5> QED
          BY <5>1 DEF SourceInv, NoIdleSource
      <4> QED
        BY <4>1, <4>2
    <3> QED
      BY <3>1, <3>2, <3>3 DEF SourceInv, NoIdleSource, HasWorker, Held
  <2>4. ASSUME NEW c \in Sources, NEW launched \in Launched,
               /\ Shareable(KeyOf[p]) = {} /\ source[c] = "none"
               /\ src' = [src EXCEPT ![p] = c]
               /\ source' = [source EXCEPT ![c] = "starting"]
               /\ creator' = [creator EXCEPT ![c] = p]
               /\ worker' = [worker EXCEPT ![c] = launched]
        PROVE  SourceInv'
    <3>1. OneOpenSourcePerKey'
      BY <2>4 DEF SourceInv, OneOpenSourcePerKey, Shareable, Key, StreamTypes
    <3>2. ASSUME NEW d \in Sources
          PROVE  /\ source'[d] \in {"starting", "ready"} => Subscriptions(d)' # {}
                 /\ source'[d] = "closing" => \A q \in Subscriptions(d)' : sub'[q] = "closing"
      <4>1. CASE d = c
        BY <2>2, <2>4, <4>1 DEF StreamTypes
      <4>2. CASE d # c
        <5>1. Subscriptions(d)' = Subscriptions(d) /\ \A q \in Subscriptions(d) : sub'[q] = sub[q]
          BY <2>2, <2>4, <4>2 DEF Subscriptions
        <5>2. source'[d] = source[d]
          BY <2>4, <4>2 DEF StreamTypes
        <5> QED
          BY <5>1, <5>2 DEF SourceInv, NoIdleSource
      <4> QED
        BY <4>1, <4>2
    <3>3. ASSUME NEW d \in Sources
          PROVE  /\ source'[d] # "none" => creator'[d] \in Streams
                 /\ source'[d] \in {"none", "released"} => Subscriptions(d)' = {}
                 /\ HasWorker(d)' => Held(d)'
      BY <2>2, <2>4, ZenonT(30) DEF SourceInv, HasWorker, Held, StreamTypes
    <3> QED
      BY <3>1, <3>2, <3>3 DEF SourceInv, NoIdleSource
  <2> QED
    BY <1>1, <2>3, <2>4 DEF Offer
<1>2. ASSUME NEW p \in Streams, PeerClosed(p)  PROVE SourceInv'
  <2>1. CASE UNCHANGED <<sub, source, worker>>
    BY <1>2, <2>1 DEF PeerClosed, SourceInv, OneOpenSourcePerKey, NoIdleSource, HasWorker, Held, Key,
                      Subscriptions, Registered
  <2>2. CASE Unsubscribe(p)
    <3> DEFINE c == src[p]
               last == Subscriptions(c) = {p} /\ source[c] # "closing"
    <3>1. /\ sub' = [sub EXCEPT ![p] = "gone"] /\ UNCHANGED <<src, creator>>
          /\ source' = [source EXCEPT ![c] = IF last THEN "closing" ELSE @]
          /\ worker' = [worker EXCEPT ![c] = IF last THEN "stopping" ELSE @]
      BY <1>2, <2>2 DEF PeerClosed, Unsubscribe
    <3>2. c \in Sources /\ HasWorker(c) /\ Held(c)
      BY <1>2 DEF PeerClosed, PeerInv, SourceInv
    <3>3. /\ \A d \in Sources : Subscriptions(d)' = Subscriptions(d) \ {p}
          /\ \A d \in Sources : d # c => Subscriptions(d)' = Subscriptions(d)
          /\ \A q \in Streams : q # p => sub'[q] = sub[q]
      BY <3>1 DEF Subscriptions, Registered, StreamTypes
    <3>4. \A d \in Sources : source'[d] = IF d = c /\ last THEN "closing" ELSE source[d]
      BY <3>1 DEF StreamTypes
    <3>5. \A d \in Sources : worker'[d] = IF d = c /\ last THEN "stopping" ELSE worker[d]
      BY <3>1 DEF StreamTypes
    <3> HIDE DEF last
    <3>6. OneOpenSourcePerKey'
      BY <3>1, <3>4 DEF SourceInv, OneOpenSourcePerKey, Key
    <3>7. ASSUME NEW d \in Sources
          PROVE  /\ source'[d] \in {"starting", "ready"} => Subscriptions(d)' # {}
                 /\ source'[d] = "closing" => \A q \in Subscriptions(d)' : sub'[q] = "closing"
      <4>1. CASE d = c /\ last
        <5>1. Subscriptions(d)' = {}
          BY <3>3, <4>1 DEF last
        <5> QED
          BY <3>4, <4>1, <5>1
      <4>2. CASE ~(d = c /\ last)
        <5>1. source'[d] = source[d]
          BY <3>4, <4>2
        <5>2. source[d] \in {"starting", "ready"} => Subscriptions(d) # {} /\ (d = c => Subscriptions(d) # {p})
          BY <4>2 DEF last, SourceInv, NoIdleSource
        <5>3. source[d] \in {"starting", "ready"} => Subscriptions(d)' # {}
          BY <3>3, <5>2
        <5>4. \A q \in Subscriptions(d)' : q \in Subscriptions(d) /\ sub'[q] = sub[q]
          BY <3>3 DEF Subscriptions
        <5> QED
          BY <5>1, <5>3, <5>4 DEF SourceInv, NoIdleSource
      <4> QED
        BY <4>1, <4>2
    <3>8. ASSUME NEW d \in Sources
          PROVE  /\ source'[d] # "none" => creator'[d] \in Streams
                 /\ source'[d] \in {"none", "released"} => Subscriptions(d)' = {}
                 /\ HasWorker(d)' => Held(d)'
      BY <3>1, <3>2, <3>3, <3>4, <3>5 DEF SourceInv, HasWorker, Held
    <3> QED
      BY <3>6, <3>7, <3>8 DEF SourceInv, NoIdleSource, HasWorker, Held
  <2> QED
    BY <1>2, <2>1, <2>2 DEF PeerClosed
<1>3. ASSUME NEW p \in Streams, RemovalTimeout(p)  PROVE SourceInv'
  <2>1. /\ UNCHANGED <<sub, src, source, creator>>
        /\ \A c \in Sources : HasWorker(c)' => HasWorker(c)
    BY <1>3 DEF RemovalTimeout, registryVars, HasWorker, StreamTypes
  <2> QED
    BY <2>1 DEF SourceInv, OneOpenSourcePerKey, NoIdleSource, Held, Key, Subscriptions, Registered
<1>4. ASSUME NEW p \in Streams, GoesLive(p)  PROVE SourceInv'
  <2>1. /\ \A d \in Sources : Subscriptions(d)' = Subscriptions(d)
        /\ \A q \in Streams : sub[q] = "closing" => sub'[q] = "closing"
        /\ UNCHANGED <<source, creator, worker>>
    BY <1>4 DEF GoesLive, Subscriptions, Registered, processVars, StreamTypes
  <2>2. creator' = creator /\ OneOpenSourcePerKey'
    BY <1>4, <2>1 DEF GoesLive, SourceInv, OneOpenSourcePerKey, Key
  <2>3. ASSUME NEW d \in Sources
        PROVE  /\ source'[d] \in {"starting", "ready"} => Subscriptions(d)' # {}
               /\ source'[d] = "closing" => \A q \in Subscriptions(d)' : sub'[q] = "closing"
    BY <2>1 DEF SourceInv, NoIdleSource, Subscriptions
  <2> QED
    BY <2>1, <2>2, <2>3 DEF SourceInv, NoIdleSource, HasWorker, Held
<1>5. ASSUME NEW C \in SUBSET Streams, NEW E \in SUBSET Streams, E \subseteq C, End(C, E)  PROVE SourceInv'
  <2> DEFINE unserved == {p \in E : Registered(p) /\ worker[src[p]] = "none"}
  <2>1. /\ UNCHANGED <<src, creator, worker>>
        /\ sub' = [p \in Streams |-> IF p \in unserved THEN "gone"
                                     ELSE IF p \in C /\ Registered(p) THEN "closing" ELSE sub[p]]
        /\ source' = [c \in Sources |-> IF Subscriptions(c) # {} /\ Subscriptions(c) \subseteq unserved
                                        THEN "released" ELSE source[c]]
    BY <1>5 DEF End
  <2>2. \A d \in Sources : Subscriptions(d)' = Subscriptions(d) \ unserved
    BY <2>1 DEF Subscriptions, Registered
  <2>3. \A d \in Sources : \A p \in Subscriptions(d) : p \in unserved => worker[d] = "none"
    BY DEF Subscriptions
  <2>4. \A q \in Streams : sub[q] = "closing" /\ q \notin unserved => sub'[q] = "closing"
    BY <2>1 DEF Registered
  <2> HIDE DEF unserved
  <2>5. OneOpenSourcePerKey'
    BY <2>1 DEF SourceInv, OneOpenSourcePerKey, Key
  <2>6. NoIdleSource'
    BY <2>1, <2>2, <2>4 DEF SourceInv, NoIdleSource, Subscriptions
  <2>7. ASSUME NEW d \in Sources
        PROVE  /\ source'[d] # "none" => creator'[d] \in Streams
               /\ source'[d] \in {"none", "released"} => Subscriptions(d)' = {}
               /\ HasWorker(d)' => Held(d)'
    <3>1. CASE Subscriptions(d) # {} /\ Subscriptions(d) \subseteq unserved
      BY <2>1, <2>2, <2>3, <3>1 DEF SourceInv, HasWorker, Held
    <3>2. CASE ~(Subscriptions(d) # {} /\ Subscriptions(d) \subseteq unserved)
      BY <2>1, <2>2, <2>3, <3>2 DEF SourceInv, HasWorker, Held
    <3> QED
      BY <3>1, <3>2
  <2> QED
    BY <2>5, <2>6, <2>7 DEF SourceInv
<1>6. ASSUME NEW C \in SUBSET {c \in Sources : Held(c)}, Close(C)  PROVE SourceInv'
  <2> DEFINE unserved == {c \in C : worker[c] = "none"}
  <2>1. /\ UNCHANGED <<src, creator>>
        /\ \A c \in Sources : source'[c] = IF c \in unserved THEN "released"
                                             ELSE IF c \in C THEN "closing" ELSE source[c]
        /\ \A c \in Sources : worker'[c] = IF c \in C \ unserved THEN "stopping" ELSE worker[c]
    BY <1>6 DEF Close
  <2>2. sub' = [p \in Streams |-> IF ~Registered(p) \/ src[p] \notin C THEN sub[p]
                                  ELSE IF src[p] \in unserved THEN "gone" ELSE "closing"]
    BY <1>6 DEF Close
  <2>3. ASSUME NEW d \in Sources
        PROVE  /\ Subscriptions(d)' = IF d \in unserved THEN {} ELSE Subscriptions(d)
               /\ d \in C => \A q \in Subscriptions(d)' : sub'[q] = "closing"
               /\ d \notin C => \A q \in Subscriptions(d)' : sub'[q] = sub[q]
    BY <2>1, <2>2 DEF Subscriptions, Registered
  <2>4. \A d \in Sources : d \in unserved => worker[d] = "none" /\ d \in C
    OBVIOUS
  <2> HIDE DEF unserved
  <2>5. OneOpenSourcePerKey'
    BY <2>1 DEF SourceInv, OneOpenSourcePerKey, Key
  <2>6. NoIdleSource'
    BY <2>1, <2>3, <2>4 DEF SourceInv, NoIdleSource
  <2>7. ASSUME NEW d \in Sources
        PROVE  /\ source'[d] # "none" => creator'[d] \in Streams
               /\ source'[d] \in {"none", "released"} => Subscriptions(d)' = {}
               /\ HasWorker(d)' => Held(d)'
    BY <2>1, <2>3, <2>4 DEF SourceInv, HasWorker, Held
  <2> QED
    BY <2>5, <2>6, <2>7 DEF SourceInv
<1>7. ASSUME NEW c \in Sources, WorkerReady(c)  PROVE SourceInv'
  <2>1. /\ UNCHANGED <<sub, src, creator, worker>> /\ HasWorker(c)
        /\ \A d \in Sources : source'[d] = source[d] \/ (source[d] = "starting" /\ source'[d] = "ready")
    <3>1. source' = [source EXCEPT ![c] = IF @ = "starting" THEN "ready" ELSE @]
      BY <1>7 DEF WorkerReady
    <3>2. \A d \in Sources : source'[d] = source[d] \/ (source[d] = "starting" /\ source'[d] = "ready")
      BY <3>1 DEF StreamTypes
    <3> QED
      BY <1>7, <3>2 DEF WorkerReady
  <2>2. \A d \in Sources : Subscriptions(d)' = Subscriptions(d)
    BY <2>1 DEF Subscriptions, Registered
  <2> QED
    BY <2>1, <2>2 DEF SourceInv, OneOpenSourcePerKey, NoIdleSource, HasWorker, Held, Key
<1>8. ASSUME NEW c \in Sources, WorkerExit(c)  PROVE SourceInv'
  <2>1. /\ UNCHANGED <<src, creator>> /\ HasWorker(c)
        /\ \A d \in Sources : source'[d] = IF d = c THEN "released" ELSE source[d]
        /\ \A d \in Sources : worker'[d] = IF d = c THEN "exited" ELSE worker[d]
        /\ \A q \in Streams : sub'[q] = IF q \in Subscriptions(c) THEN "gone" ELSE sub[q]
    BY <1>8 DEF WorkerExit, StreamTypes
  <2>2. \A d \in Sources : Subscriptions(d)' = IF d = c THEN {} ELSE Subscriptions(d)
    BY <2>1 DEF Subscriptions, Registered
  <2>3. \A d \in Sources : \A q \in Subscriptions(d) : d # c => sub'[q] = sub[q]
    BY <2>1 DEF Subscriptions
  <2> QED
    BY <2>1, <2>2, <2>3 DEF SourceInv, OneOpenSourcePerKey, NoIdleSource, HasWorker, Held, Key
<1>9. CASE UNCHANGED <<registryVars, worker>>
  BY <1>9 DEF registryVars, SourceInv, OneOpenSourcePerKey, NoIdleSource, HasWorker, Held, Key, Subscriptions, Registered
<1> QED
  BY <1>1, <1>2, <1>3, <1>4, <1>5, <1>6, <1>7, <1>8, <1>9 DEF RegistryStep

\* Only an admitted offer adds a source to those held.
LEMMA BudgetStep == StreamTypes /\ SourceInv /\ PeerInv /\ BudgetInv /\ RegistryStep => BudgetInv'
<1> SUFFICES ASSUME StreamTypes, SourceInv, PeerInv, BudgetInv, RegistryStep PROVE BudgetInv'
  OBVIOUS
<1> DEFINE Held0 == {c \in Sources : Held(c)}
           Held1 == {c \in Sources : Held(c)'}
<1>1. ASSUME Held1 \subseteq Held0  PROVE BudgetInv'
  BY <1>1, FS_Subset, FS_CardinalityType, StreamsAssumption DEF BudgetInv
<1>2. ASSUME NEW p \in Streams, Offer(p)  PROVE BudgetInv'
  <2>1. CASE source' = source
    BY <1>1, <2>1 DEF Held
  <2>2. ASSUME MayStart, NEW c \in Sources, source' = [source EXCEPT ![c] = "starting"]  PROVE BudgetInv'
    <3>1. Held1 = Held0 \cup {c}
      BY <2>2 DEF Held, StreamTypes
    <3>2. Cardinality(Held0) \in Nat /\ Cardinality(Held0) < MaxSources /\ IsFiniteSet(Held0)
      BY <2>2, FS_CardinalityType DEF MayStart, BudgetInv
    <3>3. IsFiniteSet(Held1) /\ Cardinality(Held1) \in {Cardinality(Held0), Cardinality(Held0) + 1}
      BY <3>1, <3>2, FS_AddElement
    <3> QED
      BY <3>2, <3>3, StreamsAssumption DEF BudgetInv
  <2> QED
    BY <1>2, <2>1, <2>2 DEF Offer
<1>3. ASSUME \A c \in Sources : source'[c] \in {source[c], "released"} \/ Held(c)  PROVE BudgetInv'
  BY <1>1, <1>3 DEF Held
<1>4. ASSUME NEW p \in Streams, PeerClosed(p)  PROVE BudgetInv'
  <2>1. Held(src[p])
    BY <1>4 DEF PeerClosed, PeerInv, SourceInv
  <2> QED
    BY <1>3, <1>4, <2>1 DEF PeerClosed, Unsubscribe, StreamTypes
<1>5. ASSUME NEW p \in Streams, RemovalTimeout(p) \/ GoesLive(p)  PROVE BudgetInv'
  BY <1>3, <1>5 DEF RemovalTimeout, GoesLive, registryVars
<1>6. ASSUME NEW C \in SUBSET Streams, NEW E \in SUBSET Streams, End(C, E)  PROVE BudgetInv'
  BY <1>3, <1>6 DEF End
<1>7. ASSUME NEW C \in SUBSET {c \in Sources : Held(c)}, Close(C)  PROVE BudgetInv'
  BY <1>3, <1>7 DEF Close
<1>8. ASSUME NEW c \in Sources, WorkerReady(c) \/ WorkerExit(c)  PROVE BudgetInv'
  BY <1>3, <1>8 DEF WorkerReady, WorkerExit, SourceInv, StreamTypes
<1>9. CASE UNCHANGED <<registryVars, worker>>
  BY <1>3, <1>9 DEF registryVars
<1> QED
  BY <1>2, <1>4, <1>5, <1>6, <1>7, <1>8, <1>9 DEF RegistryStep

\* Only an offer gives a source that was never admitted a worker.
LEMMA FreshStep == StreamTypes /\ SourceInv /\ PeerInv /\ FreshInv /\ RegistryStep => FreshInv'
<1> SUFFICES ASSUME StreamTypes, SourceInv, PeerInv, FreshInv, RegistryStep PROVE FreshInv'
  OBVIOUS
<1>1. ASSUME \A c \in Sources : /\ source'[c] = "none" => source[c] = "none"
                                /\ worker'[c] = worker[c] \/ source[c] # "none" \/ source'[c] # "none"
      PROVE  FreshInv'
  BY <1>1 DEF FreshInv
<1>2. ASSUME NEW p \in Streams, Offer(p)  PROVE FreshInv'
  <2>1. CASE UNCHANGED <<source, worker>>
    BY <1>1, <2>1
  <2>2. ASSUME NEW c \in Sources, NEW launched, source' = [source EXCEPT ![c] = "starting"],
               worker' = [worker EXCEPT ![c] = launched]
        PROVE  FreshInv'
    BY <1>1, <2>2 DEF StreamTypes
  <2> QED
    BY <1>2, <2>1, <2>2 DEF Offer
<1>3. ASSUME NEW p \in Streams, PeerClosed(p)  PROVE FreshInv'
  <2>1. src[p] \in Sources /\ source[src[p]] # "none"
    BY <1>3 DEF PeerClosed, PeerInv, SourceInv, Held
  <2>2. CASE UNCHANGED <<source, worker>>
    BY <1>1, <2>2
  <2>3. CASE Unsubscribe(p)
    BY <1>1, <2>1, <2>3 DEF Unsubscribe, StreamTypes
  <2> QED
    BY <1>3, <2>2, <2>3 DEF PeerClosed
<1>4. ASSUME NEW p \in Streams, RemovalTimeout(p)  PROVE FreshInv'
  <2>1. src[p] \in Sources /\ source[src[p]] # "none"
    BY <1>4 DEF RemovalTimeout, PeerInv, SourceInv, Held
  <2> QED
    BY <1>1, <1>4, <2>1 DEF RemovalTimeout, registryVars, StreamTypes
<1>5. ASSUME NEW p \in Streams, GoesLive(p)  PROVE FreshInv'
  BY <1>1, <1>5 DEF GoesLive, processVars
<1>6. ASSUME NEW C \in SUBSET Streams, NEW E \in SUBSET Streams, End(C, E)  PROVE FreshInv'
  BY <1>1, <1>6 DEF End
<1>7. ASSUME NEW C \in SUBSET {c \in Sources : Held(c)}, Close(C)  PROVE FreshInv'
  BY <1>1, <1>7 DEF Close
<1>8. ASSUME NEW c \in Sources, WorkerReady(c)  PROVE FreshInv'
  BY <1>1, <1>8 DEF WorkerReady, StreamTypes
<1>9. ASSUME NEW c \in Sources, WorkerExit(c)  PROVE FreshInv'
  BY <1>1, <1>9 DEF WorkerExit, StreamTypes
<1>10. CASE UNCHANGED <<registryVars, worker>>
  BY <1>1, <1>10 DEF registryVars
<1> QED
  BY <1>2, <1>3, <1>4, <1>5, <1>6, <1>7, <1>8, <1>9, <1>10 DEF RegistryStep

RegistryInv == SourceInv /\ PeerInv /\ FreshInv /\ BudgetInv

LEMMA RegistryHolds == Spec => [](StreamTypes /\ RegistryInv)
<1>1. Init => SourceInv /\ PeerInv /\ FreshInv
  BY DEF Init, SourceInv, PeerInv, FreshInv, OneOpenSourcePerKey, NoIdleSource, Subscriptions, Registered, HasWorker, Held
<1>2. Init => BudgetInv
  <2> SUFFICES ASSUME Init PROVE BudgetInv
    OBVIOUS
  <2>1. {c \in Sources : Held(c)} = {}
    BY DEF Init, Held
  <2> QED
    BY <2>1, FS_EmptySet, StreamsAssumption DEF BudgetInv
<1>3. StreamTypes /\ RegistryInv /\ [Next]_vars => RegistryInv'
  BY StepsOfTheRegistry, PeersStep, SourcesStep, FreshStep, BudgetStep DEF RegistryInv
<1> QED
  BY <1>1, <1>2, <1>3, TypesHold, PTL DEF Spec, RegistryInv

\* One encode per plan, none that nobody watches, and never more workers that have not exited than
\* the host admits sources: streams_limits checks it on one device, and the budget on two.
THEOREM SourcesBounded == Spec => []SourcesAreBounded
<1>1. SourceInv /\ BudgetInv => SourcesAreBounded
  <2> SUFFICES ASSUME SourceInv, BudgetInv PROVE WorkersWithinBudget
    BY DEF SourceInv, SourcesAreBounded
  <2>1. {c \in Sources : HasWorker(c)} \subseteq {c \in Sources : Held(c)}
    BY DEF SourceInv
  <2> QED
    BY <2>1, FS_Subset, FS_CardinalityType, StreamsAssumption DEF SourceInv, BudgetInv, WorkersWithinBudget
<1> QED
  BY <1>1, RegistryHolds, PTL DEF RegistryInv

-----------------------------------------------------------------------------
(* The relay.  What lines are on their way after one was written or read. *)

LEMMA SendingAppend ==
  ASSUME StreamTypes, NEW m \in LineTo, toRelay' = Append(toRelay, m), NEW p, Ordered(p),
         (m.type = "allow" /\ p \in m.streams) => (~Sending("allow", p) /\ ~Sending("revoke", p))
  PROVE  /\ \A type : Sending(type, p)' <=> (Sending(type, p) \/ (m.type = type /\ p \in m.streams))
         /\ Ordered(p)'
<1>1. /\ DOMAIN toRelay' = 1..(Len(toRelay) + 1) /\ DOMAIN toRelay = 1..Len(toRelay) /\ Len(toRelay) \in Nat
      /\ \A k \in DOMAIN toRelay : toRelay'[k] = toRelay[k]
      /\ toRelay'[Len(toRelay) + 1] = m
  BY LinesAppend DEF StreamTypes
<1>2. ASSUME NEW type  PROVE Sending(type, p)' <=> (Sending(type, p) \/ (m.type = type /\ p \in m.streams))
  BY <1>1 DEF Sending
<1>3. Ordered(p)'
  <2> SUFFICES ASSUME NEW j \in DOMAIN toRelay', NEW k \in DOMAIN toRelay',
                      p \in toRelay'[j].streams, p \in toRelay'[k].streams, toRelay'[j].type = "allow"
               PROVE  j <= k /\ (toRelay'[k].type = "allow" => j = k)
    BY DEF Ordered
  <2>1. CASE j \in DOMAIN toRelay /\ k \in DOMAIN toRelay
    BY <1>1, <2>1 DEF Ordered
  <2>2. CASE j \in DOMAIN toRelay /\ k = Len(toRelay) + 1
    BY <1>1, <2>2 DEF Sending
  <2>3. CASE j = Len(toRelay) + 1
    <3>1. m.type = "allow" /\ p \in m.streams
      BY <1>1, <2>3
    <3>2. k \notin DOMAIN toRelay
      <4>1. ASSUME k \in DOMAIN toRelay  PROVE FALSE
        <5>1. toRelay[k] \in LineTo /\ p \in toRelay[k].streams
          BY <1>1, <4>1 DEF StreamTypes
        <5> QED
          BY <3>1, <4>1, <5>1 DEF LineTo, Sending
      <4> QED
        BY <4>1
    <3> QED
      BY <1>1, <2>3, <3>2
  <2> QED
    BY <1>1, <2>1, <2>2, <2>3
<1> QED
  BY <1>2, <1>3

LEMMA SendingTail ==
  ASSUME StreamTypes, toRelay # <<>>, toRelay' = Tail(toRelay), NEW p, Ordered(p)
  PROVE  /\ \A type : Sending(type, p)' => Sending(type, p)
         /\ \A type : Sending(type, p) =>
              (Sending(type, p)' \/ (Head(toRelay).type = type /\ p \in Head(toRelay).streams))
         /\ Head(toRelay) \in LineTo /\ (p \in Head(toRelay).streams => Sending(Head(toRelay).type, p))
         /\ Ordered(p)'
         /\ p \in Head(toRelay).streams => ~Sending("allow", p)'
<1>1. /\ Head(toRelay) \in LineTo /\ Head(toRelay) = toRelay[1] /\ 1 \in DOMAIN toRelay
      /\ DOMAIN toRelay = 1..Len(toRelay) /\ Len(toRelay) \in Nat /\ DOMAIN toRelay' = 1..(Len(toRelay) - 1)
      /\ \A k \in DOMAIN toRelay' : k + 1 \in DOMAIN toRelay /\ toRelay'[k] = toRelay[k + 1]
  BY LinesTail DEF StreamTypes
<1>2. ASSUME NEW k \in DOMAIN toRelay  PROVE k = 1 \/ (k - 1 \in DOMAIN toRelay' /\ toRelay'[k - 1] = toRelay[k])
  BY <1>1
<1>3. ASSUME NEW type  PROVE Sending(type, p)' => Sending(type, p)
  BY <1>1 DEF Sending
<1>4. ASSUME NEW type, Sending(type, p)
      PROVE  Sending(type, p)' \/ (Head(toRelay).type = type /\ p \in Head(toRelay).streams)
  <2>1. PICK k \in DOMAIN toRelay : toRelay[k].type = type /\ p \in toRelay[k].streams
    BY <1>4 DEF Sending
  <2> QED
    BY <1>1, <1>2, <2>1 DEF Sending
<1>5. Ordered(p)'
  <2> SUFFICES ASSUME NEW j \in DOMAIN toRelay', NEW k \in DOMAIN toRelay',
                      p \in toRelay'[j].streams, p \in toRelay'[k].streams, toRelay'[j].type = "allow"
               PROVE  j <= k /\ (toRelay'[k].type = "allow" => j = k)
    BY DEF Ordered
  <2>1. j + 1 <= k + 1 /\ (toRelay[k + 1].type = "allow" => j + 1 = k + 1)
    BY <1>1 DEF Ordered
  <2> QED
    BY <1>1, <2>1
<1>6. ASSUME p \in Head(toRelay).streams, Sending("allow", p)'  PROVE FALSE
  <2>1. PICK k \in DOMAIN toRelay' : toRelay'[k].type = "allow" /\ p \in toRelay'[k].streams
    BY <1>6 DEF Sending
  <2>2. k + 1 <= 1
    BY <1>1, <1>6, <2>1 DEF Ordered
  <2> QED
    BY <1>1, <2>2
<1>7. p \in Head(toRelay).streams => Sending(Head(toRelay).type, p)
  BY <1>1 DEF Sending
<1> QED
  BY <1>1, <1>3, <1>4, <1>5, <1>6, <1>7

LEMMA ToldAppend ==
  ASSUME StreamTypes, NEW m \in LineFrom, fromRelay' = Append(fromRelay, m), NEW p
  PROVE  /\ \A type : Told(type, p)' <=> (Told(type, p) \/ (m.type = type /\ p \in m.streams))
         /\ Expiring(p)' <=> (Expiring(p) \/ m = Line("expired", {p}))
<1>1. /\ DOMAIN fromRelay' = 1..(Len(fromRelay) + 1) /\ DOMAIN fromRelay = 1..Len(fromRelay)
      /\ Len(fromRelay) \in Nat
      /\ \A k \in DOMAIN fromRelay : fromRelay'[k] = fromRelay[k]
      /\ fromRelay'[Len(fromRelay) + 1] = m
  BY LinesAppend DEF StreamTypes
<1>2. ASSUME NEW type  PROVE Told(type, p)' <=> (Told(type, p) \/ (m.type = type /\ p \in m.streams))
  BY <1>1 DEF Told
<1>3. Expiring(p)' <=> (Expiring(p) \/ m = Line("expired", {p}))
  <2>1. ASSUME NEW k \in DOMAIN fromRelay', fromRelay'[k] = Line("expired", {p})
        PROVE  Expiring(p) \/ m = Line("expired", {p})
    <3>1. CASE k \in DOMAIN fromRelay
      BY <1>1, <2>1, <3>1 DEF Expiring
    <3>2. CASE k = Len(fromRelay) + 1
      BY <1>1, <2>1, <3>2
    <3> QED
      BY <1>1, <2>1, <3>1, <3>2
  <2>2. ASSUME NEW k \in DOMAIN fromRelay, fromRelay[k] = Line("expired", {p})  PROVE Expiring(p)'
    <3>1. k \in DOMAIN fromRelay' /\ fromRelay'[k] = Line("expired", {p})
      BY <1>1, <2>2
    <3> QED
      BY <3>1 DEF Expiring, Line
  <2>3. m = Line("expired", {p}) => Expiring(p)'
    BY <1>1 DEF Expiring, Line
  <2> QED
    BY <2>1, <2>2, <2>3 DEF Expiring, Line
<1> QED
  BY <1>2, <1>3

LEMMA ToldTail ==
  ASSUME StreamTypes, fromRelay # <<>>, fromRelay' = Tail(fromRelay), NEW p
  PROVE  /\ \A type : Told(type, p)' => Told(type, p)
         /\ Expiring(p)' => Expiring(p)
         /\ Expiring(p) => Expiring(p)' \/ Head(fromRelay) = Line("expired", {p})
         /\ Head(fromRelay) \in LineFrom
         /\ p \in Head(fromRelay).streams => Told(Head(fromRelay).type, p)
<1>1. /\ Head(fromRelay) \in LineFrom /\ Head(fromRelay) = fromRelay[1] /\ 1 \in DOMAIN fromRelay
      /\ DOMAIN fromRelay = 1..Len(fromRelay) /\ Len(fromRelay) \in Nat
      /\ DOMAIN fromRelay' = 1..(Len(fromRelay) - 1)
      /\ \A k \in DOMAIN fromRelay' : k + 1 \in DOMAIN fromRelay /\ fromRelay'[k] = fromRelay[k + 1]
  BY LinesTail DEF StreamTypes
<1>2. ASSUME NEW k \in DOMAIN fromRelay
      PROVE  k = 1 \/ (k - 1 \in DOMAIN fromRelay' /\ fromRelay'[k - 1] = fromRelay[k])
  BY <1>1
<1>3. ASSUME NEW type  PROVE Told(type, p)' => Told(type, p)
  BY <1>1 DEF Told
<1>4. Expiring(p)' => Expiring(p)
  BY <1>1 DEF Expiring, Line
<1>5. Expiring(p) => Expiring(p)' \/ Head(fromRelay) = Line("expired", {p})
  BY <1>1, <1>2 DEF Expiring, Line
<1>6. p \in Head(fromRelay).streams => Told(Head(fromRelay).type, p)
  BY <1>1 DEF Told
<1> QED
  BY <1>1, <1>3, <1>4, <1>5, <1>6

-----------------------------------------------------------------------------
(* Streams.  Most steps only take streams nearer to their end. *)

\* Subscriptions close or go, live peers stay or their streams end, a worker once launched stays so;
\* a stream goes only if its worker never was, or its path goes with it.
Wanes ==
  /\ src' = src
  /\ \A c \in Sources : worker[c] # "none" => worker'[c] # "none"
  /\ \A q \in Streams :
       /\ sub'[q] = sub[q] \/ (Registered(q) /\ sub'[q] \in {"closing", "gone"})
       /\ (sub'[q] = "gone" /\ sub[q] # "gone") => (worker[src[q]] = "none" \/ q \notin path')
       /\ entry[q] = "live" => (entry'[q] = "live" \/ sub'[q] \notin {"starting", "live"})
       /\ entry'[q] = "negotiating" => entry[q] = "negotiating"

\* And offers end or stay where they are.
Fades ==
  /\ Wanes
  /\ \A q \in Streams :
       /\ answered'[q] => (answered[q] /\ offer'[q] = offer[q])
       /\ \/ offer'[q] = offer[q]
          \/ offer[q] # "none" /\ offer'[q] = "ending" /\ Leaving(q)' /\ entry'[q] # "negotiating"
          \/ offer[q] = "ending" /\ offer'[q] = "failed" /\ q \notin path'
       /\ q \in path' => q \in path \/ (offer[q] = "relay" /\ offer'[q] = "ending")
       /\ sub'[q] = "live" => (q \in path => q \in path') /\ (relayUp => relayUp')
       /\ (sub'[q] \in {"starting", "live"} /\ stops'[SessionOf[q]] # {}) => stops[SessionOf[q]] # {}

\* A stream nearer to its end is still where its offer and its subscription say.
LEMMA FadingKeepsOffers ==
  ASSUME PeerInv, Fades, NEW p \in Streams, OfferInv(p)
  PROVE  OfferInv(p)'
<1>1. src[p] \in Sources \/ sub[p] = "absent"
  BY DEF PeerInv
<1>2. src' = src /\ (worker[src[p]] # "none" /\ src[p] \in Sources => worker'[src[p]] # "none")
  BY DEF Fades, Wanes
<1>3. /\ sub'[p] = sub[p] \/ (sub[p] \in {"starting", "live", "closing"} /\ sub'[p] \in {"closing", "gone"})
      /\ (sub'[p] = "gone" /\ sub[p] # "gone") => (worker[src[p]] = "none" \/ p \notin path')
      /\ entry[p] = "live" => (entry'[p] = "live" \/ sub'[p] \notin {"starting", "live"})
      /\ entry'[p] = "negotiating" => entry[p] = "negotiating"
  BY DEF Fades, Wanes, Registered
<1>4. /\ answered'[p] => (answered[p] /\ offer'[p] = offer[p])
      /\ \/ offer'[p] = offer[p]
         \/ offer[p] # "none" /\ offer'[p] = "ending" /\ sub'[p] \in {"closing", "gone"} /\ entry'[p] # "negotiating"
         \/ offer[p] = "ending" /\ offer'[p] = "failed" /\ p \notin path'
      /\ p \in path' => p \in path \/ (offer[p] = "relay" /\ offer'[p] = "ending")
      /\ sub'[p] = "live" => (p \in path => p \in path') /\ (relayUp => relayUp')
      /\ (sub'[p] \in {"starting", "live"} /\ stops'[SessionOf[p]] # {}) => stops[SessionOf[p]] # {}
  BY DEF Fades, Leaving
<1> QED
  BY <1>1, <1>2, <1>3, <1>4 DEF OfferInv, Registered

\* Nothing is written, read or registered, and no offer stops waiting for the relay.
LinesStay ==
  /\ UNCHANGED <<toRelay, fromRelay, registered, path>> /\ (relayUp => relayUp')
  /\ \A q \in Streams :
       /\ (offer[q] = "relay") <=> (offer'[q] = "relay")
       /\ offer'[q] \in {"none", "negotiating", "port"} => offer[q] \in {"none", "negotiating", "port"}
       /\ Leaving(q) => Leaving(q)'
       /\ sub'[q] = "live" => sub[q] = "live"

\* What the relay has, and what is on its way, stays right while neither moves.
LEMMA LinesKept ==
  ASSUME LinesStay, StreamInv
  PROVE  DownInv' /\ \A p \in Streams : LinesInv(p)'
<1>1. DownInv'
  BY DEF LinesStay, StreamInv, DownInv
<1>2. ASSUME NEW p \in Streams  PROVE LinesInv(p)'
  <2>1. /\ \A type : Sending(type, p)' <=> Sending(type, p)
        /\ \A type : Told(type, p)' <=> Told(type, p)
        /\ Expiring(p)' <=> Expiring(p)
        /\ Ordered(p) => Ordered(p)'
    BY DEF LinesStay, Sending, Told, Expiring, Ordered, Line
  <2>2. /\ (offer[p] = "relay") <=> (offer'[p] = "relay")
        /\ offer'[p] \in {"none", "negotiating", "port"} => offer[p] \in {"none", "negotiating", "port"}
        /\ Leaving(p) => Leaving(p)'
        /\ sub'[p] = "live" => sub[p] = "live"
        /\ registered' = registered /\ path' = path
    BY DEF LinesStay
  <2>3. LinesInv(p)
    BY DEF StreamInv
  <2> QED
    BY <2>1, <2>2, <2>3 DEF LinesInv
<1> QED
  BY <1>1, <1>2

\* A revoke is for streams that end.
LEMMA RevokeKeepsLines ==
  ASSUME StreamTypes, StreamInv, relayUp, NEW P \in SUBSET Streams,
         toRelay' = Append(toRelay, Line("revoke", P)), UNCHANGED <<relayUp, fromRelay, registered>>,
         \A q \in Streams :
           /\ offer[q] = "relay" => offer'[q] = "relay" \/ q \in P
           /\ offer'[q] \in {"none", "negotiating", "port"} => offer[q] \in {"none", "negotiating", "port"}
           /\ Leaving(q) => Leaving(q)'
           /\ sub'[q] = "live" => sub[q] = "live"
           /\ q \in P => Leaving(q)' /\ offer'[q] \notin {"none", "negotiating", "port"}
           /\ (q \in path /\ q \notin P) <=> (q \in path' /\ q \notin P)
           /\ q \in path' => q \in path
  PROVE  DownInv' /\ \A p \in Streams : LinesInv(p)'
<1> DEFINE m == Line("revoke", P)
<1>1. m \in LineTo /\ m.type = "revoke" /\ m.streams = P
  BY DEF Line, LineTo
<1> HIDE DEF m
<1>2. DownInv'
  BY DEF DownInv
<1>3. ASSUME NEW p \in Streams  PROVE LinesInv(p)'
  <2>1. LinesInv(p) /\ Ordered(p)
    BY DEF StreamInv, LinesInv
  <2>2. /\ \A type : Sending(type, p)' <=> (Sending(type, p) \/ (type = "revoke" /\ p \in P))
        /\ Ordered(p)'
    BY <1>1, <2>1, SendingAppend DEF m
  <2>3. /\ \A type : Told(type, p)' <=> Told(type, p)
        /\ Expiring(p)' <=> Expiring(p)
    BY DEF Told, Expiring, Line
  <2>4. /\ offer[p] = "relay" => offer'[p] = "relay" \/ p \in P
        /\ offer'[p] \in {"none", "negotiating", "port"} => offer[p] \in {"none", "negotiating", "port"}
        /\ Leaving(p) => Leaving(p)'
        /\ sub'[p] = "live" => sub[p] = "live"
        /\ p \in P => Leaving(p)' /\ offer'[p] \notin {"none", "negotiating", "port"}
        /\ (p \in path /\ p \notin P) <=> (p \in path' /\ p \notin P)
        /\ p \in path' => p \in path
        /\ registered' = registered
    OBVIOUS
  <2> QED
    BY <2>1, <2>2, <2>3, <2>4 DEF LinesInv
<1> QED
  BY <1>2, <1>3

\* What #forget sends does not disturb a stream whose subscription is gone.
LEMMA ForgetKeepsLines ==
  ASSUME StreamTypes, StreamInv, NEW P \in SUBSET Streams, Forget(P),
         UNCHANGED <<relayUp, fromRelay, registered>>,
         \A q \in Streams :
           /\ (offer[q] = "relay") <=> (offer'[q] = "relay")
           /\ offer'[q] \in {"none", "negotiating", "port"} => offer[q] \in {"none", "negotiating", "port"}
           /\ Leaving(q) => Leaving(q)'
           /\ sub'[q] = "live" => sub[q] = "live"
           /\ q \in P => Leaving(q)'
  PROVE  DownInv' /\ \A p \in Streams : LinesInv(p)'
<1>1. CASE path \cap P = {} \/ ~relayUp
  <2>1. toRelay' = toRelay
    BY <1>1 DEF Forget
  <2>2. CASE path \cap P = {}
    <3>1. LinesStay
      BY <2>1, <2>2 DEF LinesStay, Forget
    <3> QED
      BY <3>1, LinesKept
  <2>3. CASE ~relayUp
    <3>1. DownInv'
      BY <2>1, <2>3 DEF StreamInv, DownInv
    <3>2. ASSUME NEW p \in Streams  PROVE LinesInv(p)'
      <4>1. LinesInv(p) /\ toRelay' = <<>> /\ fromRelay' = <<>> /\ p \notin registered'
        BY <2>1, <2>3 DEF StreamInv, DownInv
      <4>2. /\ \A type : ~Sending(type, p)' /\ ~Told(type, p)'
            /\ Ordered(p)'
        BY <4>1 DEF Sending, Told, Ordered
      <4>3. ~Expiring(p)' /\ ~Expiring(p)
        BY <2>3, <4>1 DEF Expiring, StreamInv, DownInv
      <4> QED
        BY <4>1, <4>2, <4>3 DEF LinesInv, Forget
    <3> QED
      BY <3>1, <3>2
  <2> QED
    BY <1>1, <2>2, <2>3
<1>2. CASE path \cap P # {} /\ relayUp
  <2>1. toRelay' = Append(toRelay, Line("revoke", path \cap P)) /\ path' = path \ P
    BY <1>2 DEF Forget
  <2>2. ASSUME NEW q \in Streams, q \in path \cap P
        PROVE  offer'[q] \notin {"none", "negotiating", "port"}
    BY <2>2 DEF StreamInv, LinesInv
  <2>3. path \cap P \in SUBSET Streams
    OBVIOUS
  <2> DEFINE R == path \cap P
  <2>4. \A q \in Streams :
           /\ offer[q] = "relay" => offer'[q] = "relay" \/ q \in R
           /\ offer'[q] \in {"none", "negotiating", "port"} => offer[q] \in {"none", "negotiating", "port"}
           /\ Leaving(q) => Leaving(q)'
           /\ sub'[q] = "live" => sub[q] = "live"
           /\ q \in R => Leaving(q)' /\ offer'[q] \notin {"none", "negotiating", "port"}
           /\ (q \in path /\ q \notin R) <=> (q \in path' /\ q \notin R)
           /\ q \in path' => q \in path
    BY <2>1, <2>2
  <2>5. R \in SUBSET Streams /\ toRelay' = Append(toRelay, Line("revoke", R))
    BY <2>1, <2>3
  <2> HIDE DEF R
  <2> QED
    BY <1>2, <2>4, <2>5, RevokeKeepsLines
<1> QED
  BY <1>1, <1>2

\* What the endings of a stream, a source and a session do.
LEMMA EndWanes ==
  ASSUME StreamTypes, NEW C, NEW E, E \subseteq C, End(C, E)
  PROVE  /\ Wanes
         /\ \A q \in Streams : q \in C /\ sub[q] # "absent" => Leaving(q)'
         /\ \A q \in Streams : entry'[q] \in {entry[q], "removing"}
<1>1. src' = src /\ worker' = worker
  BY DEF End
<1>2. ASSUME NEW q \in Streams
      PROVE  /\ sub'[q] = sub[q] \/ (Registered(q) /\ sub'[q] \in {"closing", "gone"})
             /\ (sub'[q] = "gone" /\ sub[q] # "gone") => worker[src[q]] = "none"
             /\ (q \in C /\ sub[q] # "absent") => Leaving(q)'
  BY DEF End, Registered, Leaving, StreamTypes
<1>3. ASSUME NEW q \in Streams
      PROVE  entry'[q] = entry[q] \/ (entry'[q] = "removing" /\ Leaving(q)')
  BY DEF End, Registered, Leaving
<1> QED
  BY <1>1, <1>2, <1>3 DEF Wanes, Leaving

LEMMA CloseWanes ==
  ASSUME StreamTypes, NEW C, Close(C)
  PROVE  Wanes
<1>1. src' = src /\ entry' = entry
  BY DEF Close
<1>2. \A c \in Sources : worker[c] # "none" => worker'[c] # "none"
  BY DEF Close
<1>3. ASSUME NEW q \in Streams
      PROVE  /\ sub'[q] = sub[q] \/ (Registered(q) /\ sub'[q] \in {"closing", "gone"})
             /\ (sub'[q] = "gone" /\ sub[q] # "gone") => worker[src[q]] = "none"
  BY DEF Close, Registered
<1> QED
  BY <1>1, <1>2, <1>3 DEF Wanes

LEMMA StoppingWanes ==
  ASSUME StreamTypes, NEW T \in SUBSET Sessions, StopSessions(T)
  PROVE  /\ Wanes
         /\ \A q \in Streams : entry'[q] \in {entry[q], "removing"}
         /\ \A q \in Streams :
              SessionOf[q] \in T => sub'[q] \notin {"starting", "live"} \/ stops[SessionOf[q]] # {}
         /\ \A q \in Streams :
              (sub'[q] \in {"starting", "live"} /\ stops'[SessionOf[q]] # {}) => stops[SessionOf[q]] # {}
<1> DEFINE todo == {s \in T : stops[s] = {}}
           E == {p \in Streams : Registered(p) /\ SessionOf[p] \in todo}
<1>1. PICK held : End(E, E \ (held \cap E))
  BY DEF StopSessions, StopStreams
<1>2. /\ Wanes
      /\ \A q \in Streams : q \in E /\ sub[q] # "absent" => Leaving(q)'
      /\ \A q \in Streams : entry'[q] \in {entry[q], "removing"}
  <2>1. E \ (held \cap E) \subseteq E
    OBVIOUS
  <2> HIDE DEF E
  <2> QED
    BY <1>1, <2>1, EndWanes
<1>3. \A q \in Streams : SessionOf[q] \in todo => sub'[q] \notin {"starting", "live"}
  BY <1>2 DEF Wanes, Leaving, Registered
<1>4. \A s \in Sessions : stops'[s] # {} => stops[s] # {} \/ s \in todo
  BY DEF StopSessions
<1> QED
  BY <1>2, <1>3, <1>4, StreamsAssumption

\* What the relay told the server of a stream is on its offer or its subscription.
LEMMA ReceiptKeepsLines ==
  ASSUME StreamTypes, StreamInv, fromRelay # <<>>, fromRelay' = Tail(fromRelay),
         UNCHANGED <<relayUp, toRelay, registered>>,
         \A q \in Streams :
           /\ offer[q] = "relay" =>
                \/ offer'[q] = "relay"
                \/ ~Sending("allow", q) /\ (q \in path' \/ q \notin registered)
           /\ offer'[q] = "relay" => offer[q] = "relay"
           /\ offer'[q] \in {"none", "negotiating", "port"} => offer[q] \in {"none", "negotiating", "port"}
           /\ Leaving(q) => Leaving(q)'
           /\ sub'[q] = "live" => sub[q] = "live" \/ (Told("allowed", q) /\ sub[q] = "starting")
           /\ Head(fromRelay) = Line("expired", {q}) => Leaving(q)'
           /\ q \in path => q \in path'
           /\ q \in path' => q \in path \/ offer[q] = "relay"
  PROVE  DownInv' /\ \A p \in Streams : LinesInv(p)'
<1>1. DownInv'
  BY DEF StreamInv, DownInv
<1>2. ASSUME NEW p \in Streams  PROVE LinesInv(p)'
  <2>1. LinesInv(p)
    BY DEF StreamInv
  <2>2. /\ \A type : Told(type, p)' => Told(type, p)
        /\ Expiring(p)' => Expiring(p)
        /\ Expiring(p) => Expiring(p)' \/ Head(fromRelay) = Line("expired", {p})
    BY ToldTail
  <2>3. /\ \A type : Sending(type, p)' <=> Sending(type, p)
        /\ Ordered(p) => Ordered(p)'
    BY DEF Sending, Ordered
  <2>4. /\ offer[p] = "relay" =>
             \/ offer'[p] = "relay"
             \/ ~Sending("allow", p) /\ (p \in path' \/ p \notin registered)
        /\ offer'[p] \in {"none", "negotiating", "port"} => offer[p] \in {"none", "negotiating", "port"}
        /\ Leaving(p) => Leaving(p)'
        /\ sub'[p] = "live" => sub[p] = "live" \/ (Told("allowed", p) /\ sub[p] = "starting")
        /\ Head(fromRelay) = Line("expired", {p}) => Leaving(p)'
        /\ p \in path => p \in path'
        /\ p \in path' => p \in path \/ offer[p] = "relay"
        /\ registered' = registered
    OBVIOUS
  <2>5. ~(Leaving(p) /\ sub[p] = "starting") /\ ~(Leaving(p)' /\ sub'[p] = "live")
    BY DEF Leaving
  <2> QED
    BY <2>1, <2>2, <2>3, <2>4, <2>5 DEF LinesInv
<1> QED
  BY <1>1, <1>2

\* Steps that leave the offers and the relay alone, and the failure of an offer.
LEMMA WaningKeepsStreams ==
  ASSUME PeerInv, StreamInv, Wanes, UNCHANGED <<answered, offer, path>>, relayUp => relayUp',
         \A q \in Streams :
           (sub'[q] \in {"starting", "live"} /\ stops'[SessionOf[q]] # {}) => stops[SessionOf[q]] # {}
  PROVE  /\ \A p \in Streams : OfferInv(p)'
         /\ UNCHANGED <<toRelay, fromRelay, registered>> => StreamInv'
<1>1. Fades
  BY DEF Fades
<1>2. \A p \in Streams : OfferInv(p)'
  BY <1>1, FadingKeepsOffers DEF StreamInv
<1>3. ASSUME UNCHANGED <<toRelay, fromRelay, registered>>  PROVE StreamInv'
  <2>1. LinesStay
    BY <1>3 DEF LinesStay, Wanes, Leaving, Registered
  <2> QED
    BY <1>2, <2>1, LinesKept DEF StreamInv
<1> QED
  BY <1>2, <1>3

LEMMA FailureFades ==
  ASSUME StreamTypes, PeerInv, StreamInv, NEW p \in Streams, Fail(p), entry[p] # "negotiating",
         offer[p] \in {"negotiating", "port", "relay"},
         UNCHANGED <<stops, relayUp>>,
         \A q \in Streams : answered'[q] => answered[q] /\ q # p,
         path' = path \/ (path' = path \cup {p} /\ offer[p] = "relay")
  PROVE  /\ \A q \in Streams : OfferInv(q)'
         /\ Leaving(p)' /\ offer' = [offer EXCEPT ![p] = "ending"]
         /\ \A q \in Streams : Leaving(q) => Leaving(q)'
         /\ \A q \in Streams : sub'[q] = "live" => sub[q] = "live"
<1>1. sub[p] # "absent"
  BY DEF StreamInv, OfferInv
<1>2. /\ Wanes /\ Leaving(p)'
      /\ \A q \in Streams : entry'[q] \in {entry[q], "removing"}
  BY <1>1, EndWanes DEF Fail
<1>3. offer' = [offer EXCEPT ![p] = "ending"] /\ offer'[p] = "ending" /\ \A q \in Streams : q # p => offer'[q] = offer[q]
  BY DEF Fail, StreamTypes
<1>4. entry'[p] # "negotiating"
  BY <1>2
<1>5. Fades
  <2> SUFFICES ASSUME NEW q \in Streams
               PROVE /\ answered'[q] => (answered[q] /\ offer'[q] = offer[q])
                     /\ \/ offer'[q] = offer[q]
                        \/ offer[q] # "none" /\ offer'[q] = "ending" /\ Leaving(q)' /\ entry'[q] # "negotiating"
                        \/ offer[q] = "ending" /\ offer'[q] = "failed" /\ q \notin path'
                     /\ q \in path' => q \in path \/ (offer[q] = "relay" /\ offer'[q] = "ending")
                     /\ sub'[q] = "live" => (q \in path => q \in path') /\ (relayUp => relayUp')
                     /\ (sub'[q] \in {"starting", "live"} /\ stops'[SessionOf[q]] # {}) => stops[SessionOf[q]] # {}
    BY <1>2 DEF Fades
  <2> QED
    BY <1>2, <1>3, <1>4
<1>6. \A q \in Streams : OfferInv(q)'
  BY <1>5, FadingKeepsOffers DEF StreamInv
<1> QED
  BY <1>2, <1>3, <1>6 DEF Wanes, Leaving, Registered

\* Every step of the server, a worker or the relay keeps the streams and the relay in step.
LEMMA StreamsStep == StreamTypes /\ RegistryInv /\ StreamInv /\ [Next]_vars => StreamInv'
<1> SUFFICES ASSUME StreamTypes, RegistryInv, StreamInv, [Next]_vars PROVE StreamInv'
  OBVIOUS
<1>a. PeerInv /\ FreshInv /\ DownInv /\ \A p \in Streams : OfferInv(p) /\ LinesInv(p)
  BY DEF RegistryInv, StreamInv
<1>b. ASSUME LinesStay, \A p \in Streams : OfferInv(p)'  PROVE StreamInv'
  BY <1>b, LinesKept DEF StreamInv
<1>c. ASSUME Wanes, UNCHANGED <<answered, offer, stops, relayVars>>  PROVE StreamInv'
  BY <1>a, <1>c, WaningKeepsStreams DEF relayVars
<1>d. ASSUME NEW p \in Streams, End({p}, {p})  PROVE Wanes
  BY <1>d, EndWanes
<1>1. ASSUME NEW p \in Streams, Offer(p)  PROVE StreamInv'
  <2>1. /\ sub[p] = "absent" /\ sub' = [sub EXCEPT ![p] = "starting"] /\ stops[SessionOf[p]] = {}
        /\ offer' = [offer EXCEPT ![p] = "negotiating"]
        /\ UNCHANGED <<ready, answered, ends, leaseWait, closeWait, stops, hostVars, relayVars>>
    BY <1>1 DEF Offer, MayOffer
  <2>2. offer[p] = "none" /\ ~answered[p] /\ p \notin path
    BY <1>a, <2>1 DEF OfferInv, LinesInv
  <2>3. LinesStay
    BY <2>1, <2>2 DEF LinesStay, Leaving, relayVars, StreamTypes
  <2>4. PICK c \in Sources, e \in {"negotiating", "none"} :
          /\ src' = [src EXCEPT ![p] = c] /\ entry' = [entry EXCEPT ![p] = e]
          /\ \A d \in Sources : worker[d] # "none" => worker'[d] # "none"
    <3>1. CASE \E c \in Sources :
                 /\ src' = [src EXCEPT ![p] = c]
                 /\ entry' = [entry EXCEPT ![p] = IF worker[c] = "running" THEN "negotiating" ELSE "none"]
                 /\ worker' = worker
      BY <3>1
    <3>2. CASE \E c \in Sources, launched \in Launched :
                 /\ source[c] = "none"
                 /\ src' = [src EXCEPT ![p] = c]
                 /\ worker' = [worker EXCEPT ![c] = launched]
                 /\ entry' = [entry EXCEPT ![p] = IF launched = "running" THEN "negotiating" ELSE "none"]
      BY <1>a, <3>2, ZenonT(30) DEF FreshInv, StreamTypes
    <3> QED
      BY <1>1, <3>1, <3>2 DEF Offer, Shareable
  <2>5. ASSUME NEW q \in Streams  PROVE OfferInv(q)'
    <3>1. CASE q = p
      BY <2>1, <2>2, <2>4, <3>1 DEF OfferInv, Registered, relayVars, StreamTypes
    <3>2. CASE q # p
      <4>1. /\ src'[q] = src[q] /\ entry'[q] = entry[q] /\ sub'[q] = sub[q] /\ offer'[q] = offer[q]
            /\ src[q] \in Sources \/ sub[q] = "absent"
        BY <1>a, <2>1, <2>4, <3>2 DEF PeerInv, StreamTypes
      <4>2. OfferInv(q) /\ (sub[q] = "absent" => q \notin path)
        BY <1>a DEF OfferInv, LinesInv
      <4> QED
        BY <2>1, <2>4, <4>1, <4>2 DEF OfferInv, Registered, relayVars
    <3> QED
      BY <3>1, <3>2
  <2> QED
    BY <1>b, <2>3, <2>5
<1>2. ASSUME NEW p \in Streams, OfferSettles(p)  PROVE StreamInv'
  <2>1. /\ offer[p] = "negotiating" /\ entry[p] # "negotiating"
        /\ answered' = [answered EXCEPT ![p] = FALSE] /\ UNCHANGED <<stops, relayVars>>
        /\ \/ /\ answered[p] /\ offer' = [offer EXCEPT ![p] = "port"]
              /\ UNCHANGED <<registryVars, processVars>>
           \/ Fail(p)
    BY <1>2 DEF OfferSettles, Settled
  <2>2. \A q \in Streams : answered'[q] => answered[q] /\ q # p
    BY <2>1 DEF StreamTypes
  <2>3. CASE Fail(p)
    <3>1. /\ \A q \in Streams : OfferInv(q)'
          /\ Leaving(p)' /\ offer' = [offer EXCEPT ![p] = "ending"]
          /\ \A q \in Streams : Leaving(q) => Leaving(q)'
          /\ \A q \in Streams : sub'[q] = "live" => sub[q] = "live"
      BY <1>a, <2>1, <2>2, <2>3, FailureFades DEF relayVars
    <3>2. LinesStay
      BY <2>1, <3>1 DEF LinesStay, relayVars, StreamTypes
    <3> QED
      BY <1>b, <3>1, <3>2
  <2>4. CASE /\ answered[p] /\ offer' = [offer EXCEPT ![p] = "port"]
             /\ UNCHANGED <<registryVars, processVars>>
    <3>1. LinesStay
      BY <2>1, <2>4 DEF LinesStay, Leaving, registryVars, relayVars, StreamTypes
    <3>2. ASSUME NEW q \in Streams  PROVE OfferInv(q)'
      <4>1. CASE q = p
        BY <1>a, <2>1, <2>4, <4>1 DEF OfferInv, Registered, registryVars, processVars, relayVars, StreamTypes
      <4>2. CASE q # p
        <5>1. answered'[q] = answered[q] /\ offer'[q] = offer[q]
          BY <2>1, <2>4, <4>2 DEF StreamTypes
        <5> QED
          BY <1>a, <2>1, <2>4, <5>1 DEF OfferInv, Registered, registryVars, processVars, relayVars
      <4> QED
        BY <4>1, <4>2
    <3> QED
      BY <1>b, <3>1, <3>2
  <2> QED
    BY <2>1, <2>3, <2>4
<1>3. ASSUME NEW p \in Streams, Allow(p)  PROVE StreamInv'
  <2>1. /\ offer[p] = "port" /\ UNCHANGED <<answered, stops, relayUp, fromRelay, registered, path>>
        /\ \/ /\ relayUp /\ offer' = [offer EXCEPT ![p] = "relay"]
              /\ toRelay' = Append(toRelay, Line("allow", {p})) /\ UNCHANGED <<registryVars, processVars>>
           \/ Fail(p) /\ UNCHANGED toRelay
    BY <1>3 DEF Allow
  <2>2. entry[p] # "negotiating" /\ ~answered[p]
    BY <1>a, <2>1 DEF OfferInv
  <2>3. CASE Fail(p) /\ UNCHANGED toRelay
    <3>0. \A q \in Streams : answered'[q] => answered[q] /\ q # p
      BY <2>1, <2>2
    <3>1. /\ \A q \in Streams : OfferInv(q)'
          /\ Leaving(p)' /\ offer' = [offer EXCEPT ![p] = "ending"]
          /\ \A q \in Streams : Leaving(q) => Leaving(q)'
          /\ \A q \in Streams : sub'[q] = "live" => sub[q] = "live"
      BY <1>a, <2>1, <2>2, <2>3, <3>0, FailureFades
    <3>2. LinesStay
      BY <2>1, <2>3, <3>1 DEF LinesStay, StreamTypes
    <3> QED
      BY <1>b, <3>1, <3>2
  <2>4. CASE /\ relayUp /\ offer' = [offer EXCEPT ![p] = "relay"]
             /\ toRelay' = Append(toRelay, Line("allow", {p})) /\ UNCHANGED <<registryVars, processVars>>
    <3>0. Line("allow", {p}) \in LineTo /\ Line("allow", {p}).type = "allow" /\ Line("allow", {p}).streams = {p}
      BY DEF Line, LineTo
    <3>1. PICK m \in LineTo : m = Line("allow", {p}) /\ m.type = "allow" /\ m.streams = {p}
      BY <3>0
    <3>2. /\ offer'[p] = "relay" /\ \A q \in Streams : q # p => offer'[q] = offer[q]
          /\ UNCHANGED <<sub, src, worker, entry>>
      BY <2>4 DEF registryVars, processVars, StreamTypes
    <3>3. DownInv'
      BY <2>1, <2>4 DEF DownInv
    <3>4. ASSUME NEW q \in Streams  PROVE OfferInv(q)'
      <4>1. CASE q = p
        BY <1>a, <2>1, <3>2, <4>1 DEF OfferInv, Registered
      <4>2. CASE q # p
        BY <1>a, <2>1, <3>2, <4>2 DEF OfferInv, Registered
      <4> QED
        BY <4>1, <4>2
    <3>5. ASSUME NEW q \in Streams  PROVE LinesInv(q)'
      <4>1. LinesInv(q) /\ Ordered(q)
        BY <1>a DEF LinesInv
      <4>2. q = p => ~Sending("allow", q) /\ ~Sending("revoke", q)
        BY <2>1, <4>1 DEF LinesInv
      <4>3. /\ \A type : Sending(type, q)' <=> (Sending(type, q) \/ (type = "allow" /\ q = p))
            /\ Ordered(q)'
        <5>1. toRelay' = Append(toRelay, m)
          BY <2>4, <3>1
        <5>2. (m.type = "allow" /\ q \in m.streams) => (~Sending("allow", q) /\ ~Sending("revoke", q))
          BY <3>1, <4>2
        <5>3. /\ \A type : Sending(type, q)' <=> (Sending(type, q) \/ (m.type = type /\ q \in m.streams))
              /\ Ordered(q)'
          BY <4>1, <5>1, <5>2, SendingAppend
        <5> QED
          BY <3>1, <5>3
      <4>4. /\ \A type : Told(type, q)' <=> Told(type, q)
            /\ Expiring(q)' <=> Expiring(q)
        BY <2>1 DEF Told, Expiring, Line
      <4>5. Leaving(q)' <=> Leaving(q)
        BY <3>2 DEF Leaving
      <4>6. CASE q = p
        BY <2>1, <3>2, <4>1, <4>2, <4>3, <4>4, <4>5, <4>6 DEF LinesInv
      <4>7. CASE q # p
        BY <2>1, <3>2, <4>1, <4>3, <4>4, <4>5, <4>7 DEF LinesInv
      <4> QED
        BY <4>6, <4>7
    <3> QED
      BY <3>3, <3>4, <3>5 DEF StreamInv
  <2> QED
    BY <2>1, <2>3, <2>4
<1>4. ASSUME NEW p \in Streams, AllowTimeout(p)  PROVE StreamInv'
  <2>1. /\ offer[p] = "relay" /\ Fail(p) /\ toRelay' = Append(toRelay, Line("revoke", {p}))
        /\ UNCHANGED <<answered, stops, relayUp, fromRelay, registered, path>>
    BY <1>4 DEF AllowTimeout
  <2>2. entry[p] # "negotiating" /\ ~answered[p] /\ relayUp
    BY <1>a, <2>1 DEF OfferInv, DownInv
  <2>3. \A q \in Streams : answered'[q] => answered[q] /\ q # p
    BY <2>1, <2>2
  <2>4. /\ \A q \in Streams : OfferInv(q)'
        /\ Leaving(p)' /\ offer' = [offer EXCEPT ![p] = "ending"]
        /\ \A q \in Streams : Leaving(q) => Leaving(q)'
        /\ \A q \in Streams : sub'[q] = "live" => sub[q] = "live"
    BY <1>a, <2>1, <2>2, <2>3, FailureFades
  <2>5. \A q \in Streams :
           /\ offer[q] = "relay" => offer'[q] = "relay" \/ q \in {p}
           /\ offer'[q] \in {"none", "negotiating", "port"} => offer[q] \in {"none", "negotiating", "port"}
           /\ Leaving(q) => Leaving(q)'
           /\ sub'[q] = "live" => sub[q] = "live"
           /\ q \in {p} => Leaving(q)' /\ offer'[q] \notin {"none", "negotiating", "port"}
           /\ (q \in path /\ q \notin {p}) <=> (q \in path' /\ q \notin {p})
           /\ q \in path' => q \in path
    BY <2>1, <2>4 DEF StreamTypes
  <2>6. {p} \in SUBSET Streams
    OBVIOUS
  <2> QED
    BY <2>1, <2>2, <2>4, <2>5, <2>6, RevokeKeepsLines DEF StreamInv
<1>5. ASSUME NEW p \in Streams, OfferFails(p)  PROVE StreamInv'
  <2>1. /\ offer[p] = "ending" /\ sub[p] = "gone" /\ offer' = [offer EXCEPT ![p] = "failed"] /\ Forget({p})
        /\ UNCHANGED <<sub, src, worker, entry, answered, stops, relayUp, fromRelay, registered>>
    BY <1>5 DEF OfferFails, registryVars, workerVars, processVars
  <2>2. path' = path \ {p}
    BY <2>1 DEF Forget
  <2>3. \A q \in Streams : offer'[q] = IF q = p THEN "failed" ELSE offer[q]
    BY <2>1 DEF StreamTypes
  <2>4. Wanes
    BY <2>1 DEF Wanes
  <2>5. ~answered[p]
    BY <1>a, <2>1 DEF OfferInv
  <2>6. Fades
    BY <2>1, <2>2, <2>3, <2>4, <2>5 DEF Fades
  <2>7. \A q \in Streams : OfferInv(q)'
    BY <1>a, <2>6, FadingKeepsOffers
  <2>8. \A q \in Streams :
          /\ (offer[q] = "relay") <=> (offer'[q] = "relay")
          /\ offer'[q] \in {"none", "negotiating", "port"} => offer[q] \in {"none", "negotiating", "port"}
          /\ Leaving(q) => Leaving(q)'
          /\ sub'[q] = "live" => sub[q] = "live"
          /\ q \in {p} => Leaving(q)'
    BY <2>1, <2>3 DEF Leaving
  <2>9. {p} \in SUBSET Streams
    OBVIOUS
  <2> QED
    BY <2>1, <2>7, <2>8, <2>9, ForgetKeepsLines DEF StreamInv
<1>6. ASSUME NEW p \in Streams, StopStream(p)  PROVE StreamInv'
  <2>1. PICK held : End({p}, {p} \ (held \cap {p}))
    BY <1>6 DEF StopStream, StopStreams
  <2>2. Wanes
    BY <2>1, EndWanes
  <2> QED
    BY <1>6, <1>c, <2>2 DEF StopStream
<1>7. ASSUME NEW p \in Streams, StopAfterLease(p)  PROVE StreamInv'
  BY <1>7, <1>c, <1>d DEF StopAfterLease
<1>8. ASSUME NEW p \in Streams, Answer(p)  PROVE StreamInv'
  <2>1. /\ entry[p] = "negotiating" /\ entry' = [entry EXCEPT ![p] = "live"]
        /\ answered' = [answered EXCEPT ![p] = TRUE]
        /\ UNCHANGED <<sub, src, worker, offer, stops, relayVars>>
    BY <1>8 DEF Answer, registryVars, callVars
  <2>2. LinesStay
    BY <2>1 DEF LinesStay, Leaving, relayVars
  <2>3. offer[p] = "negotiating" /\ worker[src[p]] # "none"
    BY <1>a, <2>1 DEF OfferInv, PeerInv, HasWorker
  <2>4. ASSUME NEW q \in Streams  PROVE OfferInv(q)'
    <3>1. CASE q = p
      BY <1>a, <2>1, <2>3, <3>1 DEF OfferInv, Registered, relayVars, StreamTypes
    <3>2. CASE q # p
      <4>1. entry'[q] = entry[q] /\ answered'[q] = answered[q]
        BY <2>1, <3>2 DEF StreamTypes
      <4> QED
        BY <1>a, <2>1, <4>1 DEF OfferInv, Registered, relayVars
    <3> QED
      BY <3>1, <3>2
  <2> QED
    BY <1>b, <2>2, <2>4
<1>9. ASSUME NEW p \in Streams, NEW e \in {"none", "removing"}, entry[p] # "live",
             entry' = [entry EXCEPT ![p] = e],
             UNCHANGED <<sub, src, worker, answered, offer, stops, relayVars>>
      PROVE  StreamInv'
  <2>1. Wanes
    BY <1>9 DEF Wanes, StreamTypes
  <2> QED
    BY <1>9, <1>c, <2>1
<1>10. ASSUME NEW p \in Streams, PeerFailed(p)  PROVE StreamInv'
  <2>1. CASE End({p}, {p})
    BY <1>10, <1>c, <1>d, <2>1 DEF PeerFailed
  <2>2. CASE entry[p] = "negotiating" /\ entry' = [entry EXCEPT ![p] = "none"] /\ UNCHANGED <<registryVars, worker>>
    <3>1. entry[p] # "live"
      BY <2>2
    <3> QED
      BY <1>9, <1>10, <2>2, <3>1 DEF PeerFailed, registryVars
  <2> QED
    BY <1>10, <2>1, <2>2 DEF PeerFailed
<1>11. ASSUME NEW p \in Streams, NegotiationTimeout(p)  PROVE StreamInv'
  <2>1. PICK e \in {"none", "removing"} : entry' = [entry EXCEPT ![p] = e]
    BY <1>11 DEF NegotiationTimeout
  <2>2. entry[p] # "live" /\ UNCHANGED <<sub, src, worker, answered, offer, stops, relayVars>>
    BY <1>11 DEF NegotiationTimeout, registryVars, callVars
  <2> QED
    BY <1>9, <2>1, <2>2
<1>12. ASSUME NEW p \in Streams, PeerClosed(p)  PROVE StreamInv'
  <2>1. /\ entry[p] = "removing" /\ entry' = [entry EXCEPT ![p] = "none"]
        /\ UNCHANGED <<src, answered, offer, stops, relayUp, fromRelay, registered>>
    BY <1>12 DEF PeerClosed
  <2>2. CASE UNCHANGED <<sub, source, worker, ends, path, toRelay>>
    <3>1. entry[p] # "live"
      BY <2>1
    <3> QED
      BY <1>9, <2>1, <2>2, <3>1 DEF relayVars
  <2>3. CASE Unsubscribe(p)
    <3>1. /\ sub' = [sub EXCEPT ![p] = "gone"] /\ Forget({p})
          /\ \A c \in Sources : worker[c] # "none" => worker'[c] # "none"
      BY <2>3 DEF Unsubscribe, StreamTypes
    <3>2. path' = path \ {p} /\ sub[p] # "absent"
      BY <1>a, <2>1, <3>1 DEF Forget, PeerInv
    <3>3. \A q \in Streams : sub'[q] = IF q = p THEN "gone" ELSE sub[q]
      BY <3>1 DEF StreamTypes
    <3>4. \A q \in Streams : entry'[q] = IF q = p THEN "none" ELSE entry[q]
      BY <2>1 DEF StreamTypes
    <3>5. sub[p] = "gone" \/ Registered(p)
      BY <3>2 DEF StreamTypes, Registered
    <3>6. Wanes
      BY <2>1, <3>1, <3>2, <3>3, <3>4, <3>5 DEF Wanes
    <3>7. Fades
      BY <2>1, <3>2, <3>3, <3>6 DEF Fades
    <3>8. \A q \in Streams : OfferInv(q)'
      BY <1>a, <3>7, FadingKeepsOffers
    <3>9. \A q \in Streams :
            /\ (offer[q] = "relay") <=> (offer'[q] = "relay")
            /\ offer'[q] \in {"none", "negotiating", "port"} => offer[q] \in {"none", "negotiating", "port"}
            /\ Leaving(q) => Leaving(q)'
            /\ sub'[q] = "live" => sub[q] = "live"
            /\ q \in {p} => Leaving(q)'
      BY <2>1, <3>3 DEF Leaving
    <3>10. {p} \in SUBSET Streams
      OBVIOUS
    <3> QED
      BY <2>1, <3>1, <3>8, <3>9, <3>10, ForgetKeepsLines DEF StreamInv
  <2> QED
    BY <1>12, <2>2, <2>3 DEF PeerClosed
<1>13. ASSUME NEW p \in Streams, RemovalTimeout(p)  PROVE StreamInv'
  <2>1. Wanes
    BY <1>13 DEF RemovalTimeout, Wanes, registryVars, StreamTypes
  <2> QED
    BY <1>13, <1>c, <2>1 DEF RemovalTimeout, callVars
<1>14. ASSUME NEW s \in Sessions, Disconnect(s)  PROVE StreamInv'
  <2>1. {s} \in SUBSET Sessions /\ StopSessions({s}) /\ UNCHANGED <<answered, offer, relayVars>>
    BY <1>14 DEF Disconnect
  <2> QED
    BY <1>a, <2>1, StoppingWanes, WaningKeepsStreams DEF relayVars
<1>15. ASSUME Shutdown  PROVE StreamInv'
  <2>1. StopSessions(Sessions) /\ UNCHANGED <<answered, offer, relayVars>>
    BY <1>15 DEF Shutdown
  <2> QED
    BY <1>a, <2>1, StoppingWanes, WaningKeepsStreams DEF relayVars
<1>16. ASSUME NEW s \in Sessions, SessionStopped(s)  PROVE StreamInv'
  <2>1. /\ UNCHANGED <<sub, src, worker, entry, answered, offer, relayVars>>
        /\ stops' = [stops EXCEPT ![s] = {}]
    BY <1>16 DEF SessionStopped, registryVars, workerVars, processVars
  <2>2. Wanes
    BY <2>1 DEF Wanes
  <2>3. \A q \in Streams : stops'[SessionOf[q]] # {} => stops[SessionOf[q]] # {}
    BY <2>1, StreamsAssumption DEF StreamTypes
  <2> QED
    BY <1>a, <2>1, <2>2, <2>3, WaningKeepsStreams DEF relayVars
<1>17. ASSUME NEW c \in Sources, CloseAfterLease(c)  PROVE StreamInv'
  <2>1. Wanes
    BY <1>17, CloseWanes DEF CloseAfterLease
  <2>2. UNCHANGED <<answered, offer, stops, relayVars>>
    BY <1>17 DEF CloseAfterLease, Close
  <2> QED
    BY <1>c, <2>1, <2>2
<1>18. ASSUME NEW keys, DisplaysChange(keys)  PROVE StreamInv'
  <2>1. PICK C : Close(C)
    BY <1>18 DEF DisplaysChange
  <2>2. Wanes
    BY <2>1, CloseWanes
  <2>3. UNCHANGED <<answered, offer, stops, relayVars>>
    BY <1>18, <2>1 DEF DisplaysChange, Close
  <2> QED
    BY <1>c, <2>2, <2>3
<1>19. ASSUME NEW c \in Sources, WorkerReady(c)  PROVE StreamInv'
  <2>1. UNCHANGED <<sub, src, worker, entry, answered, offer, stops, relayVars>>
    BY <1>19 DEF WorkerReady, callVars
  <2> QED
    BY <1>c, <2>1 DEF Wanes
<1>20. ASSUME NEW c \in Sources, WorkerExit(c)  PROVE StreamInv'
  <2> DEFINE those == Subscriptions(c)
  <2>1. /\ UNCHANGED <<src, answered, offer, stops, relayUp, fromRelay, registered>>
        /\ Forget(those) /\ those \in SUBSET Streams
    BY <1>20 DEF WorkerExit, Subscriptions
  <2>2. \A q \in Streams : /\ sub'[q] = IF q \in those THEN "gone" ELSE sub[q]
                           /\ entry'[q] = IF src[q] = c THEN "none" ELSE entry[q]
    BY <1>20 DEF WorkerExit
  <2>3. \A d \in Sources : worker[d] # "none" => worker'[d] # "none"
    BY <1>20 DEF WorkerExit, StreamTypes
  <2>4. \A q \in Streams : /\ q \in those => Registered(q)
                           /\ (src[q] = c /\ Registered(q)) => q \in those
    BY DEF Subscriptions
  <2>5. path' = path \ those
    BY <2>1 DEF Forget
  <2> HIDE DEF those
  <2>6. Wanes
    <3>1. ASSUME NEW q \in Streams
          PROVE  /\ sub'[q] = sub[q] \/ (Registered(q) /\ sub'[q] \in {"closing", "gone"})
                 /\ (sub'[q] = "gone" /\ sub[q] # "gone") => q \notin path'
                 /\ entry[q] = "live" => (entry'[q] = "live" \/ sub'[q] \notin {"starting", "live"})
                 /\ entry'[q] = "negotiating" => entry[q] = "negotiating"
      <4>1. CASE q \in those
        <5>1. sub'[q] = "gone" /\ q \notin path' /\ entry'[q] \in {"none", entry[q]}
          BY <2>2, <2>5, <4>1
        <5>2. Registered(q)
          BY <2>4, <4>1
        <5> QED
          BY <5>1, <5>2
      <4>2. CASE q \notin those
        BY <2>2, <2>4, <4>2 DEF Registered
      <4> QED
        BY <4>1, <4>2
    <3> QED
      BY <2>1, <2>3, <3>1 DEF Wanes
  <2>7. Fades
    BY <2>1, <2>2, <2>5, <2>6 DEF Fades
  <2>8. \A q \in Streams : OfferInv(q)'
    BY <1>a, <2>7, FadingKeepsOffers
  <2>9. \A q \in Streams :
          /\ (offer[q] = "relay") <=> (offer'[q] = "relay")
          /\ offer'[q] \in {"none", "negotiating", "port"} => offer[q] \in {"none", "negotiating", "port"}
          /\ Leaving(q) => Leaving(q)'
          /\ sub'[q] = "live" => sub[q] = "live"
          /\ q \in those => Leaving(q)'
    BY <2>1, <2>2 DEF Leaving
  <2> QED
    BY <2>1, <2>8, <2>9, ForgetKeepsLines DEF StreamInv
<1>21. ASSUME ReceiveRelay  PROVE StreamInv'
  <2>1. /\ fromRelay # <<>> /\ fromRelay' = Tail(fromRelay)
        /\ UNCHANGED <<answered, stops, relayUp, toRelay, registered>>
    BY <1>21 DEF ReceiveRelay
  <2>2. Head(fromRelay) \in LineFrom /\ relayUp
    BY <1>a, <2>1, LinesTail DEF StreamTypes, DownInv
  <2>3. PICK p \in Head(fromRelay).streams :
          \/ Head(fromRelay).type = "allowed" /\ Allowed(p)
          \/ Head(fromRelay).type = "refused" /\ offer[p] = "relay" /\ Fail(p) /\ UNCHANGED path
          \/ Head(fromRelay).type = "expired" /\ PathExpired(p)
          \/ /\ Head(fromRelay).type \in {"allowed", "refused"}
             /\ UNCHANGED <<registryVars, processVars, offer, path>>
    BY <1>21 DEF ReceiveRelay
  <2>4. p \in Streams /\ Told(Head(fromRelay).type, p)
    BY <2>1, <2>2, <2>3, ToldTail DEF LineFrom
  <2>5. LinesInv(p) /\ OfferInv(p)
    BY <1>a, <2>4
  <2>6. \A q \in Streams : Head(fromRelay) = Line("expired", {q}) => Head(fromRelay).type = "expired" /\ p = q
    BY <2>3 DEF Line
  <2>7. ASSUME Fail(p), offer[p] = "relay", Head(fromRelay).type \in {"allowed", "refused"},
               \/ path' = path \cup {p}
               \/ path' = path /\ Told("refused", p)
        PROVE  StreamInv'
    <3>1. entry[p] # "negotiating" /\ ~answered[p] /\ ~Sending("allow", p)
      BY <2>4, <2>5, <2>7 DEF OfferInv, LinesInv
    <3>2. \A q \in Streams : answered'[q] => answered[q] /\ q # p
      BY <2>1, <3>1
    <3>3. path' = path \/ (path' = path \cup {p} /\ offer[p] = "relay")
      BY <2>7
    <3>4. /\ \A q \in Streams : OfferInv(q)'
          /\ Leaving(p)' /\ offer' = [offer EXCEPT ![p] = "ending"]
          /\ \A q \in Streams : Leaving(q) => Leaving(q)'
          /\ \A q \in Streams : sub'[q] = "live" => sub[q] = "live"
      BY <1>a, <2>1, <2>4, <2>7, <3>1, <3>2, <3>3, FailureFades
    <3>5. p \in path' \/ p \notin registered
      BY <2>5, <2>7 DEF LinesInv
    <3>6. \A q \in Streams : offer'[q] = IF q = p THEN "ending" ELSE offer[q]
      BY <3>4 DEF StreamTypes
    <3>7. \A q \in Streams :
           /\ offer[q] = "relay" =>
                \/ offer'[q] = "relay"
                \/ ~Sending("allow", q) /\ (q \in path' \/ q \notin registered)
           /\ offer'[q] = "relay" => offer[q] = "relay"
           /\ offer'[q] \in {"none", "negotiating", "port"} => offer[q] \in {"none", "negotiating", "port"}
           /\ Leaving(q) => Leaving(q)'
           /\ sub'[q] = "live" => sub[q] = "live" \/ (Told("allowed", q) /\ sub[q] = "starting")
           /\ Head(fromRelay) = Line("expired", {q}) => Leaving(q)'
           /\ q \in path => q \in path'
           /\ q \in path' => q \in path \/ offer[q] = "relay"
      BY <2>6, <2>7, <3>1, <3>3, <3>4, <3>5, <3>6
    <3> QED
      BY <2>1, <3>4, <3>7, ReceiptKeepsLines DEF StreamInv
  <2>8. CASE Head(fromRelay).type = "allowed" /\ Allowed(p)
    <3>1. offer[p] = "relay" /\ path' = path \cup {p}
      BY <2>8 DEF Allowed
    <3>2. CASE Fail(p)
      BY <2>7, <2>8, <3>1, <3>2
    <3>3. CASE /\ sub[p] = "starting" /\ sub' = [sub EXCEPT ![p] = "live"]
               /\ offer' = [offer EXCEPT ![p] = "answered"] /\ UNCHANGED <<src, source, creator, processVars>>
      <4>1. \A q \in Streams : /\ offer'[q] = IF q = p THEN "answered" ELSE offer[q]
                               /\ sub'[q] = IF q = p THEN "live" ELSE sub[q]
        BY <3>3 DEF StreamTypes
      <4>2. ~Sending("allow", p) /\ Told("allowed", p) /\ ~answered[p]
        BY <2>4, <2>5, <2>8, <3>1 DEF LinesInv, OfferInv
      <4>3. \A q \in Streams :
             /\ offer[q] = "relay" =>
                  \/ offer'[q] = "relay"
                  \/ ~Sending("allow", q) /\ (q \in path' \/ q \notin registered)
             /\ offer'[q] = "relay" => offer[q] = "relay"
             /\ offer'[q] \in {"none", "negotiating", "port"} => offer[q] \in {"none", "negotiating", "port"}
             /\ Leaving(q) => Leaving(q)'
             /\ sub'[q] = "live" => sub[q] = "live" \/ (Told("allowed", q) /\ sub[q] = "starting")
             /\ Head(fromRelay) = Line("expired", {q}) => Leaving(q)'
             /\ q \in path => q \in path'
             /\ q \in path' => q \in path \/ offer[q] = "relay"
        BY <2>6, <2>8, <3>1, <3>3, <4>1, <4>2 DEF Leaving
      <4>4. ASSUME NEW q \in Streams  PROVE OfferInv(q)'
        <5>1. CASE q = p
          BY <2>1, <2>2, <2>5, <3>1, <3>3, <4>1, <4>2, <5>1 DEF OfferInv, Registered, processVars
        <5>2. CASE q # p
          BY <1>a, <2>1, <3>1, <3>3, <4>1, <5>2 DEF OfferInv, Registered, processVars
        <5> QED
          BY <5>1, <5>2
      <4> QED
        BY <2>1, <4>3, <4>4, ReceiptKeepsLines DEF StreamInv
    <3> QED
      BY <2>8, <3>2, <3>3 DEF Allowed
  <2>9. CASE Head(fromRelay).type = "refused" /\ offer[p] = "relay" /\ Fail(p) /\ UNCHANGED path
    BY <2>4, <2>7, <2>9
  <2>10. ASSUME Wanes, UNCHANGED <<offer, path>>, Head(fromRelay).type = "expired" => Leaving(p)'  PROVE StreamInv'
    <3>1. \A q \in Streams : OfferInv(q)'
      BY <1>a, <2>1, <2>10, WaningKeepsStreams
    <3>2. \A q \in Streams :
           /\ Leaving(q) => Leaving(q)'
           /\ sub'[q] = "live" => sub[q] = "live"
      BY <2>10 DEF Wanes, Leaving, Registered
    <3>3. \A q \in Streams : Head(fromRelay) = Line("expired", {q}) => Leaving(q)'
      BY <2>6, <2>10
    <3> QED
      BY <2>1, <2>10, <3>1, <3>2, <3>3, ReceiptKeepsLines DEF StreamInv
  <2>11. CASE Head(fromRelay).type = "expired" /\ PathExpired(p)
    <3>1. sub[p] # "absent"
      BY <2>4, <2>5, <2>11 DEF OfferInv, LinesInv
    <3>2. Wanes /\ Leaving(p)' /\ UNCHANGED <<offer, path>>
      BY <2>4, <2>11, <3>1, EndWanes DEF PathExpired
    <3> QED
      BY <2>10, <3>2
  <2>12. CASE /\ Head(fromRelay).type \in {"allowed", "refused"}
              /\ UNCHANGED <<registryVars, processVars, offer, path>>
    <3>1. Wanes
      BY <2>12 DEF Wanes, registryVars, processVars
    <3> QED
      BY <2>10, <2>12, <3>1
  <2> QED
    BY <2>3, <2>8, <2>9, <2>11, <2>12
<1>22. ASSUME UNCHANGED <<sub, src, worker, entry, answered, offer, stops, relayUp, path>>,
              DownInv', \A p \in Streams : LinesInv(p)'
       PROVE  StreamInv'
  <2>1. Wanes
    BY <1>22 DEF Wanes
  <2> QED
    BY <1>a, <1>22, <2>1, WaningKeepsStreams DEF StreamInv
<1>23. ASSUME NEW p \in Streams, RelayExpires(p)  PROVE StreamInv'
  <2>1. /\ p \in registered /\ registered' = registered \ {p}
        /\ fromRelay' = Append(fromRelay, Line("expired", {p}))
        /\ UNCHANGED <<sub, src, worker, entry, answered, offer, stops, relayUp, toRelay, path>>
    BY <1>23 DEF RelayExpires, registryVars, workerVars, processVars, callVars
  <2>2. DownInv'
    BY <1>a, <2>1 DEF DownInv
  <2>3. Line("expired", {p}) \in LineFrom /\ Line("expired", {p}).type = "expired" /\ Line("expired", {p}).streams = {p}
    BY DEF Line, LineFrom
  <2>4. PICK m \in LineFrom : m = Line("expired", {p}) /\ m.type = "expired" /\ m.streams = {p}
    BY <2>3
  <2>5. ASSUME NEW q \in Streams  PROVE LinesInv(q)'
    <3>1. /\ \A type : Told(type, q)' <=> (Told(type, q) \/ (type = "expired" /\ q = p))
          /\ Expiring(q)' <=> (Expiring(q) \/ m = Line("expired", {q}))
      BY <2>1, <2>4, ToldAppend
    <3>2. q = p => Expiring(q)'
      BY <2>4, <3>1
    <3>3. /\ \A type : Sending(type, q)' <=> Sending(type, q)
          /\ Ordered(q) => Ordered(q)'
          /\ Leaving(q)' <=> Leaving(q)
      BY <2>1 DEF Sending, Ordered, Leaving
    <3>4. LinesInv(q)
      BY <1>a
    <3> QED
      BY <2>1, <3>1, <3>2, <3>3, <3>4 DEF LinesInv
  <2> QED
    BY <1>22, <2>1, <2>2, <2>5
<1>24. ASSUME RelayReads  PROVE StreamInv'
  <2>1. /\ toRelay # <<>> /\ toRelay' = Tail(toRelay)
        /\ UNCHANGED <<sub, src, worker, entry, answered, offer, stops, relayUp, path>>
    BY <1>24 DEF RelayReads, registryVars, workerVars, processVars, callVars
  <2>2. PICK m \in LineTo : m = Head(toRelay)
    BY <2>1, LinesTail DEF StreamTypes
  <2>3. relayUp /\ DownInv'
    BY <1>a, <2>1 DEF DownInv
  <2>4. ASSUME NEW q \in Streams
        PROVE  /\ \A type : Sending(type, q)' => Sending(type, q)
               /\ \A type : Sending(type, q) => (Sending(type, q)' \/ (m.type = type /\ q \in m.streams))
               /\ q \in m.streams => Sending(m.type, q) /\ ~Sending("allow", q)'
               /\ Ordered(q)'
    BY <1>a, <2>1, <2>2, SendingTail DEF LinesInv
  <2>5. ASSUME fromRelay' = fromRelay, registered' = registered \ m.streams, m.type = "revoke"  PROVE StreamInv'
    <3>1. ASSUME NEW q \in Streams  PROVE LinesInv(q)'
      <4>1. /\ \A type : Told(type, q)' <=> Told(type, q)
            /\ Expiring(q)' <=> Expiring(q)
            /\ Leaving(q)' <=> Leaving(q)
        BY <2>1, <2>5 DEF Told, Expiring, Leaving, Line
      <4>2. LinesInv(q) /\ ~(Leaving(q) /\ sub[q] = "live")
        BY <1>a DEF Leaving
      <4> QED
        BY <2>1, <2>4, <2>5, <4>1, <4>2 DEF LinesInv
    <3> QED
      BY <1>22, <2>1, <2>3, <3>1
  <2>6. ASSUME NEW type \in {"allowed", "refused"}, m.type = "allow",
               fromRelay' = Append(fromRelay, [m EXCEPT !.type = type]),
               registered' = IF type = "allowed" THEN registered \cup m.streams ELSE registered
        PROVE  StreamInv'
    <3>1. [m EXCEPT !.type = type] \in LineFrom /\ [m EXCEPT !.type = type].type = type
          /\ [m EXCEPT !.type = type].streams = m.streams
      BY DEF LineTo, LineFrom
    <3>2. PICK a \in LineFrom : a = [m EXCEPT !.type = type] /\ a.type = type /\ a.streams = m.streams
      BY <3>1
    <3>3. fromRelay' = Append(fromRelay, a)
      BY <2>6, <3>2
    <3>4. ASSUME NEW q \in Streams  PROVE LinesInv(q)'
      <4>1. /\ \A t : Told(t, q)' <=> (Told(t, q) \/ (t = type /\ q \in m.streams))
            /\ Expiring(q)' <=> (Expiring(q) \/ a = Line("expired", {q}))
        BY <3>2, <3>3, ToldAppend
      <4>2. a # Line("expired", {q})
        BY <3>2 DEF Line
      <4>3. Leaving(q)' <=> Leaving(q)
        BY <2>1 DEF Leaving
      <4>4. LinesInv(q)
        BY <1>a
      <4>5. q \in m.streams => Sending("allow", q)
        BY <2>4, <2>6
      <4>6. CASE q \in m.streams
        BY <2>1, <2>4, <2>6, <4>1, <4>2, <4>3, <4>4, <4>5, <4>6 DEF LinesInv
      <4>7. CASE q \notin m.streams
        BY <2>1, <2>4, <2>6, <4>1, <4>2, <4>3, <4>4, <4>7 DEF LinesInv
      <4> QED
        BY <4>6, <4>7
    <3> QED
      BY <1>22, <2>1, <2>3, <3>4
  <2>7. \/ m.type = "revoke" /\ registered' = registered \ m.streams /\ fromRelay' = fromRelay
        \/ /\ m.type = "allow" /\ registered' = registered \cup m.streams
           /\ fromRelay' = Append(fromRelay, [m EXCEPT !.type = "allowed"])
        \/ /\ m.type = "allow" /\ registered' = registered
           /\ fromRelay' = Append(fromRelay, [m EXCEPT !.type = "refused"])
    BY <1>24, <2>2 DEF RelayReads
  <2>8. CASE m.type = "revoke" /\ registered' = registered \ m.streams /\ fromRelay' = fromRelay
    BY <2>5, <2>8
  <2>9. CASE /\ m.type = "allow" /\ registered' = registered \cup m.streams
             /\ fromRelay' = Append(fromRelay, [m EXCEPT !.type = "allowed"])
    BY <2>6, <2>9
  <2>10. CASE /\ m.type = "allow" /\ registered' = registered
              /\ fromRelay' = Append(fromRelay, [m EXCEPT !.type = "refused"])
    BY <2>6, <2>10
  <2> QED
    BY <2>7, <2>8, <2>9, <2>10
<1>25. ASSUME RelayExit  PROVE StreamInv'
  <2>1. /\ toRelay' = <<>> /\ fromRelay' = <<>> /\ registered' = {} /\ StopSessions(Sessions)
        /\ UNCHANGED <<answered, path>>
        /\ \A q \in Streams : offer'[q] = IF offer[q] = "relay" THEN "ending" ELSE offer[q]
    BY <1>25 DEF RelayExit
  <2>2. /\ Wanes
        /\ \A q \in Streams : entry'[q] \in {entry[q], "removing"}
        /\ \A q \in Streams : sub'[q] \notin {"starting", "live"} \/ stops[SessionOf[q]] # {}
        /\ \A q \in Streams :
             (sub'[q] \in {"starting", "live"} /\ stops'[SessionOf[q]] # {}) => stops[SessionOf[q]] # {}
    BY <2>1, StoppingWanes, StreamsAssumption
  <2>3. ASSUME NEW q \in Streams  PROVE sub'[q] \notin {"starting", "live"}
    BY <1>a, <2>2 DEF OfferInv, Wanes
  <2>4. ASSUME NEW q \in Streams, offer[q] = "relay"
        PROVE  Leaving(q)' /\ entry'[q] # "negotiating" /\ ~answered[q]
    <3>1. sub[q] # "absent" /\ entry[q] # "negotiating" /\ ~answered[q]
      BY <1>a, <2>4 DEF OfferInv
    <3>2. sub'[q] \in {"closing", "gone"}
      BY <2>2, <2>3, <3>1 DEF Wanes, StreamTypes
    <3> QED
      BY <2>2, <3>1, <3>2 DEF Leaving
  <2>5. Fades
    BY <2>1, <2>2, <2>3, <2>4 DEF Fades
  <2>6. \A q \in Streams : OfferInv(q)'
    BY <1>a, <2>5, FadingKeepsOffers
  <2>7. DownInv'
    BY <2>1 DEF DownInv
  <2>8. ASSUME NEW q \in Streams  PROVE LinesInv(q)'
    <3>1. /\ \A type : ~Sending(type, q)' /\ ~Told(type, q)'
          /\ Ordered(q)' /\ q \notin registered'
      BY <2>1 DEF Sending, Told, Ordered
    <3>2. offer'[q] \in {"none", "negotiating", "port"} => q \notin path'
      BY <1>a, <2>1 DEF LinesInv
    <3> QED
      BY <2>3, <3>1, <3>2 DEF LinesInv
  <2> QED
    BY <2>6, <2>7, <2>8 DEF StreamInv
<1>26. ASSUME RelayRestart  PROVE StreamInv'
  <2>1. /\ UNCHANGED <<sub, src, worker, entry, answered, offer, stops, path, toRelay, fromRelay, registered>>
        /\ relayUp' = TRUE
    BY <1>26 DEF RelayRestart, registryVars, workerVars, processVars, callVars
  <2>2. Wanes
    BY <2>1 DEF Wanes
  <2> QED
    BY <1>a, <2>1, <2>2, WaningKeepsStreams
<1>27. CASE UNCHANGED vars
  <2>1. UNCHANGED <<sub, src, worker, entry, answered, offer, stops, relayVars>>
    BY <1>27 DEF vars, registryVars, workerVars, processVars, callVars
  <2> QED
    BY <1>c, <2>1 DEF Wanes
<1> QED
  BY <1>1, <1>2, <1>3, <1>4, <1>5, <1>6, <1>7, <1>8, <1>10, <1>11, <1>12, <1>13, <1>14, <1>15, <1>16,
     <1>17, <1>18, <1>19, <1>20, <1>21, <1>23, <1>24, <1>25, <1>26, <1>27 DEF Next

\* A live stream can carry media and the relay keeps nothing of a stream that has ended, whatever
\* order the lines between them arrive in: stream_relay and streams_limits check it on two streams.
THEOREM RelayFollows == Spec => []RelayFollowsStreams
<1>1. Init => StreamInv
  <2> SUFFICES ASSUME Init PROVE StreamInv
    OBVIOUS
  <2>1. toRelay = <<>> /\ fromRelay = <<>> /\ registered = {} /\ path = {} /\ relayUp
    BY DEF Init
  <2>2. ASSUME NEW p \in Streams  PROVE LinesInv(p)
    <3>1. /\ \A type : ~Sending(type, p) /\ ~Told(type, p)
          /\ Ordered(p)
      BY <2>1 DEF Sending, Told, Ordered
    <3>2. sub[p] = "absent"
      BY DEF Init
    <3> QED
      BY <2>1, <3>1, <3>2 DEF LinesInv
  <2>3. ASSUME NEW p \in Streams  PROVE OfferInv(p)
    BY StreamsAssumption DEF Init, OfferInv
  <2> QED
    BY <2>1, <2>2, <2>3 DEF StreamInv, DownInv
<1>2. StreamTypes /\ RegistryInv /\ StreamInv => RelayFollowsStreams
  <2> SUFFICES ASSUME StreamTypes, RegistryInv, StreamInv PROVE RelayFollowsStreams
    OBVIOUS
  <2>1. LiveIsServed
    BY DEF RegistryInv, PeerInv, StreamInv, OfferInv, LinesInv, LiveIsServed, Expiring
  <2>2. ASSUME NEW p \in Streams, p \in registered
        PROVE  Registered(p) \/ offer[p] = "relay" \/ (offer[p] = "ending" /\ p \in path) \/ Sending("revoke", p)
    BY <2>2 DEF StreamInv, OfferInv, LinesInv
  <2>3. registered \subseteq Streams
    BY DEF StreamTypes
  <2>4. RegistrationIsOwned
    BY <2>2, <2>3 DEF RegistrationIsOwned, Sending
  <2> QED
    BY <2>1, <2>4 DEF RelayFollowsStreams
<1> QED
  BY <1>1, <1>2, RegistryHolds, StreamsStep, PTL DEF Spec

-----------------------------------------------------------------------------
(* The latency measurement.  What the server keeps is spoken of as values (ServerOk), so that the  *)
(* lazy settling before each method is a step of its own: from what is, to what is once whatever   *)
(* has ended or is overdue has its outcome (Now, Past).                                            *)

Measurement ==
  [id : Nat, stream : Watched, state : {"requested", "running"}, picked : BOOLEAN, late : BOOLEAN]

Outcome == [id : Nat, outcome : {"failed", "done"}]

\* A stream's history: outcomes of measurements so far, one each, and results only of those that were
\* measured.
HistoryOk(q, n, m) ==
  /\ q \in Seq(Outcome)
  /\ \A i \in DOMAIN q : q[i].id <= n /\ (q[i].outcome = "done" => q[i].id \in m)
  /\ \A i, j \in DOMAIN q : q[i].id = q[j].id => i = j

NotIn(q, i) == \A k \in DOMAIN q : q[k].id # i

\* The active measurement has no outcome.
ActiveOk(a, h, n) ==
  a # NoMeasure => a \in Measurement /\ a.id <= n /\ \A s \in Watched : NotIn(h[s], a.id)

HistoriesOk(h, n, m) == DOMAIN h = Watched /\ \A s \in Watched : HistoryOk(h[s], n, m)

ServerOk(a, h, n, m) == n \in Nat /\ HistoriesOk(h, n, m) /\ ActiveOk(a, h, n)

ServerHolds ==
  \A a \in {active}, h \in {kept}, n \in {made}, m \in {measured} : ServerOk(a, h, n, m)

\* Results are reported of runs that came to their end.
ReportsHold == \A post \in posts : post.state = "done" => post.id \in measured

LatencyInv == alive \subseteq Watched /\ ServerHolds /\ ReportsHold

\* The history with one outcome more, cut at its length.
LEMMA HistoryGrows ==
  ASSUME NEW q, NEW n \in Nat, NEW m, HistoryOk(q, n, m), NEW o \in Outcome, o.id <= n, NotIn(q, o.id),
         o.outcome = "done" => o.id \in m,
         NEW all, all = <<o>> \o q, NEW k \in Nat, k <= Len(all),
         NEW r, r = SubSeq(all, 1, k)
  PROVE  HistoryOk(r, n, m) /\ \A i \in DOMAIN r : r[i] = o \/ \E j \in DOMAIN q : r[i] = q[j]
<1>1. /\ q \in Seq(Outcome)
      /\ \A i \in DOMAIN q : q[i].id <= n /\ (q[i].outcome = "done" => q[i].id \in m)
      /\ \A i, j \in DOMAIN q : q[i].id = q[j].id => i = j
      /\ \A i \in DOMAIN q : q[i].id # o.id
  BY DEF HistoryOk, NotIn
<1>2. PICK t : t = <<o>>
  OBVIOUS
<1>3. t \in Seq(Outcome) /\ Len(t) = 1 /\ t[1] = o
  BY <1>2
<1>4. /\ all \in Seq(Outcome) /\ Len(all) = Len(t) + Len(q)
      /\ \A i \in 1..(Len(t) + Len(q)) : all[i] = IF i <= Len(t) THEN t[i] ELSE q[i - Len(t)]
  BY <1>1, <1>2, <1>3, ConcatProperties
<1>5. Len(q) \in Nat /\ DOMAIN q = 1..Len(q)
  BY <1>1, LenProperties
<1>6. \A i \in 1..(Len(q) + 1) : all[i] = IF i = 1 THEN o ELSE q[i - 1]
  BY <1>3, <1>4, <1>5
<1>7. Len(all) = Len(q) + 1
  BY <1>3, <1>4, <1>5
<1>8. \A i \in 1..k : all[i] \in Outcome
  <2>1. DOMAIN all = 1..Len(all)
    BY <1>4, LenProperties
  <2>2. \A i \in DOMAIN all : all[i] \in Outcome
    BY <1>4
  <2>3. \A i \in 1..k : i \in 1..Len(all)
    BY <1>5, <1>7
  <2>. QED BY <2>1, <2>2, <2>3
<1>9. /\ r \in Seq(Outcome) /\ Len(r) = k
      /\ \A i \in 1..k : r[i] = all[i]
  <2>1. /\ SubSeq(all, 1, k) \in Seq(Outcome)
        /\ Len(SubSeq(all, 1, k)) = IF 1 <= k THEN k - 1 + 1 ELSE 0
        /\ \A i \in 1..(k - 1 + 1) : SubSeq(all, 1, k)[i] = all[1 + i - 1]
    BY <1>8, SubSeqProperties
  <2>2. k - 1 + 1 = k /\ (IF 1 <= k THEN k - 1 + 1 ELSE 0) = k
    OBVIOUS
  <2>3. \A i \in 1..k : 1 + i - 1 = i
    OBVIOUS
  <2>. QED BY <2>1, <2>2, <2>3
<1>10. DOMAIN r = 1..k
  BY <1>9, LenProperties
<1>11. \A i \in 1..k : i \in 1..(Len(q) + 1) /\ (i # 1 => i - 1 \in DOMAIN q)
  BY <1>5, <1>7
<1>12. \A i \in 1..k : r[i] = IF i = 1 THEN o ELSE q[i - 1]
  BY <1>6, <1>9, <1>11
<1>13. \A i \in DOMAIN r : r[i].id <= n /\ (r[i].outcome = "done" => r[i].id \in m)
  BY <1>1, <1>10, <1>11, <1>12
<1>14. ASSUME NEW i \in DOMAIN r, NEW j \in DOMAIN r, r[i].id = r[j].id PROVE i = j
  <2>1. ASSUME NEW x \in DOMAIN r, x # 1 PROVE r[x].id # o.id
    <3>1. x - 1 \in DOMAIN q /\ r[x] = q[x - 1]
      BY <1>10, <1>11, <1>12, <2>1
    <3>. QED BY <1>1, <3>1
  <2>2. ASSUME NEW x \in DOMAIN r, x = 1 PROVE r[x] = o
    BY <1>10, <1>12, <2>2
  <2>3. i = 1 <=> j = 1
    BY <1>14, <2>1, <2>2
  <2>4. CASE i # 1 /\ j # 1
    <3>1. q[i - 1].id = q[j - 1].id /\ i - 1 \in DOMAIN q /\ j - 1 \in DOMAIN q
      BY <1>10, <1>11, <1>12, <1>14, <2>4
    <3>2. i - 1 = j - 1 /\ i \in Int /\ j \in Int
      BY <1>1, <1>10, <3>1
    <3>. QED BY <3>2
  <2>. QED BY <2>3, <2>4
<1>15. \A i \in DOMAIN r : r[i] = o \/ \E j \in DOMAIN q : r[i] = q[j]
  BY <1>10, <1>11, <1>12
<1>. QED BY <1>9, <1>13, <1>14, <1>15 DEF HistoryOk

\* The active measurement gets its outcome.
LEMMA FinishedHolds ==
  ASSUME NEW a, NEW h, NEW n, NEW m, ServerOk(a, h, n, m), a # NoMeasure,
         NEW outcome \in {"failed", "done"}, outcome = "done" => a.id \in m
  PROVE  ServerOk(NoMeasure, Finished(h, a, outcome), n, m)
<1>1. n \in Nat /\ DOMAIN h = Watched /\ \A s \in Watched : HistoryOk(h[s], n, m)
  BY DEF ServerOk, HistoriesOk
<1>2. a.id \in Nat /\ a.stream \in Watched /\ a.id <= n /\ NotIn(h[a.stream], a.id)
  BY DEF ServerOk, ActiveOk, Measurement
<1>3. PICK o : o = [id |-> a.id, outcome |-> outcome]
  OBVIOUS
<1>4. o \in Outcome /\ o.id = a.id /\ o.outcome = outcome
  BY <1>2, <1>3 DEF Outcome
<1>5. PICK q : q = h[a.stream]
  OBVIOUS
<1>6. q \in Seq(Outcome) /\ HistoryOk(q, n, m) /\ NotIn(q, o.id)
  BY <1>1, <1>2, <1>4, <1>5 DEF HistoryOk
<1>7. PICK all : all = <<o>> \o q
  OBVIOUS
<1>8. Len(all) \in Nat
  BY <1>4, <1>6, <1>7, ConcatProperties, LenProperties
<1>9. PICK k : k = IF Len(all) < Kept THEN Len(all) ELSE Kept
  OBVIOUS
<1>10. k \in Nat /\ k <= Len(all)
  BY <1>8, <1>9, LatencyAssumption
<1>11. PICK r : r = SubSeq(all, 1, k)
  OBVIOUS
<1>12. HistoryOk(r, n, m)
  BY <1>1, <1>2, <1>4, <1>6, <1>7, <1>10, <1>11, HistoryGrows
<1>13. PICK g : g = Finished(h, a, outcome)
  OBVIOUS
<1>14. g = [h EXCEPT ![a.stream] = r]
  BY <1>3, <1>5, <1>7, <1>9, <1>11, <1>13 DEF Finished
<1>15. DOMAIN g = Watched /\ \A s \in Watched : g[s] = IF s = a.stream THEN r ELSE h[s]
  BY <1>1, <1>14
<1>16. HistoriesOk(g, n, m)
  BY <1>1, <1>12, <1>15 DEF HistoriesOk
<1>. QED BY <1>1, <1>13, <1>16 DEF ServerOk, ActiveOk

\* Whatever has ended or is overdue is settled.
LEMMA SettledHolds ==
  ASSUME ServerHolds
  PROVE  ServerOk(Now, Past, made, measured)
<1>1. ServerOk(active, kept, made, measured)
  BY DEF ServerHolds
<1>2. CASE Over
  <2>1. active # NoMeasure
    BY <1>2 DEF Over
  <2>2. ServerOk(NoMeasure, Finished(kept, active, "failed"), made, measured)
    BY <1>1, <2>1, FinishedHolds
  <2>. QED BY <1>2, <2>2 DEF Now, Past
<1>3. CASE ~Over
  BY <1>1, <1>3 DEF Now, Past
<1>. QED BY <1>2, <1>3

LEMMA ServerClose ==
  ASSUME NEW a, NEW h, NEW n, NEW m, ServerOk(a, h, n, m),
         a = active', h = kept', n = made', m = measured'
  PROVE  ServerHolds'
BY DEF ServerHolds

\* Nothing of the server moves, or it only settles.
LEMMA ServerRests ==
  ASSUME ServerHolds, UNCHANGED <<active, kept, made, measured>>
  PROVE  ServerHolds'
BY ServerClose DEF ServerHolds

LEMMA SettleKeeps ==
  ASSUME ServerHolds, Settle, UNCHANGED measured
  PROVE  ServerHolds'
<1>1. ServerOk(Now, Past, made, measured)
  BY SettledHolds
<1>2. Now = active' /\ Past = kept' /\ made = made' /\ measured = measured'
  BY DEF Settle
<1>. QED BY <1>1, <1>2, ServerClose

LEMMA EndMeasureKeeps ==
  ASSUME ServerHolds, Now # NoMeasure, NEW outcome \in {"failed", "done"}, EndMeasure(outcome),
         outcome = "done" => Now.id \in measured, UNCHANGED measured
  PROVE  ServerHolds'
<1>1. ServerOk(Now, Past, made, measured)
  BY SettledHolds
<1>2. ServerOk(NoMeasure, Finished(Past, Now, outcome), made, measured)
  BY <1>1, FinishedHolds
<1>3. NoMeasure = active' /\ Finished(Past, Now, outcome) = kept' /\ made = made' /\ measured = measured'
  BY DEF EndMeasure
<1>. QED BY <1>2, <1>3, ServerClose

\* The same measurement, in another state.
LEMMA ProgressHolds ==
  ASSUME NEW a, NEW h, NEW n, NEW m, ServerOk(a, h, n, m), a # NoMeasure,
         NEW b \in Measurement, b.id = a.id
  PROVE  ServerOk(b, h, n, m)
BY DEF ServerOk, ActiveOk

LEMMA ActiveIsMeasurement ==
  ASSUME NEW a, NEW h, NEW n, NEW m, ServerOk(a, h, n, m), a # NoMeasure
  PROVE  a \in Measurement
BY DEF ServerOk, ActiveOk

LEMMA TooLateKeeps ==
  ASSUME ServerHolds, TooLate
  PROVE  ServerHolds'
<1>1. /\ active # NoMeasure /\ active' = [active EXCEPT !.late = TRUE]
      /\ kept' = kept /\ made' = made /\ measured' = measured
  BY DEF TooLate
<1>2. ServerOk(active, kept, made, measured)
  BY DEF ServerHolds
<1>3. PICK b : b = [active EXCEPT !.late = TRUE]
  OBVIOUS
<1>4. active \in Measurement
  BY <1>1, <1>2, ActiveIsMeasurement
<1>5. b \in Measurement /\ b.id = active.id
  BY <1>3, <1>4 DEF Measurement
<1>6. ServerOk(b, kept, made, measured)
  BY <1>1, <1>2, <1>5, ProgressHolds
<1>. QED BY <1>1, <1>3, <1>6, ServerClose

LEMMA TelemetryKeeps ==
  ASSUME ServerHolds, NEW s \in Watched, Telemetry(s)
  PROVE  ServerHolds'
<1>1. measured' = measured
  BY DEF Telemetry
<1>2. CASE Settle
  BY <1>1, <1>2, SettleKeeps
<1>3. CASE Now # NoMeasure /\ active' = [Now EXCEPT !.picked = TRUE] /\ kept' = Past /\ made' = made
  <2>1. ServerOk(Now, Past, made, measured)
    BY SettledHolds
  <2>2. PICK b : b = [Now EXCEPT !.picked = TRUE]
    OBVIOUS
  <2>3. Now \in Measurement
    BY <1>3, <2>1, ActiveIsMeasurement
  <2>4. b \in Measurement /\ b.id = Now.id
    BY <2>2, <2>3 DEF Measurement
  <2>5. ServerOk(b, Past, made, measured)
    BY <1>3, <2>1, <2>4, ProgressHolds
  <2>. QED BY <1>1, <1>3, <2>2, <2>5, ServerClose
<1>. QED BY <1>2, <1>3 DEF Telemetry

\* A new measurement has a new id.
LEMMA NewHolds ==
  ASSUME NEW h, NEW n, NEW m, ServerOk(NoMeasure, h, n, m), NEW b \in Measurement, b.id = n + 1
  PROVE  ServerOk(b, h, n + 1, m)
<1>1. n \in Nat /\ DOMAIN h = Watched /\ \A s \in Watched : HistoryOk(h[s], n, m)
  BY DEF ServerOk, HistoriesOk
<1>2. ASSUME NEW s \in Watched PROVE HistoryOk(h[s], n + 1, m) /\ NotIn(h[s], n + 1)
  <2>1. PICK q : q = h[s]
    OBVIOUS
  <2>2. /\ q \in Seq(Outcome)
        /\ \A i \in DOMAIN q : q[i].id <= n /\ (q[i].outcome = "done" => q[i].id \in m)
        /\ \A i, j \in DOMAIN q : q[i].id = q[j].id => i = j
    BY <1>1, <2>1 DEF HistoryOk
  <2>3. ASSUME NEW i \in DOMAIN q PROVE q[i].id \in Nat
    <3>1. q[i] \in Outcome
      BY <2>2
    <3>. QED BY <3>1 DEF Outcome
  <2>4. \A i \in DOMAIN q : q[i].id <= n + 1 /\ q[i].id # n + 1
    BY <1>1, <2>2, <2>3
  <2>. QED BY <2>1, <2>2, <2>4 DEF HistoryOk, NotIn
<1>3. n + 1 \in Nat /\ b.id <= n + 1
  BY <1>1
<1>4. \A s \in Watched : NotIn(h[s], b.id)
  BY <1>2
<1>. QED BY <1>1, <1>2, <1>3, <1>4 DEF ServerOk, HistoriesOk, ActiveOk

LEMMA RequestKeeps ==
  ASSUME ServerHolds, NEW s \in Watched, Request(s), UNCHANGED measured
  PROVE  ServerHolds'
<1>1. CASE Settle
  BY <1>1, SettleKeeps
<1>2. CASE /\ Now = NoMeasure /\ made' = made + 1 /\ kept' = Past
           /\ active' = [id |-> made + 1, stream |-> s, state |-> "requested", picked |-> FALSE, late |-> FALSE]
  <2>1. ServerOk(NoMeasure, Past, made, measured)
    BY <1>2, SettledHolds
  <2>2. made \in Nat
    BY <2>1 DEF ServerOk
  <2>3. PICK b : b = active'
    OBVIOUS
  <2>4. b \in Measurement /\ b.id = made + 1
    BY <1>2, <2>2, <2>3 DEF Measurement
  <2>5. ServerOk(b, Past, made + 1, measured)
    BY <2>1, <2>4, NewHolds
  <2>. QED BY <1>2, <2>3, <2>5, ServerClose
<1>. QED BY <1>1, <1>2 DEF Request

\* A report: of the run the active measurement is, or it changes nothing.
LEMMA ReportKeeps ==
  ASSUME ServerHolds, ReportsHold, NEW post \in posts, Report(post), UNCHANGED measured
  PROVE  ServerHolds'
<1>1. CASE Settle
  BY <1>1, SettleKeeps
<1>2. ASSUME Matches(post) PROVE Now # NoMeasure /\ Now.id = post.id
  BY <1>2 DEF Matches
<1>3. CASE Matches(post) /\ active' = [Now EXCEPT !.state = "running", !.late = FALSE] /\ kept' = Past /\ made' = made
  <2>1. ServerOk(Now, Past, made, measured)
    BY SettledHolds
  <2>2. PICK b : b = [Now EXCEPT !.state = "running", !.late = FALSE]
    OBVIOUS
  <2>3. Now \in Measurement
    BY <1>2, <1>3, <2>1, ActiveIsMeasurement
  <2>4. b \in Measurement /\ b.id = Now.id
    BY <2>2, <2>3 DEF Measurement
  <2>5. ServerOk(b, Past, made, measured)
    BY <1>2, <1>3, <2>1, <2>4, ProgressHolds
  <2>. QED BY <1>3, <2>2, <2>5, ServerClose
<1>4. CASE Matches(post) /\ EndMeasure("failed")
  BY <1>2, <1>4, EndMeasureKeeps
<1>5. CASE Matches(post) /\ post.state = "done" /\ EndMeasure("done")
  <2>1. Now.id \in measured
    BY <1>2, <1>5 DEF ReportsHold
  <2>. QED BY <1>2, <1>5, <2>1, EndMeasureKeeps
<1>. QED BY <1>1, <1>3, <1>4, <1>5 DEF Report

LEMMA CancelKeeps ==
  ASSUME ServerHolds, NEW i, CancelArrives(i)
  PROVE  ServerHolds'
<1>1. measured' = measured
  BY DEF CancelArrives
<1>2. CASE Settle
  BY <1>1, <1>2, SettleKeeps
<1>3. CASE Now # NoMeasure /\ EndMeasure("failed")
  BY <1>1, <1>3, EndMeasureKeeps
<1>. QED BY <1>2, <1>3 DEF CancelArrives

\* The viewer's reports.
LEMMA FailsKeeps ==
  ASSUME ReportsHold, NEW o, NEW outcome, Fails(o, outcome), outcome = "done" => o.id \in measured',
         measured \subseteq measured'
  PROVE  ReportsHold'
<1>1. PICK post : post = [id |-> o.id, stream |-> o.stream, state |-> outcome]
  OBVIOUS
<1>2. posts' = posts \cup {post} /\ post.id = o.id /\ post.state = outcome
  BY <1>1 DEF Fails
<1>. QED BY <1>2 DEF ReportsHold

LEMMA ReportsRest ==
  ASSUME ReportsHold, posts' \subseteq posts, measured \subseteq measured'
  PROVE  ReportsHold'
BY DEF ReportsHold

LEMMA EndsKeeps ==
  ASSUME ReportsHold, NEW outcome, Ends(outcome), outcome = "done" => probe.id \in measured',
         measured \subseteq measured'
  PROVE  ReportsHold'
<1>1. CASE posts' = posts
  BY <1>1, ReportsRest
<1>2. CASE Fails(probe, "done") /\ outcome = "done"
  BY <1>2, FailsKeeps
<1>3. CASE Fails(probe, "failed")
  BY <1>3, FailsKeeps
<1>. QED BY <1>1, <1>2, <1>3 DEF Ends

LEMMA MoreMeasured ==
  ASSUME NEW a, NEW h, NEW n, NEW m, ServerOk(a, h, n, m), NEW more, m \subseteq more
  PROVE  ServerOk(a, h, n, more)
<1>1. ASSUME NEW s \in Watched, HistoryOk(h[s], n, m) PROVE HistoryOk(h[s], n, more)
  BY <1>1 DEF HistoryOk
<1>. QED BY <1>1 DEF ServerOk, HistoriesOk

LEMMA LatencyStep ==
  ASSUME alive \subseteq Watched, ServerHolds, ReportsHold, [LatencyNext]_latencyVars
  PROVE  ServerHolds' /\ ReportsHold'
<1>1. ASSUME UNCHANGED <<active, kept, made, measured, posts>> PROVE ServerHolds' /\ ReportsHold'
  BY <1>1, ServerRests, ReportsRest
<1>2. ASSUME NEW s \in Watched, Measure(s) PROVE ServerHolds' /\ ReportsHold'
  BY <1>1, <1>2 DEF Measure, serverVars
<1>3. CASE Escape \/ Requested \/ RequestFails \/ Refreshed \/ CancelRun \/ Leave
  BY <1>1, <1>3 DEF Escape, Requested, RequestFails, Refreshed, CancelRun, Leave, serverVars
<1>4. CASE RequestArrives
  <2>1. posts' = posts /\ measured' = measured
    BY <1>4 DEF RequestArrives
  <2>2. CASE UNCHANGED serverVars
    BY <1>1, <2>1, <2>2 DEF serverVars
  <2>3. CASE page.stream \in alive /\ Request(page.stream)
    <3>1. page.stream \in Watched
      BY <2>3
    <3>. QED BY <2>1, <2>3, <3>1, RequestKeeps, ReportsRest
  <2>. QED BY <1>4, <2>2, <2>3 DEF RequestArrives
<1>5. CASE Refresh
  <2>1. Settle /\ posts' = posts /\ measured' = measured
    BY <1>5 DEF Refresh
  <2>. QED BY <2>1, SettleKeeps, ReportsRest
<1>6. ASSUME NEW i, CancelArrives(i) PROVE ServerHolds' /\ ReportsHold'
  <2>1. posts' = posts /\ measured' = measured
    BY <1>6 DEF CancelArrives
  <2>. QED BY <1>6, <2>1, CancelKeeps, ReportsRest
<1>7. ASSUME NEW s \in Watched, Telemetry(s) PROVE ServerHolds' /\ ReportsHold'
  <2>1. posts' = posts /\ measured' = measured
    BY <1>7 DEF Telemetry
  <2>. QED BY <1>7, <2>1, TelemetryKeeps, ReportsRest
<1>8. ASSUME NEW s, ShowStream(s) \/ StreamEnds(s) PROVE ServerHolds' /\ ReportsHold'
  BY <1>1, <1>8 DEF ShowStream, StreamEnds, serverVars
<1>9. ASSUME NEW o \in offered, TakeOffer(o) PROVE ServerHolds' /\ ReportsHold'
  <2>1. UNCHANGED <<active, kept, made, measured>>
    BY <1>9 DEF TakeOffer, serverVars
  <2>2. CASE posts' = posts
    BY <1>1, <2>1, <2>2
  <2>3. CASE Fails(o, "failed")
    BY <2>1, <2>3, FailsKeeps, ServerRests
  <2>. QED BY <1>9, <2>2, <2>3 DEF TakeOffer
<1>10. ASSUME NEW post \in posts, PostArrives(post) PROVE ServerHolds' /\ ReportsHold'
  <2>1. Report(post) /\ posts' = posts \ {post} /\ measured' = measured
    BY <1>10 DEF PostArrives
  <2>. QED BY <2>1, ReportKeeps, ReportsRest
<1>11. CASE Import
  <2>1. Settle /\ measured' = measured
    BY <1>11 DEF Import
  <2>2. CASE Ends("cancelled") \/ Ends("no-control") \/ Ends("unsupported")
    BY <2>1, <2>2, EndsKeeps, SettleKeeps
  <2>3. CASE posts' = posts
    BY <2>1, <2>3, SettleKeeps, ReportsRest
  <2>. QED BY <1>11, <2>2, <2>3 DEF Import, Begins
<1>12. CASE Looked
  <2>1. UNCHANGED <<active, kept, made, measured>>
    BY <1>12 DEF Looked, serverVars
  <2>2. CASE Ends("cancelled") \/ Ends("failed")
    BY <2>1, <2>2, EndsKeeps, ServerRests
  <2>3. CASE Fails(probe, "running")
    BY <2>1, <2>3, FailsKeeps, ServerRests
  <2>. QED BY <1>12, <2>2, <2>3 DEF Looked
<1>13. CASE RunEnds
  <2>1. UNCHANGED <<active, kept, made>>
    BY <1>13 DEF RunEnds, serverVars
  <2>2. CASE measured' = measured /\ (Ends("cancelled") \/ Ends("failed"))
    BY <2>1, <2>2, EndsKeeps, ServerRests
  <2>3. CASE measured' = measured \cup {probe.id} /\ Ends("done")
    <3>1. measured \subseteq measured' /\ probe.id \in measured'
      BY <2>3
    <3>2. ReportsHold'
      BY <2>3, <3>1, EndsKeeps
    <3>3. ServerOk(active, kept, made, measured)
      BY DEF ServerHolds
    <3>4. PICK m : m = measured'
      OBVIOUS
    <3>5. measured \subseteq m
      BY <3>1, <3>4
    <3>6. ServerOk(active, kept, made, m)
      BY <3>3, <3>5, MoreMeasured
    <3>7. ServerHolds'
      BY <2>1, <3>4, <3>6, ServerClose
    <3>. QED BY <3>2, <3>7
  <2>. QED BY <1>13, <2>2, <2>3 DEF RunEnds
<1>14. CASE TooLate
  <2>1. posts' = posts /\ measured' = measured
    BY <1>14 DEF TooLate
  <2>. QED BY <1>14, <2>1, TooLateKeeps, ReportsRest
<1>15. CASE Lose
  <2>1. UNCHANGED <<active, kept, made, measured>> /\ posts' \subseteq posts
    BY <1>15 DEF Lose, serverVars
  <2>. QED BY <2>1, ServerRests, ReportsRest
<1>16. CASE UNCHANGED latencyVars
  BY <1>1, <1>16 DEF latencyVars
<1>. QED BY <1>2, <1>3, <1>4, <1>5, <1>6, <1>7, <1>8, <1>9, <1>10, <1>11, <1>12, <1>13, <1>14, <1>15, <1>16
     DEF LatencyNext, PageNext, ViewerRunNext

LEMMA LatencyStarts == LatencyInit => LatencyInv
<1>. SUFFICES ASSUME LatencyInit PROVE LatencyInv
  OBVIOUS
<1>1. /\ active = NoMeasure /\ kept = [s \in Watched |-> <<>>] /\ made = 0 /\ alive = Watched
      /\ posts = {}
  BY DEF LatencyInit
<1>2. ASSUME NEW m, NEW s \in Watched PROVE HistoryOk(kept[s], 0, m)
  BY <1>1 DEF HistoryOk
<1>3. DOMAIN kept = Watched
  BY <1>1
<1>4. ServerOk(active, kept, made, measured)
  BY <1>1, <1>2, <1>3 DEF ServerOk, HistoriesOk, ActiveOk
<1>. QED BY <1>1, <1>4 DEF LatencyInv, ServerHolds, ReportsHold

LEMMA StreamsOnlyEnd ==
  ASSUME alive \subseteq Watched, [LatencyNext]_latencyVars
  PROVE  (alive \subseteq Watched)'
<1>1. alive' = alive \/ \E s \in Watched : alive' = alive \ {s}
  BY DEF LatencyNext, latencyVars, PageNext, ViewerRunNext, Measure, Escape, Requested, RequestFails,
         Refreshed, CancelRun, Leave, RequestArrives, Refresh, CancelArrives, Telemetry, ShowStream,
         StreamEnds, TakeOffer, PostArrives, Import, Looked, RunEnds, TooLate, Lose
<1>. QED BY <1>1

\* With any number of streams, of measurements and of lost calls, and any length of the history: an
\* outcome Diagnostics shows as results is what the measurement's own run measured, a measurement has
\* one outcome in a history, and none while it is active.
THEOREM OutcomesAreOwn == LatencySpec => []ResultsAreOwn
<1>1. LatencyInit => LatencyInv
  BY LatencyStarts
<1>2. LatencyInv /\ [LatencyNext]_latencyVars => LatencyInv'
  BY LatencyStep, StreamsOnlyEnd DEF LatencyInv
<1>3. LatencyInv => ResultsAreOwn
  <2>. SUFFICES ASSUME LatencyInv PROVE ResultsAreOwn
    OBVIOUS
  <2>1. HistoriesOk(kept, made, measured) /\ ActiveOk(active, kept, made)
    BY DEF LatencyInv, ServerHolds, ServerOk
  <2>. QED BY <2>1 DEF HistoriesOk, HistoryOk, ActiveOk, NotIn, ResultsAreOwn, Outcomes
<1>. QED BY <1>1, <1>2, <1>3, PTL DEF LatencySpec

=============================================================================
