--------------------------- MODULE ApprovedClients ---------------------------
(***************************************************************************)
(* Approved devices: registration tickets and requests, the owner's        *)
(* approval, the device's claim of its secret, sign-in, and the owner's    *)
(* later edits and removals (approved-clients.mjs,                         *)
(* owner-security-commands.mjs, the two routes of http-app.mjs and         *)
(* connectApproved of session-store.mjs).                                  *)
(*                                                                         *)
(* The store writes its file from a queue of operations, one at a time;    *)
(* everything else happens between them.  An await of an operation or of a *)
(* caller is a phase.  Ids and secrets are fresh; an id is used once.      *)
(***************************************************************************)
EXTENDS Naturals, Sequences, FiniteSets

CONSTANTS
  Clients,      \* ids of approved clients
  Requests,     \* submissions of the registration form
  Tickets,      \* registration tickets
  SignIns,      \* sign-in attempts, and the sessions they get
  Commands,     \* the owner's edits and removals
  Stored,       \* clients in the file when the server first starts
  Permissions,  \* permissions a client may have, "default" among them
  MaxPending,   \* MAX_PENDING
  MaxSessions,  \* maxSessions of the session store
  MaxRestarts,  \* bound on crashes
  None          \* no client, no permission, no ticket

ASSUME ConstantsAssumption ==
  /\ Stored \subseteq Clients
  /\ "default" \in Permissions
  /\ MaxPending \in Nat /\ MaxSessions \in Nat /\ MaxRestarts \in Nat
  /\ None \notin Permissions \cup Clients \cup Tickets

VARIABLES
  disk,        \* the permission of each client in the file
  clients,     \* #value.clients: the permission of each client in memory
  generation,  \* #generations
  denied,      \* #denied
  ticket,      \* #tickets
  request,     \* #pending, and submissions on their way into it
  ticketOf,    \* the ticket a submission came with
  clientOf,    \* clientId of a pending row
  claimed,     \* rows whose secret was released
  expired,     \* tickets and rows past their ten minutes
  queue,       \* operations chained on #queue, the running one first
  phase,       \* the await the running operation is at
  swept,       \* expired rows the running operation found
  signIn,      \* sign-in requests
  session,     \* sign-ins whose session is live
  command,     \* owner commands
  restarts,
  holds,       \* history: clients whose secret a device has
  removal,     \* history: whether the owner asked to remove a client, and was told it is done
  rejected     \* history: requests whose rejection the owner was told of

clientVars  == <<disk, clients, generation, denied>>
requestVars == <<ticket, request, ticketOf, clientOf, claimed, expired>>
queueVars   == <<queue, phase, swept>>
callerVars  == <<signIn, session, command>>
historyVars == <<restarts, holds, removal, rejected>>
vars == <<clientVars, requestVars, queueVars, callerVars, historyVars>>

NoSignIn  == [pc |-> "idle", client |-> None, generation |-> 0]
NoCommand == [pc |-> "idle", kind |-> "remove", client |-> None, permission |-> None, generation |-> 0]

Init ==
  /\ disk = [c \in Clients |-> IF c \in Stored THEN "default" ELSE None]
  /\ clients = disk
  /\ generation = [c \in Clients |-> 0]
  /\ denied = [c \in Clients |-> "none"]
  /\ ticket = [t \in Tickets |-> "none"]
  /\ request = [q \in Requests |-> "new"]
  /\ ticketOf = [q \in Requests |-> None]
  /\ clientOf = [q \in Requests |-> None]
  /\ claimed = {}
  /\ expired = {}
  /\ queue = <<>>
  /\ phase = "begin"
  /\ swept = {}
  /\ signIn = [a \in SignIns |-> NoSignIn]
  /\ session = {}
  /\ command = [m \in Commands |-> NoCommand]
  /\ restarts = 0
  /\ holds = Stored
  /\ removal = [c \in Clients |-> "none"]
  /\ rejected = {}

-----------------------------------------------------------------------------
(* Lookups. *)

\* #pending.
Rows == {q \in Requests : request[q] \in {"pending", "approved", "rejected"}}

\* #expiredUnclaimed: approved, never claimed and past its time.
ExpiredUnclaimed == {clientOf[q] : q \in {r \in Rows \cap expired : r \notin claimed}}

\* authorization(c) is not null.
Authorized(c) == clients[c] # None /\ denied[c] = "none" /\ c \notin ExpiredUnclaimed

StillAuthorized(a) ==
  /\ Authorized(signIn[a].client)
  /\ signIn[a].generation = generation[signIn[a].client]

\* Ids nothing refers to: what randomUUID returns.
Fresh == {c \in Clients : /\ clients[c] = None /\ disk[c] = None /\ generation[c] = 0
                          /\ c \notin holds /\ removal[c] = "none"
                          /\ \A q \in Requests : clientOf[q] # c
                          /\ \A m \in Commands : command[m].client # c}

Sessions(c) == {a \in session : signIn[a].client = c}

Enqueue(kind, by) == queue' = Append(queue, [kind |-> kind, by |-> by, client |-> None])

-----------------------------------------------------------------------------
(* Registration. *)

\* issueRegistrationTicket, for a setup code.
IssueTicket(t) ==
  /\ ticket[t] = "none"
  /\ Cardinality({u \in Tickets \ expired : ticket[u] \in {"free", "inUse"}}) < MaxPending
  /\ ticket' = [ticket EXCEPT ![t] = "free"]
  /\ UNCHANGED <<clientVars, request, ticketOf, clientOf, claimed, expired, queueVars, callerVars,
                 historyVars>>

\* submit up to its sweep.
Submit(q, t) ==
  /\ request[q] = "new"
  /\ ticket[t] # "none"
  /\ request' = [request EXCEPT ![q] = "queued"]
  /\ ticketOf' = [ticketOf EXCEPT ![q] = t]
  /\ Enqueue("submit", q)
  /\ UNCHANGED <<clientVars, ticket, clientOf, claimed, expired, phase, swept, callerVars, historyVars>>

\* The password is hashed, or refused: the ticket is spent by a request it is still valid for and
\* may be used again otherwise.
Hashed(q) ==
  /\ request[q] = "hashing"
  /\ \E ok \in BOOLEAN :
       LET accepted == ok /\ ticketOf[q] \notin expired
       IN /\ request' = [request EXCEPT ![q] = IF accepted THEN "pending" ELSE "gone"]
          /\ ticket' = [ticket EXCEPT ![ticketOf[q]] = IF accepted THEN "spent" ELSE "free"]
  /\ UNCHANGED <<clientVars, ticketOf, clientOf, claimed, expired, queueVars, callerVars, historyVars>>

\* The owner approves a request, perhaps twice.  Bound: every approval finds a fresh id.
Approve(q) ==
  /\ q \in Rows
  /\ Cardinality({k \in DOMAIN queue : queue[k].kind = "approve"}) < Cardinality(Fresh)
  /\ Enqueue("approve", q)
  /\ UNCHANGED <<clientVars, requestVars, phase, swept, callerVars, historyVars>>

\* reject: not queued.
Reject(q) ==
  /\ request[q] = "pending" /\ q \notin expired
  /\ request' = [request EXCEPT ![q] = "rejected"]
  /\ rejected' = rejected \cup {q}
  /\ UNCHANGED <<clientVars, ticket, ticketOf, clientOf, claimed, expired, queueVars, callerVars,
                 restarts, holds, removal>>

\* registrationStatus asked by the device, once its request is approved.
Claim(q) ==
  /\ request[q] = "approved" /\ q \notin expired \cup claimed
  /\ claimed' = claimed \cup {q}
  /\ holds' = holds \cup {clientOf[q]}
  /\ UNCHANGED <<clientVars, ticket, request, ticketOf, clientOf, expired, queueVars, callerVars,
                 restarts, removal, rejected>>

\* Ten minutes passed.
Expire(x) ==
  /\ x \in {t \in Tickets : ticket[t] \in {"free", "inUse"}} \cup Rows
  /\ x \notin expired
  /\ expired' = expired \cup {x}
  /\ UNCHANGED <<clientVars, ticket, request, ticketOf, clientOf, claimed, queueVars, callerVars,
                 historyVars>>

-----------------------------------------------------------------------------
(* The owner's commands and sign-in, up to the queue. *)

\* Mutant: an edit's denial replaces a removal's.
InvalidateLastM(c, kind) ==
  /\ generation' = [generation EXCEPT ![c] = @ + 1]
  /\ denied' = [denied EXCEPT ![c] = IF kind = "remove" THEN kind ELSE "downgrade"]

\* invalidate, by an edit or a removal.
Invalidate(c, kind) ==
  /\ generation' = [generation EXCEPT ![c] = @ + 1]
  /\ denied' = [denied EXCEPT ![c] = IF kind = "remove" \/ @ = "remove" THEN "remove" ELSE "downgrade"]

\* stopUnsafeSharing.
StopSharing(m) ==
  /\ session' = {}
  /\ command' = [command EXCEPT ![m].pc = "failed"]

\* approved: the client is invalidated and its sessions end in the same turn.
Issue(m, kind, c, p) ==
  /\ command[m].pc = "idle"
  /\ clients[c] # None
  /\ Invalidate(c, kind)
  /\ session' = session \ Sessions(c)
  /\ command' = [command EXCEPT ![m] = [pc |-> "revoking", kind |-> kind, client |-> c,
                                        permission |-> p, generation |-> 0]]
  /\ removal' = [removal EXCEPT ![c] = IF kind = "remove" THEN "asked" ELSE @]
  /\ UNCHANGED <<disk, clients, requestVars, queueVars, signIn, restarts, holds, rejected>>

\* The denial and the sessions' streams settled: remove or setPermission is called and
\* invalidates once more, or sharing stops because something failed.
Revoked(m) ==
  LET c == command[m].client
      kind == command[m].kind
  IN /\ command[m].pc = "revoking"
     /\ \/ /\ clients[c] # None
           /\ kind = "permission" => denied[c] # "remove"
           /\ Invalidate(c, kind)
           /\ command' = [command EXCEPT ![m].pc = "queued", ![m].generation = generation[c] + 1]
           /\ Enqueue(kind, m)
           /\ UNCHANGED session
        \/ StopSharing(m) /\ UNCHANGED <<generation, denied, queue>>
     /\ UNCHANGED <<disk, clients, requestVars, phase, swept, signIn, historyVars>>

\* authenticate up to the password's verification, with the device's secret.
SignIn(a, c) ==
  /\ signIn[a].pc = "idle"
  /\ c \in holds /\ Authorized(c)
  /\ signIn' = [signIn EXCEPT ![a] = [pc |-> "hashing", client |-> c, generation |-> generation[c]]]
  /\ UNCHANGED <<clientVars, requestVars, queueVars, session, command, historyVars>>

\* Mutant: the client's other sessions are not looked at.
MayConnectTwiceM(a) == StillAuthorized(a) /\ Cardinality(session) < MaxSessions

\* The checks between the verified password and the session.
MayConnect(a) ==
  /\ StillAuthorized(a)
  /\ Sessions(signIn[a].client) = {}
  /\ Cardinality(session) < MaxSessions

\* The password is verified: the session starts and markConnected is queued, or the sign-in is
\* refused.
Verified(a) ==
  /\ signIn[a].pc = "hashing"
  /\ \/ /\ MayConnect(a)
        /\ session' = session \cup {a}
        /\ signIn' = [signIn EXCEPT ![a].pc = "marking"]
        /\ Enqueue("mark", a)
     \/ signIn' = [signIn EXCEPT ![a].pc = "over"] /\ UNCHANGED <<session, queue>>
  /\ UNCHANGED <<clientVars, requestVars, phase, swept, command, historyVars>>

\* A session disconnects or expires.
SessionEnds(a) ==
  /\ a \in session
  /\ session' = session \ {a}
  /\ UNCHANGED <<clientVars, requestVars, queueVars, signIn, command, historyVars>>

-----------------------------------------------------------------------------
(* The queue.  op is the running operation. *)

op == Head(queue)

Done == queue' = Tail(queue) /\ phase' = "begin"

\* The running operation failed: its caller hears of it and the queue goes on.  R are the requests
\* its sweep left.
Fails(R) ==
  /\ Done
  /\ request' = [q \in Requests |-> IF op.kind = "submit" /\ q = op.by THEN "gone" ELSE R[q]]
  /\ session' = CASE op.kind = "mark" -> session \ {op.by}
                  [] op.kind \in {"remove", "permission"} -> {}
                  [] OTHER -> session
  /\ signIn' = [a \in SignIns |-> IF op.kind = "mark" /\ a = op.by
                                  THEN [signIn[a] EXCEPT !.pc = "over"] ELSE signIn[a]]
  /\ command' = [m \in Commands |-> IF op.kind \in {"remove", "permission"} /\ m = op.by
                                    THEN [command[m] EXCEPT !.pc = "failed"] ELSE command[m]]
  /\ UNCHANGED <<ticket, clients>>

\* The requests R that count against the limit, those being hashed among them.
Kept(R) ==
  {q \in Requests : R[q] = "hashing" \/ (R[q] \in {"pending", "approved", "rejected"} /\ q \notin expired)}

\* Mutant: what is being hashed does not count.
AcceptableKeptM(t, R) ==
  /\ Cardinality({q \in Kept(R) : R[q] # "hashing"}) < MaxPending
  /\ ticket[t] = "free" /\ t \notin expired

\* submit needs a place and a valid ticket that nobody else uses.
Acceptable(t, R) ==
  /\ Cardinality(Kept(R)) < MaxPending
  /\ ticket[t] = "free" /\ t \notin expired

\* submit after its sweep.
SubmitRuns(R) ==
  LET q == op.by
      t == ticketOf[q]
  IN /\ request' = [R EXCEPT ![q] = IF Acceptable(t, R) THEN "hashing" ELSE "gone"]
     /\ ticket' = [ticket EXCEPT ![t] = IF Acceptable(t, R) THEN "inUse" ELSE @]
     /\ Done
     /\ UNCHANGED <<clients, callerVars>>

\* What a command makes of its client's row.
Edited(m) == IF command[m].kind = "remove" THEN None ELSE command[m].permission

\* An operation that changes memory begins its write.
Writes(R, o) ==
  /\ queue' = <<o>> \o Tail(queue)
  /\ phase' = "writing"
  /\ request' = R
  /\ UNCHANGED <<ticket, callerVars>>

\* The body of the running operation up to its write; its sweep left R.
Runs(R) ==
  LET target == IF op.kind \in {"remove", "permission"} THEN command[op.by].client ELSE None
  IN \/ op.kind = "submit" /\ SubmitRuns(R)
     \/ /\ op.kind = "approve" /\ R[op.by] = "pending"
        /\ \E c \in Fresh :
             /\ clients' = [clients EXCEPT ![c] = "default"]
             /\ Writes(R, [op EXCEPT !.client = c])
     \/ /\ op.kind = "mark" /\ StillAuthorized(op.by)
        /\ Writes(R, op) /\ UNCHANGED clients
     \/ /\ op.kind \in {"remove", "permission"} /\ clients[target] # None
        /\ clients' = [clients EXCEPT ![target] = Edited(op.by)]
        /\ Writes(R, op)
     \/ /\ \/ op.kind = "approve" /\ R[op.by] # "pending"
           \/ op.kind = "mark" /\ ~StillAuthorized(op.by)
           \/ op.kind \in {"remove", "permission"} /\ clients[target] = None
        /\ Fails(R)

\* Mutant: claims are not looked at.
UnclaimedM(E) == {clientOf[q] : q \in {r \in E : request[r] = "approved"}}

\* The clients a sweep of the rows E removes.
Unclaimed(E) == {clientOf[q] : q \in {r \in E \ claimed : request[r] = "approved"}}

Drop(E) == [q \in Requests |-> IF q \in E THEN "gone" ELSE request[q]]

\* An operation starts with #sweepExpiredInner, which writes only if it removes a client.
Begin ==
  /\ queue # <<>> /\ phase = "begin"
  /\ LET E == Rows \cap expired
     IN \/ /\ Unclaimed(E) = {}
           /\ Runs(Drop(E))
           /\ UNCHANGED swept
        \/ /\ Unclaimed(E) # {}
           /\ clients' = [c \in Clients |-> IF c \in Unclaimed(E) THEN None ELSE clients[c]]
           /\ phase' = "sweeping"
           /\ swept' = E
           /\ UNCHANGED <<ticket, request, queue, callerVars>>
  /\ UNCHANGED <<disk, generation, denied, ticketOf, clientOf, claimed, expired, historyVars>>

\* The sweep's write ended.
Sweeps ==
  /\ phase = "sweeping"
  /\ \/ disk' = clients /\ Runs(Drop(swept))
     \/ Fails(request) /\ UNCHANGED disk
  /\ swept' = {}
  /\ UNCHANGED <<generation, denied, ticketOf, clientOf, claimed, expired, historyVars>>

\* Mutant: any edit that ends lets the client in again.
AllowedAgainM(m) == denied[command[m].client] # "remove"

\* setPermission lets the client in again, unless another edit or removal came after it.
AllowedAgain(m) ==
  /\ generation[command[m].client] = command[m].generation
  /\ denied[command[m].client] # "remove"

\* The running operation's write succeeded.
Succeeds ==
  /\ \/ /\ op.kind = "approve"
        /\ request' = [request EXCEPT ![op.by] = "approved"]
        /\ clientOf' = [clientOf EXCEPT ![op.by] = op.client]
        /\ UNCHANGED <<denied, callerVars, removal>>
     \/ /\ op.kind = "mark" /\ StillAuthorized(op.by)
        /\ signIn' = [signIn EXCEPT ![op.by].pc = "over"]
        /\ UNCHANGED <<request, clientOf, denied, session, command, removal>>
     \/ /\ op.kind = "remove"
        /\ request' = Drop({q \in Rows : clientOf[q] = command[op.by].client})
        /\ command' = [command EXCEPT ![op.by].pc = "done"]
        /\ removal' = [removal EXCEPT ![command[op.by].client] = "done"]
        /\ UNCHANGED <<clientOf, denied, signIn, session>>
     \/ /\ op.kind = "permission"
        /\ denied' = [denied EXCEPT ![command[op.by].client] =
                        IF AllowedAgain(op.by) THEN "none" ELSE @]
        /\ command' = [command EXCEPT ![op.by].pc = "done"]
        /\ UNCHANGED <<request, clientOf, signIn, session, removal>>
  /\ Done
  /\ UNCHANGED <<ticket, clients>>

\* The running operation's write ended.
Written ==
  /\ phase = "writing"
  /\ \/ disk' = clients /\ Succeeds
     \/ /\ disk' = clients /\ op.kind = "mark" /\ ~StillAuthorized(op.by)
        /\ Fails(request)
        /\ UNCHANGED <<denied, clientOf, removal>>
     \/ Fails(request) /\ UNCHANGED <<disk, denied, clientOf, removal>>
  /\ UNCHANGED <<generation, ticketOf, claimed, expired, swept, restarts, holds, rejected>>

\* The server dies, perhaps just after the file was replaced, and starts again.
Restart ==
  /\ restarts < MaxRestarts
  /\ restarts' = restarts + 1
  /\ \/ UNCHANGED disk
     \/ phase # "begin" /\ disk' = clients
  /\ clients' = disk'
  /\ generation' = [c \in Clients |-> 0]
  /\ denied' = [c \in Clients |-> "none"]
  /\ ticket' = [t \in Tickets |-> IF ticket[t] = "none" THEN "none" ELSE "spent"]
  /\ request' = [q \in Requests |-> IF request[q] = "new" THEN "new" ELSE "gone"]
  /\ ticketOf' = [q \in Requests |-> None] /\ clientOf' = [q \in Requests |-> None]
  /\ claimed' = {} /\ expired' = {}
  /\ queue' = <<>> /\ phase' = "begin" /\ swept' = {}
  /\ signIn' = [a \in SignIns |-> IF signIn[a].pc = "idle" THEN NoSignIn
                                  ELSE [signIn[a] EXCEPT !.pc = "over"]]
  /\ session' = {}
  /\ command' = [m \in Commands |-> IF command[m].pc \in {"revoking", "queued"}
                                    THEN [command[m] EXCEPT !.pc = "failed"] ELSE command[m]]
  /\ UNCHANGED <<holds, removal, rejected>>

Next ==
  \/ \E t \in Tickets : IssueTicket(t)
  \/ \E q \in Requests : Hashed(q) \/ Approve(q) \/ Reject(q) \/ Claim(q)
  \/ \E q \in Requests, t \in Tickets : Submit(q, t)
  \/ \E x \in Tickets \cup Requests : Expire(x)
  \/ \E m \in Commands, c \in Clients :
       Issue(m, "remove", c, None) \/ \E p \in Permissions : Issue(m, "permission", c, p)
  \/ \E m \in Commands : Revoked(m)
  \/ \E a \in SignIns, c \in Clients : SignIn(a, c)
  \/ \E a \in SignIns : Verified(a) \/ SessionEnds(a)
  \/ Begin \/ Sweeps \/ Written \/ Restart

Spec == Init /\ [][Next]_vars

-----------------------------------------------------------------------------
(* Properties. *)

\* A device holds at most one live session, whatever it signs in with at the same time.
OneSessionPerClient == \A a, b \in session : signIn[a].client = signIn[b].client => a = b

\* From the moment the owner asks to remove a device it has no live session, and a sign-in that
\* was already verifying gets none.
RemovalEndsSessions ==
  \A a \in session : clients[signIn[a].client] # None /\ denied[signIn[a].client] # "remove"

\* A removal the owner was told of is final: no failed write, later write or restart brings the
\* device back.
RemovedIsForgotten ==
  \A c \in Clients : removal[c] = "done" => clients[c] = None /\ disk[c] = None

\* A device that has its secret stays registered until the owner asks to remove it: neither the
\* sweep of expired requests nor a restart loses it.
DeviceStaysRegistered ==
  \A c \in holds : removal[c] = "none" => clients[c] # None /\ disk[c] # None

\* A device signs in with no permission the file does not have: an edit lets it in again only
\* after the write, and an older edit never does so for a newer one.
PermissionIsDurable ==
  \A c \in holds : Authorized(c) => clients[c] = disk[c]

\* Of two submissions with one ticket only one is accepted.
TicketUsedOnce ==
  \A q, r \in Requests :
    /\ ticketOf[q] = ticketOf[r]
    /\ request[q] \in {"pending", "approved", "rejected"}
    /\ request[r] \in {"hashing", "pending", "approved", "rejected"}
    => q = r

\* However many submissions hash at once, the requests kept stay within the limit.
RequestsBounded == Cardinality(Rows) <= MaxPending

\* What submissions that race were admitted for: one request per ticket, and no more than fit.
SubmissionsAdmitted == TicketUsedOnce /\ RequestsBounded

\* A removal (the owner's remove command) ends the device's sessions, sign-ins under way included,
\* and stays done through failed writes, later writes and a restart.
RemovalIsFinal == RemovalEndsSessions /\ RemovedIsForgotten

\* A rejected request never gets a secret.
RejectedGetNoSecret == rejected \cap claimed = {}

=============================================================================
