------------------------- MODULE ApprovedClientsProofs -------------------------
(***************************************************************************)
(* Proofs about ApprovedClients for any number of devices, submissions,    *)
(* tickets, sign-ins, commands and crashes.  The inductive invariant joins *)
(* what the queue of operations says about the commands in it, what a row  *)
(* of the registration queue says about its client, and what a client's    *)
(* entry in memory says about the file.                                    *)
(***************************************************************************)
EXTENDS ApprovedClients, SequenceTheorems, FiniteSetTheorems, TLAPS

Ops == [kind : {"submit", "approve", "mark", "remove", "permission"},
        by : Requests \cup SignIns \cup Commands, client : Clients \cup {None}]

ClientTypes ==
  /\ disk \in [Clients -> Permissions \cup {None}]
  /\ clients \in [Clients -> Permissions \cup {None}]
  /\ generation \in [Clients -> Nat]
  /\ denied \in [Clients -> {"none", "downgrade", "remove"}]
  /\ holds \subseteq Clients
  /\ removal \in [Clients -> {"none", "asked", "done"}]

RequestTypes ==
  /\ ticket \in [Tickets -> {"none", "free", "inUse", "spent"}]
  /\ request \in [Requests -> {"new", "queued", "hashing", "pending", "approved", "rejected", "gone"}]
  /\ ticketOf \in [Requests -> Tickets \cup {None}]
  /\ clientOf \in [Requests -> Clients \cup {None}]
  /\ claimed \subseteq Requests
  /\ expired \subseteq Tickets \cup Requests

CallerTypes ==
  /\ queue \in Seq(Ops)
  /\ phase \in {"begin", "sweeping", "writing"}
  /\ swept \subseteq Requests
  /\ signIn \in [SignIns -> [pc : {"idle", "hashing", "marking", "over"},
                             client : Clients \cup {None}, generation : Nat]]
  /\ session \subseteq SignIns
  /\ command \in [Commands -> [pc : {"idle", "revoking", "queued", "done", "failed"},
                               kind : {"remove", "permission"}, client : Clients \cup {None},
                               permission : Permissions \cup {None}, generation : Nat]]

Types == ClientTypes /\ RequestTypes /\ CallerTypes

-----------------------------------------------------------------------------
(* The inductive invariant. *)

\* A command under way: its client, and what a removal has already done.
CommandAt(m) ==
  command[m].pc \in {"revoking", "queued"} =>
    /\ command[m].client \in Clients
    /\ command[m].kind = "permission" => command[m].permission \in Permissions
    /\ command[m].kind = "remove" =>
         denied[command[m].client] = "remove" /\ removal[command[m].client] # "none"

CommandsHold == \A m \in Commands : CommandAt(m)

IsCommand(o) == o.kind \in {"remove", "permission"}

\* A queued command's client is denied, and its generation is behind the client's.
QueuedCommand(o) ==
  IsCommand(o) =>
    /\ o.by \in Commands /\ command[o.by].kind = o.kind /\ command[o.by].pc = "queued"
    /\ denied[command[o.by].client] # "none"
    /\ command[o.by].generation <= generation[command[o.by].client]

\* What an operation in the queue says.
QueuedAt(o) ==
  /\ o.kind = "submit" => o.by \in Requests /\ request[o.by] = "queued"
  /\ o.kind = "approve" => o.by \in Requests
  /\ o.kind = "mark" => o.by \in SignIns
  /\ QueuedCommand(o)

\* Two operations in the queue: a submission is there once, and of two commands for one client the
\* later one has the later generation.
InOrder(o, p) ==
  /\ ~(o.kind = "submit" /\ p.kind = "submit" /\ o.by = p.by)
  /\ IsCommand(o) /\ IsCommand(p) /\ command[o.by].client = command[p.by].client
       => command[o.by].generation < command[p.by].generation

QueueHolds ==
  /\ \A k \in 1..Len(queue) : QueuedAt(queue[k])
  /\ \A j, k \in 1..Len(queue) : j < k => InOrder(queue[j], queue[k])

\* A client a registration is being approved for: in memory and nobody's yet.
NewClient(c) ==
  /\ c \in Clients \ holds /\ clients[c] # None
  /\ \A q \in Requests : clientOf[q] # c

\* What the running operation has done.
RunningHolds ==
  /\ phase # "begin" => queue # <<>>
  /\ phase = "sweeping" => swept # {} /\ swept \subseteq Rows \cap expired
  /\ phase = "writing" =>
       /\ op.kind # "submit"
       /\ op.kind = "approve" => request[op.by] \in {"pending", "rejected"} /\ NewClient(op.client)
       /\ op.kind = "remove" => clients[command[op.by].client] = None

SessionsHold ==
  /\ \A a \in SignIns : signIn[a].pc \in {"hashing", "marking"} => signIn[a].client \in holds
  /\ \A a \in session : /\ signIn[a].pc \in {"marking", "over"} /\ signIn[a].client \in holds
                        /\ clients[signIn[a].client] # None
                        /\ denied[signIn[a].client] # "remove"
  /\ OneSessionPerClient

\* A row has a client once it is approved; the device that claimed it is the one that holds it.
RowsHold ==
  /\ \A q \in Requests :
       /\ request[q] = "approved" => clientOf[q] # None
       /\ clientOf[q] # None => request[q] \in {"approved", "gone"}
       /\ q \in claimed => clientOf[q] # None
       /\ clientOf[q] \in holds <=> q \in claimed
  /\ \A q, r \in Requests : clientOf[q] = clientOf[r] /\ clientOf[q] # None => q = r

\* The client may be given out, or was.
Given(c) == c \in holds \/ \E q \in Requests : clientOf[q] = c

Claimable(q) == request[q] = "approved" /\ q \notin expired \cup claimed

RegisteredHold ==
  /\ \A c \in Clients : removal[c] = "done" => clients[c] = None /\ disk[c] = None
  /\ \A c \in Clients : c \in holds /\ removal[c] = "none" => clients[c] # None /\ disk[c] # None
  /\ \A q \in Requests : Claimable(q) /\ removal[clientOf[q]] = "none" =>
       clients[clientOf[q]] # None /\ disk[clientOf[q]] # None
  /\ \A c \in Clients : Given(c) /\ clients[c] # None /\ denied[c] = "none" => clients[c] = disk[c]

\* Requests that took a ticket, and those that take a place.
Busy(q) == request[q] \in {"hashing", "pending", "approved", "rejected"}
Occupied == {q \in Requests : Busy(q)}

TicketsHold ==
  /\ \A q \in Requests :
       /\ request[q] \in {"queued", "hashing"} \/ q \in Rows => ticketOf[q] \in Tickets
       /\ request[q] = "queued" => ticket[ticketOf[q]] # "none"
       /\ request[q] = "hashing" => ticket[ticketOf[q]] = "inUse"
       /\ q \in Rows => ticket[ticketOf[q]] = "spent"
  /\ \A q, r \in Requests : Busy(q) /\ Busy(r) /\ ticketOf[q] = ticketOf[r] => q = r

PlacesHold == IsFiniteSet(Occupied) /\ Cardinality(Occupied) <= MaxPending

Kernel == /\ CommandsHold /\ QueueHolds /\ RunningHolds /\ SessionsHold
          /\ RowsHold /\ RegisteredHold /\ TicketsHold /\ PlacesHold

IInv == Types /\ Kernel
-----------------------------------------------------------------------------
(* The queue. *)

\* What the queue holds, and its first operation.
LEMMA QueueEntries ==
  ASSUME CallerTypes
  PROVE  /\ Len(queue) \in Nat
         /\ \A k \in 1..Len(queue) : queue[k] \in Ops
         /\ queue # <<>> => 1 \in 1..Len(queue) /\ op = queue[1] /\ op \in Ops
BY DEF CallerTypes, op

\* Appending keeps the first operation.
LEMMA AppendAt ==
  ASSUME NEW S, NEW q \in Seq(S), NEW x \in S
  PROVE  /\ Append(q, x) \in Seq(S)
         /\ Len(Append(q, x)) = Len(q) + 1
         /\ \A k \in 1..Len(q) : Append(q, x)[k] = q[k]
         /\ Append(q, x)[Len(q) + 1] = x
         /\ Append(q, x) # <<>>
         /\ q # <<>> => Head(Append(q, x)) = Head(q)
<1>1. /\ Append(q, x) \in Seq(S)
      /\ Len(Append(q, x)) = Len(q) + 1
      /\ \A k \in 1..Len(q) : Append(q, x)[k] = q[k]
      /\ Append(q, x)[Len(q) + 1] = x
  OBVIOUS
<1>2. Append(q, x) # <<>>
  BY <1>1, Len(q) \in Nat, Len(<<>>) = 0
<1>3. q # <<>> => Head(Append(q, x)) = Head(q)
  <2> SUFFICES ASSUME q # <<>> PROVE Head(Append(q, x)) = Head(q)
    OBVIOUS
  <2>1. 1 \in 1..Len(q) /\ Head(q) = q[1]
    OBVIOUS
  <2>2. Head(Append(q, x)) = Append(q, x)[1]
    OBVIOUS
  <2> QED
    BY <1>1, <2>1, <2>2
<1> QED
  BY <1>1, <1>2, <1>3

LEMMA TailAt ==
  ASSUME NEW S, NEW q \in Seq(S), q # <<>>
  PROVE  /\ Tail(q) \in Seq(S)
         /\ Len(q) \in Nat \ {0} /\ Len(Tail(q)) = Len(q) - 1
         /\ \A k \in 1..Len(Tail(q)) : k + 1 \in 1..Len(q) /\ Tail(q)[k] = q[k + 1]
         /\ Head(q) = q[1] /\ Head(q) \in S
  OBVIOUS

\* The operation from place d + 1 on keeps what it says; a command keeps its client and generation.
Waits(d, p) == \E k \in (1 + d)..Len(queue) : queue[k] = p

Steady(d) ==
  \A p \in Ops : Waits(d, p) /\ QueuedAt(p) =>
    /\ QueuedAt(p)'
    /\ IsCommand(p) => /\ command'[p.by].client = command[p.by].client
                       /\ command'[p.by].generation = command[p.by].generation

\* The queue moves by d places: the operations in it are the same but for the id of a new client.
Moves(d) ==
  /\ queue' \in Seq(Ops)
  /\ \A k \in 1..Len(queue') : /\ k + d \in (1 + d)..Len(queue)
                               /\ queue'[k].kind = queue[k + d].kind
                               /\ queue'[k].by = queue[k + d].by

LEMMA QueueMoves ==
  ASSUME CallerTypes, QueueHolds, NEW d \in {0, 1}, Moves(d), Steady(d)
  PROVE  QueueHolds'
<1>0. /\ Len(queue) \in Nat /\ Len(queue') \in Nat
      /\ \A k \in 1..Len(queue) : queue[k] \in Ops /\ QueuedAt(queue[k])
      /\ \A k \in 1..Len(queue') : k + d \in 1..Len(queue) /\ k + d \in (1 + d)..Len(queue)
  BY DEF CallerTypes, QueueHolds, Moves
<1>1. ASSUME NEW k \in 1..Len(queue') PROVE QueuedAt(queue[k])'
  <2>1. PICK p \in Ops : p = queue[k + d]
    BY <1>0, <1>1
  <2>2. PICK r : r = queue'[k]
    OBVIOUS
  <2>3. r.kind = p.kind /\ r.by = p.by
    BY <1>1, <2>1, <2>2 DEF Moves
  <2>4. QueuedAt(p)'
    BY <1>0, <1>1, <2>1 DEF Steady, Waits
  <2>5. QueuedAt(r)'
    BY <2>3, <2>4 DEF QueuedAt, QueuedCommand, IsCommand
  <2> QED
    BY <2>2, <2>5 DEF QueuedAt, QueuedCommand, IsCommand
<1>2. ASSUME NEW j \in 1..Len(queue'), NEW k \in 1..Len(queue'), j < k
      PROVE  InOrder(queue[j], queue[k])'
  <2>1. PICK p \in Ops : p = queue[j + d]
    BY <1>0
  <2>2. PICK r \in Ops : r = queue[k + d]
    BY <1>0
  <2>3. InOrder(p, r)
    <3>1. j + d < k + d
      BY <1>2, <1>0
    <3> QED
      BY <1>0, <2>1, <2>2, <3>1 DEF QueueHolds
  <2>4. /\ IsCommand(p) => /\ command'[p.by].client = command[p.by].client
                           /\ command'[p.by].generation = command[p.by].generation
        /\ IsCommand(r) => /\ command'[r.by].client = command[r.by].client
                           /\ command'[r.by].generation = command[r.by].generation
    BY <1>0, <2>1, <2>2 DEF Steady, Waits
  <2>5. /\ queue'[j].kind = p.kind /\ queue'[j].by = p.by
        /\ queue'[k].kind = r.kind /\ queue'[k].by = r.by
    BY <2>1, <2>2 DEF Moves
  <2> QED
    BY <2>3, <2>4, <2>5 DEF InOrder, IsCommand
<1> QED
  BY <1>1, <1>2 DEF QueueHolds

\* An operation joins the queue behind operations that keep what they say.
LEMMA QueueGrows ==
  ASSUME CallerTypes, QueueHolds, NEW o \in Ops, queue' = Append(queue, o), Steady(0), QueuedAt(o)',
         \A p \in Ops : Waits(0, p) /\ QueuedAt(p) => InOrder(p, o)'
  PROVE  QueueHolds'
<1>0. /\ Len(queue) \in Nat /\ Len(queue') = Len(queue) + 1
      /\ \A k \in 1..Len(queue) : queue[k] \in Ops /\ QueuedAt(queue[k]) /\ queue'[k] = queue[k]
                                  /\ Waits(0, queue[k])
      /\ queue'[Len(queue) + 1] = o
  BY AppendAt DEF CallerTypes, QueueHolds, Waits
<1>1. ASSUME NEW k \in 1..Len(queue') PROVE QueuedAt(queue[k])'
  <2>1. CASE k \in 1..Len(queue)
    <3>1. PICK p \in Ops : p = queue[k] /\ p = queue'[k] /\ QueuedAt(p) /\ Waits(0, p)
      BY <1>0, <2>1
    <3>2. QueuedAt(p)'
      BY <3>1 DEF Steady
    <3> QED
      BY <3>1, <3>2 DEF QueuedAt, QueuedCommand, IsCommand
  <2>2. CASE k = Len(queue) + 1
    BY <1>0, <2>2 DEF QueuedAt, QueuedCommand, IsCommand
  <2> QED
    BY <1>0, <1>1, <2>1, <2>2
<1>2. ASSUME NEW j \in 1..Len(queue'), NEW k \in 1..Len(queue'), j < k
      PROVE  InOrder(queue[j], queue[k])'
  <2>0. j \in 1..Len(queue)
    BY <1>0, <1>2
  <2>1. PICK p \in Ops : p = queue[j] /\ p = queue'[j] /\ QueuedAt(p) /\ Waits(0, p)
    BY <1>0, <2>0
  <2>2. CASE k \in 1..Len(queue)
    <3>1. PICK r \in Ops : r = queue[k] /\ r = queue'[k] /\ QueuedAt(r) /\ Waits(0, r)
      BY <1>0, <2>2
    <3>2. InOrder(p, r)
      BY <1>2, <2>0, <2>1, <2>2, <3>1 DEF QueueHolds
    <3>3. /\ IsCommand(p) => /\ command'[p.by].client = command[p.by].client
                             /\ command'[p.by].generation = command[p.by].generation
          /\ IsCommand(r) => /\ command'[r.by].client = command[r.by].client
                             /\ command'[r.by].generation = command[r.by].generation
      BY <2>1, <3>1 DEF Steady
    <3> QED
      BY <2>1, <3>1, <3>2, <3>3 DEF InOrder, IsCommand
  <2>3. CASE k = Len(queue) + 1
    <3>1. InOrder(p, o)'
      BY <2>1
    <3> QED
      BY <1>0, <2>1, <2>3, <3>1 DEF InOrder, IsCommand
  <2> QED
    BY <1>0, <2>2, <2>3
<1> QED
  BY <1>1, <1>2 DEF QueueHolds
-----------------------------------------------------------------------------
(* What each part of the invariant depends on. *)

LEMMA Frames ==
  /\ CommandsHold /\ UNCHANGED <<command, denied, removal>> => CommandsHold'
  /\ QueueHolds /\ UNCHANGED <<queue, request, command, denied, generation>> => QueueHolds'
  /\ RunningHolds /\ UNCHANGED <<queue, phase, swept, request, expired, clientOf, holds, clients, command>>
       => RunningHolds'
  /\ SessionsHold /\ UNCHANGED <<signIn, session, clients, denied, holds>> => SessionsHold'
  /\ RowsHold /\ UNCHANGED <<request, clientOf, claimed, holds>> => RowsHold'
  /\ RegisteredHold /\ UNCHANGED <<disk, clients, denied, holds, removal, request, clientOf, claimed, expired>>
       => RegisteredHold'
  /\ TicketsHold /\ UNCHANGED <<request, ticketOf, ticket>> => TicketsHold'
  /\ PlacesHold /\ UNCHANGED request => PlacesHold'
<1>1. CommandsHold /\ UNCHANGED <<command, denied, removal>> => CommandsHold'
  BY DEF CommandsHold, CommandAt
<1>2. QueueHolds /\ UNCHANGED <<queue, request, command, denied, generation>> => QueueHolds'
  BY DEF QueueHolds, QueuedAt, QueuedCommand, InOrder, IsCommand
<1>3. RunningHolds /\ UNCHANGED <<queue, phase, swept, request, expired, clientOf, holds, clients, command>>
       => RunningHolds'
  BY DEF RunningHolds, Rows, NewClient, op
<1>4. SessionsHold /\ UNCHANGED <<signIn, session, clients, denied, holds>> => SessionsHold'
  BY DEF SessionsHold, OneSessionPerClient
<1>5. RowsHold /\ UNCHANGED <<request, clientOf, claimed, holds>> => RowsHold'
  BY DEF RowsHold
<1>6. RegisteredHold /\ UNCHANGED <<disk, clients, denied, holds, removal, request, clientOf, claimed, expired>>
       => RegisteredHold'
  BY DEF RegisteredHold, Given, Claimable
<1>7. TicketsHold /\ UNCHANGED <<request, ticketOf, ticket>> => TicketsHold'
  BY DEF TicketsHold, Busy, Rows
<1>8. PlacesHold /\ UNCHANGED request => PlacesHold'
  BY DEF PlacesHold, Occupied, Busy
<1> QED
  BY <1>1, <1>2, <1>3, <1>4, <1>5, <1>6, <1>7, <1>8

\* Steps outside the queue leave the running operation where it was.
LEMMA RunningKept ==
  ASSUME CallerTypes, QueueHolds, RunningHolds, UNCHANGED <<phase, swept, clients>>,
         queue # <<>> => queue' # <<>> /\ op' = op, Steady(0),
         \A q \in Requests : q \in Rows \cap expired => q \in Rows' \cap expired',
         \A q \in Requests : request[q] \in {"pending", "rejected"} => request'[q] \in {"pending", "rejected"},
         \A c \in Clients : NewClient(c) => c \notin holds' /\ \A q \in Requests : clientOf'[q] # c
  PROVE  RunningHolds'
<1>1. phase' # "begin" => queue' # <<>>
  BY DEF RunningHolds
<1>2. phase' = "sweeping" => swept' # {} /\ swept' \subseteq (Rows \cap expired)'
  <2>1. phase' = "sweeping" => swept # {} /\ swept \subseteq Rows \cap expired
    BY DEF RunningHolds
  <2> QED
    BY <2>1 DEF Rows
<1>3. ASSUME phase' = "writing"
      PROVE  /\ op'.kind # "submit"
             /\ op'.kind = "approve" => request'[op'.by] \in {"pending", "rejected"} /\ NewClient(op.client)'
             /\ op'.kind = "remove" => clients'[command'[op'.by].client] = None
  <2>1. op' = op /\ op \in Ops /\ QueuedAt(op) /\ Waits(0, op)
    BY <1>3, QueueEntries DEF RunningHolds, QueueHolds, Waits
  <2>2. /\ op.kind # "submit"
        /\ op.kind = "approve" => request[op.by] \in {"pending", "rejected"} /\ NewClient(op.client)
        /\ op.kind = "remove" => clients[command[op.by].client] = None
    BY <1>3 DEF RunningHolds
  <2>3. ASSUME op.kind = "approve"
        PROVE  request'[op.by] \in {"pending", "rejected"} /\ NewClient(op.client)'
    <3>1. request'[op.by] \in {"pending", "rejected"}
      BY <2>1, <2>2, <2>3 DEF QueuedAt
    <3>2. PICK c \in Clients : c = op.client
      BY <2>2, <2>3 DEF NewClient
    <3>3. NewClient(c)'
      BY <2>2, <2>3, <3>2 DEF NewClient
    <3> QED
      BY <2>1, <3>1, <3>2, <3>3 DEF NewClient
  <2>4. ASSUME op.kind = "remove"
        PROVE  clients'[command'[op.by].client] = None
    BY <2>1, <2>2, <2>4 DEF Steady, IsCommand
  <2> QED
    BY <2>1, <2>2, <2>3, <2>4
<1> QED
  BY <1>1, <1>2, <1>3 DEF RunningHolds, op

\* Fewer places taken.
LEMMA FewerPlaces ==
  ASSUME PlacesHold, Occupied' \subseteq Occupied
  PROVE  PlacesHold'
<1>1. IsFiniteSet(Occupied) /\ Cardinality(Occupied) <= MaxPending
  BY DEF PlacesHold
<1>2. IsFiniteSet(Occupied') /\ Cardinality(Occupied') <= Cardinality(Occupied)
  BY <1>1, FS_Subset
<1>3. Cardinality(Occupied) \in Nat /\ Cardinality(Occupied') \in Nat /\ MaxPending \in Nat
  BY <1>1, <1>2, FS_CardinalityType, ConstantsAssumption
<1> QED
  BY <1>1, <1>2, <1>3 DEF PlacesHold
-----------------------------------------------------------------------------
(* Registration. *)

\* Nothing the queue says changes.
LEMMA SteadyQueue ==
  ASSUME UNCHANGED <<command, denied, generation>>,
         \A q \in Requests : request[q] = "queued" => request'[q] = "queued"
  PROVE  Steady(0)
BY DEF Steady, QueuedAt, QueuedCommand, IsCommand

LEMMA IssueTicketHolds ==
  ASSUME Types, Kernel, NEW t \in Tickets, IssueTicket(t)
  PROVE  Kernel'
<1>1. /\ ticket[t] = "none" /\ ticket' = [ticket EXCEPT ![t] = "free"]
      /\ UNCHANGED <<request, ticketOf>>
  BY DEF IssueTicket
<1>2. TicketsHold'
  <2>1. \A q \in Requests : request[q] = "queued" => ticketOf[q] \in Tickets /\ ticketOf[q] # t
    BY <1>1 DEF Kernel, TicketsHold
  <2>2. \A q \in Requests : q \in Rows \/ request[q] = "hashing" => ticketOf[q] \in Tickets /\ ticketOf[q] # t
    BY <1>1 DEF Kernel, TicketsHold
  <2> QED
    BY <1>1, <2>1, <2>2 DEF Kernel, TicketsHold, Types, RequestTypes, Busy, Rows
<1> QED
  BY <1>2, Frames DEF Kernel, IssueTicket, clientVars, queueVars, callerVars, historyVars

LEMMA SubmitHolds ==
  ASSUME Types, Kernel, NEW q \in Requests, NEW t \in Tickets, Submit(q, t)
  PROVE  Kernel'
<1>0. /\ request[q] = "new" /\ ticket[t] # "none"
      /\ request' = [request EXCEPT ![q] = "queued"]
      /\ ticketOf' = [ticketOf EXCEPT ![q] = t]
      /\ UNCHANGED <<disk, clients, generation, denied, ticket, clientOf, claimed, expired, phase, swept,
                     signIn, session, command, holds, removal>>
  BY DEF Submit, clientVars, callerVars, historyVars
<1> DEFINE o == [kind |-> "submit", by |-> q, client |-> None]
<1>1. o \in Ops /\ queue' = Append(queue, o) /\ o.kind = "submit" /\ o.by = q
  BY DEF Submit, Enqueue, Ops
<1> HIDE DEF o
<1>2. CallerTypes /\ QueueHolds /\ RequestTypes
  BY DEF Types, Kernel
<1>3. Steady(0)
  BY <1>0, <1>2, SteadyQueue DEF RequestTypes
<1>4. QueueHolds'
  <2>1. QueuedAt(o)'
    BY <1>0, <1>1, <1>2 DEF QueuedAt, QueuedCommand, IsCommand, RequestTypes
  <2>2. \A p \in Ops : Waits(0, p) /\ QueuedAt(p) => InOrder(p, o)'
    BY <1>0, <1>1 DEF InOrder, QueuedAt, IsCommand
  <2> QED
    BY <1>1, <1>2, <1>3, <2>1, <2>2, QueueGrows
<1>5. RunningHolds'
  <2>1. queue # <<>> => queue' # <<>> /\ op' = op
    BY <1>1, <1>2, AppendAt DEF CallerTypes, op
  <2>2. \A r \in Requests : r \in Rows \cap expired => r \in Rows' \cap expired'
    BY <1>0, <1>2 DEF Rows, RequestTypes
  <2>3. \A r \in Requests : request[r] \in {"pending", "rejected"} => request'[r] \in {"pending", "rejected"}
    BY <1>0, <1>2 DEF RequestTypes
  <2>4. \A c \in Clients : NewClient(c) => c \notin holds' /\ \A r \in Requests : clientOf'[r] # c
    BY <1>0 DEF NewClient
  <2> QED
    BY <1>0, <1>2, <1>3, <2>1, <2>2, <2>3, <2>4, RunningKept DEF Kernel
<1>6. RowsHold' /\ RegisteredHold'
  BY <1>0, <1>2 DEF Kernel, RowsHold, RegisteredHold, RequestTypes, Given, Claimable
<1>7. TicketsHold'
  BY <1>0, <1>2 DEF Kernel, TicketsHold, RequestTypes, Busy, Rows
<1>8. PlacesHold'
  <2>1. Occupied' \subseteq Occupied
    BY <1>0, <1>2 DEF Occupied, Busy, RequestTypes
  <2> QED
    BY <2>1, FewerPlaces DEF Kernel
<1> QED
  BY <1>0, <1>4, <1>5, <1>6, <1>7, <1>8, Frames DEF Kernel

\* A request that moves along outside the queue: hashing ends or the owner rejects it.
LEMMA RequestMoves ==
  ASSUME Types, Kernel, NEW q \in Requests, NEW r \in {"pending", "rejected", "gone"},
         \/ request[q] = "hashing" /\ r \in {"pending", "gone"}
         \/ request[q] = "pending" /\ q \notin expired /\ r = "rejected",
         request' = [request EXCEPT ![q] = r],
         UNCHANGED <<disk, clients, generation, denied, ticketOf, clientOf, claimed, expired, queue, phase,
                     swept, signIn, session, command, holds, removal>>,
         TicketsHold'
  PROVE  Kernel'
<1>2. CallerTypes /\ QueueHolds /\ RequestTypes
  BY DEF Types, Kernel
<1>3. Steady(0)
  BY <1>2, SteadyQueue DEF RequestTypes
<1>4. QueueHolds'
  <2>1. Moves(0)
    BY <1>2 DEF Moves, CallerTypes
  <2> QED
    BY <1>2, <1>3, <2>1, QueueMoves
<1>5. RunningHolds'
  <2>2. \A x \in Requests : x \in Rows \cap expired => x \in Rows' \cap expired'
    BY <1>2 DEF Rows, RequestTypes
  <2>3. \A x \in Requests : request[x] \in {"pending", "rejected"} => request'[x] \in {"pending", "rejected"}
    BY <1>2 DEF RequestTypes
  <2>4. \A c \in Clients : NewClient(c) => c \notin holds' /\ \A x \in Requests : clientOf'[x] # c
    BY DEF NewClient
  <2>5. op' = op
    BY DEF op
  <2> QED
    BY <1>2, <1>3, <2>2, <2>3, <2>4, <2>5, RunningKept DEF Kernel
<1>6. RowsHold' /\ RegisteredHold'
  BY <1>2 DEF Kernel, RowsHold, RegisteredHold, RequestTypes, Given, Claimable
<1>8. PlacesHold'
  <2>1. Occupied' \subseteq Occupied
    BY <1>2 DEF Occupied, Busy, RequestTypes
  <2> QED
    BY <2>1, FewerPlaces DEF Kernel
<1> QED
  BY <1>4, <1>5, <1>6, <1>8, Frames DEF Kernel

LEMMA HashedHolds ==
  ASSUME Types, Kernel, NEW q \in Requests, Hashed(q)
  PROVE  Kernel'
<1>1. PICK accepted \in BOOLEAN :
        /\ request' = [request EXCEPT ![q] = IF accepted THEN "pending" ELSE "gone"]
        /\ ticket' = [ticket EXCEPT ![ticketOf[q]] = IF accepted THEN "spent" ELSE "free"]
  BY DEF Hashed
<1>2. /\ request[q] = "hashing"
      /\ UNCHANGED <<disk, clients, generation, denied, ticketOf, clientOf, claimed, expired, queue, phase,
                     swept, signIn, session, command, holds, removal>>
  BY DEF Hashed, clientVars, queueVars, callerVars, historyVars
<1>3. \A x \in Requests : Busy(x) /\ x # q => ticketOf[x] # ticketOf[q]
  BY <1>2 DEF Kernel, TicketsHold, Busy
<1>4. ticketOf[q] \in Tickets
  BY <1>2 DEF Kernel, TicketsHold
<1>5. TicketsHold'
  BY <1>1, <1>2, <1>3, <1>4 DEF Kernel, TicketsHold, Types, RequestTypes, Busy, Rows
<1>6. CASE accepted
  BY <1>1, <1>2, <1>5, <1>6, RequestMoves
<1>7. CASE ~accepted
  BY <1>1, <1>2, <1>5, <1>7, RequestMoves
<1> QED
  BY <1>6, <1>7

LEMMA RejectHolds ==
  ASSUME Types, Kernel, NEW q \in Requests, Reject(q)
  PROVE  Kernel'
<1>1. /\ request[q] = "pending" /\ q \notin expired /\ request' = [request EXCEPT ![q] = "rejected"]
      /\ UNCHANGED <<disk, clients, generation, denied, ticket, ticketOf, clientOf, claimed, expired, queue,
                     phase, swept, signIn, session, command, holds, removal>>
  BY DEF Reject, clientVars, queueVars, callerVars
<1>2. TicketsHold'
  BY <1>1 DEF Kernel, TicketsHold, Types, RequestTypes, Busy, Rows
<1> QED
  BY <1>1, <1>2, RequestMoves

LEMMA ApproveHolds ==
  ASSUME Types, Kernel, NEW q \in Requests, Approve(q)
  PROVE  Kernel'
<1>0. UNCHANGED <<disk, clients, generation, denied, ticket, request, ticketOf, clientOf, claimed, expired,
                  phase, swept, signIn, session, command, holds, removal>>
  BY DEF Approve, clientVars, requestVars, callerVars, historyVars
<1> DEFINE o == [kind |-> "approve", by |-> q, client |-> None]
<1>1. o \in Ops /\ queue' = Append(queue, o) /\ o.kind = "approve" /\ o.by = q
  BY DEF Approve, Enqueue, Ops
<1> HIDE DEF o
<1>2. CallerTypes /\ QueueHolds
  BY DEF Types, Kernel
<1>3. Steady(0)
  BY <1>0, SteadyQueue
<1>4. QueueHolds'
  <2>1. QueuedAt(o)'
    BY <1>1 DEF QueuedAt, QueuedCommand, IsCommand
  <2>2. \A p \in Ops : Waits(0, p) /\ QueuedAt(p) => InOrder(p, o)'
    BY <1>1 DEF InOrder, IsCommand
  <2> QED
    BY <1>1, <1>2, <1>3, <2>1, <2>2, QueueGrows
<1>5. RunningHolds'
  <2>1. queue # <<>> => queue' # <<>> /\ op' = op
    BY <1>1, <1>2, AppendAt DEF CallerTypes, op
  <2>2. \A r \in Requests : r \in Rows \cap expired => r \in Rows' \cap expired'
    BY <1>0 DEF Rows
  <2>4. \A c \in Clients : NewClient(c) => c \notin holds' /\ \A r \in Requests : clientOf'[r] # c
    BY <1>0 DEF NewClient
  <2> QED
    BY <1>0, <1>2, <1>3, <2>1, <2>2, <2>4, RunningKept DEF Kernel
<1> QED
  BY <1>0, <1>4, <1>5, Frames DEF Kernel

LEMMA ClaimHolds ==
  ASSUME Types, Kernel, NEW q \in Requests, Claim(q)
  PROVE  Kernel'
<1>0. /\ request[q] = "approved" /\ q \notin expired \cup claimed
      /\ claimed' = claimed \cup {q} /\ holds' = holds \cup {clientOf[q]}
      /\ UNCHANGED <<disk, clients, generation, denied, ticket, request, ticketOf, clientOf, expired, queue,
                     phase, swept, signIn, session, command, removal>>
  BY DEF Claim, clientVars, queueVars, callerVars
<1>1. clientOf[q] \in Clients
  BY <1>0 DEF Types, RequestTypes, Kernel, RowsHold
<1>2. CallerTypes /\ QueueHolds /\ Steady(0)
  BY <1>0, SteadyQueue DEF Types, Kernel
<1>3. RunningHolds'
  <2>1. op' = op
    BY <1>0 DEF op
  <2>2. \A r \in Requests : r \in Rows \cap expired => r \in Rows' \cap expired'
    BY <1>0 DEF Rows
  <2>3. \A c \in Clients : NewClient(c) => c \notin holds' /\ \A r \in Requests : clientOf'[r] # c
    BY <1>0 DEF NewClient
  <2> QED
    BY <1>0, <1>2, <2>1, <2>2, <2>3, RunningKept DEF Kernel
<1>4. SessionsHold'
  BY <1>0 DEF Kernel, SessionsHold, OneSessionPerClient
<1>5. RowsHold'
  <2>1. \A r \in Requests : clientOf[r] = clientOf[q] => r = q
    BY <1>0, <1>1, ConstantsAssumption DEF Kernel, RowsHold
  <2> QED
    BY <1>0, <1>1, <2>1 DEF Kernel, RowsHold
<1>6. RegisteredHold'
  <2>1. \A c \in Clients : Given(c)' => Given(c)
    BY <1>0 DEF Given
  <2>2. removal[clientOf[q]] = "none" => clients[clientOf[q]] # None /\ disk[clientOf[q]] # None
    BY <1>0 DEF Kernel, RegisteredHold, Claimable
  <2>3. \A r \in Requests : Claimable(r)' => Claimable(r)
    BY <1>0 DEF Claimable
  <2>4. \A c \in Clients : c \in holds' /\ removal'[c] = "none" => clients'[c] # None /\ disk'[c] # None
    BY <1>0, <1>1, <2>2 DEF Kernel, RegisteredHold
  <2> QED
    BY <1>0, <2>1, <2>3, <2>4 DEF Kernel, RegisteredHold
<1> QED
  BY <1>0, <1>3, <1>4, <1>5, <1>6, Frames DEF Kernel

LEMMA ExpireHolds ==
  ASSUME Types, Kernel, NEW x \in Tickets \cup Requests, Expire(x)
  PROVE  Kernel'
<1>0. /\ expired' = expired \cup {x}
      /\ UNCHANGED <<disk, clients, generation, denied, ticket, request, ticketOf, clientOf, claimed, queue,
                     phase, swept, signIn, session, command, holds, removal>>
  BY DEF Expire, clientVars, queueVars, callerVars, historyVars
<1>2. CallerTypes /\ QueueHolds /\ Steady(0)
  BY <1>0, SteadyQueue DEF Types, Kernel
<1>3. RunningHolds'
  <2>1. op' = op
    BY <1>0 DEF op
  <2>2. \A r \in Requests : r \in Rows \cap expired => r \in Rows' \cap expired'
    BY <1>0 DEF Rows
  <2>3. \A c \in Clients : NewClient(c) => c \notin holds' /\ \A r \in Requests : clientOf'[r] # c
    BY <1>0 DEF NewClient
  <2> QED
    BY <1>0, <1>2, <2>1, <2>2, <2>3, RunningKept DEF Kernel
<1>4. RegisteredHold'
  BY <1>0 DEF Kernel, RegisteredHold, Given, Claimable
<1> QED
  BY <1>0, <1>3, <1>4, Frames DEF Kernel
-----------------------------------------------------------------------------
(* The owner's commands and sign-in. *)

\* invalidate: the client is denied, a removal's denial stays, and its generation moves on.
LEMMA Invalidated ==
  ASSUME ClientTypes, NEW c \in Clients, NEW kind \in {"remove", "permission"}, Invalidate(c, kind)
  PROVE  /\ generation' \in [Clients -> Nat] /\ denied' \in [Clients -> {"none", "downgrade", "remove"}]
         /\ generation'[c] = generation[c] + 1
         /\ \A d \in Clients \ {c} : generation'[d] = generation[d] /\ denied'[d] = denied[d]
         /\ denied'[c] \in {"downgrade", "remove"}
         /\ denied'[c] = "remove" <=> (kind = "remove" \/ denied[c] = "remove")
         /\ \A d \in Clients : generation[d] <= generation'[d]
         /\ \A d \in Clients : denied[d] # "none" => denied'[d] # "none"
         /\ \A d \in Clients : denied[d] = "remove" => denied'[d] = "remove"
<1>1. /\ generation' = [generation EXCEPT ![c] = generation[c] + 1]
      /\ denied' = [denied EXCEPT ![c] = IF kind = "remove" \/ denied[c] = "remove" THEN "remove" ELSE "downgrade"]
      /\ generation \in [Clients -> Nat] /\ denied \in [Clients -> {"none", "downgrade", "remove"}]
  BY DEF Invalidate, ClientTypes
<1> QED
  BY <1>1

\* A command that is not queued changes, clients are denied and generations move on.
LEMMA SteadyCommands ==
  ASSUME CallerTypes, QueueHolds, CommandsHold, NEW m \in Commands, command[m].pc # "queued",
         \A n \in Commands \ {m} : command'[n] = command[n],
         \A d \in Clients : generation[d] <= generation'[d] /\ generation[d] \in Nat /\ generation'[d] \in Nat,
         \A d \in Clients : denied[d] # "none" => denied'[d] # "none",
         UNCHANGED request
  PROVE  Steady(0)
<1> SUFFICES ASSUME NEW p \in Ops, QueuedAt(p)
             PROVE  /\ QueuedAt(p)'
                    /\ IsCommand(p) => /\ command'[p.by].client = command[p.by].client
                                       /\ command'[p.by].generation = command[p.by].generation
  BY DEF Steady
<1>1. CASE ~IsCommand(p)
  BY <1>1 DEF QueuedAt, QueuedCommand
<1>2. CASE IsCommand(p)
  <2>1. p.by \in Commands /\ p.by # m /\ command[p.by].pc = "queued"
    BY <1>2 DEF QueuedAt, QueuedCommand
  <2>2. command'[p.by] = command[p.by] /\ command[p.by].client \in Clients /\ command[p.by].generation \in Nat
    BY <2>1 DEF CommandsHold, CommandAt, CallerTypes
  <2>3. /\ denied'[command[p.by].client] # "none"
        /\ command[p.by].generation <= generation'[command[p.by].client]
    BY <1>2, <2>2 DEF QueuedAt, QueuedCommand
  <2> QED
    BY <1>2, <2>1, <2>2, <2>3 DEF QueuedAt, QueuedCommand, IsCommand
<1> QED
  BY <1>1, <1>2

LEMMA IssueHolds ==
  ASSUME Types, Kernel, NEW m \in Commands, NEW c \in Clients, NEW kind \in {"remove", "permission"}, NEW p,
         kind = "permission" => p \in Permissions, Issue(m, kind, c, p)
  PROVE  Kernel'
<1>0. /\ command[m].pc = "idle" /\ clients[c] # None /\ Invalidate(c, kind)
      /\ session' = session \ Sessions(c)
      /\ command' = [command EXCEPT ![m] = [pc |-> "revoking", kind |-> kind, client |-> c,
                                            permission |-> p, generation |-> 0]]
      /\ removal' = [removal EXCEPT ![c] = IF kind = "remove" THEN "asked" ELSE removal[c]]
      /\ UNCHANGED <<disk, clients, ticket, request, ticketOf, clientOf, claimed, expired, queue,
                     phase, swept, signIn, holds>>
  BY DEF Issue, requestVars, queueVars
<1>t. ClientTypes /\ CallerTypes /\ RequestTypes /\ QueueHolds /\ CommandsHold
  BY DEF Types, Kernel
<1>i. /\ generation' \in [Clients -> Nat] /\ denied' \in [Clients -> {"none", "downgrade", "remove"}]
      /\ \A d \in Clients \ {c} : generation'[d] = generation[d] /\ denied'[d] = denied[d]
      /\ denied'[c] \in {"downgrade", "remove"}
      /\ denied'[c] = "remove" <=> (kind = "remove" \/ denied[c] = "remove")
      /\ \A d \in Clients : generation[d] <= generation'[d]
      /\ \A d \in Clients : denied[d] # "none" => denied'[d] # "none"
      /\ \A d \in Clients : denied[d] = "remove" => denied'[d] = "remove"
  BY <1>0, <1>t, Invalidated
<1>c. \A n \in Commands \ {m} : command'[n] = command[n]
  BY <1>0, <1>t DEF CallerTypes
<1>1. CommandsHold'
  <2> SUFFICES ASSUME NEW n \in Commands PROVE CommandAt(n)'
    BY DEF CommandsHold
  <2>1. CASE n = m
    BY <1>0, <1>i, <1>t, <2>1 DEF CommandAt, CallerTypes, ClientTypes
  <2>2. CASE n # m
    <3>1. CommandAt(n) /\ command'[n] = command[n]
      BY <1>c, <1>t, <2>2 DEF CommandsHold
    <3>2. \A d \in Clients : removal[d] # "none" => removal'[d] # "none"
      BY <1>0, <1>t DEF ClientTypes
    <3> QED
      BY <1>i, <3>1, <3>2 DEF CommandAt
  <2> QED
    BY <2>1, <2>2
<1>2. Steady(0)
  BY <1>0, <1>c, <1>i, <1>t, SteadyCommands DEF ClientTypes
<1>3. QueueHolds'
  <2>1. Moves(0)
    BY <1>0, <1>t DEF Moves, CallerTypes
  <2> QED
    BY <1>t, <1>2, <2>1, QueueMoves
<1>4. RunningHolds'
  <2>1. op' = op
    BY <1>0 DEF op
  <2>2. \A r \in Requests : r \in Rows \cap expired => r \in Rows' \cap expired'
    BY <1>0 DEF Rows
  <2>3. \A d \in Clients : NewClient(d) => d \notin holds' /\ \A r \in Requests : clientOf'[r] # d
    BY <1>0 DEF NewClient
  <2> QED
    BY <1>0, <1>t, <1>2, <2>1, <2>2, <2>3, RunningKept DEF Kernel
<1>5. SessionsHold'
  <2>1. \A a \in session' : a \in session /\ signIn[a].client # c
    BY <1>0 DEF Sessions
  <2>2. \A a \in session : signIn[a].client \in Clients
    BY <1>t, ConstantsAssumption DEF Kernel, SessionsHold, CallerTypes, ClientTypes
  <2> QED
    BY <1>0, <1>i, <2>1, <2>2 DEF Kernel, SessionsHold, OneSessionPerClient
<1>6. RegisteredHold'
  <2>1. \A d \in Clients : removal'[d] = "done" => removal[d] = "done"
    BY <1>0, <1>t DEF ClientTypes
  <2>2. \A d \in Clients : removal'[d] = "none" => removal[d] = "none"
    BY <1>0, <1>t DEF ClientTypes
  <2>3. \A q \in Requests : Claimable(q)' => Claimable(q) /\ clientOf[q] \in Clients
    BY <1>0, <1>t DEF Claimable, Kernel, RowsHold, RequestTypes
  <2>4. \A d \in Clients : denied'[d] = "none" => denied[d] = "none"
    BY <1>i
  <2> QED
    BY <1>0, <2>1, <2>2, <2>3, <2>4 DEF Kernel, RegisteredHold, Given
<1> QED
  BY <1>0, <1>1, <1>3, <1>4, <1>5, <1>6, Frames DEF Kernel

LEMMA RevokedHolds ==
  ASSUME Types, Kernel, NEW m \in Commands, Revoked(m)
  PROVE  Kernel'
<1>p. PICK c \in Clients, kind \in {"remove", "permission"} :
        c = command[m].client /\ kind = command[m].kind
  BY DEF Revoked, Types, Kernel, CommandsHold, CommandAt, CallerTypes
<1>0. /\ command[m].pc = "revoking"
      /\ UNCHANGED <<disk, clients, ticket, request, ticketOf, clientOf, claimed, expired,
                     phase, swept, signIn, holds, removal>>
  BY DEF Revoked, requestVars, historyVars
<1>t. /\ ClientTypes /\ CallerTypes /\ RequestTypes /\ QueueHolds /\ CommandsHold
      /\ command[m] \in [pc : {"idle", "revoking", "queued", "done", "failed"},
                         kind : {"remove", "permission"}, client : Clients \cup {None},
                         permission : Permissions \cup {None}, generation : Nat]
  BY DEF Types, Kernel, CallerTypes
<1>r. \A r \in Requests : r \in Rows \cap expired => r \in Rows' \cap expired'
  BY <1>0 DEF Rows
<1>n. \A d \in Clients : NewClient(d) => d \notin holds' /\ \A r \in Requests : clientOf'[r] # d
  BY <1>0 DEF NewClient
<1>1. CASE StopSharing(m) /\ UNCHANGED <<generation, denied, queue>>
  <2>1. /\ session' = {} /\ \A n \in Commands \ {m} : command'[n] = command[n]
        /\ command'[m].pc = "failed"
    BY <1>1, <1>p, <1>t DEF StopSharing, CallerTypes
  <2>2. CommandsHold'
    BY <1>0, <1>1, <1>p, <1>t, <2>1 DEF CommandsHold, CommandAt
  <2>3. Steady(0)
    BY <1>0, <1>1, <1>p, <1>t, <2>1, SteadyCommands DEF ClientTypes
  <2>4. QueueHolds'
    <3>1. Moves(0)
      BY <1>1, <1>p, <1>t DEF Moves, CallerTypes
    <3> QED
      BY <1>p, <1>t, <2>3, <3>1, QueueMoves
  <2>5. RunningHolds'
    <3>1. op' = op
      BY <1>1 DEF op
    <3> QED
      BY <1>0, <1>1, <1>p, <1>t, <1>r, <1>n, <2>3, <3>1, RunningKept DEF Kernel
  <2>6. SessionsHold'
    BY <1>0, <1>1, <2>1 DEF Kernel, SessionsHold, OneSessionPerClient
  <2> QED
    BY <1>0, <1>1, <2>2, <2>4, <2>5, <2>6, Frames DEF Kernel
<1>2. CASE /\ clients[c] # None
           /\ kind = "permission" => denied[c] # "remove"
           /\ Invalidate(c, kind)
           /\ command' = [command EXCEPT ![m].pc = "queued", ![m].generation = generation[c] + 1]
           /\ Enqueue(kind, m)
           /\ UNCHANGED session
  <2>i. /\ generation' \in [Clients -> Nat] /\ denied' \in [Clients -> {"none", "downgrade", "remove"}]
        /\ generation'[c] = generation[c] + 1
        /\ \A d \in Clients \ {c} : generation'[d] = generation[d] /\ denied'[d] = denied[d]
        /\ denied'[c] \in {"downgrade", "remove"}
        /\ denied'[c] = "remove" <=> (kind = "remove" \/ denied[c] = "remove")
        /\ \A d \in Clients : generation[d] <= generation'[d]
        /\ \A d \in Clients : denied[d] # "none" => denied'[d] # "none"
        /\ \A d \in Clients : denied[d] = "remove" => denied'[d] = "remove"
    BY <1>2, <1>p, <1>t, Invalidated
  <2>c. /\ \A n \in Commands \ {m} : command'[n] = command[n]
        /\ command'[m].pc = "queued" /\ command'[m].client = c /\ command'[m].kind = kind
        /\ command'[m].permission = command[m].permission
        /\ command'[m].generation = generation[c] + 1
    BY <1>2, <1>p, <1>t DEF CallerTypes
  <2>o. PICK o \in Ops : queue' = Append(queue, o) /\ o.kind = kind /\ o.by = m
    BY <1>2, <1>p, <1>t DEF Enqueue, Ops
  <2>1. CommandsHold'
    <3> SUFFICES ASSUME NEW n \in Commands PROVE CommandAt(n)'
      BY DEF CommandsHold
    <3>1. CommandAt(n)
      BY <1>p, <1>t DEF CommandsHold
    <3>2. CASE n = m
      BY <1>0, <1>p, <1>t, <2>c, <2>i, <3>1, <3>2 DEF CommandAt
    <3>3. CASE n # m
      BY <1>0, <2>c, <2>i, <3>1, <3>3 DEF CommandAt
    <3> QED
      BY <3>2, <3>3
  <2>2. Steady(0)
    BY <1>0, <1>p, <1>t, <2>c, <2>i, SteadyCommands DEF ClientTypes
  <2>3. QueueHolds'
    <3>1. QueuedAt(o)'
      BY <1>p, <1>t, <2>c, <2>i, <2>o DEF QueuedAt, QueuedCommand, IsCommand, ClientTypes
    <3>2. ASSUME NEW p \in Ops, Waits(0, p), QueuedAt(p) PROVE InOrder(p, o)'
      <4>1. ASSUME IsCommand(p), command'[p.by].client = c
            PROVE  command'[p.by].generation < command'[m].generation
        <5>1. p.by \in Commands \ {m} /\ command[p.by].generation <= generation[command[p.by].client]
          BY <1>0, <3>2, <4>1 DEF QueuedAt, QueuedCommand
        <5>2. command'[p.by] = command[p.by] /\ command[p.by].generation \in Nat /\ generation[c] \in Nat
          BY <1>p, <1>t, <2>c, <5>1 DEF CallerTypes, ClientTypes
        <5> QED
          BY <2>c, <4>1, <5>1, <5>2
      <4> QED
        BY <1>p, <1>t, <2>c, <2>o, <4>1 DEF InOrder, IsCommand
    <3> QED
      BY <1>p, <1>t, <2>2, <2>o, <3>1, <3>2, QueueGrows
  <2>4. RunningHolds'
    <3>1. queue # <<>> => queue' # <<>> /\ op' = op
      BY <1>p, <1>t, <2>o, AppendAt DEF CallerTypes, op
    <3> QED
      BY <1>0, <1>p, <1>t, <1>r, <1>n, <2>2, <3>1, RunningKept DEF Kernel
  <2>5. SessionsHold'
    <3>1. \A a \in session : signIn[a].client \in Clients
      BY <1>p, <1>t, ConstantsAssumption DEF Kernel, SessionsHold, CallerTypes, ClientTypes
    <3>2. kind = "remove" => denied[c] = "remove"
      BY <1>0, <1>p, <1>t DEF CommandsHold, CommandAt
    <3>3. \A a \in session : denied'[signIn[a].client] # "remove"
      BY <1>2, <2>i, <3>1, <3>2, <1>p, <1>t DEF Kernel, SessionsHold
    <3> QED
      BY <1>0, <1>2, <3>3 DEF Kernel, SessionsHold, OneSessionPerClient
  <2>6. RegisteredHold'
    <3>1. \A d \in Clients : denied'[d] = "none" => denied[d] = "none"
      BY <2>i
    <3> QED
      BY <1>0, <3>1 DEF Kernel, RegisteredHold, Given, Claimable
  <2> QED
    BY <1>0, <2>1, <2>3, <2>4, <2>5, <2>6, Frames DEF Kernel
<1> QED
  BY <1>p, <1>1, <1>2 DEF Revoked

LEMMA SignInHolds ==
  ASSUME Types, Kernel, NEW a \in SignIns, NEW c \in Clients, SignIn(a, c)
  PROVE  Kernel'
<1>0. /\ signIn[a].pc = "idle" /\ c \in holds
      /\ signIn' = [signIn EXCEPT ![a] = [pc |-> "hashing", client |-> c, generation |-> generation[c]]]
      /\ UNCHANGED <<disk, clients, generation, denied, ticket, request, ticketOf, clientOf, claimed, expired,
                     queue, phase, swept, session, command, holds, removal>>
  BY DEF SignIn, clientVars, requestVars, queueVars, historyVars
<1>1. a \notin session
  BY <1>0 DEF Kernel, SessionsHold
<1>2. SessionsHold'
  BY <1>0, <1>1 DEF Kernel, SessionsHold, OneSessionPerClient, Types, CallerTypes
<1> QED
  BY <1>0, <1>2, Frames DEF Kernel

LEMMA VerifiedHolds ==
  ASSUME Types, Kernel, NEW a \in SignIns, Verified(a)
  PROVE  Kernel'
<1>0. /\ signIn[a].pc = "hashing"
      /\ UNCHANGED <<disk, clients, generation, denied, ticket, request, ticketOf, clientOf, claimed, expired,
                     phase, swept, command, holds, removal>>
  BY DEF Verified, clientVars, requestVars, historyVars
<1>t. /\ CallerTypes /\ QueueHolds /\ a \notin session /\ signIn[a].client \in holds
      /\ signIn \in [SignIns -> [pc : {"idle", "hashing", "marking", "over"},
                                 client : Clients \cup {None}, generation : Nat]]
  BY <1>0 DEF Types, Kernel, SessionsHold, CallerTypes
<1>1. CASE signIn' = [signIn EXCEPT ![a].pc = "over"] /\ UNCHANGED <<session, queue>>
  <2>1. SessionsHold'
    BY <1>0, <1>1, <1>t DEF Kernel, SessionsHold, OneSessionPerClient
  <2> QED
    BY <1>0, <1>1, <2>1, Frames DEF Kernel
<1>2. CASE /\ MayConnect(a)
           /\ session' = session \cup {a}
           /\ signIn' = [signIn EXCEPT ![a].pc = "marking"]
           /\ Enqueue("mark", a)
  <2> DEFINE o == [kind |-> "mark", by |-> a, client |-> None]
  <2>o. o \in Ops /\ queue' = Append(queue, o) /\ o.kind = "mark" /\ o.by = a
    BY <1>2 DEF Enqueue, Ops
  <2> HIDE DEF o
  <2>1. Steady(0)
    BY <1>0, SteadyQueue
  <2>2. QueueHolds'
    <3>1. QueuedAt(o)'
      BY <2>o DEF QueuedAt, QueuedCommand, IsCommand
    <3>2. \A p \in Ops : Waits(0, p) /\ QueuedAt(p) => InOrder(p, o)'
      BY <2>o DEF InOrder, IsCommand
    <3> QED
      BY <1>t, <2>1, <2>o, <3>1, <3>2, QueueGrows
  <2>3. RunningHolds'
    <3>1. queue # <<>> => queue' # <<>> /\ op' = op
      BY <1>t, <2>o, AppendAt DEF CallerTypes, op
    <3>2. \A r \in Requests : r \in Rows \cap expired => r \in Rows' \cap expired'
      BY <1>0 DEF Rows
    <3>3. \A d \in Clients : NewClient(d) => d \notin holds' /\ \A r \in Requests : clientOf'[r] # d
      BY <1>0 DEF NewClient
    <3> QED
      BY <1>0, <1>t, <2>1, <3>1, <3>2, <3>3, RunningKept DEF Kernel
  <2>4. SessionsHold'
    <3>1. /\ clients[signIn[a].client] # None /\ denied[signIn[a].client] = "none"
          /\ \A b \in session : signIn[b].client # signIn[a].client
      BY <1>2 DEF MayConnect, StillAuthorized, Authorized, Sessions
    <3>2. \A b \in SignIns : signIn'[b].client = signIn[b].client
      BY <1>2, <1>t
    <3>3. /\ \A b \in SignIns \ {a} : signIn'[b].pc = signIn[b].pc
          /\ signIn'[a].pc = "marking"
      BY <1>2, <1>t
    <3>4. \A b \in session' : b = a \/ b \in session
      BY <1>2
    <3>5. OneSessionPerClient'
      BY <1>2, <1>t, <3>1, <3>2, <3>4 DEF OneSessionPerClient, Kernel, SessionsHold, CallerTypes
    <3>6. \A b \in SignIns : signIn'[b].pc \in {"hashing", "marking"} => signIn'[b].client \in holds'
      BY <1>0, <1>t, <3>2, <3>3 DEF Kernel, SessionsHold
    <3>7. \A b \in session' : /\ signIn'[b].pc \in {"marking", "over"} /\ signIn'[b].client \in holds'
                              /\ clients'[signIn'[b].client] # None
                              /\ denied'[signIn'[b].client] # "remove"
      BY <1>0, <1>t, <3>1, <3>2, <3>3, <3>4 DEF Kernel, SessionsHold, CallerTypes
    <3> QED
      BY <3>5, <3>6, <3>7 DEF SessionsHold
  <2> QED
    BY <1>0, <2>2, <2>3, <2>4, Frames DEF Kernel
<1> QED
  BY <1>1, <1>2 DEF Verified

LEMMA SessionEndsHolds ==
  ASSUME Types, Kernel, NEW a \in SignIns, SessionEnds(a)
  PROVE  Kernel'
<1>0. /\ session' = session \ {a}
      /\ UNCHANGED <<disk, clients, generation, denied, ticket, request, ticketOf, clientOf, claimed, expired,
                     queue, phase, swept, signIn, command, holds, removal>>
  BY DEF SessionEnds, clientVars, requestVars, queueVars, historyVars
<1>2. SessionsHold'
  BY <1>0 DEF Kernel, SessionsHold, OneSessionPerClient
<1> QED
  BY <1>0, <1>2, Frames DEF Kernel
-----------------------------------------------------------------------------
(* The running operation. *)

\* The running operation's entry, replaced by one of the same kind.
LEMMA HeadReplaced ==
  ASSUME NEW S, NEW q \in Seq(S), q # <<>>, NEW x \in S, NEW r, r = <<x>> \o Tail(q)
  PROVE  /\ r \in Seq(S) /\ Len(r) = Len(q) /\ r # <<>>
         /\ r[1] = x /\ Head(r) = x
         /\ \A k \in 1..Len(q) : k # 1 => r[k] = q[k]
<1>1. /\ Tail(q) \in Seq(S) /\ Len(q) \in Nat \ {0} /\ Len(Tail(q)) = Len(q) - 1
      /\ \A k \in 1..Len(Tail(q)) : Tail(q)[k] = q[k + 1]
  BY TailAt
<1>2. <<x>> \in Seq(S) /\ Len(<<x>>) = 1 /\ <<x>>[1] = x
  OBVIOUS
<1>3. r \in Seq(S) /\ Len(r) = Len(q)
  BY <1>1, <1>2, ConcatProperties
<1>4. r[1] = x
  BY <1>1, <1>2, ConcatProperties
<1>5. ASSUME NEW k \in 1..Len(q), k # 1 PROVE r[k] = q[k]
  <2>1. k - 1 \in 1..Len(Tail(q)) /\ k > 1 /\ k \in 1..(Len(<<x>>) + Len(Tail(q)))
    BY <1>1, <1>2, <1>5
  <2>2. r[k] = Tail(q)[k - 1]
    BY <1>1, <1>2, <2>1, ConcatProperties
  <2> QED
    BY <1>1, <2>1, <2>2
<1> QED
  BY <1>1, <1>3, <1>4, <1>5

\* The queue moves on to the next operation.
LEMMA QueueAdvances ==
  ASSUME CallerTypes, QueueHolds, queue # <<>>, Done, Steady(1)
  PROVE  QueueHolds' /\ RunningHolds'
<1>1. queue' = Tail(queue) /\ phase' = "begin"
  BY DEF Done
<1>2. Moves(1)
  <2>1. /\ Tail(queue) \in Seq(Ops) /\ Len(queue) \in Nat \ {0} /\ Len(Tail(queue)) = Len(queue) - 1
        /\ \A k \in 1..Len(Tail(queue)) : Tail(queue)[k] = queue[k + 1]
    BY TailAt DEF CallerTypes
  <2> QED
    BY <1>1, <2>1 DEF Moves
<1>3. QueueHolds'
  BY <1>2, QueueMoves
<1> QED
  BY <1>1, <1>3 DEF RunningHolds

\* What the queue says about the running operation and those behind it.
LEMMA RunningSays ==
  ASSUME CallerTypes, QueueHolds, CommandsHold, queue # <<>>
  PROVE  /\ op \in Ops /\ QueuedAt(op)
         /\ IsCommand(op) => /\ op.by \in Commands /\ command[op.by].client \in Clients
                             /\ command[op.by].kind = op.kind /\ command[op.by].pc = "queued"
                             /\ denied[command[op.by].client] # "none"
         /\ \A p \in Ops : Waits(1, p) => QueuedAt(p) /\ InOrder(op, p)
<1>1. /\ Len(queue) \in Nat /\ 1 \in 1..Len(queue) /\ op = queue[1] /\ op \in Ops
  BY QueueEntries
<1>2. QueuedAt(op)
  BY <1>1 DEF QueueHolds
<1>3. IsCommand(op) => /\ op.by \in Commands /\ command[op.by].client \in Clients
                       /\ command[op.by].kind = op.kind /\ command[op.by].pc = "queued"
                       /\ denied[command[op.by].client] # "none"
  BY <1>2 DEF QueuedAt, QueuedCommand, CommandsHold, CommandAt
<1>4. ASSUME NEW p \in Ops, Waits(1, p) PROVE QueuedAt(p) /\ InOrder(op, p)
  <2>1. PICK k \in (1 + 1)..Len(queue) : queue[k] = p
    BY <1>4 DEF Waits
  <2>2. k \in 1..Len(queue) /\ 1 < k
    BY <1>1
  <2> QED
    BY <1>1, <2>1, <2>2 DEF QueueHolds
<1> QED
  BY <1>1, <1>2, <1>3, <1>4

\* The operations behind the running one keep what they say: a submission queued twice or a
\* command queued twice would be out of order.
LEMMA SteadyBehind ==
  ASSUME CallerTypes, QueueHolds, CommandsHold, queue # <<>>, UNCHANGED <<generation, denied>>,
         \A q \in Requests : request[q] = "queued" /\ ~(op.kind = "submit" /\ q = op.by)
                               => request'[q] = "queued",
         \A m \in Commands : ~(IsCommand(op) /\ m = op.by) => command'[m] = command[m]
  PROVE  Steady(1)
<1> SUFFICES ASSUME NEW p \in Ops, Waits(1, p), QueuedAt(p)
             PROVE  /\ QueuedAt(p)'
                    /\ IsCommand(p) => /\ command'[p.by].client = command[p.by].client
                                       /\ command'[p.by].generation = command[p.by].generation
  BY DEF Steady
<1>1. PICK o \in Ops : o = op
  BY QueueEntries
<1>2. InOrder(o, p)
  BY <1>1, RunningSays
<1>3. p.kind = "submit" => ~(o.kind = "submit" /\ p.by = o.by)
  BY <1>2 DEF InOrder
<1>4. ASSUME IsCommand(p) PROVE p.by \in Commands /\ command'[p.by] = command[p.by]
  <2>1. p.by \in Commands
    BY <1>4 DEF QueuedAt, QueuedCommand
  <2>2. ~(IsCommand(o) /\ p.by = o.by)
    BY <1>2, <1>4, <2>1 DEF InOrder, CallerTypes
  <2> QED
    BY <1>1, <2>1, <2>2
<1> QED
  BY <1>1, <1>3, <1>4 DEF QueuedAt, QueuedCommand, IsCommand

\* Rows and submissions that are only dropped.
RequestsGo == \A q \in Requests : request'[q] = request[q] \/ request'[q] = "gone"

LEMMA RowsGo ==
  ASSUME RequestTypes, Kernel, RequestsGo, UNCHANGED <<clientOf, claimed, holds>>
  PROVE  RowsHold'
BY DEF Kernel, RowsHold, RequestsGo, RequestTypes

LEMMA TicketsGo ==
  ASSUME RequestTypes, Kernel, RequestsGo, UNCHANGED <<ticketOf, ticket>>
  PROVE  TicketsHold'
BY DEF Kernel, TicketsHold, RequestsGo, RequestTypes, Busy, Rows

LEMMA PlacesGo ==
  ASSUME RequestTypes, Kernel, RequestsGo
  PROVE  PlacesHold'
<1>1. Occupied' \subseteq Occupied
  BY DEF RequestsGo, Occupied, Busy
<1> QED
  BY <1>1, FewerPlaces DEF Kernel

\* A write of what memory holds, or none, keeps what the file and memory say of a client.
LEMMA RegisteredGo ==
  ASSUME Types, Kernel, RequestsGo, UNCHANGED <<clients, denied, clientOf, claimed, expired, holds, removal>>,
         disk' = disk \/ disk' = clients
  PROVE  RegisteredHold'
<1>1. \A q \in Requests : Claimable(q)' => Claimable(q) /\ clientOf[q] \in Clients
  BY DEF Claimable, RequestsGo, Kernel, RowsHold, Types, RequestTypes
<1>2. CASE disk' = disk
  BY <1>1, <1>2 DEF Kernel, RegisteredHold, Given
<1>3. CASE disk' = clients
  BY <1>1, <1>3 DEF Kernel, RegisteredHold, Given
<1> QED
  BY <1>2, <1>3

LEMMA FailsHolds ==
  ASSUME Types, Kernel, queue # <<>>, NEW R, Fails(R),
         \A q \in Requests : R[q] = request[q] \/ (q \in Rows /\ R[q] = "gone"),
         disk' = disk \/ disk' = clients,
         UNCHANGED <<generation, denied, ticketOf, clientOf, claimed, expired, holds, removal>>
  PROVE  Kernel'
<1>t. ClientTypes /\ CallerTypes /\ RequestTypes /\ QueueHolds /\ CommandsHold
  BY DEF Types, Kernel
<1>f. /\ Done /\ UNCHANGED <<ticket, clients>>
      /\ request' = [q \in Requests |-> IF op.kind = "submit" /\ q = op.by THEN "gone" ELSE R[q]]
      /\ session' = CASE op.kind = "mark" -> session \ {op.by}
                      [] op.kind \in {"remove", "permission"} -> {}
                      [] OTHER -> session
      /\ signIn' = [a \in SignIns |-> IF op.kind = "mark" /\ a = op.by
                                      THEN [signIn[a] EXCEPT !.pc = "over"] ELSE signIn[a]]
      /\ command' = [m \in Commands |-> IF op.kind \in {"remove", "permission"} /\ m = op.by
                                        THEN [command[m] EXCEPT !.pc = "failed"] ELSE command[m]]
  BY DEF Fails
<1>g. RequestsGo
  BY <1>f DEF RequestsGo
<1>c. /\ \A m \in Commands : ~(IsCommand(op) /\ m = op.by) => command'[m] = command[m]
      /\ \A m \in Commands : command'[m] = command[m] \/ command'[m].pc = "failed"
  <2>1. \A m \in Commands : ~(IsCommand(op) /\ m = op.by) => command'[m] = command[m]
    BY <1>f DEF IsCommand
  <2>2. \A m \in Commands : IsCommand(op) /\ m = op.by => command'[m].pc = "failed"
    BY <1>f, <1>t DEF IsCommand, CallerTypes
  <2> QED
    BY <2>1, <2>2
<1>1. CommandsHold'
  <2> SUFFICES ASSUME NEW m \in Commands PROVE CommandAt(m)'
    BY DEF CommandsHold
  <2>1. CommandAt(m)
    BY <1>t DEF CommandsHold
  <2> QED
    BY <1>c, <2>1 DEF CommandAt
<1>2. QueueHolds' /\ RunningHolds'
  <2>1. \A q \in Requests : request[q] = "queued" /\ ~(op.kind = "submit" /\ q = op.by)
                               => request'[q] = "queued"
    BY <1>f DEF Rows
  <2>2. Steady(1)
    BY <1>c, <1>t, <2>1, SteadyBehind
  <2> QED
    BY <1>f, <1>t, <2>2, QueueAdvances
<1>3. SessionsHold'
  <2>1. /\ session' \subseteq session
        /\ \A a \in session' : ~(op.kind = "mark" /\ a = op.by)
    BY <1>f
  <2>2. \A a \in SignIns : signIn'[a] = signIn[a] \/ signIn'[a].pc = "over"
    BY <1>f, <1>t DEF CallerTypes
  <2>3. \A a \in session' : a \in SignIns /\ signIn'[a] = signIn[a]
    BY <1>f, <1>t, <2>1 DEF CallerTypes
  <2>4. clients' = clients
    BY <1>f
  <2> QED
    BY <2>1, <2>2, <2>3, <2>4 DEF Kernel, SessionsHold, OneSessionPerClient
<1>4. RowsHold' /\ TicketsHold' /\ PlacesHold' /\ RegisteredHold'
  BY <1>f, <1>g, <1>t, RowsGo, TicketsGo, PlacesGo, RegisteredGo
<1> QED
  BY <1>1, <1>2, <1>3, <1>4 DEF Kernel

\* What an operation finds after its sweep: the rows E are gone and the file is as it was or holds
\* what memory held.
Swept(E, R) ==
  /\ E \subseteq Rows \cap expired
  /\ R = Drop(E)
  /\ \/ E = Rows \cap expired /\ disk' = disk
     \/ E # {} /\ disk' = clients

LEMMA Dropped ==
  ASSUME RequestTypes, NEW E, NEW R, Swept(E, R)
  PROVE  /\ \A q \in Requests : R[q] = request[q] \/ (q \in Rows /\ R[q] = "gone")
         /\ \A q \in Requests : q \in E => R[q] = "gone"
         /\ \A q \in Requests : q \notin E => R[q] = request[q]
         /\ DOMAIN R = Requests
         /\ R \in [Requests -> {"new", "queued", "hashing", "pending", "approved", "rejected", "gone"}]
         /\ (disk' = disk \/ disk' = clients)
BY DEF Swept, Drop, RequestTypes

\* The submission takes a place only if one is left for it.
LEMMA SubmitPlaces ==
  ASSUME Types, Kernel, NEW E, NEW R, Swept(E, R), NEW q \in Requests, request[q] = "queued",
         NEW s \in {"hashing", "gone"}, request' = [R EXCEPT ![q] = s],
         s = "hashing" => Cardinality(Kept(R)) < MaxPending
  PROVE  PlacesHold'
<1>d. /\ \A r \in Requests : r \in E => R[r] = "gone"
      /\ \A r \in Requests : r \notin E => R[r] = request[r]
      /\ DOMAIN R = Requests
  BY Dropped DEF Types
<1>o. /\ IsFiniteSet(Occupied) /\ Cardinality(Occupied) \in Nat /\ Cardinality(Occupied) <= MaxPending
      /\ MaxPending \in Nat
  BY FS_CardinalityType, ConstantsAssumption DEF Kernel, PlacesHold
<1> DEFINE Left == Occupied \ E
<1>l. IsFiniteSet(Left) /\ Cardinality(Left) \in Nat /\ Cardinality(Left) <= Cardinality(Occupied)
  BY <1>o, FS_Subset, FS_CardinalityType
<1>q. q \notin Occupied
  BY DEF Occupied, Busy
<1>w. Occupied' \subseteq Left \cup (IF s = "hashing" THEN {q} ELSE {})
  BY <1>d DEF Occupied, Busy
<1>1. CASE s = "gone"
  <2>1. Occupied' \subseteq Occupied
    BY <1>w, <1>1
  <2> QED
    BY <2>1, FewerPlaces DEF Kernel
<1>2. CASE s = "hashing"
  <2>1. Cardinality(Left) < MaxPending
    <3>1. CASE E = Rows \cap expired
      <4>1. Left = Kept(R)
        BY <1>d, <3>1 DEF Kept, Occupied, Busy, Rows, Types, RequestTypes
      <4> QED
        BY <1>2, <4>1
    <3>2. CASE E # {}
      <4>1. PICK e \in E : e \in Occupied
        BY <3>2 DEF Swept, Rows, Occupied, Busy
      <4>2. /\ Left \subseteq Occupied \ {e} /\ IsFiniteSet(Occupied \ {e})
            /\ Cardinality(Occupied \ {e}) = Cardinality(Occupied) - 1
        BY <1>o, <4>1, FS_RemoveElement
      <4>3. Cardinality(Left) <= Cardinality(Occupied) - 1
        BY <4>2, FS_Subset
      <4> QED
        BY <1>o, <1>l, <4>3
    <3> QED
      BY <3>1, <3>2 DEF Swept
  <2>2. /\ IsFiniteSet(Left \cup {q}) /\ Cardinality(Left \cup {q}) = Cardinality(Left) + 1
    BY <1>l, <1>q, FS_AddElement
  <2>3. Occupied' \subseteq Left \cup {q}
    BY <1>w, <1>2
  <2>4. IsFiniteSet(Occupied') /\ Cardinality(Occupied') <= Cardinality(Left) + 1
    BY <2>2, <2>3, FS_Subset
  <2>5. Cardinality(Occupied') \in Nat
    BY <2>4, FS_CardinalityType
  <2> QED
    BY <1>l, <1>o, <2>1, <2>4, <2>5 DEF PlacesHold
<1> QED
  BY <1>1, <1>2

LEMMA SubmitRunsHolds ==
  ASSUME Types, Kernel, queue # <<>>, NEW E, NEW R, Swept(E, R), op.kind = "submit", SubmitRuns(R),
         UNCHANGED <<generation, denied, ticketOf, clientOf, claimed, expired, holds, removal>>
  PROVE  Kernel'
<1>t. ClientTypes /\ CallerTypes /\ RequestTypes /\ QueueHolds /\ CommandsHold
  BY DEF Types, Kernel
<1>q. PICK q \in Requests : q = op.by /\ request[q] = "queued"
  BY <1>t, RunningSays DEF QueuedAt
<1>k. PICK t \in Tickets : t = ticketOf[q]
  BY <1>q DEF Kernel, TicketsHold
<1>s. PICK s \in {"hashing", "gone"} :
        /\ request' = [R EXCEPT ![q] = s]
        /\ ticket' = [ticket EXCEPT ![t] = IF s = "hashing" THEN "inUse" ELSE ticket[t]]
        /\ s = "hashing" => Acceptable(t, R)
  <2>1. CASE Acceptable(t, R)
    BY <1>q, <1>k, <2>1 DEF SubmitRuns
  <2>2. CASE ~Acceptable(t, R)
    BY <1>q, <1>k, <2>2 DEF SubmitRuns
  <2> QED
    BY <2>1, <2>2
<1>u. /\ Done /\ clients' = clients /\ signIn' = signIn /\ session' = session /\ command' = command
  BY DEF SubmitRuns, callerVars
<1>d. /\ \A r \in Requests : R[r] = request[r] \/ (r \in Rows /\ R[r] = "gone")
      /\ DOMAIN R = Requests /\ R \in [Requests -> {"new", "queued", "hashing", "pending", "approved", "rejected", "gone"}]
      /\ (disk' = disk \/ disk' = clients)
  BY <1>t, Dropped
<1>e. /\ request'[q] = s
      /\ \A r \in Requests \ {q} : request'[r] = R[r]
  BY <1>d, <1>s
<1>g. \A r \in Requests \ {q} : request'[r] = request[r] \/ request'[r] = "gone"
  BY <1>d, <1>e
<1>2. QueueHolds' /\ RunningHolds'
  <2>1. \A r \in Requests : request[r] = "queued" /\ ~(op.kind = "submit" /\ r = op.by)
                               => request'[r] = "queued"
    BY <1>d, <1>e, <1>q DEF Rows
  <2>2. Steady(1)
    BY <1>t, <1>u, <2>1, SteadyBehind
  <2> QED
    BY <1>t, <1>u, <2>2, QueueAdvances
<1>3. CommandsHold' /\ SessionsHold'
  BY <1>u, Frames DEF Kernel
<1>4. RowsHold'
  BY <1>e, <1>g, <1>q, <1>t DEF Kernel, RowsHold, RequestTypes
<1>5. RegisteredHold'
  <2>1. \A r \in Requests : Claimable(r)' => Claimable(r) /\ clientOf[r] \in Clients
    BY <1>e, <1>g, <1>t DEF Claimable, Kernel, RowsHold, RequestTypes
  <2>2. CASE disk' = disk
    BY <1>u, <2>1, <2>2 DEF Kernel, RegisteredHold, Given
  <2>3. CASE disk' = clients
    BY <1>u, <2>1, <2>3 DEF Kernel, RegisteredHold, Given
  <2> QED
    BY <1>d, <2>2, <2>3
<1>6. TicketsHold'
  <2>1. CASE s = "gone"
    <3>1. ticket' = ticket
      BY <1>s, <1>t, <2>1 DEF RequestTypes
    <3>2. RequestsGo
      BY <1>e, <1>g, <2>1 DEF RequestsGo
    <3> QED
      BY <1>t, <3>1, <3>2, TicketsGo
  <2>2. CASE s = "hashing"
    <3>1. /\ ticket[t] = "free" /\ ticket'[t] = "inUse"
          /\ \A u \in Tickets \ {t} : ticket'[u] = ticket[u]
      BY <1>s, <1>t, <2>2 DEF Acceptable, RequestTypes
    <3>2. \A r \in Requests : Busy(r) => ticketOf[r] \in Tickets /\ ticketOf[r] # t
      BY <3>1 DEF Kernel, TicketsHold, Busy, Rows
    <3>3. \A r \in Requests \ {q} : Busy(r)' => Busy(r)
      BY <1>g DEF Busy
    <3>4. \A r, x \in Requests : Busy(r)' /\ Busy(x)' /\ ticketOf'[r] = ticketOf'[x] => r = x
      BY <1>k, <3>2, <3>3 DEF Kernel, TicketsHold
    <3>5. \A r \in Requests \ {q} :
            /\ request'[r] \in {"queued", "hashing"} \/ r \in Rows' => ticketOf[r] \in Tickets
            /\ request'[r] = "queued" => ticket'[ticketOf[r]] # "none"
            /\ request'[r] = "hashing" => ticket'[ticketOf[r]] = "inUse"
            /\ r \in Rows' => ticket'[ticketOf[r]] = "spent"
      BY <1>g, <3>1, <3>2 DEF Kernel, TicketsHold, Busy, Rows
    <3>6. /\ q \notin Rows' /\ request'[q] = "hashing"
      BY <1>e, <2>2 DEF Rows
    <3> QED
      BY <1>k, <3>1, <3>4, <3>5, <3>6 DEF TicketsHold
  <2> QED
    BY <2>1, <2>2
<1>7. PlacesHold'
  BY <1>q, <1>s, SubmitPlaces DEF Acceptable
<1> QED
  BY <1>2, <1>3, <1>4, <1>5, <1>6, <1>7 DEF Kernel

\* An operation begins its write.
LEMMA WriteBegins ==
  ASSUME Types, Kernel, queue # <<>>, NEW E, NEW R, Swept(E, R), NEW o \in Ops, o.kind = op.kind, o.by = op.by,
         Writes(R, o), UNCHANGED <<generation, denied, ticketOf, clientOf, claimed, expired, holds, removal>>
  PROVE  /\ QueueHolds' /\ CommandsHold' /\ RowsHold' /\ TicketsHold' /\ PlacesHold'
         /\ op' = o /\ queue' # <<>> /\ phase' = "writing" /\ request' = R
         /\ signIn' = signIn /\ session' = session /\ command' = command
         /\ \A q \in Requests : Claimable(q)' => Claimable(q) /\ clientOf[q] \in Clients
<1>t. ClientTypes /\ CallerTypes /\ RequestTypes /\ QueueHolds /\ CommandsHold
  BY DEF Types, Kernel
<1>u. /\ queue' = <<o>> \o Tail(queue) /\ phase' = "writing" /\ request' = R
      /\ ticket' = ticket /\ signIn' = signIn /\ session' = session /\ command' = command
  BY DEF Writes, callerVars
<1>d. /\ \A r \in Requests : R[r] = request[r] \/ (r \in Rows /\ R[r] = "gone")
      /\ (disk' = disk \/ disk' = clients)
  BY <1>t, Dropped
<1>g. RequestsGo
  BY <1>d, <1>u DEF RequestsGo
<1>h. /\ queue' \in Seq(Ops) /\ Len(queue') = Len(queue) /\ queue' # <<>>
      /\ queue'[1] = o /\ op' = o
      /\ \A k \in 1..Len(queue) : k # 1 => queue'[k] = queue[k]
  BY <1>t, <1>u, HeadReplaced DEF CallerTypes, op
<1>1. QueueHolds'
  <2>1. Moves(0)
    <3>1. /\ Len(queue) \in Nat /\ 1 \in 1..Len(queue) /\ op = queue[1]
      BY <1>t, QueueEntries
    <3> QED
      BY <1>h, <3>1 DEF Moves
  <2>2. \A q \in Requests : request[q] = "queued" => request'[q] = "queued"
    BY <1>d, <1>u DEF Rows
  <2>3. Steady(0)
    BY <1>u, <2>2, SteadyQueue
  <2> QED
    BY <1>t, <2>1, <2>3, QueueMoves
<1>2. CommandsHold'
  BY <1>u, Frames DEF Kernel
<1>3. RowsHold' /\ TicketsHold' /\ PlacesHold'
  BY <1>g, <1>t, <1>u, RowsGo, TicketsGo, PlacesGo
<1>4. \A q \in Requests : Claimable(q)' => Claimable(q) /\ clientOf[q] \in Clients
  BY <1>g, <1>t DEF Claimable, RequestsGo, Kernel, RowsHold, RequestTypes
<1> QED
  BY <1>1, <1>2, <1>3, <1>4, <1>h, <1>u

\* An approval puts a client nobody knows into memory.
LEMMA ApproveWrites ==
  ASSUME Types, Kernel, queue # <<>>, NEW E, NEW R, Swept(E, R), op.kind = "approve", R[op.by] = "pending",
         NEW c \in Fresh, clients' = [clients EXCEPT ![c] = "default"], Writes(R, [op EXCEPT !.client = c]),
         UNCHANGED <<generation, denied, ticketOf, clientOf, claimed, expired, holds, removal>>
  PROVE  Kernel'
<1>t. ClientTypes /\ CallerTypes /\ RequestTypes /\ QueueHolds /\ CommandsHold /\ (disk' = disk \/ disk' = clients)
  BY Dropped DEF Types, Kernel
<1>c. /\ c \in Clients /\ clients[c] = None /\ disk[c] = None /\ c \notin holds /\ removal[c] = "none"
      /\ \A q \in Requests : clientOf[q] # c
  BY DEF Fresh
<1>o. PICK o \in Ops : o.kind = "approve" /\ o.by = op.by /\ o.client = c /\ Writes(R, o)
  <2>1. op \in Ops
    BY <1>t, QueueEntries
  <2>2. [op EXCEPT !.client = c] \in Ops /\ [op EXCEPT !.client = c].kind = "approve"
        /\ [op EXCEPT !.client = c].by = op.by /\ [op EXCEPT !.client = c].client = c
    BY <1>c, <2>1 DEF Ops
  <2> QED
    BY <2>2
<1>w. /\ QueueHolds' /\ CommandsHold' /\ RowsHold' /\ TicketsHold' /\ PlacesHold'
      /\ op' = o /\ queue' # <<>> /\ phase' = "writing" /\ request' = R
      /\ signIn' = signIn /\ session' = session /\ command' = command
      /\ \A q \in Requests : Claimable(q)' => Claimable(q) /\ clientOf[q] \in Clients
  BY <1>o, WriteBegins
<1>k. /\ clients'[c] = "default" /\ "default" # None
      /\ \A d \in Clients \ {c} : clients'[d] = clients[d]
  BY <1>c, <1>t, ConstantsAssumption DEF ClientTypes
<1>1. RunningHolds'
  <2>1. NewClient(c)'
    BY <1>c, <1>k DEF NewClient
  <2> QED
    BY <1>o, <1>w, <2>1 DEF RunningHolds, NewClient
<1>2. SessionsHold'
  <2>1. \A a \in session : clients[signIn[a].client] # None /\ signIn[a].client \in Clients
    BY <1>t DEF Kernel, SessionsHold, ClientTypes
  <2> QED
    BY <1>w, <1>k, <2>1 DEF Kernel, SessionsHold, OneSessionPerClient
<1>3. RegisteredHold'
  <2>1. \A d \in Clients : Given(d)' => Given(d) /\ d # c
    BY <1>c DEF Given
  <2>2. CASE disk' = disk
    BY <1>c, <1>k, <1>w, <2>1, <2>2 DEF Kernel, RegisteredHold
  <2>3. CASE disk' = clients
    BY <1>c, <1>k, <1>w, <2>1, <2>3 DEF Kernel, RegisteredHold
  <2> QED
    BY <1>t, <2>2, <2>3
<1> QED
  BY <1>1, <1>2, <1>3, <1>w DEF Kernel

\* An edit or a removal changes its client in memory; the client is denied meanwhile.
LEMMA CommandWrites ==
  ASSUME Types, Kernel, queue # <<>>, NEW E, NEW R, Swept(E, R), IsCommand(op),
         NEW c, c = command[op.by].client, clients[c] # None,
         clients' = [clients EXCEPT ![c] = Edited(op.by)], Writes(R, op),
         UNCHANGED <<generation, denied, ticketOf, clientOf, claimed, expired, holds, removal>>
  PROVE  Kernel'
<1>t. ClientTypes /\ CallerTypes /\ RequestTypes /\ QueueHolds /\ CommandsHold /\ (disk' = disk \/ disk' = clients)
  BY Dropped DEF Types, Kernel
<1>o. PICK o \in Ops : o = op
  BY <1>t, QueueEntries
<1>m. PICK m \in Commands : m = op.by /\ command[m].kind = o.kind /\ command[m].pc = "queued"
  BY <1>o, <1>t, RunningSays
<1>c. /\ c \in Clients /\ denied[c] # "none"
      /\ o.kind = "permission" => command[m].permission \in Permissions
      /\ o.kind = "remove" => denied[c] = "remove" /\ removal[c] # "none"
  <2>1. c \in Clients /\ denied[c] # "none"
    BY <1>t, RunningSays
  <2> QED
    BY <1>m, <1>t, <2>1 DEF CommandsHold, CommandAt
<1>w. /\ QueueHolds' /\ CommandsHold' /\ RowsHold' /\ TicketsHold' /\ PlacesHold'
      /\ op' = o /\ queue' # <<>> /\ phase' = "writing" /\ request' = R
      /\ signIn' = signIn /\ session' = session /\ command' = command
      /\ \A q \in Requests : Claimable(q)' => Claimable(q) /\ clientOf[q] \in Clients
  BY <1>o, WriteBegins
<1>k. /\ o.kind = "remove" => clients'[c] = None
      /\ o.kind = "permission" => clients'[c] # None
      /\ \A d \in Clients \ {c} : clients'[d] = clients[d]
  <2>1. clients'[c] = Edited(m) /\ \A d \in Clients \ {c} : clients'[d] = clients[d]
    BY <1>c, <1>m, <1>t DEF ClientTypes
  <2> QED
    BY <1>c, <1>m, <2>1, ConstantsAssumption DEF Edited
<1>l. o.kind = "remove" \/ o.kind = "permission"
  BY <1>o DEF IsCommand
<1>1. RunningHolds'
  BY <1>k, <1>l, <1>m, <1>o, <1>w DEF RunningHolds
<1>2. SessionsHold'
  <2>1. \A a \in session : /\ clients[signIn[a].client] # None /\ signIn[a].client \in Clients
                           /\ denied[signIn[a].client] # "remove"
    BY <1>t DEF Kernel, SessionsHold, ClientTypes
  <2> QED
    BY <1>c, <1>k, <1>l, <1>w, <2>1 DEF Kernel, SessionsHold, OneSessionPerClient
<1>3. RegisteredHold'
  <2>1. removal[c] # "done"
    BY <1>c DEF Kernel, RegisteredHold
  <2>2. \A d \in Clients : Given(d)' => Given(d)
    BY DEF Given
  <2>3. CASE disk' = disk
    BY <1>c, <1>k, <1>l, <1>w, <2>1, <2>2, <2>3 DEF Kernel, RegisteredHold
  <2>4. CASE disk' = clients
    BY <1>c, <1>k, <1>l, <1>w, <2>1, <2>2, <2>4 DEF Kernel, RegisteredHold
  <2> QED
    BY <1>t, <2>3, <2>4
<1> QED
  BY <1>1, <1>2, <1>3, <1>w DEF Kernel

\* A connection mark writes the file; memory stays.
LEMMA MarkWrites ==
  ASSUME Types, Kernel, queue # <<>>, NEW E, NEW R, Swept(E, R), op.kind = "mark", Writes(R, op),
         UNCHANGED <<clients, generation, denied, ticketOf, clientOf, claimed, expired, holds, removal>>
  PROVE  Kernel'
<1>t. ClientTypes /\ CallerTypes /\ RequestTypes /\ QueueHolds /\ (disk' = disk \/ disk' = clients)
  BY Dropped DEF Types, Kernel
<1>o. PICK o \in Ops : o = op
  BY <1>t, QueueEntries
<1>w. /\ QueueHolds' /\ CommandsHold' /\ RowsHold' /\ TicketsHold' /\ PlacesHold'
      /\ op' = o /\ queue' # <<>> /\ phase' = "writing" /\ request' = R
      /\ signIn' = signIn /\ session' = session /\ command' = command
  BY <1>o, WriteBegins
<1>1. RunningHolds'
  BY <1>o, <1>w DEF RunningHolds
<1>2. SessionsHold'
  BY <1>w, Frames DEF Kernel
<1>g. RequestsGo
  BY <1>t, <1>w, Dropped DEF RequestsGo
<1>3. RegisteredHold'
  BY <1>g, <1>t, RegisteredGo
<1> QED
  BY <1>1, <1>2, <1>3, <1>w DEF Kernel

LEMMA RunsHolds ==
  ASSUME Types, Kernel, queue # <<>>, NEW E, NEW R, Swept(E, R), Runs(R),
         UNCHANGED <<generation, denied, ticketOf, clientOf, claimed, expired, holds, removal>>
  PROVE  Kernel'
<1>d. /\ \A q \in Requests : R[q] = request[q] \/ (q \in Rows /\ R[q] = "gone")
      /\ (disk' = disk \/ disk' = clients)
  BY Dropped DEF Types
<1>1. CASE op.kind = "submit" /\ SubmitRuns(R)
  BY <1>1, SubmitRunsHolds
<1>2. ASSUME op.kind = "approve", R[op.by] = "pending",
             NEW c \in Fresh, clients' = [clients EXCEPT ![c] = "default"], Writes(R, [op EXCEPT !.client = c])
      PROVE  Kernel'
  BY <1>2, ApproveWrites
<1>3. CASE op.kind = "mark" /\ Writes(R, op) /\ UNCHANGED clients
  BY <1>3, MarkWrites
<1>4. ASSUME op.kind \in {"remove", "permission"}, clients[command[op.by].client] # None,
             clients' = [clients EXCEPT ![command[op.by].client] = Edited(op.by)], Writes(R, op)
      PROVE  Kernel'
  <2>1. PICK c : c = command[op.by].client
    OBVIOUS
  <2> QED
    BY <1>4, <2>1, CommandWrites DEF IsCommand
<1>5. CASE Fails(R)
  BY <1>5, <1>d, FailsHolds
<1> QED
  BY <1>1, <1>2, <1>3, <1>4, <1>5 DEF Runs

\* An operation begins, at once or with a sweep that takes clients out of memory.
LEMMA BeginHolds ==
  ASSUME Types, Kernel, Begin
  PROVE  Kernel'
<1>t. ClientTypes /\ CallerTypes /\ RequestTypes /\ QueueHolds /\ CommandsHold
  BY DEF Types, Kernel
<1>0. /\ queue # <<>> /\ phase = "begin"
      /\ UNCHANGED <<disk, generation, denied, ticketOf, clientOf, claimed, expired, holds, removal>>
  BY DEF Begin, historyVars
<1>e. PICK E : E = Rows \cap expired
  OBVIOUS
<1>1. CASE Runs(Drop(E))
  <2>1. PICK R : R = Drop(E)
    OBVIOUS
  <2>2. Swept(E, R)
    BY <1>0, <1>e, <2>1 DEF Swept
  <2> QED
    BY <1>0, <1>1, <2>1, <2>2, RunsHolds
<1>2. CASE /\ Unclaimed(E) # {}
           /\ clients' = [c \in Clients |-> IF c \in Unclaimed(E) THEN None ELSE clients[c]]
           /\ phase' = "sweeping"
           /\ swept' = E
           /\ UNCHANGED <<ticket, request, queue, callerVars>>
  <2>u. /\ ticket' = ticket /\ request' = request /\ queue' = queue
        /\ signIn' = signIn /\ session' = session /\ command' = command
    BY <1>2 DEF callerVars
  <2>1. \A c \in Unclaimed(E) : \E q \in Requests : /\ clientOf[q] = c /\ q \notin claimed /\ q \in expired
                                                    /\ request[q] = "approved" /\ c \in Clients
    BY <1>e, <1>t DEF Unclaimed, Rows, Kernel, RowsHold, RequestTypes
  <2>2. \A c \in Unclaimed(E) : c \notin holds
    BY <2>1 DEF Kernel, RowsHold
  <2>3. /\ \A c \in Clients \ Unclaimed(E) : clients'[c] = clients[c]
        /\ \A c \in Unclaimed(E) : clients'[c] = None
    BY <1>2, <2>1
  <2>4. \A q \in Requests : Claimable(q) => clientOf[q] \in Clients \ Unclaimed(E)
    BY <2>1, <1>t DEF Claimable, Kernel, RowsHold, RequestTypes
  <2>5. RunningHolds'
    <3>1. E # {} /\ E \subseteq (Rows \cap expired)'
      BY <1>0, <1>2, <1>e, <2>u DEF Unclaimed, Rows
    <3> QED
      BY <1>0, <1>2, <2>u, <3>1 DEF RunningHolds
  <2>6. SessionsHold'
    <3>1. \A a \in session : signIn[a].client \in Clients \ Unclaimed(E)
      BY <1>t, <2>2 DEF Kernel, SessionsHold, ClientTypes
    <3> QED
      BY <1>0, <2>u, <2>3, <3>1 DEF Kernel, SessionsHold, OneSessionPerClient
  <2>7. RegisteredHold'
    <3>1. \A c \in Clients : clients'[c] = None \/ clients'[c] = clients[c]
      BY <2>3
    <3>2. \A c \in Clients : removal[c] = "done" => clients'[c] = None /\ disk'[c] = None
      BY <1>0, <3>1 DEF Kernel, RegisteredHold
    <3>3. \A c \in Clients : c \in holds /\ removal[c] = "none" => clients'[c] # None /\ disk'[c] # None
      BY <1>0, <2>2, <2>3 DEF Kernel, RegisteredHold
    <3>4. \A q \in Requests : Claimable(q) /\ removal[clientOf[q]] = "none" =>
            clients'[clientOf[q]] # None /\ disk'[clientOf[q]] # None
      BY <1>0, <2>3, <2>4 DEF Kernel, RegisteredHold
    <3>5. \A c \in Clients : Given(c) /\ clients'[c] # None /\ denied[c] = "none" => clients'[c] = disk'[c]
      BY <1>0, <3>1 DEF Kernel, RegisteredHold
    <3> QED
      BY <1>0, <2>u, <3>2, <3>3, <3>4, <3>5 DEF RegisteredHold, Given, Claimable
  <2> QED
    BY <1>0, <2>u, <2>5, <2>6, <2>7, Frames DEF Kernel
<1> QED
  BY <1>1, <1>2, <1>e DEF Begin

LEMMA SweepsHolds ==
  ASSUME Types, Kernel, Sweeps
  PROVE  Kernel'
<1>0. /\ phase = "sweeping" /\ queue # <<>> /\ swept # {} /\ swept \subseteq Rows \cap expired
      /\ UNCHANGED <<generation, denied, ticketOf, clientOf, claimed, expired, holds, removal>>
  BY DEF Sweeps, historyVars, Kernel, RunningHolds
<1>1. CASE disk' = clients /\ Runs(Drop(swept))
  <2>1. PICK E, R : E = swept /\ R = Drop(swept)
    OBVIOUS
  <2>2. Swept(E, R)
    BY <1>0, <1>1, <2>1 DEF Swept
  <2> QED
    BY <1>0, <1>1, <2>1, <2>2, RunsHolds
<1>2. CASE Fails(request) /\ UNCHANGED disk
  BY <1>0, <1>2, FailsHolds
<1> QED
  BY <1>1, <1>2 DEF Sweeps

\* The queue moves on and the commands but the running one stay.
LEMMA EndsHold ==
  ASSUME Types, Kernel, queue # <<>>, Done, Steady(1), disk' = clients, clients' = clients,
         \A m \in Commands : ~(IsCommand(op) /\ m = op.by) => command'[m] = command[m],
         \A m \in Commands : command'[m] = command[m] \/ command'[m].pc = "done",
         \A m \in Commands, d \in Clients :
            /\ command[m].pc \in {"revoking", "queued"} /\ command[m].kind = "remove" /\ d = command[m].client
            => denied'[d] = denied[d],
         \A d \in Clients : removal[d] # "none" => removal'[d] # "none"
  PROVE  QueueHolds' /\ RunningHolds' /\ CommandsHold'
<1>1. QueueHolds' /\ RunningHolds'
  BY QueueAdvances DEF Types, Kernel
<1>2. CommandsHold'
  <2> SUFFICES ASSUME NEW m \in Commands PROVE CommandAt(m)'
    BY DEF CommandsHold
  <2>1. CommandAt(m)
    BY DEF Kernel, CommandsHold
  <2> QED
    BY <2>1 DEF CommandAt
<1> QED
  BY <1>1, <1>2

LEMMA ApproveEnds ==
  ASSUME Types, Kernel, phase = "writing", disk' = clients, op.kind = "approve", Done,
         request' = [request EXCEPT ![op.by] = "approved"],
         clientOf' = [clientOf EXCEPT ![op.by] = op.client],
         UNCHANGED <<clients, denied, generation, ticket, ticketOf, claimed, expired, signIn, session, command,
                     holds, removal>>
  PROVE  Kernel'
<1>t. ClientTypes /\ CallerTypes /\ RequestTypes /\ QueueHolds /\ CommandsHold
  BY DEF Types, Kernel
<1>q. queue # <<>>
  BY DEF Kernel, RunningHolds
<1>1. PICK q \in Requests, c \in Clients :
        /\ q = op.by /\ c = op.client /\ request[q] \in {"pending", "rejected"} /\ NewClient(c)
        /\ request' = [request EXCEPT ![q] = "approved"] /\ clientOf' = [clientOf EXCEPT ![q] = c]
  <2>1. op.by \in Requests
    BY <1>q, <1>t, RunningSays DEF QueuedAt
  <2>2. request[op.by] \in {"pending", "rejected"} /\ NewClient(op.client) /\ op.client \in Clients
    BY DEF Kernel, RunningHolds, NewClient
  <2> QED
    BY <2>1, <2>2
<1>2. /\ c \notin holds /\ clients[c] # None /\ c # None /\ clientOf[q] = None /\ q \notin claimed
      /\ \A r \in Requests : clientOf[r] # c
  BY <1>1, ConstantsAssumption DEF NewClient, Kernel, RowsHold
<1>3. /\ request'[q] = "approved" /\ clientOf'[q] = c
      /\ \A r \in Requests \ {q} : request'[r] = request[r] /\ clientOf'[r] = clientOf[r]
  BY <1>1, <1>t DEF RequestTypes
<1>4. QueueHolds' /\ RunningHolds'
  <2>1. \A r \in Requests : request[r] = "queued" => request'[r] = "queued"
    BY <1>1, <1>3
  <2>2. Steady(1)
    BY <1>q, <1>t, <2>1, SteadyBehind
  <2> QED
    BY <1>q, <1>t, <2>2, QueueAdvances
<1>5. CommandsHold' /\ SessionsHold'
  BY Frames DEF Kernel
<1>6. RowsHold'
  BY <1>2, <1>3 DEF Kernel, RowsHold
<1>7. RegisteredHold'
  <2>1. \A r \in Requests : Claimable(r)' => r = q \/ Claimable(r)
    BY <1>3 DEF Claimable
  <2> QED
    BY <1>2, <1>3, <2>1 DEF Kernel, RegisteredHold
<1>8. TicketsHold'
  <2>1. \A r \in Requests : /\ Busy(r)' <=> Busy(r)
                            /\ r \in Rows' <=> r \in Rows
                            /\ request'[r] = "queued" <=> request[r] = "queued"
                            /\ request'[r] = "hashing" <=> request[r] = "hashing"
    BY <1>1, <1>3 DEF Busy, Rows
  <2> QED
    BY <2>1 DEF Kernel, TicketsHold
<1>9. PlacesHold'
  <2>1. Occupied' = Occupied
    BY <1>1, <1>3 DEF Occupied, Busy
  <2> QED
    BY <2>1, FewerPlaces DEF Kernel
<1> QED
  BY <1>4, <1>5, <1>6, <1>7, <1>8, <1>9 DEF Kernel

LEMMA MarkEnds ==
  ASSUME Types, Kernel, phase = "writing", disk' = clients, op.kind = "mark", Done,
         signIn' = [signIn EXCEPT ![op.by].pc = "over"],
         UNCHANGED <<clients, denied, generation, ticket, request, ticketOf, clientOf, claimed, expired,
                     session, command, holds, removal>>
  PROVE  Kernel'
<1>t. ClientTypes /\ CallerTypes /\ RequestTypes /\ QueueHolds /\ CommandsHold
  BY DEF Types, Kernel
<1>q. queue # <<>>
  BY DEF Kernel, RunningHolds
<1>a. PICK a \in SignIns : signIn' = [signIn EXCEPT ![a].pc = "over"]
  BY <1>q, <1>t, RunningSays DEF QueuedAt
<1>1. QueueHolds' /\ RunningHolds'
  <2>1. Steady(1)
    BY <1>q, <1>t, SteadyBehind
  <2> QED
    BY <1>q, <1>t, <2>1, QueueAdvances
<1>2. SessionsHold'
  <2>1. \A b \in SignIns : /\ signIn'[b].client = signIn[b].client
                           /\ signIn'[b].pc = signIn[b].pc \/ signIn'[b].pc = "over"
    BY <1>a, <1>t DEF CallerTypes
  <2>2. \A b \in session : b \in SignIns
    BY <1>t DEF CallerTypes
  <2> QED
    BY <2>1, <2>2 DEF Kernel, SessionsHold, OneSessionPerClient
<1>g. RequestsGo
  BY DEF RequestsGo
<1>3. RegisteredHold'
  BY <1>g, RegisteredGo
<1> QED
  BY <1>1, <1>2, <1>3, Frames DEF Kernel

LEMMA RemoveEnds ==
  ASSUME Types, Kernel, phase = "writing", disk' = clients, op.kind = "remove", Done,
         request' = Drop({q \in Rows : clientOf[q] = command[op.by].client}),
         command' = [command EXCEPT ![op.by].pc = "done"],
         removal' = [removal EXCEPT ![command[op.by].client] = "done"],
         UNCHANGED <<clients, denied, generation, ticket, ticketOf, clientOf, claimed, expired,
                     signIn, session, holds>>
  PROVE  Kernel'
<1>t. ClientTypes /\ CallerTypes /\ RequestTypes /\ QueueHolds /\ CommandsHold
  BY DEF Types, Kernel
<1>q. queue # <<>>
  BY DEF Kernel, RunningHolds
<1>m. PICK m \in Commands, c \in Clients :
        /\ m = op.by /\ c = command[m].client /\ clients[c] = None
        /\ command' = [command EXCEPT ![m].pc = "done"] /\ removal' = [removal EXCEPT ![c] = "done"]
  BY <1>q, <1>t, RunningSays DEF IsCommand, Kernel, RunningHolds
<1>c. /\ \A n \in Commands \ {m} : command'[n] = command[n]
      /\ command'[m].pc = "done"
  BY <1>m, <1>t DEF CallerTypes
<1>r. /\ removal'[c] = "done"
      /\ \A d \in Clients \ {c} : removal'[d] = removal[d]
  BY <1>m, <1>t DEF ClientTypes
<1>g. RequestsGo /\ \A q \in Requests : request[q] = "queued" => request'[q] = "queued"
  BY DEF RequestsGo, Drop, Rows
<1>1. QueueHolds' /\ RunningHolds' /\ CommandsHold'
  <2>1. Steady(1)
    BY <1>c, <1>g, <1>m, <1>q, <1>t, SteadyBehind DEF IsCommand
  <2>2. \A d \in Clients : removal[d] # "none" => removal'[d] # "none"
    BY <1>r
  <2> QED
    BY <1>c, <1>m, <1>q, <2>1, <2>2, EndsHold DEF IsCommand
<1>2. SessionsHold'
  BY Frames DEF Kernel
<1>3. RegisteredHold'
  <2>1. \A q \in Requests : Claimable(q)' => Claimable(q) /\ clientOf[q] \in Clients
    BY <1>g, <1>t DEF Claimable, RequestsGo, Kernel, RowsHold, RequestTypes
  <2> QED
    BY <1>m, <1>r, <2>1 DEF Kernel, RegisteredHold, Given
<1>4. RowsHold' /\ TicketsHold' /\ PlacesHold'
  BY <1>g, <1>t, RowsGo, TicketsGo, PlacesGo
<1> QED
  BY <1>1, <1>2, <1>3, <1>4 DEF Kernel

\* The client is let in only by its last command, and never after a removal was asked for.
LEMMA PermissionEnds ==
  ASSUME Types, Kernel, phase = "writing", disk' = clients, op.kind = "permission", Done,
         denied' = [denied EXCEPT ![command[op.by].client] = IF AllowedAgain(op.by) THEN "none" ELSE @],
         command' = [command EXCEPT ![op.by].pc = "done"],
         UNCHANGED <<clients, generation, ticket, request, ticketOf, clientOf, claimed, expired,
                     signIn, session, holds, removal>>
  PROVE  Kernel'
<1>t. ClientTypes /\ CallerTypes /\ RequestTypes /\ QueueHolds /\ CommandsHold
  BY DEF Types, Kernel
<1>q. queue # <<>>
  BY DEF Kernel, RunningHolds
<1>o. PICK o \in Ops : o = op
  BY <1>t, <1>q, QueueEntries
<1>m. PICK m \in Commands, c \in Clients :
        /\ m = o.by /\ c = command[m].client /\ IsCommand(o)
        /\ command' = [command EXCEPT ![m].pc = "done"]
        /\ denied' = [denied EXCEPT ![c] = IF AllowedAgain(m) THEN "none" ELSE denied[c]]
  BY <1>o, <1>q, <1>t, RunningSays DEF IsCommand
<1>c. /\ \A n \in Commands \ {m} : command'[n] = command[n]
      /\ command'[m].pc = "done"
  BY <1>m, <1>t DEF CallerTypes
<1>n. /\ \A d \in Clients \ {c} : denied'[d] = denied[d]
      /\ \/ denied'[c] = denied[c]
         \/ denied'[c] = "none" /\ denied[c] # "remove" /\ generation[c] = command[m].generation
  <2>1. CASE AllowedAgain(m)
    BY <1>m, <1>t, <2>1 DEF AllowedAgain, ClientTypes
  <2>2. CASE ~AllowedAgain(m)
    BY <1>m, <1>t, <2>2 DEF ClientTypes
  <2> QED
    BY <2>1, <2>2
<1>s. Steady(1)
  <2> SUFFICES ASSUME NEW p \in Ops, Waits(1, p), QueuedAt(p)
               PROVE  /\ QueuedAt(p)'
                      /\ IsCommand(p) => /\ command'[p.by].client = command[p.by].client
                                         /\ command'[p.by].generation = command[p.by].generation
    BY DEF Steady
  <2>1. InOrder(o, p)
    BY <1>o, <1>q, <1>t, RunningSays
  <2>2. CASE ~IsCommand(p)
    BY <2>2 DEF QueuedAt, QueuedCommand
  <2>3. CASE IsCommand(p)
    <3>1. PICK n \in Commands : n = p.by /\ command[n].pc = "queued" /\ command[n].kind = p.kind
      BY <2>3 DEF QueuedAt, QueuedCommand
    <3>2. command[n].client \in Clients
      BY <1>t, <3>1 DEF CommandsHold, CommandAt
    <3>3. /\ denied[command[n].client] # "none"
          /\ command[n].generation <= generation[command[n].client]
      BY <2>3, <3>1 DEF QueuedAt, QueuedCommand
    <3>4. command[n].client = c => command[m].generation < command[n].generation
      BY <1>m, <2>1, <2>3, <3>1 DEF InOrder
    <3>5. command[m].generation \in Nat /\ command[n].generation \in Nat /\ generation[c] \in Nat
      BY <1>t DEF CallerTypes, ClientTypes
    <3>6. n # m
      BY <1>m, <3>4, <3>5
    <3>7. denied'[command[n].client] # "none"
      BY <1>n, <3>2, <3>3, <3>4, <3>5
    <3>8. command'[n] = command[n]
      BY <1>c, <3>6
    <3> QED
      BY <2>3, <3>1, <3>3, <3>7, <3>8 DEF QueuedAt, QueuedCommand, IsCommand
  <2> QED
    BY <2>2, <2>3
<1>1. QueueHolds' /\ RunningHolds'
  BY <1>q, <1>s, <1>t, QueueAdvances
<1>2. CommandsHold'
  <2> SUFFICES ASSUME NEW n \in Commands PROVE CommandAt(n)'
    BY DEF CommandsHold
  <2>1. CommandAt(n)
    BY <1>t DEF CommandsHold
  <2>2. CASE n = m
    BY <1>c, <2>2 DEF CommandAt
  <2>3. CASE n # m
    BY <1>c, <1>n, <2>1, <2>3 DEF CommandAt
  <2> QED
    BY <2>2, <2>3
<1>3. SessionsHold'
  <2>1. \A a \in session : signIn[a].client \in Clients
    BY <1>t DEF Kernel, SessionsHold, ClientTypes
  <2> QED
    BY <1>n, <2>1 DEF Kernel, SessionsHold, OneSessionPerClient
<1>4. RegisteredHold'
  BY DEF Kernel, RegisteredHold, Given, Claimable
<1> QED
  BY <1>1, <1>2, <1>3, <1>4, Frames DEF Kernel

LEMMA WrittenHolds ==
  ASSUME Types, Kernel, Written
  PROVE  Kernel'
<1>0. /\ phase = "writing" /\ queue # <<>>
      /\ UNCHANGED <<generation, ticketOf, claimed, expired, holds>>
  BY DEF Written, Kernel, RunningHolds
<1>1. CASE disk' = clients /\ Succeeds
  <2>1. Done /\ UNCHANGED <<ticket, clients>>
    BY <1>1 DEF Succeeds
  <2>2. CASE /\ op.kind = "approve"
             /\ request' = [request EXCEPT ![op.by] = "approved"]
             /\ clientOf' = [clientOf EXCEPT ![op.by] = op.client]
             /\ UNCHANGED <<denied, callerVars, removal>>
    BY <1>0, <1>1, <2>1, <2>2, ApproveEnds DEF callerVars
  <2>3. CASE /\ op.kind = "mark"
             /\ signIn' = [signIn EXCEPT ![op.by].pc = "over"]
             /\ UNCHANGED <<request, clientOf, denied, session, command, removal>>
    BY <1>0, <1>1, <2>1, <2>3, MarkEnds
  <2>4. CASE /\ op.kind = "remove"
             /\ request' = Drop({q \in Rows : clientOf[q] = command[op.by].client})
             /\ command' = [command EXCEPT ![op.by].pc = "done"]
             /\ removal' = [removal EXCEPT ![command[op.by].client] = "done"]
             /\ UNCHANGED <<clientOf, denied, signIn, session>>
    BY <1>0, <1>1, <2>1, <2>4, RemoveEnds
  <2>5. CASE /\ op.kind = "permission"
             /\ denied' = [denied EXCEPT ![command[op.by].client] =
                             IF AllowedAgain(op.by) THEN "none" ELSE @]
             /\ command' = [command EXCEPT ![op.by].pc = "done"]
             /\ UNCHANGED <<request, clientOf, signIn, session, removal>>
    BY <1>0, <1>1, <2>1, <2>5, PermissionEnds
  <2> QED
    BY <1>1, <2>2, <2>3, <2>4, <2>5 DEF Succeeds
<1>2. CASE /\ disk' = clients \/ disk' = disk
           /\ Fails(request) /\ UNCHANGED <<denied, clientOf, removal>>
  BY <1>0, <1>2, FailsHolds
<1> QED
  BY <1>1, <1>2 DEF Written
-----------------------------------------------------------------------------
(* Crashes, the initial state, types. *)

\* Nothing of the queue, the registrations and the callers is left.
NothingUnderWay ==
  /\ \A m \in Commands : command[m].pc \notin {"revoking", "queued"}
  /\ \A a \in SignIns : signIn[a].pc \notin {"hashing", "marking"}
  /\ \A q \in Requests : request[q] \in {"new", "gone"} /\ clientOf[q] = None
  /\ queue = <<>> /\ phase = "begin" /\ session = {} /\ claimed = {}
  /\ clients = disk
  /\ \A c \in Clients : removal[c] = "done" => disk[c] = None
  /\ None \notin holds /\ \A c \in holds : c \in Clients /\ (removal[c] = "none" => disk[c] # None)

LEMMA IdleHolds == NothingUnderWay => Kernel
<1> SUFFICES ASSUME NothingUnderWay PROVE Kernel
  OBVIOUS
<1> USE DEF NothingUnderWay
<1>1. CommandsHold
  BY DEF CommandsHold, CommandAt
<1>2. QueueHolds /\ RunningHolds
  <2>1. Len(queue) = 0
    OBVIOUS
  <2>2. \A k : k \notin 1..Len(queue)
    BY <2>1
  <2> QED
    BY <2>2 DEF QueueHolds, RunningHolds
<1>3. SessionsHold /\ RowsHold
  BY DEF SessionsHold, OneSessionPerClient, RowsHold
<1>4. RegisteredHold
  BY DEF RegisteredHold, Given, Claimable
<1>5. TicketsHold
  BY DEF TicketsHold, Busy, Rows
<1>6. PlacesHold
  <2>1. Occupied = {}
    BY DEF Occupied, Busy
  <2>2. IsFiniteSet({}) /\ Cardinality({}) = 0
    BY FS_EmptySet
  <2> QED
    BY <2>1, <2>2, ConstantsAssumption DEF PlacesHold
<1> QED
  BY <1>1, <1>2, <1>3, <1>4, <1>5, <1>6 DEF Kernel

LEMMA IdleHoldsNext == NothingUnderWay' => Kernel'
  BY IdleHolds, PTL

LEMMA RestartHolds ==
  ASSUME Types, Kernel, Restart
  PROVE  Kernel'
<1>0. /\ queue' = <<>> /\ phase' = "begin" /\ session' = {} /\ claimed' = {} /\ clients' = disk'
      /\ disk' = disk \/ disk' = clients
      /\ holds' = holds /\ removal' = removal
  BY DEF Restart
<1>t. ClientTypes /\ CallerTypes /\ RequestTypes
  BY DEF Types
<1>1. \A m \in Commands : command'[m].pc \notin {"revoking", "queued"}
  <2> SUFFICES ASSUME NEW m \in Commands PROVE command'[m].pc \notin {"revoking", "queued"}
    OBVIOUS
  <2>1. command' = [n \in Commands |-> IF command[n].pc \in {"revoking", "queued"}
                                       THEN [command[n] EXCEPT !.pc = "failed"] ELSE command[n]]
    BY DEF Restart
  <2>2. CASE command[m].pc \in {"revoking", "queued"}
    <3>1. command'[m].pc = "failed"
      BY <1>t, <2>1, <2>2 DEF CallerTypes
    <3> QED
      BY <3>1
  <2>3. CASE command[m].pc \notin {"revoking", "queued"}
    BY <2>1, <2>3
  <2> QED
    BY <2>2, <2>3
<1>2. \A a \in SignIns : signIn'[a].pc \notin {"hashing", "marking"}
  <2> SUFFICES ASSUME NEW a \in SignIns PROVE signIn'[a].pc \notin {"hashing", "marking"}
    OBVIOUS
  <2>1. signIn' = [b \in SignIns |-> IF signIn[b].pc = "idle" THEN NoSignIn
                                     ELSE [signIn[b] EXCEPT !.pc = "over"]]
    BY DEF Restart
  <2>2. CASE signIn[a].pc = "idle"
    BY <2>1, <2>2 DEF NoSignIn
  <2>3. CASE signIn[a].pc # "idle"
    <3>1. signIn'[a].pc = "over"
      BY <1>t, <2>1, <2>3 DEF CallerTypes
    <3> QED
      BY <3>1
  <2> QED
    BY <2>2, <2>3
<1>3. \A q \in Requests : request'[q] \in {"new", "gone"} /\ clientOf'[q] = None
  BY DEF Restart
<1>4. None \notin holds' /\ \A c \in holds' : c \in Clients
  BY <1>0, <1>t, ConstantsAssumption DEF ClientTypes
<1>5. \A c \in Clients : removal[c] = "done" => clients[c] = None /\ disk[c] = None
  BY DEF Kernel, RegisteredHold
<1>6. \A c \in Clients : c \in holds /\ removal[c] = "none" => clients[c] # None /\ disk[c] # None
  BY DEF Kernel, RegisteredHold
<1>7. \A c \in Clients : removal'[c] = "done" => disk'[c] = None
  BY <1>0, <1>5
<1>8. \A c \in holds' : c \in Clients /\ (removal'[c] = "none" => disk'[c] # None)
  BY <1>0, <1>4, <1>6
<1> QED
  BY <1>0, <1>1, <1>2, <1>3, <1>4, <1>7, <1>8, IdleHoldsNext DEF NothingUnderWay

LEMMA InitHolds == Init => IInv
<1> SUFFICES ASSUME Init PROVE IInv
  OBVIOUS
<1>c. Stored \subseteq Clients /\ "default" \in Permissions /\ None \notin Permissions /\ None \notin Clients
  BY ConstantsAssumption
<1>1. ClientTypes
  BY <1>c DEF Init, ClientTypes
<1>2. RequestTypes
  BY DEF Init, RequestTypes
<1>3. CallerTypes
  <2>1. NoSignIn \in [pc : {"idle", "hashing", "marking", "over"}, client : Clients \cup {None}, generation : Nat]
    BY DEF NoSignIn
  <2>2. NoCommand \in [pc : {"idle", "revoking", "queued", "done", "failed"},
                       kind : {"remove", "permission"}, client : Clients \cup {None},
                       permission : Permissions \cup {None}, generation : Nat]
    BY DEF NoCommand
  <2>3. signIn \in [SignIns -> [pc : {"idle", "hashing", "marking", "over"},
                                client : Clients \cup {None}, generation : Nat]]
    BY <2>1 DEF Init
  <2>4. command \in [Commands -> [pc : {"idle", "revoking", "queued", "done", "failed"},
                                  kind : {"remove", "permission"}, client : Clients \cup {None},
                                  permission : Permissions \cup {None}, generation : Nat]]
    BY <2>2 DEF Init
  <2>5. queue \in Seq(Ops) /\ phase \in {"begin", "sweeping", "writing"} /\ swept \subseteq Requests
        /\ session \subseteq SignIns
    BY DEF Init
  <2> QED
    BY <2>3, <2>4, <2>5 DEF CallerTypes
<1>4. Kernel
  <2>1. \A m \in Commands : command[m].pc \notin {"revoking", "queued"}
    BY DEF Init, NoCommand
  <2>2. \A a \in SignIns : signIn[a].pc \notin {"hashing", "marking"}
    BY DEF Init, NoSignIn
  <2>3. \A q \in Requests : request[q] \in {"new", "gone"} /\ clientOf[q] = None
    BY DEF Init
  <2>4. /\ queue = <<>> /\ phase = "begin" /\ session = {} /\ claimed = {} /\ clients = disk
        /\ holds = Stored /\ removal = [c \in Clients |-> "none"]
        /\ disk = [c \in Clients |-> IF c \in Stored THEN "default" ELSE None]
    BY DEF Init
  <2>5. None \notin holds /\ \A c \in holds : c \in Clients /\ (removal[c] = "none" => disk[c] # None)
    BY <1>c, <2>4
  <2>6. \A c \in Clients : removal[c] = "done" => disk[c] = None
    BY <2>4
  <2> QED
    BY <2>1, <2>2, <2>3, <2>4, <2>5, <2>6, IdleHolds DEF NothingUnderWay
<1> QED
  BY <1>1, <1>2, <1>3, <1>4 DEF IInv, Types

\* What types depend on.
LEMMA TypeFrames ==
  /\ ClientTypes /\ UNCHANGED <<disk, clients, generation, denied, holds, removal>> => ClientTypes'
  /\ RequestTypes /\ UNCHANGED <<ticket, request, ticketOf, clientOf, claimed, expired>> => RequestTypes'
  /\ CallerTypes /\ UNCHANGED <<queue, phase, swept, signIn, session, command>> => CallerTypes'
BY DEF ClientTypes, RequestTypes, CallerTypes

CommandRecords == [pc : {"idle", "revoking", "queued", "done", "failed"},
                    kind : {"remove", "permission"}, client : Clients \cup {None},
                    permission : Permissions \cup {None}, generation : Nat]

\* A command moves on.
LEMMA CommandMoves ==
  ASSUME NEW r \in CommandRecords, NEW pc \in {"idle", "revoking", "queued", "done", "failed"}, NEW g \in Nat
  PROVE  /\ [r EXCEPT !.pc = pc] \in CommandRecords
         /\ [r EXCEPT !.pc = pc, !.generation = g] \in CommandRecords
BY DEF CommandRecords

LEMMA EnqueueTypes ==
  ASSUME CallerTypes, NEW kind \in {"submit", "approve", "mark", "remove", "permission"},
         NEW by \in Requests \cup SignIns \cup Commands, Enqueue(kind, by)
  PROVE  queue' \in Seq(Ops)
<1>1. [kind |-> kind, by |-> by, client |-> None] \in Ops
  BY DEF Ops
<1> QED
  BY <1>1, AppendAt DEF Enqueue, CallerTypes

LEMMA DoneTypes ==
  ASSUME CallerTypes, queue # <<>>, Done
  PROVE  queue' \in Seq(Ops) /\ phase' \in {"begin", "sweeping", "writing"}
BY TailAt DEF CallerTypes, Done

\* Registration's steps.
LEMMA RegistrationTypes ==
  ASSUME Types, Kernel,
         \/ \E t \in Tickets : IssueTicket(t)
         \/ \E q \in Requests : Hashed(q) \/ Approve(q) \/ Reject(q) \/ Claim(q)
         \/ \E q \in Requests, t \in Tickets : Submit(q, t)
         \/ \E x \in Tickets \cup Requests : Expire(x)
  PROVE  Types'
<1>t. ClientTypes /\ RequestTypes /\ CallerTypes
  BY DEF Types
<1>1. ASSUME NEW t \in Tickets, IssueTicket(t) PROVE Types'
  <2>1. RequestTypes'
    BY <1>1, <1>t DEF IssueTicket, RequestTypes
  <2> QED
    BY <1>1, <1>t, <2>1, TypeFrames DEF Types, IssueTicket, clientVars, queueVars, callerVars, historyVars
<1>2. ASSUME NEW q \in Requests, NEW t \in Tickets, Submit(q, t) PROVE Types'
  <2>1. RequestTypes'
    BY <1>2, <1>t DEF Submit, RequestTypes
  <2>2. queue' \in Seq(Ops)
    BY <1>2, <1>t, EnqueueTypes DEF Submit
  <2>3. CallerTypes'
    BY <1>2, <1>t, <2>2 DEF Submit, CallerTypes, callerVars
  <2> QED
    BY <1>2, <1>t, <2>1, <2>3, TypeFrames DEF Types, Submit, clientVars, historyVars
<1>3. ASSUME NEW q \in Requests, Hashed(q) PROVE Types'
  <2>1. RequestTypes'
    BY <1>3, <1>t DEF Hashed, RequestTypes
  <2> QED
    BY <1>3, <1>t, <2>1, TypeFrames DEF Types, Hashed, clientVars, queueVars, callerVars, historyVars
<1>4. ASSUME NEW q \in Requests, Approve(q) PROVE Types'
  <2>2. queue' \in Seq(Ops)
    BY <1>4, <1>t, EnqueueTypes DEF Approve
  <2>3. CallerTypes'
    BY <1>4, <1>t, <2>2 DEF Approve, CallerTypes, callerVars
  <2> QED
    BY <1>4, <1>t, <2>3, TypeFrames DEF Types, Approve, clientVars, requestVars, historyVars
<1>5. ASSUME NEW q \in Requests, Reject(q) PROVE Types'
  <2>1. RequestTypes'
    BY <1>5, <1>t DEF Reject, RequestTypes
  <2> QED
    BY <1>5, <1>t, <2>1, TypeFrames DEF Types, Reject, clientVars, queueVars, callerVars
<1>6. ASSUME NEW q \in Requests, Claim(q) PROVE Types'
  <2>1. RequestTypes'
    BY <1>6, <1>t DEF Claim, RequestTypes
  <2>2. clientOf[q] \in Clients
    BY <1>6, <1>t DEF Claim, Kernel, RowsHold, RequestTypes
  <2>3. ClientTypes'
    BY <1>6, <1>t, <2>2 DEF Claim, ClientTypes, clientVars
  <2> QED
    BY <1>6, <1>t, <2>1, <2>3, TypeFrames DEF Types, Claim, queueVars, callerVars
<1>7. ASSUME NEW x \in Tickets \cup Requests, Expire(x) PROVE Types'
  <2>1. RequestTypes'
    BY <1>7, <1>t DEF Expire, RequestTypes
  <2> QED
    BY <1>7, <1>t, <2>1, TypeFrames DEF Types, Expire, clientVars, queueVars, callerVars, historyVars
<1> QED
  BY <1>1, <1>2, <1>3, <1>4, <1>5, <1>6, <1>7

\* The callers' steps.
LEMMA CallerStepTypes ==
  ASSUME Types, Kernel,
         \/ \E m \in Commands, c \in Clients :
              Issue(m, "remove", c, None) \/ \E p \in Permissions : Issue(m, "permission", c, p)
         \/ \E m \in Commands : Revoked(m)
         \/ \E a \in SignIns, c \in Clients : SignIn(a, c)
         \/ \E a \in SignIns : Verified(a) \/ SessionEnds(a)
  PROVE  Types'
<1>t. ClientTypes /\ RequestTypes /\ CallerTypes
  BY DEF Types
<1>1. ASSUME NEW m \in Commands, NEW c \in Clients, NEW kind \in {"remove", "permission"},
             NEW p \in Permissions \cup {None}, Issue(m, kind, c, p) PROVE Types'
  <2>1. /\ generation' \in [Clients -> Nat] /\ denied' \in [Clients -> {"none", "downgrade", "remove"}]
    BY <1>1, <1>t, Invalidated DEF Issue
  <2>2. ClientTypes'
    BY <1>1, <1>t, <2>1 DEF Issue, ClientTypes
  <2>3. CallerTypes'
    BY <1>1, <1>t DEF Issue, CallerTypes, queueVars, Sessions
  <2> QED
    BY <1>1, <1>t, <2>2, <2>3, TypeFrames DEF Types, Issue, requestVars
<1>2. ASSUME NEW m \in Commands, Revoked(m) PROVE Types'
  <2>1. PICK d \in Clients, k \in {"remove", "permission"} : d = command[m].client /\ k = command[m].kind
    BY <1>2, <1>t DEF Revoked, Kernel, CommandsHold, CommandAt, CallerTypes
  <2>2. UNCHANGED <<disk, clients, ticket, request, ticketOf, clientOf, claimed, expired, phase, swept, signIn,
                    holds, removal>>
    BY <1>2 DEF Revoked, requestVars, historyVars
  <2>3. CASE StopSharing(m) /\ UNCHANGED <<generation, denied, queue>>
    <3>1. CallerTypes'
      BY <1>t, <2>2, <2>3, ZenonT(30) DEF StopSharing, CallerTypes
    <3> QED
      BY <1>t, <2>2, <2>3, <3>1, TypeFrames DEF Types
  <2>4. CASE /\ Invalidate(d, k)
             /\ command' = [command EXCEPT ![m].pc = "queued", ![m].generation = generation[d] + 1]
             /\ Enqueue(k, m)
             /\ UNCHANGED session
    <3>1. /\ generation' \in [Clients -> Nat] /\ denied' \in [Clients -> {"none", "downgrade", "remove"}]
      BY <1>t, <2>4, Invalidated
    <3>2. queue' \in Seq(Ops)
      BY <1>t, <2>4, EnqueueTypes
    <3>3. generation[d] + 1 \in Nat
      BY <1>t DEF ClientTypes
    <3>c. PICK g \in Nat : command' = [command EXCEPT ![m].pc = "queued", ![m].generation = g]
      BY <2>4, <3>3
    <3>d. command' \in [Commands -> CommandRecords]
      <4>1. command \in [Commands -> CommandRecords]
        BY <1>t DEF CallerTypes, CommandRecords
      <4>2. [command[m] EXCEPT !.pc = "queued", !.generation = g] \in CommandRecords
        BY <4>1, CommandMoves
      <4> QED
        BY <3>c, <4>1, <4>2
    <3>4. CallerTypes'
      BY <1>t, <2>2, <2>4, <3>2, <3>d DEF CallerTypes, CommandRecords
    <3>5. ClientTypes'
      BY <1>t, <2>2, <3>1 DEF ClientTypes
    <3> QED
      BY <1>t, <2>2, <3>4, <3>5, TypeFrames DEF Types
  <2> QED
    BY <1>2, <2>1, <2>3, <2>4 DEF Revoked
<1>3. ASSUME NEW a \in SignIns, NEW c \in Clients, SignIn(a, c) PROVE Types'
  <2>1. generation[c] \in Nat
    BY <1>t DEF ClientTypes
  <2>2. CallerTypes'
    BY <1>3, <1>t, <2>1 DEF SignIn, CallerTypes, queueVars
  <2> QED
    BY <1>3, <1>t, <2>2, TypeFrames DEF Types, SignIn, clientVars, requestVars, historyVars
<1>4. ASSUME NEW a \in SignIns, Verified(a) PROVE Types'
  <2>1. UNCHANGED <<disk, clients, generation, denied, ticket, request, ticketOf, clientOf, claimed, expired,
                    phase, swept, command, holds, removal>>
    BY <1>4 DEF Verified, clientVars, requestVars, historyVars
  <2>2. queue' \in Seq(Ops)
    BY <1>4, <1>t, EnqueueTypes DEF Verified, CallerTypes
  <2>3. signIn' \in [SignIns -> [pc : {"idle", "hashing", "marking", "over"},
                                 client : Clients \cup {None}, generation : Nat]]
    <3>1. \/ signIn' = [signIn EXCEPT ![a].pc = "marking"]
          \/ signIn' = [signIn EXCEPT ![a].pc = "over"]
      BY <1>4 DEF Verified
    <3>2. CASE signIn' = [signIn EXCEPT ![a].pc = "marking"]
      BY <1>t, <3>2, ZenonT(30) DEF CallerTypes
    <3>3. CASE signIn' = [signIn EXCEPT ![a].pc = "over"]
      BY <1>t, <3>3, ZenonT(30) DEF CallerTypes
    <3> QED
      BY <3>1, <3>2, <3>3
  <2>4. session' \subseteq SignIns
    BY <1>4, <1>t DEF Verified, CallerTypes
  <2> QED
    BY <1>t, <2>1, <2>2, <2>3, <2>4, TypeFrames DEF Types, CallerTypes
<1>5. ASSUME NEW a \in SignIns, SessionEnds(a) PROVE Types'
  <2>1. CallerTypes'
    BY <1>5, <1>t DEF SessionEnds, CallerTypes, queueVars
  <2> QED
    BY <1>5, <1>t, <2>1, TypeFrames DEF Types, SessionEnds, clientVars, requestVars, historyVars
<1> QED
  BY <1>1, <1>2, <1>3, <1>4, <1>5

Statuses == {"new", "queued", "hashing", "pending", "approved", "rejected", "gone"}

LEMMA FailsTypes ==
  ASSUME Types, queue # <<>>, NEW R \in [Requests -> Statuses], Fails(R), swept' \subseteq Requests
  PROVE  CallerTypes' /\ request' \in [Requests -> Statuses] /\ UNCHANGED <<ticket, clients>>
<1>t. CallerTypes
  BY DEF Types
<1>1. request' \in [Requests -> Statuses] /\ UNCHANGED <<ticket, clients>>
  BY DEF Fails, Statuses
<1>2. queue' \in Seq(Ops) /\ phase' \in {"begin", "sweeping", "writing"}
  BY <1>t, DoneTypes DEF Fails
<1>3. session' \subseteq SignIns
  BY <1>t DEF Fails, CallerTypes
<1>4. signIn' \in [SignIns -> [pc : {"idle", "hashing", "marking", "over"},
                               client : Clients \cup {None}, generation : Nat]]
  BY <1>t, ZenonT(30) DEF Fails, CallerTypes
<1>5. command' \in [Commands -> CommandRecords]
  <2>1. command \in [Commands -> CommandRecords]
    BY <1>t DEF CallerTypes, CommandRecords
  <2>2. \A m \in Commands : [command[m] EXCEPT !.pc = "failed"] \in CommandRecords
    BY <2>1, CommandMoves, 0 \in Nat
  <2>3. command' = [m \in Commands |-> IF op.kind \in {"remove", "permission"} /\ m = op.by
                                       THEN [command[m] EXCEPT !.pc = "failed"] ELSE command[m]]
    BY DEF Fails
  <2> QED
    BY <2>1, <2>2, <2>3
<1> QED
  BY <1>1, <1>2, <1>3, <1>4, <1>5 DEF CallerTypes, CommandRecords

\* What an operation's body sets.
LEMMA RunsTypes ==
  ASSUME Types, Kernel, queue # <<>>, NEW R \in [Requests -> Statuses], Runs(R), swept' \subseteq Requests
  PROVE  /\ CallerTypes' /\ request' \in [Requests -> Statuses]
         /\ ticket' \in [Tickets -> {"none", "free", "inUse", "spent"}]
         /\ clients' \in [Clients -> Permissions \cup {None}]
<1>t. ClientTypes /\ RequestTypes /\ CallerTypes
  BY DEF Types
<1>o. op \in Ops
  BY <1>t, QueueEntries
<1>k. /\ ticket \in [Tickets -> {"none", "free", "inUse", "spent"}]
      /\ clients \in [Clients -> Permissions \cup {None}]
  BY <1>t DEF RequestTypes, ClientTypes
<1>w. ASSUME NEW o \in Ops, Writes(R, o)
      PROVE  CallerTypes' /\ request' = R /\ ticket' = ticket
  <2>1. queue' \in Seq(Ops)
    BY <1>t, <1>w, HeadReplaced DEF Writes, CallerTypes
  <2> QED
    BY <1>t, <1>w, <2>1 DEF Writes, CallerTypes, callerVars
<1>1. CASE op.kind = "submit" /\ SubmitRuns(R)
  <2>1. queue' \in Seq(Ops) /\ phase' \in {"begin", "sweeping", "writing"}
    BY <1>1, <1>t, DoneTypes DEF SubmitRuns
  <2>2. request' \in [Requests -> Statuses] /\ ticket' \in [Tickets -> {"none", "free", "inUse", "spent"}]
    BY <1>1, <1>k DEF SubmitRuns, Statuses
  <2> QED
    BY <1>1, <1>k, <1>t, <2>1, <2>2 DEF SubmitRuns, CallerTypes, callerVars
<1>2. ASSUME NEW c \in Fresh, clients' = [clients EXCEPT ![c] = "default"], Writes(R, [op EXCEPT !.client = c])
      PROVE  CallerTypes' /\ request' = R /\ ticket' = ticket /\ clients' \in [Clients -> Permissions \cup {None}]
  <2>1. [op EXCEPT !.client = c] \in Ops
    BY <1>o DEF Ops, Fresh
  <2>2. clients' \in [Clients -> Permissions \cup {None}]
    BY <1>2, <1>k, ConstantsAssumption
  <2> QED
    BY <1>2, <1>w, <2>1, <2>2
<1>3. CASE Writes(R, op) /\ UNCHANGED clients
  BY <1>3, <1>k, <1>o, <1>w
<1>4. ASSUME op.kind \in {"remove", "permission"}, Writes(R, op),
             clients' = [clients EXCEPT ![command[op.by].client] = Edited(op.by)]
      PROVE  CallerTypes' /\ request' = R /\ ticket' = ticket /\ clients' \in [Clients -> Permissions \cup {None}]
  <2>1. op.by \in Commands
    BY <1>4, <1>t, RunningSays DEF IsCommand, Kernel
  <2>2. Edited(op.by) \in Permissions \cup {None}
    BY <1>t, <2>1 DEF Edited, CallerTypes
  <2> QED
    BY <1>4, <1>k, <1>o, <1>w, <2>2
<1>5. CASE Fails(R)
  BY <1>5, <1>k, FailsTypes
<1> QED
  BY <1>1, <1>2, <1>3, <1>4, <1>5, <1>k DEF Runs

LEMMA DropTypes ==
  ASSUME RequestTypes, NEW E
  PROVE  Drop(E) \in [Requests -> Statuses]
BY DEF RequestTypes, Drop, Statuses

LEMMA QueueStepTypes ==
  ASSUME Types, Kernel, Begin \/ Sweeps \/ Written
  PROVE  Types'
<1>t. ClientTypes /\ RequestTypes /\ CallerTypes
  BY DEF Types
<1>s. swept \subseteq Requests
  BY <1>t DEF CallerTypes
<1>1. CASE Begin
  <2>u. /\ queue # <<>>
        /\ UNCHANGED <<disk, generation, denied, ticketOf, clientOf, claimed, expired, holds, removal>>
    BY <1>1 DEF Begin, historyVars
  <2>1. CASE Runs(Drop(Rows \cap expired)) /\ UNCHANGED swept
    <3>1. PICK R \in [Requests -> Statuses] : R = Drop(Rows \cap expired)
      BY <1>t, DropTypes
    <3>2. /\ CallerTypes' /\ request' \in [Requests -> Statuses]
          /\ ticket' \in [Tickets -> {"none", "free", "inUse", "spent"}]
          /\ clients' \in [Clients -> Permissions \cup {None}]
      BY <1>s, <2>1, <2>u, <3>1, RunsTypes
    <3> QED
      BY <1>t, <2>u, <3>2 DEF Types, ClientTypes, RequestTypes, Statuses
  <2>2. CASE /\ clients' = [c \in Clients |-> IF c \in Unclaimed(Rows \cap expired) THEN None ELSE clients[c]]
             /\ phase' = "sweeping"
             /\ swept' = Rows \cap expired
             /\ UNCHANGED <<ticket, request, queue, callerVars>>
    <3>1. CallerTypes'
      BY <1>t, <2>2 DEF CallerTypes, callerVars, Rows
    <3>2. clients' \in [Clients -> Permissions \cup {None}]
      BY <1>t, <2>2 DEF ClientTypes
    <3>3. ClientTypes'
      BY <1>t, <2>u, <3>2 DEF ClientTypes
    <3> QED
      BY <1>t, <2>2, <2>u, <3>1, <3>3, TypeFrames DEF Types
  <2> QED
    BY <1>1, <2>1, <2>2 DEF Begin
<1>2. CASE Sweeps
  <2>u. /\ queue # <<>> /\ swept' = {}
        /\ UNCHANGED <<generation, denied, ticketOf, clientOf, claimed, expired, holds, removal>>
    BY <1>2 DEF Sweeps, historyVars, Kernel, RunningHolds
  <2>1. CASE disk' = clients /\ Runs(Drop(swept))
    <3>1. PICK R \in [Requests -> Statuses] : R = Drop(swept)
      BY <1>t, DropTypes
    <3>2. /\ CallerTypes' /\ request' \in [Requests -> Statuses]
          /\ ticket' \in [Tickets -> {"none", "free", "inUse", "spent"}]
          /\ clients' \in [Clients -> Permissions \cup {None}]
      BY <2>1, <2>u, <3>1, RunsTypes
    <3> QED
      BY <1>t, <2>1, <2>u, <3>2 DEF Types, ClientTypes, RequestTypes, Statuses
  <2>2. CASE Fails(request) /\ UNCHANGED disk
    <3>1. request \in [Requests -> Statuses]
      BY <1>t DEF RequestTypes, Statuses
    <3>2. CallerTypes' /\ request' \in [Requests -> Statuses] /\ UNCHANGED <<ticket, clients>>
      BY <2>2, <2>u, <3>1, FailsTypes
    <3> QED
      BY <1>t, <2>2, <2>u, <3>2 DEF Types, ClientTypes, RequestTypes, Statuses
  <2> QED
    BY <1>2, <2>1, <2>2 DEF Sweeps
<1>3. CASE Written
  <2>u. /\ queue # <<>> /\ phase = "writing" /\ swept' \subseteq Requests
        /\ UNCHANGED <<generation, ticketOf, claimed, expired, holds>>
    BY <1>3, <1>s DEF Written, Kernel, RunningHolds
  <2>1. CASE Fails(request) /\ UNCHANGED <<denied, clientOf, removal>> /\ (disk' = clients \/ disk' = disk)
    <3>1. request \in [Requests -> Statuses]
      BY <1>t DEF RequestTypes, Statuses
    <3>2. CallerTypes' /\ request' \in [Requests -> Statuses] /\ UNCHANGED <<ticket, clients>>
      BY <2>1, <2>u, <3>1, FailsTypes
    <3> QED
      BY <1>t, <2>1, <2>u, <3>2 DEF Types, ClientTypes, RequestTypes, Statuses
  <2>2. CASE disk' = clients /\ Succeeds
    <3>1. /\ queue' \in Seq(Ops) /\ phase' \in {"begin", "sweeping", "writing"}
          /\ ticket' = ticket /\ clients' = clients
      BY <1>t, <2>2, <2>u, DoneTypes DEF Succeeds
    <3>2. signIn' \in [SignIns -> [pc : {"idle", "hashing", "marking", "over"},
                                   client : Clients \cup {None}, generation : Nat]]
      BY <1>t, <2>2, ZenonT(30) DEF Succeeds, CallerTypes, callerVars
    <3>3. command' \in [Commands -> [pc : {"idle", "revoking", "queued", "done", "failed"},
                                     kind : {"remove", "permission"}, client : Clients \cup {None},
                                     permission : Permissions \cup {None}, generation : Nat]]
      <4>1. command' = command \/ command' = [command EXCEPT ![op.by].pc = "done"]
        BY <2>2 DEF Succeeds, callerVars
      <4>2. CASE command' = command
        BY <1>t, <4>2 DEF CallerTypes
      <4>3. CASE command' = [command EXCEPT ![op.by].pc = "done"]
        BY <1>t, <4>3, ZenonT(30) DEF CallerTypes
      <4> QED
        BY <4>1, <4>2, <4>3
    <3>4. session' = session
      BY <2>2 DEF Succeeds, callerVars
    <3>5. CallerTypes'
      BY <1>t, <2>u, <3>1, <3>2, <3>3, <3>4 DEF CallerTypes
    <3>6. denied' \in [Clients -> {"none", "downgrade", "remove"}]
      BY <1>t, <2>2 DEF Succeeds, ClientTypes
    <3>7. removal' \in [Clients -> {"none", "asked", "done"}]
      BY <1>t, <2>2 DEF Succeeds, ClientTypes
    <3>8. ClientTypes'
      BY <1>t, <2>2, <2>u, <3>1, <3>6, <3>7 DEF ClientTypes
    <3>9. request' \in [Requests -> Statuses]
      BY <1>t, <2>2, DropTypes DEF Succeeds, RequestTypes, Statuses
    <3>10. clientOf' \in [Requests -> Clients \cup {None}]
      <4>1. op.kind = "approve" => op.client \in Clients
        BY <2>u DEF Kernel, RunningHolds, NewClient
      <4> QED
        BY <1>t, <2>2, <4>1 DEF Succeeds, RequestTypes
    <3> QED
      BY <1>t, <2>u, <3>1, <3>5, <3>8, <3>9, <3>10 DEF Types, RequestTypes, Statuses
  <2> QED
    BY <1>3, <2>1, <2>2 DEF Written
<1> QED
  BY <1>1, <1>2, <1>3

LEMMA RestartTypes ==
  ASSUME Types, Restart
  PROVE  Types'
<1>t. ClientTypes /\ RequestTypes /\ CallerTypes
  BY DEF Types
<1>1. ClientTypes'
  <2>1. disk' \in [Clients -> Permissions \cup {None}]
    BY <1>t DEF Restart, ClientTypes
  <2> QED
    BY <1>t, <2>1 DEF Restart, ClientTypes
<1>2. RequestTypes'
  BY <1>t DEF Restart, RequestTypes
<1>3. CallerTypes'
  <2>1. signIn' \in [SignIns -> [pc : {"idle", "hashing", "marking", "over"},
                                 client : Clients \cup {None}, generation : Nat]]
    BY <1>t, ZenonT(30) DEF Restart, CallerTypes, NoSignIn
  <2>2. command' \in [Commands -> [pc : {"idle", "revoking", "queued", "done", "failed"},
                                   kind : {"remove", "permission"}, client : Clients \cup {None},
                                   permission : Permissions \cup {None}, generation : Nat]]
    BY <1>t, ZenonT(30) DEF Restart, CallerTypes
  <2>3. queue' \in Seq(Ops) /\ phase' \in {"begin", "sweeping", "writing"} /\ swept' = {} /\ session' = {}
    BY DEF Restart
  <2> QED
    BY <2>1, <2>2, <2>3 DEF CallerTypes
<1> QED
  BY <1>1, <1>2, <1>3 DEF Types
-----------------------------------------------------------------------------
(* The invariant, and the theorems. *)

LEMMA StutterHolds == IInv /\ UNCHANGED vars => IInv'
<1> SUFFICES ASSUME IInv, UNCHANGED vars PROVE IInv'
  OBVIOUS
<1>1. UNCHANGED <<disk, clients, generation, denied, ticket, request, ticketOf, clientOf, claimed, expired,
                  queue, phase, swept, signIn, session, command, holds, removal>>
  BY DEF vars, clientVars, requestVars, queueVars, callerVars, historyVars
<1> QED
  BY <1>1, Frames, TypeFrames DEF IInv, Types, Kernel

LEMMA NextHolds == IInv /\ [Next]_vars => IInv'
<1> SUFFICES ASSUME Types, Kernel, Next PROVE Types' /\ Kernel'
  BY StutterHolds DEF IInv
<1>1. CASE \/ \E t \in Tickets : IssueTicket(t)
           \/ \E q \in Requests : Hashed(q) \/ Approve(q) \/ Reject(q) \/ Claim(q)
           \/ \E q \in Requests, t \in Tickets : Submit(q, t)
           \/ \E x \in Tickets \cup Requests : Expire(x)
  <2>1. Types'
    BY <1>1, RegistrationTypes
  <2>2. Kernel'
    BY <1>1, IssueTicketHolds, SubmitHolds, HashedHolds, ApproveHolds, RejectHolds, ClaimHolds, ExpireHolds
  <2> QED
    BY <2>1, <2>2
<1>2. CASE \/ \E m \in Commands, c \in Clients :
                Issue(m, "remove", c, None) \/ \E p \in Permissions : Issue(m, "permission", c, p)
           \/ \E m \in Commands : Revoked(m)
           \/ \E a \in SignIns, c \in Clients : SignIn(a, c)
           \/ \E a \in SignIns : Verified(a) \/ SessionEnds(a)
  <2>1. Types'
    BY <1>2, CallerStepTypes
  <2>2. Kernel'
    BY <1>2, IssueHolds, RevokedHolds, SignInHolds, VerifiedHolds, SessionEndsHolds
  <2> QED
    BY <2>1, <2>2
<1>3. CASE Begin \/ Sweeps \/ Written
  BY <1>3, QueueStepTypes, BeginHolds, SweepsHolds, WrittenHolds
<1>4. CASE Restart
  BY <1>4, RestartTypes, RestartHolds
<1> QED
  BY <1>1, <1>2, <1>3, <1>4 DEF Next

LEMMA Invariant == Spec => []IInv
BY InitHolds, NextHolds, PTL DEF Spec

\* A device has at most one live session, however many sign-ins were verifying at once and
\* whatever the owner changed meanwhile (connectApproved, session-store.mjs).
THEOREM OneSession == Spec => []OneSessionPerClient
<1>1. IInv => OneSessionPerClient
  BY DEF IInv, Kernel, SessionsHold
<1> QED
  BY <1>1, Invariant, PTL

\* Once the owner asked to remove a device it has no live session, and once the removal is done
\* neither memory nor the file has the device, through failed writes, later edits and crashes
\* (remove, approved-clients.mjs).
THEOREM RemovalFinal == Spec => []RemovalIsFinal
<1>1. IInv => RemovalIsFinal
  BY DEF IInv, Kernel, SessionsHold, RegisteredHold, RemovalIsFinal, RemovalEndsSessions, RemovedIsForgotten
<1> QED
  BY <1>1, Invariant, PTL

\* A device that has its secret stays in memory and in the file until the owner asks to remove it
\* (the sweep, #sweepExpiredInner, and the reload after a crash).
THEOREM StaysRegistered == Spec => []DeviceStaysRegistered
<1>1. IInv => DeviceStaysRegistered
  BY DEF IInv, Types, ClientTypes, Kernel, RegisteredHold, DeviceStaysRegistered
<1> QED
  BY <1>1, Invariant, PTL

\* A device that may sign in has in memory the permission the file has (setPermission,
\* approved-clients.mjs: it is let in again only after the write).
THEOREM Durable == Spec => []PermissionIsDurable
<1>1. IInv => PermissionIsDurable
  BY DEF IInv, Types, ClientTypes, Kernel, RegisteredHold, PermissionIsDurable, Authorized, Given
<1> QED
  BY <1>1, Invariant, PTL

\* One submission is accepted for a ticket and no more submissions than fit, however many of them
\* hash their password at once (submit, approved-clients.mjs).
THEOREM Admitted == Spec => []SubmissionsAdmitted
<1>1. IInv => TicketUsedOnce
  BY DEF IInv, Kernel, TicketsHold, TicketUsedOnce, Busy
<1>2. IInv => RequestsBounded
  <2> SUFFICES ASSUME IInv PROVE RequestsBounded
    OBVIOUS
  <2>1. IsFiniteSet(Occupied) /\ Cardinality(Occupied) <= MaxPending
    BY DEF IInv, Kernel, PlacesHold
  <2>2. Rows \subseteq Occupied
    BY DEF Rows, Occupied, Busy
  <2>3. IsFiniteSet(Rows) /\ Cardinality(Rows) <= Cardinality(Occupied)
    BY <2>1, <2>2, FS_Subset
  <2>4. Cardinality(Rows) \in Nat /\ Cardinality(Occupied) \in Nat /\ MaxPending \in Nat
    BY <2>1, <2>3, FS_CardinalityType, ConstantsAssumption
  <2> QED
    BY <2>1, <2>3, <2>4 DEF RequestsBounded
<1>3. IInv => SubmissionsAdmitted
  BY <1>1, <1>2 DEF SubmissionsAdmitted
<1> QED
  BY <1>3, Invariant, PTL
=============================================================================
