------------------------------ MODULE HttpAccess ------------------------------
(***************************************************************************)
(* Who may do what over HTTP (http-app.mjs): the gates every request       *)
(* passes when it arrives, admission with a key or as an approved device,  *)
(* the requests of a session (session-store.mjs), the cookie that opens    *)
(* the viewer's files (viewer-asset-grants.mjs), and the owner switching   *)
(* remote access on and off under them.                                    *)
(*                                                                         *)
(* A request is checked when it arrives, then waits: for its body, for the *)
(* device's proof, for the runtime or a file.  Rate limits, unreadable     *)
(* bodies and internal errors end it at any of these points (Fail).        *)
(***************************************************************************)
EXTENDS Naturals, FiniteSets

CONSTANTS
  Requests,     \* requests under way
  Callers,        \* devices, each with its own address
  Network,      \* where each is: "local", "private" or "internet"
  Tokens,       \* the ids sessions get
  MaxConnected, \* maxSessions
  TlsOff,       \* the owner turned HTTPS off: the viewer is served over HTTP
  None

ASSUME HttpAccessAssumption ==
  /\ Network \in [Callers -> {"local", "private", "internet"}]
  /\ None \notin Callers /\ None \notin Tokens
  /\ MaxConnected \in Nat \ {0} /\ TlsOff \in BOOLEAN

VARIABLES
  remote,   \* access.remoteAccess
  mode,     \* access.connectionMode
  named,    \* access.publicHostnames has a name
  session,  \* each token: the peer and whether it is an approved device's, while it lives
  issuedTo, \* the peer a token was sent to
  grant,    \* tokens with a viewer cookie
  request,  \* the requests, and what each waits for
  answer    \* the session content just sent: to which peer, for which token

accessVars == <<remote, mode, named, session, issuedTo, grant, request, answer>>

Admissions == {"key-start", "sign-in"}
\* Requests a session makes: one the runtime answers later, one answered at once, the last one.
Calls == {"offer", "poll", "disconnect"}
Idle == [at |-> "idle", route |-> "poll", peer |-> None, token |-> None]
NoAnswer == [to |-> None, for |-> None]

AccessInit ==
  /\ remote = FALSE /\ mode = "session-key" /\ named \in BOOLEAN
  /\ session = [t \in Tokens |-> None]
  /\ issuedTo = [t \in Tokens |-> None]
  /\ grant = {}
  /\ request = [r \in Requests |-> Idle]
  /\ answer = NoAnswer

-----------------------------------------------------------------------------
Live == {t \in Tokens : session[t] # None}

Internet(p) == Network[p] = "internet"

\* The gates, in the handler's order: remote access, encryption, the local network for HTTP, and
\* no short code from the internet.  HTTPS is there unless the owner turned it off.
Gate(p, route) ==
  LET encrypted == ~TlsOff
  IN /\ Internet(p) => remote /\ encrypted /\ route # "key-start"
     /\ encrypted \/ Network[p] = "local"

\* sessionStore.get and the address it must come from.
Owns(p, t) == t \in Live /\ session[t].peer = p

\* viewerGrants.sessionFor.
OpensViewer(p, t) == t \in grant /\ Owns(p, t)

Becomes(r, at) == request' = [request EXCEPT ![r].at = at]

Ends(r) == request' = [request EXCEPT ![r] = Idle]

\* onRevoke: the session's cookie goes with it.
Disconnect(S) ==
  /\ session' = [t \in Tokens |-> IF t \in S THEN None ELSE session[t]]
  /\ grant' = grant \ S

Arrive(r) ==
  /\ request[r] = Idle
  /\ \E p \in Callers :
       \/ \E route \in Admissions :
            /\ Gate(p, route)
            /\ request' = [request EXCEPT
                 ![r] = [at |-> "body", route |-> route, peer |-> p, token |-> None]]
       \/ \E route \in Calls, t \in Tokens :
            /\ issuedTo[t] = p /\ Gate(p, route)
            /\ request' = [request EXCEPT
                 ![r] = [at |-> "body", route |-> route, peer |-> p, token |-> t]]
       \/ \E t \in Tokens :
            /\ issuedTo[t] = p /\ Gate(p, "asset") /\ OpensViewer(p, t)
            /\ request' = [request EXCEPT
                 ![r] = [at |-> "waiting", route |-> "asset", peer |-> p, token |-> t]]
  /\ answer' = NoAnswer
  /\ UNCHANGED <<remote, mode, named, session, issuedTo, grant>>

\* A limit, an unreadable body, a wrong key, a refused plan, an error.
Fail(r) ==
  /\ request[r] # Idle /\ request[r].at # "marking"
  /\ Ends(r)
  /\ answer' = NoAnswer
  /\ UNCHANGED <<remote, mode, named, session, issuedTo, grant>>

-----------------------------------------------------------------------------
\* #createSession, while there is a place: a token nobody has had.
Connect(t, p, approved) ==
  /\ issuedTo[t] = None /\ session[t] = None
  /\ \A q \in Requests : request[q].token # t
  /\ Cardinality(Live) < MaxConnected
  /\ session' = [session EXCEPT ![t] = [peer |-> p, approved |-> approved]]

\* sendAdmission: the token and its cookie are sent, also when the session has ended meanwhile.
Admit(r, t) ==
  /\ issuedTo' = [issuedTo EXCEPT ![t] = request[r].peer]
  /\ grant' = grant \cup {t}
  /\ Ends(r)

\* The key is right for the connection mode; a standing password only on the local network.
KeyStart(r, t) ==
  /\ request[r].at = "body" /\ request[r].route = "key-start"
  /\ \/ mode = "session-key" /\ Network[request[r].peer] = "local"
     \/ mode # "approved-only"
  /\ Connect(t, request[r].peer, FALSE)
  /\ Admit(r, t)
  /\ answer' = NoAnswer
  /\ UNCHANGED <<remote, mode, named>>

\* authenticate waits for the password's hash.
BeginProof(r) ==
  /\ request[r].at = "body" /\ request[r].route = "sign-in"
  /\ Becomes(r, "proof")
  /\ answer' = NoAnswer
  /\ UNCHANGED <<remote, mode, named, session, issuedTo, grant>>

\* The device has no other session: it is connected, and its row is marked on disk.
Proved(r, t) ==
  /\ request[r].at = "proof"
  /\ \A u \in Live : ~(session[u].approved /\ session[u].peer = request[r].peer)
  /\ Connect(t, request[r].peer, TRUE)
  /\ request' = [request EXCEPT ![r].at = "marking", ![r].token = t]
  /\ answer' = NoAnswer
  /\ UNCHANGED <<remote, mode, named, issuedTo, grant>>

\* When the mark cannot be written the session is taken back.
Marked(r) ==
  /\ request[r].at = "marking"
  /\ \/ Admit(r, request[r].token) /\ UNCHANGED session
     \/ /\ Disconnect({request[r].token})
        /\ issuedTo' = [issuedTo EXCEPT ![request[r].token] = request[r].peer]
        /\ Ends(r)
  /\ answer' = NoAnswer
  /\ UNCHANGED <<remote, mode, named>>

-----------------------------------------------------------------------------
\* A session's request, once its body is read: the token must still be that peer's session.
Call(r) ==
  /\ request[r].at = "body" /\ request[r].route \in Calls
  /\ Owns(request[r].peer, request[r].token)
  /\ LET p == request[r].peer
         t == request[r].token
     IN \/ /\ request[r].route = "offer"
           /\ Becomes(r, "waiting")
           /\ answer' = NoAnswer
           /\ UNCHANGED <<session, grant>>
        \/ /\ request[r].route = "poll"
           /\ Ends(r)
           /\ answer' = [to |-> p, for |-> t]
           /\ UNCHANGED <<session, grant>>
        \/ /\ request[r].route = "disconnect"
           /\ Ends(r)
           /\ Disconnect({t})
           /\ answer' = NoAnswer
  /\ UNCHANGED <<remote, mode, named, issuedTo>>

\* Mutant: what the session was before the wait is good enough.
StillAllowedM(r) == TRUE

\* sendIfLive, and the second look at the cookie once the file is read.
StillAllowed(r) ==
  IF request[r].route = "asset" THEN OpensViewer(request[r].peer, request[r].token)
  ELSE request[r].token \in Live

\* The runtime or the file system answers.
Answer(r) ==
  /\ request[r].at = "waiting"
  /\ answer' = IF StillAllowed(r) THEN [to |-> request[r].peer, for |-> request[r].token]
               ELSE NoAnswer
  /\ Ends(r)
  /\ UNCHANGED <<remote, mode, named, session, issuedTo, grant>>

-----------------------------------------------------------------------------
\* The owner disconnects it, its policy or its device changes, or 20 s pass without a request.
SessionOver(t) ==
  /\ t \in Live
  /\ Disconnect({t})
  /\ answer' = NoAnswer
  /\ UNCHANGED <<remote, mode, named, issuedTo, request>>

\* validate: the access settings that may be saved.
Savable(on, by, names) == on => by = "approved-only" /\ names

\* remote-access on, or the owner starts sharing with the internet.
SwitchOn ==
  /\ ~remote /\ Savable(TRUE, "approved-only", named)
  /\ remote' = TRUE /\ mode' = "approved-only"
  /\ answer' = NoAnswer
  /\ UNCHANGED <<named, session, issuedTo, grant, request>>

InternetSessions == {t \in Live : Internet(session[t].peer)}

\* disconnectInternet runs in the turn of the change, over the sessions there are.
SwitchOff ==
  /\ remote
  /\ remote' = FALSE
  /\ Disconnect(InternetSessions)
  /\ answer' = NoAnswer
  /\ UNCHANGED <<mode, named, issuedTo, request>>

SetMode ==
  /\ \E new \in {"session-key", "one-time-keys", "approved-only"} \ {mode} :
       Savable(remote, new, named) /\ mode' = new
  /\ answer' = NoAnswer
  /\ UNCHANGED <<remote, named, session, issuedTo, grant, request>>

\* public-hosts: while remote access is on, a name stays.
SetNames ==
  /\ named' = ~named /\ Savable(remote, mode, named')
  /\ answer' = NoAnswer
  /\ UNCHANGED <<remote, mode, session, issuedTo, grant, request>>

AccessNext ==
  \/ \E r \in Requests :
       \/ Arrive(r) \/ Fail(r) \/ BeginProof(r) \/ Marked(r) \/ Call(r) \/ Answer(r)
       \/ \E t \in Tokens : KeyStart(r, t) \/ Proved(r, t)
  \/ \E t \in Tokens : SessionOver(t)
  \/ SwitchOn \/ SwitchOff \/ SetMode \/ SetNames

AccessSpec == AccessInit /\ [][AccessNext]_accessVars

-----------------------------------------------------------------------------
(* Properties. *)

\* Session content, such as a stream's answer or a file of the viewer, is sent only to the device
\* whose session is live at that moment, and never to the internet once remote access is off,
\* although the request was let in, and the session looked up, before a wait.
AnswersOnlyLive ==
  answer # NoAnswer =>
    /\ Owns(answer.to, answer.for)
    /\ Internet(answer.to) => remote

\* "Turning remote access off ends every internet session at once" (docs/ARCHITECTURE.md).
NoInternetSessionWhenOff ==
  ~remote => \A t \in Live : ~Internet(session[t].peer)

=============================================================================
