------------------------------ MODULE MCServer ------------------------------
(* The life of the server process, of the two listeners it keeps, of a viewer and of the page it  *)
(* is on: modules that share no state, each checked on its own small instance.  The initial state *)
(* chooses the part that moves.                                                                   *)
EXTENDS MediaRelay, ServerLife, TlsListener, ViewerStreams, LoginPage, TLC

CONSTANTS r1, r2, r3, p1, p2, n1, a1, a2, x1, x2, x3, x4, x5, x6, d1, d2

VARIABLE part

lifeOfServer == <<part, vars, lifeVars, tlsVars, viewerVars, loginVars>>

\* The relay of a server that has ended.
RelayOver ==
  /\ running = {} /\ bound = {} /\ reported = {} /\ ending = {}
  /\ child = None /\ state = "stopped" /\ stopFlag = TRUE /\ armed = {} /\ stamps = 0
  /\ waiting = [q \in Procs |-> 0] /\ changes = 0 /\ server = "stopped"
  /\ stream = [s \in Streams |-> "new"] /\ on = [s \in Streams |-> None]

LifeOver ==
  /\ pipe = <<>> /\ phase = "over" /\ halt = "done"
  /\ present = {} /\ decided = [n \in Nets |-> "unknown"] /\ detect = "idle" /\ scope = {}
  /\ closed = "done" /\ line = <<>> /\ work = NoWork /\ sockets = {}
  /\ reply = [a \in Answers |-> NoReply]
  /\ listed = FALSE /\ ticks = 0 /\ timer = FALSE

TlsOver ==
  /\ strategy = "off" /\ disk = [first |-> NoCert, second |-> NoCert] /\ fit = {}
  /\ secure = NoCert /\ binding = NoCert /\ queue = <<>>
  /\ served = NoCert /\ failed = FALSE /\ shut = TRUE
  /\ asked = [r \in Asks |-> NotAsked] /\ breaks = 0

ViewerOver ==
  /\ op = [p \in Ops |-> [at |-> "done", display |-> NoDisplay, row |-> NoRow]]
  /\ rows = [p \in Ops |-> Fresh0]
  /\ table = [d \in Displays |-> NoRow] /\ selected = NoRow
  /\ beat = [at |-> "idle", known |-> {}, streams |-> {}]
  /\ left = "gone" /\ live = {} /\ lapses = 0 /\ losses = 0

LoginOver ==
  /\ submit = [a \in Submits |-> [at |-> "done", of |-> NoSubmit]]
  /\ turn = NoSubmit /\ mounted = NoSubmit /\ pending = NoSubmit /\ markup = NoSubmit /\ welcome = TRUE
  /\ view = [a \in Submits |-> Unbuilt]
  /\ back = [c \in Callers |-> [at |-> "no", of |-> NoSubmit]]
  /\ admitted = [a \in Submits |-> "none"] /\ missed = {}

\* A part that does not move is over, and no fairness condition asks anything of it.
ServerInit ==
  /\ part \in {"relay", "life", "tls", "viewer", "login"}
  /\ IF part = "relay" THEN Init ELSE RelayOver
  /\ IF part = "life" THEN LifeInit ELSE LifeOver
  /\ IF part = "tls" THEN TlsInit ELSE TlsOver
  /\ IF part = "viewer" THEN ViewerInit ELSE ViewerOver
  /\ IF part = "login" THEN LoginInit ELSE LoginOver

ServerNext ==
  /\ UNCHANGED part
  /\ \/ part = "relay" /\ Next /\ UNCHANGED <<lifeVars, tlsVars, viewerVars, loginVars>>
     \/ part = "life" /\ LifeNext /\ UNCHANGED <<vars, tlsVars, viewerVars, loginVars>>
     \/ part = "tls" /\ TlsNext /\ UNCHANGED <<vars, lifeVars, viewerVars, loginVars>>
     \/ part = "viewer" /\ ViewerNext /\ UNCHANGED <<vars, lifeVars, tlsVars, loginVars>>
     \/ part = "login" /\ LoginNext /\ UNCHANGED <<vars, lifeVars, tlsVars, viewerVars>>

ServerSpec ==
  /\ ServerInit /\ [][ServerNext]_lifeOfServer
  /\ Fairness /\ LifeFair /\ TlsFair /\ ViewerFair

\* What the server and its viewer start and stop settles: the relay's starts and its stop, the
\* server's own stop whatever hangs, HTTPS after a certificate that broke, and the host's side of
\* every stream that its viewer closed.
ServerSettles == RelaySettles /\ StopFinishes /\ HttpsRecovers /\ ClosedRowsStop

=============================================================================
