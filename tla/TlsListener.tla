----------------------------- MODULE TlsListener -----------------------------
(***************************************************************************)
(* The HTTPS listener (tls/listener.mjs) and the certificate it serves:    *)
(* the choice of a strategy (tls/ensure-certificate.mjs), reuse, reissue   *)
(* and the two files a certificate is kept in (tls/strategies), the        *)
(* periodic re-check (main.mjs) and the host's regenerate command          *)
(* (owner-commands.mjs).                                                   *)
(*                                                                         *)
(* Provisioning is synchronous, so an attempt is one step up to the bind,  *)
(* which is the only wait.  The two files are written one after the other: *)
(* key.pem and cert.pem, or the PFX and its passphrase; they belong        *)
(* together when they are of one certificate.  A certificate is fit while  *)
(* it is outside its renewal window and covers the addresses of this PC.   *)
(***************************************************************************)
EXTENDS Naturals, Sequences

CONSTANTS
  Certs,    \* identities of certificates, reused once nothing holds them
  Old,      \* those of earlier processes, or the operator's
  NoCert,   \* no file, nothing served
  Asks,     \* the host's regenerate commands
  MaxBreaks \* bound on what goes wrong: certificates age, certificate tools, binds and listeners fail

ASSUME TlsAssumption == NoCert \notin Certs /\ Old \subseteq Certs /\ MaxBreaks \in Nat

VARIABLES
  strategy, \* what the settings and the platform choose, or off
  disk,     \* the two files
  fit,      \* certificates that need not be replaced
  secure,   \* the credential new connections get (server), or NoCert
  binding,  \* the credential a new server is being bound with
  queue,    \* forced attempts behind the one that binds
  served,   \* what report() describes
  failed,   \* failureReason is set
  shut,     \* close was called
  asked,    \* each regenerate command, and the certificates there were when it came
  breaks    \* what went wrong so far

tlsVars == <<strategy, disk, fit, secure, binding, queue, served, failed, shut, asked, breaks>>

OldFiles == [first : Old \cup {NoCert}, second : Old \cup {NoCert}]

\* Mode auto: another platform than Windows, and Windows.
Generated == {"self-signed", "windows"}

NotAsked == [at |-> "new", had |-> {}]

\* The settings, off when they cannot be used, and the files an earlier process left, which may
\* have ended between the two writes.
TlsInit ==
  /\ strategy \in Generated \cup {"mkcert", "provided", "off"}
  /\ disk \in OldFiles
  /\ fit \in SUBSET Old
  /\ secure = NoCert /\ binding = NoCert /\ queue = <<>>
  /\ served = NoCert /\ failed = FALSE /\ shut = FALSE
  /\ asked = [r \in Asks |-> NotAsked]
  /\ breaks = 0

-----------------------------------------------------------------------------
(* Provisioning: a result is a credential, or NoCert for a failure, and the files left. *)

Result(cred, files, new) == [cred |-> cred, files |-> files, new |-> new]

Nothing == [first |-> NoCert, second |-> NoCert]

\* What there is already.
Kept == Result(disk, disk, {})

\* The tool does not run, is too slow or fails, or what it made does not load.
Unusable == Result(Nothing, disk, {})

\* The key is the certificate's, the passphrase opens the PFX.
Matched(files) == files.first = files.second

\* Mutant: a self-signed pair is reused whatever its two files are.
ReusableM(files) == files.first \in fit /\ files.second # NoCert

\* tryReuseExisting.
Reusable(files) == files.first \in fit /\ Matched(files)

\* mkcert's does not look whether the key is the certificate's.
MkcertReusable(files) == files.first \in fit /\ files.second # NoCert

\* Identities in use, kept, or known to a regenerate command.
Held ==
  {disk.first, disk.second, secure, binding, served} \cup UNION {asked[r].had : r \in Asks}

\* The identity of the next certificate, which nothing holds (Certs bounds them: none may be left).
Fresh == {c \in Certs \ Held : c = CHOOSE d \in Certs \ Held : TRUE}

Pair(c) == [first |-> c, second |-> c]

\* The key, then the certificate, each atomically; a failure may leave the new key.
SelfSigned(force) ==
  {Unusable} \cup
  IF ~force /\ Reusable(disk) THEN {Kept}
  ELSE UNION {{Result(Pair(c), Pair(c), {c}), Result(Nothing, [disk EXCEPT !.first = c], {c})}
                : c \in Fresh}

\* The PFX is exported before its passphrase is saved, which may fail unnoticed.
Exported(c) == {[first |-> c, second |-> s] : s \in {c, disk.second}}

\* PowerShell may not run, even when there is a certificate to reuse; the export may not load.
Windows(force) ==
  {Unusable} \cup
  IF ~force /\ Reusable(disk) THEN {Kept}
  ELSE UNION {UNION {{Result(Pair(c), f, {c}), Result(Nothing, f, {c})} : f \in Exported(c)}
                : c \in Fresh}

\* mkcert's CA root cannot be found or read: nothing is used, although both files are in place.
WithoutRoot(c) == Result(Nothing, Pair(c), {c})

\* mkcert may leave either file when it fails.
Mkcert(force) ==
  {Unusable} \cup
  IF ~force /\ MkcertReusable(disk) THEN {Kept}
  ELSE UNION {{Result(Pair(c), Pair(c), {c}), WithoutRoot(c),
               Result(Nothing, [disk EXCEPT !.first = c], {c})} : c \in Fresh}

\* The operator's own certificate is loaded, and refused when it has expired.
Provided == {IF Matched(disk) /\ disk.first \in fit THEN Kept ELSE Unusable}

\* ensureCertificate: one candidate, and a provided certificate is never replaced.
Provision(force) ==
  CASE strategy = "self-signed" -> SelfSigned(force)
    [] strategy = "windows" -> Windows(force)
    [] strategy = "mkcert" -> Mkcert(force)
    [] strategy = "provided" -> Provided
    [] OTHER -> {}

Fails(result) == result.cred.first = NoCert

\* A failure of a certificate tool counts; the operator's own certificate may be wrong for ever.
Counted(result) ==
  /\ breaks' = breaks + (IF Fails(result) /\ strategy # "provided" THEN 1 ELSE 0)
  /\ breaks' <= MaxBreaks

-----------------------------------------------------------------------------
(* Attempts. *)

\* Mutant: the report says what was provisioned, whether or not it could be put in place.
RotateM(cred) ==
  /\ served' = cred.first
  /\ secure' = IF Matched(cred) THEN cred.first ELSE secure
  /\ failed' = ~Matched(cred)

\* rotate: setSecureContext in place; it throws for a key that is not the certificate's.
Rotate(cred) ==
  IF Matched(cred) THEN secure' = cred.first /\ served' = cred.first /\ failed' = FALSE
  ELSE failed' = TRUE /\ UNCHANGED <<secure, served>>

\* run, up to its first await.
Run(result) ==
  /\ disk' = result.files
  /\ fit' = fit \cup result.new
  /\ CASE Fails(result) -> failed' = TRUE /\ UNCHANGED <<secure, binding, served>>
       [] ~Fails(result) /\ secure # NoCert -> Rotate(result.cred) /\ UNCHANGED binding
       [] OTHER ->
            IF Matched(result.cred)
            THEN binding' = result.cred.first /\ UNCHANGED <<secure, served, failed>>
            ELSE failed' = TRUE /\ UNCHANGED <<secure, binding, served>>

\* A regenerate whose attempt ended says whether something is still wrong (tlsField().reason).
Reply(state, r, listening) ==
  IF r \in Asks THEN [state EXCEPT ![r].at = IF listening /\ ~failed' THEN "ok" ELSE "no"]
  ELSE state

\* The certificates in use or kept.
Known == {secure, binding, disk.first}

InFlight == binding # NoCert \/ queue # <<>>

\* Startup, the six-hourly re-check, and a change of the public names: joins what is in flight.
Recheck(result) ==
  /\ ~shut /\ ~InFlight
  /\ Run(result) /\ Counted(result)
  /\ UNCHANGED <<strategy, queue, shut, asked>>

\* Mutant: a forced attempt joins the one in flight, as the ordinary ones do.
JoinsM == InFlight

\* Only an ordinary attempt joins.
Joins == FALSE

\* tls-regenerate: refused for the operator's own certificate; behind an attempt in flight.
Regenerate(r) ==
  /\ ~shut /\ asked[r].at = "new" /\ strategy \notin {"provided", "off"}
  /\ IF InFlight
     THEN /\ queue' = Append(queue, [by |-> r, joins |-> Joins])
          /\ asked' = [asked EXCEPT ![r] = [at |-> "waiting", had |-> Known]]
          /\ UNCHANGED <<disk, fit, secure, binding, served, failed, breaks>>
     ELSE \E result \in Provision(TRUE) :
            LET now == [asked EXCEPT ![r] = [at |-> "running", had |-> Known]]
            IN /\ Run(result) /\ Counted(result)
               /\ queue' = IF binding' = NoCert THEN queue ELSE <<[by |-> r, joins |-> TRUE]>>
               /\ asked' = IF binding' = NoCert THEN Reply(now, r, secure' # NoCert) ELSE now
  /\ UNCHANGED <<strategy, shut>>

\* The next forced attempt; those of the attempt that has just ended only reply.  close does not
\* take them out of the queue.
RunQueued ==
  /\ binding = NoCert /\ queue # <<>>
  /\ LET r == Head(queue).by
     IN IF Head(queue).joins
        THEN /\ queue' = Tail(queue)
             /\ asked' = [asked EXCEPT ![r].at = IF secure # NoCert /\ ~failed THEN "ok" ELSE "no"]
             /\ UNCHANGED <<disk, fit, secure, binding, served, failed, breaks>>
        ELSE \E result \in Provision(TRUE) :
               /\ Run(result) /\ Counted(result)
               /\ IF binding' = NoCert
                  THEN queue' = Tail(queue) /\ asked' = Reply(asked, r, secure' # NoCert)
                  ELSE queue' = [queue EXCEPT ![1] = [by |-> r, joins |-> TRUE]] /\ UNCHANGED asked
  /\ UNCHANGED <<strategy, shut>>

\* Mutant: the socket that listens after close stays.
LateM == FALSE

\* The callback of listen looks whether close came first.
Late == shut

\* It listens.
Listens ==
  /\ binding # NoCert
  /\ binding' = NoCert
  /\ IF Late THEN UNCHANGED <<secure, served, failed>>
     ELSE secure' = binding /\ served' = binding /\ failed' = FALSE
  /\ UNCHANGED <<strategy, disk, fit, queue, shut, asked, breaks>>

\* The port is taken.
BindFails ==
  /\ binding # NoCert
  /\ breaks < MaxBreaks /\ breaks' = breaks + 1
  /\ binding' = NoCert /\ failed' = TRUE
  /\ UNCHANGED <<strategy, disk, fit, secure, queue, served, shut, asked>>

\* The listener that serves reports an error: nothing serves any more.
ListenerError ==
  /\ secure # NoCert
  /\ breaks < MaxBreaks /\ breaks' = breaks + 1
  /\ secure' = NoCert /\ served' = NoCert /\ failed' = TRUE
  /\ UNCHANGED <<strategy, disk, fit, binding, queue, shut, asked>>

Close ==
  /\ ~shut
  /\ shut' = TRUE /\ secure' = NoCert /\ served' = NoCert
  /\ UNCHANGED <<strategy, disk, fit, binding, queue, failed, asked, breaks>>

\* Time passes, or an address of this PC changes: a certificate must be replaced.
Ages ==
  /\ breaks < MaxBreaks /\ breaks' = breaks + 1
  /\ \E c \in fit : fit' = fit \ {c}
  /\ UNCHANGED <<strategy, disk, secure, binding, queue, served, failed, shut, asked>>

\* The operator replaces a certificate of their own, one file or both.
OperatorReplaces ==
  /\ strategy = "provided"
  /\ \E f \in OldFiles, c \in Old : disk' = f /\ fit' = fit \cup {c}
  /\ UNCHANGED <<strategy, secure, binding, queue, served, failed, shut, asked, breaks>>

RecheckAny == \E result \in Provision(FALSE) : Recheck(result)

TlsNext ==
  \/ RecheckAny
  \/ \E r \in Asks : Regenerate(r)
  \/ RunQueued \/ Listens \/ BindFails \/ ListenerError \/ Close \/ Ages \/ OperatorReplaces

TlsSpec == TlsInit /\ [][TlsNext]_tlsVars

\* Attempts end, and the timer comes again.  Certificate
\* tools and the port do not fail for ever (MaxBreaks); nothing is assumed of the operator, the
\* host and the clock.
TlsFair ==
  WF_tlsVars(RunQueued) /\ WF_tlsVars(Listens \/ BindFails) /\ WF_tlsVars(RecheckAny)

FairTlsSpec == TlsSpec /\ TlsFair

-----------------------------------------------------------------------------
(* Properties. *)

\* The fingerprint a device compares at enrolment is that of the certificate it is handed; a
\* closed listener reports none, even when a bind or a queued regenerate ends after the close.
ReportIsServed == served = secure /\ (shut => secure = NoCert)

\* The host is told that the certificate was regenerated only when a new one is served, although an
\* attempt that reuses the old one was under way.
RegeneratedIsNew == [][\A r \in Asks : asked'[r].at = "ok" /\ asked[r].at # "ok"
                          => secure' \notin asked'[r].had \cup {NoCert}]_tlsVars

\* Whatever a crash left of the two files, whatever failed before and whatever expires: a generated
\* certificate that is fit is served again.
HttpsRecovers == strategy \in Generated => []<>(shut \/ (secure # NoCert /\ secure \in fit))

=============================================================================
