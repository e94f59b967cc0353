# VidVNC in TLA+

VidVNC shares displays of a host computer with browsers.  This directory models
the parts of it where mistakes are hard to find by testing: the Node server
(`src/apps/server/src`) that decides who may watch and who may control, the
native processes it supervises (media worker, media-net, media relay), the pages
a browser runs (login, viewer, Diagnostics), and the macOS host that runs the
server.  Comments in the modules name the code each definition stands for;
`PROJECT.json` maps every definition to its lines.

## 1. The system

A desktop host application (Windows or macOS) or a command line starts the
server and sends it the owner's commands over a pipe.  Browsers reach the server
over HTTPS, or over plain HTTP on the owner's own network: they sign in, are
admitted to a session, and offer to receive streams.  The server starts one
`media-worker` process per *source* (one encode of one display under one plan,
shared by all viewers of that plan), each with its sandboxed `media-net`, and
one *media relay* process, and talks to each over a pipe of JSON lines.

```
 owner (pipe) ---> owner-commands -> owner-security / approved clients / access / policy
 browser (HTTP) -> http-app -> session-store, approved-clients, admission
                            -> stream-runtime -> stream-registry
                                              -> control-lease
                                              -> native-media ==pipe==> media-worker ==pipes==> media-net
                                              -> media-relay  ==pipe==> relay process
 browser: login page -> viewer -> stream-subscriptions      Diagnostics page -> latency probe
```

The server is one event loop: everything between two awaits is atomic, and every
await is a place where other requests, timers, lines from a process and process
exits come in.  A page in a browser is another such loop.  Workers and the relay
run concurrently with both; their pipes deliver in order, but nothing orders one
pipe against another, and a process may stop reading, hang or die at any moment.
That, and (but for the frame path) not threads, is where this system's hazards
come from.

### Inventory

| Component (file) | State it keeps | Operations | Hard behaviour | What makes it correct |
| --- | --- | --- | --- | --- |
| Control lease (`control-lease.mjs`) | owner, queue of operations | grant, revoke, renew | each waits for a worker's answer that may be late, negative or never come | input from one peer at most; fail closed; nobody takes control by asking |
| Worker permission (`peer-permission.hpp`) | permitted peer, its expiry, peers | permission and remove commands, expiry after 5 s, peer failure | runs while the server waits | accepts input of the permitted peer only |
| Worker supervisor (`native-media.mjs`) | workers, peers, pending calls, timers | start, addPeer, removePeer, stop, setPermission | timeouts race answers and exits | every call settles; a stopped worker ends |
| Stream runtime (`stream-runtime.mjs`) | session stops, relay paths, selections | offers, endings, control commands, revalidate, shutdown | long coroutines whose stream may end at any await | offers and endings finish; what ended leaves nothing behind |
| Stream registry (`stream-registry.mjs`) | subscriptions, sources | subscribe, unsubscribe, setState, releaseSource | sharing while sources start and close | one encode per plan, none idle, budget kept |
| Relay supervisor (`media-relay.mjs`) | child, state, restart stamps, pending allows | start, stop, restart, allow, revoke | exits, hung starts, restarts that overlap | one relay; streams end with the relay that carries them |
| Relay core (`media-relay/relay.mjs`) | registrations, pins, windows | allow, revoke, receive, sweep | expiry, roaming, floods of unknown packets | a viewer that proves itself gets its pin, whatever else arrives |
| Session store (`session-store.mjs`) | sessions, replaced cookies | connect, connectApproved, disconnect, replace, sweep | expiry during requests | one session per device; a revoked session is gone |
| Approved clients (`approved-clients.mjs`, `owner-security-commands.mjs`) | clients in memory and in a file, requests, tickets, generations, write queue | register, approve, reject, claim, sign in, edit, remove | slow password hashes and file writes during which the owner decides otherwise; failed writes; crashes | owner decisions are final and durable |
| Admission (`admission-budget.mjs`, `connection-keys.mjs`, `code-issuance.mjs`) | counters per class, source and generation; the live codes | reserve, finish, cancel; issue, inspect, use | late finishes, evicted sources, codes that change meanwhile | the number of wrong answers to a code is bounded, late ones included, and no place is lost |
| Policy and settings (`policy-controller.mjs`, `stream-policy-store.mjs`, `stream-policy.mjs`, `access-settings.mjs`) | policy, revision, lock file, busy flag | replace, validate, repair, select | two writers, crash with the lock held, sign-ins meanwhile | no lost update; what is applied governs everybody |
| HTTP application (`http-app.mjs`) | viewer grants | routes | state read before an await and used after it | answers reach only a live session |
| Server process (`main.mjs`, `owner-start.mjs`) | phase, timers | start, settings, reconcile, stop | a stop at any moment of the start | the stop ends and nothing is left listening |
| LAN listeners (`lan-http-listeners.mjs`, `network-confirmation.mjs`) | bound hosts, pending binds | reconcile, close | networks that change while binding | never bound where it may not be |
| HTTPS and certificates (`tls/`) | current certificate, queue of attempts | ensure, reuse, regenerate, rotate | attempts that overlap; two files per certificate | what is reported is what is served; it recovers |
| Media worker and media-net (`media-worker.cpp`, `media-net.cpp`) | peers, held keys, queues, audio timeline | peer commands, input, frames | two pipes that are not ordered with each other; overflow | no key stays held; frames can be decoded |
| Latency measurement (`latency-probes.mjs`, `latency-probe.js`) | one measurement, its outcomes | request, run, report, cancel, expiry | late results of an earlier run; three parties | one outcome per measurement, its own |
| Viewer (`stream-subscriptions.js`, `viewer/app.js`) | rows, table of displays, heartbeat | offer, answer, close, select, leave | answers that cross a newer choice | browser and server agree in the end |
| Login page (`app.js`) | submission, mounted viewer | submit, mount, end | a late end of the old viewer | no session without its viewer |
| macOS host (`ServerHostModel.swift`, ...) | process, requests, edits, quit | start, stop, command, edit, quit | the server hangs or dies with requests open | every request is answered, Quit ends |
| SDP, addresses, host status, packaging, site, promotional video | | | pure text, display, build scripts | not modelled |

`PROJECT.json` lists the components with what is and is not modelled of each, and
the hazards, each at the line where it bites with the properties that watch it.

## 2. What is modelled

| Module | Models |
| --- | --- |
| `ControlLease` | the lease and its callers, permission calls and answers, the worker's gate |
| `ControlHolder` | abstract: what the lease promises (input passes from peer to peer through nobody) |
| `ControlLeaseProofs`, `SettingsFileProofs`, `ApprovedClientsProofs` | the theorems about those modules |
| `StreamsProofs` | the theorems about `Streams` and `LatencyRun` |
| `AccessProofs` | the theorems about `KeyAdmission`, `HttpAccess` and `StreamPolicy` |
| `SourceProofs` | the theorems about `MediaWorker`, `FramePath` and `AudioTimeline` |
| `ServerProofs` | the theorems about `MediaRelay`, `RelayCore`, `ServerLife` and `TlsListener` |
| `ClientProofs` | the theorems about `ViewerStreams`, `LoginPage` and `LatencyCodes` |
| `Streams` | a stream from offer to end: registry, runtime, workers, relay registrations, shutdown |
| `MediaRelay` | the relay process's supervisor |
| `RelayTable` | abstract: where the relay sends a source's datagrams, and when a registration ends |
| `RelayCore` | the relay process: registrations, pins, windows, roaming, sweep |
| `ApprovedClients` | approved devices, from registration ticket to removal |
| `KeyAdmission` | the admission budget over keys that change, as `/api/key-start` uses it |
| `SettingsRegister` | abstract: a settings file that loses no edit |
| `SettingsFile` | the revisioned files, their lock, the server and `config` commands as writers, and replacing the policy under connected devices |
| `StreamPolicy` | what a policy says and how commands edit it: profiles, sizes, displays, selections |
| `HttpAccess` | which requests are let in, what they wait for, and who gets the answer |
| `ServerLife` | start, approval, networks, listeners and stop of the server |
| `TlsListener` | the HTTPS listener, the choice of a certificate and its renewal |
| `MediaNet`, `MediaWorker` | the two processes of a source: peers, input, control, removal |
| `FramePath`, `AudioTimeline` | captured frames on their way to the viewers, and audio timestamps |
| `LatencyRun`, `LatencyCodes` | a measurement over page, server and viewer; the codes it paints and reads |
| `ViewerStreams` | a viewer's rows, offers, heartbeat and selection against the server |
| `LoginPage` | submissions and the viewers they mount |
| `HostApp` | the macOS host against the server it runs |
| `MC...` | the instances TLC checks |

**Awaits are phases.**  A coroutine of the code is a value that says at which
await it is: `phase` and `after` for the running lease operation, `offer` for
`#subscribe`, `ends` / `leaseWait` / `closeWait` / `stops` for the endings,
`signIn[a].pc`, `command[m].pc` and `phase` for approved clients, `edit[e].at`
for a save, `op[p].at` for an operation of the viewer, `submit[a].at` for one of
the login page, `halt` for the server's stop.  One action is what the code does
from one await to the next, with every synchronous call it makes on the way
(`onRevoke`, `#endSubscription`, `Finish` with the caller's continuation, the
sweep that starts every queued write).  Two continuations are one step only where
the code runs them in one turn of the event loop.

**Processes are pipes and a state.**  In `ControlLease` the owner pipe of a
worker and the lines it writes are sequences the two sides read on their own.
The one thing the request ids do is tell a current answer from a late one, so a
line carries `current` and not an id.  `Streams` keeps the two relay pipes and
abstracts the worker pipes to what a peer's entry in the server says; the worker
pipes themselves, and the pipes between the worker and media-net, are in
`MediaWorker` and `MediaNet`.

**Time** is nondeterminism: a timer is an action that may happen whenever it is
armed (a 5 s lease may expire although the server renews it every 2 s: the
server may be late).  Only `RelayCore` counts ticks, because its windows and its
expiry are counters.  **Ids** are fresh UUIDs in the code, so a stream, a source,
a client or a request is used once.  **Writes** to a file succeed or fail; a
crash may come after the rename and before anybody was told.

### Correspondence

* `ControlLease`: `Begin*`, `Released`, `ReleasedByRemoval`, `Granted`,
  `CleanedUp`, `Renewed` are `control-lease.mjs:18-85`; `Enqueue` is
  `#serialize`; `SelectStream`, `RequestControl`, `ReleaseControl`, `HostGrant`,
  `HostRevoke`, `StopStream`, `Disconnect`, `Revalidate` are the callers in
  `stream-runtime.mjs`; `RequestTimeout`, `RemovalTimeout`, `Receive`,
  `WorkerExit` are `native-media.mjs`; `WorkerCommand`, `PermissionExpires`,
  `PeerFails`, `PeerClosed` are the worker.  `Join` and the ways a source starts
  are the outcome of what `Streams` models in detail, and `Streams` in turn takes
  from `ControlLease` that the lease settles.
* `Streams`: `Offer` .. `OfferFails` are `#subscribe` await by await; `StopStream`,
  `Disconnect`, `DisplaysChange`, `Shutdown` with `StopAfterLease`,
  `CloseAfterLease`, `SessionStopped` are the endings; `WorkerReady`, `Answer`,
  `PeerFailed`, `PeerClosed`, `WorkerExit` and the two timeouts are
  `native-media.mjs`; the `Relay*` actions are the relay as the server sees it.
* `MediaRelay`: `Start`, `Exit` (the exit handler, and then every `stop` and
  `restart` that waited for that exit), `StopRelay`, `ChangePort`, `Allow`.
* `RelayCore`: `Check` is a datagram that passes or fails the tests of
  `relay.mjs` in their order; `Sweep` is the one-second timer.  `RelayTable` is what is
  left of it without windows, ages and sockets: registrations open, close and lapse,
  and a source has one route or none.
* `LatencyCodes`: `Encode`, `ReadFrame`, `Decode` and `Unwrap` are the functions of
  `latency-probe.js` a frame goes through, `Within` is what `buildResults` sums up and
  `Taken` the server's `timing`; `Offset` is what `checkClock` measures, `ClockOf` what
  is sent of it and `ClockTaken` the server's `clock`; a state is one frame, and
  `NextFrame` the next.  Of a report's other fields nothing is modelled.
* `ApprovedClients`: `IssueTicket`, `Submit`, `Hashed`, `Approve`, `Reject`,
  `Claim`, `SignIn`, `Verified` are the routes and store methods; `Issue` and
  `Revoked` are `owner-security-commands.mjs`; `Begin`, `Sweeps`, `Written` run
  the write queue; `Restart` is a crash.
* `KeyAdmission`: `BeginKeyStart` is the reservation before the body is read;
  `WrongAnswer`, `Refused`, `CancelKeyStart`, `RightAnswer` are the ways it is given
  back; `IssueKey`, `ExpireKey` change the key under it.  Two histories tell what the
  code keeps in one place: `charged` are the failures booked on a key's counters (the
  key the place was reserved for), `guessed` the wrong answers that were compared with
  a key (the one there is when the body has been read).
* `SettingsFile`: every file operation of a save is a step (lock, read, compare,
  write, rename, unlock), by the server or by another process; a process may die
  between any two.  The file's content is the sequence of the edits in it, which
  is what `SettingsRegister` promises about.
* `HttpAccess`: `Arrive` are the gates, the other actions what a request does
  when its wait is over; `ServerLife`, `TlsListener`: one action per await of
  `main.mjs`, `lan-http-listeners.mjs` and `tls/listener.mjs`.
* `MediaWorker` extends `MediaNet`: the worker's loop takes a server command, a
  report of media-net or an input line, in any order between the pipes.
* `ViewerStreams` and `LatencyRun` have both ends: what a page sends, what the
  server does with it when it arrives, what the page does with the answer; a
  call may fail before the server has seen it.

## 3. The runs

A run that asks one kind of question of several modules that share no state
composes them, and its initial state chooses the one that moves (`part`):
interleaving them would show nothing new.  Sizes are distinct states.  The bounds
name what the interesting cases need: two peers are enough for a hand-over, two
viewers for sharing, two sources for a budget of one, and one more of anything
only repeats a case by symmetry.

| Run | States | Parts | Shows |
| --- | --- | --- | --- |
| `lease_shared` | 2.2M | `ControlLease`: two devices on one worker, both asking for control, the host granting and revoking | `TypeOK`, `PermittedIsAccounted`, `RevokedCannotHold`, `RequestNeverTakes` |
| `lease_workers` | 2.1M | `ControlLease`: a worker per device, answers late or lost; and one device that moves between two streams while the host edits its permission | `AtMostOnePermitted`, `HostGrantStays`; `HandOver`, the refinement of `ControlHolder` |
| `lease_liveness` | 399k | `ControlLease`: one device with two streams, a worker that hangs while the lease waits for it | `ClosingEnds` (no deadlock between lease and endings), `DeadOwnerDropped` |
| `streams_limits` | 1.8M | `Streams` twice (a device whose streams share an encode; two devices and a budget of one source), `MediaWorker`, `FramePath`, `AudioTimeline` | `SourcesAreBounded`, `HostBudgetHolds`, `RelayFollowsStreams`, `BrokerKeeps`, `FramesDecode`, `NeverWanders` |
| `streams_offers` | 453k | `Streams` (a creator and a sharer of a source that may never become ready), `LatencyRun` | `ResultsAreOwn`, `WaitsEnd` |
| `stream_relay` | 122k | `Streams` (one stream whose display may go, shutdown), `RelayCore`, `MediaWorker`, `HostApp` | `RelayFollowsStreams`, `RequestsSettle`, `UsedIsPinned`; `RelayRoutes`, the refinement of `RelayTable` |
| `server` | 357k | `MediaRelay`, `ServerLife`, `TlsListener`, `ViewerStreams`, `LoginPage` | `RelayServes`, `ListensWhereAllowed`, `ReportIsServed`, `EndedIsOver`, `SessionsAreHeld`, `ServerSettles`, `RegeneratedIsNew` |
| `access` | 835k | `KeyAdmission`, `SettingsFile` (policy and access file), `StreamPolicy`, `HttpAccess`, `LatencyCodes` | `BudgetKeeps`, `AppliedGovernsAll`, `AutoAlwaysResolves`, `SizeKeepsShape`, `AnswersOnlyLive`, `CodesHold`; `NoLostEdit`, the refinement of `SettingsRegister` |
| `approved_devices` | 2.3M | `ApprovedClients`: a stored device and a new one, two sign-ins, two edits or removals, failed writes, a crash; or three submissions for two places | `OneSessionPerClient`, `RemovalIsFinal`, `DeviceStaysRegistered`, `PermissionIsDurable`, `SubmissionsAdmitted` |
| `relay_one_process` | violation | `MediaRelay` | `OneRelay`, section 5 |
| `approved_rejection` | violation | `ApprovedClients` | `RejectedGetNoSecret`, section 5 |
| `remote_off` | violation | `HttpAccess` | `NoInternetSessionWhenOff`, section 5 |

What the properties say, where the name does not:

* `SourcesAreBounded`: one open encode per plan, none that nobody watches, and no
  more workers that have not exited than the host admits sources.
  `HostBudgetHolds` is the last part where the budget is one source.
* `RelayFollowsStreams`: a live stream is registered at the running relay, and
  the relay keeps no registration of an ended stream, up to lines on their way.
* `BrokerKeeps`: a key that is held down is held by a peer with control, and when
  all pipes are empty each page shows who controls.
* `WaitsEnd`: offers and endings come to an end, and so does what a measurement
  waits for.  `RequestsSettle`: so does every request to the macOS host.
  `ServerSettles`: so do the server's stop, the relay's calls, regenerations and
  what a viewer waits for, and a row the viewer closed ends at the server.
* `FramesDecode`: after an overflow nothing is sent that refers to a dropped frame
  or to another format.  `NeverWanders`: audio timestamps stay within the drift,
  and are where their samples put them.
* `RelayRoutes`: a source is pinned only to a registration whose credentials the viewer
  behind it has, never while it is pinned to another and never beyond the limit of
  pins; pins end with their registration, and one that was proved does not expire.
* `UsedIsPinned`: a viewer that proves itself from an address gets that address
  pinned to its stream, although pins are full, idle or of another stream.
* `ReportIsServed`: the fingerprint shown is that of the certificate handed out.
* `EndedIsOver`: the viewer never takes a live stream for ended.
* `SessionsAreHeld`: every session the server keeps has a submission that is to
  use or to end it, or a viewer that has not ended; a lost call excepted.
* `AppliedGovernsAll`: no session lives under an older policy than the applied
  one.
* `AutoAlwaysResolves`: a device that asks for no profile gets exactly one on every
  shared display.  `SizeKeepsShape`: each stream has a size the encoder takes, in the
  screen's own shape unless the owner asked for another, on every screen at most 64
  times as long as it is wide (section 5).
* `BudgetKeeps`: a key is charged no more failures than its limit, however many
  requests hold places (`ChargesBounded`); it is guessed wrong no more often than that
  and once for each place that was held when it was issued, those counted that may
  still guess (`GuessesBounded`, see section 5 for why not just the limit); and the
  counters in use are exact, so none is refused for a place that is free
  (`BudgetExact`).
* `CodesHold`: a damaged barcode is read true or not at all, the wrapped clock is
  completed right, and the server takes the timings of a report, whatever was timed,
  and its clock, when that is right to a day.

### Bounds, and why they are enough

* *Lease.*  `MaxWaiting` caps the operations waiting behind the running one: 0 or
  1; the theorems hold for every value.  `ShortPipes` (`lease_shared` only) bounds the
  unread lines: two to a worker, one from it.  Permissions are edited between all
  three modes in `lease_workers`, where one device moves between its streams and the
  other never comes (`Within`), and between two in `lease_shared`; elsewhere every
  device may always use control (`Modes`).  A peer fails by itself (`Failing`) in
  `lease_workers`, that of the device which does not move, and in `lease_liveness`.
  The runs start where the devices watch and nobody
  controls (`Watching`), or where one watches and the other arrives: states every use
  of control passes through.
* *Streams.*  `MaxSources` 1 with two plans makes the budget bind at once; 2 with
  one plan lets a source start while another of that plan closes.  Displays come
  and go in `stream_relay` only (`Changing`), where one stream is enough.
* *Relay supervisor.*  `Limit` 2 (3 in the code) is reached with the three process
  names there are; `MaxChanges` 2 is what two overlapping restarts need.
* *Relay core.*  Two addresses and two registrations with one pin each: the second
  address finds the pins full.  `Expires` 1 and `PinIdle` 2 ticks, `HintLane`,
  `PerSource`, `Total` 1: the windows fill at once.  `MaxRoams` 3 lets a viewer
  go and come back.
* *Worker.*  `MaxTyped`, `MaxSent`, `MaxLines` 1 or 2 messages under way on each
  pipe: more only delay what is behind them.  `Leaving` are the peers the server
  removes; another stays to take control.
* *Frames.*  `QueueBudget` 3 and `KeySize` 2 let one keyframe and one other record
  fit; `PipeSize` 1 fills the pipe.  *Audio.*  `Horizon` 20
  passes several chunks and re-starts of the timeline; `Rate` 3 and `Second` 10 do
  not divide each other, so every division rounds.
* *Approved clients.*  `MaxPending` 2 (64 in the code) with three submissions.
  `OneRace` keeps two families of races apart: submissions compete with each other
  for places and tickets, and one request is enough for every race with the owner
  and with sign-ins.  `MaxRestarts` 1: a second crash finds a state the first
  could have found.
* *Admission.*  Two attempts, as many as a key's limit (`KeyLimit` 2), so all of it
  may be reserved when the next key is issued; two sources and one row in their table
  (it evicts), two keys of each kind, of which one kind is replaced (`OneReplaced`).
* *Settings.*  Two edits, the server and one other process, each started
  `MaxOpens` times, one device.  *Policy.*  `MaxProfiles` 2 over the four shapes
  and two displays, one extreme in each direction.
* *HTTP.*  Two requests, a local and an internet device, two sessions of which one
  may be connected.  *Server.*  One network and the loopback, one refresh
  (`MaxTicks`), two answers of the owner.  *Certificates.*  Six, two of them old,
  `MaxBreaks` 3 failures of tools, binds or ageing.
* *Viewer.*  Two operations on two displays with one stream that ends by itself
  (`MaxLapses`) and one failed call (`MaxLosses`); `MaxRows` 1 (2 in the
  code): a second display closes the first's row.  *Login page.*  Two submissions,
  one call that fails (`MaxMissed`); the theorem holds for any number.
* *Measurements.*  Two, one lost call, one kept outcome: the second evicts the
  first.  *Codes.*  `Parts` 3 cells of `Width` 2 bits, every cell changed to three
  lumas at three contrasts; timings on either side of each limit.  The host's clock
  starts (`FirstTimes`) just before its wrap and stops (`LastTime`) behind it, the
  viewer's is as wrong as it may be on either side or by just what the server takes
  (`Skews`, `MaxOffset`), measured with a round trip of no length or of a few
  roundings (`Trips`), and the pointers (`Pointers`) cross both edges of the screen.
* *Host.*  A command, a regeneration and an edit, of which two are asked
  (`MaxAsked`), over two servers (`MaxLaunches`).

Deadlock is not checked: streams, requests and commands are used once, so every
instance comes to an end.

### Fairness

It is stated only for what the code schedules itself.  Weak fairness for a
program's own continuations and armed timers (Node, the browser, the worker's
main loop and the host's main queue run them), and for the end of a process that
was told to stop, because it is killed after 2 or 3 s.  Nothing is assumed of a
running worker or relay, of viewers or of the owner.  Where it is more than that:

* `SF(Renew)` in `ControlLease`: the 2 s control timer fires for ever and finds
  the lease idle again and again.  `DeadOwnerDropped` has the premise that
  commands leave the lease idle infinitely often.
* `Streams` assumes that the lease's part of an ending settles, which is
  `ClosingEnds`, and that a worker reports ready or ends (its own 20 s timer).
* `SF` of a viewer's checks in `RelayCore`: a browser repeats them while it uses
  an address, so not all of them are lost.
* `ViewerStreams` and `LatencyRun`: a call is answered or fails.
* `HostApp`: a server that is asked to regenerate answers or ends, since the host
  gives that request no timeout.

`LoginPage` needs none: it is about what a page holds on to, and not about when
it lets go.

Every property of a passing run has at least one mutant, an operator next to the
one it changes (a dropped guard, a missing reset, a wrong order), under which TLC
finds the property violated.

## 4. What is proved

### The control lease

`ControlLeaseProofs` proves for every set of devices, streams and sources, every
assignment of streams to them, every set of peers that may fail and every queue
bound:

| Theorem | States |
| --- | --- |
| `TypeCorrect` | `Spec => []TypeOK` |
| `Invariant` | `Spec => []IInv` |
| `PermittedAccounted` | `Spec => []PermittedIsAccounted` |
| `OnePermitted` | `Spec => []AtMostOnePermitted` |
| `NeverTakes` | `Spec => RequestNeverTakes` |
| `RevokedLoses` | `Spec => []RevokedCannotHold` |
| `HostKeeps` | `Spec => HostGrantStays` |
| `HandOverImplemented` | `Spec => HandOver` (the refinement) |

Assumptions: `StreamsAssumption` (each stream has a session and a source, `None`
is none of them, streams are not sources) and `NoneAssumption` (`None` is not a
record).  TLC evaluates both in every lease run.

*The argument.*  `PermittedIsAccounted` is not inductive: a worker may become
the holder later, by a command that is still in its pipe.  So `HoldersAccounted`
says the same of every peer that *may* hold: one that is permitted, or that is
still a peer and named by an unread allow command.  To keep it, a release that
is acknowledged must really have emptied the worker, and that needs the pipes:
`CallOrder` says that a command of the pending call is the last permission
command of its pipe, and that once its answer is on its way (and until it is
used) no permission command is left and a denied peer is not permitted.  A call
that timed out leaves a command that is not current behind, which is why the
code then removes the peer instead of believing anything: `PeersExist` says a
removed peer never comes back.  `LeaseShape` ties the phase of the running
operation to the owner and the pending call.  Each is an invariant relative to
the others; the proof has one lemma per action and, under it, a step per
conjunct the action can disturb.  `OnePermitted` follows because at most one
peer is accounted for at a time (`OneMayHold`); the refinement follows because a
step that permits a peer finds every worker without holder.

`RevokedLoses` and `HostKeeps` need a second invariant, `Losing`, on top of
`IInv`: what the queue says about the owner.  A session the host revoked may
still own a stream it took by itself, but then its revoke is queued or running
(`OwnerLosing`), and a grant of the device's own that is under way has the revoke
behind it (`GrantLosing`), which is where the order of the queue counts
(`QueueOrder`).  A release a device asks for is one of a device that may help
itself, and while it waits the host cannot have granted that device anything
(`ReturnsOwn`): so the release never ends a grant of the host.

### The admission budget

`AccessProofs` proves `BudgetHolds`, `KeySpec => []BudgetKeeps`, for any
number of attempts, sources, keys and rows and any limits.  Assumption:
`KeyAdmissionAssumption` (limits and bounds are positive, finitely many attempts,
`NoPeer` is no source), which TLC evaluates in `access`.

*The argument.*  `ChargesBounded` (the failures booked on a key and the places held
for it stay within its limit) follows from `BudgetExact` (the counters in use count
exactly that) where a place is taken, but neither is kept by a key that changes:
counters that start anew must find nothing reserved and nothing counted for the
new key.  `InOrder` says so: keys and counters only move to later generations, no
reservation is for a later key than the counters are, and nothing was counted for
one.  An attempt that outlives its key then gives its place back to counters nobody
reads.  The table of sources does not occur in the invariant: it only decides who is
refused, so its eviction cannot break the budget.

The body of such an attempt is compared with the new key all the same, so the guesses
at a key are not what is charged to it.  `GuessesInherited` relates them: each guess is
charged to the key, or spends one of the places that were held for older keys when it
was issued (`inherited`), and those that still hold one (`Older`) are not spent yet.  No
place for an older key is taken later.  `GuessesBounded` is the sum of both limits
(`InheritedBounds`).

### The settings files

`SettingsFileProofs` proves `EditsKept`, `FileSpec => NoLostEdit`: the server and
any number of `config` processes implement `SettingsRegister`, for any number of
edits, devices and starts.  Assumption: `FileAssumption` (the server is none of
the tools, and the lock file's states are told apart), which TLC evaluates in
`access`.

*The argument.*  The initial states map to the register's, and every step is
`Apply`, `Acknowledge` or a stutter.  For `Apply` the written content must be the
file's with the edit behind it, although the process wrote what it read long
before: `SaverHolds` gives the one saver the lock from `Lock` to `Unlock`, a lock
that a dead process leaves is nobody's (`Stranded`) and nobody saves under it;
`BasesFollow` says an edit's base is how its process' settings begin, so an equal
revision means equal content, and that from the comparison on the file equals
both.  `Begins` is the reason the code may compare revisions and not contents.
For `Acknowledge`, `EditsInFile` says an edit enters the file by its own rename
only.  `DownHasNone` (a process that is down left no edit under way) lets a new
start read the file without breaking the bases.

On the same invariant rests `Governs`, `FileSpec => []AppliedGovernsAll`:
`AppliedHeld` says a process works from every edit of its own that was applied,
also after a new start (by `EditsInFile`), so whoever signs in later is admitted
under it; `Governed` that from the turn that disconnects the devices no older
session is left; `SignedInUp` that sessions end with the server.

### Approved clients

`ApprovedClientsProofs` proves, for any number of devices, submissions, tickets,
sign-ins, commands and crashes, that `Spec` keeps `OneSessionPerClient`
(`OneSession`), `RemovalIsFinal` (`RemovalFinal`), `DeviceStaysRegistered`
(`StaysRegistered`), `PermissionIsDurable` (`Durable`) and `SubmissionsAdmitted`
(`Admitted`).  Assumption: `ConstantsAssumption`, which TLC evaluates in
`approved_devices`.

*The argument.*  One invariant, `IInv`, carries all five, since none is inductive
alone.  The queue is first in, first out, and the generation of a client grows
with every command, so of two commands for one client in the queue the later one
has the later generation (`InOrder`): an older edit that ends never lets a device
in for a newer one, whose command still denies it (`QueuedCommand`).  What is in
memory but not yet in the file is said by who runs: a registration under way is of
a client that nobody holds (`NewClient`), a removal under way has the client out of
memory (`RunningHolds`), and else memory and file agree for everyone who is not
denied (`RegisteredHold`).  Rows are accounted for by `RowsHold` (a client has one
row, and who claimed it is who holds it); tickets and places by `TicketsHold` and
`PlacesHold`, where the rows a sweep removes leave room before a write has told
so.

### Streams

`StreamsProofs` proves for any sessions, streams, plans and sources that `Spec`
keeps `SourcesAreBounded` (`SourcesBounded`) and `RelayFollowsStreams`
(`RelayFollows`).  Assumption: `StreamsAssumption`, evaluated by `streams_limits`,
`streams_offers` and `stream_relay`.

*The argument.*  The registry first.  `StepsOfTheRegistry` shows that whatever a
step does besides, it does one of a few things to sources, workers and peers;
`SourceInv` (a released source has no subscription and no worker, and a worker
that has not exited keeps its source's place), `PeerInv` (an entry is in the
record of a worker that has not exited) and `FreshInv` are kept by each, and the
budget (`BudgetInv`) because a place is given back with the worker's exit only.
Then the streams, on top of that.  `OfferInv` says what an offer's await implies
for its subscription and peer: a live stream has its path, and a path has a
subscription or an offer that is about to take it back.  `LinesInv` says what is
on its way: a stream is allowed in one line, before it is revoked (`Ordered`);
an "allowed" that is unread means the stream is registered, has expired since or
is over, and a "refused" that it is not registered.  That closes the argument,
because the server acts on an answer only while its offer still waits for it.  A
relay that is down has nothing, and nothing is on its way (`DownInv`).

### Latency measurements

`StreamsProofs` also proves `OutcomesAreOwn`, `LatencySpec => []ResultsAreOwn`, for any
streams, any number of measurements and lost calls, and any history length.
Assumption: `LatencyAssumption` (`NoStream` and `NoMeasure` are not streams; the bounds
are natural, the history keeps at least one), which TLC evaluates in `streams_offers`.

*The argument.*  `LatencyInv` has two parts.  The server's (`ServerOk`): ids in a history
were given out, each occurs once, one that is done was measured, and the active
measurement is in no history.  The server settles lazily, at the beginning of the
next method that looks, so this is stated of values and not of variables:
`SettledHolds` carries it from what is kept to what the method works with (`Now`,
`Past`), and each handler adds its own change.  The viewer's (`ReportsHold`): a report
with results is posted only by a run that measured, for the id it was started
with.  A report that comes late or after a cancel is refused unless its id is the
active one's, and then its results are that measurement's own.

### Requests

`AccessProofs` proves `AnsweredLive`, `AccessSpec => []AnswersOnlyLive`, for any
callers, tokens and requests.  Assumption: `HttpAccessAssumption`, which TLC
evaluates in `access` and `remote_off`.

*The argument.*  A request waits with a token, and the session behind it may end
meanwhile.  What makes the answer right is not the check before the wait but that
a token has one device for good: a live session is of the device its token was
sent to (`TokensOwned`), and a session a sign-in has just made is not anybody's
until its answer is sent (`MarkedAlone`).  `CallsOwned` says that a request from the
internet whose session lives is one while remote access is on, because switching
it off ends those sessions in the same turn.

### The policy

`AccessProofs` proves `EditsStayUsable`, `PolicySpec => []AutoAlwaysResolves`, for any
profiles, displays, screens and options.  Assumption: `StreamPolicyAssumption` (the
two seeded profiles differ, there is place for them and something to choose from;
the primary display is one of the host's), which TLC evaluates in `access`.

*The argument.*  The invariant is what the code validates at every edit, `Valid`.
What has to be shown is that it is enough: that counting the ids finds every
duplicate (`IdsAreDistinct`, by the cardinality of an image), that there is a first
profile that is not hidden (`FirstIsEnabled`, by the least element of a set), and that
each of the four places a request's profile may come from names one that is
enabled (`ValidResolves`); and that the policy a host starts with is valid
(`DefaultIsValid`): a store whose own default it refuses never opens.

`SizesFit`, `PolicySpec => []SizeKeepsShape`, is about the arithmetic of those
profiles, for any screen that is not more than 64 times as long as it is wide.  Both
sides are the screen's, times one ratio: first the profile's, then the limits' of the
encoder.  A longer side over 4096 shrinks both, which leaves the shorter one 64 at
least, and else a shorter side under 64 grows both, which leaves the longer one 4096
at most; that is where the 64 comes from.  Rounding a side to an even number then moves it by one at
most and keeps it within the limits, which are even (`EvenIsNear`), and two sides that
are near their exact lengths have nearly the exact shape (`NearShape`).

### The server process

`ServerProofs` proves `RelayKeepsServing` (`Spec => []RelayServes`), `ReportsTheServed`
(`TlsSpec => []ReportIsServed`), `RenewalIsNew` (`TlsSpec => RegeneratedIsNew`) and
`ListensOnlyWhereAllowed` (`LifeSpec => []ListensWhereAllowed`), for any processes,
port changes, networks, answers, certificates and commands; and, for the relay
process, `RoutesImplemented`: `CoreSpec => RelayRoutes`, for any sources,
registrations and limits.  Assumptions:
`RelayAssumption`, `TlsAssumption` and `LifeAssumption` (finitely many answers of
the owner; `Nobody`, `NoCert` and the names of the server's own calls stand apart),
which TLC evaluates in `server`, and `RelayCoreAssumption` (the limits are positive,
`NoReg` is no registration), in `stream_relay`.

*The argument.*  Relay: a start has no streams (`StartIsEmpty`), an exit that is
ignored has a restart behind it or the server stopping (`StopHasReason`), and no
stream goes live once the server shuts down.  Certificates: the command whose
attempt is at the head of the queue has kept what was served when it was asked
(`AttemptIsNew`), and nothing is served while a server is being bound
(`BindsAlone`), so the certificate it is told of cannot be one it had.
Listeners: a refused network may still be in the scope, in what the running
operation wants, or bound, but then an answer of the owner that refuses it is on
its way to an operation behind (`DeniedInv`), and that operation takes all of them
away.  `PhaseInv` says that sockets open only between the start and the close of
the listeners, and that the queue is closed with them.

Relay process: each step is one of `RelayTable` or changes nothing there.  Two facts
are needed of the table of pins (`CoreInv`).  A pin is of a registration that was
proved (`PinsProved`), so the sweep, which ends registrations nobody proved himself
for, ends no pin, and a registration is proved while it is there (`OnceThere`), so
one that is taken away and allowed again starts unproved.  The windows of unknown
sources do not occur: they decide only which datagrams are looked at.

### A source's processes

`SourceProofs` proves `KeysFollowControl` (`WorkerSpec => []BrokerKeeps`),
`FramesStayPlayable` (`FrameSpec => []FramesDecode`) and `AudioFollowsItsSamples`
(`TimelineSpec => []NeverWanders`), for any viewers, keys, formats, budgets, pipes,
rates and chunks.  The first assumes nothing.  The others assume
`NoCapsAssumption` (no format is the absence of one) and `TimelineAssumption` (sizes
are natural, the rate is not zero), which TLC evaluates in `streams_limits`.

*The argument.*  Keys: who has control and what is pressed agree where the worker
acts (`Controlled`); that a page shows it needs the order of the pipe to media-net.
the last line about a peer that is not read yet says what the worker last decided,
and a page without one shows it (`InStep`).  That is so only while the peer's channel
is open, and an add that came after would make the page anew: so a peer is added
once (`AddedOnce`), waits in one place and only before it is known (`WaitsOnce`),
and until its channel opens it has no control, no line that says so and nothing
typed (`Unopened`).  A report that a channel closed is of one that has
(`ChannelHolds`), so the control it takes away is shown by no page.

Frames: the invariant speaks of all that is still to be read, `Flow`, over the pipe,
the writer's hand and the queue.  It decodes from what the reader knows now
(`Decodes`), and what the worker takes the reader to know is what it will know at
the end (`Plays`).  An overflow cuts the flow at the queue, so the worker's belief
may be wrong from then on: forgetting it makes the second part hold again.  A gap
is either skipped to a keyframe or before the first frame, which is one
(`GapIsSkipped`).  That the last format before a record is the one in force is an
induction over positions, by the least element of a set (`Least`, `Greatest`).

Audio: the next stamp is the origin and one quotient of the sample count
(`Counted`), not a sum of rounded lengths; the distance to the clock is set or
checked at each chunk (`LastIsNear`).

### The pages

`ClientProofs` proves `HeartbeatIsFair`, `ViewerSpec => []EndedIsOver`, and
`SessionsStayHeld`, `LoginSpec => []SessionsAreHeld`, for any operations, displays,
table sizes and submissions.  Assumptions: `ViewerAssumption` and
`LoginAssumption`, which TLC evaluates in `server`.

*The argument.*  Viewer: a row has one operation, which gives it an id once
(`BeginsOnce`); what the viewer knew when its heartbeat left had begun at the
server by then (`AnswerIsFair`), so what the answer lacks is over and not still to
come, although rows are added and closed while it is under way (`OverIsOver`).
Login: while a submission waits for the login to come back it does nothing else
(`Waits`), a submission that fails early has no session or has missed it
(`NotYet`), and every later end tells the server first (`Held`).  Whose viewer a
return closes does not occur in the invariant: it may take down the wrong one
(section 5), but never drops a session.

The proof began with a stronger invariant that said this of the page's elements
too, that once nothing is under way the page shows a viewer or the login.  It had
passed with two submissions and is wrong with three (section 5).

`CodesAreRight`, `CodeSpec => []CodesHold`, is the pages' third theorem: for codes of
any number of parts and bits, any mask, lumas, contrasts and timings.  Assumption:
`CodeAssumption` (the widths are positive, the longest timing is a whole number of
rounding steps, the viewer's clock is wrong by half of the wrap at most, half of a
round trip is no longer than the longest timing: a call ends after 20 s), which TLC
evaluates in `access`.

*The argument.*  It is about functions and not about steps.  A code is a sum over
bits, so the proof needs induction, which is done on the set of indices a fact holds
of, by the least number that is not in it (`Least`, `Inductive`).  That way the
functions of the model are what their equations say (`Recursion`), a number is read
back from its bits (`ReadsBack`), and bits that are read are those of the number
(`BitsOfNumber`).  One flipped bit of the number changes one column of the check, and
one flipped bit of the check itself does too, so neither agrees (`OneFlip`); a changed
reference moves the two thresholds, but one of each colour is unchanged, and a frame
whose unchanged ones are read wrong is not read at all (`FrameIsTrue`).  The full time is the one number with these bits that is less than
half of a wrap away from the viewer's clock (`UnwrapIsTrue`).  For what is summed up:
every rank has a value (`RankedIs`, by the largest and least of a finite set of
integers, `Extremes`), a greater rank has no smaller one (`RanksAscend`), and rounding
keeps the order and the limits (`RoundKeeps`).  An offset at the limit is rounded to
the limit and not beyond it (`OffsetKeeps`).

### What stays with TLC

Liveness (`ClosingEnds`, `DeadOwnerDropped`, `WaitsEnd`, `RequestsSettle`,
`ServerSettles`, `UsedIsPinned`): the prover handles neither fairness nor ENABLED.
`HostBudgetHolds` is not stated apart: it is the last conjunct of `SourcesAreBounded`,
which `SourcesBounded` proves, for the instance with a budget of one source.
No module declares a RECURSIVE operator.

## 5. Where the code and its documents disagree

* **Two relay processes** (`relay_one_process`, `OneRelay`).  `restart()`
  (`media-relay.mjs:368`) neither waits for nor cancels another `restart()`.  Two
  changes of the media port before the old process exits await the same exit,
  and each starts a process.  The first one is then nobody's child, holds the
  port, and its start timer reports media unavailable 5 s later.
  ARCHITECTURE.md:41 and 582-584 say there is one.
* **A rejected request is approved** (`approved_rejection`,
  `RejectedGetNoSecret`).  `reject()` (`approved-clients.mjs:270`) is not queued.
  Called while `approve()` writes, it succeeds, and the approval then overwrites
  it: the device collects its secret.  `approved-clients.test.mjs:75` says a
  rejected request never does.
* **A session from the internet starts after remote access went off**
  (`remote_off`, `NoInternetSessionWhenOff`).  A sign-in passes the gate, waits
  for its password (`http-app.mjs:667`) and connects (`678`) without looking
  again.  Its requests are refused, so it only holds a place until its 20 s TTL.
  ARCHITECTURE.md:1401-1402 says the switch ends every internet session at once.

Smaller ones met while modelling, with no run of their own:

* A new code takes guesses on the old one's budget.  `/api/key-start` reserves under
  the code there is on arrival (`http-app.mjs:547-552`), compares the body with the code
  there is when it has been read (`594`) and books the failure on the first
  (`admission-budget.mjs:93-101`).  A code issued in between can be guessed wrong once
  more for each place held then for an earlier one, where ARCHITECTURE.md:1349-1351 says
  20 failures overall for each code generation.  `BudgetKeeps` states, and `BudgetHolds`
  proves, the bound there is.
* A viewer whose clock is off by more than a day loses its report.  `buildResults`
  (`latency-probe.js:274-276`) sends the offset as it was measured, and the server
  refuses the whole report (`latency-results.mjs:72-77`).  The comments say the body is
  exactly in the server's schema (`latency-probe.js:239-240`), and of timings that they
  are left out rather than failing the whole report (`230-231`).  `CodesHold` asks of
  the clock only when it is right to a day.
* A restart of the relay that meets the shutdown (`media-relay.mjs:363`) starts a
  relay the shutdown does not stop: the mistake of `OneRelay` again.
* An edit that overlaps another edit of the same device can leave a session of an
  earlier generation alive (`approved-clients.mjs:370`; ARCHITECTURE.md:1387-1388
  says an edit ends it).  An approved client whose secret was never claimed
  survives a restart (`approved-clients.test.mjs:284`).
* Of two overlapping removals of one device the second finds it gone, and sharing
  stops for everyone (`owner-security-commands.mjs:63`): it fails closed.
* The viewer: the first selection is not covered by `connecting`, so a click on a
  display meanwhile can make two rows of one display.
* The login page takes down a running viewer.  `returnToLogin()`
  (`web-client/src/app.js:156-175`) looks at `viewer` before it waits and clears the
  page after it, whatever has been mounted meanwhile.  A viewer that is slow to close
  ends while a second sign-in is under way; `/api/disconnect` of that one has no time
  limit; when it is answered at last, the page of a third sign-in's viewer is removed
  and the login is shown over it.  Its own disconnect then fails at the first missing
  element, before its heartbeat stops and before it calls the server, so its session
  stays.  `SessionsAreHeld` holds with this in the model: a viewer whose disconnect
  has failed has not ended.
* `/api/info` answered late overwrites a credential that was just approved with the
  one read before (`web-client/src/app.js:418`).
* Diagnostics: full screen left before `showProbe` returns leaves a closed handle
  behind and "Measure latency" disabled until a reload (`diagnostics.js:162`).
  Esc and a second measurement at once make the second one fail with
  `stream-changed` (`viewer/app.js:802`), where ARCHITECTURE.md gives the viewer
  about 2 s to stop.
* The comment on `outputSize` (`stream-policy.mjs:367-371`) says the result keeps the
  encoder's limits, shrinking or growing both sides together so that the shape
  survives.  On a screen more than 64 times as long as it is wide it cannot do both:
  when it shrinks, the shorter side is under 64 and stays so; when it grows, the longer
  side is cut off at 4096 and the shape does not survive.
  `displays.mjs:16-18` takes every screen of positive size.
* A frame over `max_frame_bytes` is left out without skipping to a keyframe
  (`media-worker.cpp:637`); `FramePath` assumes there is none.
* mkcert's pair is reused although key and certificate need not belong together.
* The macOS host (`ServerHostModel.swift`): `ready` that arrives after a stop sets
  sharing to running (271); `exited()` does not ask which process it was
  (314-317); an offline load may overwrite newer settings (397-411), and an
  offline edit that ends after the start overwrites the server's (526-528).

## 6. What is not modelled, and why

* Media itself: GStreamer, codecs, capture, sandboxing, the operating system's
  injection of input.  Their reports and failures are actions.
* Text: SDP and addresses, HTTP parsing, cookies and headers, command parsing,
  console and file migration.  What they decide is a choice or a parameter.
* Values derived for display: host status, recovery advice, session stability,
  telemetry, the tables of Diagnostics.
* The Windows host and the views of both hosts.  The Windows host runs the same
  server over the same pipe, on its own code.
* The login page's registration of a device and its stored keys; the viewer's
  layout, gestures, clipboard and input capture.
* The tools behind a certificate (mkcert, Tailscale, the platform's store): their
  outcomes are choices of `TlsListener`.
* Build scripts, site, promotional video.
* In `ApprovedClients` and `KeyAdmission` the comparison of a secret, a password or
  a key is a free choice, and the rolling time windows in front of the budget
  only refuse more.
* Each module's header names what it assumes of the world outside.

## 7. Plan

Done, the most important behaviour first: the control lease, streams, the relay
supervisor and its process, approved clients, admission and settings, policy, HTTP
access, the server's life, certificates, worker and media-net, the viewer and the
login page, measurements, the macOS host; and the theorems of section 4.

Every safety property of the runs is proved; liveness stays with TLC.

Next, modules: registration and stored keys of the login page against
`ApprovedClients`, `HostApp` against `SettingsFile` for settings that change
while the server starts, and the viewer's control and input capture against
`MediaWorker`.
