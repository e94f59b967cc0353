------------------------------ MODULE RelayCore ------------------------------
(***************************************************************************)
(* The media relay process: its table of registrations and pins            *)
(* (media-relay/relay.mjs), the checks a datagram passes                   *)
(* (media-relay/stun.mjs) and the commands of the server                   *)
(* (media-relay/protocol.mjs).                                             *)
(*                                                                         *)
(* A source is an address and port; a STUN binding request carries the     *)
(* registration it names and whether its integrity holds.  One tick is a   *)
(* sweep's second; a limit counts ticks or datagrams.                      *)
(***************************************************************************)
EXTENDS Naturals, FiniteSets

CONSTANTS
  Regs,       \* registrations (streams); each has its ICE credentials
  Origins,    \* addresses and ports datagrams come from
  NoReg,
  GroupOf,    \* the address group of each source
  HintOf,     \* the group each registration's client signed in from
  MaxRegs, MaxPins,            \* registrations, pinsPerRegistration
  HintLane, PerSource, Total,  \* datagrams of unknown sources in one window
  Expires, PinIdle,            \* ticks
  MaxRoams                     \* bound on viewers that change their address

ASSUME RelayCoreAssumption ==
  /\ NoReg \notin Regs
  /\ {MaxRegs, MaxPins, HintLane, PerSource, Total, Expires, PinIdle} \subseteq Nat \ {0}
  /\ MaxRoams \in Nat
  /\ DOMAIN GroupOf = Origins /\ DOMAIN HintOf = Regs

VARIABLES
  regs, \* each registration: there, its age, pinned once; the server was told it expired
  pinned,     \* each source: the registration, ticks since it was last seen, its socket is bound
  lanes,      \* the window: datagrams per registration, per source group, of strangers; over
  uses,       \* the stream the viewer's browser uses each source for
  roams,
  ended       \* stop, the end of the pipe or an invalid command

coreVars == <<regs, pinned, lanes, uses, roams, ended>>

Absent == [here |-> FALSE, age |-> 0, once |-> FALSE, expired |-> FALSE]
NoPin == [reg |-> NoReg, idle |-> 0, ready |-> FALSE]
NewWindow == [reg |-> [r \in Regs |-> 0], group |-> [g \in {GroupOf[s] : s \in Origins} |-> 0],
              total |-> 0, over |-> FALSE]

CoreInit ==
  /\ regs = [r \in Regs |-> Absent]
  /\ pinned = [s \in Origins |-> NoPin]
  /\ lanes = NewWindow
  /\ uses = [s \in Origins |-> NoReg]
  /\ roams = 0 /\ ended = FALSE

There == {r \in Regs : regs[r].here}
PinsOf(r) == {s \in Origins : pinned[s].reg = r}

-----------------------------------------------------------------------------
(* Commands. *)

\* allow: a duplicate or one too many is refused, and nothing changes.
AllowReg(r) ==
  /\ ~ended
  /\ r \notin There /\ Cardinality(There) < MaxRegs
  /\ regs' = [regs EXCEPT ![r] = [Absent EXCEPT !.here = TRUE]]
  /\ UNCHANGED <<pinned, lanes, uses, roams, ended>>

\* Mutant: the pins of a registration that goes stay until they are idle.
UnpinnedM(gone) == pinned

\* revoke and #unpin: a registration takes its pins along.
Unpinned(gone) == [s \in Origins |-> IF pinned[s].reg \in gone THEN NoPin ELSE pinned[s]]

RevokeReg(r) ==
  /\ ~ended
  /\ r \in There
  /\ regs' = [regs EXCEPT ![r] = Absent]
  /\ pinned' = Unpinned({r})
  /\ lanes' = [lanes EXCEPT !.reg[r] = 0]
  /\ UNCHANGED <<uses, roams, ended>>

\* finish: stop, the end of the pipe, an invalid or unreadable command.
Finish ==
  /\ ~ended
  /\ ended' = TRUE
  /\ regs' = [r \in Regs |-> Absent]
  /\ pinned' = Unpinned(Regs)
  /\ UNCHANGED <<lanes, uses, roams>>

\* Mutant: expiry looks at the age alone.
ExpiredM == {r \in There : regs[r].age >= Expires}

\* Registrations nobody authenticated for in time.
Expired == {r \in There : ~regs[r].once /\ regs[r].age >= Expires}

\* A second passes, and sweep: expired registrations, then pins that went quiet.
Sweep ==
  /\ ~ended
  /\ regs' = [r \in Regs |-> CASE r \in Expired -> [Absent EXCEPT !.expired = TRUE]
                                     [] r \in There /\ regs[r].age < Expires ->
                                          [regs[r] EXCEPT !.age = @ + 1]
                                     [] OTHER -> regs[r]]
  /\ LET left == Unpinned(Expired)
     IN pinned' = [s \in Origins |->
                    IF left[s].reg = NoReg \/ left[s].idle + 1 >= PinIdle THEN NoPin
                    ELSE [left[s] EXCEPT !.idle = @ + 1]]
  /\ lanes' = [lanes EXCEPT !.over = TRUE]
  /\ UNCHANGED <<uses, roams, ended>>

-----------------------------------------------------------------------------
(* Datagrams of a source that is not pinned. *)

\* The window begins anew with the first datagram after it is over.
Window == IF lanes.over THEN NewWindow ELSE lanes

\* Registrations whose client signed in from the source's group, and that may still be charged.
HintRegs(s) == {r \in There : HintOf[r] = GroupOf[s] /\ Window.reg[r] < HintLane}

\* #budget: the hinted lane first, then the strangers'.
Budget(s) ==
  LET w == Window
  IN IF HintRegs(s) # {}
     THEN \E r \in HintRegs(s) : lanes' = [w EXCEPT !.reg[r] = @ + 1]
     ELSE /\ w.total < Total /\ w.group[GroupOf[s]] < PerSource
          /\ lanes' = [w EXCEPT !.group[GroupOf[s]] = @ + 1, !.total = @ + 1]

\* A datagram that proves nothing (malformed, an unknown ufrag, a wrong password or user name)
\* costs budget and is dropped.
Noise(s) ==
  /\ ~ended /\ pinned[s].reg = NoReg
  /\ Budget(s)
  /\ UNCHANGED <<regs, pinned, uses, roams, ended>>

\* A check with the password and user name of r pins the source; its socket is not bound yet.
Check(s, r) ==
  /\ ~ended /\ pinned[s].reg = NoReg /\ uses[s] = r
  /\ r \in There /\ Cardinality(PinsOf(r)) < MaxPins
  /\ Budget(s)
  /\ pinned' = [pinned EXCEPT ![s] = [reg |-> r, idle |-> 0, ready |-> FALSE]]
  /\ regs' = [regs EXCEPT ![r].once = TRUE]
  /\ UNCHANGED <<uses, roams, ended>>

\* bind's callback: what was queued goes to the worker.
PinReady(s) ==
  /\ pinned[s].reg # NoReg /\ ~pinned[s].ready
  /\ pinned' = [pinned EXCEPT ![s].ready = TRUE, ![s].idle = 0]
  /\ UNCHANGED <<regs, lanes, uses, roams, ended>>

-----------------------------------------------------------------------------
(* Datagrams on a pin. *)

\* Mutant: any datagram of the source keeps its pin.
ProvesM(s) == TRUE

\* #fromPinned: media, or a STUN message that is verified with the pin's own registration; a check
\* of another registration is dropped and does not keep the pin alive.
Proves(s) == uses[s] = pinned[s].reg

\* The viewer's browser sends on the source.
FromPinned(s) ==
  /\ pinned[s].reg # NoReg /\ uses[s] # NoReg
  /\ Proves(s)
  /\ pinned' = [pinned EXCEPT ![s].idle = 0]
  /\ UNCHANGED <<regs, lanes, uses, roams, ended>>

\* The worker sends to the source while the peer consents.
FromWorker(s) ==
  /\ pinned[s].reg # NoReg /\ pinned[s].ready /\ uses[s] = pinned[s].reg
  /\ pinned' = [pinned EXCEPT ![s].idle = 0]
  /\ UNCHANGED <<regs, lanes, uses, roams, ended>>

\* The viewer opens a stream on a source, or moves: its address changes, or the port goes to
\* another stream of its.
Roam(s, r) ==
  /\ roams < MaxRoams /\ roams' = roams + 1
  /\ uses[s] # r
  /\ r # NoReg => Cardinality({t \in Origins \ {s} : uses[t] = r}) < MaxPins
  /\ uses' = [uses EXCEPT ![s] = r]
  /\ UNCHANGED <<regs, pinned, lanes, ended>>

CoreNext ==
  \/ \E r \in Regs : AllowReg(r) \/ RevokeReg(r)
  \/ Finish \/ Sweep
  \/ \E s \in Origins : \/ Noise(s) \/ PinReady(s) \/ FromPinned(s) \/ FromWorker(s)
                        \/ \E r \in Regs : Check(s, r)
                        \/ \E r \in Regs \cup {NoReg} : Roam(s, r)

CoreSpec == CoreInit /\ [][CoreNext]_coreVars

\* The sweep's timer; a browser repeats its checks until one is answered, and in some window one
\* of them comes before the noise.
CoreFair ==
  /\ WF_coreVars(Sweep)
  /\ \A s \in Origins : /\ WF_coreVars(PinReady(s))
                        /\ SF_coreVars(\E r \in Regs : Check(s, r))

FairCoreSpec == CoreSpec /\ CoreFair

-----------------------------------------------------------------------------
(* Properties. *)

RevokedOrOver(r) == ended \/ (~regs[r].here /\ ~regs[r].expired)

\* The table as RelayTable sees it.
Proved == {r \in There : regs[r].once}
Lapsed == {r \in Regs : regs[r].expired}
Routes == [s \in Origins |-> pinned[s].reg]

Table == INSTANCE RelayTable WITH
  open <- There, proved <- Proved, lapsed <- Lapsed, route <- Routes, over <- ended

\* The registrations and pins implement what the relay promises (RelayTable): a source is pinned only
\* to the registration it proved itself for, never while it is pinned to another and within the
\* limit; the pins end with their registration; and one that was proved never lapses.
RelayRoutes == Table!TableSpec

\* A viewer that uses a source for a stream gets it pinned to that stream, although its old
\* addresses fill the stream's pins, the source is pinned to another stream of its, the pin went
\* idle, or strangers send noise; only the server's revoke (or the end of the relay) or no proof in time
\* ends a registration.
UsedIsPinned ==
  \A s \in Origins, r \in Regs :
    (regs[r].once /\ uses[s] = r) ~> (pinned[s].reg = r \/ uses[s] # r \/ RevokedOrOver(r))

=============================================================================
