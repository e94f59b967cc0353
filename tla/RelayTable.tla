------------------------------ MODULE RelayTable ------------------------------
(***************************************************************************)
(* What the media relay promises the server and the viewers: datagrams of  *)
(* a source reach the stream it proved itself for and no other, for as     *)
(* long as the server keeps that stream's registration; a registration     *)
(* somebody proved himself for ends by the server's word only.             *)
(***************************************************************************)
EXTENDS Naturals, FiniteSets

CONSTANTS Regs, Origins, NoReg, MaxRegs, MaxPins

VARIABLES
  open,    \* the registrations there are
  proved,  \* those somebody proved himself for
  lapsed,  \* those the server was told nobody did, in time
  route,   \* where each source's datagrams go
  uses,    \* the registration whose credentials the one behind a source uses
  over     \* the relay is not there, or no more

tableVars == <<open, proved, lapsed, route, uses, over>>

RoutesOf(r) == {s \in Origins : route[s] = r}

\* What a change leaves of the routes.
Without(gone) == [s \in Origins |-> IF route[s] \in gone THEN NoReg ELSE route[s]]

TableInit ==
  /\ open = {} /\ proved = {} /\ lapsed = {}
  /\ route = [s \in Origins |-> NoReg] /\ uses = [s \in Origins |-> NoReg]
  /\ over \in BOOLEAN

Open(r) ==
  /\ ~over /\ r \notin open /\ Cardinality(open) < MaxRegs
  /\ open' = open \cup {r} /\ lapsed' = lapsed \ {r}
  /\ UNCHANGED <<proved, route, uses, over>>

\* The server closes a registration: its routes end at once.
Close(r) ==
  /\ ~over /\ r \in open
  /\ open' = open \ {r} /\ proved' = proved \ {r}
  /\ route' = Without({r})
  /\ UNCHANGED <<lapsed, uses, over>>

\* A source is routed to the one registration it has the credentials of.
Route(s, r) ==
  /\ ~over /\ r \in open /\ uses[s] = r
  /\ route[s] = NoReg /\ Cardinality(RoutesOf(r)) < MaxPins
  /\ route' = [route EXCEPT ![s] = r] /\ proved' = proved \cup {r}
  /\ UNCHANGED <<open, lapsed, uses, over>>

\* Registrations nobody proved himself for lapse, and sources that are quiet lose their route.
Lapse ==
  /\ ~over
  /\ \E gone \in SUBSET (open \ proved), quiet \in SUBSET Origins :
       /\ open' = open \ gone /\ lapsed' = lapsed \cup gone
       /\ route' = [s \in Origins |-> IF s \in quiet THEN NoReg ELSE route[s]]
  /\ UNCHANGED <<proved, uses, over>>

\* The one behind a source changes.
Move(s) ==
  /\ \E r \in Regs \cup {NoReg} : uses' = [uses EXCEPT ![s] = r]
  /\ UNCHANGED <<open, proved, lapsed, route, over>>

\* The relay ends with the server, and nothing is left of it.
Shut ==
  /\ ~over /\ over'
  /\ open' = {} /\ proved' = {} /\ lapsed' = {}
  /\ route' = Without(Regs)
  /\ UNCHANGED uses

TableNext ==
  \/ \E r \in Regs : Open(r) \/ Close(r)
  \/ \E s \in Origins : Move(s) \/ \E r \in Regs : Route(s, r)
  \/ Lapse \/ Shut

TableSpec == TableInit /\ [][TableNext]_tableVars

=============================================================================
