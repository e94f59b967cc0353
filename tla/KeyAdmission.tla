----------------------------- MODULE KeyAdmission -----------------------------
(***************************************************************************)
(* Codes and passwords (connection-keys.mjs, code-issuance.mjs) and the    *)
(* budget of wrong answers (admission-budget.mjs), as /api/key-start       *)
(* (http-app.mjs) uses them.                                               *)
(*                                                                         *)
(* An attempt reserves a place in the budget of both kinds of key before   *)
(* its body is read, and gives it back when the answer is known: by then   *)
(* the key may have been used, may have expired or been replaced, and the  *)
(* row of its source may have been dropped from the bounded table.  The    *)
(* body is compared with the key there is when it has been read, and the   *)
(* answer is charged to the one the place was reserved for.                *)
(*                                                                         *)
(* A reservation holds its counters as objects; here it holds the key it   *)
(* was made for, and whether its source's row is still in the table.       *)
(***************************************************************************)
EXTENDS Naturals, Sequences, FiniteSets, SequencesExt

CONSTANTS
  Attempts,   \* requests at /api/key-start in progress
  Peers,      \* sources
  KeyLimit,   \* globalLimit: wrong answers a key allows
  PeerLimit,  \* sourceLimit: of them from one source
  MaxPeers,   \* maxSources: rows of the table of sources
  MaxKeys,    \* bound on the keys issued of each kind
  NoPeer

ASSUME KeyAdmissionAssumption ==
  /\ KeyLimit \in Nat \ {0} /\ PeerLimit \in 1..KeyLimit
  /\ MaxPeers \in Nat \ {0} /\ MaxKeys \in Nat \ {0}
  /\ NoPeer \notin Peers
  /\ IsFiniteSet(Attempts)

\* The one single-use key (a setup or a one-time code) and the session password.
Kinds == {"ephemeral", "session"}

VARIABLES
  issued,   \* keys issued of each kind: a key's number is its generation
  key,      \* the valid key of each kind, 0 when there is none
  class,    \* #classes: the key the counters are for, failures and pending
  rows,     \* the sources' counters, least recently used first
  attempt,  \* the reservations of each attempt
  \* History, for the properties only:
  charged,    \* the failures counted for each key
  guessed,    \* the wrong answers that were compared with each key
  inherited   \* the reservations for older keys there were when each key was issued

keyVars == <<issued, key, class, rows, attempt, charged, guessed, inherited>>

NoAttempt == [peer |-> NoPeer, for |-> [k \in Kinds |-> 0], row |-> [k \in Kinds |-> FALSE]]

\* The registry starts with a session password.
KeyInit ==
  /\ issued = [k \in Kinds |-> IF k = "session" THEN 1 ELSE 0]
  /\ key = issued
  /\ class = [k \in Kinds |-> [for |-> 0, failures |-> 0, pending |-> 0]]
  /\ rows = [k \in Kinds |-> <<>>]
  /\ attempt = [a \in Attempts |-> NoAttempt]
  /\ charged = [k \in Kinds |-> [g \in 1..MaxKeys |-> 0]]
  /\ guessed = charged /\ inherited = charged

-----------------------------------------------------------------------------
\* The counters of key[k], and its table: new ones when it is not the key they are for.
Class(k) == IF class[k].for = key[k] THEN class[k]
            ELSE [for |-> key[k], failures |-> 0, pending |-> 0]

Table(k) == IF class[k].for = key[k] THEN rows[k] ELSE <<>>

\* #boundedRow: the source's row, the most recent one now; a new one may push the oldest out.
Touched(table, p) ==
  LET others == SelectSeq(table, LAMBDA r : r.peer # p)
      own == SelectSeq(table, LAMBDA r : r.peer = p)
  IN IF own # <<>> THEN others \o own
     ELSE Append(IF Len(table) >= MaxPeers THEN Tail(table) ELSE table,
                 [peer |-> p, failures |-> 0, pending |-> 0])

\* Mutant: answers that are not known yet are left out.
FullM(c) == c.failures >= KeyLimit

\* The key's whole budget is spent or reserved.
Full(c) == c.failures + c.pending >= KeyLimit

\* What #reserveClass leaves for kind k when an attempt of source p asks.
Reserve(k, p) ==
  LET c == Class(k)
      table == Touched(Table(k), p)
      mine == Last(table)
      take == mine.failures + mine.pending < PeerLimit
  IN IF key[k] = 0 THEN [class |-> class[k], rows |-> rows[k], ok |-> FALSE]
     ELSE IF Full(c) THEN [class |-> c, rows |-> Table(k), ok |-> FALSE]
     ELSE [class |-> IF take THEN [c EXCEPT !.pending = @ + 1] ELSE c,
           rows |-> IF take THEN Append(Front(table), [mine EXCEPT !.pending = @ + 1]) ELSE table,
           ok |-> take]

\* The sources that have a row in a table.
Listed(table) == {table[i].peer : i \in DOMAIN table}

\* beginKeyStart, once the rolling limits let it in: a reservation of either kind will do.
BeginKeyStart(a, p) ==
  /\ attempt[a] = NoAttempt
  /\ LET got == [k \in Kinds |-> Reserve(k, p)]
         some == \E k \in Kinds : got[k].ok
         kept(k, r) == r.peer \in Listed(got[k].rows) /\ r.for[k] = got[k].class.for
     IN /\ class' = [k \in Kinds |-> got[k].class]
        /\ rows' = [k \in Kinds |-> got[k].rows]
        /\ attempt' =
             [b \in Attempts |->
                IF b = a /\ some
                THEN [peer |-> p, for |-> [k \in Kinds |-> IF got[k].ok THEN key[k] ELSE 0],
                      row |-> [k \in Kinds |-> got[k].ok]]
                ELSE [attempt[b] EXCEPT !.row = [k \in Kinds |-> @[k] /\ kept(k, attempt[b])]]]
  /\ UNCHANGED <<issued, key, charged, guessed, inherited>>

-----------------------------------------------------------------------------
\* Mutant: the answer is booked on the counters there are now.
HoldsM(a, k) == attempt[a].for[k] # 0

\* Attempt a holds a place in the counters of kind k that are in use now.
Holds(a, k) == attempt[a].for[k] # 0 /\ attempt[a].for[k] = class[k].for

\* Counters that get a place back, and that count a wrong answer.
Returned(c) == [c EXCEPT !.pending = @ - 1]

Counted(c) == [c EXCEPT !.failures = @ + 1]

\* finish: the attempt gives back every place it holds; the kinds in failed count a failure.
Finish(a, failed) ==
  LET after(c, k) == IF k \in failed THEN Counted(Returned(c)) ELSE Returned(c)
  IN /\ attempt[a] # NoAttempt
     /\ attempt' = [attempt EXCEPT ![a] = NoAttempt]
     /\ class' = [k \in Kinds |-> IF Holds(a, k) THEN after(class[k], k) ELSE class[k]]
     /\ rows' = [k \in Kinds |->
                   [i \in DOMAIN rows[k] |->
                      IF attempt[a].row[k] /\ rows[k][i].peer = attempt[a].peer
                      THEN after(rows[k][i], k) ELSE rows[k][i]]]
     /\ charged' = [k \in Kinds |->
                      [g \in 1..MaxKeys |->
                         IF k \in failed /\ attempt[a].for[k] = g THEN charged[k][g] + 1
                         ELSE charged[k][g]]]

\* An unknown or expired key: it was compared with the valid key of every kind, and tells of those
\* that the attempt may use.  Every reservation counts it, for the key it was made for.
WrongAnswer(a) ==
  /\ Finish(a, Kinds)
  /\ guessed' = [k \in Kinds |->
                   [g \in 1..MaxKeys |->
                      IF attempt[a].for[k] # 0 /\ key[k] = g THEN guessed[k][g] + 1 ELSE guessed[k][g]]]
  /\ UNCHANGED <<issued, key, inherited>>

\* A body that cannot be read, or a valid key that the connection mode, the network or the policy
\* refuses: every reservation counts it, although no key was guessed wrong.
Refused(a) == Finish(a, Kinds) /\ UNCHANGED <<issued, key, guessed, inherited>>

\* The host is busy: nothing is counted.
CancelKeyStart(a) == Finish(a, {}) /\ UNCHANGED <<issued, key, guessed, inherited>>

\* The valid key of a kind the attempt reserved: it is counted for neither kind.  A single-use key
\* is spent, unless every place for a session is taken.
RightAnswer(a, k) ==
  /\ key[k] # 0
  /\ attempt[a].for[k] # 0
  /\ Finish(a, {})
  /\ \/ key' = [key EXCEPT !["ephemeral"] = IF k = "ephemeral" THEN 0 ELSE @]
     \/ key' = key
  /\ UNCHANGED <<issued, guessed, inherited>>

\* The attempts that reserved a place for kind k.
Reserving(k) == {a \in Attempts : attempt[a].for[k] # 0}

\* The owner asks for a code or rotates the password: the key of that kind is replaced.
IssueKey(k) ==
  /\ issued[k] < MaxKeys
  /\ issued' = [issued EXCEPT ![k] = @ + 1]
  /\ key' = [key EXCEPT ![k] = issued[k] + 1]
  /\ inherited' = [inherited EXCEPT ![k][issued[k] + 1] = Cardinality(Reserving(k))]
  /\ UNCHANGED <<class, rows, attempt, charged, guessed>>

\* A code expires, or is cleared with a change of the connection mode.
ExpireKey ==
  /\ key["ephemeral"] # 0
  /\ key' = [key EXCEPT !["ephemeral"] = 0]
  /\ UNCHANGED <<issued, class, rows, attempt, charged, guessed, inherited>>

KeyNext ==
  \/ \E a \in Attempts :
       \/ \E p \in Peers : BeginKeyStart(a, p)
       \/ WrongAnswer(a) \/ Refused(a) \/ CancelKeyStart(a)
       \/ \E k \in Kinds : RightAnswer(a, k)
  \/ \E k \in Kinds : IssueKey(k)
  \/ ExpireKey

KeySpec == KeyInit /\ [][KeyNext]_keyVars

-----------------------------------------------------------------------------
(* Properties. *)

\* The attempts whose reservations hold a place for key g of kind k.
Holding(reserved, k, g) == {a \in Attempts : reserved[a].for[k] = g}

\* A key is charged at most KeyLimit failures, however many requests are under way at once, finish
\* late, or come from sources the table has forgotten.
ChargesBounded ==
  \A k \in Kinds, g \in 1..MaxKeys : charged[k][g] + Cardinality(Holding(attempt, k, g)) <= KeyLimit

\* A key is guessed wrong at most KeyLimit times, and once more for each request that had reserved
\* its place when the key was issued; the requests that may still guess it are within that, too.
GuessesBounded ==
  \A k \in Kinds, g \in 1..MaxKeys :
    guessed[k][g] + (IF key[k] = g THEN Cardinality(Reserving(k)) ELSE 0) <= KeyLimit + inherited[k][g]

\* The counters are exact for the key they are for: no place is lost to a request that ended, and
\* no late answer to an older key is charged to the new one.
BudgetExact ==
  \A k \in Kinds : class[k].for # 0 =>
    /\ class[k].pending = Cardinality(Holding(attempt, k, class[k].for))
    /\ class[k].failures = charged[k][class[k].for]

\* What the budget of a key promises its owner: no more failures and guesses than the limits, and
\* none that is refused for a place that is free.
BudgetKeeps == ChargesBounded /\ GuessesBounded /\ BudgetExact

=============================================================================
