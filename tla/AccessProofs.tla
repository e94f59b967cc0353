----------------------------- MODULE AccessProofs -----------------------------
(***************************************************************************)
(* Proofs about who is let in: KeyAdmission, for any number of attempts,   *)
(* sources and keys and any limits; HttpAccess, for any number of          *)
(* requests, devices, tokens and places; and StreamPolicy, for any         *)
(* profiles, displays and edits.                                           *)
(***************************************************************************)
EXTENDS HttpAccess, KeyAdmission, StreamPolicy, FiniteSetTheorems, TLAPS

-----------------------------------------------------------------------------
(* The budget.  The exact counters are inductive only with the order of    *)
(* generations: counters are never for a key that is newer than the last   *)
(* one issued, and nothing was reserved or counted for a key newer than    *)
(* the one the counters are for.                                           *)

Counter == [for : Nat, failures : Int, pending : Int]

\* The counters, keys and reservations; the table of sources decides only who is refused.
Counters ==
  /\ issued \in [Kinds -> Nat]
  /\ key \in [Kinds -> Nat]
  /\ class \in [Kinds -> Counter]
  /\ attempt \in [Attempts -> [peer : Peers \cup {NoPeer}, for : [Kinds -> Nat], row : [Kinds -> BOOLEAN]]]
  /\ charged \in [Kinds -> [1..MaxKeys -> Nat]]
  /\ guessed \in [Kinds -> [1..MaxKeys -> Nat]]
  /\ inherited \in [Kinds -> [1..MaxKeys -> Nat]]

\* Generations of a kind: the counters' key, the valid key and the keys issued.
InOrder ==
  \A k \in Kinds :
    /\ key[k] \in {0, issued[k]} /\ issued[k] <= MaxKeys
    /\ class[k].for <= issued[k]
    /\ \A a \in Attempts : attempt[a].for[k] <= class[k].for
    /\ \A g \in 1..MaxKeys : g > class[k].for => charged[k][g] = 0
    /\ \A g \in 1..MaxKeys : g > issued[k] => guessed[k][g] = 0

\* The attempts whose reservations were made for another key of kind k than g.
Older(reserved, k, g) == {a \in Attempts : reserved[a].for[k] \notin {0, g}}

GuessesInherited ==
  \A k \in Kinds, g \in 1..MaxKeys :
    /\ guessed[k][g] <= charged[k][g] + inherited[k][g]
    /\ key[k] = g => guessed[k][g] + Cardinality(Older(attempt, k, g)) <= charged[k][g] + inherited[k][g]

KeyIInv == Counters /\ InOrder /\ ChargesBounded /\ BudgetExact /\ GuessesInherited

\* What the end of an attempt may do to the guesses: one more, at the valid key of a kind it counts for.
MayGuess(a, failed) ==
  \A k \in Kinds, g \in 1..MaxKeys :
    \/ guessed'[k][g] = guessed[k][g]
    \/ guessed'[k][g] = guessed[k][g] + 1 /\ k \in failed /\ attempt[a].for[k] # 0 /\ key[k] = g

\* The histories count.
LEMMA HistoryTypes ==
  ASSUME Counters, NEW k \in Kinds, NEW g \in 1..MaxKeys
  PROVE  charged[k][g] \in Nat /\ guessed[k][g] \in Nat /\ inherited[k][g] \in Nat
<1>1. charged[k] \in [1..MaxKeys -> Nat]
  BY DEF Counters
<1>2. guessed[k] \in [1..MaxKeys -> Nat]
  BY DEF Counters
<1>3. inherited[k] \in [1..MaxKeys -> Nat]
  BY DEF Counters
<1> QED
  BY <1>1, <1>2, <1>3

\* An attempt that reserved nothing holds no place.
LEMMA NothingHeld ==
  ASSUME Counters, NEW a \in Attempts, attempt[a] = NoAttempt, NEW k \in Kinds, NEW g \in Nat \ {0}
  PROVE  a \notin Holding(attempt, k, g)
BY DEF Holding, NoAttempt

LEMMA HoldingFinite ==
  ASSUME NEW reserved, NEW k, NEW g
  PROVE  IsFiniteSet(Holding(reserved, k, g)) /\ Cardinality(Holding(reserved, k, g)) \in Nat
BY KeyAdmissionAssumption, FS_Subset, FS_CardinalityType DEF Holding

LEMMA OlderFinite ==
  ASSUME NEW reserved, NEW k, NEW g
  PROVE  IsFiniteSet(Older(reserved, k, g)) /\ Cardinality(Older(reserved, k, g)) \in Nat
BY KeyAdmissionAssumption, FS_Subset, FS_CardinalityType DEF Older

\* The guesses at a key, and those that may still be made, are within its limit and what it inherited.
LEMMA InheritedBounds == KeyIInv => GuessesBounded
<1> SUFFICES ASSUME KeyIInv, NEW k \in Kinds, NEW g \in 1..MaxKeys
             PROVE  guessed[k][g] + (IF key[k] = g THEN Cardinality(Reserving(k)) ELSE 0)
                      <= KeyLimit + inherited[k][g]
  BY DEF GuessesBounded
<1>1. /\ guessed[k][g] \in Nat /\ charged[k][g] \in Nat /\ inherited[k][g] \in Nat /\ KeyLimit \in Nat
      /\ charged[k][g] + Cardinality(Holding(attempt, k, g)) <= KeyLimit
      /\ guessed[k][g] <= charged[k][g] + inherited[k][g]
      /\ key[k] = g => guessed[k][g] + Cardinality(Older(attempt, k, g)) <= charged[k][g] + inherited[k][g]
  BY KeyAdmissionAssumption DEF KeyIInv, Counters, ChargesBounded, GuessesInherited
<1>2. Cardinality(Reserving(k)) = Cardinality(Holding(attempt, k, g)) + Cardinality(Older(attempt, k, g))
  <2>1. PICK H : H = Holding(attempt, k, g)
    OBVIOUS
  <2>2. PICK O : O = Older(attempt, k, g)
    OBVIOUS
  <2>3. IsFiniteSet(H) /\ IsFiniteSet(O)
    BY <2>1, <2>2, HoldingFinite, OlderFinite
  <2>4. H \cap O = {} /\ Reserving(k) = H \cup O
    BY <2>1, <2>2 DEF Holding, Older, Reserving
  <2>5. Cardinality(H \cup O) = Cardinality(H) + Cardinality(O)
    <3>1. Cardinality(H \cup O) = Cardinality(H) + Cardinality(O) - Cardinality(H \cap O)
      BY <2>3, FS_Union
    <3>2. Cardinality(H \cap O) = 0
      BY <2>4, FS_EmptySet
    <3>3. Cardinality(H) \in Nat /\ Cardinality(O) \in Nat
      BY <2>3, FS_CardinalityType
    <3> QED
      BY <3>1, <3>2, <3>3
  <2> QED
    BY <2>1, <2>2, <2>4, <2>5
<1>3. Cardinality(Holding(attempt, k, g)) \in Nat /\ Cardinality(Older(attempt, k, g)) \in Nat
  BY HoldingFinite, OlderFinite
<1> QED
  BY <1>1, <1>2, <1>3

\* The registry's start: nothing is reserved or counted.
LEMMA InitKey == KeyInit => KeyIInv
<1> SUFFICES ASSUME KeyInit PROVE KeyIInv
  OBVIOUS
<1>1. Counters
  BY KeyAdmissionAssumption DEF KeyInit, Counters, Counter, NoAttempt, Kinds
<1>2. InOrder
  BY KeyAdmissionAssumption DEF KeyInit, InOrder, NoAttempt, Kinds
<1>3. ASSUME NEW k \in Kinds, NEW g \in 1..MaxKeys
      PROVE  Holding(attempt, k, g) = {}
  BY <1>3, KeyAdmissionAssumption DEF KeyInit, Holding, NoAttempt
<1>4. ChargesBounded
  <2> SUFFICES ASSUME NEW k \in Kinds, NEW g \in 1..MaxKeys
               PROVE  charged[k][g] + Cardinality(Holding(attempt, k, g)) <= KeyLimit
    BY DEF ChargesBounded
  <2>1. charged[k][g] = 0
    BY DEF KeyInit
  <2>2. Cardinality(Holding(attempt, k, g)) = 0
    BY <1>3, FS_EmptySet
  <2> QED
    BY <2>1, <2>2, KeyAdmissionAssumption
<1>5. BudgetExact
  BY DEF BudgetExact, KeyInit
<1>6. GuessesInherited
  <2> SUFFICES ASSUME NEW k \in Kinds, NEW g \in 1..MaxKeys
               PROVE  /\ guessed[k][g] = 0 /\ charged[k][g] = 0 /\ inherited[k][g] = 0
                      /\ Cardinality(Older(attempt, k, g)) = 0
    BY DEF GuessesInherited
  <2>1. Older(attempt, k, g) = {}
    BY DEF KeyInit, Older, NoAttempt
  <2> QED
    BY <2>1, FS_EmptySet DEF KeyInit
<1> QED
  BY <1>1, <1>2, <1>4, <1>5, <1>6 DEF KeyIInv

LEMMA Counting ==
  ASSUME NEW c \in Counter
  PROVE  /\ Returned(c) \in Counter /\ Returned(c).for = c.for
         /\ Returned(c).failures = c.failures /\ Returned(c).pending = c.pending - 1
         /\ Counted(c) \in Counter /\ Counted(c).for = c.for
         /\ Counted(c).failures = c.failures + 1 /\ Counted(c).pending = c.pending
BY DEF Counter, Returned, Counted

-----------------------------------------------------------------------------
\* A reservation.

\* The counters that are used for a valid key are its own: with what is held and counted for it.
LEMMA ClassIsKeys ==
  ASSUME KeyIInv, NEW k \in Kinds, key[k] # 0
  PROVE  /\ Class(k) \in Counter
         /\ Class(k).for = key[k] /\ key[k] \in 1..MaxKeys
         /\ Class(k).pending = Cardinality(Holding(attempt, k, key[k]))
         /\ Class(k).failures = charged[k][key[k]]
<1>1. key[k] = issued[k] /\ key[k] \in 1..MaxKeys /\ class[k].for <= key[k]
  BY KeyAdmissionAssumption DEF KeyIInv, Counters, InOrder
<1>2. CASE class[k].for = key[k]
  BY <1>1, <1>2 DEF KeyIInv, Counters, BudgetExact, Class
<1>3. CASE class[k].for # key[k]
  <2>1. class[k].for < key[k]
    BY <1>1, <1>3 DEF KeyIInv, Counters, Counter
  <2>2. Holding(attempt, k, key[k]) = {}
    BY <2>1, <1>1 DEF KeyIInv, Counters, Counter, InOrder, Holding
  <2>3. charged[k][key[k]] = 0
    BY <2>1, <1>1 DEF KeyIInv, Counters, InOrder
  <2> QED
    BY <1>1, <1>3, <2>2, <2>3, FS_EmptySet DEF Class, KeyIInv, Counters, Counter
<1> QED
  BY <1>2, <1>3

\* What #reserveClass leaves: for a valid key counters of that key, with one place more when it
\* grants one, which it does only while the key's budget has room; otherwise everything as it was.
LEMMA ReserveClass ==
  ASSUME KeyIInv, NEW k \in Kinds, NEW p \in Peers
  PROVE  LET got == Reserve(k, p) IN
         /\ got.ok \in BOOLEAN
         /\ key[k] = 0 => ~got.ok /\ got.class = class[k]
         /\ key[k] # 0 /\ ~got.ok => got.class = Class(k)
         /\ got.ok => /\ ~Full(Class(k))
                      /\ got.class \in Counter /\ got.class.for = Class(k).for
                      /\ got.class.failures = Class(k).failures
                      /\ got.class.pending = Class(k).pending + 1
<1>1. CASE key[k] = 0
  BY <1>1 DEF Reserve
<1>2. CASE key[k] # 0 /\ Full(Class(k))
  BY <1>2 DEF Reserve
<1>3. CASE key[k] # 0 /\ ~Full(Class(k))
  <2> DEFINE take == Last(Touched(Table(k), p)).failures + Last(Touched(Table(k), p)).pending < PeerLimit
             more == [Class(k) EXCEPT !.pending = @ + 1]
  <2>1. /\ Reserve(k, p).ok = take
        /\ Reserve(k, p).class = IF take THEN more ELSE Class(k)
    BY <1>3 DEF Reserve
  <2>2. take \in BOOLEAN
    OBVIOUS
  <2>3. ASSUME NEW c \in Counter
        PROVE  /\ [c EXCEPT !.pending = @ + 1] \in Counter /\ [c EXCEPT !.pending = @ + 1].for = c.for
               /\ [c EXCEPT !.pending = @ + 1].failures = c.failures
               /\ [c EXCEPT !.pending = @ + 1].pending = c.pending + 1
    BY DEF Counter
  <2>4. /\ more \in Counter /\ more.for = Class(k).for
        /\ more.failures = Class(k).failures /\ more.pending = Class(k).pending + 1
    BY <1>3, <2>3, ClassIsKeys
  <2> HIDE DEF take, more
  <2> QED
    BY <1>3, <2>1, <2>2, <2>4
<1> QED
  BY <1>1, <1>2, <1>3

LEMMA BeginKeepsKey ==
  ASSUME KeyIInv, NEW a \in Attempts, NEW p \in Peers, BeginKeyStart(a, p)
  PROVE  KeyIInv'
<1> DEFINE got == [k \in Kinds |-> Reserve(k, p)]
           some == \E k \in Kinds : got[k].ok
<1>1. /\ attempt[a] = NoAttempt
      /\ class' = [k \in Kinds |-> got[k].class]
      /\ issued' = issued /\ key' = key /\ charged' = charged
      /\ guessed' = guessed /\ inherited' = inherited
  BY DEF BeginKeyStart
<1>2. ASSUME NEW k \in Kinds
      PROVE  /\ got[k].ok \in BOOLEAN
             /\ key[k] = 0 => ~got[k].ok /\ class'[k] = class[k]
             /\ key[k] # 0 /\ ~got[k].ok => class'[k] = Class(k)
             /\ got[k].ok => /\ key[k] # 0 /\ ~Full(Class(k))
                             /\ class'[k] \in Counter /\ class'[k].for = Class(k).for
                             /\ class'[k].failures = Class(k).failures
                             /\ class'[k].pending = Class(k).pending + 1
  <2> DEFINE one == Reserve(k, p)
  <2>1. got[k] = one /\ class'[k] = one.class
    BY <1>1
  <2>2. /\ one.ok \in BOOLEAN
        /\ key[k] = 0 => ~one.ok /\ one.class = class[k]
        /\ key[k] # 0 /\ ~one.ok => one.class = Class(k)
        /\ one.ok => /\ ~Full(Class(k))
                     /\ one.class \in Counter /\ one.class.for = Class(k).for
                     /\ one.class.failures = Class(k).failures
                     /\ one.class.pending = Class(k).pending + 1
    BY ReserveClass
  <2> HIDE DEF one, got
  <2> QED
    BY <2>1, <2>2
<1>3. /\ attempt' \in [Attempts -> [peer : Peers \cup {NoPeer}, for : [Kinds -> Nat], row : [Kinds -> BOOLEAN]]]
      /\ \A b \in Attempts, k \in Kinds :
           attempt'[b].for[k] = IF b = a /\ got[k].ok THEN key[k] ELSE attempt[b].for[k]
  <2> DEFINE kept(k, r) == r.peer \in Listed(got[k].rows) /\ r.for[k] = got[k].class.for
  <2>1. attempt' =
          [b \in Attempts |->
             IF b = a /\ some
             THEN [peer |-> p, for |-> [k \in Kinds |-> IF got[k].ok THEN key[k] ELSE 0],
                   row |-> [k \in Kinds |-> got[k].ok]]
             ELSE [attempt[b] EXCEPT !.row = [k \in Kinds |-> @[k] /\ kept(k, attempt[b])]]]
    BY DEF BeginKeyStart
  <2>2. attempt[a].for = [k \in Kinds |-> 0]
    BY <1>1 DEF NoAttempt
  <2> HIDE DEF got
  <2>3. ASSUME NEW b \in Attempts, b = a, some
        PROVE  /\ attempt'[b] \in [peer : Peers \cup {NoPeer}, for : [Kinds -> Nat], row : [Kinds -> BOOLEAN]]
               /\ \A k \in Kinds : attempt'[b].for[k] = IF got[k].ok THEN key[k] ELSE attempt[b].for[k]
    <3>1. attempt'[b] = [peer |-> p, for |-> [k \in Kinds |-> IF got[k].ok THEN key[k] ELSE 0],
                         row |-> [k \in Kinds |-> got[k].ok]]
      BY <2>1, <2>3
    <3>2. [k \in Kinds |-> IF got[k].ok THEN key[k] ELSE 0] \in [Kinds -> Nat]
      BY DEF KeyIInv, Counters
    <3>3. [k \in Kinds |-> got[k].ok] \in [Kinds -> BOOLEAN]
      BY <1>2
    <3> QED
      BY <3>1, <3>2, <3>3, <2>2, <2>3
  <2>4. ASSUME NEW b \in Attempts, ~(b = a /\ some)
        PROVE  /\ attempt'[b] \in [peer : Peers \cup {NoPeer}, for : [Kinds -> Nat], row : [Kinds -> BOOLEAN]]
               /\ \A k \in Kinds : attempt'[b].for[k] = attempt[b].for[k]
    BY <2>1, <2>4 DEF KeyIInv, Counters
  <2>5. some \/ \A k \in Kinds : ~got[k].ok
    OBVIOUS
  <2>6. attempt' = [b \in Attempts |-> attempt'[b]]
    BY <2>1
  <2> HIDE DEF some
  <2> QED
    BY <2>3, <2>4, <2>5, <2>6
<1> HIDE DEF got
<1>4. Counters'
  <2>1. ASSUME NEW k \in Kinds
        PROVE  class'[k] \in Counter
    <3>1. class[k] \in Counter
      BY DEF KeyIInv, Counters
    <3>2. key[k] # 0 => Class(k) \in Counter
      BY ClassIsKeys
    <3> QED
      BY <1>2, <3>1, <3>2
  <2>2. class' \in [Kinds -> Counter]
    BY <1>1, <2>1
  <2> QED
    BY <1>1, <1>3, <2>2 DEF KeyIInv, Counters
<1>5. ASSUME NEW k \in Kinds
      PROVE  /\ class'[k].for = IF key[k] = 0 THEN class[k].for ELSE key[k]
             /\ class[k].for <= class'[k].for /\ class'[k].for <= issued[k]
  <2>1. key[k] # 0 => Class(k).for = key[k]
    BY ClassIsKeys
  <2>2. class[k].for \in Nat /\ class[k].for <= issued[k] /\ key[k] \in {0, issued[k]}
    BY DEF KeyIInv, Counters, Counter, InOrder
  <2>3. CASE key[k] = 0
    BY <2>3, <1>2, <2>2
  <2>4. CASE key[k] # 0
    <3>1. class'[k].for = Class(k).for
      <4>1. CASE got[k].ok
        BY <4>1, <1>2
      <4>2. CASE ~got[k].ok
        BY <4>2, <2>4, <1>2
      <4> QED
        BY <4>1, <4>2
    <3>2. class'[k].for = key[k] /\ key[k] = issued[k]
      BY <2>4, <3>1, <2>1, <2>2
    <3>3. class[k].for <= key[k] /\ key[k] <= issued[k]
      <4>1. issued[k] \in Nat
        BY DEF KeyIInv, Counters
      <4> QED
        BY <3>2, <4>1, <2>2
    <3> QED
      BY <2>4, <3>2, <3>3
  <2> QED
    BY <2>3, <2>4
<1>6. InOrder'
  <2> SUFFICES ASSUME NEW k \in Kinds
               PROVE  /\ \A b \in Attempts : attempt'[b].for[k] <= class'[k].for
                      /\ \A g \in 1..MaxKeys : g > class'[k].for => charged[k][g] = 0
    BY <1>1, <1>5 DEF KeyIInv, InOrder
  <2>1. /\ class[k].for \in Nat /\ class'[k].for \in Nat
        /\ \A b \in Attempts : attempt[b].for[k] \in Nat /\ attempt[b].for[k] <= class[k].for
        /\ \A g \in 1..MaxKeys : g > class[k].for => charged[k][g] = 0
    BY <1>4 DEF KeyIInv, Counters, Counter, InOrder
  <2>2. got[k].ok => key[k] # 0
    BY <1>2
  <2> QED
    BY <1>3, <1>5, <2>1, <2>2, KeyAdmissionAssumption
<1>7. ASSUME NEW k \in Kinds, NEW g \in Nat \ {0}
      PROVE  Holding(attempt', k, g) = IF got[k].ok /\ key[k] = g THEN Holding(attempt, k, g) \cup {a} ELSE Holding(attempt, k, g)
  <2>1. attempt[a].for[k] = 0
    BY <1>1 DEF NoAttempt
  <2> QED
    BY <1>3, <2>1 DEF Holding
<1>8. ASSUME NEW k \in Kinds, got[k].ok
      PROVE  /\ key[k] \in 1..MaxKeys /\ class'[k].for = key[k]
             /\ Cardinality(Holding(attempt', k, key[k])) = Cardinality(Holding(attempt, k, key[k])) + 1
             /\ charged[k][key[k]] + Cardinality(Holding(attempt', k, key[k])) <= KeyLimit
             /\ class'[k].pending = Cardinality(Holding(attempt', k, key[k]))
             /\ class'[k].failures = charged[k][key[k]]
  <2>1. /\ key[k] # 0 /\ ~Full(Class(k))
        /\ class'[k].for = Class(k).for /\ class'[k].failures = Class(k).failures
        /\ class'[k].pending = Class(k).pending + 1
    BY <1>2, <1>8
  <2>2. /\ Class(k) \in Counter
        /\ Class(k).for = key[k] /\ key[k] \in 1..MaxKeys
        /\ Class(k).pending = Cardinality(Holding(attempt, k, key[k]))
        /\ Class(k).failures = charged[k][key[k]]
    BY <2>1, ClassIsKeys
  <2>3. Holding(attempt', k, key[k]) = Holding(attempt, k, key[k]) \cup {a}
    BY <1>7, <1>8, <2>2, KeyAdmissionAssumption
  <2>4. a \notin Holding(attempt, k, key[k])
    BY <1>1, <2>2, NothingHeld, KeyAdmissionAssumption DEF KeyIInv
  <2>5. Cardinality(Holding(attempt', k, key[k])) = Cardinality(Holding(attempt, k, key[k])) + 1
    BY <2>3, <2>4, HoldingFinite, FS_AddElement
  <2>6. charged[k][key[k]] \in Nat /\ Cardinality(Holding(attempt, k, key[k])) \in Nat /\ KeyLimit \in Nat
    BY <2>2, HoldingFinite, KeyAdmissionAssumption DEF KeyIInv, Counters
  <2>7. charged[k][key[k]] + Cardinality(Holding(attempt, k, key[k])) < KeyLimit
    BY <2>1, <2>2, <2>6 DEF Full
  <2> QED
    BY <2>1, <2>2, <2>5, <2>6, <2>7
<1>9. ChargesBounded'
  <2> SUFFICES ASSUME NEW k \in Kinds, NEW g \in 1..MaxKeys
               PROVE  charged[k][g] + Cardinality(Holding(attempt', k, g)) <= KeyLimit
    BY <1>1 DEF ChargesBounded
  <2>1. CASE got[k].ok /\ key[k] = g
    BY <2>1, <1>8
  <2>2. CASE ~(got[k].ok /\ key[k] = g)
    BY <2>2, <1>7, KeyAdmissionAssumption DEF KeyIInv, ChargesBounded
  <2> QED
    BY <2>1, <2>2
<1>10. BudgetExact'
  <2> SUFFICES ASSUME NEW k \in Kinds, class'[k].for # 0
               PROVE  /\ class'[k].pending = Cardinality(Holding(attempt', k, class'[k].for))
                      /\ class'[k].failures = charged[k][class'[k].for]
    BY <1>1 DEF BudgetExact, Holding
  <2>1. CASE got[k].ok
    BY <2>1, <1>8
  <2>2. CASE ~got[k].ok
    <3>1. Holding(attempt', k, class'[k].for) = Holding(attempt, k, class'[k].for)
      BY <2>2, <1>7, <1>4 DEF Counters, Counter
    <3>2. CASE key[k] = 0
      BY <3>1, <3>2, <1>2 DEF KeyIInv, BudgetExact
    <3>3. CASE key[k] # 0
      <4>1. class'[k] = Class(k)
        BY <3>3, <2>2, <1>2
      <4> QED
        BY <3>1, <3>3, <4>1, ClassIsKeys
    <3> QED
      BY <3>2, <3>3
  <2> QED
    BY <2>1, <2>2
<1>11. GuessesInherited'
  <2> SUFFICES ASSUME NEW k \in Kinds, NEW g \in 1..MaxKeys, key[k] = g
               PROVE  Older(attempt', k, g) = Older(attempt, k, g)
    BY <1>1 DEF KeyIInv, GuessesInherited, Older
  <2>1. attempt[a].for[k] = 0
    BY <1>1 DEF NoAttempt
  <2>2. \A c \in Attempts : attempt'[c].for[k] \notin {0, g} <=> attempt[c].for[k] \notin {0, g}
    BY <1>3, <2>1
  <2> QED
    BY <2>2 DEF Older
<1> QED
  BY <1>4, <1>6, <1>9, <1>10, <1>11 DEF KeyIInv

-----------------------------------------------------------------------------
\* The end of an attempt.

\* Whatever the answer was, the attempt's places go back and failures are counted where the
\* places were taken.
LEMMA FinishKeepsKey ==
  ASSUME KeyIInv, NEW a \in Attempts, NEW failed \in SUBSET Kinds, Finish(a, failed),
         issued' = issued, key' \in [Kinds -> Nat], \A k \in Kinds : key'[k] \in {0, key[k]},
         inherited' = inherited, guessed' \in [Kinds -> [1..MaxKeys -> Nat]],
         MayGuess(a, failed)
  PROVE  KeyIInv'
<1> DEFINE after(c, k) == IF k \in failed THEN Counted(Returned(c)) ELSE Returned(c)
<1>1. /\ attempt' = [attempt EXCEPT ![a] = NoAttempt]
      /\ class' = [k \in Kinds |-> IF Holds(a, k) THEN after(class[k], k) ELSE class[k]]
      /\ charged' = [k \in Kinds |->
                     [g \in 1..MaxKeys |->
                        IF k \in failed /\ attempt[a].for[k] = g THEN charged[k][g] + 1
                        ELSE charged[k][g]]]
  BY DEF Finish
<1>a. ASSUME NEW k \in Kinds
      PROVE  /\ class[k] \in Counter
             /\ after(class[k], k) \in Counter
             /\ after(class[k], k).for = class[k].for
             /\ after(class[k], k).pending = class[k].pending - 1
             /\ after(class[k], k).failures =
                  IF k \in failed THEN class[k].failures + 1 ELSE class[k].failures
  <2>1. class[k] \in Counter
    BY DEF KeyIInv, Counters
  <2>2. /\ Returned(class[k]) \in Counter /\ Returned(class[k]).for = class[k].for
        /\ Returned(class[k]).failures = class[k].failures
        /\ Returned(class[k]).pending = class[k].pending - 1
    BY <2>1, Counting
  <2>3. /\ Counted(Returned(class[k])) \in Counter
        /\ Counted(Returned(class[k])).for = Returned(class[k]).for
        /\ Counted(Returned(class[k])).failures = Returned(class[k]).failures + 1
        /\ Counted(Returned(class[k])).pending = Returned(class[k]).pending
    BY <2>2, Counting
  <2> QED
    BY <2>1, <2>2, <2>3
<1> HIDE DEF after
<1>2. Counters'
  <2>1. class' \in [Kinds -> Counter]
    BY <1>1, <1>a
  <2>2. attempt' \in [Attempts -> [peer : Peers \cup {NoPeer}, for : [Kinds -> Nat], row : [Kinds -> BOOLEAN]]]
    BY <1>1 DEF KeyIInv, Counters, NoAttempt
  <2>3. charged' \in [Kinds -> [1..MaxKeys -> Nat]]
    <3>1. ASSUME NEW k \in Kinds, NEW g \in 1..MaxKeys
          PROVE  (IF k \in failed /\ attempt[a].for[k] = g THEN charged[k][g] + 1 ELSE charged[k][g]) \in Nat
      <4>1. charged[k][g] \in Nat
        BY HistoryTypes DEF KeyIInv
      <4> QED
        BY <4>1
    <3> QED
      BY <1>1, <3>1
  <2> QED
    BY <2>1, <2>2, <2>3 DEF KeyIInv, Counters
<1>3. ASSUME NEW k \in Kinds
      PROVE  /\ class'[k].for = class[k].for
             /\ \A b \in Attempts : attempt'[b].for[k] = IF b = a THEN 0 ELSE attempt[b].for[k]
  <2>1. class'[k].for = class[k].for
    BY <1>1, <1>a
  <2>2. attempt'[a].for[k] = 0 /\ \A b \in Attempts \ {a} : attempt'[b] = attempt[b]
    BY <1>1 DEF KeyIInv, Counters, NoAttempt
  <2> QED
    BY <2>1, <2>2
<1>4. InOrder'
  <2> SUFFICES ASSUME NEW k \in Kinds
               PROVE  /\ key'[k] \in {0, issued[k]} /\ issued[k] <= MaxKeys
                      /\ class[k].for <= issued[k]
                      /\ \A b \in Attempts : attempt'[b].for[k] <= class[k].for
                      /\ \A g \in 1..MaxKeys : g > class[k].for => charged'[k][g] = 0
                      /\ \A g \in 1..MaxKeys : g > issued[k] => guessed'[k][g] = 0
    BY <1>3 DEF InOrder
  <2>0. ASSUME NEW g \in 1..MaxKeys, g > issued[k] PROVE guessed'[k][g] = 0
    <3>1. guessed[k][g] = 0
      BY <2>0 DEF KeyIInv, InOrder
    <3>2. key[k] \in {0, issued[k]} /\ issued[k] \in Nat
      BY DEF KeyIInv, Counters, InOrder
    <3>3. key[k] # g
      BY <2>0, <3>2, KeyAdmissionAssumption
    <3> QED
      BY <3>1, <3>3 DEF MayGuess
  <2>1. /\ key[k] \in {0, issued[k]} /\ issued[k] <= MaxKeys /\ class[k].for <= issued[k]
        /\ class[k].for \in Nat
        /\ \A b \in Attempts : attempt[b].for[k] \in Nat /\ attempt[b].for[k] <= class[k].for
        /\ \A g \in 1..MaxKeys : g > class[k].for => charged[k][g] = 0
    BY DEF KeyIInv, Counters, Counter, InOrder
  <2>2. ASSUME NEW g \in 1..MaxKeys, g > class[k].for PROVE charged'[k][g] = 0
    <3>1. attempt[a].for[k] # g
      BY <2>1, <2>2
    <3> QED
      BY <1>1, <2>1, <2>2, <3>1
  <2> QED
    BY <1>3, <2>0, <2>1, <2>2
<1>5. ASSUME NEW k \in Kinds, NEW g \in 1..MaxKeys
      PROVE  /\ attempt[a].for[k] = g =>
                  /\ Cardinality(Holding(attempt', k, g)) = Cardinality(Holding(attempt, k, g)) - 1
                  /\ charged'[k][g] = IF k \in failed THEN charged[k][g] + 1 ELSE charged[k][g]
             /\ attempt[a].for[k] # g =>
                  Cardinality(Holding(attempt', k, g)) = Cardinality(Holding(attempt, k, g)) /\ charged'[k][g] = charged[k][g]
  <2>1. Holding(attempt', k, g) = Holding(attempt, k, g) \ {a}
    BY <1>3, KeyAdmissionAssumption DEF Holding
  <2>2. charged'[k][g] = IF k \in failed /\ attempt[a].for[k] = g THEN charged[k][g] + 1 ELSE charged[k][g]
    BY <1>1
  <2>3. CASE attempt[a].for[k] = g
    <3>1. a \in Holding(attempt, k, g)
      BY <2>3 DEF Holding
    <3>2. Cardinality(Holding(attempt', k, g)) = Cardinality(Holding(attempt, k, g)) - 1
      <4> DEFINE before == Holding(attempt, k, g)
                 held == Holding(attempt', k, g)
      <4>1. IsFiniteSet(before) /\ a \in before /\ held = before \ {a}
        BY HoldingFinite, <3>1, <2>1
      <4> HIDE DEF before, held
      <4>2. Cardinality(held) = Cardinality(before) - 1
        BY <4>1, FS_RemoveElement
      <4> QED
        BY <4>2 DEF before, held
    <3> QED
      BY <2>2, <2>3, <3>2
  <2>4. CASE attempt[a].for[k] # g
    <3>1. Holding(attempt', k, g) = Holding(attempt, k, g)
      BY <2>1, <2>4 DEF Holding
    <3> QED
      BY <2>2, <2>4, <3>1
  <2> QED
    BY <2>3, <2>4
<1>6. ChargesBounded'
  <2> SUFFICES ASSUME NEW k \in Kinds, NEW g \in 1..MaxKeys
               PROVE  charged'[k][g] + Cardinality(Holding(attempt', k, g)) <= KeyLimit
    BY DEF ChargesBounded
  <2>1. /\ charged[k][g] \in Nat /\ Cardinality(Holding(attempt, k, g)) \in Nat /\ KeyLimit \in Nat
        /\ charged[k][g] + Cardinality(Holding(attempt, k, g)) <= KeyLimit
    BY HoldingFinite, HistoryTypes, KeyAdmissionAssumption DEF KeyIInv, ChargesBounded
  <2> DEFINE held == Cardinality(Holding(attempt, k, g))
             left == Cardinality(Holding(attempt', k, g))
  <2>2. /\ attempt[a].for[k] = g =>
             left = held - 1 /\ charged'[k][g] = IF k \in failed THEN charged[k][g] + 1 ELSE charged[k][g]
        /\ attempt[a].for[k] # g => left = held /\ charged'[k][g] = charged[k][g]
    BY <1>5
  <2>3. held \in Nat /\ charged[k][g] + held <= KeyLimit
    BY <2>1
  <2> HIDE DEF held, left
  <2>4. charged'[k][g] + left <= KeyLimit
    <3>1. CASE attempt[a].for[k] # g
      BY <2>1, <2>2, <2>3, <3>1
    <3>2. CASE attempt[a].for[k] = g /\ k \in failed
      BY <2>1, <2>2, <2>3, <3>2
    <3>3. CASE attempt[a].for[k] = g /\ k \notin failed
      BY <2>1, <2>2, <2>3, <3>3
    <3> QED
      BY <3>1, <3>2, <3>3
  <2> QED
    BY <2>4 DEF left
<1>7. BudgetExact'
  <2> SUFFICES ASSUME NEW k \in Kinds, class[k].for # 0
               PROVE  /\ class'[k].pending = Cardinality(Holding(attempt', k, class[k].for))
                      /\ class'[k].failures = charged'[k][class[k].for]
    BY <1>3 DEF BudgetExact
  <2> DEFINE g == class[k].for
  <2>1. /\ g \in 1..MaxKeys /\ class[k] \in Counter
        /\ class[k].pending = Cardinality(Holding(attempt, k, g)) /\ class[k].failures = charged[k][g]
    <3>1. class[k] \in Counter /\ issued[k] \in Nat
      BY DEF KeyIInv, Counters
    <3>2. class[k].for <= issued[k] /\ issued[k] <= MaxKeys
      BY DEF KeyIInv, InOrder
    <3>3. class[k].for \in Nat
      BY <3>1 DEF Counter
    <3>4. g \in 1..MaxKeys
      BY <3>1, <3>2, <3>3, KeyAdmissionAssumption
    <3> QED
      BY <3>1, <3>4 DEF KeyIInv, BudgetExact
  <2>2. class'[k] = IF attempt[a].for[k] = g THEN after(class[k], k) ELSE class[k]
    BY <1>1, <2>1, KeyAdmissionAssumption DEF Holds
  <2>3. CASE attempt[a].for[k] = g
    BY <1>5, <1>a, <2>1, <2>2, <2>3
  <2>4. CASE attempt[a].for[k] # g
    BY <1>5, <2>1, <2>2, <2>4
  <2> QED
    BY <2>3, <2>4
<1>8. GuessesInherited'
  <2> SUFFICES ASSUME NEW k \in Kinds, NEW g \in 1..MaxKeys
               PROVE  /\ guessed'[k][g] <= charged'[k][g] + inherited[k][g]
                      /\ key'[k] = g =>
                           guessed'[k][g] + Cardinality(Older(attempt', k, g)) <= charged'[k][g] + inherited[k][g]
    BY DEF GuessesInherited
  <2>1. PICK O : O = Older(attempt, k, g)
    OBVIOUS
  <2>2. Older(attempt', k, g) = O \ {a}
    BY <1>3, <2>1 DEF Older
  <2>3. IsFiniteSet(O) /\ Cardinality(O) \in Nat /\ Cardinality(O \ {a}) \in Nat
    BY <2>1, <2>2, OlderFinite
  <2>4. /\ a \in O => Cardinality(O \ {a}) = Cardinality(O) - 1
        /\ a \notin O => Cardinality(O \ {a}) = Cardinality(O)
    <3>1. ASSUME a \in O PROVE Cardinality(O \ {a}) = Cardinality(O) - 1
      BY <2>3, <3>1, FS_RemoveElement
    <3>2. ASSUME a \notin O PROVE O \ {a} = O
      BY <3>2
    <3> QED
      BY <3>1, <3>2
  <2>5. a \in O <=> attempt[a].for[k] # 0 /\ attempt[a].for[k] # g
    BY <2>1 DEF Older
  <2>6. /\ guessed[k][g] \in Nat /\ guessed'[k][g] \in Nat
        /\ charged[k][g] \in Nat /\ inherited[k][g] \in Nat
        /\ guessed[k][g] <= charged[k][g] + inherited[k][g]
        /\ key[k] = g => guessed[k][g] + Cardinality(O) <= charged[k][g] + inherited[k][g]
        /\ key'[k] = g => key[k] = g
    <3>1. guessed'[k][g] \in Nat
      OBVIOUS
    <3>2. /\ guessed[k][g] <= charged[k][g] + inherited[k][g]
          /\ key[k] = g => guessed[k][g] + Cardinality(O) <= charged[k][g] + inherited[k][g]
      BY <2>1 DEF KeyIInv, GuessesInherited
    <3>3. key'[k] \in {0, key[k]} /\ g # 0
      BY KeyAdmissionAssumption
    <3>4. key'[k] = g => key[k] = g
      BY <3>3
    <3> QED
      BY <3>1, <3>2, <3>4, HistoryTypes DEF KeyIInv
  <2>7. /\ attempt[a].for[k] = g => charged'[k][g] = IF k \in failed THEN charged[k][g] + 1 ELSE charged[k][g]
        /\ attempt[a].for[k] # g => charged'[k][g] = charged[k][g]
    BY <1>5
  <2>0. PICK n : n = Cardinality(O)
    OBVIOUS
  <2>a. PICK m : m = Cardinality(O \ {a})
    OBVIOUS
  <2>b. /\ n \in Nat /\ m \in Nat /\ Cardinality(Older(attempt', k, g)) = m
        /\ attempt[a].for[k] # 0 /\ attempt[a].for[k] # g => m = n - 1
        /\ attempt[a].for[k] = 0 \/ attempt[a].for[k] = g => m = n
        /\ key[k] = g => guessed[k][g] + n <= charged[k][g] + inherited[k][g]
    BY <2>0, <2>a, <2>2, <2>3, <2>4, <2>5, <2>6
  <2>c. PICK c : c = charged'[k][g]
    OBVIOUS
  <2>d. PICK h : h = guessed'[k][g]
    OBVIOUS
  <2>e. /\ attempt[a].for[k] = g /\ k \in failed => c = charged[k][g] + 1
        /\ attempt[a].for[k] = g /\ k \notin failed => c = charged[k][g]
        /\ attempt[a].for[k] # g => c = charged[k][g]
    BY <2>7, <2>c
  <2>f. c \in Nat /\ h \in Nat /\ c >= charged[k][g]
    BY <2>6, <2>d, <2>e
  <2>g. PICK before : before = guessed[k][g]
    OBVIOUS
  <2>h. PICK room : room = inherited[k][g]
    OBVIOUS
  <2>i. PICK was : was = charged[k][g]
    OBVIOUS
  <2>j. before \in Nat /\ room \in Nat /\ was \in Nat /\ before <= was + room /\ was <= c
    BY <2>6, <2>f, <2>g, <2>h, <2>i
  <2>k. CASE h = before
    <3>1. h <= c + room
      BY <2>f, <2>j, <2>k
    <3>2. ASSUME key'[k] = g PROVE h + m <= c + room
      <4>1. before + n <= was + room
        BY <2>6, <2>b, <2>g, <2>h, <2>i, <3>2
      <4>2. m <= n
        BY <2>b
      <4> QED
        BY <2>b, <2>f, <2>j, <2>k, <4>1, <4>2
    <3> QED
      BY <2>b, <2>c, <2>d, <2>h, <3>1, <3>2
  <2>l. CASE h = before + 1 /\ k \in failed /\ attempt[a].for[k] # 0 /\ key[k] = g
    <3>1. before + n <= was + room
      BY <2>b, <2>g, <2>h, <2>i, <2>l
    <3>2. (m = n - 1 /\ c = was) \/ (m = n /\ c = was + 1)
      <4>1. CASE attempt[a].for[k] = g
        BY <2>b, <2>e, <2>i, <2>l, <4>1
      <4>2. CASE attempt[a].for[k] # g
        BY <2>b, <2>e, <2>i, <2>l, <4>2
      <4> QED
        BY <4>1, <4>2
    <3>3. h + m <= c + room
      BY <2>b, <2>f, <2>j, <2>l, <3>1, <3>2
    <3>4. h <= c + room
      BY <2>b, <2>f, <2>j, <3>3
    <3> QED
      BY <2>b, <2>c, <2>d, <2>h, <3>3, <3>4
  <2> QED
    BY <2>d, <2>g, <2>k, <2>l DEF MayGuess
<1> QED
  BY <1>2, <1>4, <1>6, <1>7, <1>8 DEF KeyIInv

-----------------------------------------------------------------------------
\* Every step keeps the invariant.
LEMMA NextKey == KeyIInv /\ [KeyNext]_keyVars => KeyIInv'
<1> SUFFICES ASSUME KeyIInv, [KeyNext]_keyVars PROVE KeyIInv'
  OBVIOUS
<1>1. ASSUME NEW a \in Attempts, NEW p \in Peers, BeginKeyStart(a, p) PROVE KeyIInv'
  BY <1>1, BeginKeepsKey
<1>2. ASSUME NEW a \in Attempts, Refused(a) \/ CancelKeyStart(a) PROVE KeyIInv'
  <2>1. PICK failed \in SUBSET Kinds : Finish(a, failed)
    BY <1>2 DEF Refused, CancelKeyStart
  <2>2. issued' = issued /\ key' = key /\ guessed' = guessed /\ inherited' = inherited
    BY <1>2 DEF Refused, CancelKeyStart
  <2> QED
    BY <2>1, <2>2, FinishKeepsKey DEF KeyIInv, Counters, MayGuess
<1>6. ASSUME NEW a \in Attempts, WrongAnswer(a) PROVE KeyIInv'
  <2>1. /\ Finish(a, Kinds) /\ issued' = issued /\ key' = key /\ inherited' = inherited
        /\ guessed' = [k \in Kinds |->
                         [g \in 1..MaxKeys |->
                            IF attempt[a].for[k] # 0 /\ key[k] = g THEN guessed[k][g] + 1 ELSE guessed[k][g]]]
    BY <1>6 DEF WrongAnswer
  <2>2. ASSUME NEW k \in Kinds, NEW g \in 1..MaxKeys
        PROVE  /\ guessed'[k][g] \in Nat
               /\ \/ guessed'[k][g] = guessed[k][g]
                  \/ guessed'[k][g] = guessed[k][g] + 1 /\ k \in Kinds /\ attempt[a].for[k] # 0 /\ key[k] = g
    <3>1. guessed[k][g] \in Nat
      BY HistoryTypes DEF KeyIInv
    <3>2. guessed'[k][g] = IF attempt[a].for[k] # 0 /\ key[k] = g THEN guessed[k][g] + 1 ELSE guessed[k][g]
      BY <2>1
    <3> QED
      BY <3>1, <3>2
  <2>3. guessed' \in [Kinds -> [1..MaxKeys -> Nat]]
    <3>1. ASSUME NEW k \in Kinds, NEW g \in 1..MaxKeys
          PROVE  (IF attempt[a].for[k] # 0 /\ key[k] = g THEN guessed[k][g] + 1 ELSE guessed[k][g]) \in Nat
      <4>1. guessed[k][g] \in Nat
        BY HistoryTypes DEF KeyIInv
      <4> QED
        BY <4>1
    <3> QED
      BY <2>1, <3>1
  <2>4. key' \in [Kinds -> Nat]
    BY <2>1 DEF KeyIInv, Counters
  <2> QED
    BY <2>1, <2>2, <2>3, <2>4, FinishKeepsKey DEF MayGuess
<1>3. ASSUME NEW a \in Attempts, NEW k \in Kinds, RightAnswer(a, k) PROVE KeyIInv'
  <2>1. Finish(a, {}) /\ issued' = issued /\ guessed' = guessed /\ inherited' = inherited
    BY <1>3 DEF RightAnswer
  <2>2. key' \in [Kinds -> Nat] /\ \A i \in Kinds : key'[i] \in {0, key[i]}
    <3>1. key \in [Kinds -> Nat]
      BY DEF KeyIInv, Counters
    <3>2. \/ key' = [key EXCEPT !["ephemeral"] = IF k = "ephemeral" THEN 0 ELSE @]
          \/ key' = key
      BY <1>3 DEF RightAnswer
    <3>3. CASE k = "ephemeral"
      BY <3>1, <3>2, <3>3
    <3>4. CASE k # "ephemeral"
      BY <3>1, <3>2, <3>4
    <3> QED
      BY <3>3, <3>4
  <2> QED
    BY <2>1, <2>2, FinishKeepsKey DEF KeyIInv, Counters, MayGuess
<1>4. ASSUME NEW k \in Kinds, IssueKey(k) PROVE KeyIInv'
  <2>0. PICK new : new = issued[k] + 1
    OBVIOUS
  <2>a. PICK late : late = Cardinality(Reserving(k))
    OBVIOUS
  <2>b. /\ new \in 1..MaxKeys /\ issued[k] \in Nat /\ new > issued[k] /\ late \in Nat
        /\ inherited' = [inherited EXCEPT ![k][new] = late]
        /\ key' = [key EXCEPT ![k] = new] /\ issued' = [issued EXCEPT ![k] = new]
        /\ UNCHANGED <<class, attempt, charged, guessed>>
    <3>1. Cardinality(Reserving(k)) \in Nat
      BY KeyAdmissionAssumption, FS_Subset, FS_CardinalityType DEF Reserving
    <3> QED
      BY <1>4, <2>0, <2>a, <3>1, KeyAdmissionAssumption DEF IssueKey, KeyIInv, Counters
  <2>1. Counters'
    BY <2>b DEF KeyIInv, Counters
  <2>2. InOrder'
    <3> SUFFICES ASSUME NEW i \in Kinds
                 PROVE  /\ key'[i] \in {0, issued'[i]} /\ issued'[i] <= MaxKeys
                        /\ class[i].for <= issued'[i] /\ issued[i] <= issued'[i]
      <4>1. \A i \in Kinds, g \in 1..MaxKeys : issued[i] <= issued'[i] /\ g > issued'[i] => g > issued[i]
        BY <2>1 DEF KeyIInv, Counters
      <4> QED
        BY <2>b, <4>1 DEF KeyIInv, InOrder
    <3>1. /\ issued[i] \in Nat /\ issued[i] <= MaxKeys /\ key[i] \in {0, issued[i]}
          /\ class[i].for \in Nat /\ class[i].for <= issued[i]
      BY DEF KeyIInv, Counters, Counter, InOrder
    <3>2. CASE i = k
      <4>1. key'[k] = issued[k] + 1 /\ issued'[k] = issued[k] + 1 /\ issued[k] < MaxKeys
        BY <1>4 DEF IssueKey, KeyIInv, Counters
      <4> QED
        BY <3>1, <3>2, <4>1, KeyAdmissionAssumption
    <3>3. CASE i # k
      <4>1. key'[i] = key[i] /\ issued'[i] = issued[i]
        BY <1>4, <3>3 DEF IssueKey, KeyIInv, Counters
      <4> QED
        BY <3>1, <4>1
    <3> QED
      BY <3>2, <3>3
  <2>3. ChargesBounded' /\ BudgetExact'
    BY <2>b DEF KeyIInv, ChargesBounded, BudgetExact, Holding
  <2>4. GuessesInherited'
    <3> SUFFICES ASSUME NEW i \in Kinds, NEW g \in 1..MaxKeys
                 PROVE  /\ guessed[i][g] <= charged[i][g] + inherited'[i][g]
                        /\ key'[i] = g =>
                             guessed[i][g] + Cardinality(Older(attempt, i, g)) <= charged[i][g] + inherited'[i][g]
      BY <2>b DEF GuessesInherited, Older
    <3>1. /\ guessed[i][g] \in Nat /\ charged[i][g] \in Nat /\ inherited[i][g] \in Nat
          /\ guessed[i][g] <= charged[i][g] + inherited[i][g]
          /\ key[i] = g => guessed[i][g] + Cardinality(Older(attempt, i, g)) <= charged[i][g] + inherited[i][g]
      BY DEF KeyIInv, Counters, GuessesInherited
    <3>2. CASE i = k /\ g = new
      <4>1. inherited'[i][g] = late
        BY <2>b, <3>2 DEF KeyIInv, Counters
      <4>2. guessed[i][g] = 0
        BY <2>b, <3>2 DEF KeyIInv, InOrder
      <4>3. Older(attempt, i, g) = Reserving(k)
        <5>1. \A a \in Attempts : attempt[a].for[k] # g
          BY <2>b, <3>2 DEF KeyIInv, Counters, Counter, InOrder
        <5> QED
          BY <3>2, <5>1 DEF Older, Reserving
      <4> QED
        BY <2>a, <2>b, <3>1, <4>1, <4>2, <4>3
    <3>3. CASE i = k /\ g # new
      <4>1. inherited'[i][g] = inherited[i][g] /\ key'[i] # g
        BY <2>b, <3>3 DEF KeyIInv, Counters
      <4> QED
        BY <3>1, <4>1
    <3>4. CASE i # k
      <4>1. inherited'[i] = inherited[i] /\ key'[i] = key[i]
        BY <2>b, <3>4 DEF KeyIInv, Counters
      <4> QED
        BY <3>1, <4>1
    <3> QED
      BY <3>2, <3>3, <3>4
  <2> QED
    BY <2>1, <2>2, <2>3, <2>4 DEF KeyIInv
<1>5. CASE ExpireKey \/ UNCHANGED keyVars
  <2>1. /\ issued' = issued /\ class' = class /\ attempt' = attempt /\ charged' = charged
        /\ guessed' = guessed /\ inherited' = inherited
        /\ key' \in [Kinds -> Nat] /\ \A k \in Kinds : key'[k] \in {0, key[k]}
    <3>1. key \in [Kinds -> Nat]
      BY DEF KeyIInv, Counters
    <3>2. CASE ExpireKey
      BY <3>1, <3>2 DEF ExpireKey
    <3>3. CASE UNCHANGED keyVars
      BY <3>1, <3>3 DEF keyVars
    <3> QED
      BY <1>5, <3>2, <3>3
  <2>2. Counters' /\ InOrder'
    BY <2>1 DEF KeyIInv, Counters, InOrder
  <2>3. ChargesBounded' /\ BudgetExact'
    BY <2>1 DEF KeyIInv, ChargesBounded, BudgetExact, Holding
  <2>4. GuessesInherited'
    <3>1. \A k \in Kinds, g \in 1..MaxKeys : key'[k] = g => key[k] = g
      BY <2>1
    <3> QED
      BY <2>1, <3>1 DEF KeyIInv, GuessesInherited, Older
  <2> QED
    BY <2>2, <2>3, <2>4 DEF KeyIInv
<1> QED
  BY <1>1, <1>2, <1>3, <1>4, <1>5, <1>6 DEF KeyNext

\* Whoever asks, however many at once, and whatever becomes of the keys meanwhile: a key is charged no
\* more failures than its limit, it is guessed wrong no more than that and once for each reservation
\* there was when it was issued, and its counters count exactly what was reserved for it.
THEOREM BudgetHolds == KeySpec => []BudgetKeeps
<1>1. KeyIInv => BudgetKeeps
  BY InheritedBounds DEF KeyIInv, BudgetKeeps
<1> QED
  BY <1>1, InitKey, NextKey, PTL DEF KeySpec

-----------------------------------------------------------------------------
(* Requests.  A request waits with a token it was let in with, while the   *)
(* session behind the token may end, and remote access may go off: what    *)
(* is kept is that a token has only ever had one device, so a session that *)
(* is there when the wait is over is that device's.                        *)

Routes == Admissions \cup Calls \cup {"asset"}

SessionRecord == [peer : Callers, approved : BOOLEAN]

RequestRecord == [at : {"idle", "body", "proof", "marking", "waiting"}, route : Routes,
                  peer : Callers \cup {None}, token : Tokens \cup {None}]

HttpTypes ==
  /\ session \in [Tokens -> SessionRecord \cup {None}]
  /\ issuedTo \in [Tokens -> Callers \cup {None}]
  /\ request \in [Requests -> RequestRecord]
  /\ grant \in SUBSET Tokens

\* Requests that a session makes.
OfSession(r) == request[r].at # "idle" /\ request[r].route \in Calls \cup {"asset"}

\* What the point a request has come to says of it.
RequestShape ==
  \A r \in Requests :
    /\ request[r].at # "idle" => request[r].peer \in Callers
    /\ request[r].at \in {"proof", "marking"} => request[r].route = "sign-in"
    /\ request[r].at = "waiting" => request[r].route \in {"offer", "asset"}
    /\ request[r].at = "marking" => request[r].token \in Tokens

\* A session that lives is the device's its token was sent to.
TokensOwned ==
  \A t \in Live : issuedTo[t] # None => session[t].peer = issuedTo[t]

\* A session that is being marked is the device's that signed in, and nobody else has its token.
MarkedAlone ==
  \A r \in Requests : request[r].at = "marking" =>
    /\ issuedTo[request[r].token] = None
    /\ request[r].token \in Live => session[request[r].token].peer = request[r].peer
    /\ \A q \in Requests : q # r /\ request[q].at = "marking" => request[q].token # request[r].token

\* A device makes requests with tokens it was sent, and from the internet only while that is
\* allowed or the session is over.
CallsOwned ==
  \A r \in Requests : OfSession(r) =>
    /\ request[r].token \in Tokens /\ issuedTo[request[r].token] = request[r].peer
    /\ request[r].token \in Live /\ Internet(request[r].peer) => remote

HttpIInv ==
  HttpTypes /\ RequestShape /\ TokensOwned /\ MarkedAlone /\ CallsOwned /\ AnswersOnlyLive

LEMMA InitHttp == AccessInit => HttpIInv
<1> SUFFICES ASSUME AccessInit PROVE HttpIInv
  OBVIOUS
<1>1. HttpTypes /\ RequestShape
  BY DEF AccessInit, HttpTypes, RequestShape, RequestRecord, Routes, Calls, Idle
<1>2. TokensOwned /\ MarkedAlone /\ CallsOwned
  BY DEF AccessInit, TokensOwned, MarkedAlone, CallsOwned, OfSession, Live, Idle
<1>3. AnswersOnlyLive
  BY DEF AccessInit, AnswersOnlyLive
<1> QED
  BY <1>1, <1>2, <1>3 DEF HttpIInv

\* A request that ends leaves what the others are.
LEMMA EndsKeeps ==
  ASSUME HttpTypes, RequestShape, NEW r \in Requests, Ends(r)
  PROVE  /\ request' \in [Requests -> RequestRecord]
         /\ RequestShape'
         /\ request'[r].at = "idle" /\ \A q \in Requests \ {r} : request'[q] = request[q]
<1>1. Idle \in RequestRecord /\ Idle.at = "idle"
  BY DEF Idle, RequestRecord, Routes, Calls
<1> QED
  BY <1>1 DEF HttpTypes, RequestShape, Ends

\* Sessions that end, and a request that ends, disturb nothing.
LEMMA FewerKeeps ==
  ASSUME HttpIInv, NEW r \in Requests, Ends(r) \/ request' = request,
         NEW S \in SUBSET Tokens, Disconnect(S), UNCHANGED <<remote, issuedTo>>
  PROVE  HttpTypes' /\ RequestShape' /\ TokensOwned' /\ MarkedAlone' /\ CallsOwned'
<1>1. \A t \in Tokens : session'[t] = IF t \in S THEN None ELSE session[t]
  BY DEF Disconnect
<1>2. Live' = Live \ S
  BY <1>1 DEF Live
<1>3. \A q \in Requests : request'[q] = request[q] \/ request'[q].at = "idle"
  BY EndsKeeps DEF HttpIInv
<1>4. HttpTypes' /\ RequestShape'
  <2>1. session' \in [Tokens -> SessionRecord \cup {None}] /\ grant' \in SUBSET Tokens
    BY DEF HttpIInv, HttpTypes, Disconnect
  <2>2. request' \in [Requests -> RequestRecord] /\ RequestShape'
    BY EndsKeeps DEF HttpIInv, HttpTypes, RequestShape
  <2> QED
    BY <2>1, <2>2 DEF HttpIInv, HttpTypes
<1>5. TokensOwned'
  BY <1>1, <1>2 DEF HttpIInv, TokensOwned, Live
<1>6. MarkedAlone'
  BY <1>1, <1>2, <1>3 DEF HttpIInv, MarkedAlone, RequestShape, Live
<1>7. CallsOwned'
  BY <1>2, <1>3 DEF HttpIInv, CallsOwned, OfSession
<1> QED
  BY <1>4, <1>5, <1>6, <1>7

LEMMA SameKeeps ==
  ASSUME HttpIInv, NEW r \in Requests, Ends(r) \/ request' = request,
         UNCHANGED <<remote, session, issuedTo, grant>>
  PROVE  HttpTypes' /\ RequestShape' /\ TokensOwned' /\ MarkedAlone' /\ CallsOwned'
<1>1. Disconnect({})
  BY DEF Disconnect, HttpIInv, HttpTypes
<1> QED
  BY <1>1, FewerKeeps

\* Nothing is answered.
LEMMA Silent == ASSUME answer' = NoAnswer PROVE AnswersOnlyLive'
BY DEF AnswersOnlyLive

LEMMA ArriveKeeps ==
  ASSUME HttpIInv, NEW r \in Requests, Arrive(r)
  PROVE  HttpIInv'
<1>1. UNCHANGED <<remote, session, issuedTo, grant>> /\ answer' = NoAnswer /\ Live' = Live
  BY DEF Arrive, Live
<1>2. PICK p \in Callers, route \in Routes, at \in {"body", "waiting"}, t \in Tokens \cup {None} :
        /\ request' = [request EXCEPT ![r] = [at |-> at, route |-> route, peer |-> p, token |-> t]]
        /\ Gate(p, route)
        /\ route \in Calls \cup {"asset"} => t \in Tokens /\ issuedTo[t] = p
        /\ at = "waiting" => route = "asset"
  BY DEF Arrive, Routes, Admissions, Calls
<1>3. /\ request' \in [Requests -> RequestRecord]
      /\ request'[r] = [at |-> at, route |-> route, peer |-> p, token |-> t]
      /\ \A q \in Requests \ {r} : request'[q] = request[q]
  BY <1>2 DEF HttpIInv, HttpTypes, RequestRecord
<1>4. HttpTypes' /\ RequestShape'
  BY <1>1, <1>2, <1>3 DEF HttpIInv, HttpTypes, RequestShape
<1>5. TokensOwned' /\ MarkedAlone'
  BY <1>1, <1>2, <1>3 DEF HttpIInv, TokensOwned, MarkedAlone
<1>6. CallsOwned'
  BY <1>1, <1>2, <1>3 DEF HttpIInv, CallsOwned, OfSession, Gate
<1> QED
  BY <1>1, <1>4, <1>5, <1>6, Silent DEF HttpIInv

\* A new session: its token was nobody's.
LEMMA KeyStartKeeps ==
  ASSUME HttpIInv, NEW r \in Requests, NEW t \in Tokens, KeyStart(r, t)
  PROVE  HttpIInv'
<1> DEFINE p == request[r].peer
<1>1. /\ request[r].at = "body" /\ p \in Callers /\ issuedTo[t] = None
      /\ session' = [session EXCEPT ![t] = [peer |-> p, approved |-> FALSE]]
      /\ issuedTo' = [issuedTo EXCEPT ![t] = p] /\ grant' = grant \cup {t}
      /\ \A q \in Requests : request[q].token # t
      /\ Ends(r) /\ remote' = remote /\ answer' = NoAnswer
  BY DEF KeyStart, Connect, Admit, HttpIInv, RequestShape
<1>2. /\ request' \in [Requests -> RequestRecord] /\ RequestShape'
      /\ request'[r].at = "idle" /\ \A q \in Requests \ {r} : request'[q] = request[q]
  BY <1>1, EndsKeeps DEF HttpIInv
<1>3. HttpTypes'
  BY <1>1, <1>2 DEF HttpIInv, HttpTypes, SessionRecord
<1>4. /\ session'[t].peer = p /\ issuedTo'[t] = p
      /\ \A u \in Tokens \ {t} : session'[u] = session[u] /\ issuedTo'[u] = issuedTo[u]
  BY <1>1 DEF HttpIInv, HttpTypes
<1>5. TokensOwned'
  BY <1>4 DEF HttpIInv, TokensOwned, Live
<1>6. MarkedAlone'
  BY <1>1, <1>2, <1>4 DEF HttpIInv, MarkedAlone, RequestShape, Live
<1>7. CallsOwned'
  BY <1>1, <1>2, <1>4 DEF HttpIInv, CallsOwned, OfSession, Live
<1> QED
  BY <1>1, <1>2, <1>3, <1>5, <1>6, <1>7, Silent DEF HttpIInv

LEMMA ProofKeeps ==
  ASSUME HttpIInv, NEW r \in Requests, BeginProof(r)
  PROVE  HttpIInv'
<1>1. /\ request[r].at = "body" /\ request[r].route = "sign-in"
      /\ request' = [request EXCEPT ![r].at = "proof"]
      /\ UNCHANGED <<remote, session, issuedTo, grant>> /\ answer' = NoAnswer /\ Live' = Live
  BY DEF BeginProof, Becomes, Live
<1>2. /\ request' \in [Requests -> RequestRecord] /\ \A q \in Requests \ {r} : request'[q] = request[q]
      /\ request'[r].at = "proof" /\ request'[r].route = "sign-in"
      /\ request'[r].peer = request[r].peer /\ request'[r].token = request[r].token
  BY <1>1 DEF HttpIInv, HttpTypes, RequestRecord
<1>3. HttpTypes' /\ RequestShape'
  BY <1>1, <1>2 DEF HttpIInv, HttpTypes, RequestShape
<1>4. TokensOwned' /\ MarkedAlone' /\ CallsOwned'
  BY <1>1, <1>2 DEF HttpIInv, TokensOwned, MarkedAlone, CallsOwned, OfSession, Calls
<1> QED
  BY <1>1, <1>3, <1>4, Silent DEF HttpIInv

LEMMA ProvedKeeps ==
  ASSUME HttpIInv, NEW r \in Requests, NEW t \in Tokens, Proved(r, t)
  PROVE  HttpIInv'
<1> DEFINE p == request[r].peer
<1>1. /\ request[r].at = "proof" /\ request[r].route = "sign-in" /\ p \in Callers
      /\ issuedTo[t] = None /\ \A q \in Requests : request[q].token # t
      /\ session' = [session EXCEPT ![t] = [peer |-> p, approved |-> TRUE]]
      /\ request' = [request EXCEPT ![r].at = "marking", ![r].token = t]
      /\ UNCHANGED <<remote, issuedTo, grant>> /\ answer' = NoAnswer
  BY DEF Proved, Connect, HttpIInv, RequestShape
<1>2. /\ request' \in [Requests -> RequestRecord] /\ \A q \in Requests \ {r} : request'[q] = request[q]
      /\ request'[r].at = "marking" /\ request'[r].route = "sign-in"
      /\ request'[r].peer = p /\ request'[r].token = t
  BY <1>1 DEF HttpIInv, HttpTypes, RequestRecord
<1>3. /\ session'[t].peer = p /\ \A u \in Tokens \ {t} : session'[u] = session[u]
      /\ session' \in [Tokens -> SessionRecord \cup {None}]
  BY <1>1 DEF HttpIInv, HttpTypes, SessionRecord
<1>4. HttpTypes' /\ RequestShape'
  BY <1>1, <1>2, <1>3 DEF HttpIInv, HttpTypes, RequestShape
<1>5. TokensOwned'
  BY <1>1, <1>3 DEF HttpIInv, TokensOwned, Live
<1>6. MarkedAlone'
  BY <1>1, <1>2, <1>3 DEF HttpIInv, MarkedAlone, RequestShape, Live
<1>7. CallsOwned'
  BY <1>1, <1>2, <1>3 DEF HttpIInv, CallsOwned, OfSession, Live, Calls
<1> QED
  BY <1>1, <1>4, <1>5, <1>6, <1>7, Silent DEF HttpIInv

\* The device is sent its token, whether the session is still there or was taken back.
LEMMA MarkedKeeps ==
  ASSUME HttpIInv, NEW r \in Requests, Marked(r)
  PROVE  HttpIInv'
<1> DEFINE t == request[r].token
           p == request[r].peer
<1>1. /\ request[r].at = "marking" /\ t \in Tokens /\ p \in Callers
      /\ issuedTo' = [issuedTo EXCEPT ![t] = p] /\ Ends(r)
      /\ remote' = remote /\ answer' = NoAnswer /\ grant' \in SUBSET Tokens
  BY DEF Marked, Admit, Disconnect, HttpIInv, RequestShape, HttpTypes
<1>2. \A u \in Tokens : session'[u] = session[u] \/ session'[u] = None
  BY DEF Marked, Disconnect
<1>3. session' \in [Tokens -> SessionRecord \cup {None}]
  BY DEF Marked, Disconnect, HttpIInv, HttpTypes
<1>4. /\ request' \in [Requests -> RequestRecord] /\ RequestShape'
      /\ request'[r].at = "idle" /\ \A q \in Requests \ {r} : request'[q] = request[q]
  BY <1>1, EndsKeeps DEF HttpIInv
<1>5. issuedTo'[t] = p /\ \A u \in Tokens \ {t} : issuedTo'[u] = issuedTo[u]
  BY <1>1 DEF HttpIInv, HttpTypes
<1>6. HttpTypes'
  BY <1>1, <1>3, <1>4 DEF HttpIInv, HttpTypes
<1>7. /\ t \in Live => session[t].peer = p
      /\ issuedTo[t] = None
      /\ \A q \in Requests \ {r} : request[q].at = "marking" => request[q].token # t
  BY <1>1 DEF HttpIInv, MarkedAlone
<1>8. TokensOwned'
  BY <1>2, <1>5, <1>7 DEF HttpIInv, TokensOwned, Live
<1>9. MarkedAlone'
  BY <1>2, <1>4, <1>5, <1>7 DEF HttpIInv, MarkedAlone, RequestShape, Live
<1>10. CallsOwned'
  BY <1>1, <1>2, <1>4, <1>5, <1>7, HttpAccessAssumption DEF HttpIInv, CallsOwned, OfSession, RequestShape, Live
<1> QED
  BY <1>1, <1>4, <1>6, <1>8, <1>9, <1>10, Silent DEF HttpIInv

LEMMA CallKeeps ==
  ASSUME HttpIInv, NEW r \in Requests, Call(r)
  PROVE  HttpIInv'
<1> DEFINE t == request[r].token
           p == request[r].peer
<1>1. /\ request[r].at = "body" /\ request[r].route \in Calls /\ Owns(p, t) /\ t \in Tokens
      /\ UNCHANGED <<remote, issuedTo>>
  BY DEF Call, Owns, Live
<1>2. CASE /\ request[r].route = "offer" /\ Becomes(r, "waiting")
           /\ answer' = NoAnswer /\ UNCHANGED <<session, grant>>
  <2>1. /\ request' \in [Requests -> RequestRecord] /\ \A q \in Requests \ {r} : request'[q] = request[q]
        /\ request'[r].at = "waiting" /\ request'[r].route = "offer"
        /\ request'[r].peer = p /\ request'[r].token = t
    BY <1>2 DEF Becomes, HttpIInv, HttpTypes, RequestRecord
  <2>2. HttpTypes' /\ RequestShape'
    BY <1>1, <1>2, <2>1 DEF HttpIInv, HttpTypes, RequestShape
  <2>3. Live' = Live
    BY <1>2 DEF Live
  <2>4. TokensOwned' /\ MarkedAlone'
    BY <1>1, <1>2, <2>1, <2>3 DEF HttpIInv, TokensOwned, MarkedAlone
  <2>5. CallsOwned'
    BY <1>1, <1>2, <2>1, <2>3 DEF HttpIInv, CallsOwned, OfSession
  <2> QED
    BY <1>2, <2>2, <2>4, <2>5, Silent DEF HttpIInv
<1>3. CASE /\ Ends(r) /\ answer' = [to |-> p, for |-> t] /\ UNCHANGED <<session, grant>>
  <2>1. HttpTypes' /\ RequestShape' /\ TokensOwned' /\ MarkedAlone' /\ CallsOwned'
    BY <1>1, <1>3, SameKeeps
  <2>2. Internet(p) => remote
    BY <1>1 DEF HttpIInv, CallsOwned, OfSession, Owns
  <2>3. AnswersOnlyLive'
    BY <1>1, <1>3, <2>2 DEF AnswersOnlyLive, Owns, Live
  <2> QED
    BY <2>1, <2>3 DEF HttpIInv
<1>4. CASE Ends(r) /\ Disconnect({t}) /\ answer' = NoAnswer
  BY <1>1, <1>4, FewerKeeps, Silent DEF HttpIInv
<1> QED
  BY <1>2, <1>3, <1>4 DEF Call

\* The wait is over: a session that is there is the one that asked.
LEMMA AnswerKeeps ==
  ASSUME HttpIInv, NEW r \in Requests, Answer(r)
  PROVE  HttpIInv'
<1> DEFINE t == request[r].token
           p == request[r].peer
<1>1. /\ request[r].at = "waiting" /\ Ends(r) /\ UNCHANGED <<remote, session, issuedTo, grant>>
      /\ answer' = IF StillAllowed(r) THEN [to |-> p, for |-> t] ELSE NoAnswer
  BY DEF Answer
<1>2. HttpTypes' /\ RequestShape' /\ TokensOwned' /\ MarkedAlone' /\ CallsOwned'
  BY <1>1, SameKeeps
<1>3. OfSession(r) /\ p \in Callers
  BY <1>1 DEF HttpIInv, RequestShape, OfSession, Calls
<1>4. ASSUME t \in Live PROVE Owns(p, t) /\ (Internet(p) => remote)
  BY <1>3, <1>4, HttpAccessAssumption DEF HttpIInv, CallsOwned, TokensOwned, Owns
<1>5. StillAllowed(r) => t \in Live
  BY DEF StillAllowed, OpensViewer, Owns
<1>6. AnswersOnlyLive'
  <2>1. CASE StillAllowed(r)
    BY <1>1, <1>4, <1>5, <2>1 DEF AnswersOnlyLive, Owns, Live
  <2>2. CASE ~StillAllowed(r)
    BY <1>1, <2>2, Silent
  <2> QED
    BY <2>1, <2>2
<1> QED
  BY <1>2, <1>6 DEF HttpIInv

\* Remote access goes off: the sessions from the internet end in the same turn.
LEMMA SwitchOffKeeps ==
  ASSUME HttpIInv, SwitchOff
  PROVE  HttpIInv'
<1>1. /\ remote' = FALSE /\ UNCHANGED <<issuedTo, request>> /\ answer' = NoAnswer
      /\ Disconnect(InternetSessions)
  BY DEF SwitchOff
<1>2. \A t \in Tokens : session'[t] = IF t \in Live /\ Internet(session[t].peer) THEN None ELSE session[t]
  BY <1>1 DEF Disconnect, Live, InternetSessions
<1>3. HttpTypes' /\ RequestShape'
  BY <1>1 DEF HttpIInv, HttpTypes, RequestShape, Disconnect
<1>4. TokensOwned' /\ MarkedAlone'
  BY <1>1, <1>2 DEF HttpIInv, TokensOwned, MarkedAlone, RequestShape, Live
<1>5. CallsOwned'
  <2> SUFFICES ASSUME NEW r \in Requests, OfSession(r)
               PROVE  /\ request[r].token \in Tokens /\ issuedTo[request[r].token] = request[r].peer
                      /\ ~(request[r].token \in Live' /\ Internet(request[r].peer))
    BY <1>1 DEF CallsOwned, OfSession, Internet
  <2>1. /\ request[r].token \in Tokens /\ issuedTo[request[r].token] = request[r].peer
        /\ request[r].peer \in Callers
    BY DEF HttpIInv, CallsOwned, RequestShape, OfSession
  <2>2. request[r].token \in Live => session[request[r].token].peer = request[r].peer
    BY <2>1, HttpAccessAssumption DEF HttpIInv, TokensOwned
  <2> QED
    BY <1>2, <2>1, <2>2 DEF Live
<1> QED
  BY <1>1, <1>3, <1>4, <1>5, Silent DEF HttpIInv

LEMMA NextHttp == HttpIInv /\ [AccessNext]_accessVars => HttpIInv'
<1> SUFFICES ASSUME HttpIInv, [AccessNext]_accessVars PROVE HttpIInv'
  OBVIOUS
<1>1. ASSUME NEW r \in Requests, Fail(r) PROVE HttpIInv'
  BY <1>1, SameKeeps, Silent DEF Fail, HttpIInv
<1>2. ASSUME NEW t \in Tokens, SessionOver(t) PROVE HttpIInv'
  <2>1. /\ session' = [u \in Tokens |-> IF u = t THEN None ELSE session[u]] /\ grant' = grant \ {t}
        /\ UNCHANGED <<remote, issuedTo, request>> /\ answer' = NoAnswer
    BY <1>2 DEF SessionOver, Disconnect
  <2>2. \A u \in Tokens : session'[u] = session[u] \/ session'[u] = None
    BY <2>1
  <2>3. HttpTypes' /\ RequestShape'
    BY <2>1 DEF HttpIInv, HttpTypes, RequestShape
  <2>4. TokensOwned' /\ MarkedAlone' /\ CallsOwned'
    BY <2>1, <2>2 DEF HttpIInv, TokensOwned, MarkedAlone, CallsOwned, OfSession, RequestShape, Live
  <2> QED
    BY <2>1, <2>3, <2>4, Silent DEF HttpIInv
<1>3. CASE SwitchOn \/ SetMode \/ SetNames
  <2>1. /\ UNCHANGED <<session, issuedTo, grant, request>> /\ answer' = NoAnswer
        /\ remote => remote'
    <3>1. CASE SwitchOn
      BY <3>1 DEF SwitchOn
    <3>2. CASE SetMode
      BY <3>2 DEF SetMode
    <3>3. CASE SetNames
      BY <3>3 DEF SetNames
    <3> QED
      BY <1>3, <3>1, <3>2, <3>3
  <2> QED
    BY <2>1, Silent DEF HttpIInv, HttpTypes, RequestShape, TokensOwned, MarkedAlone, CallsOwned,
                        OfSession, Live
<1>4. CASE UNCHANGED accessVars
  BY <1>4 DEF accessVars, HttpIInv, HttpTypes, RequestShape, TokensOwned, MarkedAlone, CallsOwned,
              OfSession, Live, AnswersOnlyLive, Owns
<1> QED
  BY <1>1, <1>2, <1>3, <1>4, ArriveKeeps, KeyStartKeeps, ProofKeeps, ProvedKeeps, MarkedKeeps,
     CallKeeps, AnswerKeeps, SwitchOffKeeps DEF AccessNext

\* What a session is sent after a wait goes to the device whose session is live at that moment, and
\* to the internet only while that is allowed, for any number of requests that wait, of devices and
\* of sessions that end meanwhile.
THEOREM AnsweredLive == AccessSpec => []AnswersOnlyLive
<1>1. HttpIInv => AnswersOnlyLive
  BY DEF HttpIInv
<1> QED
  BY <1>1, InitHttp, NextHttp, PTL DEF AccessSpec

-----------------------------------------------------------------------------
(* The policy.  Every edit is validated as a whole, so what is valid is all there is to know: that  *)
(* it is enough for a request that names no profile.                                               *)

\* A set of naturals has a least element.
LEMMA Least ==
  ASSUME NEW T \in SUBSET Nat, T # {}
  PROVE  \E x \in T : \A y \in T : x <= y
<1>1. PICK R : R = OpToRel(<, Nat)
  OBVIOUS
<1>2. IsWellFoundedOn(R, Nat)
  BY <1>1, NatLessThanWellFounded
<1>3. PICK x \in T : \A y \in T : ~(<<y, x>> \in R)
  BY <1>2, WFMin
<1>4. ASSUME NEW y \in T PROVE x <= y
  <2>1. <<y, x>> \in R <=> y < x
    BY <1>1 DEF OpToRel
  <2>. QED BY <1>3, <2>1
<1>. QED BY <1>4

\* In a valid policy an id is one profile's.
LEMMA IdsAreDistinct ==
  ASSUME NEW p, Valid(p)
  PROVE  /\ p.profiles \in Seq(UsableProfiles) /\ DOMAIN p.profiles = 1..Len(p.profiles)
         /\ \A i, j \in DOMAIN p.profiles : p.profiles[i].id = p.profiles[j].id => i = j
<1>1. PICK q : q = p.profiles
  OBVIOUS
<1>2. PICK n : n = Len(q)
  OBVIOUS
<1>3. q \in Seq(UsableProfiles) /\ n \in Nat /\ DOMAIN q = 1..n /\ Cardinality(ProfileIds(p)) = n
  BY <1>1, <1>2 DEF Valid
<1>4. PICK T : T = ProfileIds(p)
  OBVIOUS
<1>5. PICK f : f = [i \in 1..n |-> q[i].id]
  OBVIOUS
<1>6. T = {q[i].id : i \in 1..n}
  BY <1>1, <1>3, <1>4 DEF ProfileIds
<1>7. f \in Surjection(1..n, T)
  BY <1>5, <1>6 DEF Surjection
<1>8. IsFiniteSet(1..n) /\ Cardinality(1..n) = n
  BY <1>3, FS_Interval
<1>9. f \in Injection(1..n, T)
  BY <1>3, <1>4, <1>7, <1>8, FS_Surjection
<1>10. \A i, j \in 1..n : f[i] = f[j] => i = j
  BY <1>5, <1>9 DEF Injection, IsInjective
<1>. QED BY <1>1, <1>2, <1>3, <1>5, <1>10

LEMMA FirstIsEnabled ==
  ASSUME NEW p, Valid(p)
  PROVE  First(p) \in Enabled(p)
<1>1. PICK q : q = p.profiles
  OBVIOUS
<1>2. PICK n : n = Len(q)
  OBVIOUS
<1>3. n \in Nat /\ DOMAIN q = 1..n /\ Enabled(p) # {}
  BY <1>1, <1>2 DEF Valid
<1>4. PICK T : T = {i \in DOMAIN q : q[i].enabled}
  OBVIOUS
<1>5. T # {} /\ T \in SUBSET Nat
  BY <1>1, <1>3, <1>4 DEF Enabled
<1>6. PICK x \in T : \A y \in T : x <= y
  BY <1>5, Least
<1>7. x \in DOMAIN q /\ q[x].enabled /\ \A j \in 1..(x - 1) : ~q[j].enabled
  BY <1>3, <1>4, <1>6
<1>8. DEFINE c == CHOOSE i \in DOMAIN q : q[i].enabled /\ \A j \in 1..(i - 1) : ~q[j].enabled
<1>9. c \in DOMAIN q /\ q[c].enabled
  BY <1>7
<1>. QED BY <1>1, <1>9 DEF First, Enabled

LEMMA ValidResolves ==
  ASSUME Valid(policy)
  PROVE  AutoAlwaysResolves
<1>. SUFFICES ASSUME NEW d \in Shared, NEW phone \in BOOLEAN
              PROVE  Cardinality(Resolve(d, Automatic, phone)) = 1
  BY DEF AutoAlwaysResolves
<1>1. d \in Displays
  BY StreamPolicyAssumption DEF Shared
<1>2. /\ policy.default \in Enabled(policy) \cup {Automatic}
      /\ policy.displayDefault[d] \in Enabled(policy) \cup {Unset}
  BY <1>1 DEF Valid
<1>3. PICK chosen : chosen = AutoProfile(d, phone)
  OBVIOUS
<1>4. chosen \in Enabled(policy)
  BY <1>2, <1>3, FirstIsEnabled DEF AutoProfile
<1>5. PICK x \in DOMAIN policy.profiles : policy.profiles[x].enabled /\ policy.profiles[x].id = chosen
  BY <1>4 DEF Enabled
<1>6. Resolve(d, Automatic, phone) = {x}
  BY <1>3, <1>5, IdsAreDistinct DEF Resolve
<1>. QED BY <1>6, FS_Singleton

LEMMA DefaultIsValid == Valid(DefaultPolicy)
<1>1. PICK q : q = <<[id |-> PhoneId, enabled |-> TRUE, shape |-> Plain],
                     [id |-> DesktopId, enabled |-> TRUE, shape |-> Plain]>>
  OBVIOUS
<1>2. /\ DefaultPolicy.profiles = q /\ DefaultPolicy.default = Automatic
      /\ DefaultPolicy.displayDefault = [d \in Displays |-> Unset]
      /\ DefaultPolicy.options = Options
  BY <1>1 DEF DefaultPolicy
<1>3. Plain \in UsableShapes
  BY DEF Plain, UsableShapes, Sides
<1>4. PhoneId \in Ids /\ DesktopId \in Ids /\ PhoneId # DesktopId
  BY StreamPolicyAssumption
<1>5. /\ q \in Seq(UsableProfiles) /\ Len(q) = 2 /\ DOMAIN q = 1..2
      /\ q[1].id = PhoneId /\ q[2].id = DesktopId /\ q[1].enabled
  BY <1>1, <1>3, <1>4 DEF UsableProfiles
<1>6. ProfileIds(DefaultPolicy) = {PhoneId, DesktopId}
  BY <1>2, <1>5 DEF ProfileIds
<1>7. Cardinality(ProfileIds(DefaultPolicy)) = 2
  <2>1. IsFiniteSet({PhoneId}) /\ Cardinality({PhoneId}) = 1
    BY FS_Singleton
  <2>2. Cardinality({PhoneId} \cup {DesktopId}) = Cardinality({PhoneId}) + 1
    BY <1>4, <2>1, FS_AddElement
  <2>. QED BY <1>6, <2>1, <2>2
<1>8. PhoneId \in Enabled(DefaultPolicy)
  BY <1>2, <1>5 DEF Enabled
<1>. QED BY <1>2, <1>5, <1>7, <1>8, StreamPolicyAssumption DEF Valid

LEMMA PolicyStep ==
  ASSUME Valid(policy), [PolicyNext]_policy
  PROVE  Valid(policy)'
<1>1. policy' = policy \/ \E next : Edit(next)
  BY DEF PolicyNext, Share, DisplayDefault, DefaultProfile, NewProfile, EditProfile, Toggle, Duplicate,
         DropProfile, ClientMode, ChangeOptions
<1>2. CASE policy' = policy
  BY <1>2 DEF Valid, ProfileIds, Enabled
<1>3. ASSUME NEW next, Edit(next) PROVE Valid(policy)'
  <2>1. Valid(next) /\ policy' = next
    BY <1>3 DEF Edit
  <2>. QED BY <2>1 DEF Valid, ProfileIds, Enabled
<1>. QED BY <1>1, <1>2, <1>3

\* For any profiles, displays, screens and options, and whatever sequence of edits: a device that asks
\* for no profile gets exactly one on every shared display, through the display's default, the host's,
\* its own kind's or the first that is not hidden.
THEOREM EditsStayUsable == PolicySpec => []AutoAlwaysResolves
<1>1. PolicyInit => Valid(policy)
  BY DefaultIsValid DEF PolicyInit
<1>2. Valid(policy) /\ [PolicyNext]_policy => Valid(policy)'
  BY PolicyStep
<1>3. Valid(policy) => AutoAlwaysResolves
  BY ValidResolves
<1>. QED BY <1>1, <1>2, <1>3, PTL DEF PolicySpec

-----------------------------------------------------------------------------
(* The size of a stream.  Its sides are a ratio times the screen's, each rounded to an even number; *)
(* the ratio is chosen so that neither leaves the encoder's limits.                                 *)

\* A positive factor cancels.
LEMMA Cancel ==
  ASSUME NEW a \in Int, NEW b \in Int, NEW d \in Nat, d > 0, a * d < b * d
  PROVE  a < b
<1>1. ASSUME b <= a PROVE FALSE
  <2>1. b * d <= a * d
    BY <1>1
  <2>. QED BY <2>1
<1>. QED BY <1>1

\* A quotient, by what it is.
LEMMA Quotient ==
  ASSUME NEW n \in Nat, NEW d \in Nat, d > 0
  PROVE  /\ n \div d \in Nat
         /\ (n \div d) * d <= n /\ n < (n \div d) * d + d
  OBVIOUS

\* Rounding to an even number goes wrong by one at most, and does not leave the limits.
LEMMA EvenIsNear ==
  ASSUME NEW n \in Nat, NEW d \in Nat, d > 0, 64 * d <= n, n <= 4096 * d,
         NEW e, e = Smaller(4096, Even(n, d))
  PROVE  e \in Sides /\ n - d <= e * d /\ e * d <= n + d
<1>1. PICK q : q = (n + d) \div (2 * d)
  OBVIOUS
<1>2. PICK c : c = 2 * d
  OBVIOUS
<1>3. c \in Nat /\ c > 0 /\ n + d \in Nat
  BY <1>2
<1>4. q \in Nat /\ q * c <= n + d /\ n + d < q * c + c
  BY <1>1, <1>2, <1>3, Quotient
<1>5. q * c = (2 * q) * d
  BY <1>2, <1>4
<1>6. PICK x : x = 2 * q
  OBVIOUS
<1>7. x \in Nat /\ x * d <= n + d /\ n - d < x * d /\ x % 2 = 0
  BY <1>2, <1>4, <1>5, <1>6
<1>8. 63 < x
  <2>1. 63 * d < x * d
    BY <1>7
  <2>. QED BY <1>7, <2>1, Cancel
<1>9. x < 4098
  <2>1. x * d < 4098 * d
    BY <1>7
  <2>. QED BY <1>7, <2>1, Cancel
<1>10. x \in 64..4096
  BY <1>4, <1>6, <1>7, <1>8, <1>9
<1>11. Larger(2, x) = x /\ Smaller(4096, x) = x
  BY <1>10 DEF Larger, Smaller
<1>12. e = x
  BY <1>1, <1>6, <1>11 DEF Even
<1>13. x \in Sides
  BY <1>7, <1>10 DEF Sides
<1>. QED BY <1>3, <1>7, <1>12, <1>13

\* Two sides that are each near their exact length have nearly the screen's shape.
LEMMA NearShape ==
  ASSUME NEW w \in Nat, NEW h \in Nat, NEW x \in Nat, NEW y \in Nat, NEW n \in Nat, NEW d \in Nat, d > 0,
         w * n - d <= x * d, x * d <= w * n + d, h * n - d <= y * d, y * d <= h * n + d
  PROVE  x * h - y * w \in (0 - w - h)..(w + h)
<1>1. PICK off : off = x * h - y * w
  OBVIOUS
<1>2. off \in Int /\ off * d = (x * d) * h - (y * d) * w
  BY <1>1
<1>3. /\ (w * n - d) * h <= (x * d) * h /\ (x * d) * h <= (w * n + d) * h
      /\ (h * n - d) * w <= (y * d) * w /\ (y * d) * w <= (h * n + d) * w
  OBVIOUS
<1>4. /\ (w * n - d) * h = w * n * h - d * h /\ (w * n + d) * h = w * n * h + d * h
      /\ (h * n - d) * w = w * n * h - d * w /\ (h * n + d) * w = w * n * h + d * w
  OBVIOUS
<1>5. /\ off * d <= d * h + d * w
      /\ 0 - d * h - d * w <= off * d
  BY <1>2, <1>3, <1>4
<1>6. off * d < (w + h + 1) * d /\ (0 - w - h - 1) * d < off * d
  BY <1>2, <1>5
<1>7. off < w + h + 1
  BY <1>2, <1>6, Cancel
<1>8. 0 - w - h - 1 < off
  BY <1>2, <1>6, Cancel
<1>. QED BY <1>1, <1>2, <1>7, <1>8

\* The ratio the code ends with: the one asked for, or what takes the longer side down to the
\* largest the encoder takes, or the shorter one up to the smallest.
LEMMA SizeIsKept ==
  ASSUME NEW w \in Nat \ {0}, NEW h \in Nat \ {0}, Larger(w, h) <= 64 * Smaller(w, h),
         NEW s \in UsableShapes, ~(s.sizing = "fixed" /\ s.aspect # "keep"),
         NEW screen, screen = <<w, h>>, NEW size, size = OutputSize(s, screen)
  PROVE  /\ size[1] \in Sides /\ size[2] \in Sides
         /\ size[1] * h - size[2] * w \in (0 - w - h)..(w + h)
<1>1. PICK ratio : ratio = IF s.sizing = "height" THEN <<s.height, screen[2]>>
                           ELSE IF s.sizing = "width" THEN <<s.width, screen[1]>>
                           ELSE IF s.sizing = "scale" THEN <<s.percent, 100>>
                           ELSE IF s.width * screen[2] <= s.height * screen[1] THEN <<s.width, screen[1]>>
                           ELSE <<s.height, screen[2]>>
  OBVIOUS
<1>2. PICK r : r = ratio[1]
  OBVIOUS
<1>3. PICK v : v = ratio[2]
  OBVIOUS
<1>4. s.width \in Nat \ {0} /\ s.height \in Nat \ {0} /\ s.percent \in Nat \ {0}
  <2>1. s.width \in Sides /\ s.height \in Sides /\ s.percent \in 10..400
    BY DEF UsableShapes
  <2>2. ASSUME NEW n \in Sides PROVE n \in Nat \ {0}
    BY DEF Sides
  <2>3. ASSUME NEW n \in 10..400 PROVE n \in Nat \ {0}
    OBVIOUS
  <2>. QED BY <2>1, <2>2, <2>3
<1>5. r \in Nat \ {0} /\ v \in Nat \ {0}
  BY <1>1, <1>2, <1>3, <1>4
<1>6. PICK long : long = Larger(w, h)
  OBVIOUS
<1>7. PICK short : short = Smaller(w, h)
  OBVIOUS
<1>8. /\ long \in Nat \ {0} /\ short \in Nat \ {0} /\ short <= long /\ long <= 64 * short
      /\ w \in {long, short} /\ h \in {long, short} /\ short <= w /\ short <= h /\ w <= long /\ h <= long
  BY <1>6, <1>7 DEF Larger, Smaller
<1>. DEFINE K == IF long * r > 4096 * v THEN <<4096, long>>
                 ELSE IF short * r < 64 * v THEN <<64, short>> ELSE ratio
<1>. HIDE DEF K
<1>9. PICK k : k = K
  OBVIOUS
<1>. USE DEF K
<1>10. PICK n : n = k[1]
  OBVIOUS
<1>11. PICK d : d = k[2]
  OBVIOUS
<1>12. n \in Nat /\ d \in Nat \ {0} /\ long * n <= 4096 * d /\ 64 * d <= short * n
  <2>1. CASE long * r > 4096 * v
    BY <1>8, <1>9, <1>10, <1>11, <2>1
  <2>2. CASE ~(long * r > 4096 * v) /\ short * r < 64 * v
    BY <1>8, <1>9, <1>10, <1>11, <2>2
  <2>3. CASE ~(long * r > 4096 * v) /\ ~(short * r < 64 * v)
    BY <1>2, <1>3, <1>5, <1>8, <1>9, <1>10, <1>11, <2>3
  <2>. QED BY <2>1, <2>2, <2>3
<1>13. ASSUME NEW x \in {w, h} PROVE x * n \in Nat /\ 64 * d <= x * n /\ x * n <= 4096 * d
  <2>1. x \in Nat /\ short <= x /\ x <= long
    BY <1>8
  <2>2. short * n <= x * n /\ x * n <= long * n
    BY <1>8, <1>12, <2>1
  <2>. QED BY <1>8, <1>12, <2>1, <2>2
<1>14. size = <<Smaller(4096, Even(w * n, d)), Smaller(4096, Even(h * n, d))>>
  <2>1. screen[1] = w /\ screen[2] = h
    OBVIOUS
  <2>. QED BY <1>1, <1>2, <1>3, <1>6, <1>7, <1>9, <1>10, <1>11, <2>1 DEF OutputSize
<1>15. PICK x : x = Smaller(4096, Even(w * n, d))
  OBVIOUS
<1>16. PICK y : y = Smaller(4096, Even(h * n, d))
  OBVIOUS
<1>17. x \in Sides /\ w * n - d <= x * d /\ x * d <= w * n + d
  BY <1>12, <1>13, <1>15, EvenIsNear
<1>18. y \in Sides /\ h * n - d <= y * d /\ y * d <= h * n + d
  BY <1>12, <1>13, <1>16, EvenIsNear
<1>19. x * h - y * w \in (0 - w - h)..(w + h)
  <2>1. ASSUME NEW side \in Sides PROVE side \in Nat
    BY DEF Sides
  <2>2. x \in Nat /\ y \in Nat
    BY <1>17, <1>18, <2>1
  <2>3. w \in Nat /\ h \in Nat /\ d > 0
    BY <1>12
  <2>. QED BY <1>12, <1>17, <1>18, <2>2, <2>3, NearShape
<1>20. size[1] = x /\ size[2] = y
  BY <1>14, <1>15, <1>16
<1>. QED BY <1>17, <1>18, <1>19, <1>20

LEMMA ValidIsSized ==
  ASSUME Valid(policy)
  PROVE  SizeKeepsShape
<1>. SUFFICES ASSUME NEW i \in DOMAIN policy.profiles, NEW d \in Shared,
                     NEW s, s = policy.profiles[i].shape, NEW screen, screen = Screen[d],
                     NEW size, size = OutputSize(s, screen),
                     Larger(screen[1], screen[2]) <= 64 * Smaller(screen[1], screen[2])
              PROVE  /\ \A side \in {1, 2} : size[side] \in Sides
                     /\ \/ s.sizing = "fixed" /\ s.aspect # "keep"
                        \/ size[1] * screen[2] - size[2] * screen[1]
                             \in (0 - screen[1] - screen[2])..(screen[1] + screen[2])
  BY DEF SizeKeepsShape
<1>1. s \in UsableShapes
  <2>1. PICK q : q = policy.profiles
    OBVIOUS
  <2>2. q \in Seq(UsableProfiles) /\ i \in DOMAIN q
    BY <2>1 DEF Valid
  <2>3. q[i] \in UsableProfiles
    BY <2>2
  <2>. QED BY <2>1, <2>3 DEF UsableProfiles
<1>2. screen \in (Nat \ {0}) \X (Nat \ {0})
  BY StreamPolicyAssumption DEF Shared
<1>3. CASE s.sizing = "fixed" /\ s.aspect # "keep"
  <2>1. size = <<s.width, s.height>>
    BY <1>3 DEF OutputSize
  <2>2. s.width \in Sides /\ s.height \in Sides
    BY <1>1 DEF UsableShapes
  <2>. QED BY <1>3, <2>1, <2>2
<1>4. CASE ~(s.sizing = "fixed" /\ s.aspect # "keep")
  <2>1. PICK w \in Nat \ {0}, h \in Nat \ {0} : screen = <<w, h>>
    BY <1>2
  <2>2. screen[1] = w /\ screen[2] = h
    BY <2>1
  <2>3. /\ size[1] \in Sides /\ size[2] \in Sides
        /\ size[1] * h - size[2] * w \in (0 - w - h)..(w + h)
    BY <1>1, <1>4, <2>1, <2>2, SizeIsKept
  <2>. QED BY <2>2, <2>3
<1>. QED BY <1>3, <1>4

\* For any profiles, screens and edits: whatever the owner asks for, a shared screen is streamed at a
\* size the encoder takes and in the screen's own shape (up to a pixel on each side), unless the owner
\* chose bars or stretching.
THEOREM SizesFit == PolicySpec => []SizeKeepsShape
<1>1. PolicyInit => Valid(policy)
  BY DefaultIsValid DEF PolicyInit
<1>2. Valid(policy) /\ [PolicyNext]_policy => Valid(policy)'
  BY PolicyStep
<1>3. Valid(policy) => SizeKeepsShape
  BY ValidIsSized
<1>. QED BY <1>1, <1>2, <1>3, PTL DEF PolicySpec


=============================================================================
