------------------------------ MODULE LatencyCodes ------------------------------
(***************************************************************************)
(* What a latency measurement reads off a frame and reports                *)
(* (viewer/latency-probe.js, latency-results.mjs): the probe page paints   *)
(* the host's time and the pointer's position as cells with a check, the   *)
(* viewer reads them between two references and takes the host's full      *)
(* time from its own clock; the timings it sums up and what it measured of *)
(* its clock are checked by the server, field by field.  The rest of a     *)
(* report (counters, sizes, the receiver's numbers, the browser's name) is *)
(* left out.                                                               *)
(*                                                                         *)
(* A state is one frame: what is painted, the cell that video compression  *)
(* has changed and the contrast it left.  The time goes on, the rest       *)
(* stays.  Widths are constants: 4 bytes of 8 bits for the time, 3 of 4    *)
(* for the position.  Timings and offsets count in twentieths of a         *)
(* millisecond, clocks in milliseconds.                                    *)
(***************************************************************************)
EXTENDS Integers, Sequences, FiniteSets

CONSTANTS
  Parts, Width,   \* bytes of a code and their bits
  Mask,           \* what a check is XORed with
  Unread,
  Contrast,       \* the least that can be read (48)
  Contrasts,      \* pairs of lumas that black and white are seen as
  Lumas,          \* what the changed cell is seen as
  MaxMs,          \* the longest timing
  MaxTimings,     \* the most timings summed up (1000)
  Timings,        \* the timings there may be; NotFinite is one
  NotFinite,
  FirstTimes, LastTime,   \* the host's clock at the first frame and at the last
  Skews,          \* how far the viewer's clock may be ahead of it
  MaxOffset,      \* the largest offset of a clock the server takes (a day)
  Trips,          \* halves of the shortest round trip of the clock check
  Pointers        \* where the pointer may be at the first frame

VARIABLES
  painted,   \* the host's clock
  skew,      \* the viewer's clock less the host's
  seen,      \* the lumas of black and white
  changed,   \* the changed cell and its luma
  pointer,   \* its position, in halves of a step; it may be off either edge
  sampled    \* timings of one kind

codeVars == <<painted, skew, seen, changed, pointer, sampled>>

Bits == Parts * Width

\* Powers of two.
Power[n \in 0..Bits] == IF n = 0 THEN 1 ELSE 2 * Power[n - 1]

Wrap == Power[Bits]
Steps == Wrap - 1

ASSUME CodeAssumption ==
  /\ Parts \in Nat \ {0} /\ Width \in Nat \ {0} /\ Mask \in Nat
  /\ MaxMs \in Nat /\ MaxMs % 2 = 0 /\ MaxTimings \in Nat \ {0}
  /\ Timings \subseteq Int \cup {NotFinite}
  /\ FirstTimes \subseteq Nat /\ Pointers \subseteq Int
  /\ Skews \subseteq (0 - Wrap \div 2)..(Wrap \div 2 - 1)
  /\ MaxOffset \in Nat
  /\ Trips \subseteq 0..MaxMs   \* a call ends after 20 s (app.js), MaxMs is a minute

\* Cells of a code, the four references (black, white, white, black) first.
References == 1..4
Cells == 1..(4 + Bits + Width)

-----------------------------------------------------------------------------
(* The codes. *)

Bit(value, i) == (value \div Power[i]) % 2

\* The bytes whose bit i is set.
Ones(value, i) == {j \in 0..(Parts - 1) : Bit(value, j * Width + i) = 1}

\* One bit of the check: that of all bytes and the mask.
Check(value, i) == (Bit(Mask, i) + Cardinality(Ones(value, i))) % 2

Encode(value) ==
  [i \in 1..(Bits + Width) |-> IF i <= Bits THEN Bit(value, Bits - i) ELSE Check(value, Bits + Width - i)]

\* Mutant: the check is not compared.
AgreesM(bits, value) == TRUE

Agrees(bits, value) == \A i \in 1..Width : bits[Bits + i] = Check(value, Width - i)

\* The number whose bits begin the code.
Number(bits) ==
  LET read[k \in 0..Bits] == IF k = 0 THEN 0 ELSE 2 * read[k - 1] + bits[k]
  IN read[Bits]

Decode(bits) ==
  IF (\A i \in DOMAIN bits : bits[i] \in {0, 1}) /\ Agrees(bits, Number(bits)) THEN Number(bits)
  ELSE Unread

EncodeTimestamp(ms) == Encode(ms % Wrap)

\* Mutant: rounded down.
UnwrapM(low, now) == low + ((now - low) \div Wrap) * Wrap

\* The full time nearest to the viewer's clock.
Unwrap(low, now) == low + ((2 * (now - low) + Wrap) \div (2 * Wrap)) * Wrap

\* A position in halves of a step: it is kept on the screen and rounded to a step.
Position(half) == ((IF half < 0 THEN 0 ELSE IF half > 2 * Steps THEN 2 * Steps ELSE half) + 1) \div 2

-----------------------------------------------------------------------------
(* Reading a frame. *)

\* Black, white, or neither, by the references; sums of two lumas on either side.
Classify(luma, black, white) ==
  LET range == white - black
      level == 2 * luma - black
  IN IF range < 2 * Contrast THEN Unread
     ELSE IF 10 * level < 3 * range THEN 0
     ELSE IF 10 * level > 7 * range THEN 1
     ELSE Unread

\* The luma each cell is seen with.
Luma(bits) ==
  [c \in Cells |->
     IF c = changed.cell THEN changed.luma
     ELSE LET bit == IF c \in References THEN (IF c \in {2, 3} THEN 1 ELSE 0) ELSE bits[c - 4]
          IN IF bit = 1 THEN seen.white ELSE seen.black]

ReadFrame(luma) ==
  LET black == luma[1] + luma[4]
      white == luma[2] + luma[3]
      read == [c \in Cells |-> Classify(luma[c], black, white)]
  IN IF read[1] = 0 /\ read[4] = 0 /\ read[2] = 1 /\ read[3] = 1
     THEN Decode([i \in 1..(Bits + Width) |-> read[i + 4]])
     ELSE Unread

-----------------------------------------------------------------------------
(* Summing up. *)

Round(value) == ((value + 1) \div 2) * 2

\* Mutant: timings over the limit are kept.
FitsM(value, minimum) == value # NotFinite /\ value >= minimum

Fits(value, minimum) == value # NotFinite /\ value >= minimum /\ value <= MaxMs

\* Where the first MaxTimings are that the server would not refuse.
Fitting(values, minimum, i) == {j \in 1..i : Fits(values[j], minimum)}
Kept(values, minimum) ==
  {i \in DOMAIN values : Fits(values[i], minimum) /\ Cardinality(Fitting(values, minimum, i)) <= MaxTimings}

\* The k-th by size of those at `kept`.
Ranked(values, kept, k) ==
  CHOOSE v \in {values[i] : i \in kept} :
    /\ Cardinality({i \in kept : values[i] < v}) < k
    /\ k <= Cardinality({i \in kept : values[i] <= v})

Summarize(values, kept) ==
  LET n == Cardinality(kept)
      Rank(percent) == Ranked(values, kept, (percent * n + 99) \div 100)
  IN IF n = 0 THEN [count |-> 0]
     ELSE [count |-> n, min |-> Round(Ranked(values, kept, 1)), median |-> Round(Rank(50)),
           p95 |-> Round(Rank(95)), max |-> Round(Ranked(values, kept, n))]

Within(values, minimum) == Summarize(values, Kept(values, minimum))

\* buildResults: no timing is negative, but for the difference of two clocks.
Minimums == {0, 0 - MaxMs}

\* The server's check of a timing.
Taken(timing, minimum) ==
  \/ timing = [count |-> 0]
  \/ /\ timing.count \in 0..MaxTimings
     /\ \A field \in {"min", "median", "p95", "max"} : timing[field] \in minimum..MaxMs

\* checkClock: the host's clock against the middle of a round trip, when the host read it e away
\* from that middle.
Offset(e) == 20 * (0 - skew) + e

\* buildResults: the offset goes out as it was measured; half the round trip is its uncertainty.
ClockOf(trip, e) == [offset |-> Round(Offset(e)), uncertainty |-> Round(trip)]

OffsetsTaken == (0 - 20 * MaxOffset)..(20 * MaxOffset)

\* Mutant: the limit itself is refused.
ClockTakenM(clock) ==
  clock.offset \in OffsetsTaken \ {0 - 20 * MaxOffset, 20 * MaxOffset} /\ clock.uncertainty \in 0..MaxMs

\* The server's check of the clock: one that is off by more than a day makes the report invalid.
ClockTaken(clock) == clock.offset \in OffsetsTaken /\ clock.uncertainty \in 0..MaxMs

-----------------------------------------------------------------------------
CodeInit ==
  /\ painted \in FirstTimes
  /\ skew \in Skews
  /\ seen \in Contrasts
  /\ changed \in [cell : Cells, luma : Lumas]
  /\ pointer \in Pointers
  /\ sampled = <<>>

\* The timings kept: once a reservoir is full, a new one takes the place of another; the plain lists
\* (a trial's, a stroke's) have no limit, so one more than it is kept here.
Sampled(t) == IF Len(sampled) <= MaxTimings THEN Append(sampled, t) ELSE Tail(sampled)

\* The next frame: the time, the pointer, and what was timed.
NextFrame ==
  /\ painted < LastTime
  /\ painted' = painted + 1 /\ pointer' = pointer + 1
  /\ \E t \in Timings : sampled' = Sampled(t)
  /\ UNCHANGED <<skew, seen, changed>>

CodeSpec == CodeInit /\ [][NextFrame]_codeVars

-----------------------------------------------------------------------------
(* Properties. *)

\* One changed cell, a reference or any other, never makes the viewer read another time or another
\* position than was painted, and the full time is right over the wrap of the code, for a viewer's
\* clock that is wrong by up to half of it.
FramesReadTrue ==
  LET time == ReadFrame(Luma(EncodeTimestamp(painted)))
      place == ReadFrame(Luma(Encode(Position(pointer))))
  IN /\ time # Unread => Unwrap(time, painted + skew) = painted
     /\ place # Unread => place = Position(pointer) /\ place \in 0..Steps

\* What the viewer sums up, whatever it timed, is what the server takes, and in order.
TimingsAreTaken ==
  \A minimum \in Minimums :
    LET timing == Within(sampled, minimum)
    IN /\ Taken(timing, minimum)
       /\ timing.count > 0 => timing.min <= timing.median /\ timing.median <= timing.p95 /\ timing.p95 <= timing.max

\* So is what it measured of its clock, when that is a day at most: rounding takes it no further.
ClocksAreTaken ==
  \A trip \in Trips : \A e \in (0 - trip)..trip :
    Offset(e) \in OffsetsTaken => ClockTaken(ClockOf(trip, e))

\* The timings and the clock of a viewer's report are what the server takes, unless its clock is
\* off by more than a day.
ReportsAreTaken == TimingsAreTaken /\ ClocksAreTaken

\* What is read off a frame is what was painted, and what a viewer reports of its timings and of a
\* clock that is right to a day the server takes.
CodesHold == FramesReadTrue /\ ReportsAreTaken

=============================================================================
