---------------------------- MODULE AudioTimeline ----------------------------
(***************************************************************************)
(* Timestamps for audio that arrives in bursts: each chunk follows on from *)
(* the last by its own length, and the timeline is set again from the      *)
(* clock when it has drifted further than a burst can explain.             *)
(* The integer divisions are the code's, on a coarser clock.               *)
(***************************************************************************)
EXTENDS Integers

CONSTANTS
  Second,  \* clock ticks of a second
  Rate,    \* samples of a second
  Drift,
  Chunks,  \* lengths of chunks, in samples
  Horizon  \* bound on the clock

ASSUME TimelineAssumption ==
  Rate \in Nat \ {0} /\ Second \in Nat /\ Drift \in Nat /\ Chunks \subseteq Nat

VARIABLES
  now,
  line,    \* the timeline: its origin, the samples since, where the next chunk goes
  last     \* the last chunk: its stamp, its length, when it was read

timelineVars == <<now, line, last>>

NotStarted == [started |-> FALSE, origin |-> 0, samples |-> 0, next |-> 0]

TimelineInit ==
  now = 0 /\ line = NotStarted /\ last = [pts |-> 0, length |-> 0, at |-> 0, discont |-> FALSE]

Far(l) == ~l.started \/ l.next - now > Drift \/ now - l.next > Drift

\* The timeline set from the clock: the chunk ended about now.
Anew(length) ==
  LET start == IF now > length THEN now - length ELSE 0
  IN [started |-> TRUE, origin |-> start, samples |-> 0, next |-> start]

\* Mutant: each length is added to the last stamp, with its rounding.
AdvancedM(l, samples) ==
  [l EXCEPT !.samples = @ + samples, !.next = @ + (samples * Second) \div Rate]

\* From the sample count, not by adding rounded durations.
Advanced(l, samples) ==
  [l EXCEPT !.samples = @ + samples, !.next = l.origin + ((l.samples + samples) * Second) \div Rate]

\* next: a chunk of `samples` samples is read.
Chunk(samples) ==
  LET length == (samples * Second) \div Rate
      set == IF Far(line) THEN Anew(length) ELSE line
  IN /\ line' = Advanced(set, samples)
     /\ last' = [pts |-> set.next, length |-> length, at |-> now,
                 discont |-> Far(line) /\ line.started]
     /\ UNCHANGED now

\* reset.
Reset == line' = [line EXCEPT !.started = FALSE] /\ UNCHANGED <<now, last>>

ClockTicks ==
  /\ now < Horizon
  /\ now' = now + 1
  /\ UNCHANGED <<line, last>>

TimelineNext == (\E n \in Chunks : Chunk(n)) \/ Reset \/ ClockTicks

TimelineSpec == TimelineInit /\ [][TimelineNext]_timelineVars

-----------------------------------------------------------------------------

\* A chunk is stamped within the drift of its arrival (or a chunk's length before it), and the
\* timeline is where its samples put it, to the rounding of one division, however many chunks
\* were added since it was set: it never wanders.
NeverWanders ==
  /\ line.started =>
       \E r \in 0..(Rate - 1) : (line.next - line.origin) * Rate + r = line.samples * Second
  /\ last.at - last.pts <= IF last.length > Drift THEN last.length ELSE Drift
  /\ last.pts - last.at <= Drift

=============================================================================
