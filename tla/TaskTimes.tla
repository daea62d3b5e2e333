------------------------------ MODULE TaskTimes ------------------------------
(***************************************************************************)
(* task_times: the execution times of tasks, kept for the task paths of    *)
(* one level.  A time comes as a whole number of nanoseconds and is halved *)
(* as one; what is kept is a float, so every conversion, addition and      *)
(* subtraction rounds.  The floats met here are whole numbers.             *)
(***************************************************************************)
EXTENDS Integers, Sequences, FiniteSetsExt, SequencesExt

CONSTANTS
  TRACKING_LEVEL,  \* 14 in the code
  Mantissa         \* the bits of a float's significand: 24

ASSUME TrackingAssumption == TRACKING_LEVEL \in Nat /\ Mantissa \in Nat \ {0}

Tracked == [1..TRACKING_LEVEL -> {0, 1}]

NoTimes == [q \in Tracked |-> 0]

\* The distance between neighbouring floats at x: the least power of two that
\* reaches beyond x in 2^Mantissa steps.
Ulp(x) ==
  2^(CHOOSE k \in 0 .. x : x < 2^(k + Mantissa) /\ (k = 0 \/ x >= 2^((k - 1) + Mantissa)))

\* x as a float: the nearest one, of two equally near ones the even one.
Float(x) ==
  LET u    == Ulp(x)
      down == 2 * (x % u) < u \/ (2 * (x % u) = u /\ (x \div u) % 2 = 0)
  IN u * (IF down THEN x \div u ELSE x \div u + 1)

\* Mutant of Share: both children get the half that is rounded down.
Share_RoundsDown(p, q, t) ==
  FoldLeft(LAMBDA rest, turn : rest \div 2,
           t, SubSeq(q, Len(p) + 1, TRACKING_LEVEL))

\* What the tracked path q gets of a time t of a task at path p above it: each
\* step down gives the left child half, rounded down, and the right the rest.
Share(p, q, t) ==
  FoldLeft(LAMBDA rest, turn : IF turn = 0 THEN rest \div 2 ELSE rest - rest \div 2,
           t, SubSeq(q, Len(p) + 1, TRACKING_LEVEL))

\* add: keep it, split it, or count it for the tracked ancestor.  The share is
\* made a float, and so is the sum.
add(times, p, t) ==
  LET plus(time, share) == Float(time + Float(share))
  IN [q \in Tracked |->
       IF Len(p) <= TRACKING_LEVEL
       THEN IF IsPrefix(p, q) THEN plus(times[q], Share(p, q, t)) ELSE times[q]
       ELSE IF q = SubSeq(p, 1, TRACKING_LEVEL) THEN plus(times[q], t) ELSE times[q]]

\* operator-, of times that have not decreased.
Minus(times, other) == [q \in Tracked |-> Float(times[q] - other[q])]
==============================================================================
