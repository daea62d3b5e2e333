------------------------------ MODULE MCMonitor ------------------------------
EXTENDS Monitor

\* A task that is split at rank 1, one below it and below the tracked level, and
\* one of another root, above that level; the latter two are processed at rank 0.
\* With significands of three bits 5 is split exactly and 11 is rounded, and so
\* are the sum and differences of both.
TheItems == {"coarse", "fine", "split"}
ThePlace == [i \in TheItems |-> IF i = "split" THEN 1 ELSE 0]
ThePath == [i \in TheItems |-> IF i = "fine" THEN <<0, 1>> ELSE <<>>]
OneSample == [r \in Ranks |-> IF r = 0 THEN 1 ELSE 0]
TheTime == [i \in TheItems |-> CASE i = "coarse" -> 5 [] i = "fine" -> 11 [] OTHER -> 1]
==============================================================================
