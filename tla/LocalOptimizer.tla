--------------------------- MODULE LocalOptimizer ---------------------------
(***************************************************************************)
(* The local optimizer (localoptimizer.cpp) and the part of the component  *)
(* scheduler that drives it (optimize_locally): every root work item of a  *)
(* locality measures the objectives when more than a millisecond has       *)
(* passed since the last measurement, and lets the optimizer make a step   *)
(* when more than five have passed since the last step, as long as not all *)
(* objectives have converged.  The objectives are optimized one after the  *)
(* other, by decreasing priority, with one Nelder-Mead search.             *)
(*                                                                         *)
(* The number of active threads never changes (the calls that suspend and  *)
(* resume threads are commented out), so it is the constant MaxThreads.    *)
(***************************************************************************)
EXTENDS Integers, Sequences, FiniteSets

CONSTANTS
  MaxThreads,     \* os_thread_count: max_threads_, active_threads, threads_param_
  Frequencies,    \* the number of frequencies of the processor
  Types, Leeway,  \* per objective, by priority: its type; its leeway in percent
  Values,         \* per objective: what the monitor or the power meter may report
  Gaps,           \* milliseconds between two root work items
  Limits,         \* what the overrun in initialize_simplex leaves as upper limit of the threads
  Word,           \* 2^32 in the code: unsigned int wraps around
  MAXITERATIONS

ASSUME OptimizerAssumption ==
  /\ MaxThreads \in Nat \ {0} /\ Frequencies \in Nat \ {0} /\ MAXITERATIONS \in Nat
  /\ Types \in Seq({"time", "energy", "resource"}) /\ Types # <<>>
  /\ Leeway \in Seq(0 .. 100) /\ Len(Leeway) = Len(Types)
  /\ Values \in [DOMAIN Types -> SUBSET Nat] /\ Gaps \subseteq Nat /\ Limits \subseteq Nat
  /\ Word \in Nat /\ Word > 2 * MaxThreads /\ Word > 2 * Frequencies

VARIABLES
  policy,      \* optmethod_
  objectives,  \* objectives_, by priority
  current,     \* current_objective_idx_ + 1
  steps,       \* steps_, up to the end of the warm-up
  converged,   \* converged_
  nmd,         \* the search
  frequency,   \* frequency_param_
  hardware,    \* index of the frequency the cores run at
  measured,    \* milliseconds since the last measurement, up to OptimizationPeriod + 1
  optimized    \* the same since the last step

vars == <<policy, objectives, current, steps, converged, nmd, frequency, hardware, measured, optimized>>

NM == INSTANCE NelderMead WITH MaxFrequency <- Frequencies

MeasurementPeriod == 1
OptimizationPeriod == 5

\* Mutant of warmup_steps: one step short.
warmup_steps_two == 2

warmup_steps == 3
Objectives == DOMAIN Types
Unchanged == -1

Wrap(x) == x % Word
ToInt(x) == IF x >= Word \div 2 THEN x - Word ELSE x

Min3(a, b) == IF a < b THEN a ELSE b

-----------------------------------------------------------------------------
(* Of the samples only what is still going to be read is kept. first: the  *)
(* three oldest, as values and frequencies, until a search has been        *)
(* initialised from them; taken: how many there have been, up to three;    *)
(* last: the newest one of the current objective, the two newest of those  *)
(* of higher priority; globalmax is read for those of higher priority.     *)

Blank == [first |-> <<>>, taken |-> 0, last |-> <<>>, globalmax |-> 0, initialized |-> FALSE,
          converged_minimum |-> 0, minimization_params |-> <<0, 0>>]

Init ==
  /\ policy \in {"allscale", "random", "manual"}
  /\ objectives = [k \in Objectives |-> Blank]
  /\ current = 1 /\ steps = 0 /\ converged = FALSE
  /\ nmd = NM!Fresh
  /\ frequency = 0 /\ hardware = 0
  /\ measured = 0 /\ optimized = 0

Sample(o, k, value) ==
  [o EXCEPT !.first = IF Len(@) < 3 /\ ~o.initialized THEN Append(@, <<value, frequency>>) ELSE @,
            !.taken = Min3(@ + 1, 3),
            !.last = IF k > current THEN @ ELSE IF @ = <<>> \/ k = Len(Types) THEN <<value>> ELSE <<value, Head(@)>>,
            !.globalmax = IF value > @ /\ k < Len(Types) THEN value ELSE @]

\* Every objective gets a sample: the number of threads for the resource
\* objective, what was measured for the others.  Only the allscale policy
\* reads samples, and only with it are they kept here.
Measurable(k) == IF Types[k] = "resource" THEN {MaxThreads} ELSE Values[k]

measureObjective(objs) ==
  IF policy # "allscale" THEN {objs} ELSE
  {[k \in Objectives |-> Sample(objs[k], k, sample[k])] :
     sample \in {s \in [Objectives -> UNION {Measurable(k) : k \in Objectives}] :
                   \A k \in Objectives : s[k] \in Measurable(k)}}

-----------------------------------------------------------------------------
(* step: the new state of the optimizer with the actuation it asks for, as *)
(* a set where the code draws a random number or divides by zero.          *)
State(objs, cur, nm, threads, freq) ==
  [objectives |-> objs, current |-> cur, nmd |-> nm, threads |-> Wrap(threads), frequency_idx |-> Wrap(freq)]

RandomStep(objs) ==
  {State(objs, current, nmd, r - MaxThreads, IF i = frequency THEN Unchanged ELSE i) :
     r \in 0 .. MaxThreads - 1, i \in 0 .. Frequencies - 1}

WarmUp(objs) ==
  {State(objs, current, nmd, r, i) : r \in 0 .. MaxThreads - 1, i \in 0 .. Frequencies - 1}

\* The search for the current objective, initialised from the oldest samples
\* on its first step.  Its state_ is not reset; vh has any value before the
\* first use.
Searching(o) ==
  LET Params(j) == <<MaxThreads, o.first[j][2]>>
      Value(j)  == o.first[j][1]
  IN
  IF o.initialized THEN {nmd}
  ELSE {NM!initialize_simplex([nmd EXCEPT !.vh = vh], NM!Each(Params), NM!Each(Value), limit) :
          vh \in IF nmd.vh = NM!Uninitialised THEN NM!Rows ELSE {nmd.vh}, limit \in Limits}

\* A hundred times the value beyond which an objective has left its leeway.
max_leeway_value(o, k) == 100 * o.converged_minimum + Leeway[k] * (o.globalmax - o.converged_minimum)

OffLeeway(objs, k) ==
  /\ k < current
  /\ \A i \in 1 .. 2 : 100 * objs[k].last[i] > max_leeway_value(objs[k], k)

\* The parameter of the minimum, scaled to the leeway.  A conversion of an
\* infinite value gives 0 or, on another target, the largest number.
Scaled(x, o, k) ==
  IF o.converged_minimum = 0 THEN {0, Word - 1}
  ELSE {(x * max_leeway_value(o, k)) \div (100 * o.converged_minimum)}

Settle(o, nm) == [o EXCEPT !.converged_minimum = nm.min,
                           !.minimization_params = <<nm.v[nm.vs][1] \div 4, nm.v[nm.vs][2] \div 4>>]

AllscaleStep(objs) ==
  UNION {
    LET now == [objs EXCEPT ![current].initialized = TRUE, ![current].first = <<>>]
        settled == [now EXCEPT ![current] = Settle(@, nm)]
        off == {k \in Objectives : OffLeeway(objs, k)}
        first_off == CHOOSE k \in off : \A j \in off : k <= j
        o   == objs[first_off]
    IN  IF nm.converged
          THEN {State(settled, current + 1, nm, nm.v[nm.vs][1] \div 4, nm.v[nm.vs][2] \div 4)}
        ELSE IF off # {}
          THEN {State(settled, current + 1, nm, t, i) :
                  t \in Scaled(o.minimization_params[1], o, first_off),
                  i \in Scaled(o.minimization_params[2], o, first_off)}
        ELSE IF nm.try = <<>>
          THEN {State(now, current, nm, MaxThreads, Unchanged)}
          ELSE {State(now, current, nm, nm.try[1] \div 4, nm.try[2] \div 4)}
    : nm \in UNION {NM!step(search, Head(objs[current].last)) : search \in Searching(objs[current])}}

step(objs) ==
  CASE policy = "random" -> RandomStep(objs)
    [] policy = "manual" -> {State(objs, current, nmd, MaxThreads, frequency)}
    [] policy = "allscale" /\ steps + 1 < warmup_steps -> WarmUp(objs)
    [] OTHER -> AllscaleStep(objs)

-----------------------------------------------------------------------------
(* optimize_locally.                                                       *)

\* fix_allcores_frequencies: the index is brought within the system's limits.
fix_allcores_frequencies(idx) ==
  IF ToInt(idx) < 0 THEN 0 ELSE IF ToInt(idx) > Frequencies - 1 THEN Frequencies - 1 ELSE ToInt(idx)

\* An actuation of fewer threads than are active is dropped, with its
\* frequency; so is one of as many.
Actuate(act) ==
  IF act.threads > MaxThreads
    THEN /\ hardware' = fix_allcores_frequencies(act.frequency_idx)
         /\ frequency' = act.frequency_idx
    ELSE UNCHANGED <<hardware, frequency>>

Later(clock, gap) == Min3(clock + gap, OptimizationPeriod + 1)

optimize_locally(gap) ==
  /\ ~converged
  /\ \E objs \in IF Later(measured, gap) > MeasurementPeriod THEN measureObjective(objectives) ELSE {objectives} :
       IF Later(optimized, gap) > OptimizationPeriod
         THEN /\ optimized' = 0
              /\ steps' = Min3(steps + 1, warmup_steps)
              /\ \E act \in step(objs) :
                   /\ objectives' = act.objectives /\ current' = act.current /\ nmd' = act.nmd
                   /\ converged' = (act.current > Len(Types))
                   /\ Actuate(act)
         ELSE /\ optimized' = Later(optimized, gap)
              /\ objectives' = objs
              /\ UNCHANGED <<current, steps, converged, nmd, frequency, hardware>>
  /\ measured' = IF Later(measured, gap) > MeasurementPeriod THEN 0 ELSE Later(measured, gap)
  /\ UNCHANGED policy

Next == \E gap \in Gaps : optimize_locally(gap)

Spec == Init /\ [][Next]_vars

\* The program goes on scheduling root work items: this is WF_vars(Next), as
\* Next is enabled until all objectives have converged and every change of
\* vars is a step of Next.
Fairness == []<>converged \/ []<><<TRUE>>_vars

FairSpec == Spec /\ Fairness

-----------------------------------------------------------------------------
(* Properties.                                                             *)

\* The step that ends the warm-up finds the three samples a simplex is made of,
\* of every objective: the periods of measurements and of steps are tested
\* separately, a sample may come with the step itself, and with fewer than
\* three the code reads before the beginning of a vector.
EnoughSamples ==
  \A gap \in Gaps :
    (policy = "allscale" /\ Later(optimized, gap) > OptimizationPeriod /\ steps + 1 >= warmup_steps) =>
      \A k \in Objectives :
        objectives[k].taken + (IF Later(measured, gap) > MeasurementPeriod THEN 1 ELSE 0) >= Cardinality(NM!Rows)

\* While the first objective is searched for, the best value of the simplex
\* never gets worse.
Best == nmd.f[NM!vs_index(nmd.f)]
BestKept ==
  [][(objectives[1].initialized /\ current = 1 /\ current' = 1) => Best' <= Best]_vars

\* With the default policy all objectives converge.
AllConverge == policy = "allscale" ~> converged

\* The warm-up collects "at least 3 different vertices to be used as input to
\* the optimizer".
DifferentVertices ==
  \A k \in Objectives : Len(objectives[k].first) = 3 =>
     Cardinality({objectives[k].first[i][2] : i \in 1 .. 3}) > 1
=============================================================================
