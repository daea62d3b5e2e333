----------------------------- MODULE NelderMead -----------------------------
(***************************************************************************)
(* The Nelder-Mead search of the local optimizer (nmsimplex_bbincr.cpp):   *)
(* it is driven from outside, one call of step per measured value, and     *)
(* keeps where it is in state_.  Its vertices are pairs of a number of     *)
(* threads and an index of a frequency.                                    *)
(*                                                                         *)
(* All coordinates are multiples of a quarter and are kept in quarters:    *)
(* vertices are integers, the centroid has halves, a contraction quarters. *)
(* Values of the objective are natural numbers.                            *)
(***************************************************************************)
EXTENDS Integers

CONSTANTS
  MAXITERATIONS,  \* iterations of one search (15 in the code)
  MaxFrequency    \* the upper constraint of the frequency index

Rows == 1 .. 3    \* n = 2 dimensions, n + 1 vertices, numbered from 1 here

Quarters(p) == <<4 * p[1], 4 * p[2]>>
Each(F(_)) == <<F(1), F(2), F(3)>>     \* per vertex
Both(F(_)) == <<F(1), F(2)>>           \* per coordinate

\* vg_index and vs_index: the first of the largest and of the smallest values.
FirstMax(f, js) == CHOOSE j \in js : \A k \in js : f[k] < f[j] \/ (f[k] = f[j] /\ j <= k)
vg_index(f) == FirstMax(f, Rows)
vs_index(f) == CHOOSE j \in Rows : \A k \in Rows : f[k] > f[j] \/ (f[k] = f[j] /\ j <= k)

\* vh_index starts from where the last search for the second largest ended,
\* and stays there unless a value lies between that one and the largest.
vh_index(f, vh, vg) ==
  LET between == {j \in Rows : f[j] > f[vh] /\ f[j] < f[vg]}
  IN  IF between = {} THEN vh ELSE FirstMax(f, between)

\* A coordinate outside its limits becomes the middle of them; then it is
\* rounded, halves away from zero.
Rounded(x) == ((x + 2) \div 4) * 4
Within(x, lo, hi) == Rounded(IF x < lo \/ x > hi THEN (lo + hi) \div 2 ELSE x)
my_constraints(p, limit) == <<Within(p[1], 4, 4 * limit), Within(p[2], 0, 4 * MaxFrequency)>>

\* Everything a search keeps.  The second of the arrays is one element short
\* in initialize_simplex, whose loop over n + 1 elements writes the element
\* after the lower limits, the upper limit of the threads: limit is whatever
\* the write leaves there.
initialize_simplex(nm, params, values, limit) ==
  LET vertex(j) == Quarters(params[j])
  IN  [nm EXCEPT !.v = Each(vertex), !.f = values, !.itr = 0, !.limit = limit]

centroid(nm, vg) ==
  LET mean(d) == (nm.v[1][d] + nm.v[2][d] + nm.v[3][d] - nm.v[vg][d]) \div 2
  IN  Both(mean)

\* vs, vh and vg are found anew, the vertices of the last two are constrained.
Ranked(nm, g, h) ==
  LET vertex(j) == IF j \in {g, h} THEN my_constraints(nm.v[j], nm.limit) ELSE nm.v[j]
  IN  [nm EXCEPT !.vg = g, !.vs = vs_index(nm.f), !.vh = h, !.v = Each(vertex), !.state = "start", !.try = <<>>]

updateObjectives(nm) ==
  UNION {{Ranked(nm, g, h) : h \in {vh_index(nm.f, nm.vh, g)}} : g \in {vg_index(nm.f)}}

\* Mutant of Replace: the value replaces the best one.
Replace_best(nm, p, value) == [nm EXCEPT !.v[nm.vs] = p, !.f[nm.vs] = value]

Replace(nm, p, value) == [nm EXCEPT !.v[nm.vg] = p, !.f[nm.vg] = value]

-----------------------------------------------------------------------------
(* One call of step in each of the four states.  A call either tries a new *)
(* point (try) or ends an iteration without one (<<>>).  The operators     *)
(* give the set of the one outcome, which TLC evaluates once.              *)

EndIteration(outcomes) == UNION {updateObjectives(nm) : nm \in outcomes}

Reflected(nm, g, vm) ==
  LET mirrored(d) == 2 * vm[d] - nm.v[g][d]
  IN  my_constraints(Both(mirrored), nm.limit)

\* Mutant of Start: the iterations are not counted.
Start_uncounted(nm) ==
  UNION {{[nm EXCEPT !.vg = g, !.vs = vs_index(nm.f), !.vh = vh_index(nm.f, nm.vh, g),
                     !.vm = vm, !.vr = Reflected(nm, g, vm), !.state = "reflection", !.try = Reflected(nm, g, vm)]
          : vm \in {centroid(nm, g)}} : g \in {vg_index(nm.f)}}

Start(nm) ==
  UNION {{[nm EXCEPT !.itr = @ + 1, !.vg = g, !.vs = vs_index(nm.f), !.vh = vh_index(nm.f, nm.vh, g),
                     !.vm = vm, !.vr = Reflected(nm, g, vm), !.state = "reflection", !.try = Reflected(nm, g, vm)]
          : vm \in {centroid(nm, g)}} : g \in {vg_index(nm.f)}}

\* The test for an outside contraction comes after f[vg] has been set to fr
\* and never holds: what is left is the inside contraction.
Reflection(nm, fr) ==
  LET further(d) == 2 * nm.vr[d] - nm.vm[d]
      ve == my_constraints(Both(further), nm.limit)
      worse == IF fr < nm.f[nm.vg] THEN Replace(nm, nm.vr, fr) ELSE nm
      nearer(d) == (nm.vm[d] + worse.v[nm.vg][d]) \div 2
      vc == my_constraints(Both(nearer), nm.limit)
  IN  CASE fr < nm.f[nm.vh] /\ fr >= nm.f[nm.vs] ->
             EndIteration({Replace(nm, nm.vr, fr)})
        [] fr < nm.f[nm.vh] /\ fr < nm.f[nm.vs] ->
             {[nm EXCEPT !.fr = fr, !.p = ve, !.state = "expansion", !.try = ve]}
        [] OTHER ->
             {[worse EXCEPT !.p = vc, !.state = "contraction", !.try = vc]}

Expansion(nm, fe) ==
  EndIteration({IF fe < nm.f[nm.vs] THEN Replace(nm, nm.p, fe) ELSE Replace(nm, nm.vr, nm.fr)})

\* Shrinking moves the vertices and keeps the values measured at the old ones.
Shrunk(nm, j) ==
  LET b == nm.v[nm.vs]
      half(p, d) == my_constraints([p EXCEPT ![d] = b[d] + (@ - b[d]) \div 2], nm.limit)
  IN  half(half(nm.v[j], 1), 2)

Contraction(nm, fc) ==
  LET vertex(j) == IF j = nm.vs THEN nm.v[j] ELSE Shrunk(nm, j)
  IN  EndIteration({IF fc < nm.f[nm.vg] THEN Replace(nm, nm.p, fc) ELSE [nm EXCEPT !.v = Each(vertex)]})

\* The standard deviation of the values is below a hundredth of their mean
\* (or both are 0: not a number), or the search has been going on for too long.
Converged(nm) ==
  LET sum == nm.f[1] + nm.f[2] + nm.f[3]
      sq(j) == (3 * nm.f[j] - sum) * (3 * nm.f[j] - sum)
  IN  sum = 0 \/ 5000 * (sq(1) + sq(2) + sq(3)) < sum * sum \/ nm.itr > MAXITERATIONS

testConvergence(nm) ==
  IF Converged(nm)
    THEN [nm EXCEPT !.vs = vs_index(nm.f), !.min = nm.f[vs_index(nm.f)], !.converged = TRUE]
    ELSE [nm EXCEPT !.converged = FALSE]

Moved(nm, param) ==
  CASE nm.state = "start" -> Start(nm)
    [] nm.state = "reflection" -> Reflection(nm, param)
    [] nm.state = "expansion" -> Expansion(nm, param)
    [] nm.state = "contraction" -> Contraction(nm, param)

step(nm, param) == {testConvergence(m) : m \in Moved(nm, param)}

Point == <<0, 0>>

Uninitialised == 0

\* A search before its first use: vh is not initialised.
Fresh ==
  [v |-> <<Point, Point, Point>>, f |-> <<0, 0, 0>>, vr |-> Point, vm |-> Point, p |-> Point,
   fr |-> 0, vs |-> 1, vh |-> Uninitialised, vg |-> 1, itr |-> 0, min |-> 0, limit |-> 1,
   state |-> "start", try |-> <<>>, converged |-> FALSE]
=============================================================================
