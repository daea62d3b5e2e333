------------------------- MODULE LocalOptimizerProofs -------------------------
(***************************************************************************)
(* The local optimizer has the samples it needs, and its search keeps the  *)
(* best point, for every number of threads and frequencies, any objectives *)
(* and whatever is measured.                                               *)
(***************************************************************************)
EXTENDS LocalOptimizer, FiniteSetTheorems, TLAPS

(***************************************************************************)
(* The search, for one call of step.                                       *)
(***************************************************************************)
Least(f, j)    == \A k \in NM!Rows : f[j] <= f[k]
Greatest(f, j) == \A k \in NM!Rows : f[k] <= f[j]

\* No value of f is below all of g: the best value has not got worse.
NoWorse(g, f) == \A j \in NM!Rows : \E k \in NM!Rows : g[k] <= f[j]

\* Its fields, with the types of those the comparisons read.
Fields(nm) ==
  /\ nm = [v |-> nm.v, f |-> nm.f, vr |-> nm.vr, vm |-> nm.vm, p |-> nm.p, fr |-> nm.fr,
           vs |-> nm.vs, vh |-> nm.vh, vg |-> nm.vg, itr |-> nm.itr, min |-> nm.min,
           limit |-> nm.limit, state |-> nm.state, try |-> nm.try, converged |-> nm.converged]
  /\ nm.f \in [NM!Rows -> Nat]
  /\ nm.vh \in NM!Rows

\* What the search keeps between two calls.  While a reflected point is
\* measured, vg and vs are those of the current values; when the expanded one
\* is, the reflected one was better than all.
SearchInv(nm) ==
  /\ Fields(nm)
  /\ nm.state \in {"start", "reflection", "expansion", "contraction"}
  /\ nm.state # "start" => nm.vs \in NM!Rows /\ nm.vg \in NM!Rows
  /\ nm.state \in {"reflection", "expansion"} => Least(nm.f, nm.vs)
  /\ nm.state = "reflection" => Greatest(nm.f, nm.vg)
  /\ nm.state = "expansion" => nm.fr \in Nat /\ nm.fr < nm.f[nm.vs]

LEMMA Indices ==
  ASSUME NEW f \in [NM!Rows -> Nat], NEW vh \in NM!Rows
  PROVE  /\ NM!vg_index(f) \in NM!Rows /\ Greatest(f, NM!vg_index(f))
         /\ NM!vs_index(f) \in NM!Rows /\ Least(f, NM!vs_index(f))
         /\ NM!vh_index(f, vh, NM!vg_index(f)) \in NM!Rows
<1>1. f[1] \in Nat /\ f[2] \in Nat /\ f[3] \in Nat /\ NM!Rows = {1, 2, 3}
  BY DEF NM!Rows
<1>2. NM!vs_index(f) \in NM!Rows /\ Least(f, NM!vs_index(f))
  <2>1. \E j \in NM!Rows : \A k \in NM!Rows : f[k] > f[j] \/ (f[k] = f[j] /\ j <= k)
    BY <1>1
  <2>2. /\ NM!vs_index(f) \in NM!Rows
        /\ \A k \in NM!Rows : f[k] > f[NM!vs_index(f)] \/ f[k] = f[NM!vs_index(f)]
    BY <2>1 DEF NM!vs_index
  <2>3. QED
    BY <2>2 DEF Least
<1>3. ASSUME NEW js \in SUBSET NM!Rows, js # {}
      PROVE  NM!FirstMax(f, js) \in js /\ \A k \in js : f[k] <= f[NM!FirstMax(f, js)]
  <2>1. \E j \in js : \A k \in js : f[k] < f[j] \/ (f[k] = f[j] /\ j <= k)
    <3>1. js \in {{1}, {2}, {3}, {1, 2}, {1, 3}, {2, 3}, {1, 2, 3}}
      BY <1>1, <1>3
    <3>2. CASE js \in {{1}, {2}, {3}}
      BY <1>1, <3>2
    <3>3. CASE js \in {{1, 2}, {1, 3}, {2, 3}}
      BY <1>1, <3>3
    <3>4. CASE js = {1, 2, 3}
      BY <1>1, <3>4
    <3>5. QED
      BY <3>1, <3>2, <3>3, <3>4
  <2>2. /\ NM!FirstMax(f, js) \in js
        /\ \A k \in js : f[k] < f[NM!FirstMax(f, js)] \/ f[k] = f[NM!FirstMax(f, js)]
    BY <2>1 DEF NM!FirstMax
  <2>3. QED
    BY <2>2
<1>4. NM!vg_index(f) \in NM!Rows /\ Greatest(f, NM!vg_index(f))
  BY <1>1, <1>3 DEF NM!vg_index, Greatest
<1>5. NM!vh_index(f, vh, NM!vg_index(f)) \in NM!Rows
  BY <1>3 DEF NM!vh_index
<1>6. QED
  BY <1>2, <1>4, <1>5

\* The end of an iteration finds the vertices of the next one.
LEMMA EndFacts ==
  ASSUME NEW nm, Fields(nm), NEW m \in NM!EndIteration({nm})
  PROVE  SearchInv(m) /\ m.f = nm.f /\ m.state = "start"
<1>1. m = NM!Ranked(nm, NM!vg_index(nm.f), NM!vh_index(nm.f, nm.vh, NM!vg_index(nm.f)))
  BY DEF NM!EndIteration, NM!updateObjectives
<1>2. NM!vh_index(nm.f, nm.vh, NM!vg_index(nm.f)) \in NM!Rows
  BY Indices DEF Fields
<1>3. PICK g, h : g = NM!vg_index(nm.f) /\ h = NM!vh_index(nm.f, nm.vh, NM!vg_index(nm.f))
  OBVIOUS
<1>4. PICK v : m = [nm EXCEPT !.vg = g, !.vs = NM!vs_index(nm.f), !.vh = h, !.v = v,
                              !.state = "start", !.try = <<>>]
  BY <1>1, <1>3 DEF NM!Ranked
<1>5. /\ m.v = v /\ m.f = nm.f /\ m.vr = nm.vr /\ m.vm = nm.vm /\ m.p = nm.p /\ m.fr = nm.fr
      /\ m.vh = h /\ m.state = "start"
      /\ m = [v |-> m.v, f |-> m.f, vr |-> m.vr, vm |-> m.vm, p |-> m.p, fr |-> m.fr,
              vs |-> m.vs, vh |-> m.vh, vg |-> m.vg, itr |-> m.itr, min |-> m.min,
              limit |-> m.limit, state |-> m.state, try |-> m.try, converged |-> m.converged]
  BY <1>4 DEF Fields
<1>6. QED
  BY <1>2, <1>3, <1>5 DEF SearchInv, Fields

\* A value that replaces that of a vertex.
LEMMA ReplaceFacts ==
  ASSUME NEW nm, Fields(nm), nm.vg \in NM!Rows, NEW p, NEW value \in Nat, NEW m, m = NM!Replace(nm, p, value)
  PROVE  /\ Fields(m) /\ m.f = [nm.f EXCEPT ![nm.vg] = value]
         /\ m.vg = nm.vg /\ m.vs = nm.vs /\ m.vh = nm.vh /\ m.state = nm.state
<1>1. PICK v, f : v = [nm.v EXCEPT ![nm.vg] = p] /\ f = [nm.f EXCEPT ![nm.vg] = value]
  OBVIOUS
<1>2. m = [nm EXCEPT !.v = v, !.f = f]
  BY <1>1 DEF NM!Replace, Fields
<1>3. f \in [NM!Rows -> Nat]
  BY <1>1 DEF Fields
<1>4. /\ m.f = f /\ m.vh = nm.vh /\ m.vg = nm.vg /\ m.vs = nm.vs /\ m.state = nm.state
      /\ m = [v |-> m.v, f |-> m.f, vr |-> m.vr, vm |-> m.vm, p |-> m.p, fr |-> m.fr,
              vs |-> m.vs, vh |-> m.vh, vg |-> m.vg, itr |-> m.itr, min |-> m.min,
              limit |-> m.limit, state |-> m.state, try |-> m.try, converged |-> m.converged]
  BY <1>2 DEF Fields
<1>5. QED
  BY <1>1, <1>3, <1>4 DEF Fields

\* It does no harm where it is smaller than the one it replaces, or where it
\* replaces the largest and is not above the others.
LEMMA ReplacedNoWorse ==
  ASSUME NEW f \in [NM!Rows -> Nat], NEW g \in NM!Rows, NEW value \in Nat
  PROVE  /\ value <= f[g] => NoWorse([f EXCEPT ![g] = value], f)
         /\ \A s \in NM!Rows : Least(f, s) /\ s # g => NoWorse([f EXCEPT ![g] = value], f)
         /\ \A s \in NM!Rows : Least(f, s) /\ value <= f[s] => NoWorse([f EXCEPT ![g] = value], f)
         /\ NoWorse(f, f)
BY DEF NoWorse, Least, NM!Rows

LEMMA StartFacts ==
  ASSUME NEW nm, SearchInv(nm), NEW m \in NM!Start(nm)
  PROVE  SearchInv(m) /\ m.f = nm.f
<1>1. PICK g, h, vm, vr, s : /\ g = NM!vg_index(nm.f) /\ h = NM!vh_index(nm.f, nm.vh, g)
                             /\ s = NM!vs_index(nm.f)
                             /\ m = [nm EXCEPT !.itr = @ + 1, !.vg = g, !.vs = s, !.vh = h,
                                               !.vm = vm, !.vr = vr, !.state = "reflection", !.try = vr]
  <2> DEFINE G == NM!vg_index(nm.f)
             VM == NM!centroid(nm, G)
             VR == NM!Reflected(nm, G, VM)
             H == NM!vh_index(nm.f, nm.vh, G)
             S == NM!vs_index(nm.f)
  <2>1. m = [nm EXCEPT !.itr = @ + 1, !.vg = G, !.vs = S, !.vh = H,
                       !.vm = VM, !.vr = VR, !.state = "reflection", !.try = VR]
    <3>1. NM!Start(nm) =
            UNION {{[nm EXCEPT !.itr = @ + 1, !.vg = g, !.vs = S, !.vh = NM!vh_index(nm.f, nm.vh, g),
                               !.vm = vm, !.vr = NM!Reflected(nm, g, vm), !.state = "reflection",
                               !.try = NM!Reflected(nm, g, vm)]
                     : vm \in {NM!centroid(nm, g)}} : g \in {G}}
      BY DEF NM!Start
    <3> HIDE DEF G, S
    <3>2. QED
      BY <3>1
  <2>2. G = NM!vg_index(nm.f) /\ H = NM!vh_index(nm.f, nm.vh, G) /\ S = NM!vs_index(nm.f)
    OBVIOUS
  <2> HIDE DEF G, H, S, VM, VR
  <2>3. QED
    BY <2>1, <2>2
<1>2. g \in NM!Rows /\ Greatest(nm.f, g) /\ s \in NM!Rows /\ Least(nm.f, s) /\ h \in NM!Rows
  BY <1>1, Indices DEF SearchInv, Fields
<1>3. /\ m.f = nm.f /\ m.vh = h /\ m.vg = g /\ m.vs = s /\ m.state = "reflection"
      /\ m = [v |-> m.v, f |-> m.f, vr |-> m.vr, vm |-> m.vm, p |-> m.p, fr |-> m.fr,
              vs |-> m.vs, vh |-> m.vh, vg |-> m.vg, itr |-> m.itr, min |-> m.min,
              limit |-> m.limit, state |-> m.state, try |-> m.try, converged |-> m.converged]
  BY <1>1 DEF SearchInv, Fields
<1>4. QED
  BY <1>2, <1>3 DEF SearchInv, Fields

LEMMA ReflectionFacts ==
  ASSUME NEW nm, SearchInv(nm), nm.state = "reflection", NEW fr \in Nat, NEW m \in NM!Reflection(nm, fr)
  PROVE  SearchInv(m) /\ NoWorse(m.f, nm.f)
<1>1. /\ Fields(nm) /\ nm.f \in [NM!Rows -> Nat]
      /\ nm.vh \in NM!Rows /\ nm.vs \in NM!Rows /\ nm.vg \in NM!Rows
      /\ Least(nm.f, nm.vs) /\ Greatest(nm.f, nm.vg)
  BY DEF SearchInv, Fields
<1>2. PICK ve, vc, worse, ended :
        /\ ended = NM!EndIteration({NM!Replace(nm, nm.vr, fr)})
        /\ worse = IF fr < nm.f[nm.vg] THEN NM!Replace(nm, nm.vr, fr) ELSE nm
        /\ NM!Reflection(nm, fr) =
             CASE fr < nm.f[nm.vh] /\ fr >= nm.f[nm.vs] -> ended
               [] fr < nm.f[nm.vh] /\ fr < nm.f[nm.vs] ->
                    {[nm EXCEPT !.fr = fr, !.p = ve, !.state = "expansion", !.try = ve]}
               [] OTHER ->
                    {[worse EXCEPT !.p = vc, !.state = "contraction", !.try = vc]}
  <2> DEFINE e == NM!my_constraints(<<2 * nm.vr[1] - nm.vm[1], 2 * nm.vr[2] - nm.vm[2]>>, nm.limit)
             w == IF fr < nm.f[nm.vg] THEN NM!Replace(nm, nm.vr, fr) ELSE nm
             c == NM!my_constraints(<<(nm.vm[1] + w.v[nm.vg][1]) \div 2,
                                      (nm.vm[2] + w.v[nm.vg][2]) \div 2>>, nm.limit)
  <2>1. NM!Reflection(nm, fr) =
             CASE fr < nm.f[nm.vh] /\ fr >= nm.f[nm.vs] ->
                    NM!EndIteration({NM!Replace(nm, nm.vr, fr)})
               [] fr < nm.f[nm.vh] /\ fr < nm.f[nm.vs] ->
                    {[nm EXCEPT !.fr = fr, !.p = e, !.state = "expansion", !.try = e]}
               [] OTHER ->
                    {[w EXCEPT !.p = c, !.state = "contraction", !.try = c]}
    BY DEF NM!Reflection, NM!Both
  <2> HIDE DEF e, c
  <2>2. QED
    BY <2>1
<1>3. CASE fr < nm.f[nm.vh] /\ fr >= nm.f[nm.vs]
  <2>1. NM!Reflection(nm, fr) = ended
    <3>1. ~(fr < nm.f[nm.vs])
      BY <1>1, <1>3
    <3>2. QED
      BY <1>2, <1>3, <3>1
  <2>2. m \in NM!EndIteration({NM!Replace(nm, nm.vr, fr)})
    <3>1. m \in ended
      BY <2>1
    <3>2. QED
      BY <1>2, <3>1
  <2>3. PICK n : n = NM!Replace(nm, nm.vr, fr)
    OBVIOUS
  <2>4. Fields(n) /\ n.f = [nm.f EXCEPT ![nm.vg] = fr]
    BY <1>1, <2>3, ReplaceFacts
  <2>5. SearchInv(m) /\ m.f = n.f
    BY <2>2, <2>3, <2>4, EndFacts
  <2>6. nm.vs # nm.vg
    BY <1>1, <1>3 DEF Least, Greatest
  <2>7. NoWorse([nm.f EXCEPT ![nm.vg] = fr], nm.f)
    BY <1>1, <2>6, ReplacedNoWorse
  <2>8. QED
    BY <2>4, <2>5, <2>7
<1>4. CASE fr < nm.f[nm.vh] /\ fr < nm.f[nm.vs]
  <2>1. m = [nm EXCEPT !.fr = fr, !.p = ve, !.state = "expansion", !.try = ve]
    <3>1. ~(fr >= nm.f[nm.vs])
      BY <1>1, <1>4
    <3>2. QED
      BY <1>2, <1>4, <3>1
  <2>2. /\ m.f = nm.f /\ m.vh = nm.vh /\ m.vg = nm.vg /\ m.vs = nm.vs /\ m.fr = fr
        /\ m.state = "expansion"
        /\ m = [v |-> m.v, f |-> m.f, vr |-> m.vr, vm |-> m.vm, p |-> m.p, fr |-> m.fr,
                vs |-> m.vs, vh |-> m.vh, vg |-> m.vg, itr |-> m.itr, min |-> m.min,
                limit |-> m.limit, state |-> m.state, try |-> m.try, converged |-> m.converged]
    BY <1>1, <2>1 DEF Fields
  <2>3. QED
    BY <1>1, <1>4, <2>2, ReplacedNoWorse DEF SearchInv, Fields
<1>5. CASE ~(fr < nm.f[nm.vh])
  <2>1. m = [worse EXCEPT !.p = vc, !.state = "contraction", !.try = vc]
    BY <1>2, <1>5
  <2>2. Fields(worse) /\ NoWorse(worse.f, nm.f) /\ worse.vg = nm.vg /\ worse.vs = nm.vs
    <3>1. CASE fr < nm.f[nm.vg]
      <4>1. worse = NM!Replace(nm, nm.vr, fr)
        BY <1>2, <3>1
      <4>2. /\ Fields(worse) /\ worse.f = [nm.f EXCEPT ![nm.vg] = fr]
            /\ worse.vg = nm.vg /\ worse.vs = nm.vs
        BY <1>1, <4>1, ReplaceFacts
      <4>3. fr <= nm.f[nm.vg]
        BY <1>1, <3>1
      <4>4. QED
        BY <1>1, <4>2, <4>3, ReplacedNoWorse
    <3>2. CASE ~(fr < nm.f[nm.vg])
      BY <1>2, <1>1, <3>2, ReplacedNoWorse
    <3>3. QED
      BY <3>1, <3>2
  <2>3. /\ m.f = worse.f /\ m.vh = worse.vh /\ m.vg = worse.vg /\ m.vs = worse.vs
        /\ m.state = "contraction"
        /\ m = [v |-> m.v, f |-> m.f, vr |-> m.vr, vm |-> m.vm, p |-> m.p, fr |-> m.fr,
                vs |-> m.vs, vh |-> m.vh, vg |-> m.vg, itr |-> m.itr, min |-> m.min,
                limit |-> m.limit, state |-> m.state, try |-> m.try, converged |-> m.converged]
    BY <2>1, <2>2 DEF Fields
  <2>4. QED
    BY <1>1, <2>2, <2>3 DEF SearchInv, Fields
<1>6. QED
  <2>1. fr < nm.f[nm.vs] \/ fr >= nm.f[nm.vs]
    BY <1>1
  <2>2. QED
    BY <1>3, <1>4, <1>5, <2>1

LEMMA ExpansionFacts ==
  ASSUME NEW nm, SearchInv(nm), nm.state = "expansion", NEW fe \in Nat, NEW m \in NM!Expansion(nm, fe)
  PROVE  SearchInv(m) /\ NoWorse(m.f, nm.f)
<1>1. /\ Fields(nm) /\ nm.f \in [NM!Rows -> Nat] /\ nm.vs \in NM!Rows /\ nm.vg \in NM!Rows
      /\ Least(nm.f, nm.vs) /\ nm.fr \in Nat /\ nm.fr < nm.f[nm.vs]
  BY DEF SearchInv, Fields
<1>2. PICK n, p, value :
        /\ n = NM!Replace(nm, p, value) /\ value \in Nat /\ value < nm.f[nm.vs]
        /\ m \in NM!EndIteration({n})
  <2>1. CASE fe < nm.f[nm.vs]
    <3>1. m \in NM!EndIteration({NM!Replace(nm, nm.p, fe)})
      BY <2>1 DEF NM!Expansion
    <3>2. QED
      BY <2>1, <3>1
  <2>2. CASE ~(fe < nm.f[nm.vs])
    <3>1. m \in NM!EndIteration({NM!Replace(nm, nm.vr, nm.fr)})
      BY <2>2 DEF NM!Expansion
    <3>2. QED
      BY <1>1, <3>1
  <2>3. QED
    BY <2>1, <2>2
<1>3. Fields(n) /\ n.f = [nm.f EXCEPT ![nm.vg] = value]
  BY <1>1, <1>2, ReplaceFacts
<1>4. SearchInv(m) /\ m.f = n.f
  BY <1>2, <1>3, EndFacts
<1>5. value <= nm.f[nm.vs]
  BY <1>1, <1>2
<1>6. QED
  BY <1>1, <1>2, <1>3, <1>4, <1>5, ReplacedNoWorse

LEMMA ContractionFacts ==
  ASSUME NEW nm, SearchInv(nm), nm.state = "contraction", NEW fc \in Nat, NEW m \in NM!Contraction(nm, fc)
  PROVE  SearchInv(m) /\ NoWorse(m.f, nm.f)
<1>1. Fields(nm) /\ nm.f \in [NM!Rows -> Nat] /\ nm.vg \in NM!Rows
  BY DEF SearchInv, Fields
<1>2. PICK v : NM!Contraction(nm, fc) =
                 NM!EndIteration({IF fc < nm.f[nm.vg] THEN NM!Replace(nm, nm.p, fc) ELSE [nm EXCEPT !.v = v]})
  <2> DEFINE at(j) == IF j = nm.vs THEN nm.v[j] ELSE NM!Shrunk(nm, j)
             w == <<at(1), at(2), at(3)>>
  <2>1. NM!Contraction(nm, fc) =
                 NM!EndIteration({IF fc < nm.f[nm.vg] THEN NM!Replace(nm, nm.p, fc) ELSE [nm EXCEPT !.v = w]})
    BY DEF NM!Contraction, NM!Each
  <2> HIDE DEF w
  <2>2. QED
    BY <2>1
<1>3. CASE fc < nm.f[nm.vg]
  <2>1. PICK n : n = NM!Replace(nm, nm.p, fc)
    OBVIOUS
  <2>2. m \in NM!EndIteration({n})
    BY <1>2, <1>3, <2>1
  <2>3. Fields(n) /\ n.f = [nm.f EXCEPT ![nm.vg] = fc]
    BY <1>1, <2>1, ReplaceFacts
  <2>4. SearchInv(m) /\ m.f = n.f
    BY <2>2, <2>3, EndFacts
  <2>5. fc <= nm.f[nm.vg]
    BY <1>1, <1>3
  <2>6. QED
    BY <1>1, <2>3, <2>4, <2>5, ReplacedNoWorse
<1>4. CASE ~(fc < nm.f[nm.vg])
  <2>1. PICK n : n = [nm EXCEPT !.v = v]
    OBVIOUS
  <2>2. m \in NM!EndIteration({n})
    BY <1>2, <1>4, <2>1
  <2>3. /\ n.f = nm.f /\ n.vh = nm.vh
        /\ n = [v |-> n.v, f |-> n.f, vr |-> n.vr, vm |-> n.vm, p |-> n.p, fr |-> n.fr,
                vs |-> n.vs, vh |-> n.vh, vg |-> n.vg, itr |-> n.itr, min |-> n.min,
                limit |-> n.limit, state |-> n.state, try |-> n.try, converged |-> n.converged]
    BY <1>1, <2>1 DEF Fields
  <2>4. Fields(n)
    BY <1>1, <2>3 DEF Fields
  <2>5. SearchInv(m) /\ m.f = n.f
    BY <2>2, <2>4, EndFacts
  <2>6. QED
    BY <1>1, <2>3, <2>5, ReplacedNoWorse
<1>5. QED
  BY <1>3, <1>4

\* The test for convergence finds the best vertex anew and keeps the values.
LEMMA ConvergenceFacts ==
  ASSUME NEW nm, SearchInv(nm), NEW m, m = NM!testConvergence(nm)
  PROVE  SearchInv(m) /\ m.f = nm.f
<1>1. PICK s : s = NM!vs_index(nm.f)
  OBVIOUS
<1>2. /\ Fields(nm) /\ nm.f \in [NM!Rows -> Nat] /\ s \in NM!Rows /\ Least(nm.f, s)
  BY <1>1, Indices DEF SearchInv, Fields
<1>3. \/ m = [nm EXCEPT !.vs = s, !.min = nm.f[s], !.converged = TRUE]
      \/ m = [nm EXCEPT !.converged = FALSE]
  BY <1>1 DEF NM!testConvergence
<1>4. /\ m.f = nm.f /\ m.vh = nm.vh /\ m.vg = nm.vg /\ m.vs \in {nm.vs, s} /\ m.fr = nm.fr
      /\ m.state = nm.state
      /\ m = [v |-> m.v, f |-> m.f, vr |-> m.vr, vm |-> m.vm, p |-> m.p, fr |-> m.fr,
              vs |-> m.vs, vh |-> m.vh, vg |-> m.vg, itr |-> m.itr, min |-> m.min,
              limit |-> m.limit, state |-> m.state, try |-> m.try, converged |-> m.converged]
  BY <1>2, <1>3 DEF Fields
<1>5. Fields(m)
  BY <1>2, <1>4 DEF Fields
<1>6. m.state # "start" => m.vs \in NM!Rows /\ m.vg \in NM!Rows
  BY <1>2, <1>4 DEF SearchInv
<1>7. m.state \in {"reflection", "expansion"} => Least(m.f, m.vs)
  BY <1>2, <1>4 DEF SearchInv
<1>8. m.state = "expansion" => m.fr \in Nat /\ m.fr < m.f[m.vs]
  <2>1. SUFFICES ASSUME nm.state = "expansion"
                 PROVE  m.fr \in Nat /\ m.fr < m.f[m.vs]
    BY <1>4
  <2>2. nm.fr \in Nat /\ nm.fr < nm.f[nm.vs] /\ nm.vs \in NM!Rows /\ Least(nm.f, nm.vs)
    BY <2>1 DEF SearchInv
  <2>3. nm.f[nm.vs] <= nm.f[s]
    BY <1>2, <2>2 DEF Least
  <2>4. nm.fr < nm.f[s]
    BY <1>2, <2>2, <2>3
  <2>5. QED
    BY <1>4, <2>2, <2>4
<1>9. QED
  BY <1>4, <1>5, <1>6, <1>7, <1>8 DEF SearchInv

\* A call of step keeps what the search knows, and never loses its best value.
LEMMA StepFacts ==
  ASSUME NEW nm, SearchInv(nm), NEW value \in Nat, NEW m \in NM!step(nm, value)
  PROVE  SearchInv(m) /\ NoWorse(m.f, nm.f)
<1>1. PICK n \in NM!Moved(nm, value) : m = NM!testConvergence(n)
  BY DEF NM!step
<1>2. SearchInv(n) /\ NoWorse(n.f, nm.f)
  <2>1. nm.state \in {"start", "reflection", "expansion", "contraction"}
    BY DEF SearchInv
  <2>2. CASE nm.state = "start"
    <3>1. n \in NM!Start(nm)
      BY <1>1, <2>2 DEF NM!Moved
    <3>2. nm.f \in [NM!Rows -> Nat] /\ 1 \in NM!Rows
      BY DEF SearchInv, Fields, NM!Rows
    <3>3. QED
      BY <3>1, <3>2, StartFacts, ReplacedNoWorse
  <2>3. CASE nm.state = "reflection"
    <3>1. n \in NM!Reflection(nm, value)
      BY <1>1, <2>3 DEF NM!Moved
    <3>2. QED
      BY <2>3, <3>1, ReflectionFacts
  <2>4. CASE nm.state = "expansion"
    <3>1. n \in NM!Expansion(nm, value)
      BY <1>1, <2>4 DEF NM!Moved
    <3>2. QED
      BY <2>4, <3>1, ExpansionFacts
  <2>5. CASE nm.state = "contraction"
    <3>1. n \in NM!Contraction(nm, value)
      BY <1>1, <2>5 DEF NM!Moved
    <3>2. QED
      BY <2>5, <3>1, ContractionFacts
  <2>6. QED
    BY <2>1, <2>2, <2>3, <2>4, <2>5
<1>3. QED
  BY <1>1, <1>2, ConvergenceFacts

-----------------------------------------------------------------------------
(***************************************************************************)
(* The optimizer.  A locality that has not got one sample more than it has *)
(* made steps has waited at least as long for the next measurement as for  *)
(* the next step, and measures when it makes it.                           *)
(***************************************************************************)
Shaped(o) ==
  /\ o = [first |-> o.first, taken |-> o.taken, last |-> o.last, globalmax |-> o.globalmax,
          initialized |-> o.initialized, converged_minimum |-> o.converged_minimum,
          minimization_params |-> o.minimization_params]
  /\ o.taken \in 0 .. 3 /\ o.initialized \in BOOLEAN

AllShaped(objs) == objs = [k \in Objectives |-> objs[k]] /\ \A k \in Objectives : Shaped(objs[k])

Kinds ==
  /\ policy \in {"allscale", "random", "manual"}
  /\ AllShaped(objectives)
  /\ measured \in 0 .. OptimizationPeriod + 1 /\ optimized \in 0 .. OptimizationPeriod + 1
  /\ steps \in 0 .. warmup_steps
  /\ current \in Nat \ {0} /\ (~converged => current \in Objectives)

InTime(taken) ==
  steps <= taken /\ (taken = 3 \/ taken >= steps + 1 \/ measured >= optimized)

SamplesInTime == policy = "allscale" => \A k \in Objectives : InTime(objectives[k].taken)

\* The first objective: its oldest samples until the search is initialised
\* from them, its newest one always, and what the search knows.
Readable(o) ==
  /\ ~o.initialized => o.first \in Seq(Nat \X Nat) /\ Len(o.first) = o.taken
  /\ o.taken >= 1 => Head(o.last) \in Nat

FirstSearch ==
  /\ objectives[1].initialized => policy = "allscale"
  /\ policy = "allscale" => Readable(objectives[1])
  /\ ~objectives[1].initialized => current = 1 /\ nmd = NM!Fresh
  /\ policy = "allscale" /\ ~objectives[1].initialized => frequency \in Nat
  /\ objectives[1].initialized /\ current = 1 => SearchInv(nmd)

OptimizerInv == Kinds /\ SamplesInTime /\ FirstSearch

LEMMA ObjectivesFacts ==
  /\ Objectives = 1 .. Len(Types) /\ Len(Types) \in Nat /\ Len(Types) >= 1 /\ 1 \in Objectives
BY OptimizerAssumption DEF Objectives

\* One sample of objective k.
LEMMA SampleFacts ==
  ASSUME NEW o, Shaped(o), NEW k \in Nat, NEW value \in Nat
  PROVE  /\ Shaped(Sample(o, k, value))
         /\ Sample(o, k, value).initialized = o.initialized
         /\ Sample(o, k, value).taken = Min3(o.taken + 1, 3)
<1> DEFINE n == Sample(o, k, value)
<1> DEFINE first == IF Len(o.first) < 3 /\ ~o.initialized THEN Append(o.first, <<value, frequency>>) ELSE o.first
           taken == Min3(o.taken + 1, 3)
           last == IF k > current THEN o.last
                   ELSE IF o.last = <<>> \/ k = Len(Types) THEN <<value>> ELSE <<value, Head(o.last)>>
           globalmax == IF value > o.globalmax /\ k < Len(Types) THEN value ELSE o.globalmax
<1>1. n = [o EXCEPT !.first = first, !.taken = taken, !.last = last, !.globalmax = globalmax]
  BY DEF Sample, Shaped
<1>2. taken \in 0 .. 3
  BY DEF Min3, Shaped
<1>3. taken = Min3(o.taken + 1, 3)
  OBVIOUS
<1> HIDE DEF n, first, last, globalmax, taken
<1>4. /\ n.first = first /\ n.taken = taken /\ n.last = last /\ n.initialized = o.initialized
      /\ n = [first |-> n.first, taken |-> n.taken, last |-> n.last, globalmax |-> n.globalmax,
              initialized |-> n.initialized, converged_minimum |-> n.converged_minimum,
              minimization_params |-> n.minimization_params]
  BY <1>1 DEF Shaped
<1>5. Shaped(n)
  BY <1>2, <1>4 DEF Shaped
<1>6. Shaped(n) /\ n.initialized = o.initialized /\ n.taken = Min3(o.taken + 1, 3)
  BY <1>4, <1>5, <1>3
<1>7. QED
  BY <1>6 DEF n

\* All objectives get a sample, if the policy reads them.
LEMMA MeasureFacts ==
  ASSUME Kinds, NEW objs \in measureObjective(objectives)
  PROVE  /\ AllShaped(objs)
         /\ policy # "allscale" => objs = objectives
         /\ policy = "allscale" =>
              \A k \in Objectives : /\ objs[k].taken = Min3(objectives[k].taken + 1, 3)
                                    /\ objs[k].initialized = objectives[k].initialized
         /\ policy = "allscale" =>
              \E value \in Nat : objs[1] = Sample(objectives[1], 1, value)
<1>1. CASE policy # "allscale"
  BY <1>1 DEF measureObjective, Kinds
<1>2. CASE policy = "allscale"
  <2>1. PICK s : /\ \A k \in Objectives : s[k] \in Measurable(k)
                 /\ objs = [k \in Objectives |-> Sample(objectives[k], k, s[k])]
    BY <1>2 DEF measureObjective
  <2>2. \A k \in Objectives : s[k] \in Nat /\ k \in Nat
    BY <2>1, OptimizerAssumption DEF Measurable, Objectives
  <2>3. \A k \in Objectives : objs[k] = Sample(objectives[k], k, s[k])
    BY <2>1
  <2>4. \A k \in Objectives : Shaped(objectives[k])
    BY DEF Kinds, AllShaped
  <2>5. \A k \in Objectives : /\ Shaped(objs[k]) /\ objs[k].initialized = objectives[k].initialized
                              /\ objs[k].taken = Min3(objectives[k].taken + 1, 3)
    <3>1. TAKE k \in Objectives
    <3>2. s[k] \in Nat /\ k \in Nat /\ Shaped(objectives[k])
      BY <2>2, <2>4
    <3>3. objs[k] = Sample(objectives[k], k, s[k])
      BY <2>3
    <3>4. Shaped(objs[k])
      BY <3>2, <3>3, SampleFacts
    <3>5. Sample(objectives[k], k, s[k]).initialized = objectives[k].initialized
      BY <3>2, SampleFacts
    <3>6. Sample(objectives[k], k, s[k]).taken = Min3(objectives[k].taken + 1, 3)
      BY <3>2, SampleFacts
    <3>7. QED
      BY <3>3, <3>4, <3>5, <3>6
  <2>6. AllShaped(objs)
    BY <2>1, <2>5 DEF AllShaped
  <2>7. objs[1] = Sample(objectives[1], 1, s[1]) /\ s[1] \in Nat
    BY <2>2, <2>3, ObjectivesFacts
  <2>8. QED
    BY <1>2, <2>5, <2>6, <2>7
<1>3. QED
  BY <1>1, <1>2

\* A step that does not search leaves the objectives and the search alone; one
\* of the warm-up asks for one of the frequencies.
LEMMA QuietFacts ==
  ASSUME policy \in {"allscale", "random", "manual"}, policy = "allscale" => steps + 1 < warmup_steps,
         NEW objs, NEW act \in step(objs)
  PROVE  /\ act.objectives = objs /\ act.current = current /\ act.nmd = nmd
         /\ policy = "allscale" => act.frequency_idx \in Nat
<1>1. CASE policy = "random"
  BY <1>1 DEF step, RandomStep, State
<1>2. CASE policy = "manual"
  BY <1>2 DEF step, State
<1>3. CASE policy = "allscale"
  <2>1. act \in WarmUp(objs)
    BY <1>3 DEF step
  <2>2. PICK r \in 0 .. MaxThreads - 1, i \in 0 .. Frequencies - 1 : act = State(objs, current, nmd, r, i)
    BY <2>1 DEF WarmUp
  <2>3. i \in Nat
    BY <2>2
  <2>4. Wrap(i) \in Nat
    BY <2>3, OptimizerAssumption DEF Wrap
  <2>5. QED
    BY <2>2, <2>4 DEF State
<1>4. QED
  BY <1>1, <1>2, <1>3

\* An objective that is searched for, and perhaps settled, keeps its samples.
Keeps(o, n) == Shaped(n) /\ n.initialized /\ n.taken = o.taken /\ n.last = o.last

\* A step that searches: which search it is a step of, and what it changes.
LEMMA AllscaleFacts ==
  ASSUME NEW objs, AllShaped(objs), current \in Objectives, NEW act \in AllscaleStep(objs)
  PROVE  /\ \E search \in Searching(objs[current]) : act.nmd \in NM!step(search, Head(objs[current].last))
         /\ act.current \in {current, current + 1}
         /\ \E n : act.objectives = [objs EXCEPT ![current] = n] /\ Keeps(objs[current], n)
<1> DEFINE now == [objs EXCEPT ![current].initialized = TRUE, ![current].first = <<>>]
           settled(nm) == [now EXCEPT ![current] = Settle(@, nm)]
           off == {k \in Objectives : OffLeeway(objs, k)}
           first_off == CHOOSE k \in off : \A j \in off : k <= j
           o   == objs[first_off]
           Searched == UNION {NM!step(search, Head(objs[current].last)) : search \in Searching(objs[current])}
           Outcome(nm) ==
             IF nm.converged
               THEN {State(settled(nm), current + 1, nm, nm.v[nm.vs][1] \div 4, nm.v[nm.vs][2] \div 4)}
             ELSE IF off # {}
               THEN {State(settled(nm), current + 1, nm, t, i) :
                       t \in Scaled(o.minimization_params[1], o, first_off),
                       i \in Scaled(o.minimization_params[2], o, first_off)}
             ELSE IF nm.try = <<>>
               THEN {State(now, current, nm, MaxThreads, Unchanged)}
               ELSE {State(now, current, nm, nm.try[1] \div 4, nm.try[2] \div 4)}
<1>1. PICK nm \in Searched : act \in Outcome(nm)
  <2>1. AllscaleStep(objs) = UNION {Outcome(nm) : nm \in Searched}
    BY DEF AllscaleStep
  <2> HIDE DEF Outcome, Searched
  <2>2. QED
    BY <2>1
<1>2. \E objs2 \in {now, settled(nm)}, cur \in {current, current + 1} :
        \E t, i : act = State(objs2, cur, nm, t, i)
  <2> HIDE DEF now, settled, off, first_off, o, Searched
  <2>1. CASE nm.converged
    BY <1>1, <2>1
  <2>2. CASE ~nm.converged /\ off # {}
    BY <1>1, <2>2
  <2>3. CASE ~nm.converged /\ off = {} /\ nm.try = <<>>
    BY <1>1, <2>3
  <2>4. CASE ~nm.converged /\ off = {} /\ nm.try # <<>>
    BY <1>1, <2>4
  <2>5. QED
    BY <2>1, <2>2, <2>3, <2>4
<1>3. /\ act.nmd = nm /\ act.current \in {current, current + 1}
       /\ act.objectives \in {now, settled(nm)}
  <2> HIDE DEF now, settled
  <2>1. QED
    BY <1>2 DEF State
<1>4. PICK search \in Searching(objs[current]) : nm \in NM!step(search, Head(objs[current].last))
  BY <1>1
<1>5. PICK old : old = objs[current] /\ Shaped(old)
  BY DEF AllShaped
<1>6. PICK one : one = [old EXCEPT !.initialized = TRUE, !.first = <<>>]
  OBVIOUS
<1>7. now = [objs EXCEPT ![current] = one]
  BY <1>5, <1>6 DEF AllShaped, Shaped
<1>8. PICK m, p : Settle(one, nm) = [one EXCEPT !.converged_minimum = m, !.minimization_params = p]
  BY DEF Settle
<1>9. settled(nm) = [objs EXCEPT ![current] = Settle(one, nm)]
  BY <1>7 DEF AllShaped
<1>10. PICK n : n \in {one, Settle(one, nm)} /\ act.objectives = [objs EXCEPT ![current] = n]
  BY <1>3, <1>7, <1>9
<1>11. n = [old EXCEPT !.initialized = TRUE, !.first = <<>>] \/
      n = [old EXCEPT !.initialized = TRUE, !.first = <<>>, !.converged_minimum = m, !.minimization_params = p]
  BY <1>6, <1>8, <1>10
<1>12. Keeps(old, n)
  <2>1. /\ n.taken = old.taken /\ n.last = old.last /\ n.initialized = TRUE
        /\ n = [first |-> n.first, taken |-> n.taken, last |-> n.last, globalmax |-> n.globalmax,
                initialized |-> n.initialized, converged_minimum |-> n.converged_minimum,
                minimization_params |-> n.minimization_params]
    BY <1>5, <1>11 DEF Shaped
  <2>2. QED
    BY <1>5, <2>1 DEF Shaped, Keeps
<1>13. QED
  BY <1>3, <1>4, <1>5, <1>10, <1>12

-----------------------------------------------------------------------------
\* The clocks are stopped at the same value and keep their order.
LEMMA LaterFacts ==
  ASSUME NEW a \in 0 .. OptimizationPeriod + 1, NEW b \in 0 .. OptimizationPeriod + 1, NEW gap \in Gaps
  PROVE  /\ Later(a, gap) \in 0 .. OptimizationPeriod + 1
         /\ a >= b => Later(a, gap) >= Later(b, gap)
<1>1. gap \in Nat
  BY OptimizerAssumption
<1>2. QED
  BY <1>1 DEF Later, Min3, OptimizationPeriod

\* What a root work item has measured before it may make a step.
Measures(gap) == Later(measured, gap) > MeasurementPeriod
Measured(gap) == IF Measures(gap) THEN measureObjective(objectives) ELSE {objectives}
NowTaken(taken, gap) == IF Measures(gap) THEN Min3(taken + 1, 3) ELSE taken

LEMMA MeasuredFacts ==
  ASSUME Kinds, NEW gap, NEW objs \in Measured(gap)
  PROVE  /\ AllShaped(objs)
         /\ policy = "allscale" =>
              \A k \in Objectives : objs[k].taken = NowTaken(objectives[k].taken, gap)
<1>1. CASE Measures(gap)
  <2>1. objs \in measureObjective(objectives)
    BY <1>1 DEF Measured
  <2>2. QED
    BY <1>1, <2>1, MeasureFacts DEF NowTaken
<1>2. CASE ~Measures(gap)
  BY <1>2 DEF Measured, NowTaken, Kinds
<1>3. QED
  BY <1>1, <1>2

\* A root work item that makes no step, and one that makes one.
Waits(gap, objs) ==
  /\ ~converged /\ objs \in Measured(gap)
  /\ Later(optimized, gap) <= OptimizationPeriod
  /\ optimized' = Later(optimized, gap) /\ objectives' = objs
  /\ UNCHANGED <<current, steps, converged, nmd, frequency, hardware>>
  /\ measured' = IF Measures(gap) THEN 0 ELSE Later(measured, gap)
  /\ UNCHANGED policy

Steps(gap, objs, act) ==
  /\ ~converged /\ objs \in Measured(gap)
  /\ Later(optimized, gap) > OptimizationPeriod
  /\ optimized' = 0 /\ steps' = Min3(steps + 1, warmup_steps)
  /\ act \in step(objs)
  /\ objectives' = act.objectives /\ current' = act.current /\ nmd' = act.nmd
  /\ converged' = (act.current > Len(Types))
  /\ Actuate(act)
  /\ measured' = IF Measures(gap) THEN 0 ELSE Later(measured, gap)
  /\ UNCHANGED policy

LEMMA NextFacts ==
  ASSUME Kinds, Next
  PROVE  \E gap \in Gaps : \E objs : Waits(gap, objs) \/ \E act : Steps(gap, objs, act)
<1>1. PICK gap \in Gaps : optimize_locally(gap)
  BY DEF Next
<1>2. PICK objs \in Measured(gap) :
        IF Later(optimized, gap) > OptimizationPeriod
          THEN /\ optimized' = 0
               /\ steps' = Min3(steps + 1, warmup_steps)
               /\ \E act \in step(objs) :
                    /\ objectives' = act.objectives /\ current' = act.current /\ nmd' = act.nmd
                    /\ converged' = (act.current > Len(Types))
                    /\ Actuate(act)
          ELSE /\ optimized' = Later(optimized, gap)
               /\ objectives' = objs
               /\ UNCHANGED <<current, steps, converged, nmd, frequency, hardware>>
  BY <1>1 DEF optimize_locally, Measured, Measures
<1>3. ~converged /\ measured' = (IF Measures(gap) THEN 0 ELSE Later(measured, gap)) /\ UNCHANGED policy
  BY <1>1 DEF optimize_locally, Measures
<1>4. CASE Later(optimized, gap) > OptimizationPeriod
  <2>1. PICK act \in step(objs) :
          /\ objectives' = act.objectives /\ current' = act.current /\ nmd' = act.nmd
          /\ converged' = (act.current > Len(Types))
          /\ Actuate(act)
    BY <1>2, <1>4
  <2>2. Steps(gap, objs, act)
    BY <1>2, <1>3, <1>4, <2>1 DEF Steps
  <2>3. QED
    BY <2>2
<1>5. CASE ~(Later(optimized, gap) > OptimizationPeriod)
  <2>1. Later(optimized, gap) <= OptimizationPeriod
    BY <1>5, LaterFacts DEF Kinds, OptimizationPeriod
  <2>2. Waits(gap, objs)
    BY <1>2, <1>3, <1>5, <2>1 DEF Waits
  <2>3. QED
    BY <2>2
<1>6. QED
  BY <1>4, <1>5

\* Whatever the step, the samples taken stay taken.
LEMMA ActFacts ==
  ASSUME Kinds, ~converged, NEW objs, AllShaped(objs), NEW act \in step(objs)
  PROVE  /\ act.current \in {current, current + 1}
         /\ AllShaped(act.objectives)
         /\ \A k \in Objectives : act.objectives[k].taken = objs[k].taken
<1>1. CASE policy = "allscale" => steps + 1 < warmup_steps
  BY <1>1, QuietFacts DEF Kinds
<1>2. CASE policy = "allscale" /\ ~(steps + 1 < warmup_steps)
  <2>1. act \in AllscaleStep(objs) /\ current \in Objectives
    BY <1>2 DEF step, Kinds
  <2>2. PICK n : act.objectives = [objs EXCEPT ![current] = n] /\ Keeps(objs[current], n)
    BY <2>1, AllscaleFacts
  <2>3. Shaped(n) /\ n.taken = objs[current].taken
    BY <2>2 DEF Keeps
  <2>4. \A k \in Objectives : act.objectives[k] = IF k = current THEN n ELSE objs[k]
    BY <2>2 DEF AllShaped
  <2>5. act.objectives = [k \in Objectives |-> act.objectives[k]]
    BY <2>2 DEF AllShaped
  <2>6. AllShaped(act.objectives)
    BY <2>3, <2>4, <2>5 DEF AllShaped
  <2>7. \A k \in Objectives : act.objectives[k].taken = objs[k].taken
    BY <2>3, <2>4
  <2>8. act.current \in {current, current + 1}
    BY <2>1, AllscaleFacts
  <2>9. QED
    BY <2>6, <2>7, <2>8
<1>3. QED
  BY <1>1, <1>2

LEMMA KindsStep ==
  ASSUME Kinds, [Next]_vars
  PROVE  Kinds'
<1>1. CASE UNCHANGED vars
  BY <1>1 DEF vars, Kinds, AllShaped, Shaped, Objectives
<1>2. CASE Next
  <2>0. PICK gap \in Gaps : \E objs : Waits(gap, objs) \/ \E act : Steps(gap, objs, act)
    BY <1>2, NextFacts
  <2>1. PICK objs : Waits(gap, objs) \/ \E act : Steps(gap, objs, act)
    BY <2>0
  <2>2. AllShaped(objs)
    BY <2>1, MeasuredFacts DEF Waits, Steps
  <2>3. measured' \in 0 .. OptimizationPeriod + 1
    BY <2>1, LaterFacts DEF Waits, Steps, Kinds, OptimizationPeriod
  <2>4. CASE Waits(gap, objs)
    <3>1. AllShaped(objectives)'
      BY <2>2, <2>4 DEF Waits, AllShaped, Shaped, Objectives
    <3>2. optimized' \in 0 .. OptimizationPeriod + 1
      BY <2>4, LaterFacts DEF Waits, Kinds
    <3>3. QED
      BY <2>3, <2>4, <3>1, <3>2 DEF Waits, Kinds, Objectives
  <2>5. ASSUME NEW act, Steps(gap, objs, act)
        PROVE  Kinds'
    <3>1. ~converged /\ act \in step(objs) /\ act.current \in {current, current + 1} /\ AllShaped(act.objectives)
      BY <2>2, <2>5, ActFacts DEF Steps
    <3>2. AllShaped(objectives)'
      BY <2>5, <3>1 DEF Steps, AllShaped, Shaped, Objectives
    <3>3. steps' \in 0 .. warmup_steps /\ optimized' \in 0 .. OptimizationPeriod + 1
      BY <2>5 DEF Steps, Kinds, Min3, warmup_steps, OptimizationPeriod
    <3>4. current' \in Nat \ {0} /\ (~converged' => current' \in Objectives)
      <4>1. current' = act.current /\ converged' = (act.current > Len(Types)) /\ current \in Nat \ {0}
        BY <2>5 DEF Steps, Kinds
      <4>2. PICK cur : cur = act.current /\ cur \in Nat \ {0}
        BY <3>1, <4>1
      <4>3. cur \in Objectives \/ cur > Len(Types)
        BY <4>2, ObjectivesFacts
      <4>4. QED
        BY <4>1, <4>2, <4>3
    <3>5. policy' = policy
      BY <2>5 DEF Steps
    <3>6. QED
      BY <2>3, <3>2, <3>3, <3>4, <3>5 DEF Kinds, Objectives
  <2>6. QED
    BY <2>1, <2>4, <2>5
<1>3. QED
  BY <1>1, <1>2

LEMMA SamplesStep ==
  ASSUME Kinds, SamplesInTime, [Next]_vars
  PROVE  SamplesInTime'
<1>1. CASE UNCHANGED vars
  BY <1>1 DEF vars, SamplesInTime, InTime, Objectives
<1>2. CASE Next
  <2>0. PICK gap \in Gaps : \E objs : Waits(gap, objs) \/ \E act : Steps(gap, objs, act)
    BY <1>2, NextFacts
  <2>1. PICK objs : Waits(gap, objs) \/ \E act : Steps(gap, objs, act)
    BY <2>0
  <2>2. SUFFICES ASSUME policy' = "allscale", NEW k \in Objectives
                 PROVE  InTime(objectives[k].taken)'
    BY DEF SamplesInTime, Objectives
  <2>3. PICK taken : taken = objectives[k].taken
    OBVIOUS
  <2>4. /\ policy = "allscale" /\ AllShaped(objs) /\ objs[k].taken = NowTaken(taken, gap)
        /\ measured' = (IF Measures(gap) THEN 0 ELSE Later(measured, gap))
    BY <2>1, <2>2, <2>3, MeasuredFacts DEF Waits, Steps
  <2>5. InTime(taken) /\ taken \in 0 .. 3
    BY <2>2, <2>3, <2>4 DEF SamplesInTime, Kinds, AllShaped, Shaped
  <2>6. /\ measured \in 0 .. 6 /\ optimized \in 0 .. 6 /\ steps \in 0 .. 3
        /\ Later(measured, gap) \in 0 .. 6 /\ Later(optimized, gap) \in 0 .. 6
        /\ measured >= optimized => Later(measured, gap) >= Later(optimized, gap)
    BY LaterFacts DEF Kinds, OptimizationPeriod, warmup_steps
  <2>7. CASE Waits(gap, objs)
    <3>1. /\ objectives'[k].taken = NowTaken(taken, gap)
          /\ steps' = steps /\ optimized' = Later(optimized, gap) /\ Later(optimized, gap) <= 5
      BY <2>4, <2>7 DEF Waits, OptimizationPeriod
    <3>2. QED
      BY <2>4, <2>5, <2>6, <3>1 DEF InTime, NowTaken, Measures, Min3, MeasurementPeriod
  <2>8. ASSUME NEW act, Steps(gap, objs, act)
        PROVE  InTime(objectives[k].taken)'
    <3>1. ~converged /\ act \in step(objs)
      BY <2>8 DEF Steps
    <3>2. act.objectives[k].taken = objs[k].taken
      BY <2>4, <3>1, ActFacts
    <3>3. /\ objectives'[k].taken = NowTaken(taken, gap)
          /\ steps' = Min3(steps + 1, 3) /\ optimized' = 0 /\ Later(optimized, gap) > 5
      BY <2>4, <2>8, <3>2 DEF Steps, OptimizationPeriod, warmup_steps
    <3>4. QED
      BY <2>4, <2>5, <2>6, <3>3 DEF InTime, NowTaken, Measures, Min3, MeasurementPeriod
  <2>9. QED
    BY <2>1, <2>7, <2>8
<1>3. QED
  BY <1>1, <1>2

LEMMA SamplesInit ==
  ASSUME Init
  PROVE  Kinds /\ SamplesInTime
<1>1. \A k \in Objectives : objectives[k] = Blank
  BY DEF Init
<1>2. Shaped(Blank) /\ Blank.taken = 0
  BY DEF Blank, Shaped
<1>3. AllShaped(objectives)
  BY <1>1, <1>2 DEF Init, AllShaped
<1>4. Kinds
  BY <1>3, ObjectivesFacts DEF Init, Kinds, OptimizationPeriod, warmup_steps
<1>5. SamplesInTime
  BY <1>1, <1>2 DEF Init, SamplesInTime, InTime
<1>6. QED
  BY <1>4, <1>5

LEMMA SamplesEnough ==
  ASSUME Kinds, SamplesInTime
  PROVE  EnoughSamples
<1>1. Cardinality(NM!Rows) = 3
  <2>1. ASSUME NEW n \in Nat
        PROVE  Cardinality(1 .. n) = n
    BY FS_Interval
  <2>2. 3 \in Nat
    OBVIOUS
  <2>3. Cardinality(1 .. 3) = 3
    BY <2>1, <2>2, Zenon
  <2>4. QED
    BY <2>3, Zenon DEF NM!Rows
<1>2. SUFFICES ASSUME NEW gap \in Gaps, policy = "allscale", Later(optimized, gap) > OptimizationPeriod,
                      steps + 1 >= warmup_steps, NEW k \in Objectives
               PROVE  objectives[k].taken + (IF Later(measured, gap) > MeasurementPeriod THEN 1 ELSE 0) >= 3
  BY <1>1 DEF EnoughSamples
<1>3. PICK taken : taken = objectives[k].taken
  OBVIOUS
<1>4. InTime(taken) /\ taken \in 0 .. 3
  BY <1>2, <1>3 DEF SamplesInTime, Kinds, AllShaped, Shaped
<1>5. /\ measured \in 0 .. 6 /\ optimized \in 0 .. 6 /\ steps \in 0 .. 3
      /\ Later(measured, gap) \in 0 .. 6 /\ Later(optimized, gap) \in 0 .. 6
      /\ measured >= optimized => Later(measured, gap) >= Later(optimized, gap)
  BY LaterFacts DEF Kinds, OptimizationPeriod, warmup_steps
<1>6. QED
  BY <1>2, <1>3, <1>4, <1>5 DEF InTime, MeasurementPeriod, OptimizationPeriod, warmup_steps

\* The step that ends the warm-up finds three samples of every objective,
\* whatever the time between root work items: measurements and steps have
\* clocks of their own, and the vector of samples is read without a test.
THEOREM SamplesSuffice == Spec => []EnoughSamples
<1>1. Init => Kinds /\ SamplesInTime
  BY SamplesInit
<1>2. Kinds /\ SamplesInTime /\ [Next]_vars => (Kinds /\ SamplesInTime)'
  BY KindsStep, SamplesStep
<1>3. Kinds /\ SamplesInTime => EnoughSamples
  BY SamplesEnough
<1>4. QED
  BY <1>1, <1>2, <1>3, PTL DEF Spec

-----------------------------------------------------------------------------
(***************************************************************************)
(* The search for the first objective.                                     *)
(***************************************************************************)
LEMMA AppendFacts ==
  ASSUME NEW S, NEW s \in Seq(S), NEW e \in S, NEW n, Len(s) = n
  PROVE  Append(s, e) \in Seq(S) /\ Len(Append(s, e)) = n + 1
OBVIOUS

LEMMA SampleReadable ==
  ASSUME NEW o, Shaped(o), Readable(o), current \in Nat \ {0}, ~o.initialized => frequency \in Nat,
         NEW value \in Nat
  PROVE  Readable(Sample(o, 1, value))
<1> DEFINE first == IF Len(o.first) < 3 /\ ~o.initialized THEN Append(o.first, <<value, frequency>>) ELSE o.first
           taken == Min3(o.taken + 1, 3)
           last == IF 1 > current THEN o.last
                   ELSE IF o.last = <<>> \/ 1 = Len(Types) THEN <<value>> ELSE <<value, Head(o.last)>>
           globalmax == IF value > o.globalmax /\ 1 < Len(Types) THEN value ELSE o.globalmax
           n == Sample(o, 1, value)
<1>1. n = [o EXCEPT !.first = first, !.taken = taken, !.last = last, !.globalmax = globalmax]
  BY DEF Sample, Shaped
<1>2. Head(last) = value
  OBVIOUS
<1>3. ASSUME ~o.initialized
      PROVE  first \in Seq(Nat \X Nat) /\ Len(first) = taken
  <2>1. o.first \in Seq(Nat \X Nat) /\ Len(o.first) = o.taken /\ o.taken \in 0 .. 3
    BY <1>3 DEF Readable, Shaped
  <2>2. <<value, frequency>> \in Nat \X Nat
    BY <1>3
  <2>3. CASE o.taken < 3
    <3>1. first = Append(o.first, <<value, frequency>>)
      BY <1>3, <2>1, <2>3
    <3>2. taken = o.taken + 1
      BY <2>1, <2>3 DEF Min3
    <3>3. QED
      BY <2>1, <2>2, <3>1, <3>2, AppendFacts
  <2>4. CASE ~(o.taken < 3)
    <3>1. first = o.first
      BY <2>1, <2>4
    <3>2. taken = o.taken
      BY <2>1, <2>4 DEF Min3
    <3>3. QED
      BY <2>1, <3>1, <3>2
  <2>5. QED
    BY <2>3, <2>4
<1>4. n.first = first /\ n.taken = taken /\ n.last = last /\ (n.initialized <=> o.initialized)
  <2> HIDE DEF n, first, last, globalmax, taken
  <2>1. QED
    BY <1>1 DEF Shaped
<1>5. Readable(n)
  <2> HIDE DEF n, first, last, globalmax, taken
  <2>1. QED
    BY <1>2, <1>3, <1>4 DEF Readable
<1>6. QED
  BY <1>5

\* A search that is initialised from three samples.
LEMMA InitialisedFacts ==
  ASSUME NEW o, Readable(o), ~o.initialized, o.taken = 3, NEW search \in Searching(o), nmd = NM!Fresh
  PROVE  SearchInv(search)
<1>1. PICK vh, limit, v, f :
        /\ vh \in NM!Rows
        /\ f = <<o.first[1][1], o.first[2][1], o.first[3][1]>>
        /\ search = [[nmd EXCEPT !.vh = vh] EXCEPT !.v = v, !.f = f, !.itr = 0, !.limit = limit]
  <2> DEFINE Params(j) == <<MaxThreads, o.first[j][2]>>
             Value(j)  == o.first[j][1]
             params == <<Params(1), Params(2), Params(3)>>
             v == <<NM!Quarters(params[1]), NM!Quarters(params[2]), NM!Quarters(params[3])>>
             f == <<Value(1), Value(2), Value(3)>>
  <2>1. nmd.vh = NM!Uninitialised
    BY DEF NM!Fresh, NM!Uninitialised
  <2>2. PICK vh \in NM!Rows, limit \in Limits :
          search = NM!initialize_simplex([nmd EXCEPT !.vh = vh], params, f, limit)
    BY <2>1 DEF Searching, NM!Each
  <2>3. search = [[nmd EXCEPT !.vh = vh] EXCEPT !.v = v, !.f = f, !.itr = 0, !.limit = limit]
    BY <2>2 DEF NM!initialize_simplex, NM!Each
  <2>4. f = <<o.first[1][1], o.first[2][1], o.first[3][1]>>
    OBVIOUS
  <2> HIDE DEF v, f
  <2>5. QED
    BY <2>3, <2>4
<1>2. f \in [NM!Rows -> Nat]
  <2>1. o.first \in Seq(Nat \X Nat) /\ Len(o.first) = 3
    BY DEF Readable
  <2>2. o.first[1] \in Nat \X Nat /\ o.first[2] \in Nat \X Nat /\ o.first[3] \in Nat \X Nat
    BY <2>1
  <2>3. o.first[1][1] \in Nat /\ o.first[2][1] \in Nat /\ o.first[3][1] \in Nat
    BY <2>2
  <2>4. QED
    BY <1>1, <2>3 DEF NM!Rows
<1>3. /\ search.f = f /\ search.vh = vh /\ search.state = "start"
      /\ search = [v |-> search.v, f |-> search.f, vr |-> search.vr, vm |-> search.vm, p |-> search.p,
                   fr |-> search.fr, vs |-> search.vs, vh |-> search.vh, vg |-> search.vg,
                   itr |-> search.itr, min |-> search.min, limit |-> search.limit,
                   state |-> search.state, try |-> search.try, converged |-> search.converged]
  BY <1>1 DEF NM!Fresh
<1>4. QED
  BY <1>1, <1>2, <1>3 DEF SearchInv, Fields

LEMMA FirstReadable ==
  ASSUME Kinds, FirstSearch, policy = "allscale", NEW gap, NEW objs \in Measured(gap)
  PROVE  Readable(objs[1]) /\ (objs[1].initialized <=> objectives[1].initialized)
<1>1. CASE Measures(gap)
  <2>1. objs \in measureObjective(objectives)
    BY <1>1 DEF Measured
  <2>2. objs[1].initialized = objectives[1].initialized
    BY <2>1, MeasureFacts, ObjectivesFacts
  <2>3. PICK value \in Nat : objs[1] = Sample(objectives[1], 1, value)
    BY <2>1, MeasureFacts
  <2>4. Shaped(objectives[1]) /\ current \in Nat \ {0}
    BY ObjectivesFacts DEF Kinds, AllShaped
  <2>5. Readable(objectives[1]) /\ (~objectives[1].initialized => frequency \in Nat)
    BY DEF FirstSearch
  <2>6. Readable(objs[1])
    BY <2>3, <2>4, <2>5, SampleReadable
  <2>7. QED
    BY <2>2, <2>6
<1>2. CASE ~Measures(gap)
  <2>1. objs = objectives
    BY <1>2 DEF Measured
  <2>2. QED
    BY <2>1 DEF FirstSearch
<1>3. QED
  BY <1>1, <1>2

\* A step of the search for the first objective: it is initialised from three
\* samples, or goes on from what it knows.
LEMMA FirstStepFacts ==
  ASSUME Kinds, SamplesInTime, FirstSearch, current = 1,
         policy = "allscale", ~(steps + 1 < warmup_steps),
         NEW gap \in Gaps, NEW objs, NEW act, Steps(gap, objs, act)
  PROVE  /\ SearchInv(act.nmd)
         /\ objectives[1].initialized => NoWorse(act.nmd.f, nmd.f)
         /\ act.objectives[1].initialized /\ Readable(act.objectives[1])
<1>1. /\ ~converged /\ objs \in Measured(gap) /\ act \in AllscaleStep(objs)
      /\ Later(optimized, gap) > OptimizationPeriod /\ 1 \in Objectives
  BY ObjectivesFacts DEF Steps, step
<1>2. /\ AllShaped(objs) /\ Readable(objs[1]) /\ (objs[1].initialized <=> objectives[1].initialized)
  BY <1>1, MeasuredFacts, FirstReadable
<1>3. objs[1].taken = 3
  <2>1. PICK taken : taken = objectives[1].taken
    OBVIOUS
  <2>2. objs[1].taken = NowTaken(taken, gap)
    BY <1>1, <2>1, MeasuredFacts
  <2>3. InTime(taken) /\ taken \in 0 .. 3
    BY <1>1, <2>1 DEF SamplesInTime, Kinds, AllShaped, Shaped
  <2>4. /\ measured \in 0 .. 6 /\ optimized \in 0 .. 6 /\ steps \in 0 .. 3
        /\ Later(measured, gap) \in 0 .. 6 /\ Later(optimized, gap) \in 0 .. 6
        /\ measured >= optimized => Later(measured, gap) >= Later(optimized, gap)
    BY LaterFacts DEF Kinds, OptimizationPeriod, warmup_steps
  <2>5. QED
    BY <1>1, <2>2, <2>3, <2>4
       DEF InTime, NowTaken, Measures, Min3, MeasurementPeriod, OptimizationPeriod, warmup_steps
<1>4. PICK search \in Searching(objs[1]) : act.nmd \in NM!step(search, Head(objs[1].last))
  BY <1>1, <1>2, AllscaleFacts
<1>5. Head(objs[1].last) \in Nat
  BY <1>2, <1>3 DEF Readable
<1>6. SearchInv(search) /\ (objectives[1].initialized => search = nmd)
  <2>1. CASE objectives[1].initialized
    <3>1. search = nmd
      <4>1. objs[1].initialized
        BY <1>2, <2>1
      <4>2. Searching(objs[1]) = {nmd}
        BY <4>1 DEF Searching, NM!Each
      <4>3. QED
        BY <1>4, <4>2
    <3>2. QED
      BY <2>1, <3>1 DEF FirstSearch
  <2>2. CASE ~objectives[1].initialized
    <3>1. nmd = NM!Fresh
      BY <2>2 DEF FirstSearch
    <3>2. QED
      BY <1>2, <1>3, <1>4, <2>2, <3>1, InitialisedFacts
  <2>3. QED
    BY <2>1, <2>2
<1>7. SearchInv(act.nmd) /\ NoWorse(act.nmd.f, search.f)
  BY <1>4, <1>5, <1>6, StepFacts
<1>8. PICK n : act.objectives = [objs EXCEPT ![1] = n] /\ Keeps(objs[1], n)
  BY <1>1, <1>2, AllscaleFacts
<1>9. act.objectives[1] = n
  BY <1>1, <1>2, <1>8 DEF AllShaped
<1>10. n.initialized /\ n.last = objs[1].last
  BY <1>8 DEF Keeps
<1>11. Readable(n)
  BY <1>5, <1>10 DEF Readable
<1>12. QED
  BY <1>6, <1>7, <1>9, <1>10, <1>11

LEMMA PrimedFacts ==
  /\ SearchInv(nmd') => SearchInv(nmd)'
  /\ Readable(objectives[1]') => Readable(objectives[1])'
<1>1. SearchInv(nmd') => SearchInv(nmd)'
  BY DEF SearchInv, Fields, Least, Greatest
<1>2. Readable(objectives[1]') => Readable(objectives[1])'
  BY DEF Readable
<1>3. QED
  BY <1>1, <1>2

LEMMA FirstStep ==
  ASSUME Kinds, SamplesInTime, FirstSearch, [Next]_vars
  PROVE  /\ FirstSearch'
         /\ objectives[1].initialized /\ current = 1 /\ current' = 1 =>
              \/ nmd' = nmd
              \/ SearchInv(nmd') /\ NoWorse((nmd').f, nmd.f)
<1>1. CASE UNCHANGED vars
  <2>1. nmd' = nmd
    BY <1>1 DEF vars
  <2>2. /\ objectives[1]' = objectives[1] /\ policy' = policy /\ current' = current
        /\ frequency' = frequency
    BY <1>1 DEF vars
  <2>3. FirstSearch'
    BY <2>1, <2>2, PrimedFacts DEF FirstSearch
  <2>4. QED
    BY <2>1, <2>3
<1>2. CASE Next
  <2>0. PICK gap \in Gaps : \E objs : Waits(gap, objs) \/ \E act : Steps(gap, objs, act)
    BY <1>2, NextFacts
  <2>1. PICK objs : Waits(gap, objs) \/ \E act : Steps(gap, objs, act)
    BY <2>0
  <2>2. objs \in Measured(gap) /\ ~converged /\ policy' = policy
    BY <2>1 DEF Waits, Steps
  <2>3. policy # "allscale" => objs = objectives
    BY <2>2, MeasureFacts DEF Measured
  <2>4. policy = "allscale" => Readable(objs[1])
    BY <2>2, FirstReadable
  <2>5. objs[1].initialized <=> objectives[1].initialized
    BY <2>2, <2>3, FirstReadable
  <2>6. ASSUME objectives' = objs, current' = current, nmd' = nmd,
               policy = "allscale" /\ ~objectives[1].initialized => frequency' \in Nat
        PROVE  FirstSearch'
    <3>1. policy = "allscale" => Readable(objectives[1])'
      BY <2>4, <2>6, PrimedFacts
    <3>2. (objectives[1].initialized)' <=> objectives[1].initialized
      BY <2>5, <2>6
    <3>3. SearchInv(nmd) => SearchInv(nmd)'
      BY <2>6, PrimedFacts
    <3>4. QED
      BY <2>2, <2>6, <3>1, <3>2, <3>3 DEF FirstSearch
  <2>7. CASE Waits(gap, objs)
    <3>1. objectives' = objs /\ current' = current /\ nmd' = nmd /\ frequency' = frequency
      BY <2>7 DEF Waits
    <3>2. policy = "allscale" /\ ~objectives[1].initialized => frequency' \in Nat
      BY <3>1 DEF FirstSearch
    <3>3. QED
      BY <2>6, <3>1, <3>2
  <2>8. ASSUME NEW act, Steps(gap, objs, act), policy = "allscale" => steps + 1 < warmup_steps
        PROVE  FirstSearch' /\ nmd' = nmd
    <3>1. policy \in {"allscale", "random", "manual"} /\ act \in step(objs) /\ Actuate(act)
          /\ objectives' = act.objectives /\ current' = act.current /\ nmd' = act.nmd
      BY <2>8 DEF Steps, Kinds
    <3>2. /\ act.objectives = objs /\ act.current = current /\ act.nmd = nmd
          /\ policy = "allscale" => act.frequency_idx \in Nat
      BY <2>8, <3>1, QuietFacts
    <3>3. frequency' = act.frequency_idx \/ frequency' = frequency
      BY <3>1 DEF Actuate
    <3>4. policy = "allscale" /\ ~objectives[1].initialized => frequency' \in Nat
      BY <3>2, <3>3 DEF FirstSearch
    <3>5. QED
      BY <2>6, <3>1, <3>2, <3>4
  <2>9. ASSUME NEW act, Steps(gap, objs, act), policy = "allscale", ~(steps + 1 < warmup_steps),
               current = 1
        PROVE  FirstSearch' /\ SearchInv(nmd') /\ (objectives[1].initialized => NoWorse((nmd').f, nmd.f))
    <3>1. /\ SearchInv(act.nmd)
          /\ objectives[1].initialized => NoWorse(act.nmd.f, nmd.f)
          /\ act.objectives[1].initialized /\ Readable(act.objectives[1])
      BY <2>9, FirstStepFacts
    <3>2. objectives' = act.objectives /\ nmd' = act.nmd
      BY <2>9 DEF Steps
    <3>3. SearchInv(nmd)' /\ Readable(objectives[1])' /\ (objectives[1].initialized)'
      BY <3>1, <3>2, PrimedFacts
    <3>4. FirstSearch'
      BY <2>2, <2>9, <3>3 DEF FirstSearch
    <3>5. QED
      BY <3>1, <3>2, <3>4
  <2>10. ASSUME NEW act, Steps(gap, objs, act), policy = "allscale", ~(steps + 1 < warmup_steps),
                current # 1
         PROVE  FirstSearch'
    <3>1. act \in AllscaleStep(objs) /\ current \in Objectives /\ AllShaped(objs) /\ 1 \in Objectives
      BY <2>2, <2>10, MeasuredFacts, ObjectivesFacts DEF Steps, step, Kinds
    <3>2. act.current \in {current, current + 1}
      BY <3>1, AllscaleFacts
    <3>3. PICK n : act.objectives = [objs EXCEPT ![current] = n]
      BY <3>1, AllscaleFacts
    <3>4. act.objectives[1] = objs[1]
      BY <2>10, <3>1, <3>3 DEF AllShaped
    <3>5. objectives' = act.objectives /\ current' = act.current
      BY <2>10 DEF Steps
    <3>6. current' # 1
      BY <2>10, <3>2, <3>5 DEF Kinds
    <3>7. (objectives[1].initialized)'
      BY <2>5, <2>10, <3>4, <3>5 DEF FirstSearch
    <3>8. Readable(objectives[1])'
      BY <2>4, <2>10, <3>4, <3>5, PrimedFacts
    <3>9. QED
      BY <2>2, <2>10, <3>6, <3>7, <3>8 DEF FirstSearch
  <2>11. ASSUME NEW act, Steps(gap, objs, act)
         PROVE  /\ FirstSearch'
                /\ objectives[1].initialized /\ current = 1 =>
                     nmd' = nmd \/ (SearchInv(nmd') /\ NoWorse((nmd').f, nmd.f))
    BY <2>8, <2>9, <2>10, <2>11
  <2>12. QED
    <3>1. CASE Waits(gap, objs)
      BY <2>7, <3>1 DEF Waits
    <3>2. CASE \E act : Steps(gap, objs, act)
      BY <2>11, <3>2
    <3>3. QED
      BY <2>1, <3>1, <3>2
<1>3. QED
  BY <1>1, <1>2

LEMMA FirstInit ==
  ASSUME Init
  PROVE  FirstSearch
<1>1. objectives[1] = Blank /\ current = 1 /\ nmd = NM!Fresh /\ frequency = 0
  BY ObjectivesFacts DEF Init
<1>2. Readable(Blank) /\ ~Blank.initialized
  BY DEF Blank, Readable
<1>3. QED
  BY <1>1, <1>2 DEF FirstSearch

\* With FirstSearch on both sides the best value is that of vs_index.
LEMMA BestFacts ==
  ASSUME NEW nm, NEW m, SearchInv(nm), SearchInv(m), m = nm \/ NoWorse(m.f, nm.f)
  PROVE  m.f[NM!vs_index(m.f)] <= nm.f[NM!vs_index(nm.f)]
<1>1. m.f \in [NM!Rows -> Nat] /\ nm.f \in [NM!Rows -> Nat]
  BY DEF SearchInv, Fields
<1>2. PICK s, t : /\ s = NM!vs_index(m.f) /\ s \in NM!Rows /\ Least(m.f, s)
                  /\ t = NM!vs_index(nm.f) /\ t \in NM!Rows
  <2>1. \E vh : vh \in NM!Rows
    BY DEF NM!Rows
  <2>2. QED
    BY <1>1, <2>1, Indices
<1>3. CASE m = nm
  BY <1>1, <1>2, <1>3
<1>4. CASE NoWorse(m.f, nm.f)
  <2>1. PICK k \in NM!Rows : m.f[k] <= nm.f[t]
    BY <1>2, <1>4 DEF NoWorse
  <2>2. m.f[s] <= m.f[k]
    BY <1>2 DEF Least
  <2>3. m.f[s] \in Nat /\ m.f[k] \in Nat /\ nm.f[t] \in Nat
    BY <1>1, <1>2
  <2>4. m.f[s] <= nm.f[t]
    BY <2>1, <2>2, <2>3
  <2>5. QED
    BY <1>2, <2>4
<1>5. QED
  BY <1>3, <1>4

\* While the first objective is searched for, the best value of the simplex
\* never gets worse: a call of step replaces the best vertex only by a better
\* one, although it takes vg, vs and vh, and the value of the reflected point,
\* from earlier calls.
THEOREM SearchKeepsBest == Spec => BestKept
<1>1. Init => OptimizerInv
  BY SamplesInit, FirstInit DEF OptimizerInv
<1>2. OptimizerInv /\ [Next]_vars => OptimizerInv'
  BY KindsStep, SamplesStep, FirstStep DEF OptimizerInv
<1>3. OptimizerInv /\ OptimizerInv' /\ [Next]_vars =>
        [(objectives[1].initialized /\ current = 1 /\ current' = 1) => Best' <= Best]_vars
  <2>1. SUFFICES ASSUME OptimizerInv, OptimizerInv', [Next]_vars,
                        objectives[1].initialized, current = 1, current' = 1
                 PROVE  Best' <= Best
    OBVIOUS
  <2>2. Kinds /\ SamplesInTime /\ FirstSearch
    BY <2>1 DEF OptimizerInv
  <2>3. nmd' = nmd \/ (SearchInv(nmd') /\ NoWorse((nmd').f, nmd.f))
    BY <2>1, <2>2, FirstStep
  <2>4. SearchInv(nmd)
    BY <2>1, <2>2 DEF FirstSearch
  <2>5. SearchInv(nmd')
    BY <2>3, <2>4
  <2>6. (nmd').f[NM!vs_index((nmd').f)] <= nmd.f[NM!vs_index(nmd.f)]
    BY <2>3, <2>4, <2>5, BestFacts
  <2>7. QED
    BY <2>6 DEF Best
<1>4. QED
  BY <1>1, <1>2, <1>3, PTL DEF Spec, BestKept
===============================================================================
