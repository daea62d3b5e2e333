---------------------------- MODULE MonitorProofs ----------------------------
(***************************************************************************)
(* The two queues of the monitor lose no profile, the samples no work item *)
(* and the task times nothing but what floats round, for every number of   *)
(* localities and of work items, every threshold of the queues, every      *)
(* tracking level, every size of significand and every placement.          *)
(***************************************************************************)
EXTENDS Monitor, FiniteSetTheorems, WellFoundedInduction, TLAPS

\* What the queues need of the constants: the paths of the items do not matter to them.
LEMMA Places ==
  /\ 0 \in Ranks /\ IsFiniteSet(Ranks) /\ IsFiniteSet(Items)
  /\ Place \in [Items -> Ranks] /\ Splits \subseteq Items
  /\ MIN_QUEUE_ELEMS \in Nat \ {0} /\ MaxSamples \in [Ranks -> Nat]
BY MonitorAssumption, Zenon

Finished == {"queued", "notify", "counted"}

\* The types of what the handlers, the worker and stop share.  Task times are
\* independent of it: their invariant is TimesInv.
StateType ==
  /\ output \in BOOLEAN
  /\ item \in [Items -> {"spawned", "started", "timed", "queued", "notify", "counted"}]
  /\ queues \in [Ranks -> [{0, 1} -> SUBSET Items]]
  /\ read \in [Ranks -> {0, 1}] /\ write \in [Ranks -> {0, 1}]
  /\ worker \in [Ranks -> {"start", "wait", "awake", "drain", "ended"}]
  /\ profiles \in [Ranks -> SUBSET Items]
  /\ done \in [Ranks -> BOOLEAN]
  /\ stopping \in [Ranks -> {"no", "called", "done", "joining", "joined", "gathered", "returned"}]
  /\ stop_calls \subseteq Ranks \ {0}
  /\ statistics \subseteq Items

\* The worker reads the queue the handlers write to except while it drains one,
\* and then has left nothing behind in the other.
QueuesInStep ==
  \A r \in Ranks :
    IF worker[r] = "drain" THEN read[r] # write[r]
    ELSE read[r] = write[r] /\ \A q \in {0, 1} : q # read[r] => queues[r][q] = {}

\* The profile of a finished item is in a queue of its rank or processed, and
\* nothing else is.
Profiled(r) == profiles[r] \cup queues[r][0] \cup queues[r][1]
NoneMissing ==
  \A r \in Ranks :
    /\ \A i \in At(r) : item[i] \in Finished => i \in Profiled(r)
    /\ Profiled(r) \subseteq At(r)

\* stop comes when all work items are done, and the worker ends after it.
StopsLast ==
  /\ (stop_calls # {} \/ \E r \in Ranks : stopping[r] # "no" \/ done[r])
       => \A i \in Items : item[i] = "counted"
  /\ \A r \in Ranks : worker[r] = "ended" => done[r] /\ queues[r][0] = {} /\ queues[r][1] = {}
  /\ \A r \in Ranks : stopping[r] \in {"joined", "gathered", "returned"} => worker[r] = "ended"

Gathered == stopping[0] \in {"gathered", "returned"} /\ output => statistics = Items

QueueInv == StateType /\ QueuesInStep /\ NoneMissing /\ StopsLast /\ Gathered

LEMMA InitQueueInv == Init => QueueInv
BY Places
   DEF Init, QueueInv, StateType, QueuesInStep, NoneMissing, Profiled, StopsLast, Gathered,
       At, Finished

LEMMA QueueInvProperties == QueueInv => QueuesApart /\ AllProfiled /\ StatisticsComplete
<1> SUFFICES ASSUME QueueInv PROVE QueuesApart /\ AllProfiled /\ StatisticsComplete
  OBVIOUS
<1>2. AllProfiled
  BY Places
     DEF QueueInv, StopsLast, NoneMissing, Profiled, AllProfiled, At, Finished, StateType
<1>3. StatisticsComplete
  BY DEF QueueInv, Gathered, StatisticsComplete
<1>4. QED
  BY <1>2, <1>3 DEF QueueInv, QueuesApart, QueuesInStep

(***************************************************************************)
(* The steps of the work items.                                            *)
(***************************************************************************)
LEMMA ItemInv ==
  ASSUME QueueInv, NEW i \in Items, ItemStep(i)
  PROVE  QueueInv'
<1> USE Places DEF QueueInv, StateType, itemVars, workerVars, stopVars
<1>0. Place[i] \in Ranks
  OBVIOUS
<1>1. CASE ExecStart(i)
  BY <1>1 DEF ExecStart, QueuesInStep, NoneMissing, StopsLast, Gathered, Profiled, At, Finished
<1>2. CASE add_task_time(i)
  BY <1>2 DEF add_task_time, QueuesInStep, NoneMissing, StopsLast, Gathered, Profiled, At, Finished
<1>3. CASE ExecFinish(i)
  <2> DEFINE r == Place[i]
             q == queues[r][write[r]] \cup {i}
  <2>1. item[i] # "counted" /\ worker[r] # "ended"
    BY <1>3 DEF ExecFinish, StopsLast
  <2>2. /\ queues' = [queues EXCEPT ![r][write[r]] = q]
        /\ item' = [item EXCEPT ![i] = item'[i]] /\ item'[i] \in {"notify", "queued"}
        /\ UNCHANGED <<output, write, workerVars, stopVars>>
    BY <1>3 DEF ExecFinish
  <2>3. StateType'
    <3>1. write[r] \in {0, 1} /\ queues[r] \in [{0, 1} -> SUBSET Items] /\ q \in SUBSET Items
      BY <1>0
    <3>2. queues' \in [Ranks -> [{0, 1} -> SUBSET Items]]
      <4> HIDE DEF q, r
      <4> QED BY <2>2, <3>1
    <3>3. item' \in [Items -> {"spawned", "started", "timed", "queued", "notify", "counted"}]
      BY <2>2
    <3>4. QED
      <4> HIDE DEF q, r
      <4> QED BY <2>2, <3>2, <3>3
  <2>4. QueuesInStep'
    BY <2>2 DEF QueuesInStep
  <2>5. NoneMissing'
    BY <2>2 DEF NoneMissing, Profiled, At, Finished
  <2>6. StopsLast' /\ Gathered'
    BY <2>1, <2>2 DEF StopsLast, Gathered
  <2>7. QED
    BY <2>3, <2>4, <2>5, <2>6
<1>4. CASE Notify(i)
  BY <1>4 DEF Notify, Woken, QueuesInStep, NoneMissing, StopsLast, Gathered, Profiled, At, Finished
<1>5. CASE Count(i)
  BY <1>5 DEF Count, QueuesInStep, NoneMissing, StopsLast, Gathered, Profiled, At, Finished
<1>6. QED
  BY <1>1, <1>2, <1>3, <1>4, <1>5 DEF ItemStep

(***************************************************************************)
(* The steps of the worker.                                                *)
(***************************************************************************)
\* The head of the loop, when the worker has nothing left to drain: either it
\* waits, or the last queue is taken with all that can be in it.
LEMMA LoopHeadInv ==
  ASSUME QueueInv, NEW r \in Ranks, LoopHead(r, write[r]), worker[r] # "ended",
         \A q \in {0, 1} : q # write[r] => queues[r][q] = {},
         read' \in [Ranks -> {0, 1}], read'[r] = write[r],
         \A s \in Ranks : s # r => read'[s] = read[s],
         UNCHANGED <<output, item, write, stopVars>>
  PROVE  QueueInv'
<1> USE Places DEF QueueInv, StateType, stopVars
<1>1. CASE done[r]
  <2>1. /\ worker' = [worker EXCEPT ![r] = "ended"]
        /\ profiles' = [profiles EXCEPT ![r] = @ \cup queues[r][write[r]]]
        /\ queues' = [queues EXCEPT ![r][write[r]] = {}]
    BY <1>1 DEF LoopHead
  <2>2. StateType'
    BY <2>1
  <2>3. /\ queues'[r][0] = {} /\ queues'[r][1] = {}
        /\ \A s \in Ranks : s # r => queues'[s] = queues[s]
    BY <2>1
  <2>4. profiles'[r] = Profiled(r) /\ \A s \in Ranks : s # r => profiles'[s] = profiles[s]
    BY <2>1 DEF Profiled
  <2>5. QueuesInStep'
    BY <2>1, <2>3 DEF QueuesInStep
  <2>6. NoneMissing'
    BY <2>3, <2>4 DEF NoneMissing, Profiled, At
  <2>7. StopsLast' /\ Gathered'
    BY <1>1, <2>1, <2>3 DEF StopsLast, Gathered
  <2>8. QED
    BY <2>2, <2>5, <2>6, <2>7
<1>2. CASE ~done[r]
  <2>1. worker' = [worker EXCEPT ![r] = "wait"] /\ UNCHANGED <<profiles, queues>>
    BY <1>2 DEF LoopHead
  <2>2. QueuesInStep'
    BY <2>1 DEF QueuesInStep
  <2>3. NoneMissing' /\ StopsLast' /\ Gathered'
    BY <1>2, <2>1 DEF NoneMissing, StopsLast, Gathered, Profiled, At
  <2>4. QED
    BY <2>1, <2>2, <2>3
<1>3. QED
  BY <1>1, <1>2

LEMMA WorkerInv ==
  ASSUME QueueInv, NEW r \in Ranks, WorkerStep(r) \/ Spurious(r)
  PROVE  QueueInv'
<1> USE Places DEF QueueInv, StateType, itemVars, workerVars, stopVars
<1>1. CASE ProcessStart(r)
  <2>1. read[r] = write[r] /\ \A q \in {0, 1} : q # write[r] => queues[r][q] = {}
    BY <1>1 DEF ProcessStart, QueuesInStep
  <2>2. QED
    BY <1>1, <2>1, LoopHeadInv DEF ProcessStart
<1>2. CASE SwitchWrite(r)
  BY <1>2 DEF SwitchWrite, QueuesInStep, NoneMissing, StopsLast, Gathered, Profiled, At, Finished
<1>3. CASE ProcessOne(r)
  BY <1>3 DEF ProcessOne, QueuesInStep, NoneMissing, StopsLast, Gathered, Profiled, At, Finished
<1>4. CASE SwitchRead(r)
  <2>1. read' = [read EXCEPT ![r] = (@ + 1) % 2] /\ read[r] # write[r]
    BY <1>4 DEF SwitchRead, QueuesInStep
  <2>2. read'[r] = write[r] /\ read' \in [Ranks -> {0, 1}]
    BY <2>1
  <2>3. \A q \in {0, 1} : q # write[r] => queues[r][q] = {}
    BY <1>4, <2>1 DEF SwitchRead
  <2>4. QED
    BY <1>4, <2>1, <2>2, <2>3, LoopHeadInv DEF SwitchRead
<1>5. CASE Spurious(r)
  BY <1>5 DEF Spurious, Woken, QueuesInStep, NoneMissing, StopsLast, Gathered, Profiled, At, Finished
<1>6. QED
  BY <1>1, <1>2, <1>3, <1>4, <1>5 DEF WorkerStep

(***************************************************************************)
(* The steps of stop.                                                      *)
(***************************************************************************)
LEMMA StopInv ==
  ASSUME QueueInv, StopFirst \/ \E r \in Ranks : StopStep(r)
  PROVE  QueueInv'
<1> USE Places DEF QueueInv, StateType, itemVars, workerVars
<1>1. CASE StopFirst
  BY <1>1 DEF StopFirst, QueuesInStep, NoneMissing, StopsLast, Gathered, Profiled, At, Finished
<1>2. ASSUME NEW r \in Ranks, StopOther(r)
      PROVE  QueueInv'
  BY <1>2 DEF StopOther, QueuesInStep, NoneMissing, StopsLast, Gathered, Profiled, At, Finished
<1>3. ASSUME NEW r \in Ranks, SetDone(r)
      PROVE  QueueInv'
  BY <1>3 DEF SetDone, QueuesInStep, NoneMissing, StopsLast, Gathered, Profiled, At, Finished
<1>4. ASSUME NEW r \in Ranks, NotifyDone(r)
      PROVE  QueueInv'
  BY <1>4 DEF NotifyDone, Woken, QueuesInStep, NoneMissing, StopsLast, Gathered, Profiled, At,
              Finished
<1>5. ASSUME NEW r \in Ranks, Join(r)
      PROVE  QueueInv'
  BY <1>5 DEF Join, QueuesInStep, NoneMissing, StopsLast, Gathered, Profiled, At, Finished
<1>6. ASSUME NEW r \in Ranks, Gather(r)
      PROVE  QueueInv'
  <2>1. r = 0 /\ output => UNION {profiles[o] : o \in Ranks} = Items
    <3>1. \A o \in Ranks : r = 0 /\ output => profiles[o] = At(o)
      BY <1>6, QueueInvProperties DEF Gather, StopsLast, AllProfiled
    <3>2. UNION {At(o) : o \in Ranks} = Items
      BY DEF At
    <3>3. QED
      BY <3>1, <3>2
  <2>2. Gathered' /\ StateType'
    BY <1>6, <2>1 DEF Gather, Gathered
  <2>3. QED
    BY <1>6, <2>2 DEF Gather, QueuesInStep, NoneMissing, StopsLast, Profiled, At, Finished
<1>7. ASSUME NEW r \in Ranks, Return(r)
      PROVE  QueueInv'
  BY <1>7 DEF Return, QueuesInStep, NoneMissing, StopsLast, Gathered, Profiled, At, Finished
<1>8. QED
  BY <1>1, <1>2, <1>3, <1>4, <1>5, <1>6, <1>7 DEF StopStep

LEMMA NextQueueInv ==
  ASSUME QueueInv, [Next]_vars
  PROVE  QueueInv'
<1>1. ASSUME NEW r \in Ranks, sample_node(r) \/ get_task_times(r)
      PROVE  QueueInv'
  BY <1>1 DEF sample_node, get_task_times, QueueInv, StateType, QueuesInStep, NoneMissing,
     StopsLast, Gathered, Profiled, At, workerVars, stopVars
<1>2. CASE UNCHANGED vars
  BY <1>2 DEF vars, QueueInv, StateType, QueuesInStep, NoneMissing, StopsLast, Gathered, Profiled, At
<1>3. QED
  BY <1>1, <1>2, ItemInv, WorkerInv, StopInv DEF Next

\* While the worker empties a queue without m_queue no handler writes to that
\* queue (process_profiles, w_exec_process_finish_wrapper).
THEOREM QueuesStayApart == Spec => []QueuesApart
<1>1. QueueInv => QueuesApart
  BY QueueInvProperties
<1>2. QED
  BY <1>1, InitQueueInv, NextQueueInv, PTL DEF Spec

\* No profile is lost: when the worker of a locality has ended it has processed
\* the profiles of exactly the work items that ran there.
THEOREM EveryProfileProcessed == Spec => []AllProfiled
<1>1. QueueInv => AllProfiled
  BY QueueInvProperties
<1>2. QED
  BY <1>1, InitQueueInv, NextQueueInv, PTL DEF Spec

\* What rank 0 prints at the end covers the work items of all localities.
THEOREM StatisticsOfAll == Spec => []StatisticsComplete
<1>1. QueueInv => StatisticsComplete
  BY QueueInvProperties
<1>2. QED
  BY <1>1, InitQueueInv, NextQueueInv, PTL DEF Spec

(***************************************************************************)
(* Sampling.                                                               *)
(***************************************************************************)
CountType ==
  /\ item \in [Items -> {"spawned", "started", "timed", "queued", "notify", "counted"}]
  /\ finished_tasks \in [Ranks -> Nat] /\ sampled \in [Ranks -> Nat]

CountInv == CountType /\ SampledOnce

Counted(r) == {i \in At(r) : item[i] = "counted"}

LEMMA CountStep ==
  ASSUME CountInv, NEW i \in Items, Count(i)
  PROVE  CountInv'
<1> DEFINE p == Place[i]
<1>0. p \in Ranks /\ i \in At(p)
  BY Places DEF At
<1>1. /\ item[i] = "queued" /\ item' = [item EXCEPT ![i] = "counted"]
      /\ finished_tasks' = [finished_tasks EXCEPT ![p] = @ + 1] /\ UNCHANGED sampled
  BY DEF Count, sampleVars
<1>2. CountType'
  BY <1>0, <1>1 DEF CountInv, CountType
<1>3. ASSUME NEW r \in Ranks
      PROVE  sampled'[r] + finished_tasks'[r] = Cardinality(Counted(r)')
  <2>1. IsFiniteSet(Counted(r))
    BY Places, FS_Subset DEF Counted, At
  <2>2. sampled[r] + finished_tasks[r] = Cardinality(Counted(r))
    BY DEF CountInv, SampledOnce, Counted
  <2>3. CASE r = p
    <3>1. Counted(r)' = Counted(r) \cup {i} /\ i \notin Counted(r)
      BY <1>0, <1>1, <2>3 DEF Counted, At, CountInv, CountType
    <3>2. Cardinality(Counted(r)') = Cardinality(Counted(r)) + 1
      BY <2>1, <3>1, FS_AddElement
    <3>3. QED
      BY <1>1, <2>2, <2>3, <3>2 DEF CountInv, CountType
  <2>4. CASE r # p
    <3>1. Counted(r)' = Counted(r)
      BY <1>0, <1>1, <2>4 DEF Counted, At, CountInv, CountType
    <3>2. QED
      BY <1>1, <2>2, <2>4, <3>1 DEF CountInv, CountType
  <2>5. QED
    BY <2>3, <2>4
<1>4. QED
  BY <1>2, <1>3 DEF CountInv, SampledOnce, Counted, At

LEMMA NextCountInv ==
  ASSUME CountInv, [Next]_vars
  PROVE  CountInv'
<1>1. ASSUME CountType', UNCHANGED <<finished_tasks, sampled>>,
             \A i \in Items : item'[i] = "counted" <=> item[i] = "counted"
      PROVE  CountInv'
  <2>1. \A r \in Ranks : Counted(r)' = Counted(r)
    BY <1>1 DEF Counted, At
  <2>2. QED
    BY <1>1, <2>1 DEF CountInv, SampledOnce, Counted, At
<1>2. ASSUME NEW i \in Items, ExecStart(i) \/ add_task_time(i) \/ ExecFinish(i) \/ Notify(i)
      PROVE  CountInv'
  BY <1>1, <1>2 DEF ExecStart, add_task_time, ExecFinish, Notify, CountInv, CountType, sampleVars
<1>3. ASSUME NEW r \in Ranks, sample_node(r)
      PROVE  CountInv'
  <2>1. /\ sampled' = [sampled EXCEPT ![r] = @ + finished_tasks[r]]
        /\ finished_tasks' = [finished_tasks EXCEPT ![r] = 0] /\ UNCHANGED item
    BY <1>3 DEF sample_node
  <2>2. CountType'
    BY <2>1 DEF CountInv, CountType
  <2>3. \A s \in Ranks : sampled'[s] + finished_tasks'[s] = sampled[s] + finished_tasks[s]
    BY <2>1 DEF CountInv, CountType
  <2>4. QED
    BY <2>1, <2>2, <2>3 DEF CountInv, SampledOnce, At
<1>4. CASE UNCHANGED <<item, finished_tasks, sampled>>
  BY <1>4 DEF CountInv, CountType, SampledOnce, At
<1>5. ASSUME NEW r \in Ranks, WorkerStep(r) \/ StopStep(r) \/ Spurious(r) \/ get_task_times(r)
      PROVE  UNCHANGED <<item, finished_tasks, sampled>>
  BY <1>5 DEF WorkerStep, StopStep, Spurious, get_task_times, ProcessStart, SwitchWrite, ProcessOne,
     SwitchRead, StopOther, SetDone, NotifyDone, Join, Gather, Return, itemVars, sampleVars
<1>6. QED
  BY <1>2, <1>3, <1>4, <1>5, CountStep
     DEF Next, ItemStep, StopFirst, itemVars, sampleVars, vars

\* A finished work item is counted in exactly one sample, whatever handlers and
\* samplers interleave (finished_tasks under sampling_mutex).
THEOREM EveryItemSampledOnce == Spec => []SampledOnce
<1>1. Init => CountInv
  <2>1. SUFFICES ASSUME Init PROVE CountInv
    OBVIOUS
  <2>2. \A r \in Ranks : Counted(r) = {}
    BY <2>1 DEF Init, Counted, At
  <2>3. CountType /\ \A r \in Ranks : sampled[r] = 0 /\ finished_tasks[r] = 0
    BY <2>1 DEF Init, CountType
  <2>4. \A r \in Ranks : sampled[r] + finished_tasks[r] = Cardinality(Counted(r))
    BY <2>2, <2>3, FS_EmptySet
  <2>5. QED
    BY <2>3, <2>4 DEF CountInv, SampledOnce, Counted
<1>2. CountInv => SampledOnce
  BY DEF CountInv
<1>3. QED
  BY <1>1, <1>2, NextCountInv, PTL DEF Spec

(***************************************************************************)
(* Sums over finite sets and folds over intervals, as recursive functions of *)
(* the subsets.                                                            *)
(***************************************************************************)
Less == {ss \in Nat \X Nat : ss[1] < ss[2]}

\* A nonempty set of natural numbers has a least one.
LEMMA Least ==
  ASSUME NEW T, T \subseteq Nat, T # {}
  PROVE  \E x \in T : \A y \in T : x <= y
<1>1. IsWellFoundedOn(Less, Nat)
  BY NatLessThanWellFounded, Zenon DEF OpToRel, Less
<1>2. \A x, y \in Nat : y < x => <<y, x>> \in Less
  BY DEF Less
<1>3. \E x \in T : \A y \in T : ~(<<y, x>> \in Less)
  BY <1>1, WFMin, Zenon
<1>4. PICK x \in T : \A y \in T : ~(<<y, x>> \in Less)
  BY <1>3
<1>5. \A y \in T : x <= y
  <2> TAKE y \in T
  <2>1. x \in Nat /\ y \in Nat
    OBVIOUS
  <2>2. ~ (y < x)
    BY <2>1, <1>2, <1>4
  <2> QED BY <2>1, <2>2
<1>6. QED
  BY <1>5

\* For a nonempty set of subsets of a finite set, one without a smaller one in it.
LEMMA Smallest ==
  ASSUME NEW S, IsFiniteSet(S), NEW P, P \subseteq SUBSET S, P # {}
  PROVE  \E s \in P : \A x \in s : s \ {x} \notin P
<1> DEFINE T == {Cardinality(s) : s \in P}
<1>1. \A s \in SUBSET S : Cardinality(s) \in Nat /\ IsFiniteSet(s)
  BY FS_CardinalityType, FS_Subset
<1>2. T \subseteq Nat /\ T # {}
  BY <1>1
<1>3. PICK s \in P : \A r \in P : Cardinality(s) <= Cardinality(r)
  <2>1. PICK k \in T : \A j \in T : k <= j
    <3> HIDE DEF T
    <3> QED BY <1>2, Least
  <2>2. QED
    BY <2>1
<1>4. ASSUME NEW x \in s PROVE s \ {x} \notin P
  <2>1. Cardinality(s \ {x}) = Cardinality(s) - 1 /\ Cardinality(s) \in Nat
    BY <1>1, <1>3, FS_RemoveElement
  <2>2. QED
    BY <1>3, <2>1
<1>5. QED
  BY <1>4

\* Induction over the subsets of a finite set, one member after another.
LEMMA Subsets ==
  ASSUME NEW S, IsFiniteSet(S), NEW P, {} \in P,
         \A s \in SUBSET S : \A x \in S : x \notin s /\ s \in P => s \cup {x} \in P
  PROVE  S \in P
<1> DEFINE Q == {s \in SUBSET S : s \notin P}
<1>1. SUFFICES ASSUME Q # {} PROVE FALSE
  OBVIOUS
<1>2. PICK s \in Q : \A x \in s : s \ {x} \notin Q
  <2>1. Q \subseteq SUBSET S
    OBVIOUS
  <2> HIDE DEF Q
  <2>2. QED
    BY <1>1, <2>1, Smallest
<1>3. PICK x \in s : TRUE
  BY <1>2
<1>4. s \ {x} \in SUBSET S /\ s \ {x} \in P /\ x \in S /\ x \notin s \ {x} /\ (s \ {x}) \cup {x} = s
  BY <1>2, <1>3
<1>5. QED
  BY <1>2, <1>4

\* A function of the subsets of a finite set that is defined by taking one element after
\* another: s[h] follows from the set without the element that c takes.
Takes(S, c) == \A s \in SUBSET S : s # {} => c[s] \in s
Folds(h, S, c, base, g) ==
  \A s \in SUBSET S : h[s] = IF s = {} THEN base ELSE g[c[s]][h[s \ {c[s]}]]

\* There is such a function ...
LEMMA FoldExists ==
  ASSUME NEW S, IsFiniteSet(S), NEW c, Takes(S, c), NEW V, NEW base \in V, NEW g \in [S -> [V -> V]]
  PROVE  \E h \in [SUBSET S -> V] : Folds(h, S, c, base, g)
<1> DEFINE Good(h, k) == \A s \in SUBSET S : Cardinality(s) <= k => h[s] = IF s = {} THEN base ELSE g[c[s]][h[s \ {c[s]}]]
           T == {k \in Nat : ~ \E h \in [SUBSET S -> V] : Good(h, k)}
<1>0. \A s \in SUBSET S : /\ IsFiniteSet(s) /\ Cardinality(s) \in Nat
                          /\ Cardinality(s) = 0 <=> s = {}
                          /\ s # {} => /\ c[s] \in s /\ Cardinality(s \ {c[s]}) = Cardinality(s) - 1
  BY FS_Subset, FS_CardinalityType, FS_EmptySet, FS_RemoveElement DEF Takes
<1>1. T = {}
  <2> SUFFICES ASSUME T # {} PROVE FALSE
    OBVIOUS
  <2>1. PICK k \in T : \A j \in T : k <= j
    <3>1. T \subseteq Nat
      OBVIOUS
    <3> HIDE DEF T
    <3>2. QED
      BY <3>1, Least
  <2>2. k # 0
    <3> SUFFICES ASSUME k = 0 PROVE FALSE
      OBVIOUS
    <3> DEFINE h == [s \in SUBSET S |-> base]
    <3>1. h \in [SUBSET S -> V]
      OBVIOUS
    <3>2. Good(h, 0)
      <4> SUFFICES ASSUME NEW s \in SUBSET S, Cardinality(s) <= 0 PROVE s = {}
        OBVIOUS
      <4>0. Cardinality(s) \in Nat
        BY <1>0, Zenon
      <4>1. Cardinality(s) = 0
        BY <4>0
      <4>2. QED
        BY <4>1, <1>0
    <3> HIDE DEF h, Good
    <3>3. QED
      BY <3>1, <3>2
  <2>3. k \in Nat /\ k - 1 \in Nat /\ ~ (k <= k - 1)
    BY <2>2
  <2>4. PICK h \in [SUBSET S -> V] : Good(h, k - 1)
    BY <2>1, <2>3
  <2> DEFINE f == [s \in SUBSET S |-> IF s = {} THEN base ELSE g[c[s]][h[s \ {c[s]}]]]
  <2>5. f \in [SUBSET S -> V]
    <3> SUFFICES ASSUME NEW s \in SUBSET S, s # {} PROVE g[c[s]][h[s \ {c[s]}]] \in V
      OBVIOUS
    <3>1. c[s] \in S /\ s \ {c[s]} \in SUBSET S
      BY <1>0
    <3>2. h[s \ {c[s]}] \in V /\ g[c[s]] \in [V -> V]
      BY <3>1
    <3>3. QED
      BY <3>2
  <2>6. ASSUME NEW s \in SUBSET S, Cardinality(s) <= k - 1 PROVE f[s] = h[s]
    BY <2>4, <2>6
  <2>7. ASSUME NEW s \in SUBSET S, Cardinality(s) <= k, s # {} PROVE f[s] = g[c[s]][f[s \ {c[s]}]]
    <3>00. Cardinality(s) \in Nat
      BY <1>0, Zenon
    <3>0. k \in Int /\ Cardinality(s) \in Int
      BY <3>00, <2>3
    <3>1. s \ {c[s]} \in SUBSET S /\ Cardinality(s \ {c[s]}) <= k - 1
      <4>1. s \ {c[s]} \in SUBSET S /\ Cardinality(s \ {c[s]}) = Cardinality(s) - 1
        BY <1>0, <2>7
      <4>2. QED
        BY <4>1, <3>0, <2>7
    <3>2. f[s \ {c[s]}] = h[s \ {c[s]}]
      BY <3>1, <2>6
    <3>3. f[s] = g[c[s]][h[s \ {c[s]}]]
      BY <2>7
    <3>4. QED
      BY <3>2, <3>3
  <2>8. {} \in SUBSET S /\ f[{}] = base
    OBVIOUS
  <2> HIDE DEF f
  <2>9. Good(f, k)
    BY <2>7, <2>8
  <2> HIDE DEF Good
  <2>10. QED
    BY <2>1, <2>5, <2>9
<1>2. Cardinality(S) \in Nat /\ S \in SUBSET S
  BY FS_CardinalityType
<1>3. PICK h \in [SUBSET S -> V] : Good(h, Cardinality(S))
  BY <1>1, <1>2
<1>4. \A s \in SUBSET S : Cardinality(s) <= Cardinality(S)
  BY FS_Subset
<1>5. Folds(h, S, c, base, g)
  BY <1>3, <1>4 DEF Folds
<1>6. QED
  BY <1>5

\* ... and on the subsets of both sets two of them agree.
LEMMA FoldsAgree ==
  ASSUME NEW S, IsFiniteSet(S), NEW R, NEW c, NEW d, Takes(S, c), S \subseteq R,
         \A s \in SUBSET S : d[s] = c[s],
         NEW base, NEW g, NEW e, \A x \in S : e[x] = g[x],
         NEW h, Folds(h, S, c, base, g), NEW i, Folds(i, R, d, base, e)
  PROVE  \A s \in SUBSET S : h[s] = i[s]
<1> DEFINE P == {s \in SUBSET S : h[s] # i[s]}
<1>1. SUFFICES ASSUME P # {} PROVE FALSE
  OBVIOUS
<1>2. PICK s \in P : \A x \in s : s \ {x} \notin P
  <2>1. P \subseteq SUBSET S
    OBVIOUS
  <2> HIDE DEF P
  <2>2. QED
    BY <1>1, <2>1, Smallest
<1>3. s \in SUBSET S /\ s \in SUBSET R /\ h[s] # i[s]
  BY <1>2
<1>4. s # {}
  BY <1>3 DEF Folds
<1> DEFINE r == s \ {c[s]}
<1>5. c[s] \in s /\ c[s] \in S /\ r \in SUBSET S
  BY <1>3, <1>4 DEF Takes
<1>6. h[r] = i[r]
  BY <1>2, <1>5
<1>7. h[s] = g[c[s]][h[r]]
  BY <1>3, <1>4 DEF Folds
<1>8. i[s] = e[d[s]][i[s \ {d[s]}]]
  BY <1>3, <1>4 DEF Folds
<1>9. d[s] = c[s] /\ e[c[s]] = g[c[s]]
  BY <1>3, <1>5
<1>10. i[s] = g[c[s]][i[r]]
  BY <1>8, <1>9
<1>11. QED
  BY <1>3, <1>6, <1>7, <1>10

\* The sum of f over S, as Total and RunTime have it.
Sum(f, S) == MapThenSumSet(LAMBDA q : f[q], S)

First(s) == CHOOSE x \in s : TRUE
Sums(h, f, S) == h = [s \in SUBSET S |-> IF s = {} THEN 0 ELSE f[First(s)] + h[s \ {First(s)}]]

Choice(S) == [s \in SUBSET S |-> First(s)]
Adding(f, S) == [x \in S |-> [v \in Int |-> f[x] + v]]

\* MapThenSumSet as the function of the subsets that its definition chooses.
LEMMA SumUnfolds == \A f, S : Sum(f, S) = (CHOOSE h : Sums(h, f, S))[S]
BY Zenon DEF Sum, MapThenSumSet, MapThenFoldSet, Sums, First

\* A sum takes a member of what is left ...
LEMMA ChoiceTakes == ASSUME NEW S PROVE Takes(S, Choice(S))
BY DEF Takes, Choice, First

\* ... and adds it: the equation in its definition is such a fold.
LEMMA SumsFold ==
  ASSUME NEW S, NEW f, NEW h, \A x \in S : f[x] \in Int, h \in [SUBSET S -> Int]
  PROVE  Folds(h, S, Choice(S), 0, Adding(f, S)) <=> Sums(h, f, S)
<1>1. ASSUME NEW s \in SUBSET S, s # {}
      PROVE  Adding(f, S)[Choice(S)[s]][h[s \ {Choice(S)[s]}]] = f[First(s)] + h[s \ {First(s)}]
  <2>1. Choice(S)[s] = First(s)
    BY DEF Choice
  <2>2. First(s) \in S
    BY <1>1 DEF First
  <2>3. h[s \ {First(s)}] \in Int
    OBVIOUS
  <2>4. QED
    BY <2>1, <2>2, <2>3 DEF Adding
<1> DEFINE A(s) == Adding(f, S)[Choice(S)[s]][h[s \ {Choice(S)[s]}]]
           B(s) == f[First(s)] + h[s \ {First(s)}]
<1>2. \A s \in SUBSET S : s # {} => A(s) = B(s)
  BY <1>1
<1>3. Folds(h, S, Choice(S), 0, Adding(f, S)) <=> \A s \in SUBSET S : h[s] = IF s = {} THEN 0 ELSE A(s)
  BY Zenon DEF Folds
<1>4. Sums(h, f, S) <=> h = [s \in SUBSET S |-> IF s = {} THEN 0 ELSE B(s)]
  BY Zenon DEF Sums
<1> HIDE DEF A, B
<1>5. (\A s \in SUBSET S : h[s] = IF s = {} THEN 0 ELSE A(s)) <=> h = [s \in SUBSET S |-> IF s = {} THEN 0 ELSE B(s)]
  BY <1>2
<1>6. QED
  BY <1>3, <1>4, <1>5

\* The sum is a function of the subsets.
LEMMA SumIs ==
  ASSUME NEW S, IsFiniteSet(S), NEW f, \A x \in S : f[x] \in Int
  PROVE  \E h \in [SUBSET S -> Int] : Folds(h, S, Choice(S), 0, Adding(f, S)) /\ Sum(f, S) = h[S]
<1>1. Adding(f, S) \in [S -> [Int -> Int]]
  BY DEF Adding
<1>2. PICK h \in [SUBSET S -> Int] : Folds(h, S, Choice(S), 0, Adding(f, S))
  <2>1. Takes(S, Choice(S)) /\ 0 \in Int
    BY ChoiceTakes
  <2>2. QED
    BY <1>1, <2>1, FoldExists, Zenon
<1>3. Sums(h, f, S)
  BY <1>2, SumsFold
<1> DEFINE i == CHOOSE i : Sums(i, f, S)
<1>4. Sums(i, f, S)
  BY <1>3, Zenon
<1>5. Sum(f, S) = i[S]
  BY SumUnfolds, Zenon
<1>6. \A s \in SUBSET S : i[s] = IF s = {} THEN 0 ELSE f[First(s)] + i[s \ {First(s)}]
  BY <1>4 DEF Sums
<1>7. i = h
  <2>1. i = [s \in SUBSET S |-> i[s]] /\ h = [s \in SUBSET S |-> h[s]]
    BY <1>3, <1>4 DEF Sums
  <2>2. h[{}] = 0 /\ i[{}] = 0
    BY <1>3, <1>6 DEF Sums
  <2> DEFINE P == {s \in SUBSET S : i[s] # h[s]}
  <2>3. P = {}
    <3> SUFFICES ASSUME P # {} PROVE FALSE
      OBVIOUS
    <3>1. PICK s \in P : \A x \in s : s \ {x} \notin P
      <4>1. P \subseteq SUBSET S
        OBVIOUS
      <4> HIDE DEF P
      <4>2. QED
        BY <4>1, Smallest
    <3>2. s \in SUBSET S /\ s # {}
      BY <2>2, <3>1
    <3>3. First(s) \in s
      BY <3>2 DEF First
    <3>4. i[s \ {First(s)}] = h[s \ {First(s)}]
      BY <3>1, <3>2, <3>3
    <3>5. i[s] = f[First(s)] + i[s \ {First(s)}] /\ h[s] = f[First(s)] + h[s \ {First(s)}]
      BY <1>3, <1>6, <3>2 DEF Sums
    <3>6. QED
      BY <3>1, <3>4, <3>5
  <2>4. QED
    BY <2>1, <2>3
<1>8. QED
  BY <1>2, <1>5, <1>7

\* A sum of integers is one.
LEMMA SumType ==
  ASSUME NEW S, IsFiniteSet(S), NEW f, \A x \in S : f[x] \in Int
  PROVE  Sum(f, S) \in Int
<1>1. PICK h \in [SUBSET S -> Int] : Sum(f, S) = h[S]
  BY SumIs, Zenon
<1>2. QED
  BY <1>1

\* Nothing adds up to zero.
LEMMA SumEmpty == ASSUME NEW f PROVE Sum(f, {}) = 0
<1>1. PICK h \in [SUBSET {} -> Int] : Folds(h, {}, Choice({}), 0, Adding(f, {})) /\ Sum(f, {}) = h[{}]
  BY SumIs, FS_EmptySet
<1>2. QED
  BY <1>1 DEF Folds

\* The member that is taken first, and the sum of the others.
LEMMA SumFirst ==
  ASSUME NEW S, IsFiniteSet(S), NEW f, \A x \in S : f[x] \in Int, S # {}
  PROVE  First(S) \in S /\ Sum(f, S) = f[First(S)] + Sum(f, S \ {First(S)})
<1> DEFINE R == S \ {First(S)}
<1>1. First(S) \in S
  BY DEF First
<1>2. IsFiniteSet(R) /\ R \subseteq S /\ \A x \in R : f[x] \in Int
  BY FS_Subset
<1>3. PICK h \in [SUBSET S -> Int] : Folds(h, S, Choice(S), 0, Adding(f, S)) /\ Sum(f, S) = h[S]
  BY SumIs
<1> HIDE DEF R
<1>4. PICK i \in [SUBSET R -> Int] : Folds(i, R, Choice(R), 0, Adding(f, R)) /\ Sum(f, R) = i[R]
  BY <1>2, SumIs
<1>5. \A s \in SUBSET R : Choice(S)[s] = Choice(R)[s]
  BY <1>2 DEF Choice
<1>6. \A x \in R : Adding(f, S)[x] = Adding(f, R)[x]
  BY <1>2 DEF Adding
<1>7. Takes(R, Choice(R))
  BY ChoiceTakes
<1>8. \A s \in SUBSET R : i[s] = h[s]
  BY <1>2, <1>3, <1>4, <1>5, <1>6, <1>7, FoldsAgree
<1>9. Sums(h, f, S)
  BY <1>3, SumsFold
<1>10. h[S] = f[First(S)] + h[R]
  BY <1>9 DEF Sums, R
<1>11. QED
  BY <1>1, <1>3, <1>4, <1>8, <1>10 DEF R

\* Any member may be taken.
LEMMA SumTake ==
  ASSUME NEW S, IsFiniteSet(S), NEW f, \A x \in S : f[x] \in Int, NEW x \in S
  PROVE  Sum(f, S) = f[x] + Sum(f, S \ {x})
<1> DEFINE Taken(s) == \A y \in s : Sum(f, s) = f[y] + Sum(f, s \ {y})
           P == {s \in SUBSET S : ~ Taken(s)}
<1>0. \A s \in SUBSET S : IsFiniteSet(s) /\ (\A y \in s : f[y] \in Int) /\ Sum(f, s) \in Int
  BY FS_Subset, SumType
<1>1. SUFFICES P = {}
  BY DEF Taken
<1>2. SUFFICES ASSUME P # {} PROVE FALSE
  OBVIOUS
<1>3. PICK s \in P : \A y \in s : s \ {y} \notin P
  <2> HIDE DEF P
  <2>1. P \subseteq SUBSET S
    BY DEF P
  <2>2. QED
    BY <1>2, <2>1, Smallest
<1>4. PICK y \in s : Sum(f, s) # f[y] + Sum(f, s \ {y})
  BY <1>3
<1> DEFINE c == First(s)
<1>5. c \in s /\ Sum(f, s) = f[c] + Sum(f, s \ {c})
  BY <1>0, <1>3, <1>4, SumFirst
<1>6. c # y
  BY <1>4, <1>5
<1> HIDE DEF c
<1>7. Taken(s \ {c}) /\ Taken(s \ {y})
  BY <1>3, <1>4, <1>5
<1>8. Sum(f, s \ {c}) = f[y] + Sum(f, s \ {c, y})
  <2>1. (s \ {c}) \ {y} = s \ {c, y} /\ y \in s \ {c}
    BY <1>4, <1>6
  <2>2. QED
    BY <1>7, <2>1
<1>9. Sum(f, s \ {y}) = f[c] + Sum(f, s \ {c, y})
  <2>1. (s \ {y}) \ {c} = s \ {c, y} /\ c \in s \ {y}
    BY <1>5, <1>6
  <2>2. QED
    BY <1>7, <2>1
<1>10. f[c] \in Int /\ f[y] \in Int /\ Sum(f, s \ {c, y}) \in Int
  BY <1>0, <1>3, <1>4, <1>5
<1>11. QED
  BY <1>4, <1>5, <1>8, <1>9, <1>10

\* Only the values of the members count.
LEMMA SumSame ==
  ASSUME NEW S, IsFiniteSet(S), NEW f, NEW g, \A x \in S : f[x] \in Int /\ f[x] = g[x]
  PROVE  Sum(f, S) = Sum(g, S)
<1> DEFINE P == {s \in SUBSET S : Sum(f, s) = Sum(g, s)}
<1>1. {} \in P
  BY SumEmpty
<1>2. ASSUME NEW s \in SUBSET S, NEW x \in S, x \notin s, s \in P PROVE s \cup {x} \in P
  <2> DEFINE r == s \cup {x}
  <2>1. r \in SUBSET S /\ x \in r /\ r \ {x} = s /\ IsFiniteSet(r)
    BY <1>2, FS_Subset
  <2>2. \A y \in r : f[y] \in Int /\ g[y] \in Int
    OBVIOUS
  <2> HIDE DEF r
  <2>3. Sum(f, r) = f[x] + Sum(f, s) /\ Sum(g, r) = g[x] + Sum(g, s)
    BY <2>1, <2>2, SumTake
  <2>4. QED
    BY <1>2, <2>1, <2>3 DEF r
<1>3. S \in P
  <2> HIDE DEF P
  <2> QED BY <1>1, <1>2, Subsets
<1>4. QED
  BY <1>3

\* Sums are added value by value.
LEMMA SumAdd ==
  ASSUME NEW S, IsFiniteSet(S), NEW f, NEW g, NEW h,
         \A x \in S : f[x] \in Int /\ g[x] \in Int /\ h[x] = f[x] + g[x]
  PROVE  Sum(h, S) = Sum(f, S) + Sum(g, S)
<1> DEFINE P == {s \in SUBSET S : Sum(h, s) = Sum(f, s) + Sum(g, s)}
<1>1. {} \in P
  BY SumEmpty
<1>2. ASSUME NEW s \in SUBSET S, NEW x \in S, x \notin s, s \in P PROVE s \cup {x} \in P
  <2> DEFINE r == s \cup {x}
  <2>1. r \in SUBSET S /\ x \in r /\ r \ {x} = s /\ IsFiniteSet(r) /\ IsFiniteSet(s)
    BY <1>2, FS_Subset
  <2>2. \A y \in r : f[y] \in Int /\ g[y] \in Int /\ h[y] \in Int
    OBVIOUS
  <2>3. Sum(f, s) \in Int /\ Sum(g, s) \in Int
    BY <2>1, <2>2, SumType
  <2> HIDE DEF r
  <2>4. Sum(f, r) = f[x] + Sum(f, s) /\ Sum(g, r) = g[x] + Sum(g, s) /\ Sum(h, r) = h[x] + Sum(h, s)
    BY <2>1, <2>2, SumTake
  <2>5. Sum(h, s) = Sum(f, s) + Sum(g, s) /\ h[x] = f[x] + g[x] /\ f[x] \in Int /\ g[x] \in Int
    BY <1>2
  <2>6. QED
    BY <2>1, <2>3, <2>4, <2>5 DEF r
<1>3. S \in P
  <2> HIDE DEF P
  <2> QED BY <1>1, <1>2, Subsets
<1>4. QED
  BY <1>3

\* Two sets without a common member.
LEMMA SumUnion ==
  ASSUME NEW R, NEW S, IsFiniteSet(R), IsFiniteSet(S), R \cap S = {},
         NEW f, \A x \in R \cup S : f[x] \in Int
  PROVE  Sum(f, R \cup S) = Sum(f, R) + Sum(f, S)
<1> DEFINE P == {s \in SUBSET S : Sum(f, R \cup s) = Sum(f, R) + Sum(f, s)}
<1>0. Sum(f, R) \in Int
  BY SumType
<1>1. {} \in P
  <2>1. R \cup {} = R
    OBVIOUS
  <2>2. QED
    BY <1>0, <2>1, SumEmpty
<1>2. ASSUME NEW s \in SUBSET S, NEW x \in S, x \notin s, s \in P PROVE s \cup {x} \in P
  <2> DEFINE r == s \cup {x}
             t == R \cup r
  <2>1. r \in SUBSET S /\ x \in r /\ r \ {x} = s /\ IsFiniteSet(r) /\ IsFiniteSet(s)
    BY <1>2, FS_Subset
  <2>8. IsFiniteSet(t)
    BY <2>1, FS_Union
  <2>2. x \in t /\ t \ {x} = R \cup s /\ (\A y \in t : f[y] \in Int) /\ \A y \in r : f[y] \in Int
    BY <1>2
  <2>3. Sum(f, s) \in Int
    BY <2>1, <2>2, SumType
  <2>5. Sum(f, R \cup s) = Sum(f, R) + Sum(f, s) /\ f[x] \in Int
    BY <1>2
  <2> HIDE DEF r, t
  <2>4. Sum(f, r) = f[x] + Sum(f, s) /\ Sum(f, t) = f[x] + Sum(f, R \cup s)
    BY <2>1, <2>2, <2>8, SumTake
  <2>6. Sum(f, R \cup r) = Sum(f, R) + Sum(f, r)
    BY <1>0, <2>3, <2>4, <2>5 DEF t
  <2>7. QED
    BY <2>1, <2>6 DEF r
<1>3. S \in P
  <2> HIDE DEF P
  <2> QED BY <1>1, <1>2, Subsets
<1>4. QED
  BY <1>3

\* The sum of what is zero.
LEMMA SumZero ==
  ASSUME NEW S, IsFiniteSet(S), NEW f, \A x \in S : f[x] = 0
  PROVE  Sum(f, S) = 0
<1> DEFINE P == {s \in SUBSET S : Sum(f, s) = 0}
<1>1. {} \in P
  BY SumEmpty
<1>2. ASSUME NEW s \in SUBSET S, NEW x \in S, x \notin s, s \in P PROVE s \cup {x} \in P
  <2> DEFINE r == s \cup {x}
  <2>1. r \in SUBSET S /\ x \in r /\ r \ {x} = s /\ IsFiniteSet(r)
    BY <1>2, FS_Subset
  <2>2. \A y \in r : f[y] \in Int
    OBVIOUS
  <2> HIDE DEF r
  <2>3. Sum(f, r) = f[x] + Sum(f, s)
    BY <2>1, <2>2, SumTake
  <2>4. QED
    BY <1>2, <2>1, <2>3 DEF r
<1>3. S \in P
  <2> HIDE DEF P
  <2> QED BY <1>1, <1>2, Subsets
<1>4. QED
  BY <1>3

\* The sum of what is zero except for one.
LEMMA SumOne ==
  ASSUME NEW S, IsFiniteSet(S), NEW f, NEW x \in S, f[x] \in Int, \A y \in S \ {x} : f[y] = 0
  PROVE  Sum(f, S) = f[x]
<1>1. IsFiniteSet(S \ {x}) /\ \A y \in S : f[y] \in Int
  BY FS_Subset
<1>2. Sum(f, S \ {x}) = 0
  BY <1>1, SumZero
<1>3. Sum(f, S) = f[x] + Sum(f, S \ {x})
  BY <1>1, SumTake
<1>4. QED
  BY <1>2, <1>3

(***************************************************************************)
(* A time that is split down to the tracked level.                         *)
(***************************************************************************)
\* What a child gets of a time; what a tracked path gets of a time of a task at level m above
\* it, and the same as a fold over the turns in between.
Half(t, turn) == IF turn = 0 THEN t \div 2 ELSE t - t \div 2
ShareAt(m, q, t) ==
  FoldLeft(LAMBDA rest, turn : IF turn = 0 THEN rest \div 2 ELSE rest - rest \div 2,
           t, SubSeq(q, m + 1, TRACKING_LEVEL))

Halvings(h, a, t) ==
  h = [s \in SUBSET DOMAIN a |-> IF s = {} THEN t ELSE Half(h[s \ {Max(s)}], a[Max(s)])]
LastOf(n) == [s \in SUBSET (1 .. n) |-> Max(s)]
Halving(m, q) == [i \in 1 .. TRACKING_LEVEL - m |-> [v \in Int |-> Half(v, q[m + i])]]

\* FoldLeft as the function that its definition chooses.
LEMMA ShareUnfolds ==
  \A m, q, t : ShareAt(m, q, t) = (CHOOSE h : Halvings(h, SubSeq(q, m + 1, TRACKING_LEVEL), t))
                                    [DOMAIN SubSeq(q, m + 1, TRACKING_LEVEL)]
BY Zenon DEF ShareAt, FoldLeft, MapThenFoldSet, Halvings, Half

\* The turns below level m.
LEMMA TurnsOf ==
  ASSUME NEW m \in 0 .. TRACKING_LEVEL, NEW q \in Tracked
  PROVE  /\ DOMAIN SubSeq(q, m + 1, TRACKING_LEVEL) = 1 .. TRACKING_LEVEL - m
         /\ \A i \in 1 .. TRACKING_LEVEL - m : SubSeq(q, m + 1, TRACKING_LEVEL)[i] = q[m + i]
<1>0. TRACKING_LEVEL \in Nat
  BY TrackingAssumption
<1>1. q \in Seq({0, 1}) /\ Len(q) = TRACKING_LEVEL
  BY <1>0 DEF Tracked
<1>2. SubSeq(q, m + 1, TRACKING_LEVEL) = [i \in 1 .. TRACKING_LEVEL - m |-> q[m + i]]
  BY <1>0, <1>1
<1>3. QED
  BY <1>2

\* Max of a set of indices.
LEMMA Greatest ==
  ASSUME NEW n \in Nat, NEW s \in SUBSET (1 .. n), s # {}
  PROVE  Max(s) \in s /\ \A y \in s : Max(s) >= y
<1> DEFINE T == {n - x : x \in s}
<1>1. T \subseteq Nat /\ T # {}
  OBVIOUS
<1>2. PICK k \in T : \A j \in T : k <= j
  <2> HIDE DEF T
  <2> QED BY <1>1, Least
<1>3. PICK x \in s : k = n - x
  OBVIOUS
<1>4. \A y \in s : x >= y
  <2> SUFFICES ASSUME NEW y \in s PROVE x >= y
    OBVIOUS
  <2>1. n - y \in T
    OBVIOUS
  <2>2. n - x <= n - y /\ x \in Int /\ y \in Int
    BY <2>1, <1>2, <1>3
  <2>3. QED
    BY <2>2
<1>5. QED
  BY <1>3, <1>4, Zenon DEF Max

\* The last index is the greatest.
LEMMA MaxUpTo == ASSUME NEW n \in Nat, n # 0 PROVE Max(1 .. n) = n
<1>1. n \in 1 .. n /\ 1 .. n \in SUBSET (1 .. n) /\ 1 .. n # {}
  OBVIOUS
<1>2. Max(1 .. n) \in 1 .. n /\ Max(1 .. n) >= n
  BY <1>1, Greatest
<1>3. QED
  BY <1>2

\* FoldLeft takes the last turn off.
LEMMA LastTakes == ASSUME NEW n \in Nat PROVE Takes(1 .. n, LastOf(n))
BY Greatest DEF Takes, LastOf

\* Halves are whole numbers.
LEMMA HalfType == \A t \in Int : \A b \in {0, 1} : Half(t, b) \in Int
BY DEF Half

\* The equation in the definition of FoldLeft is a fold over the turns.
LEMMA HalvingsFold ==
  ASSUME NEW m \in 0 .. TRACKING_LEVEL, NEW q \in Tracked, NEW t,
         NEW h, h \in [SUBSET (1 .. TRACKING_LEVEL - m) -> Int]
  PROVE  Folds(h, 1 .. TRACKING_LEVEL - m, LastOf(TRACKING_LEVEL - m), t, Halving(m, q))
           <=> Halvings(h, SubSeq(q, m + 1, TRACKING_LEVEL), t)
<1> DEFINE n == TRACKING_LEVEL - m
           a == SubSeq(q, m + 1, TRACKING_LEVEL)
           A(s) == Halving(m, q)[LastOf(n)[s]][h[s \ {LastOf(n)[s]}]]
           B(s) == Half(h[s \ {Max(s)}], a[Max(s)])
<1>0. n \in Nat
  BY TrackingAssumption
<1>1. \A s \in SUBSET (1 .. n) : s # {} => A(s) = B(s)
  <2> SUFFICES ASSUME NEW s \in SUBSET (1 .. n), s # {} PROVE A(s) = B(s)
    OBVIOUS
  <2>1. LastOf(n)[s] = Max(s)
    BY DEF LastOf
  <2>2. Max(s) \in 1 .. n
    BY <1>0, Greatest
  <2>3. a[Max(s)] = q[m + Max(s)]
    BY <2>2, TurnsOf
  <2>4. h[s \ {Max(s)}] \in Int
    OBVIOUS
  <2>5. Halving(m, q)[Max(s)][h[s \ {Max(s)}]] = Half(h[s \ {Max(s)}], q[m + Max(s)])
    BY <2>2, <2>4 DEF Halving
  <2>6. QED
    BY <2>1, <2>3, <2>5
<1>2. DOMAIN a = 1 .. n
  BY TurnsOf
<1>3. Folds(h, 1 .. n, LastOf(n), t, Halving(m, q)) <=> \A s \in SUBSET (1 .. n) : h[s] = IF s = {} THEN t ELSE A(s)
  BY Zenon DEF Folds
<1>4. Halvings(h, a, t) <=> h = [s \in SUBSET (1 .. n) |-> IF s = {} THEN t ELSE B(s)]
  BY <1>2, Zenon DEF Halvings
<1> HIDE DEF A, B
<1>5. (\A s \in SUBSET (1 .. n) : h[s] = IF s = {} THEN t ELSE A(s)) <=> h = [s \in SUBSET (1 .. n) |-> IF s = {} THEN t ELSE B(s)]
  <2> HIDE DEF n
  <2> QED BY <1>1 DEF n
<1>6. QED
  BY <1>3, <1>4, <1>5

\* What is left after the steps down is a function of the steps.
LEMMA ShareIs ==
  ASSUME NEW m \in 0 .. TRACKING_LEVEL, NEW q \in Tracked, NEW t \in Int
  PROVE  \E h \in [SUBSET (1 .. TRACKING_LEVEL - m) -> Int] :
           /\ Folds(h, 1 .. TRACKING_LEVEL - m, LastOf(TRACKING_LEVEL - m), t, Halving(m, q))
           /\ ShareAt(m, q, t) = h[1 .. TRACKING_LEVEL - m]
<1> DEFINE n == TRACKING_LEVEL - m
           a == SubSeq(q, m + 1, TRACKING_LEVEL)
           S == 1 .. n
<1>0. n \in Nat /\ IsFiniteSet(S) /\ DOMAIN a = S
  <2>1. n \in Nat
    BY TrackingAssumption
  <2>2. DOMAIN a = S
    BY TurnsOf
  <2>3. QED
    BY <2>1, <2>2, FS_Interval
<1>1. Halving(m, q) \in [S -> [Int -> Int]]
  <2>1. ASSUME NEW i \in S PROVE q[m + i] \in {0, 1}
    BY TrackingAssumption DEF Tracked
  <2>2. QED
    BY <2>1, HalfType DEF Halving
<1>2. PICK h \in [SUBSET S -> Int] : Folds(h, S, LastOf(n), t, Halving(m, q))
  <2>1. Takes(S, LastOf(n))
    BY <1>0, LastTakes
  <2>2. QED
    BY <1>0, <1>1, <2>1, FoldExists, Zenon
<1>3. Halvings(h, a, t)
  BY <1>2, HalvingsFold
<1> DEFINE i == CHOOSE i : Halvings(i, a, t)
<1>4. Halvings(i, a, t)
  BY <1>3, Zenon
<1>5. ShareAt(m, q, t) = i[S]
  BY <1>0, ShareUnfolds, Zenon
<1> HIDE DEF i, a, n, S
<1>6. ASSUME NEW j, Halvings(j, a, t), NEW s \in SUBSET S
      PROVE  j[s] = IF s = {} THEN t ELSE Half(j[s \ {Max(s)}], a[Max(s)])
  BY <1>0, <1>6 DEF Halvings
<1> DEFINE P == {s \in SUBSET S : i[s] # h[s]}
<1>7. P = {}
  <2> SUFFICES ASSUME P # {} PROVE FALSE
    OBVIOUS
  <2>1. PICK s \in P : \A x \in s : s \ {x} \notin P
    <3>1. P \subseteq SUBSET S
      OBVIOUS
    <3> HIDE DEF P
    <3>2. QED
      BY <3>1, <1>0, Smallest
  <2>2. s \in SUBSET S /\ s # {}
    BY <1>3, <1>4, <1>6, <2>1
  <2>3. Max(s) \in s
    BY <1>0, <2>2, Greatest DEF S
  <2>4. i[s \ {Max(s)}] = h[s \ {Max(s)}]
    BY <2>1, <2>2, <2>3
  <2>5. i[s] = h[s]
    BY <1>3, <1>4, <1>6, <2>2, <2>4
  <2>6. QED
    BY <2>1, <2>5
<1>8. QED
  BY <1>2, <1>5, <1>7 DEF S, n

\* At the tracked level nothing is split ...
LEMMA ShareHere ==
  ASSUME NEW q \in Tracked, NEW t \in Int
  PROVE  ShareAt(TRACKING_LEVEL, q, t) = t
<1>1. TRACKING_LEVEL \in 0 .. TRACKING_LEVEL /\ 1 .. (TRACKING_LEVEL - TRACKING_LEVEL) = {}
  BY TrackingAssumption
<1>2. PICK h :
           /\ Folds(h, 1 .. TRACKING_LEVEL - TRACKING_LEVEL, LastOf(TRACKING_LEVEL - TRACKING_LEVEL), t,
                    Halving(TRACKING_LEVEL, q))
           /\ ShareAt(TRACKING_LEVEL, q, t) = h[1 .. TRACKING_LEVEL - TRACKING_LEVEL]
  BY <1>1, ShareIs, Zenon
<1>3. h[{}] = t
  BY <1>1, <1>2 DEF Folds
<1>4. QED
  BY <1>1, <1>2, <1>3

\* A fold over 1 .. n is n steps, one for every index.
Stepwise(h, n, t, g) == h[1 .. 0] = t /\ \A k \in 1 .. n : h[1 .. k] = g[k][h[1 .. (k - 1)]]

LEMMA FoldSteps ==
  ASSUME NEW n \in Nat, NEW h, NEW t, NEW g, Folds(h, 1 .. n, LastOf(n), t, g)
  PROVE  Stepwise(h, n, t, g)
<1>1. h[1 .. 0] = t
  <2>1. 1 .. 0 = {} /\ 1 .. 0 \in SUBSET (1 .. n)
    OBVIOUS
  <2>2. QED
    BY <2>1 DEF Folds
<1>2. ASSUME NEW k \in 1 .. n PROVE h[1 .. k] = g[k][h[1 .. (k - 1)]]
  <2>1. 1 .. k \in SUBSET (1 .. n) /\ 1 .. k # {} /\ Max(1 .. k) = k /\ (1 .. k) \ {k} = 1 .. (k - 1)
    <3>1. k \in Nat /\ k # 0
      OBVIOUS
    <3>2. Max(1 .. k) = k
      BY <3>1, MaxUpTo
    <3>3. QED
      BY <3>2
  <2>2. LastOf(n)[1 .. k] = k
    BY <2>1 DEF LastOf
  <2>3. h[1 .. k] = g[LastOf(n)[1 .. k]][h[(1 .. k) \ {LastOf(n)[1 .. k]}]]
    BY <2>1 DEF Folds
  <2>4. QED
    BY <2>1, <2>2, <2>3
<1>3. QED
  BY <1>1, <1>2 DEF Stepwise

\* Induction from 0 to n.
LEMMA Upto ==
  ASSUME NEW n \in Nat, NEW S, 0 \in S, \A k \in 0 .. n : k < n /\ k \in S => k + 1 \in S
  PROVE  \A k \in 0 .. n : k \in S
<1> DEFINE T == {k \in 0 .. n : k \notin S}
<1>1. SUFFICES ASSUME T # {} PROVE FALSE
  OBVIOUS
<1>2. T \subseteq Nat
  OBVIOUS
<1>3. PICK k \in T : \A j \in T : k <= j
  <2> HIDE DEF T
  <2> QED BY <1>1, <1>2, Least
<1>4. k # 0 /\ k - 1 \in 0 .. n /\ k - 1 < n /\ k - 1 \notin T /\ (k - 1) + 1 = k
  BY <1>3
<1>5. QED
  BY <1>3, <1>4

\* ... and above it the first step comes before the rest of them.
LEMMA ShareStep ==
  ASSUME NEW m \in 0 .. TRACKING_LEVEL, m # TRACKING_LEVEL, NEW q \in Tracked, NEW t \in Int
  PROVE  ShareAt(m, q, t) = ShareAt(m + 1, q, Half(t, q[m + 1]))
<1> DEFINE n == TRACKING_LEVEL - (m + 1)
           u == Half(t, q[m + 1])
<1>0. n \in Nat /\ TRACKING_LEVEL - m = n + 1 /\ m \in Nat /\ m + 1 \in 0 .. TRACKING_LEVEL
  BY TrackingAssumption
<1>1. u \in Int
  <2>1. q[m + 1] \in {0, 1}
    BY <1>0, TrackingAssumption DEF Tracked
  <2>2. QED
    BY <2>1, HalfType
<1> HIDE DEF u
<1>2. PICK h \in [SUBSET (1 .. TRACKING_LEVEL - m) -> Int] :
           /\ Folds(h, 1 .. TRACKING_LEVEL - m, LastOf(TRACKING_LEVEL - m), t, Halving(m, q))
           /\ ShareAt(m, q, t) = h[1 .. TRACKING_LEVEL - m]
  BY ShareIs, Zenon
<1>3. PICK i \in [SUBSET (1 .. n) -> Int] :
           /\ Folds(i, 1 .. n, LastOf(n), u, Halving(m + 1, q))
           /\ ShareAt(m + 1, q, u) = i[1 .. n]
  BY <1>0, <1>1, ShareIs, Zenon
<1> HIDE DEF n
<1>4. h[1 .. 0] = t /\ \A k \in 1 .. n + 1 : h[1 .. k] = Halving(m, q)[k][h[1 .. (k - 1)]]
  <2>1. n + 1 \in Nat /\ Folds(h, 1 .. n + 1, LastOf(n + 1), t, Halving(m, q))
    BY <1>0, <1>2
  <2>2. Stepwise(h, n + 1, t, Halving(m, q))
    BY <2>1, FoldSteps, Zenon
  <2>3. QED
    BY <2>2 DEF Stepwise
<1>5. i[1 .. 0] = u /\ \A k \in 1 .. n : i[1 .. k] = Halving(m + 1, q)[k][i[1 .. (k - 1)]]
  <2>1. Stepwise(i, n, u, Halving(m + 1, q))
    BY <1>0, <1>3, FoldSteps, Zenon
  <2>2. QED
    BY <2>1 DEF Stepwise
<1> DEFINE P == {k \in 0 .. n : h[1 .. k + 1] = i[1 .. k]}
<1>6. 0 \in P
  <2>0. 1 \in 1 .. n + 1 /\ 1 - 1 = 0
    BY <1>0
  <2>1. h[1 .. 1] = Halving(m, q)[1][t]
    BY <1>4, <2>0
  <2>2. Halving(m, q)[1][t] = Half(t, q[m + 1])
    BY <1>0 DEF Halving
  <2>3. h[1 .. 0 + 1] = i[1 .. 0]
    BY <1>5, <2>1, <2>2 DEF u
  <2>4. QED
    BY <1>0, <2>3
<1>7. ASSUME NEW k \in 0 .. n, k < n, k \in P PROVE k + 1 \in P
  <2>0. k + 1 \in 1 .. n /\ k + 2 \in 1 .. n + 1 /\ (k + 1) - 1 = k /\ (k + 2) - 1 = k + 1 /\ (k + 1) + 1 = k + 2
    BY <1>0, <1>7
  <2>1. h[1 .. k + 2] = Halving(m, q)[k + 2][h[1 .. k + 1]]
    BY <1>4, <2>0
  <2>2. i[1 .. k + 1] = Halving(m + 1, q)[k + 1][i[1 .. k]]
    BY <1>5, <2>0
  <2>3. h[1 .. k + 1] = i[1 .. k]
    BY <1>7
  <2>4. i[1 .. k] \in Int
    BY <1>0, <1>3, <2>0
  <2>5. Halving(m, q)[k + 2][i[1 .. k]] = Half(i[1 .. k], q[m + (k + 2)])
    BY <1>0, <2>0, <2>4 DEF Halving
  <2>6. Halving(m + 1, q)[k + 1][i[1 .. k]] = Half(i[1 .. k], q[(m + 1) + (k + 1)])
    BY <2>0, <2>4 DEF Halving, n
  <2>7. m + (k + 2) = (m + 1) + (k + 1)
    BY <1>0
  <2>8. h[1 .. k + 2] = i[1 .. k + 1]
    BY <2>1, <2>2, <2>3, <2>5, <2>6, <2>7
  <2>9. QED
    BY <1>0, <2>0, <2>8
<1>8. n \in P
  <2>1. n \in 0 .. n
    BY <1>0
  <2> HIDE DEF P
  <2>2. \A k \in 0 .. n : k \in P
    BY <1>0, <1>6, <1>7, Upto
  <2>3. QED
    BY <2>1, <2>2
<1>9. QED
  BY <1>0, <1>2, <1>3, <1>8 DEF u

\* Tracked paths with the same turns are the same.
LEMMA TrackedSame ==
  ASSUME NEW q \in Tracked, NEW r \in Tracked, \A i \in 1 .. TRACKING_LEVEL : q[i] = r[i]
  PROVE  q = r
<1>1. q = [i \in 1 .. TRACKING_LEVEL |-> q[i]] /\ r = [i \in 1 .. TRACKING_LEVEL |-> r[i]]
  BY Zenon DEF Tracked
<1>2. QED
  BY <1>1

\* The tracked paths that agree with e in the first m turns.
Below(m, e) == {q \in Tracked : \A i \in 1 .. m : q[i] = e[i]}
Shares(m, t) == [q \in Tracked |-> ShareAt(m, q, t)]

\* A tracked path is determined by its turns to the right.
LEMMA TrackedFinite == IsFiniteSet(Tracked)
<1>0. TRACKING_LEVEL \in Nat
  BY TrackingAssumption
<1> DEFINE n == 1 .. TRACKING_LEVEL
           f == [q \in Tracked |-> {i \in n : q[i] = 1}]
<1>1. IsFiniteSet(SUBSET n)
  <2>1. IsFiniteSet(n)
    BY <1>0, FS_Interval
  <2>2. QED
    BY <2>1, FS_SUBSET
<1>2. f \in [Tracked -> SUBSET n]
  OBVIOUS
<1>3. ASSUME NEW q \in Tracked, NEW r \in Tracked, f[q] = f[r] PROVE q = r
  <2>1. \A i \in n : q[i] \in {0, 1} /\ r[i] \in {0, 1}
    BY DEF Tracked
  <2>2. \A i \in n : q[i] = 1 <=> r[i] = 1
    BY <1>3
  <2>3. \A i \in n : q[i] = r[i]
    BY <2>1, <2>2
  <2>4. QED
    BY <2>3, TrackedSame
<1> HIDE DEF f
<1>4. f \in Injection(Tracked, SUBSET n)
  BY <1>2, <1>3 DEF Injection, IsInjective
<1>5. QED
  BY <1>1, <1>4, FS_Injection

\* A share of a time is a whole number.
LEMMA ShareType ==
  ASSUME NEW m \in 0 .. TRACKING_LEVEL, NEW q \in Tracked, NEW t \in Int
  PROVE  ShareAt(m, q, t) \in Int
<1>1. PICK h \in [SUBSET (1 .. TRACKING_LEVEL - m) -> Int] : ShareAt(m, q, t) = h[1 .. TRACKING_LEVEL - m]
  BY ShareIs, Zenon
<1>2. QED
  BY <1>1

\* The shares of the tracked tasks below a task add up to its time: on the tracked level there
\* is one, and one level further up there are those of the two children.
Whole(m) == \A e \in Tracked : \A t \in Int : Sum(Shares(m, t), Below(m, e)) = t

\* On the tracked level.
LEMMA WholeHere == Whole(TRACKING_LEVEL)
<1> SUFFICES ASSUME NEW e \in Tracked, NEW t \in Int
             PROVE  Sum(Shares(TRACKING_LEVEL, t), Below(TRACKING_LEVEL, e)) = t
  BY DEF Whole
<1>1. Below(TRACKING_LEVEL, e) = {e}
  <2>1. \A q \in Below(TRACKING_LEVEL, e) : q = e
    BY TrackedSame DEF Below
  <2>2. e \in Below(TRACKING_LEVEL, e)
    BY DEF Below
  <2>3. QED
    BY <2>1, <2>2
<1>2. Shares(TRACKING_LEVEL, t)[e] = t
  BY ShareHere DEF Shares
<1>3. QED
  <2> DEFINE f == Shares(TRACKING_LEVEL, t)
             S == {e}
  <2>1. IsFiniteSet(S) /\ e \in S /\ f[e] \in Int /\ \A y \in S \ {e} : f[y] = 0
    BY <1>2, FS_Singleton
  <2> HIDE DEF f, S
  <2>2. Sum(f, S) = f[e]
    BY <2>1, SumOne
  <2>3. QED
    BY <1>1, <1>2, <2>2 DEF f, S

\* One level further up.
LEMMA WholeAbove ==
  ASSUME NEW m \in 0 .. TRACKING_LEVEL, m # TRACKING_LEVEL, Whole(m + 1)
  PROVE  Whole(m)
<1> SUFFICES ASSUME NEW e \in Tracked, NEW t \in Int
             PROVE  Sum(Shares(m, t), Below(m, e)) = t
  BY DEF Whole
<1>0. m \in Nat /\ m + 1 \in 1 .. TRACKING_LEVEL /\ m + 1 \in 0 .. TRACKING_LEVEL
  BY TrackingAssumption
<1> DEFINE child(b) == [e EXCEPT ![m + 1] = b]
           S(b) == Below(m + 1, child(b))
<1>1. ASSUME NEW b \in {0, 1}
      PROVE  /\ child(b) \in Tracked
             /\ \A q \in Tracked : q \in S(b) <=> q \in Below(m, e) /\ q[m + 1] = b
  <2>1. child(b) \in Tracked /\ child(b)[m + 1] = b /\ \A i \in 1 .. m : child(b)[i] = e[i]
    BY <1>0 DEF Tracked
  <2>2. \A i : i \in 1 .. m + 1 <=> i \in 1 .. m \/ i = m + 1
    BY <1>0
  <2> HIDE DEF child
  <2>3. QED
    BY <2>1, <2>2 DEF Below
<1>2. ASSUME NEW b \in {0, 1}
      PROVE  Sum(Shares(m, t), S(b)) = Half(t, b)
  <2> DEFINE f == Shares(m, t)
             g == Shares(m + 1, Half(t, b))
             X == S(b)
  <2>1. Half(t, b) \in Int
    BY HalfType
  <2>2. X \subseteq Tracked /\ IsFiniteSet(X)
    BY TrackedFinite, FS_Subset DEF Below
  <2>3. ASSUME NEW q \in X PROVE f[q] \in Int /\ f[q] = g[q]
    <3>1. q \in Tracked /\ q[m + 1] = b
      BY <1>1, <2>2
    <3>2. ShareAt(m, q, t) = ShareAt(m + 1, q, Half(t, b)) /\ ShareAt(m, q, t) \in Int
      BY <3>1, ShareStep, ShareType
    <3>3. QED
      BY <3>1, <3>2 DEF Shares
  <2>4. Sum(g, X) = Half(t, b)
    BY <1>1, <2>1 DEF Whole
  <2> HIDE DEF f, g, X
  <2>5. Sum(f, X) = Sum(g, X)
    BY <2>2, <2>3, SumSame
  <2>6. QED
    BY <2>4, <2>5 DEF f, X
<1>3. Below(m, e) = S(0) \cup S(1) /\ S(0) \cap S(1) = {}
  <2>1. \A q \in Tracked : q[m + 1] \in {0, 1}
    BY <1>0 DEF Tracked
  <2>2. S(0) \subseteq Tracked /\ S(1) \subseteq Tracked /\ Below(m, e) \subseteq Tracked
    BY DEF Below
  <2> HIDE DEF S
  <2>3. \A q \in Tracked : q \in S(0) <=> q \in Below(m, e) /\ q[m + 1] = 0
    BY <1>1
  <2>4. \A q \in Tracked : q \in S(1) <=> q \in Below(m, e) /\ q[m + 1] = 1
    BY <1>1
  <2>5. QED
    BY <2>1, <2>2, <2>3, <2>4
<1>4. IsFiniteSet(S(0)) /\ IsFiniteSet(S(1)) /\ \A q \in S(0) \cup S(1) : Shares(m, t)[q] \in Int
  <2>1. S(0) \subseteq Tracked /\ S(1) \subseteq Tracked
    BY DEF Below
  <2> HIDE DEF S
  <2>2. \A q \in Tracked : Shares(m, t)[q] \in Int
    BY ShareType DEF Shares
  <2>3. QED
    BY <2>1, <2>2, TrackedFinite, FS_Subset
<1> HIDE DEF S
<1>5. Sum(Shares(m, t), S(0) \cup S(1)) = Sum(Shares(m, t), S(0)) + Sum(Shares(m, t), S(1))
  BY <1>3, <1>4, SumUnion
<1>6. Half(t, 0) + Half(t, 1) = t
  BY DEF Half
<1>7. QED
  BY <1>2, <1>3, <1>5, <1>6

\* On every level down to it.
LEMMA WholeAlways == \A m \in 0 .. TRACKING_LEVEL : Whole(m)
<1> DEFINE L == TRACKING_LEVEL
           P == {k \in 0 .. L : Whole(L - k)}
<1>0. L \in Nat
  BY TrackingAssumption
<1>1. 0 \in P
  <2>1. L - 0 = L /\ 0 \in 0 .. L
    BY <1>0
  <2>2. QED
    BY <2>1, WholeHere
<1>2. ASSUME NEW k \in 0 .. L, k < L, k \in P PROVE k + 1 \in P
  <2> DEFINE m == L - (k + 1)
  <2>1. m \in 0 .. L /\ m # L /\ m + 1 = L - k /\ k + 1 \in 0 .. L
    BY <1>0, <1>2
  <2>2. Whole(m + 1)
    BY <1>2, <2>1
  <2>3. Whole(m)
    <3> HIDE DEF m
    <3> QED BY <2>1, <2>2, WholeAbove
  <2>4. QED
    BY <2>1, <2>3
<1>3. \A k \in 0 .. L : k \in P
  <2> HIDE DEF P
  <2> QED BY <1>0, <1>1, <1>2, Upto
<1>4. ASSUME NEW m \in 0 .. L PROVE Whole(m)
  <2>1. L - m \in 0 .. L /\ L - (L - m) = m
    BY <1>0
  <2>2. QED
    BY <1>3, <2>1
<1>5. QED
  BY <1>4

\* None is negative.
LEMMA ShareNat ==
  ASSUME NEW m \in 0 .. TRACKING_LEVEL, NEW q \in Tracked, NEW t \in Nat
  PROVE  ShareAt(m, q, t) \in Nat
<1> DEFINE L == TRACKING_LEVEL
           Natural(n) == \A x \in Nat : ShareAt(n, q, x) \in Nat
           P == {k \in 0 .. L : Natural(L - k)}
<1>0. L \in Nat
  BY TrackingAssumption
<1>1. 0 \in P
  <2>1. \A x \in Nat : ShareAt(L, q, x) = x
    BY ShareHere
  <2>2. L - 0 = L /\ 0 \in 0 .. L
    BY <1>0
  <2>3. QED
    BY <2>1, <2>2
<1>2. ASSUME NEW k \in 0 .. L, k < L, k \in P PROVE k + 1 \in P
  <2> DEFINE n == L - (k + 1)
  <2>1. n \in 0 .. L /\ n # L /\ n + 1 = L - k /\ k + 1 \in 0 .. L
    BY <1>0, <1>2
  <2>2. Natural(n + 1)
    BY <1>2, <2>1
  <2>3. ASSUME NEW x \in Nat PROVE ShareAt(n, q, x) \in Nat
    <3>1. n + 1 \in 1 .. L
      BY <1>0, <2>1
    <3>2. q[n + 1] \in {0, 1}
      BY <3>1 DEF Tracked
    <3>3. Half(x, q[n + 1]) \in Nat
      BY <3>2 DEF Half
    <3> HIDE DEF n
    <3>4. ShareAt(n, q, x) = ShareAt(n + 1, q, Half(x, q[n + 1]))
      BY <2>1, ShareStep
    <3>5. QED
      BY <2>2, <3>3, <3>4
  <2>4. QED
    BY <2>1, <2>3
<1>3. \A k \in 0 .. L : k \in P
  <2> HIDE DEF P
  <2> QED BY <1>0, <1>1, <1>2, Upto
<1>4. L - m \in 0 .. L /\ L - (L - m) = m
  BY <1>0
<1>5. QED
  BY <1>3, <1>4

\* The tracked descendants of a task, by the turns of its path.
LEMMA PrefixTurns ==
  ASSUME NEW p \in Seq({0, 1}), Len(p) <= TRACKING_LEVEL, NEW q \in Tracked
  PROVE  IsPrefix(p, q) <=> \A i \in 1 .. Len(p) : q[i] = p[i]
<1>0. TRACKING_LEVEL \in Nat /\ Len(p) \in Nat
  BY TrackingAssumption
<1>1. q \in Seq({0, 1}) /\ Len(q) = TRACKING_LEVEL
  BY <1>0 DEF Tracked
<1>2. SubSeq(q, 1, Len(p)) = [i \in 1 .. Len(p) |-> q[i]]
  BY <1>0, <1>1
<1>3. SubSeq(p, 1, Len(p)) = [i \in 1 .. Len(p) |-> p[i]]
  BY <1>0
<1>4. QED
  BY <1>1, <1>2, <1>3 DEF IsPrefix

\* What add adds to each tracked task.
Added(p, t) ==
  [q \in Tracked |-> IF Len(p) <= TRACKING_LEVEL
                     THEN IF IsPrefix(p, q) THEN Share(p, q, t) ELSE 0
                     ELSE IF q = SubSeq(p, 1, TRACKING_LEVEL) THEN t ELSE 0]

\* What is added to the times of a task above the tracked level or on it is all of its time ...
LEMMA AddedAbove ==
  ASSUME NEW p \in Seq({0, 1}), Len(p) <= TRACKING_LEVEL, NEW t \in Int
  PROVE  /\ \A q \in Tracked : Added(p, t)[q] \in Int
         /\ Sum(Added(p, t), Tracked) = t
<1> DEFINE m == Len(p)
           e == [i \in 1 .. TRACKING_LEVEL |-> IF i <= m THEN p[i] ELSE 0]
           S == Below(m, e)
           R == Tracked \ S
           f == Added(p, t)
<1>0. TRACKING_LEVEL \in Nat /\ m \in Nat /\ m \in 0 .. TRACKING_LEVEL
  BY TrackingAssumption
<1>1. e \in Tracked /\ \A i \in 1 .. m : e[i] = p[i]
  BY <1>0 DEF Tracked
<1>2. \A q \in Tracked : IsPrefix(p, q) <=> q \in S
  <2> HIDE DEF e
  <2> QED BY <1>1, PrefixTurns DEF Below
<1>3. \A q \in Tracked : f[q] = IF q \in S THEN ShareAt(m, q, t) ELSE 0
  <2>1. \A q : Share(p, q, t) = ShareAt(m, q, t)
    BY Zenon DEF Share, ShareAt
  <2> HIDE DEF S
  <2>2. QED
    BY <1>2, <2>1 DEF Added
<1>4. \A q \in Tracked : ShareAt(m, q, t) \in Int
  BY <1>0, ShareType
<1>5. S \subseteq Tracked
  BY DEF Below
<1> HIDE DEF f, S, e, m
<1>6. IsFiniteSet(S) /\ IsFiniteSet(R) /\ R \cap S = {} /\ R \cup S = Tracked
  BY <1>5, TrackedFinite, FS_Subset
<1>7. \A q \in Tracked : f[q] \in Int
  BY <1>3, <1>4
<1>8. Sum(f, S) = t
  <2> DEFINE g == Shares(m, t)
  <2>1. \A q \in S : f[q] \in Int /\ f[q] = g[q]
    BY <1>3, <1>5, <1>7 DEF Shares
  <2>2. Sum(g, S) = t
    BY <1>0, <1>1, WholeAlways DEF Whole, S
  <2> HIDE DEF g
  <2>3. Sum(f, S) = Sum(g, S)
    BY <1>6, <2>1, SumSame
  <2>4. QED
    BY <2>2, <2>3
<1>9. Sum(f, R) = 0
  <2>1. \A q \in R : f[q] = 0
    BY <1>3
  <2> HIDE DEF R
  <2>2. QED
    BY <1>6, <2>1, SumZero
<1>10. Sum(f, R \cup S) = Sum(f, R) + Sum(f, S)
  <2>1. \A q \in R \cup S : f[q] \in Int
    BY <1>6, <1>7
  <2> HIDE DEF R
  <2>2. QED
    BY <1>6, <2>1, SumUnion
<1>11. Sum(f, Tracked) = t
  <2>1. Sum(f, Tracked) = Sum(f, R) + Sum(f, S)
    BY <1>6, <1>10
  <2> HIDE DEF R
  <2>2. QED
    BY <2>1, <1>8, <1>9
<1>12. QED
  BY <1>7, <1>11 DEF f

\* ... and of one below it as well.
LEMMA AddedBelow ==
  ASSUME NEW p \in Seq({0, 1}), ~ (Len(p) <= TRACKING_LEVEL), NEW t \in Int
  PROVE  /\ \A q \in Tracked : Added(p, t)[q] \in Int
         /\ Sum(Added(p, t), Tracked) = t
<1> DEFINE a == SubSeq(p, 1, TRACKING_LEVEL)
           f == Added(p, t)
<1>0. TRACKING_LEVEL \in Nat /\ Len(p) \in Nat
  BY TrackingAssumption
<1>1. a \in Tracked
  <2>1. a = [i \in 1 .. TRACKING_LEVEL |-> p[i]]
    BY <1>0
  <2>2. \A i \in 1 .. TRACKING_LEVEL : p[i] \in {0, 1}
    BY <1>0
  <2>3. QED
    BY <2>1, <2>2 DEF Tracked
<1>2. \A q \in Tracked : f[q] = IF q = a THEN t ELSE 0
  BY DEF Added
<1> HIDE DEF a, f
<1>3. f[a] = t /\ f[a] \in Int /\ \A q \in Tracked \ {a} : f[q] = 0
  BY <1>1, <1>2
<1>4. Sum(f, Tracked) = f[a]
  BY <1>1, <1>3, TrackedFinite, SumOne
<1>5. QED
  BY <1>2, <1>3, <1>4 DEF f

\* What is added is not negative.
LEMMA AddedNat ==
  ASSUME NEW p \in Seq({0, 1}), NEW t \in Nat
  PROVE  \A q \in Tracked : Added(p, t)[q] \in Nat
<1> SUFFICES ASSUME NEW q \in Tracked PROVE Added(p, t)[q] \in Nat
  OBVIOUS
<1>1. CASE Len(p) <= TRACKING_LEVEL
  <2>1. Len(p) \in 0 .. TRACKING_LEVEL
    BY <1>1, TrackingAssumption
  <2>2. Share(p, q, t) = ShareAt(Len(p), q, t)
    BY Zenon DEF Share, ShareAt
  <2>3. Share(p, q, t) \in Nat
    BY <2>1, <2>2, ShareNat
  <2>4. QED
    BY <1>1, <2>3 DEF Added
<1>2. CASE ~ (Len(p) <= TRACKING_LEVEL)
  BY <1>2 DEF Added
<1>3. QED
  BY <1>1, <1>2

(***************************************************************************)
(* Powers of two, and the floats that their multiples are.                 *)
(***************************************************************************)
\* 2^n counts the subsets of 1 .. n ...
LEMMA PowerIsNat == ASSUME NEW n \in Nat PROVE 2^n \in Nat
<1>1. IsFiniteSet(1 .. n) /\ Cardinality(1 .. n) = n
  BY FS_Interval
<1>2. IsFiniteSet(SUBSET (1 .. n)) /\ Cardinality(SUBSET (1 .. n)) = 2^n
  BY <1>1, FS_SUBSET
<1>3. QED
  BY <1>2, FS_CardinalityType

\* ... and so doubles with every n.
LEMMA PowerDoubles == ASSUME NEW n \in Nat PROVE 2^(n + 1) = 2 * 2^n
<1> DEFINE S == SUBSET (1 .. n)
           T == {s \cup {n + 1} : s \in S}
           f == [s \in S |-> s \cup {n + 1}]
<1>1. IsFiniteSet(1 .. n) /\ Cardinality(1 .. n) = n /\ IsFiniteSet(1 .. n + 1) /\ Cardinality(1 .. n + 1) = n + 1
  BY FS_Interval
<1>2. IsFiniteSet(S) /\ Cardinality(S) = 2^n /\ Cardinality(SUBSET (1 .. n + 1)) = 2^(n + 1)
  BY <1>1, FS_SUBSET
<1>3. n + 1 \notin 1 .. n
  OBVIOUS
<1>4. f \in Bijection(S, T)
  <2>1. \A s, t \in S : f[s] = f[t] => s = t
    <3> SUFFICES ASSUME NEW s \in S, NEW t \in S, s \cup {n + 1} = t \cup {n + 1} PROVE s = t
      OBVIOUS
    <3>1. n + 1 \notin s /\ n + 1 \notin t
      BY <1>3
    <3>2. s = (s \cup {n + 1}) \ {n + 1} /\ t = (t \cup {n + 1}) \ {n + 1}
      BY <3>1
    <3>3. QED
      BY <3>2, Zenon
  <2>2. f \in [S -> T] /\ \A t \in T : \E s \in S : f[s] = t
    OBVIOUS
  <2>3. QED
    BY <2>1, <2>2 DEF Bijection, Injection, Surjection, IsInjective
<1>5. IsFiniteSet(T) /\ Cardinality(T) = Cardinality(S)
  <2>1. ExistsBijection(S, T)
    BY <1>4 DEF ExistsBijection
  <2>2. QED
    BY <2>1, <1>2, FS_Bijection
<1>6. S \cap T = {}
  BY <1>3
<1>7. S \cup T = SUBSET (1 .. n + 1)
  <2>1. 1 .. n + 1 = (1 .. n) \cup {n + 1}
    OBVIOUS
  <2>2. ASSUME NEW u \in SUBSET (1 .. n + 1), n + 1 \in u PROVE u \in T
    <3>1. u \ {n + 1} \in S /\ u = (u \ {n + 1}) \cup {n + 1}
      BY <2>1, <2>2
    <3>2. QED
      BY <3>1
  <2>3. ASSUME NEW u \in SUBSET (1 .. n + 1), n + 1 \notin u PROVE u \in S
    BY <2>1, <2>3
  <2>4. S \cup T \subseteq SUBSET (1 .. n + 1)
    BY <2>1
  <2>5. QED
    BY <2>2, <2>3, <2>4
<1>8. Cardinality(S \cup T) = Cardinality(S) + Cardinality(T) - Cardinality(S \cap T)
  BY <1>2, <1>5, FS_Union
<1>9. Cardinality(S \cap T) = 0
  BY <1>6, FS_EmptySet
<1>10. 2^n \in Nat
  BY PowerIsNat
<1> HIDE DEF S, T
<1>11. 2^(n + 1) = Cardinality(S) + Cardinality(T) - 0
  BY <1>2, <1>7, <1>8, <1>9
<1>12. QED
  BY <1>11, <1>10, <1>2, <1>5


\* What is needed of the powers of two.
LEMMA Powers == \A n \in Nat : 2^n \in Nat /\ 2^n > n /\ 2^(n + 1) = 2 * 2^n
<1>1. \A n \in Nat : 2^n \in Nat /\ 2^(n + 1) = 2 * 2^n
  BY PowerIsNat, PowerDoubles
<1> SUFFICES ASSUME NEW n \in Nat PROVE 2^n > n
  BY <1>1
<1> DEFINE S == {k \in Nat : 2^k > k}
<1>2. 0 \in S
  OBVIOUS
<1>3. ASSUME NEW k \in 0 .. n, k < n, k \in S PROVE k + 1 \in S
  <2> DEFINE a == 2^k
             b == 2^(k + 1)
  <2>1. b = 2 * a /\ a \in Nat /\ a > k
    BY <1>1, <1>3
  <2> HIDE DEF a, b
  <2>2. b > k + 1
    BY <2>1
  <2>3. QED
    BY <2>2 DEF b
<1> HIDE DEF S
<1>4. n \in S
  BY <1>2, <1>3, Upto
<1>5. QED
  BY <1>4 DEF S

\* A power divides those above it, and is not greater.
LEMMA PowersGrow ==
  ASSUME NEW m \in Nat, NEW n \in Nat, m <= n
  PROVE  2^m <= 2^n /\ \E c \in Nat : 2^n = 2^m * c
<1> DEFINE S == {k \in 0 .. n - m : 2^m <= 2^(m + k) /\ \E c \in Nat : 2^(m + k) = 2^m * c}
<1>1. 0 \in S
  <2>1. 2^(m + 0) = 2^m /\ 2^m \in Nat
    BY Powers
  <2> DEFINE a == 2^m
  <2> HIDE DEF a
  <2>2. a \in Nat => a <= a /\ a = a * 1
    OBVIOUS
  <2>3. QED
    BY <2>1, <2>2 DEF a
<1>2. ASSUME NEW k \in 0 .. n - m, k < n - m, k \in S PROVE k + 1 \in S
  <2>1. m + k \in Nat /\ m + (k + 1) = (m + k) + 1 /\ k + 1 \in 0 .. n - m
    BY <1>2
  <2> DEFINE a == 2^m
             b == 2^(m + k)
             d == 2^(m + (k + 1))
  <2>2. a \in Nat /\ b \in Nat /\ d = 2 * b /\ a <= b
    BY <1>2, <2>1, Powers
  <2>3. PICK c \in Nat : b = a * c
    BY <1>2
  <2> HIDE DEF a, b, d
  <2>4. a <= d
    BY <2>2
  <2>5. d = a * (2 * c) /\ 2 * c \in Nat
    BY <2>2, <2>3
  <2>6. QED
    BY <2>1, <2>4, <2>5 DEF a, d
<1>3. n - m \in Nat /\ m + (n - m) = n
  OBVIOUS
<1> HIDE DEF S
<1>4. n - m \in S
  BY <1>1, <1>2, <1>3, Upto
<1>5. QED
  BY <1>3, <1>4 DEF S

\* The distance of neighbouring floats is a power of two ...
LEMMA UlpIs ==
  ASSUME NEW x \in Nat
  PROVE  \E k \in Nat : /\ Ulp(x) = 2^k
                        /\ x < 2^(k + Mantissa)
                        /\ k = 0 \/ x >= 2^((k - 1) + Mantissa)
<1> DEFINE T == {k \in Nat : x < 2^(k + Mantissa)}
           Fits(k) == x < 2^(k + Mantissa) /\ (k = 0 \/ x >= 2^((k - 1) + Mantissa))
<1>0. Mantissa \in Nat
  BY TrackingAssumption
<1>1. x \in T
  <2>1. x + Mantissa \in Nat /\ 2^(x + Mantissa) > x + Mantissa /\ 2^(x + Mantissa) \in Nat
    BY <1>0, Powers
  <2> DEFINE a == 2^(x + Mantissa)
  <2> HIDE DEF a
  <2>2. a \in Nat /\ a > x + Mantissa => x < a
    BY <1>0
  <2>3. QED
    BY <2>1, <2>2 DEF a
<1>2. PICK k \in T : \A j \in T : k <= j
  <2>1. T \subseteq Nat /\ T # {}
    BY <1>1
  <2> HIDE DEF T
  <2>2. QED
    BY <2>1, Least
<1>3. k \in 0 .. x
  BY <1>1, <1>2
<1>4. k = 0 \/ x >= 2^((k - 1) + Mantissa)
  <2> SUFFICES ASSUME k # 0 PROVE x >= 2^((k - 1) + Mantissa)
    OBVIOUS
  <2>1. k - 1 \in Nat /\ ~ (k <= k - 1) /\ (k - 1) + Mantissa \in Nat
    BY <1>0, <1>3
  <2>2. k - 1 \notin T
    BY <1>2, <2>1
  <2>3. 2^((k - 1) + Mantissa) \in Nat
    BY <2>1, Powers
  <2> DEFINE a == 2^((k - 1) + Mantissa)
  <2>4. ~ (x < a) /\ a \in Nat
    BY <2>1, <2>2, <2>3
  <2> HIDE DEF a
  <2>5. x >= a
    BY <2>4
  <2>6. QED
    BY <2>5 DEF a
<1>5. Fits(k)
  BY <1>2, <1>4
<1>6. Ulp(x) = 2^(CHOOSE j \in 0 .. x : Fits(j))
  BY DEF Ulp
<1> HIDE DEF Fits
<1> DEFINE c == CHOOSE j \in 0 .. x : Fits(j)
<1>7. c \in 0 .. x /\ Fits(c)
  BY <1>3, <1>5
<1>8. Ulp(x) = 2^c
  BY <1>6
<1> HIDE DEF c
<1>9. QED
  BY <1>7, <1>8 DEF Fits

\* ... and the least one that fits.
LEMMA UlpLeast ==
  ASSUME NEW k \in Nat, NEW y \in Nat, k = 0 \/ y >= 2^((k - 1) + Mantissa)
  PROVE  2^k <= Ulp(y)
<1>0. Mantissa \in Nat
  BY TrackingAssumption
<1>1. PICK j \in Nat : Ulp(y) = 2^j /\ y < 2^(j + Mantissa)
  BY UlpIs
<1>2. k <= j
  <2> SUFFICES ASSUME k # 0, j <= k - 1 PROVE FALSE
    OBVIOUS
  <2>1. (k - 1) + Mantissa \in Nat /\ j + Mantissa \in Nat /\ j + Mantissa <= (k - 1) + Mantissa
    BY <1>0
  <2> DEFINE a == 2^(j + Mantissa)
             b == 2^((k - 1) + Mantissa)
  <2>2. a <= b /\ a \in Nat /\ b \in Nat /\ y >= b /\ y < a
    BY <1>1, <2>1, PowersGrow, Powers
  <2> HIDE DEF a, b
  <2>3. QED
    BY <2>2
<1>3. QED
  BY <1>1, <1>2, PowersGrow

\* Half a distance is a whole number unless the distance is one.
LEMMA UlpType ==
  ASSUME NEW x \in Nat
  PROVE  /\ Ulp(x) \in Nat \ {0}
         /\ Ulp(x) = 1 \/ \E h \in Nat : Ulp(x) = 2 * h
<1>1. PICK k \in Nat : Ulp(x) = 2^k
  BY UlpIs
<1>2. 2^k \in Nat \ {0}
  <2>1. 2^k \in Nat /\ 2^k > k
    BY Powers
  <2> DEFINE a == 2^k
  <2> HIDE DEF a
  <2>2. a \in Nat /\ a > k => a \in Nat \ {0}
    OBVIOUS
  <2>3. QED
    BY <2>1, <2>2 DEF a
<1>3. CASE k = 0
  BY <1>1, <1>2, <1>3
<1>4. CASE k # 0
  <2>1. k - 1 \in Nat /\ (k - 1) + 1 = k
    BY <1>4
  <2>2. 2^k = 2 * 2^(k - 1) /\ 2^(k - 1) \in Nat
    BY <2>1, Powers
  <2>3. QED
    BY <1>1, <1>2, <2>2
<1>5. QED
  BY <1>3, <1>4

\* Greater floats are not closer.
LEMMA UlpGrows ==
  ASSUME NEW x \in Nat, NEW y \in Nat, x <= y
  PROVE  Ulp(x) <= Ulp(y)
<1>0. Mantissa \in Nat
  BY TrackingAssumption
<1>1. PICK k \in Nat : Ulp(x) = 2^k /\ (k = 0 \/ x >= 2^((k - 1) + Mantissa))
  BY UlpIs
<1>2. k = 0 \/ y >= 2^((k - 1) + Mantissa)
  <2> SUFFICES ASSUME k # 0 PROVE y >= 2^((k - 1) + Mantissa)
    OBVIOUS
  <2> DEFINE a == 2^((k - 1) + Mantissa)
  <2>1. a \in Nat
    <3>1. (k - 1) + Mantissa \in Nat
      BY <1>0
    <3>2. QED
      BY <3>1, Powers
  <2>2. x >= a
    BY <1>1
  <2> HIDE DEF a
  <2>3. y >= a
    BY <2>1, <2>2
  <2>4. QED
    BY <2>3 DEF a
<1>3. QED
  BY <1>1, <1>2, UlpLeast

\* A float is a whole number of the distances at it.
IsFloat(x) == x \in Nat /\ \E n \in Nat : x = Ulp(x) * n

\* Quotient and remainder.
LEMMA Division ==
  ASSUME NEW x \in Nat, NEW u \in Nat \ {0}
  PROVE  x \div u \in Nat /\ x % u \in Nat /\ x % u < u /\ x = u * (x \div u) + (x % u)
<1>1. x \div u \in Int /\ x % u \in Int /\ 0 <= x % u /\ x % u < u /\ x = u * (x \div u) + (x % u)
  OBVIOUS
<1> DEFINE d == x \div u
           r == x % u
<1>2. d \in Int /\ r \in Int /\ 0 <= r /\ r < u /\ x = u * d + r
  BY <1>1
<1> HIDE DEF d, r
<1>3. d >= 0
  <2> SUFFICES ASSUME d <= -1 PROVE FALSE
    BY <1>2
  <2>1. u * d <= -u
    BY <1>2
  <2>2. QED
    BY <1>2, <2>1
<1>4. d \in Nat /\ r \in Nat
  BY <1>2, <1>3
<1>5. QED
  BY <1>2, <1>4 DEF d, r

\* Rounding gives a whole number of distances, one of the two around x.
LEMMA FloatIs ==
  ASSUME NEW x \in Nat
  PROVE  \E n \in Nat :
           /\ Float(x) = Ulp(x) * n
           /\ n = x \div Ulp(x) \/ n = x \div Ulp(x) + 1
           /\ Float(x) - x \in -(Ulp(x) \div 2) .. Ulp(x) \div 2
<1> DEFINE u == Ulp(x)
           d == x \div u
           r == x % u
           down == 2 * r < u \/ (2 * r = u /\ d % 2 = 0)
<1>1. u \in Nat \ {0} /\ (u = 1 \/ \E h \in Nat : u = 2 * h)
  BY UlpType
<1>2. d \in Nat /\ r \in Nat /\ r < u /\ x = u * d + r
  <2> HIDE DEF u
  <2>1. QED
    BY <1>1, Division
<1>3. Float(x) = u * (IF down THEN d ELSE d + 1)
  BY DEF Float
<1>4. down => 2 * r <= u
  BY <1>1, <1>2
<1>5. ~ down => 2 * r >= u
  BY <1>1, <1>2
<1> HIDE DEF u, d, r, down
<1>6. u \div 2 \in Nat /\ (u = 1 \/ u = 2 * (u \div 2))
  BY <1>1
<1> DEFINE p == u * d
           h == u \div 2
<1>7. u * d \in Int /\ u * (d + 1) = u * d + u
  BY <1>1, <1>2
<1>8. p \in Int /\ h \in Nat /\ (u = 1 \/ u = 2 * h) /\ x = p + r
  BY <1>2, <1>6, <1>7
<1>9. CASE down
  <2>1. Float(x) = p
    BY <1>3, <1>9
  <2> HIDE DEF p, h
  <2>2. Float(x) - x \in -h .. h
    BY <2>1, <1>1, <1>2, <1>4, <1>8, <1>9
  <2>3. QED
    BY <2>1, <2>2, <1>2 DEF p, h, u, d
<1>10. CASE ~ down
  <2>1. Float(x) = p + u
    BY <1>3, <1>7, <1>10
  <2>4. Float(x) = u * (d + 1) /\ d + 1 \in Nat
    BY <1>2, <1>3, <1>10
  <2> HIDE DEF p, h
  <2>5. u # 1
    BY <1>2, <1>4, <1>5, <1>10, <1>1 DEF down
  <2>2. Float(x) - x \in -h .. h
    BY <2>1, <2>5, <1>1, <1>2, <1>5, <1>8, <1>10
  <2>3. QED
    BY <2>2, <2>4 DEF h, u, d
<1>11. QED
  BY <1>9, <1>10

\* What x reaches in whole distances, its float reaches.
LEMMA FloatReaches ==
  ASSUME NEW x \in Nat, NEW n \in Nat, Ulp(x) * n <= x
  PROVE  Float(x) \in Nat /\ Ulp(x) * n <= Float(x)
<1> DEFINE u == Ulp(x)
           d == x \div u
<1>1. u \in Nat \ {0}
  BY UlpType
<1>2. d \in Nat /\ x < u * (d + 1)
  <2> HIDE DEF u
  <2> DEFINE r == x % u
  <2>1. d \in Nat /\ r \in Nat /\ r < u /\ x = u * d + r
    BY <1>1, Division
  <2> HIDE DEF d, r
  <2>2. u * (d + 1) = u * d + u /\ u * d \in Int
    BY <1>1, <2>1
  <2>3. QED
    BY <1>1, <2>1, <2>2 DEF d
<1>3. PICK m \in Nat : Float(x) = u * m /\ m >= d
  <2>1. PICK m \in Nat : Float(x) = u * m /\ (m = d \/ m = d + 1)
    BY FloatIs
  <2> HIDE DEF u, d
  <2>2. m >= d
    BY <2>1, <1>2
  <2>3. QED
    BY <2>1, <2>2
<1> HIDE DEF d
<1>4. u * n <= x
  OBVIOUS
<1> HIDE DEF u
<1>5. n <= d
  <2> SUFFICES ASSUME n >= d + 1 PROVE FALSE
    BY <1>2
  <2>1. u * n >= u * (d + 1)
    BY <1>1, <1>2
  <2>2. u * n \in Int /\ u * (d + 1) \in Int
    BY <1>1, <1>2
  <2>3. QED
    BY <1>2, <1>4, <2>1, <2>2
<1>6. u * n <= u * m
  <2>1. n <= m
    BY <1>2, <1>3, <1>5
  <2>2. QED
    BY <1>1, <2>1
<1>7. u * m \in Nat
  BY <1>1
<1>8. QED
  BY <1>3, <1>6, <1>7 DEF u

\* The power that x reaches is reached by its float.
LEMMA FloatReachesPower ==
  ASSUME NEW x \in Nat, NEW k \in Nat, Ulp(x) = 2^k, k # 0, x >= 2^((k - 1) + Mantissa)
  PROVE  Float(x) >= 2^((k - 1) + Mantissa)
<1>0. Mantissa \in Nat \ {0} /\ k <= (k - 1) + Mantissa /\ (k - 1) + Mantissa \in Nat
  BY TrackingAssumption
<1>1. PICK c \in Nat : 2^((k - 1) + Mantissa) = 2^k * c
  BY <1>0, PowersGrow
<1> DEFINE a == 2^((k - 1) + Mantissa)
<1>2. a = Ulp(x) * c /\ x >= a /\ a \in Nat
  BY <1>0, <1>1, Powers
<1> HIDE DEF a
<1>3. Ulp(x) * c <= x
  BY <1>2
<1>4. Float(x) \in Nat /\ Ulp(x) * c <= Float(x)
  BY <1>3, FloatReaches
<1>5. Float(x) >= a
  BY <1>2, <1>4
<1>6. QED
  BY <1>5 DEF a

\* Rounding does not bring floats closer.
LEMMA UlpOfFloat ==
  ASSUME NEW x \in Nat
  PROVE  Float(x) \in Nat /\ Ulp(x) <= Ulp(Float(x))
<1>1. PICK k \in Nat : Ulp(x) = 2^k /\ (k = 0 \/ x >= 2^((k - 1) + Mantissa))
  BY UlpIs
<1>2. Float(x) \in Nat
  <2>1. Ulp(x) * 0 <= x
    BY UlpType
  <2>2. QED
    BY <2>1, FloatReaches
<1>3. k = 0 \/ Float(x) >= 2^((k - 1) + Mantissa)
  BY <1>1, FloatReachesPower
<1>4. QED
  BY <1>1, <1>2, <1>3, UlpLeast

\* What is rounded is a float.
LEMMA FloatIsFloat == ASSUME NEW x \in Nat PROVE IsFloat(Float(x))
<1> DEFINE y == Float(x)
<1>0. Mantissa \in Nat \ {0}
  BY TrackingAssumption
<1>1. PICK k \in Nat : Ulp(x) = 2^k /\ x < 2^(k + Mantissa) /\ (k = 0 \/ x >= 2^((k - 1) + Mantissa))
  BY UlpIs
<1>2. y \in Nat
  BY UlpOfFloat
<1>3. PICK n \in Nat : y = 2^k * n /\ (n = x \div 2^k \/ n = x \div 2^k + 1)
  BY <1>1, FloatIs
<1>4. 2^k \in Nat \ {0}
  BY <1>1, UlpType
<1> HIDE DEF y
<1>5. y <= 2^(k + Mantissa)
  <2>1. PICK c \in Nat : 2^(k + Mantissa) = 2^k * c
    <3>1. k <= k + Mantissa /\ k + Mantissa \in Nat
      BY <1>0
    <3>2. QED
      BY <3>1, PowersGrow
  <2> DEFINE u == 2^k
             d == x \div u
             r == x % u
  <2>2. u \in Nat \ {0} /\ d \in Nat /\ r \in Nat /\ r < u /\ x = u * d + r
    <3> HIDE DEF u
    <3>1. QED
      BY <1>4, Division DEF u
  <2>3. x < u * c /\ y = u * n /\ (n = d \/ n = d + 1)
    BY <1>1, <1>3, <2>1
  <2> HIDE DEF u, d, r
  <2>4. d < c
    <3> SUFFICES ASSUME d >= c PROVE FALSE
      BY <2>2
    <3>1. u * d >= u * c /\ u * d \in Int /\ u * c \in Int
      BY <2>2
    <3>2. QED
      BY <2>2, <2>3, <3>1
  <2>5. n <= c
    BY <2>2, <2>3, <2>4
  <2>6. u * n <= u * c
    BY <2>2, <2>5
  <2>7. QED
    BY <2>1, <2>3, <2>6 DEF u
<1>6. PICK j \in Nat : Ulp(y) = 2^j /\ y < 2^(j + Mantissa) /\ (j = 0 \/ y >= 2^((j - 1) + Mantissa))
  BY <1>2, UlpIs
<1>7. \E m \in Nat : y = 2^j * m
  <2>1. CASE j <= k
    <3>1. PICK c \in Nat : 2^k = 2^j * c
      BY <2>1, PowersGrow
    <3> DEFINE u == 2^k
               v == 2^j
    <3>2. u = v * c /\ y = u * n /\ v \in Nat
      BY <3>1, <1>3, Powers
    <3> HIDE DEF u, v
    <3>3. y = v * (c * n) /\ c * n \in Nat
      BY <3>2
    <3>4. QED
      BY <3>3 DEF v
  <2>2. CASE j > k
    <3>1. (j - 1) + Mantissa \in Nat /\ k + Mantissa \in Nat /\ k + Mantissa <= (j - 1) + Mantissa
      BY <1>0, <2>2
    <3> DEFINE a == 2^((j - 1) + Mantissa)
               b == 2^(k + Mantissa)
    <3>2. a \in Nat /\ b \in Nat /\ b <= a /\ y >= a /\ y <= b
      BY <1>5, <1>6, <2>2, <3>1, PowersGrow, Powers
    <3> HIDE DEF a, b
    <3>3. y = a
      BY <1>2, <3>2
    <3>4. j <= (j - 1) + Mantissa
      BY <1>0
    <3>5. \E m \in Nat : a = 2^j * m
      BY <3>1, <3>4, PowersGrow DEF a
    <3>6. QED
      BY <3>3, <3>5
  <2>3. QED
    BY <2>1, <2>2
<1>8. QED
  BY <1>2, <1>6, <1>7 DEF IsFloat, y

\* Rounding does not take a number below a float it was not below.
LEMMA FloatKeeps ==
  ASSUME NEW a, IsFloat(a), NEW x \in Nat, a <= x
  PROVE  a <= Float(x)
<1>0. Mantissa \in Nat \ {0} /\ a \in Nat
  BY TrackingAssumption DEF IsFloat
<1>1. PICK k \in Nat : Ulp(x) = 2^k /\ (k = 0 \/ x >= 2^((k - 1) + Mantissa))
  BY UlpIs
<1>2. PICK j \in Nat : Ulp(a) = 2^j /\ a < 2^(j + Mantissa)
  BY <1>0, UlpIs
<1>3. PICK n \in Nat : a = Ulp(a) * n
  BY DEF IsFloat
<1>4. CASE k <= j
  <2>1. PICK c \in Nat : 2^j = 2^k * c
    BY <1>4, PowersGrow
  <2> DEFINE u == 2^k
             v == 2^j
  <2>2. v = u * c /\ a = v * n /\ u \in Nat
    BY <2>1, <1>2, <1>3, Powers
  <2> HIDE DEF u, v
  <2>3. a = u * (c * n) /\ c * n \in Nat
    BY <2>2
  <2>4. QED
    BY <1>1, <2>3, FloatReaches DEF u
<1>5. CASE j < k
  <2>1. j + Mantissa \in Nat /\ (k - 1) + Mantissa \in Nat /\ j + Mantissa <= (k - 1) + Mantissa /\ k # 0
    BY <1>0, <1>5
  <2> DEFINE p == 2^(j + Mantissa)
             q == 2^((k - 1) + Mantissa)
  <2>2. p <= q /\ p \in Nat /\ q \in Nat /\ a < p /\ Float(x) >= q /\ Float(x) \in Nat
    BY <1>1, <1>2, <2>1, PowersGrow, Powers, FloatReachesPower, UlpOfFloat
  <2> HIDE DEF p, q
  <2>3. QED
    BY <1>0, <2>2
<1>6. QED
  BY <1>4, <1>5

\* Half the distance, as the bound of a rounding.
HalfUlp(x) == Ulp(x) \div 2

LEMMA HalfUlps ==
  ASSUME NEW x \in Nat, NEW y \in Nat, Ulp(x) <= Ulp(y)
  PROVE  HalfUlp(x) \in Nat /\ HalfUlp(y) \in Nat /\ HalfUlp(x) <= HalfUlp(y)
<1> DEFINE u == Ulp(x)
           v == Ulp(y)
<1>1. u \in Nat /\ v \in Nat /\ u <= v
  BY UlpType
<1> HIDE DEF u, v
<1>2. u \div 2 \in Nat /\ v \div 2 \in Nat /\ u \div 2 <= v \div 2
  BY <1>1
<1>3. QED
  BY <1>2 DEF u, v, HalfUlp

\* What is added to a float: its own conversion and the addition round once each.
Plus(a, s) == Float(a + Float(s))

LEMMA PlusRounds ==
  ASSUME NEW a, IsFloat(a), NEW s \in Nat
  PROVE  /\ IsFloat(Plus(a, s)) /\ a <= Plus(a, s)
         /\ HalfUlp(a) <= HalfUlp(Plus(a, s)) /\ HalfUlp(a) \in Nat /\ HalfUlp(Plus(a, s)) \in Nat
         /\ (Plus(a, s) - a) - s \in -(2 * HalfUlp(Plus(a, s))) .. 2 * HalfUlp(Plus(a, s))
<1> DEFINE f == Float(s)
           x == a + f
           n == Float(x)
<1>0. a \in Nat
  BY DEF IsFloat
<1>1. f \in Nat /\ Ulp(s) <= Ulp(f)
  BY UlpOfFloat
<1>2. f - s \in -HalfUlp(s) .. HalfUlp(s)
  BY FloatIs DEF HalfUlp
<1>3. x \in Nat /\ f <= x /\ a <= x
  <2> HIDE DEF f
  <2> QED BY <1>0, <1>1
<1> HIDE DEF f
<1>4. Ulp(f) <= Ulp(x) /\ Ulp(a) <= Ulp(x)
  <2> HIDE DEF x
  <2> QED BY <1>0, <1>1, <1>3, UlpGrows
<1>5. n \in Nat /\ Ulp(x) <= Ulp(n) /\ IsFloat(n) /\ a <= n /\ n - x \in -HalfUlp(x) .. HalfUlp(x)
  <2> HIDE DEF x
  <2>1. n \in Nat /\ Ulp(x) <= Ulp(n)
    BY <1>3, UlpOfFloat
  <2>2. IsFloat(n) /\ a <= n
    BY <1>3, FloatIsFloat, FloatKeeps
  <2>3. n - x \in -HalfUlp(x) .. HalfUlp(x)
    BY <1>3, FloatIs DEF HalfUlp
  <2>4. QED
    BY <2>1, <2>2, <2>3
<1>6. /\ HalfUlp(s) \in Nat /\ HalfUlp(s) <= HalfUlp(f)
      /\ HalfUlp(f) \in Nat /\ HalfUlp(f) <= HalfUlp(x)
      /\ HalfUlp(a) \in Nat /\ HalfUlp(a) <= HalfUlp(x)
      /\ HalfUlp(x) \in Nat /\ HalfUlp(x) <= HalfUlp(n) /\ HalfUlp(n) \in Nat
  <2> HIDE DEF x, n
  <2> QED BY <1>0, <1>1, <1>3, <1>4, <1>5, HalfUlps
<1>7. n - (a + f) \in -HalfUlp(x) .. HalfUlp(x)
  BY <1>5
<1> HIDE DEF x, n
<1>8. (n - a) - s \in -(2 * HalfUlp(n)) .. 2 * HalfUlp(n)
  BY <1>0, <1>1, <1>2, <1>5, <1>6, <1>7
<1>9. Plus(a, s) = n
  BY DEF Plus, n, x, f
<1>10. HalfUlp(a) <= HalfUlp(n)
  BY <1>6
<1>11. QED
  BY <1>5, <1>6, <1>8, <1>9, <1>10

\* The difference of two floats rounds once, by less than the greater one would.
LEMMA MinusRounds ==
  ASSUME NEW a \in Nat, NEW b \in Nat, b <= a
  PROVE  /\ Float(a - b) \in Nat /\ HalfUlp(a) \in Nat
         /\ Float(a - b) - (a - b) \in -HalfUlp(a) .. HalfUlp(a)
<1> DEFINE d == a - b
<1>1. d \in Nat /\ d <= a
  OBVIOUS
<1> HIDE DEF d
<1>2. Float(d) \in Nat /\ Float(d) - d \in -HalfUlp(d) .. HalfUlp(d)
  BY <1>1, UlpOfFloat, FloatIs DEF HalfUlp
<1>3. Ulp(d) <= Ulp(a)
  BY <1>1, UlpGrows
<1>4. HalfUlp(d) \in Nat /\ HalfUlp(a) \in Nat /\ HalfUlp(d) <= HalfUlp(a)
  BY <1>1, <1>3, HalfUlps
<1>5. Float(d) - d \in -HalfUlp(a) .. HalfUlp(a)
  BY <1>1, <1>2, <1>4
<1>6. QED
  BY <1>2, <1>4, <1>5 DEF d

(***************************************************************************)
(* The times that were recorded and handed out.                            *)
(***************************************************************************)
\* What adds up pointwise is bounded and ordered as a whole.
LEMMA SumWithin ==
  ASSUME NEW S, IsFiniteSet(S), NEW f, NEW b,
         \A x \in S : b[x] \in Nat /\ f[x] \in -b[x] .. b[x]
  PROVE  Sum(b, S) \in Nat /\ Sum(f, S) \in -Sum(b, S) .. Sum(b, S)
<1> DEFINE P == {s \in SUBSET S : Sum(b, s) \in Nat /\ Sum(f, s) \in -Sum(b, s) .. Sum(b, s)}
<1>1. {} \in P
  <2>1. Sum(b, {}) = 0 /\ Sum(f, {}) = 0
    BY SumEmpty
  <2>2. QED
    BY <2>1
<1>2. ASSUME NEW s \in SUBSET S, NEW x \in S, x \notin s, s \in P PROVE s \cup {x} \in P
  <2> DEFINE r == s \cup {x}
  <2>1. r \in SUBSET S /\ x \in r /\ r \ {x} = s /\ IsFiniteSet(r)
    BY <1>2, FS_Subset
  <2>2. \A y \in r : f[y] \in Int /\ b[y] \in Int
    OBVIOUS
  <2> HIDE DEF r
  <2>3. Sum(f, r) = f[x] + Sum(f, s) /\ Sum(b, r) = b[x] + Sum(b, s)
    BY <2>1, <2>2, SumTake
  <2>4. b[x] \in Nat /\ f[x] \in -b[x] .. b[x] /\ Sum(b, s) \in Nat /\ Sum(f, s) \in -Sum(b, s) .. Sum(b, s)
    BY <1>2
  <2>5. Sum(b, r) \in Nat /\ Sum(f, r) \in -Sum(b, r) .. Sum(b, r)
    BY <2>3, <2>4
  <2>6. QED
    BY <2>1, <2>5 DEF r
<1>3. S \in P
  <2> HIDE DEF P
  <2> QED BY <1>1, <1>2, Subsets
<1>4. QED
  BY <1>3

LEMMA SumLess ==
  ASSUME NEW S, IsFiniteSet(S), NEW f, NEW g, \A x \in S : f[x] \in Nat /\ g[x] \in Nat /\ f[x] <= g[x]
  PROVE  Sum(f, S) \in Nat /\ Sum(g, S) \in Nat /\ Sum(f, S) <= Sum(g, S)
<1> DEFINE P == {s \in SUBSET S : Sum(f, s) \in Nat /\ Sum(g, s) \in Nat /\ Sum(f, s) <= Sum(g, s)}
<1>1. {} \in P
  BY SumEmpty
<1>2. ASSUME NEW s \in SUBSET S, NEW x \in S, x \notin s, s \in P PROVE s \cup {x} \in P
  <2> DEFINE r == s \cup {x}
  <2>1. r \in SUBSET S /\ x \in r /\ r \ {x} = s /\ IsFiniteSet(r)
    BY <1>2, FS_Subset
  <2>2. \A y \in r : f[y] \in Int /\ g[y] \in Int
    OBVIOUS
  <2> HIDE DEF r
  <2>3. Sum(f, r) = f[x] + Sum(f, s) /\ Sum(g, r) = g[x] + Sum(g, s)
    BY <2>1, <2>2, SumTake
  <2>4. f[x] \in Nat /\ g[x] \in Nat /\ f[x] <= g[x] /\ Sum(f, s) \in Nat /\ Sum(g, s) \in Nat /\ Sum(f, s) <= Sum(g, s)
    BY <1>2
  <2>5. Sum(f, r) \in Nat /\ Sum(g, r) \in Nat /\ Sum(f, r) <= Sum(g, r)
    BY <2>3, <2>4
  <2>6. QED
    BY <2>1, <2>5 DEF r
<1>3. S \in P
  <2> HIDE DEF P
  <2> QED BY <1>1, <1>2, Subsets
<1>4. QED
  BY <1>3

\* Two functions that differ pointwise by c and an error.
LEMMA SumDiffers ==
  ASSUME NEW S, IsFiniteSet(S), NEW f, NEW g, NEW c, NEW b,
         \A x \in S : /\ f[x] \in Int /\ g[x] \in Int /\ c[x] \in Int /\ b[x] \in Nat
                      /\ (g[x] - f[x]) - c[x] \in -b[x] .. b[x]
  PROVE  /\ Sum(f, S) \in Int /\ Sum(g, S) \in Int /\ Sum(c, S) \in Int /\ Sum(b, S) \in Nat
         /\ (Sum(g, S) - Sum(f, S)) - Sum(c, S) \in -Sum(b, S) .. Sum(b, S)
<1> DEFINE e == [x \in S |-> (g[x] - f[x]) - c[x]]
           h == [x \in S |-> f[x] + c[x]]
<1>1. \A x \in S : /\ e[x] \in Int /\ h[x] \in Int /\ h[x] = f[x] + c[x] /\ g[x] = h[x] + e[x]
                   /\ b[x] \in Nat /\ e[x] \in -b[x] .. b[x] /\ f[x] \in Int /\ c[x] \in Int /\ g[x] \in Int
  OBVIOUS
<1> HIDE DEF e, h
<1>2. Sum(h, S) = Sum(f, S) + Sum(c, S) /\ Sum(g, S) = Sum(h, S) + Sum(e, S)
  BY <1>1, SumAdd
<1>3. Sum(f, S) \in Int /\ Sum(c, S) \in Int /\ Sum(g, S) \in Int /\ Sum(e, S) \in Int
  BY <1>1, SumType
<1>4. Sum(b, S) \in Nat /\ Sum(e, S) \in -Sum(b, S) .. Sum(b, S)
  BY <1>1, SumWithin
<1>5. QED
  BY <1>2, <1>3, <1>4

\* Half the distances at the tracked times.
Halves(times) == [q \in Tracked |-> Ulp(times[q]) \div 2]
Doubled(b) == [q \in Tracked |-> 2 * b[q]]

LEMMA SumDoubled ==
  ASSUME NEW b, \A q \in Tracked : b[q] \in Nat
  PROVE  Sum(Doubled(b), Tracked) = 2 * Sum(b, Tracked) /\ Sum(b, Tracked) \in Nat
<1> DEFINE d == Doubled(b)
<1>1. \A q \in Tracked : d[q] = b[q] + b[q] /\ b[q] \in Int /\ b[q] \in Nat /\ b[q] <= b[q]
  BY DEF Doubled
<1> HIDE DEF d
<1>2. Sum(d, Tracked) = Sum(b, Tracked) + Sum(b, Tracked)
  BY <1>1, TrackedFinite, SumAdd
<1>3. Sum(b, Tracked) \in Nat
  BY <1>1, TrackedFinite, SumLess
<1>4. QED
  BY <1>2, <1>3 DEF d

\* The times that are kept.
Times == {f \in [Tracked -> Nat] : \A q \in Tracked : IsFloat(f[q])}

LEMMA HalvesType ==
  ASSUME NEW f \in [Tracked -> Nat]
  PROVE  /\ \A q \in Tracked : Halves(f)[q] = HalfUlp(f[q]) /\ Halves(f)[q] \in Nat
         /\ Sum(Halves(f), Tracked) \in Nat
<1> DEFINE b == Halves(f)
<1>1. \A q \in Tracked : b[q] = HalfUlp(f[q])
  BY DEF Halves, HalfUlp
<1>2. \A q \in Tracked : b[q] \in Nat
  <2> SUFFICES ASSUME NEW q \in Tracked PROVE b[q] \in Nat
    OBVIOUS
  <2>1. f[q] \in Nat
    OBVIOUS
  <2>2. Ulp(f[q]) \in Nat
    BY <2>1, UlpType
  <2>3. Ulp(f[q]) <= Ulp(f[q])
    BY <2>2
  <2>4. HalfUlp(f[q]) \in Nat
    BY <2>1, <2>3, HalfUlps
  <2>5. QED
    BY <1>1, <2>4
<1> HIDE DEF b
<1>3. Sum(b, Tracked) \in Nat
  BY <1>2, SumDoubled
<1>4. QED
  BY <1>1, <1>2, <1>3 DEF b

\* A time that is added arrives at the tracked tasks up to two roundings each.
LEMMA AddRounds ==
  ASSUME NEW f \in Times, NEW p \in Seq({0, 1}), NEW t \in Nat
  PROVE  /\ add(f, p, t) \in Times
         /\ \A q \in Tracked :
              LET n == add(f, p, t)[q]
              IN /\ f[q] <= n /\ HalfUlp(f[q]) <= HalfUlp(n)
                 /\ (n - f[q]) - Added(p, t)[q] \in -(2 * HalfUlp(n)) .. 2 * HalfUlp(n)
<1> DEFINE g == add(f, p, t)
           Gets(q) == IF Len(p) <= TRACKING_LEVEL THEN IsPrefix(p, q) ELSE q = SubSeq(p, 1, TRACKING_LEVEL)
<1>1. g = [q \in Tracked |-> IF Gets(q) THEN Plus(f[q], Added(p, t)[q]) ELSE f[q]]
  BY DEF add, Added, Plus
<1>2. \A q \in Tracked : Gets(q) \/ Added(p, t)[q] = 0
  BY DEF Added
<1>3. \A q \in Tracked : Added(p, t)[q] \in Nat
  BY AddedNat
<1> HIDE DEF Gets, g
<1>4. ASSUME NEW q \in Tracked
      PROVE  /\ g[q] \in Nat /\ IsFloat(g[q])
             /\ f[q] <= g[q] /\ HalfUlp(f[q]) <= HalfUlp(g[q])
             /\ (g[q] - f[q]) - Added(p, t)[q] \in -(2 * HalfUlp(g[q])) .. 2 * HalfUlp(g[q])
  <2>1. f[q] \in Nat /\ IsFloat(f[q])
    BY DEF Times
  <2>2. CASE Gets(q)
    <3>1. g[q] = Plus(f[q], Added(p, t)[q])
      BY <1>1, <2>2
    <3> DEFINE a == f[q]
               s == Added(p, t)[q]
    <3>2. IsFloat(a) /\ s \in Nat
      BY <1>3, <2>1
    <3> HIDE DEF a, s
    <3>3. /\ IsFloat(Plus(a, s)) /\ a <= Plus(a, s) /\ HalfUlp(a) <= HalfUlp(Plus(a, s))
          /\ (Plus(a, s) - a) - s \in -(2 * HalfUlp(Plus(a, s))) .. 2 * HalfUlp(Plus(a, s))
      BY <3>2, PlusRounds
    <3>4. QED
      BY <3>1, <3>3 DEF a, s, IsFloat
  <2>3. CASE ~ Gets(q)
    <3>1. g[q] = f[q] /\ Added(p, t)[q] = 0
      BY <1>1, <1>2, <2>3
    <3>2. Halves(f)[q] = HalfUlp(f[q]) /\ Halves(f)[q] \in Nat
      BY HalvesType DEF Times
    <3>3. HalfUlp(f[q]) \in Nat
      BY <3>2
    <3> DEFINE a == f[q]
               h == HalfUlp(a)
    <3>4. a \in Nat /\ h \in Nat
      BY <2>1, <3>3
    <3> HIDE DEF a, h
    <3>5. a <= a /\ h <= h /\ (a - a) - 0 \in -(2 * h) .. 2 * h
      BY <3>4
    <3>6. QED
      BY <2>1, <3>1, <3>5 DEF a, h
  <2>4. QED
    BY <2>2, <2>3
<1>5. g \in [Tracked -> Nat]
  <2>1. g = [q \in Tracked |-> g[q]]
    BY <1>1
  <2>2. QED
    BY <1>4, <2>1
<1>6. QED
  BY <1>4, <1>5, Zenon DEF g, Times

\* The types that the times need; what was handed out last time is not more than what there is.
TimeTypes ==
  /\ item \in [Items -> {"spawned", "started", "timed", "queued", "notify", "counted"}]
  /\ task_times \in [Ranks -> Times] /\ last_times \in [Ranks -> [Tracked -> Nat]]
  /\ requests \in [Ranks -> Nat] /\ handed \in [Ranks -> [Tracked -> Nat]]

Later == \A r \in Ranks : \A q \in Tracked : last_times[r][q] <= task_times[r][q]

\* What was handed out and what is still to be handed out, over all tracked tasks, differs
\* from the run times by no more than the roundings.
Keeping(r) == [q \in Tracked |-> handed[r][q] + (task_times[r][q] - last_times[r][q])]
Rounds(r) == 2 * Cardinality(Recorded(r)) + requests[r]
Near(k, t, n, b) == k - t \in -(n * b) .. n * b
Within ==
  \A r \in Ranks : Near(Sum(Keeping(r), Tracked), Sum(Time, Recorded(r)),
                        Rounds(r), Sum(Halves(task_times[r]), Tracked))

TimesInv == TimeTypes /\ Later /\ Within

\* The invariant in the terms of the property.
LEMMA TimesInvProperty == TimesInv => TimesWithinRounding
<1>1. \A r : Kept(r) = Sum(Keeping(r), Tracked)
  BY Zenon DEF Kept, Total, Sum, Keeping
<1>2. \A r : RunTime(r) = Sum(Time, Recorded(r))
  BY Zenon DEF RunTime, Sum
<1>3. \A r : Rounding(r) = Rounds(r) * Sum(Halves(task_times[r]), Tracked)
  BY Zenon DEF Rounding, Rounds, Total, Sum, Halves
<1>4. QED
  BY <1>1, <1>2, <1>3, Zenon DEF TimesInv, Within, Near, TimesWithinRounding

\* The recorded items are finitely many.
LEMMA RecordedFinite ==
  \A r : IsFiniteSet(Recorded(r)) /\ Cardinality(Recorded(r)) \in Nat /\ Sum(Time, Recorded(r)) \in Int
<1> TAKE r
<1>1. IsFiniteSet(Recorded(r)) /\ \A j \in Recorded(r) : Time[j] \in Int
  BY MonitorAssumption, FS_Subset DEF Recorded, At
<1>2. QED
  BY <1>1, FS_CardinalityType, SumType

\* Before the first item has run.
LEMMA InitTimesInv == Init => TimesInv
<1> SUFFICES ASSUME Init PROVE TimesInv
  OBVIOUS
<1>1. NoTimes \in Times /\ \A q \in Tracked : NoTimes[q] = 0
  <2>1. IsFloat(0)
    <3>1. 0 = Ulp(0) * 0
      BY UlpType
    <3>2. QED
      BY <3>1 DEF IsFloat
  <2>2. QED
    BY <2>1 DEF NoTimes, Times
<1>2. TimeTypes /\ Later
  BY <1>1 DEF Init, TimeTypes, Later, Times
<1>3. ASSUME NEW r \in Ranks
      PROVE  Near(Sum(Keeping(r), Tracked), Sum(Time, Recorded(r)),
                  Rounds(r), Sum(Halves(task_times[r]), Tracked))
  <2>1. \A q \in Tracked : Keeping(r)[q] = 0
    BY <1>1 DEF Init, Keeping
  <2>2. Recorded(r) = {}
    BY DEF Init, Recorded, At
  <2>3. Sum(Keeping(r), Tracked) = 0 /\ Sum(Time, Recorded(r)) = 0 /\ Cardinality(Recorded(r)) = 0
    BY <2>1, <2>2, TrackedFinite, SumZero, SumEmpty, FS_EmptySet
  <2>4. Rounds(r) = 0
    BY <2>3 DEF Init, Rounds
  <2>5. Sum(Halves(task_times[r]), Tracked) \in Nat
    BY <1>2, HalvesType DEF TimeTypes, Times
  <2> DEFINE b == Sum(Halves(task_times[r]), Tracked)
  <2> HIDE DEF b
  <2>6. b \in Nat => 0 - 0 \in -(0 * b) .. 0 * b
    OBVIOUS
  <2>7. QED
    BY <2>3, <2>4, <2>5, <2>6 DEF Near, b
<1>4. QED
  BY <1>2, <1>3 DEF TimesInv, Within

\* A step that records no time and hands none out.
LEMMA OtherTimes ==
  ASSUME TimesInv, UNCHANGED timeVars,
         item' \in [Items -> {"spawned", "started", "timed", "queued", "notify", "counted"}],
         \A i \in Items \ Splits : item'[i] \in {"spawned", "started"} <=> item[i] \in {"spawned", "started"}
  PROVE  TimesInv'
<1>1. TimeTypes' /\ Later'
  BY DEF TimesInv, TimeTypes, Later, timeVars
<1>2. \A r : Recorded(r)' = Recorded(r)
  BY DEF Recorded, At
<1>3. \A r : Keeping(r)' = Keeping(r) /\ Rounds(r)' = Rounds(r)
  BY <1>2 DEF Keeping, Rounds, timeVars
<1>4. Within'
  BY <1>2, <1>3 DEF TimesInv, Within, timeVars
<1>5. QED
  BY <1>1, <1>4 DEF TimesInv

\* n roundings of at most b, and m more of at most c.
LEMMA MoreRounds ==
  ASSUME NEW k \in Int, NEW kk \in Int, NEW t \in Int, NEW s \in Int, NEW n \in Nat, NEW m \in Nat,
         NEW b \in Nat, NEW c \in Nat, b <= c, Near(k, t, n, b), (kk - k) - s \in -(m * c) .. m * c
  PROVE  Near(kk, t + s, n + m, c)
<1>1. n * b <= n * c /\ n * b \in Nat /\ n * c \in Nat /\ m * c \in Nat /\ (n + m) * c = n * c + m * c
  OBVIOUS
<1> DEFINE x == n * b
           y == n * c
           z == m * c
<1>2. x \in Nat /\ y \in Nat /\ z \in Nat /\ x <= y /\ k - t \in -x .. x /\ (kk - k) - s \in -z .. z
  BY <1>1 DEF Near
<1> HIDE DEF x, y, z
<1>3. kk - (t + s) \in -(y + z) .. y + z
  BY <1>2
<1>4. QED
  BY <1>1, <1>3 DEF Near, y, z

\* The time of one more item: its share of every tracked task is new.
LEMMA AddTimes ==
  ASSUME TimesInv, NEW i \in Items, add_task_time(i)
  PROVE  TimesInv'
<1> DEFINE o == Place[i]
<1>0. /\ o \in Ranks /\ i \notin Splits /\ item[i] = "started"
      /\ item' = [item EXCEPT ![i] = "timed"]
      /\ task_times' = [task_times EXCEPT ![o] = add(@, Path[i], Time[i])]
      /\ last_times' = last_times /\ handed' = handed /\ requests' = requests
  BY MonitorAssumption DEF add_task_time
<1>1. Path[i] \in Seq({0, 1}) /\ Time[i] \in Nat /\ \A j \in Items : Time[j] \in Int
  BY MonitorAssumption
<1> DEFINE old == task_times[o]
           new == add(old, Path[i], Time[i])
           given == Added(Path[i], Time[i])
<1>2. old \in Times
  BY <1>0 DEF TimesInv, TimeTypes
<1> HIDE DEF old
<1>3. new \in Times
  BY <1>1, <1>2, AddRounds
<1>4. ASSUME NEW q \in Tracked
      PROVE  /\ old[q] <= new[q] /\ HalfUlp(old[q]) <= HalfUlp(new[q])
             /\ (new[q] - old[q]) - given[q] \in -(2 * HalfUlp(new[q])) .. 2 * HalfUlp(new[q])
  BY <1>1, <1>2, AddRounds
<1>5. Sum(given, Tracked) = Time[i] /\ \A q \in Tracked : given[q] \in Int
  BY <1>1, AddedAbove, AddedBelow
<1>6. task_times' = [task_times EXCEPT ![o] = new]
  BY <1>0 DEF old
<1> HIDE DEF new, given
<1>7. TimeTypes'
  BY <1>0, <1>3, <1>6 DEF TimesInv, TimeTypes
<1>8. Later'
  <2> SUFFICES ASSUME NEW r \in Ranks, NEW q \in Tracked PROVE last_times'[r][q] <= task_times'[r][q]
    BY DEF Later
  <2>1. last_times'[r][q] <= task_times[r][q] /\ last_times'[r][q] \in Nat /\ task_times[r][q] \in Nat
    BY <1>0 DEF TimesInv, TimeTypes, Later, Times
  <2>2. CASE r # o
    BY <1>6, <2>1, <2>2 DEF TimesInv, TimeTypes
  <2>3. CASE r = o
    <3>1. task_times'[r] = new /\ task_times[r] = old
      BY <1>6, <2>3 DEF TimesInv, TimeTypes, old
    <3>2. old[q] <= new[q] /\ new[q] \in Nat
      BY <1>3, <1>4 DEF Times
    <3>3. QED
      BY <2>1, <3>1, <3>2
  <2>4. QED
    BY <2>2, <2>3
<1>9. ASSUME NEW r \in Ranks
      PROVE  Near(Sum(Keeping(r)', Tracked), Sum(Time, Recorded(r)'),
                  Rounds(r)', Sum(Halves(task_times'[r]), Tracked))
  <2>0. Near(Sum(Keeping(r), Tracked), Sum(Time, Recorded(r)),
             Rounds(r), Sum(Halves(task_times[r]), Tracked))
    BY DEF TimesInv, Within
  <2>1. CASE r # o
    <3>1. task_times'[r] = task_times[r]
      BY <1>6, <2>1 DEF TimesInv, TimeTypes
    <3>2. Recorded(r)' = Recorded(r)
      BY <1>0, <2>1 DEF Recorded, At, TimesInv, TimeTypes
    <3>3. Keeping(r)' = Keeping(r) /\ Rounds(r)' = Rounds(r)
      BY <1>0, <3>1, <3>2 DEF Keeping, Rounds
    <3>4. QED
      BY <2>0, <3>1, <3>2, <3>3
  <2>2. CASE r = o
    <3>1. task_times'[r] = new /\ task_times[r] = old
      BY <1>6, <2>2 DEF TimesInv, TimeTypes, old
    <3>2. i \in Recorded(r)' /\ Recorded(r)' \ {i} = Recorded(r)
      BY <1>0, <2>2 DEF Recorded, At, TimesInv, TimeTypes
    <3>3. IsFiniteSet(Recorded(r)') /\ \A j \in Recorded(r)' : Time[j] \in Int
      BY <1>1, MonitorAssumption, FS_Subset DEF Recorded, At
    <3>4. Sum(Time, Recorded(r)') = Sum(Time, Recorded(r)) + Time[i] /\ Cardinality(Recorded(r)') = Cardinality(Recorded(r)) + 1
      <4> DEFINE S == Recorded(r)'
      <4>1. i \in S /\ S \ {i} = Recorded(r) /\ IsFiniteSet(S) /\ \A j \in S : Time[j] \in Int
        BY <3>2, <3>3
      <4>2. Sum(Time, Recorded(r)) \in Int /\ Cardinality(Recorded(r)) \in Nat
        BY RecordedFinite
      <4> HIDE DEF S
      <4>3. Sum(Time, S) = Time[i] + Sum(Time, S \ {i})
        BY <4>1, SumTake
      <4>4. Cardinality(S \ {i}) = Cardinality(S) - 1 /\ Cardinality(S) \in Nat
        BY <4>1, FS_RemoveElement, FS_CardinalityType
      <4>8. Sum(Time, S \ {i}) = Sum(Time, Recorded(r))
        BY <4>1, Zenon
      <4>9. Time[i] \in Int
        BY <1>1
      <4>5. Sum(Time, S) = Sum(Time, Recorded(r)) + Time[i]
        BY <4>2, <4>3, <4>8, <4>9
      <4>6. Cardinality(S) = Cardinality(Recorded(r)) + 1
        BY <4>1, <4>2, <4>4
      <4>7. QED
        BY <4>5, <4>6 DEF S
    <3> DEFINE f == Keeping(r)
               g == Keeping(r)'
               b == Halves(new)
               d == Doubled(b)
    <3>5. (\A q \in Tracked : b[q] = HalfUlp(new[q]) /\ b[q] \in Nat) /\ Sum(b, Tracked) \in Nat
      BY <1>3, HalvesType DEF Times
    <3>6. \A q \in Tracked : /\ f[q] \in Int /\ g[q] \in Int /\ given[q] \in Int /\ d[q] \in Nat
                             /\ (g[q] - f[q]) - given[q] \in -d[q] .. d[q]
      <4> SUFFICES ASSUME NEW q \in Tracked
                   PROVE  /\ f[q] \in Int /\ g[q] \in Int /\ given[q] \in Int /\ d[q] \in Nat
                          /\ (g[q] - f[q]) - given[q] \in -d[q] .. d[q]
        OBVIOUS
      <4>1. f[q] = handed[r][q] + (old[q] - last_times[r][q]) /\ g[q] = handed[r][q] + (new[q] - last_times[r][q])
        BY <1>0, <3>1 DEF Keeping
      <4>2. handed[r][q] \in Int /\ last_times[r][q] \in Int /\ old[q] \in Int /\ new[q] \in Int
        BY <1>2, <1>3 DEF TimesInv, TimeTypes, Times
      <4>3. d[q] = 2 * HalfUlp(new[q]) /\ HalfUlp(new[q]) \in Nat
        BY <3>5 DEF Doubled
      <4> HIDE DEF f, g, d, b
      <4>4. (new[q] - old[q]) - given[q] \in -d[q] .. d[q]
        BY <1>4, <4>3
      <4>5. given[q] \in Int
        BY <1>5
      <4>6. g[q] - f[q] = new[q] - old[q]
        BY <4>1, <4>2
      <4>7. QED
        BY <4>1, <4>2, <4>3, <4>4, <4>5, <4>6
    <3> HIDE DEF f, g, b
    <3>7. Sum(d, Tracked) = 2 * Sum(b, Tracked) /\ Sum(b, Tracked) \in Nat
      BY <3>5, SumDoubled
    <3> HIDE DEF d
    <3>8. /\ Sum(f, Tracked) \in Int /\ Sum(g, Tracked) \in Int
          /\ (Sum(g, Tracked) - Sum(f, Tracked)) - Time[i] \in -(2 * Sum(b, Tracked)) .. 2 * Sum(b, Tracked)
      <4>1. /\ Sum(f, Tracked) \in Int /\ Sum(g, Tracked) \in Int
            /\ (Sum(g, Tracked) - Sum(f, Tracked)) - Sum(given, Tracked) \in -Sum(d, Tracked) .. Sum(d, Tracked)
        BY <3>6, TrackedFinite, SumDiffers
      <4>2. QED
        BY <4>1, <3>7, <1>5
    <3>9. Sum(Halves(old), Tracked) \in Nat /\ Sum(Halves(old), Tracked) <= Sum(b, Tracked)
      <4> DEFINE a == Halves(old)
      <4>1. \A q \in Tracked : a[q] = HalfUlp(old[q]) /\ a[q] \in Nat
        BY <1>2, HalvesType DEF Times
      <4>2. \A q \in Tracked : a[q] \in Nat /\ b[q] \in Nat /\ a[q] <= b[q]
        BY <1>4, <3>5, <4>1
      <4> HIDE DEF a
      <4>3. QED
        BY <4>2, TrackedFinite, SumLess DEF a
    <3>10. Rounds(r) \in Nat /\ Rounds(r)' = Rounds(r) + 2
      <4>1. Cardinality(Recorded(r)) \in Nat /\ requests[r] \in Nat /\ requests'[r] = requests[r]
        BY <1>0, RecordedFinite DEF TimesInv, TimeTypes
      <4>2. QED
        BY <3>4, <4>1 DEF Rounds
    <3>11. Sum(Time, Recorded(r)) \in Int
      BY RecordedFinite
    <3>12. Near(Sum(g, Tracked), Sum(Time, Recorded(r)) + Time[i], Rounds(r) + 2, Sum(b, Tracked))
      <4>1. Near(Sum(f, Tracked), Sum(Time, Recorded(r)), Rounds(r), Sum(Halves(old), Tracked))
        BY <2>0, <3>1 DEF f
      <4>2. QED
        BY <4>1, <1>1, <3>7, <3>8, <3>9, <3>10, <3>11, MoreRounds
    <3>13. QED
      BY <3>1, <3>4, <3>10, <3>12 DEF g, b
  <2>3. QED
    BY <2>1, <2>2
<1>10. QED
  BY <1>7, <1>8, <1>9 DEF TimesInv, Within

\* All that is new is handed out, rounded once more.
LEMMA GetTimes ==
  ASSUME TimesInv, NEW o \in Ranks, get_task_times(o)
  PROVE  TimesInv'
<1> DEFINE now == task_times[o]
           was == last_times[o]
           d == Minus(now, was)
           new == [q \in Tracked |-> handed[o][q] + d[q]]
<1>0. /\ handed' = [handed EXCEPT ![o] = new]
      /\ last_times' = [last_times EXCEPT ![o] = now]
      /\ requests' = [requests EXCEPT ![o] = requests[o] + 1]
      /\ task_times' = task_times /\ item' = item
  BY DEF get_task_times, itemVars
<1>1. /\ now \in Times /\ was \in [Tracked -> Nat] /\ handed[o] \in [Tracked -> Nat]
      /\ \A q \in Tracked : was[q] <= now[q] /\ now[q] \in Nat /\ was[q] \in Nat
  BY DEF TimesInv, TimeTypes, Later, Times
<1>2. ASSUME NEW q \in Tracked
      PROVE  /\ d[q] \in Nat /\ HalfUlp(now[q]) \in Nat
             /\ d[q] - (now[q] - was[q]) \in -HalfUlp(now[q]) .. HalfUlp(now[q])
  <2>1. d[q] = Float(now[q] - was[q])
    BY DEF Minus
  <2> HIDE DEF d, now, was
  <2>2. now[q] \in Nat /\ was[q] \in Nat /\ was[q] <= now[q]
    BY <1>1
  <2>3. QED
    BY <2>1, <2>2, MinusRounds
<1>3. new \in [Tracked -> Nat]
  <2> HIDE DEF d
  <2>1. \A q \in Tracked : handed[o][q] + d[q] \in Nat
    BY <1>1, <1>2
  <2>2. QED
    BY <2>1
<1> HIDE DEF d
<1>4. \A q \in Tracked : new[q] = handed[o][q] + d[q]
  OBVIOUS
<1> HIDE DEF new, now, was
<1>5. TimeTypes'
  <2>1. requests'[o] \in Nat
    BY <1>0 DEF TimesInv, TimeTypes
  <2>2. QED
    BY <1>0, <1>1, <1>3, <2>1 DEF TimesInv, TimeTypes, Times
<1>6. Later'
  BY <1>0, <1>1 DEF TimesInv, TimeTypes, Later, now
<1>7. ASSUME NEW r \in Ranks
      PROVE  Near(Sum(Keeping(r)', Tracked), Sum(Time, Recorded(r)'),
                  Rounds(r)', Sum(Halves(task_times'[r]), Tracked))
  <2>0. Near(Sum(Keeping(r), Tracked), Sum(Time, Recorded(r)),
             Rounds(r), Sum(Halves(task_times[r]), Tracked))
    BY DEF TimesInv, Within
  <2>1. Recorded(r)' = Recorded(r)
    BY <1>0 DEF Recorded, At
  <2>2. CASE r # o
    <3>1. handed'[r] = handed[r] /\ last_times'[r] = last_times[r] /\ requests'[r] = requests[r]
      BY <1>0, <2>2 DEF TimesInv, TimeTypes
    <3>2. Keeping(r)' = Keeping(r) /\ Rounds(r)' = Rounds(r)
      BY <1>0, <2>1, <3>1 DEF Keeping, Rounds
    <3>3. QED
      BY <1>0, <2>0, <2>1, <3>2
  <2>3. CASE r = o
    <3>1. handed'[r] = new /\ last_times'[r] = now /\ requests'[r] = requests[r] + 1 /\ task_times'[r] = now
      BY <1>0, <2>3 DEF TimesInv, TimeTypes, now
    <3> DEFINE f == Keeping(r)
               g == Keeping(r)'
               b == Halves(now)
               z == NoTimes
    <3>2. (\A q \in Tracked : b[q] = HalfUlp(now[q]) /\ b[q] \in Nat) /\ Sum(b, Tracked) \in Nat
      BY <1>1, HalvesType DEF Times
    <3>3. \A q \in Tracked : z[q] = 0
      BY DEF NoTimes
    <3> HIDE DEF z
    <3>4. \A q \in Tracked : /\ f[q] \in Int /\ g[q] \in Int /\ z[q] \in Int /\ b[q] \in Nat
                             /\ (g[q] - f[q]) - z[q] \in -b[q] .. b[q]
      <4> SUFFICES ASSUME NEW q \in Tracked
                   PROVE  /\ f[q] \in Int /\ g[q] \in Int /\ z[q] \in Int /\ b[q] \in Nat
                          /\ (g[q] - f[q]) - z[q] \in -b[q] .. b[q]
        OBVIOUS
      <4>1. f[q] = handed[r][q] + (now[q] - was[q])
        BY <2>3 DEF Keeping, now, was
      <4>2. g[q] = new[q] + (now[q] - now[q])
        BY <3>1 DEF Keeping
      <4>3. new[q] = handed[r][q] + d[q] /\ handed[r][q] \in Nat
        BY <1>1, <1>4, <2>3
      <4> HIDE DEF f, g, b
      <4>4. now[q] \in Nat /\ was[q] \in Nat /\ d[q] \in Nat /\ d[q] - (now[q] - was[q]) \in -b[q] .. b[q]
        BY <1>1, <1>2, <3>2
      <4>5. z[q] = 0 /\ b[q] \in Nat
        BY <3>2, <3>3
      <4>6. g[q] - f[q] = d[q] - (now[q] - was[q])
        BY <4>1, <4>2, <4>3, <4>4
      <4>7. f[q] \in Int /\ g[q] \in Int
        BY <4>1, <4>2, <4>3, <4>4
      <4>8. QED
        BY <4>4, <4>5, <4>6, <4>7
    <3> HIDE DEF f, g, b
    <3>5. Sum(z, Tracked) = 0
      BY <3>3, TrackedFinite, SumZero
    <3>6. /\ Sum(f, Tracked) \in Int /\ Sum(g, Tracked) \in Int
          /\ (Sum(g, Tracked) - Sum(f, Tracked)) - 0 \in -(1 * Sum(b, Tracked)) .. 1 * Sum(b, Tracked)
      <4>1. /\ Sum(f, Tracked) \in Int /\ Sum(g, Tracked) \in Int
            /\ (Sum(g, Tracked) - Sum(f, Tracked)) - Sum(z, Tracked) \in -Sum(b, Tracked) .. Sum(b, Tracked)
        BY <3>4, TrackedFinite, SumDiffers
      <4>2. QED
        BY <4>1, <3>2, <3>5
    <3>7. Rounds(r) \in Nat /\ Rounds(r)' = Rounds(r) + 1
      <4>1. Cardinality(Recorded(r)) \in Nat /\ requests[r] \in Nat
        BY RecordedFinite DEF TimesInv, TimeTypes
      <4>2. QED
        BY <2>1, <3>1, <4>1 DEF Rounds
    <3>8. Sum(Time, Recorded(r)) \in Int
      BY RecordedFinite
    <3>9. Near(Sum(g, Tracked), Sum(Time, Recorded(r)) + 0, Rounds(r) + 1, Sum(b, Tracked))
      <4>1. Near(Sum(f, Tracked), Sum(Time, Recorded(r)), Rounds(r), Sum(b, Tracked))
        BY <2>0, <2>3 DEF f, b, now
      <4>2. Sum(b, Tracked) <= Sum(b, Tracked) /\ Sum(b, Tracked) \in Nat /\ 0 \in Int /\ 1 \in Nat
        BY <3>2
      <4>3. Rounds(r) \in Nat
        BY <3>7
      <4>4. QED
        BY <4>1, <4>2, <4>3, <3>6, <3>8, MoreRounds, Zenon
    <3>10. Sum(Time, Recorded(r)) + 0 = Sum(Time, Recorded(r))
      BY <3>8
    <3>11. QED
      BY <2>1, <3>1, <3>7, <3>9, <3>10 DEF g, b
  <2>4. QED
    BY <2>2, <2>3
<1>8. QED
  BY <1>5, <1>6, <1>7 DEF TimesInv, Within

\* Only add_task_time records a time, and only get_task_times hands one out.
LEMMA NextTimesInv == TimesInv /\ [Next]_vars => TimesInv'
<1> SUFFICES ASSUME TimesInv, [Next]_vars PROVE TimesInv'
  OBVIOUS
<1>0. item \in [Items -> {"spawned", "started", "timed", "queued", "notify", "counted"}]
  BY DEF TimesInv, TimeTypes
<1>1. ASSUME NEW i \in Items, ItemStep(i) PROVE TimesInv'
  <2>1. CASE ExecStart(i)
    BY <1>0, <2>1, OtherTimes DEF ExecStart
  <2>2. CASE add_task_time(i)
    BY <2>2, AddTimes
  <2>3. CASE ExecFinish(i)
    BY <1>0, <2>3, OtherTimes DEF ExecFinish
  <2>4. CASE Notify(i)
    BY <1>0, <2>4, OtherTimes DEF Notify
  <2>5. CASE Count(i)
    BY <1>0, <2>5, OtherTimes DEF Count
  <2>6. QED
    BY <1>1, <2>1, <2>2, <2>3, <2>4, <2>5 DEF ItemStep
<1>2. ASSUME UNCHANGED <<item, timeVars>> PROVE TimesInv'
  BY <1>0, <1>2, OtherTimes
<1>3. CASE StopFirst
  BY <1>2, <1>3 DEF StopFirst, itemVars
<1>4. ASSUME NEW r \in Ranks, WorkerStep(r) PROVE TimesInv'
  BY <1>2, <1>4 DEF WorkerStep, ProcessStart, SwitchWrite, ProcessOne, SwitchRead, itemVars
<1>5. ASSUME NEW r \in Ranks, StopStep(r) PROVE TimesInv'
  BY <1>2, <1>5 DEF StopStep, StopOther, SetDone, NotifyDone, Join, Gather, Return, itemVars
<1>6. ASSUME NEW r \in Ranks, Spurious(r) \/ sample_node(r) PROVE TimesInv'
  BY <1>2, <1>6 DEF Spurious, sample_node, itemVars
<1>7. CASE UNCHANGED vars
  BY <1>2, <1>7 DEF vars, timeVars
<1>8. QED
  BY <1>1, <1>3, <1>4, <1>5, <1>6, <1>7, GetTimes DEF Next

\* The times the optimizer has got and those it can still get add up to the run times of the
\* work items that were processed, on every locality, up to the roundings of the floats they
\* are kept as (task_times::add and operator-, monitor::get_task_times), for every size of
\* significand, every tracking level, all paths and all times; below 2^Mantissa exactly.
THEOREM TimesStayWithinRounding == Spec => []TimesWithinRounding
<1>1. Spec => []TimesInv
  BY InitTimesInv, NextTimesInv, PTL DEF Spec
<1>2. QED
  BY <1>1, TimesInvProperty, PTL
==============================================================================
