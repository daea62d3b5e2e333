--------------------------- MODULE ResilienceProofs ---------------------------
(***************************************************************************)
(* Failure detection and recovery for every number of localities, every    *)
(* set of work items and every choice of the locality that crashes.        *)
(***************************************************************************)
EXTENDS Resilience, FiniteSetTheorems, TLAPS

-----------------------------------------------------------------------------
(* Ranks and messages.                                                     *)

LEMMA NFacts == N \in Nat /\ N >= 2 /\ N < Wrap /\ Wrap \in Nat
<1>1. Wrap \in Nat
  BY DEF Wrap
<1>2. QED
  BY <1>1, ResilienceAssumption

LEMMA RankFacts ==
  /\ Ranks \subseteq Nat /\ 0 \in Ranks
  /\ \A r \in Ranks : r < N /\ (r + 1) % N \in Ranks /\ LeftOf(r) \in Ranks
<1>1. Ranks \subseteq Nat /\ 0 \in Ranks /\ \A r \in Ranks : r < N
  BY NFacts DEF Ranks
<1>2. ASSUME NEW r \in Ranks PROVE (r + 1) % N \in Ranks /\ LeftOf(r) \in Ranks
  BY NFacts DEF Ranks, LeftOf
<1>3. QED
  BY <1>1, <1>2

LEMMA RanksFinite == IsFiniteSet(Ranks) /\ Cardinality(Ranks) = N
<1>1. 0 \in Int /\ N - 1 \in Int /\ N \in Nat /\ N >= 2
  BY NFacts
<1>2. IsFiniteSet(0 .. N - 1) /\ Cardinality(0 .. N - 1) = IF 0 > N - 1 THEN 0 ELSE (N - 1) - 0 + 1
  BY <1>1, FS_Interval
<1>3. QED
  BY <1>1, <1>2 DEF Ranks

LEMMA SomeRanks ==
  ASSUME NEW S \in SUBSET Ranks
  PROVE  IsFiniteSet(S) /\ Cardinality(S) \in 0 .. N
<1>1. IsFiniteSet(S) /\ Cardinality(S) <= N
  BY RanksFinite, FS_Subset
<1>2. Cardinality(S) \in Nat
  BY <1>1, FS_CardinalityType
<1>3. QED
  BY <1>1, <1>2, NFacts

LEMMA MessageFacts ==
  ASSUME NEW m \in Messages
  PROVE  /\ m.to \in Ranks
         /\ m.op \in {"heartbeat", "set_guard", "guard_set", "get_protectee"} =>
              m = [op |-> m.op, from |-> m.from, to |-> m.to] /\ m.from \in Ranks
         /\ m.op = "protectee" => m.from \in Ranks /\ m.rank \in Ranks
         /\ m.op = "announce" => m.from \in Ranks /\ m.dead \in Ranks /\ m.token \in 1 .. N - 1
         /\ m.op = "item" => m.from \in Ranks /\ m.item \in Items
         /\ m.op = "shutdown" => m.token \in 2 .. N /\ m.callers \in Seq(Ranks)
         /\ m.op = "shutdown_done" => m.callers \in Seq(Ranks)
BY DEF Messages

-----------------------------------------------------------------------------
(* Types, in parts.                                                        *)

RingType ==
  /\ alive \subseteq Ranks /\ beaten \subseteq Ranks
  /\ guard \in [Ranks -> Ranks] /\ protectee \in [Ranks -> Ranks] /\ pp \in [Ranks -> Ranks]
  /\ age \in [Ranks -> 0 .. Delta + 1]
  /\ recovery \in [Ranks -> {"none", "set_guard", "get_protectee"}] /\ dead \in [Ranks -> Ranks]
ViewType ==
  /\ running \in [Ranks -> SUBSET Ranks] /\ count \in [Ranks -> 0 .. Wrap - 1]
  /\ keep \in [Ranks -> BOOLEAN]
AnnouncingType ==
  announcing \subseteq [rank : Ranks, dead : Ranks, token : 0 .. N - 1,
                        stage : {"extract", "mark", "reschedule"}, items : SUBSET Items]
WorkType ==
  /\ delegated \in [Ranks -> SUBSET (Ranks \X Items)]
  /\ waiting \subseteq [rank : Ranks, item : Items, to : Ranks]
  /\ dispatching \subseteq [rank : Ranks, item : Items, to : Ranks]
  /\ held \in [Items -> SUBSET Ranks] /\ finished \subseteq Items
MessageType == stop \in {"no", "called", "returned"} /\ msgs \subseteq Messages

LEMMA TypeParts == TypeOK <=> RingType /\ ViewType /\ AnnouncingType /\ WorkType /\ MessageType
BY DEF TypeOK, RingType, ViewType, AnnouncingType, WorkType, MessageType

LEMMA TypePartsNext ==
  (RingType /\ ViewType /\ AnnouncingType /\ WorkType /\ MessageType)' => TypeOK'
BY DEF TypeOK, RingType, ViewType, AnnouncingType, WorkType, MessageType

LEMMA InitType == Init => TypeOK
<1> SUFFICES ASSUME Init PROVE TypeOK
  OBVIOUS
<1>1. N \in 0 .. Wrap - 1 /\ 0 \in 0 .. Delta + 1
  <2>1. N \in 0 .. Wrap - 1
    BY NFacts
  <2>2. 0 \in 0 .. Delta + 1
    BY ResilienceAssumption
  <2>3. QED
    BY <2>1, <2>2
<1>2. RingType
  BY <1>1, RankFacts DEF Init, init, RingType
<1>3. ViewType
  BY <1>1 DEF Init, init, ViewType
<1>4. AnnouncingType /\ MessageType
  BY DEF Init, AnnouncingType, MessageType
<1>5. WorkType
  BY RankFacts DEF Init, WorkType
<1>6. QED
  BY <1>2, <1>3, <1>4, <1>5, TypeParts

LEMMA TimeType == TypeOK /\ (tick \/ \E r \in Mortal : crash(r)) => TypeOK'
<1> SUFFICES ASSUME TypeOK, tick \/ \E r \in Mortal : crash(r) PROVE TypeOK'
  OBVIOUS
<1>0. RingType /\ ViewType /\ AnnouncingType /\ WorkType /\ MessageType /\ Delta \in Nat
  BY TypeParts, ResilienceAssumption
<1>1. CASE tick
  <2>1. age' \in [Ranks -> 0 .. Delta + 1]
    BY <1>0, <1>1 DEF tick, RingType
  <2>2. RingType'
    BY <1>0, <1>1, <2>1 DEF tick, RingType, ring
  <2>3. ViewType'
    BY <1>0, <1>1 DEF tick, view, ViewType
  <2>4. AnnouncingType'
    BY <1>0, <1>1 DEF tick, AnnouncingType
  <2>5. WorkType'
    BY <1>0, <1>1 DEF tick, work, WorkType
  <2>6. MessageType'
    BY <1>0, <1>1 DEF tick, MessageType
  <2>7. QED
    BY <2>2, <2>3, <2>4, <2>5, <2>6, TypePartsNext
<1>2. ASSUME NEW r \in Mortal, crash(r) PROVE TypeOK'
  <2>1. RingType'
    BY <1>0, <1>2 DEF crash, RingType, ring
  <2>2. ViewType' /\ AnnouncingType' /\ MessageType'
    <3>1. ViewType'
      BY <1>0, <1>2 DEF crash, view, ViewType
    <3>2. AnnouncingType'
      BY <1>0, <1>2 DEF crash, AnnouncingType
    <3>3. MessageType'
      BY <1>0, <1>2 DEF crash, MessageType
    <3>4. QED
      BY <3>1, <3>2, <3>3
  <2>3. WorkType'
    BY <1>0, <1>2 DEF crash, WorkType
  <2>4. QED
    BY <2>1, <2>2, <2>3, TypePartsNext
<1>3. QED
  BY <1>1, <1>2

LEMMA LoopType == ASSUME TypeOK, NEW r \in Ranks, loop(r) PROVE TypeOK'
<1>0. RingType /\ ViewType /\ AnnouncingType /\ WorkType /\ MessageType
  BY TypeParts
<1>1. CASE send_heartbeat_loop(r)
  <2>1. Heartbeat(r) \in Messages
    BY <1>0 DEF Heartbeat, Messages, RingType
  <2>2. MessageType'
    BY <1>0, <1>1, <2>1 DEF send_heartbeat_loop, MessageType, Send, Deliverable
  <2>3. RingType'
    BY <1>0, <1>1 DEF send_heartbeat_loop, RingType, ring
  <2>4. (ViewType /\ AnnouncingType /\ WorkType)'
    BY <1>0, <1>1 DEF send_heartbeat_loop, view, work, ViewType, AnnouncingType, WorkType
  <2>5. QED
    BY <2>2, <2>3, <2>4, TypePartsNext
<1>2. CASE protectee_crashed(r)
  <2>1. Heartbeat(r) \in Messages /\ [op |-> "set_guard", from |-> r, to |-> pp[r]] \in Messages
    BY <1>0 DEF Heartbeat, Messages, RingType
  <2>2. MessageType'
    BY <1>0, <1>2, <2>1 DEF protectee_crashed, MessageType, Send, Deliverable
  <2>3. RingType'
    BY <1>0, <1>2 DEF protectee_crashed, RingType
  <2>4. (ViewType /\ AnnouncingType /\ WorkType)'
    BY <1>0, <1>2 DEF protectee_crashed, view, work, ViewType, AnnouncingType, WorkType
  <2>5. QED
    BY <2>2, <2>3, <2>4, TypePartsNext
<1>3. QED
  BY <1>1, <1>2 DEF loop

LEMMA RecoveryType ==
  ASSUME TypeOK, NEW m \in msgs,
         send_heartbeat(m) \/ set_guard(m) \/ guard_set(m) \/ get_protectee(m) \/ recovered(m) \/ announce(m)
  PROVE  TypeOK'
<1>0. RingType /\ ViewType /\ AnnouncingType /\ WorkType /\ MessageType
  BY TypeParts
<1>1. m \in Messages /\ m.to \in Ranks
  BY <1>0, MessageFacts DEF MessageType
<1>2. (ViewType /\ WorkType)'
  BY <1>0 DEF send_heartbeat, set_guard, guard_set, get_protectee, recovered, announce, view, work, ViewType, WorkType
<1>3. CASE send_heartbeat(m)
  <2>1. 0 \in 0 .. Delta + 1
    BY ResilienceAssumption
  <2>2. RingType'
    BY <1>0, <1>1, <1>3, <2>1 DEF send_heartbeat, RingType, ring
  <2>3. (AnnouncingType /\ MessageType)'
    BY <1>0, <1>3 DEF send_heartbeat, AnnouncingType, MessageType
  <2>4. QED
    BY <1>2, <2>2, <2>3, TypePartsNext
<1>4. CASE set_guard(m)
  <2>1. m.from \in Ranks
    BY <1>1, <1>4, MessageFacts DEF set_guard
  <2>2. [op |-> "guard_set", from |-> m.to, to |-> m.from] \in Messages
    BY <1>1, <2>1 DEF Messages
  <2>3. MessageType'
    BY <1>0, <1>4, <2>2 DEF set_guard, Reply, Deliverable, MessageType
  <2>4. RingType'
    BY <1>0, <1>1, <1>4, <2>1 DEF set_guard, RingType
  <2>5. AnnouncingType'
    BY <1>0, <1>4 DEF set_guard, AnnouncingType
  <2>6. QED
    BY <1>2, <2>3, <2>4, <2>5, TypePartsNext
<1>5. CASE guard_set(m)
  <2>1. m.from \in Ranks
    BY <1>1, <1>5, MessageFacts DEF guard_set
  <2>2. [op |-> "get_protectee", from |-> m.to, to |-> m.from] \in Messages
    BY <1>1, <2>1 DEF Messages
  <2>3. MessageType'
    BY <1>0, <1>5, <2>2 DEF guard_set, Reply, Deliverable, MessageType
  <2>4. RingType'
    BY <1>0, <1>1, <1>5 DEF guard_set, RingType, ring
  <2>5. AnnouncingType'
    BY <1>0, <1>5 DEF guard_set, AnnouncingType
  <2>6. QED
    BY <1>2, <2>3, <2>4, <2>5, TypePartsNext
<1>6. CASE get_protectee(m)
  <2>1. m.from \in Ranks /\ protectee[m.to] \in Ranks
    BY <1>0, <1>1, <1>6, MessageFacts DEF get_protectee, RingType
  <2>2. [op |-> "protectee", from |-> m.to, to |-> m.from, rank |-> protectee[m.to]] \in Messages
    BY <1>1, <2>1 DEF Messages
  <2>3. MessageType'
    BY <1>0, <1>6, <2>2 DEF get_protectee, Reply, Deliverable, MessageType
  <2>4. RingType'
    BY <1>0, <1>6 DEF get_protectee, RingType, ring
  <2>5. AnnouncingType'
    BY <1>0, <1>6 DEF get_protectee, AnnouncingType
  <2>6. QED
    BY <1>2, <2>3, <2>4, <2>5, TypePartsNext
<1>7. CASE recovered(m)
  <2>1. m.rank \in Ranks /\ dead[m.to] \in Ranks /\ 0 \in 0 .. N - 1
    BY <1>0, <1>1, <1>7, MessageFacts, NFacts DEF recovered, RingType
  <2>2. RingType'
    BY <1>0, <1>1, <1>7, <2>1 DEF recovered, RingType
  <2>3. AnnouncingType'
    BY <1>0, <1>1, <1>7, <2>1 DEF recovered, AnnouncingType, Announcement
  <2>4. MessageType'
    BY <1>0, <1>7 DEF recovered, MessageType
  <2>5. QED
    BY <1>2, <2>2, <2>3, <2>4, TypePartsNext
<1>8. CASE announce(m)
  <2>1. m.dead \in Ranks /\ m.token \in 0 .. N - 1
    BY <1>1, <1>8, MessageFacts, NFacts DEF announce
  <2>2. AnnouncingType'
    BY <1>0, <1>1, <1>8, <2>1 DEF announce, AnnouncingType, Announcement
  <2>3. RingType'
    BY <1>0, <1>8 DEF announce, RingType, ring
  <2>4. MessageType'
    BY <1>0, <1>8 DEF announce, MessageType
  <2>5. QED
    BY <1>2, <2>2, <2>3, <2>4, TypePartsNext
<1>9. QED
  BY <1>3, <1>4, <1>5, <1>6, <1>7, <1>8

\* An announcement is passed on with a token below the number of localities.
LEMMA RescheduleType ==
  ASSUME TypeOK, NEW a \in announcing,
         reschedule_extract(a) \/ reschedule_mark(a) \/ reschedule_forward(a)
  PROVE  TypeOK'
<1>0. RingType /\ ViewType /\ AnnouncingType /\ WorkType /\ MessageType
  BY TypeParts
<1>1. /\ a \in [rank : Ranks, dead : Ranks, token : 0 .. N - 1,
                stage : {"extract", "mark", "reschedule"}, items : SUBSET Items]
      /\ a.rank \in Ranks /\ a.dead \in Ranks /\ a.token \in 0 .. N - 1 /\ a.items \subseteq Items
  BY <1>0 DEF AnnouncingType
<1>2. RingType'
  BY <1>0 DEF reschedule_extract, reschedule_mark, reschedule_forward, RingType, ring
<1>3. CASE reschedule_extract(a)
  <2>1. delegated[a.rank] \subseteq Ranks \X Items
    BY <1>0, <1>1 DEF WorkType
  <2>2. {p[2] : p \in To(a.dead, delegated[a.rank])} \subseteq Items
    BY <2>1 DEF To
  <2>3. AnnouncingType'
    BY <1>0, <1>1, <1>3, <2>2 DEF reschedule_extract, AnnouncingType
  <2>4. delegated[a.rank] \ To(a.dead, delegated[a.rank]) \subseteq Ranks \X Items
    BY <2>1
  <2>5. WorkType'
    BY <1>0, <1>3, <2>4 DEF reschedule_extract, WorkType
  <2>6. (ViewType /\ MessageType)'
    BY <1>0, <1>3 DEF reschedule_extract, view, ViewType, MessageType
  <2>7. QED
    BY <1>2, <2>3, <2>5, <2>6, TypePartsNext
<1>4. CASE reschedule_mark(a)
  <2>1. (count[a.rank] - 1) % Wrap \in 0 .. Wrap - 1
    BY <1>0, <1>1, NFacts DEF ViewType
  <2>2. ViewType'
    BY <1>0, <1>1, <1>4, <2>1 DEF reschedule_mark, ViewType
  <2>3. AnnouncingType'
    BY <1>0, <1>1, <1>4 DEF reschedule_mark, AnnouncingType
  <2>4. (WorkType /\ MessageType)'
    BY <1>0, <1>4 DEF reschedule_mark, work, WorkType, MessageType
  <2>5. QED
    BY <1>2, <2>2, <2>3, <2>4, TypePartsNext
<1>5. CASE reschedule_forward(a)
  <2>1. Cardinality(running[a.rank]) \in 0 .. N /\ guard[a.rank] \in Ranks
    BY <1>0, <1>1, SomeRanks DEF ViewType, RingType
  <2> DEFINE new == [op |-> "announce", from |-> a.rank, to |-> guard[a.rank],
                     dead |-> a.dead, token |-> a.token + 1]
  <2>2. ASSUME Cardinality(running[a.rank]) > a.token + 1 PROVE new \in Messages
    <3>1. a.token + 1 \in 1 .. N - 1
      BY <1>1, <2>1, <2>2, NFacts
    <3>2. QED
      BY <1>1, <2>1, <3>1 DEF Messages
  <2>3. msgs' \subseteq msgs \cup (IF Cardinality(running[a.rank]) > a.token + 1 THEN {new} ELSE {})
    BY <1>5 DEF reschedule_forward, Send, Deliverable
  <2>4. MessageType'
    BY <1>0, <1>5, <2>2, <2>3 DEF reschedule_forward, MessageType
  <2>5. WorkType'
    BY <1>0, <1>1, <1>5 DEF reschedule_forward, WorkType
  <2>6. AnnouncingType' /\ ViewType'
    BY <1>0, <1>5 DEF reschedule_forward, AnnouncingType, ViewType, view
  <2>7. QED
    BY <1>2, <2>4, <2>5, <2>6, TypePartsNext
<1>6. QED
  BY <1>3, <1>4, <1>5

LEMMA WorkStepType ==
  ASSUME TypeOK,
         \/ \E r \in Ranks, w \in Items, d \in Ranks : schedule_down(r, w, d)
         \/ \E r \in Ranks, w \in Items : process(r, w)
         \/ \E x \in dispatching : work_item_dispatched(x)
         \/ \E x \in waiting : on_completed(x)
         \/ \E m \in msgs : schedule_down_global(m)
  PROVE  TypeOK'
<1>0. RingType /\ ViewType /\ AnnouncingType /\ WorkType /\ MessageType
  BY TypeParts
<1>1. ASSUME NEW r \in Ranks, NEW w \in Items, NEW d \in Ranks, schedule_down(r, w, d)
      PROVE  TypeOK'
  <2>1. WorkType'
    BY <1>0, <1>1 DEF schedule_down, WorkType
  <2>2. (RingType /\ ViewType)'
    BY <1>0, <1>1 DEF schedule_down, RingType, ViewType, ring, view
  <2>3. (AnnouncingType /\ MessageType)'
    BY <1>0, <1>1 DEF schedule_down, AnnouncingType, MessageType
  <2>4. QED
    BY <2>1, <2>2, <2>3, TypePartsNext
<1>2. ASSUME NEW r \in Ranks, NEW w \in Items, process(r, w)
      PROVE  TypeOK'
  <2>1. WorkType'
    BY <1>0, <1>2 DEF process, WorkType
  <2>2. (RingType /\ ViewType)'
    BY <1>0, <1>2 DEF process, RingType, ViewType, ring, view
  <2>3. (AnnouncingType /\ MessageType)'
    BY <1>0, <1>2 DEF process, AnnouncingType, MessageType
  <2>4. QED
    BY <2>1, <2>2, <2>3, TypePartsNext
<1>3. ASSUME NEW x \in dispatching, work_item_dispatched(x)
      PROVE  TypeOK'
  <2>1. x \in [rank : Ranks, item : Items, to : Ranks] /\ x.rank \in Ranks /\ x.item \in Items /\ x.to \in Ranks
    BY <1>0 DEF WorkType
  <2>2. [op |-> "item", from |-> x.rank, to |-> x.to, item |-> x.item] \in Messages
    BY <2>1 DEF Messages
  <2>3. MessageType'
    BY <1>0, <1>3, <2>2 DEF work_item_dispatched, Send, Deliverable, MessageType
  <2>4. WorkType'
    BY <1>0, <1>3, <2>1 DEF work_item_dispatched, WorkType
  <2>5. (RingType /\ ViewType /\ AnnouncingType)'
    BY <1>0, <1>3 DEF work_item_dispatched, RingType, ViewType, AnnouncingType, ring, view
  <2>6. QED
    BY <2>3, <2>4, <2>5, TypePartsNext
<1>4. ASSUME NEW x \in waiting, on_completed(x)
      PROVE  TypeOK'
  <2>1. WorkType'
    BY <1>0, <1>4 DEF on_completed, WorkType
  <2>2. (RingType /\ ViewType)'
    BY <1>0, <1>4 DEF on_completed, RingType, ViewType, ring, view
  <2>3. (AnnouncingType /\ MessageType)'
    BY <1>0, <1>4 DEF on_completed, AnnouncingType, MessageType
  <2>4. QED
    BY <2>1, <2>2, <2>3, TypePartsNext
<1>5. ASSUME NEW m \in msgs, schedule_down_global(m)
      PROVE  TypeOK'
  <2>1. m.to \in Ranks /\ m.item \in Items
    BY <1>0, <1>5, MessageFacts DEF schedule_down_global, MessageType
  <2>2. WorkType'
    BY <1>0, <1>5, <2>1 DEF schedule_down_global, WorkType
  <2>3. (RingType /\ ViewType)'
    BY <1>0, <1>5 DEF schedule_down_global, RingType, ViewType, ring, view
  <2>4. (AnnouncingType /\ MessageType)'
    BY <1>0, <1>5 DEF schedule_down_global, AnnouncingType, MessageType
  <2>5. QED
    BY <2>2, <2>3, <2>4, TypePartsNext
<1>6. QED
  BY <1>1, <1>2, <1>3, <1>4, <1>5

LEMMA LastAndFront ==
  ASSUME NEW S, NEW s \in Seq(S), s # <<>>
  PROVE  Last(s) \in S /\ Front(s) \in Seq(S)
<1>1. Len(s) \in Nat /\ Len(s) # 0
  OBVIOUS
<1>2. Len(s) \in 1 .. Len(s)
  BY <1>1
<1>3. \A i \in 1 .. Len(s) - 1 : i \in 1 .. Len(s) /\ s[i] \in S
  BY <1>1
<1>4. SubSeq(s, 1, Len(s) - 1) \in Seq(S)
  BY <1>1, <1>3
<1>5. QED
  BY <1>2, <1>4 DEF Last, Front

\* The answer of a shutdown goes to one of its callers.
LEMMA ReturnType ==
  ASSUME NEW callers \in Seq(Ranks), NEW rest \in SUBSET Messages, Return(callers, rest)
  PROVE  stop' \in {"called", "returned"} /\ msgs' \subseteq Messages
<1>1. CASE callers = <<>>
  BY <1>1 DEF Return
<1>2. CASE callers # <<>>
  <2>1. Last(callers) \in Ranks /\ Front(callers) \in Seq(Ranks)
    BY <1>2, LastAndFront
  <2>2. [op |-> "shutdown_done", to |-> Last(callers), callers |-> Front(callers)] \in Messages
    BY <2>1 DEF Messages
  <2>3. QED
    BY <1>2, <2>2 DEF Return, Deliverable
<1>3. QED
  BY <1>1, <1>2

LEMMA ShutdownType ==
  ASSUME TypeOK, NEW r \in Ranks, NEW token \in 1 .. N, NEW callers \in Seq(Ranks),
         NEW rest \in SUBSET Messages, shutdown(r, token, callers, rest)
  PROVE  TypeOK'
<1>0. RingType /\ ViewType /\ AnnouncingType /\ WorkType /\ MessageType
  BY TypeParts
<1> DEFINE n == Cardinality(running[r])
<1>1. n \in 0 .. N /\ guard[r] \in Ranks
  BY <1>0, SomeRanks DEF ViewType, RingType
<1>2. (RingType /\ AnnouncingType /\ WorkType)'
  BY <1>0 DEF shutdown, RingType, AnnouncingType, WorkType, ring, work
<1>3. ViewType'
  BY <1>0 DEF shutdown, ViewType
<1>4. MessageType'
  <2>1. CASE n > token /\ stop' = "called"
             /\ msgs' = rest \cup Deliverable({[op |-> "shutdown", to |-> guard[r],
                                  token |-> token + 1, callers |-> Append(callers, r)]})
    <3>1. token + 1 \in 2 .. N /\ Append(callers, r) \in Seq(Ranks)
      BY <1>1, <2>1, NFacts
    <3>2. [op |-> "shutdown", to |-> guard[r], token |-> token + 1, callers |-> Append(callers, r)] \in Messages
      BY <1>1, <3>1 DEF Messages
    <3>3. QED
      BY <2>1, <3>2 DEF MessageType, Deliverable
  <2>2. CASE Return(callers, rest)
    BY <2>2, ReturnType DEF MessageType
  <2>3. QED
    BY <2>1, <2>2 DEF shutdown
<1>5. QED
  BY <1>2, <1>3, <1>4, TypePartsNext

LEMMA StopType ==
  ASSUME TypeOK, resilience_stop \/ \E m \in msgs : shutdown_call(m) \/ shutdown_done(m)
  PROVE  TypeOK'
<1>0. RingType /\ ViewType /\ AnnouncingType /\ WorkType /\ MessageType
  BY TypeParts
<1>1. CASE resilience_stop
  <2>1. 1 \in 1 .. N /\ 0 \in Ranks /\ <<>> \in Seq(Ranks) /\ msgs \in SUBSET Messages
    BY <1>0, NFacts, RankFacts DEF MessageType
  <2>2. QED
    BY <1>1, <2>1, ShutdownType DEF resilience_stop
<1>2. ASSUME NEW m \in msgs, shutdown_call(m) PROVE TypeOK'
  <2>1. m.to \in Ranks /\ m.token \in 1 .. N /\ m.callers \in Seq(Ranks)
    BY <1>0, <1>2, MessageFacts, NFacts DEF shutdown_call, MessageType
  <2>2. msgs \ {m} \in SUBSET Messages
    BY <1>0 DEF MessageType
  <2>3. shutdown(m.to, m.token, m.callers, msgs \ {m})
    BY <1>2 DEF shutdown_call
  <2>4. QED
    BY <2>1, <2>2, <2>3, ShutdownType
<1>3. ASSUME NEW m \in msgs, shutdown_done(m) PROVE TypeOK'
  <2>1. m.callers \in Seq(Ranks) /\ msgs \ {m} \in SUBSET Messages
    BY <1>0, <1>3, MessageFacts DEF shutdown_done, MessageType
  <2>2. MessageType'
    BY <1>3, <2>1, ReturnType DEF shutdown_done, MessageType
  <2>3. (RingType /\ ViewType /\ AnnouncingType /\ WorkType)'
    BY <1>0, <1>3 DEF shutdown_done, RingType, ViewType, AnnouncingType, WorkType, ring, view, work
  <2>4. QED
    BY <2>2, <2>3, TypePartsNext
<1>4. QED
  BY <1>1, <1>2, <1>3

LEMMA NextType == TypeOK /\ [Next]_vars => TypeOK'
<1> SUFFICES ASSUME TypeOK, [Next]_vars PROVE TypeOK'
  OBVIOUS
<1>1. CASE UNCHANGED vars
  BY <1>1 DEF vars, ring, view, work, TypeOK
<1>2. CASE tick \/ \E r \in Mortal : crash(r)
  BY <1>2, TimeType
<1>3. CASE \E r \in Ranks : loop(r)
  BY <1>3, LoopType
<1>4. CASE \E r \in Ranks : handle(r)
  BY <1>4, RecoveryType, StopType, WorkStepType DEF handle
<1>5. CASE \E r \in Ranks : reschedule(r)
  BY <1>5, RescheduleType DEF reschedule
<1>6. CASE \E r \in Ranks : dispatch(r)
  BY <1>6, WorkStepType DEF dispatch
<1>7. CASE \E r \in Ranks, w \in Items : process(r, w) \/ \E d \in Ranks : schedule_down(r, w, d)
  BY <1>7, WorkStepType
<1>8. CASE resilience_stop
  BY <1>8, StopType
<1>9. QED
  BY <1>1, <1>2, <1>3, <1>4, <1>5, <1>6, <1>7, <1>8 DEF Next

\* The component's state has its types, whatever crashes and whenever: in particular
\* an announcement, and a shutdown, is passed on at most N - 1 times
\* (reschedule_dispatched_to_dead and shutdown count tokens).
THEOREM ResilienceTypeCorrect == Spec => []TypeOK
BY InitType, NextType, PTL DEF Spec

-----------------------------------------------------------------------------
(***************************************************************************)
(* One crash.  The rest is about at most one crash, and a program that     *)
(* ends neither during a crash nor crashes while it ends.  With two        *)
(* localities the survivor becomes its own guard and protectee and may     *)
(* suspect itself before it has stopped its loop, so there are three.      *)
(***************************************************************************)
OneCrash == N >= 3 /\ MaxCrashes <= 1 /\ ~Overlapping

RightOf(r) == IF r = N - 1 THEN 0 ELSE r + 1

\* How many localities are between d and r, going round to the right.
Beyond(d, r) == IF r > d THEN r - d - 1 ELSE r + N - d - 1

Others(d) == Ranks \ {d}

\* The messages of a recovery.
Repairs == {m \in msgs : m.op \in {"set_guard", "guard_set", "get_protectee", "protectee", "announce"}}

\* No recovery has begun.
Whole ==
  /\ \A r \in Ranks : /\ guard[r] = RightOf(r) /\ protectee[r] = LeftOf(r) /\ pp[r] = LeftOf(LeftOf(r))
                     /\ recovery[r] = "none" /\ running[r] = Ranks
  /\ announcing = {} /\ Repairs = {}

\* The guard of d has adopted the protectee of d, which has yet to learn of it ...
Adopted(d) ==
  \A r \in Others(d) :
    protectee[r] = IF r = RightOf(d) THEN LeftOf(d) ELSE LeftOf(r)

\* ... and has.
Closed(d) ==
  /\ Adopted(d)
  /\ \A r \in Others(d) : guard[r] = IF r = LeftOf(d) THEN RightOf(d) ELSE RightOf(r)

\* Which of the two remote calls of protectee_crashed is under way.
Healing(d) ==
  LET g == RightOf(d)
      q == LeftOf(d)
  IN  /\ Adopted(d)
      /\ \A r \in Ranks : running[r] = Ranks /\ (r # g => recovery[r] = "none")
      /\ announcing = {}
      /\ dead[g] = d /\ g \in beaten
      /\ \/ /\ recovery[g] = "set_guard" /\ \A r \in Ranks : guard[r] = RightOf(r)
            /\ Repairs = {[op |-> "set_guard", from |-> g, to |-> q]}
         \/ /\ recovery[g] = "set_guard" /\ Closed(d)
            /\ Repairs = {[op |-> "guard_set", from |-> q, to |-> g]}
         \/ /\ recovery[g] = "get_protectee" /\ Closed(d)
            /\ Repairs = {[op |-> "get_protectee", from |-> g, to |-> q]}
         \/ /\ recovery[g] = "get_protectee" /\ Closed(d)
            /\ \E k \in Ranks : Repairs = {[op |-> "protectee", from |-> q, to |-> g, rank |-> k]}

\* Those between d and x know that d is dead, those beyond x do not.
Known(d, x) ==
  \A r \in Others(d) :
    /\ Beyond(d, r) < Beyond(d, x) => running[r] = Others(d)
    /\ Beyond(d, r) > Beyond(d, x) => running[r] = Ranks

\* The announcement of the death is at locality x, or on its way there; the
\* token says how far that is.
Handled(d, x) ==
  /\ Repairs = {}
  /\ \E a \in announcing :
       /\ announcing = {a}
       /\ a.rank = x /\ a.dead = d /\ a.token = Beyond(d, x)
       /\ running[x] = IF a.stage = "reschedule" THEN Others(d) ELSE Ranks

Travelling(d, x) ==
  /\ announcing = {}
  /\ \E m \in Repairs :
       /\ Repairs = {m}
       /\ m.op = "announce" /\ m.to = x /\ m.dead = d /\ m.token = Beyond(d, x)
  /\ running[x] = Ranks

Announcing(d, x) ==
  /\ Closed(d)
  /\ \A r \in Ranks : recovery[r] = "none"
  /\ Known(d, x)
  /\ Handled(d, x) \/ Travelling(d, x)

\* Every locality knows.
Over(d) ==
  /\ Closed(d)
  /\ \A r \in Ranks : recovery[r] = "none"
  /\ \A r \in Others(d) : running[r] = Others(d)
  /\ announcing = {} /\ Repairs = {}

CrashInv ==
  /\ \A m \in msgs : m.to \in alive
  /\ \/ alive = Ranks /\ Whole
     \/ \E d \in Mortal : /\ alive = Others(d)
                         /\ \/ Whole \/ Healing(d) \/ Over(d)
                            \/ \E x \in Others(d) : Announcing(d, x)

\* A locality that has had its turn in this period has sent its guard a
\* heartbeat, so that the guard's loop finds a recent one in the next period;
\* only a guard that has just adopted its protectee has none yet.
HeartbeatInv ==
  \A r \in alive : protectee[r] \in alive =>
    /\ (guard[protectee[r]] = r /\ protectee[r] \in beaten) =>
         \/ age[r] = 0
         \/ [op |-> "heartbeat", from |-> protectee[r], to |-> r] \in msgs
    /\ (Looping(r) /\ age[r] > Delta) => r \in beaten /\ LeftOf(r) \notin alive

\* The place of a live locality in the circle that starts at the console.
Place(r) == IF \E d \in Ranks \ alive : d < r THEN r - 1 ELSE r
Stops == {m \in msgs : m.op \in {"shutdown", "shutdown_done"}}

\* shutdown goes around the ring once and stops every loop it passes.
StopInv ==
  /\ stop = "no" => Stops = {} /\ \A r \in alive : keep[r]
  /\ stop # "no" => \/ alive = Ranks /\ Whole
                    \/ \E d \in Mortal : alive = Others(d) /\ Over(d)
  /\ stop = "called" =>
       \E m \in Stops :
         /\ Stops = {m} /\ m.callers \in Seq(alive)
         /\ m.op = "shutdown" => /\ Place(m.to) = m.token - 1
                                /\ \A r \in alive : Place(r) < m.token - 1 => ~keep[r]
         /\ m.op = "shutdown_done" => \A r \in alive : ~keep[r]
  /\ stop = "returned" => Stops = {} /\ \A r \in alive : ~keep[r]

RecoveryInv == TypeOK /\ CrashInv /\ HeartbeatInv /\ StopInv /\ CountInStep

-----------------------------------------------------------------------------
(* Going round.                                                            *)

LEMMA Round ==
  ASSUME N >= 3, NEW r \in Ranks
  PROVE  /\ RightOf(r) \in Ranks /\ LeftOf(r) \in Ranks
         /\ RightOf(LeftOf(r)) = r /\ LeftOf(RightOf(r)) = r /\ (r + 1) % N = RightOf(r)
         /\ LeftOf(r) # r /\ RightOf(r) # r /\ LeftOf(r) # RightOf(r)
         /\ LeftOf(LeftOf(r)) \in Ranks /\ LeftOf(LeftOf(r)) # r
         /\ LeftOf(LeftOf(RightOf(r))) = LeftOf(r)
<1>1. r \in Nat /\ r < N /\ N \in Nat
  BY NFacts, RankFacts
<1>2. RightOf(r) \in Ranks /\ LeftOf(r) \in Ranks
  BY <1>1 DEF RightOf, LeftOf, Ranks
<1>3. RightOf(LeftOf(r)) = r /\ LeftOf(RightOf(r)) = r
  BY <1>1 DEF RightOf, LeftOf
<1>4. (r + 1) % N = RightOf(r)
  BY <1>1 DEF RightOf
<1>5. LeftOf(r) # r /\ RightOf(r) # r /\ LeftOf(r) # RightOf(r)
  BY <1>1 DEF RightOf, LeftOf
<1>6. LeftOf(LeftOf(r)) \in Ranks
  BY <1>1 DEF LeftOf, Ranks
<1>7. LeftOf(LeftOf(r)) # r
  BY <1>1 DEF LeftOf
<1>8. QED
  BY <1>2, <1>3, <1>4, <1>5, <1>6, <1>7

LEMMA BeyondFacts ==
  ASSUME N >= 3, NEW d \in Ranks
  PROVE  /\ \A r \in Others(d) : Beyond(d, r) \in 0 .. N - 2
         /\ Beyond(d, RightOf(d)) = 0 /\ Beyond(d, LeftOf(d)) = N - 2
         /\ \A r \in Others(d), x \in Others(d) : Beyond(d, r) = Beyond(d, x) => r = x
         /\ \A r \in Others(d) : r # LeftOf(d) =>
              RightOf(r) \in Others(d) /\ Beyond(d, RightOf(r)) = Beyond(d, r) + 1
         /\ \A r \in Others(d) : r # RightOf(d) => LeftOf(r) \in Others(d)
<1>1. d \in Nat /\ d < N /\ N \in Nat
  BY NFacts, RankFacts
<1>2. \A r \in Others(d) : r \in Nat /\ r < N /\ r # d
  BY RankFacts DEF Others
<1>3. \A r \in Others(d) : Beyond(d, r) \in 0 .. N - 2
  BY <1>1, <1>2 DEF Beyond
<1>4. Beyond(d, RightOf(d)) = 0 /\ Beyond(d, LeftOf(d)) = N - 2
  BY <1>1 DEF Beyond, RightOf, LeftOf
<1>5. \A r \in Others(d), x \in Others(d) : Beyond(d, r) = Beyond(d, x) => r = x
  BY <1>1, <1>2 DEF Beyond
<1>6. ASSUME NEW r \in Others(d), r # LeftOf(d)
      PROVE  RightOf(r) \in Others(d) /\ Beyond(d, RightOf(r)) = Beyond(d, r) + 1
  <2>1. RightOf(r) \in Ranks
    BY Round DEF Others
  <2>2. RightOf(r) # d
    BY <1>1, <1>2, <1>6 DEF RightOf, LeftOf
  <2>3. Beyond(d, RightOf(r)) = Beyond(d, r) + 1
    BY <1>1, <1>2, <1>6 DEF Beyond, RightOf, LeftOf
  <2>4. QED
    BY <2>1, <2>2, <2>3 DEF Others
<1>7. ASSUME NEW r \in Others(d), r # RightOf(d)
      PROVE  LeftOf(r) \in Others(d)
  BY <1>7, Round DEF Others
<1>8. QED
  BY <1>3, <1>4, <1>5, <1>6, <1>7

LEMMA OthersCount ==
  ASSUME NEW d \in Ranks
  PROVE  IsFiniteSet(Others(d)) /\ Cardinality(Others(d)) = N - 1 /\ Others(d) \subseteq Ranks
BY RanksFinite, FS_RemoveElement DEF Others

LEMMA PlaceFacts ==
  /\ alive = Ranks => \A r \in Ranks : Place(r) = r
  /\ \A d \in Ranks : alive = Others(d) => \A r \in Ranks : Place(r) = IF d < r THEN r - 1 ELSE r
BY DEF Place, Others

-----------------------------------------------------------------------------
(* What a step that leaves the ring alone keeps.                           *)

LEMMA CrashFrame ==
  ASSUME CrashInv,
         alive' = alive, guard' = guard, protectee' = protectee, pp' = pp,
         recovery' = recovery, dead' = dead, announcing' = announcing, running' = running,
         Repairs' = Repairs, beaten \subseteq beaten' \/ Repairs = {},
         \A m \in msgs' : m.to \in alive
  PROVE  CrashInv'
<1>1. Whole => Whole'
  BY DEF Whole
<1>2. \A d \in Mortal : Healing(d) => Healing(d)'
  BY DEF Healing, Adopted, Closed
<1>3. \A d \in Mortal : Over(d) => Over(d)'
  BY DEF Over, Adopted, Closed
<1>4. \A d \in Mortal : \A x \in Others(d) : Announcing(d, x) => Announcing(d, x)'
  BY DEF Announcing, Known, Handled, Travelling, Adopted, Closed
<1>5. QED
  BY <1>1, <1>2, <1>3, <1>4 DEF CrashInv

LEMMA HeartbeatFrame ==
  ASSUME HeartbeatInv,
         alive' = alive, guard' = guard, protectee' = protectee, age' = age, beaten' = beaten,
         \A m \in msgs : m.op = "heartbeat" => m \in msgs',
         \A r \in alive : Looping(r)' => Looping(r)
  PROVE  HeartbeatInv'
BY DEF HeartbeatInv

\* Where the ring has to be when the program ends.
Calm ==
  \/ alive = Ranks /\ Whole
  \/ \E d \in Mortal : alive = Others(d) /\ Over(d)

LEMMA StopFrame ==
  ASSUME StopInv, alive' = alive, keep' = keep, stop' = stop, Stops' = Stops, stop # "no" => Calm'
  PROVE  StopInv'
<1>1. \A r : Place(r)' = Place(r)
  BY DEF Place
<1>2. QED
  BY <1>1 DEF StopInv, Calm

LEMMA CalmFrame ==
  ASSUME Calm,
         alive' = alive, guard' = guard, protectee' = protectee, pp' = pp,
         recovery' = recovery, announcing' = announcing, running' = running, Repairs' = Repairs
  PROVE  Calm'
BY DEF Calm, Whole, Over, Adopted, Closed

LEMMA CountFrame ==
  ASSUME CountInStep, alive' \subseteq alive, count' = count, running' = running
  PROVE  CountInStep'
BY DEF CountInStep

-----------------------------------------------------------------------------
(* The start, time and crashes.                                            *)

LEMMA InitRecovery == ASSUME OneCrash, Init PROVE RecoveryInv
<1>0. N >= 3 /\ TypeOK
  BY InitType DEF OneCrash
<1>1. Repairs = {} /\ Stops = {}
  BY DEF Init, Repairs, Stops
<1>2. Whole
  BY <1>0, <1>1, Round DEF Init, init, Whole
<1>3. CrashInv
  BY <1>2 DEF Init, CrashInv
<1>4. HeartbeatInv
  BY ResilienceAssumption DEF Init, init, HeartbeatInv
<1>5. StopInv
  BY <1>1 DEF Init, init, StopInv
<1>6. CountInStep
  BY RanksFinite DEF Init, init, CountInStep
<1>7. QED
  BY <1>0, <1>3, <1>4, <1>5, <1>6 DEF RecoveryInv

\* In every period in which the loops run, protectees' heartbeats arrive.
LEMMA TickRecovery ==
  ASSUME OneCrash, RecoveryInv, tick
  PROVE  (CrashInv /\ HeartbeatInv /\ StopInv /\ CountInStep)'
<1>0. /\ CrashInv /\ HeartbeatInv /\ StopInv /\ CountInStep /\ RingType /\ Delta \in Nat \ {0} /\ N >= 3
      /\ alive \subseteq Ranks
  BY TypeParts, ResilienceAssumption DEF RecoveryInv, OneCrash, RingType
<1>1. /\ alive' = alive /\ guard' = guard /\ protectee' = protectee /\ pp' = pp /\ recovery' = recovery
      /\ dead' = dead /\ announcing' = announcing /\ running' = running /\ count' = count /\ keep' = keep
      /\ msgs' = msgs /\ stop' = stop /\ beaten' = {}
  BY DEF tick, ring, view
<1>2. \A m \in msgs : m.op = "item"
  BY DEF tick
<1>3. Repairs = {} /\ Repairs' = Repairs /\ Stops = {} /\ Stops' = Stops
  BY <1>1, <1>2 DEF Repairs, Stops
<1>4. CrashInv'
  BY <1>0, <1>1, <1>3, CrashFrame DEF CrashInv
<1>5. StopInv'
  <2>1. stop # "no" => Calm
    BY <1>0 DEF StopInv, Calm
  <2>2. stop # "no" => Calm'
    BY <1>1, <1>3, <2>1, CalmFrame
  <2>3. QED
    BY <1>0, <1>1, <1>3, <2>2, StopFrame
<1>6. CountInStep'
  BY <1>0, <1>1, CountFrame
<1>7. HeartbeatInv'
  <2>1. ASSUME NEW r \in alive, protectee[r] \in alive, Looping(r)' PROVE ~(age'[r] > Delta)
    <3>1. Looping(r) /\ keep[r]
      BY <1>1, <2>1 DEF Looping
    <3>2. guard[protectee[r]] = r
      <4>1. r \in Ranks /\ protectee[r] \in Ranks
        BY <1>0 DEF RingType
      <4>2. CASE Whole
        BY <1>0, <4>1, <4>2, Round DEF Whole
      <4>3. ASSUME NEW d \in Mortal, alive = Others(d), Closed(d)
            PROVE  guard[protectee[r]] = r
        <5>1. d \in Ranks /\ r \in Others(d) /\ protectee[r] \in Others(d)
          BY <2>1, <4>3, ResilienceAssumption DEF Ranks
        <5>2. protectee[r] = IF r = RightOf(d) THEN LeftOf(d) ELSE LeftOf(r)
          BY <4>3, <5>1 DEF Closed, Adopted
        <5>3. guard[protectee[r]] = IF protectee[r] = LeftOf(d) THEN RightOf(d) ELSE RightOf(protectee[r])
          BY <4>3, <5>1 DEF Closed
        <5>4. CASE r = RightOf(d)
          BY <5>2, <5>3, <5>4
        <5>5. CASE r # RightOf(d)
          <6>1. LeftOf(r) # LeftOf(d)
            BY <1>0, <4>1, <5>1, Round DEF Others
          <6>2. QED
            BY <1>0, <4>1, <5>2, <5>3, <5>5, <6>1, Round
        <5>6. QED
          BY <5>4, <5>5
      <4>4. Whole \/ \E d \in Mortal : alive = Others(d) /\ Closed(d)
        BY <1>0, <1>3 DEF CrashInv, Healing, Announcing, Known, Handled, Travelling, Over
      <4>5. QED
        BY <4>2, <4>3, <4>4
    <3>3. Looping(protectee[r])
      <4>1. recovery[protectee[r]] = "none"
        <5>1. CASE Whole
          BY <2>1, <5>1, <1>0 DEF Whole
        <5>2. ASSUME NEW d \in Mortal, Over(d) \/ \E x \in Others(d) : Announcing(d, x)
              PROVE  recovery[protectee[r]] = "none"
          BY <2>1, <5>2, <1>0 DEF Over, Announcing, Known, Handled, Travelling
        <5>3. QED
          BY <1>0, <1>3, <5>1, <5>2 DEF CrashInv, Healing
      <4>2. keep[protectee[r]]
        <5>1. stop \in {"no", "called", "returned"}
          BY DEF RecoveryInv, TypeOK
        <5>2. stop = "no"
          BY <1>0, <1>3, <3>1, <5>1 DEF StopInv
        <5>3. QED
          BY <1>0, <2>1, <5>2 DEF StopInv
      <4>3. QED
        BY <2>1, <4>1, <4>2 DEF Looping
    <3>4. protectee[r] \in beaten
      BY <1>0, <2>1, <3>3 DEF tick
    <3>5. age[r] = 0
      BY <1>0, <1>2, <2>1, <3>2, <3>4 DEF HeartbeatInv
    <3>6. age'[r] = 1
      BY <1>0, <3>1, <3>5 DEF tick, RingType
    <3>7. QED
      BY <1>0, <3>6
  <2>2. QED
    BY <1>1, <2>1 DEF HeartbeatInv
<1>8. QED
  BY <1>4, <1>5, <1>6, <1>7

\* There is one crash, and the ring is whole before it.
LEMMA CrashRecovery ==
  ASSUME OneCrash, RecoveryInv, NEW r \in Mortal, crash(r)
  PROVE  (CrashInv /\ HeartbeatInv /\ StopInv /\ CountInStep)'
<1>0. /\ CrashInv /\ HeartbeatInv /\ StopInv /\ CountInStep /\ RingType /\ N >= 3 /\ N \in Nat
      /\ alive \subseteq Ranks /\ MaxCrashes <= 1 /\ MaxCrashes \in Nat
  BY TypeParts, ResilienceAssumption, NFacts DEF RecoveryInv, OneCrash, RingType
<1>1. alive = Ranks /\ Whole
  <2>1. Cardinality(alive) \in 0 .. N
    BY <1>0, SomeRanks
  <2>2. Cardinality(alive) = N
    BY <1>0, <2>1 DEF crash
  <2>3. \A d \in Mortal : alive # Others(d)
    BY <1>0, <2>2, OthersCount, ResilienceAssumption DEF Ranks
  <2>4. QED
    BY <1>0, <2>3 DEF CrashInv
<1>2. /\ alive' = Others(r) /\ guard' = guard /\ protectee' = protectee /\ pp' = pp /\ age' = age
      /\ beaten' = beaten /\ running' = running /\ count' = count /\ keep' = keep /\ recovery' = recovery
      /\ dead' = dead /\ stop' = stop /\ stop = "no"
      /\ announcing' \subseteq announcing /\ msgs' = {m \in msgs : m.to # r}
  BY <1>1 DEF crash, Others, ring, view, OneCrash
<1>3. Repairs' = {} /\ announcing' = {} /\ Stops' = {}
  BY <1>0, <1>1, <1>2 DEF Repairs, Whole, Stops, StopInv
<1>4. Whole'
  BY <1>1, <1>2, <1>3 DEF Whole
<1>5. CrashInv'
  BY <1>0, <1>1, <1>2, <1>4 DEF CrashInv, Others
<1>6. HeartbeatInv'
  BY <1>0, <1>1, <1>2 DEF HeartbeatInv, Looping, Others
<1>7. StopInv'
  BY <1>0, <1>1, <1>2, <1>3 DEF StopInv, Others
<1>8. CountInStep'
  BY <1>0, <1>1, <1>2 DEF CountInStep, Others
<1>9. QED
  BY <1>5, <1>6, <1>7, <1>8

-----------------------------------------------------------------------------
(* The loop.                                                               *)

LEMMA LoopRecovery ==
  ASSUME OneCrash, RecoveryInv, NEW r \in Ranks, send_heartbeat_loop(r)
  PROVE  (CrashInv /\ HeartbeatInv /\ StopInv /\ CountInStep)'
<1>0. CrashInv /\ HeartbeatInv /\ StopInv /\ CountInStep
  BY DEF RecoveryInv
<1>1. /\ alive' = alive /\ guard' = guard /\ protectee' = protectee /\ pp' = pp /\ age' = age
      /\ beaten' = beaten \cup {r} /\ running' = running /\ count' = count /\ keep' = keep
      /\ recovery' = recovery /\ dead' = dead /\ stop' = stop /\ announcing' = announcing
      /\ msgs' = msgs \cup Deliverable({Heartbeat(r)}) /\ age[r] <= Delta
  BY DEF send_heartbeat_loop, Send, ring, view
<1>2. Repairs' = Repairs /\ Stops' = Stops
  BY <1>1 DEF Repairs, Stops, Deliverable, Heartbeat
<1>3. CrashInv'
  <2>1. \A m \in msgs' : m.to \in alive
    BY <1>0, <1>1 DEF CrashInv, Deliverable
  <2>2. QED
    BY <1>0, <1>1, <1>2, <2>1, CrashFrame
<1>4. StopInv'
  <2>1. stop # "no" => Calm'
    BY <1>0, <1>1, <1>2, CalmFrame DEF StopInv, Calm
  <2>2. QED
    BY <1>0, <1>1, <1>2, <2>1, StopFrame
<1>5. CountInStep'
  BY <1>0, <1>1, CountFrame
<1>6. HeartbeatInv'
  <2>1. ASSUME NEW s \in alive, protectee[s] \in alive, guard[protectee[s]] = s, protectee[s] \in beaten'
        PROVE  age[s] = 0 \/ [op |-> "heartbeat", from |-> protectee[s], to |-> s] \in msgs'
    <3>1. CASE protectee[s] \in beaten
      BY <1>0, <1>1, <2>1, <3>1 DEF HeartbeatInv
    <3>2. CASE protectee[s] = r
      BY <1>1, <2>1, <3>2 DEF Deliverable, Heartbeat
    <3>3. QED
      BY <1>1, <2>1, <3>1, <3>2
  <2>2. \A s \in alive : protectee[s] \in alive /\ Looping(s) /\ age[s] > Delta =>
           s \in beaten' /\ LeftOf(s) \notin alive
    BY <1>0, <1>1 DEF HeartbeatInv
  <2>3. \A s : Looping(s)' = Looping(s)
    BY <1>1 DEF Looping
  <2>4. QED
    BY <1>1, <2>1, <2>2, <2>3 DEF HeartbeatInv
<1>7. QED
  BY <1>3, <1>4, <1>5, <1>6

\* Only the guard of a crashed locality takes its protectee for dead, and once.
LEMMA SuspicionIsRight ==
  ASSUME OneCrash, RecoveryInv, NEW r \in Ranks, protectee_crashed(r)
  PROVE  \E d \in Mortal : /\ alive = Others(d) /\ Whole
                          /\ r = RightOf(d) /\ protectee[r] = d /\ pp[r] = LeftOf(d)
<1>0. CrashInv /\ HeartbeatInv /\ RingType /\ N >= 3
  BY TypeParts DEF RecoveryInv, OneCrash
<1>1. r \in alive /\ Looping(r) /\ r \notin beaten /\ age[r] > Delta
  BY DEF protectee_crashed, Looping
<1>2. protectee[r] \notin alive /\ protectee[r] \in Ranks
  BY <1>0, <1>1 DEF HeartbeatInv, RingType
<1>3. PICK d \in Mortal : /\ alive = Others(d)
                         /\ \/ Whole \/ Healing(d) \/ Over(d)
                            \/ \E x \in Others(d) : Announcing(d, x)
  BY <1>0, <1>2 DEF CrashInv
<1>4. d \in Ranks
  BY ResilienceAssumption DEF Ranks
<1>5. protectee[r] = d /\ r # d
  BY <1>1, <1>2, <1>3 DEF Others
<1>6. ~Adopted(d)
  <2>1. RightOf(LeftOf(r)) = r /\ LeftOf(d) # d
    BY <1>0, <1>4, Round
  <2>2. QED
    BY <1>1, <1>3, <1>5, <2>1 DEF Adopted
<1>7. Whole
  BY <1>3, <1>6 DEF Healing, Over, Announcing, Known, Handled, Travelling, Closed
<1>8. r = RightOf(d) /\ pp[r] = LeftOf(d)
  BY <1>0, <1>4, <1>5, <1>7, Round DEF Whole
<1>9. QED
  BY <1>3, <1>5, <1>7, <1>8

LEMMA DetectionRecovery ==
  ASSUME OneCrash, RecoveryInv, NEW r \in Ranks, protectee_crashed(r)
  PROVE  (CrashInv /\ HeartbeatInv /\ StopInv /\ CountInStep)'
<1>0. CrashInv /\ HeartbeatInv /\ StopInv /\ CountInStep /\ RingType /\ N >= 3
  BY TypeParts DEF RecoveryInv, OneCrash
<1>1. PICK d \in Mortal : /\ alive = Others(d) /\ Whole
                         /\ r = RightOf(d) /\ protectee[r] = d /\ pp[r] = LeftOf(d)
  BY SuspicionIsRight
<1>2. d \in Ranks /\ r \in Others(d) /\ LeftOf(d) \in Others(d) /\ LeftOf(d) # r
  BY <1>0, <1>1, Round, ResilienceAssumption DEF Ranks, Others
<1> DEFINE q == LeftOf(d)
           new == [op |-> "set_guard", from |-> r, to |-> q]
<1>3. /\ alive' = alive /\ guard' = guard /\ protectee' = [protectee EXCEPT ![r] = q] /\ pp' = pp /\ age' = age
      /\ beaten' = beaten \cup {r} /\ running' = running /\ count' = count /\ keep' = keep
      /\ recovery' = [recovery EXCEPT ![r] = "set_guard"] /\ dead' = [dead EXCEPT ![r] = d]
      /\ stop' = stop /\ announcing' = announcing
      /\ msgs' = msgs \cup Deliverable({Heartbeat(r), new})
  BY <1>1 DEF protectee_crashed, Send, view
<1>4. new \in msgs' /\ \A m \in msgs' : m \in msgs \/ m = new \/ (m = Heartbeat(r) /\ guard[r] \in alive)
  BY <1>1, <1>2, <1>3 DEF Deliverable, Heartbeat
<1>5. Repairs' = {new} /\ Stops' = Stops
  <2>1. new.op = "set_guard" /\ Heartbeat(r).op = "heartbeat" /\ msgs \subseteq msgs'
    BY <1>3 DEF Heartbeat
  <2>2. Repairs = {}
    BY <1>1 DEF Whole
  <2> HIDE DEF new
  <2>3. QED
    BY <1>4, <2>1, <2>2 DEF Repairs, Stops
<1> HIDE DEF q, new
<1>6. \A m \in msgs' : m.to \in alive
  BY <1>0, <1>1, <1>2, <1>4 DEF CrashInv, Heartbeat, new, q
<1>7. Healing(d)'
  <2>1. Adopted(d)'
    BY <1>0, <1>1, <1>2, <1>3 DEF Adopted, Whole, Others, RingType, q
  <2>2. \A s \in Ranks : /\ running'[s] = Ranks /\ guard'[s] = RightOf(s)
                        /\ recovery'[s] = IF s = r THEN "set_guard" ELSE "none"
    BY <1>0, <1>1, <1>3 DEF Whole, RingType
  <2>3. announcing' = {} /\ dead'[r] = d /\ r \in beaten'
    BY <1>0, <1>1, <1>3 DEF Whole, RingType
  <2>4. Repairs' = {[op |-> "set_guard", from |-> RightOf(d), to |-> LeftOf(d)]}
    BY <1>1, <1>5 DEF new, q
  <2>5. QED
    BY <1>1, <1>2, <2>1, <2>2, <2>3, <2>4 DEF Healing
<1>8. CrashInv'
  BY <1>1, <1>3, <1>6, <1>7 DEF CrashInv
<1>9. HeartbeatInv'
  <2>1. ASSUME NEW s \in alive, protectee'[s] \in alive, guard[protectee'[s]] = s, protectee'[s] \in beaten'
        PROVE  age[s] = 0 \/ [op |-> "heartbeat", from |-> protectee'[s], to |-> s] \in msgs'
    <3>1. s # r
      <4>1. guard[q] = d
        BY <1>0, <1>1, <1>2, Round DEF Whole, q
      <4>2. QED
        BY <1>0, <1>2, <1>3, <2>1, <4>1 DEF RingType, Others
    <3>2. protectee'[s] = protectee[s]
      BY <1>0, <1>3, <3>1 DEF RingType
    <3>3. CASE protectee[s] \in beaten
      BY <1>0, <1>3, <2>1, <3>2, <3>3 DEF HeartbeatInv
    <3>4. CASE protectee[s] = r
      BY <1>3, <2>1, <3>2, <3>4 DEF Deliverable, Heartbeat
    <3>5. QED
      BY <1>3, <2>1, <3>2, <3>3, <3>4
  <2>2. ASSUME NEW s \in alive, protectee'[s] \in alive, Looping(s)', age[s] > Delta
        PROVE  s \in beaten' /\ LeftOf(s) \notin alive
    <3>1. CASE s = r
      BY <1>0, <1>1, <1>2, <1>3, <3>1, Round DEF Others
    <3>2. CASE s # r
      BY <1>0, <1>1, <1>3, <2>2, <3>2 DEF HeartbeatInv, Looping, Whole, RingType
    <3>3. QED
      BY <3>1, <3>2
  <2>3. QED
    BY <1>3, <2>1, <2>2 DEF HeartbeatInv
<1>10. StopInv'
  <2>1. stop = "no"
    <3>1. running[r] = Ranks /\ Others(d) # Ranks
      BY <1>1, <1>2 DEF Whole, Others
    <3>2. \A e \in Mortal : Others(e) = Others(d) => ~Over(e)
      BY <1>1, <1>2, <3>1 DEF Over
    <3>3. QED
      BY <1>0, <1>1, <3>1, <3>2 DEF StopInv
  <2>2. QED
    BY <1>0, <1>3, <1>5, <2>1, StopFrame
<1>11. CountInStep'
  BY <1>0, <1>3, CountFrame
<1>12. QED
  BY <1>8, <1>9, <1>10, <1>11

-----------------------------------------------------------------------------
(* The messages of a recovery.                                             *)

LEMMA HeartbeatRecovery ==
  ASSUME OneCrash, RecoveryInv, NEW m \in msgs, send_heartbeat(m)
  PROVE  (CrashInv /\ HeartbeatInv /\ StopInv /\ CountInStep)'
<1>0. CrashInv /\ HeartbeatInv /\ StopInv /\ CountInStep /\ RingType /\ Delta \in Nat
  BY TypeParts, ResilienceAssumption DEF RecoveryInv
<1>1. /\ alive' = alive /\ guard' = guard /\ protectee' = protectee /\ pp' = pp
      /\ age' = [age EXCEPT ![m.to] = 0] /\ beaten' = beaten /\ running' = running /\ count' = count
      /\ keep' = keep /\ recovery' = recovery /\ dead' = dead /\ stop' = stop /\ announcing' = announcing
      /\ msgs' = msgs \ {m} /\ m.op = "heartbeat"
  BY DEF send_heartbeat, ring, view
<1>2. Repairs' = Repairs /\ Stops' = Stops
  BY <1>1 DEF Repairs, Stops
<1>3. CrashInv'
  <2>1. \A k \in msgs' : k.to \in alive
    BY <1>0, <1>1 DEF CrashInv
  <2>2. QED
    BY <1>0, <1>1, <1>2, <2>1, CrashFrame
<1>4. StopInv'
  <2>1. stop # "no" => Calm'
    BY <1>0, <1>1, <1>2, CalmFrame DEF StopInv, Calm
  <2>2. QED
    BY <1>0, <1>1, <1>2, <2>1, StopFrame
<1>5. CountInStep'
  BY <1>0, <1>1, CountFrame
<1>6. HeartbeatInv'
  <2>1. \A s \in alive : age'[s] = IF s = m.to THEN 0 ELSE age[s]
    BY <1>0, <1>1 DEF RingType
  <2>2. \A s \in alive : [op |-> "heartbeat", from |-> protectee[s], to |-> s] = m => s = m.to
    OBVIOUS
  <2>3. \A s : Looping(s)' = Looping(s)
    BY <1>1 DEF Looping
  <2>4. ASSUME NEW s \in alive, protectee[s] \in alive
        PROVE  /\ (guard[protectee[s]] = s /\ protectee[s] \in beaten) =>
                    age'[s] = 0 \/ [op |-> "heartbeat", from |-> protectee[s], to |-> s] \in msgs'
               /\ (Looping(s) /\ age'[s] > Delta) => s \in beaten /\ LeftOf(s) \notin alive
    <3>1. CASE s = m.to
      BY <1>0, <2>1, <3>1
    <3>2. CASE s # m.to
      <4>1. age'[s] = age[s]
        BY <2>1, <3>2
      <4>2. [op |-> "heartbeat", from |-> protectee[s], to |-> s] # m
        BY <2>2, <3>2
      <4>3. QED
        BY <1>0, <1>1, <2>4, <4>1, <4>2 DEF HeartbeatInv
    <3>3. QED
      BY <3>1, <3>2
  <2>5. QED
    BY <1>1, <2>3, <2>4 DEF HeartbeatInv
<1>7. QED
  BY <1>3, <1>4, <1>5, <1>6

\* While a message of protectee_crashed is under way it is the only one, and
\* nobody has called for the end of the program.
LEMMA CallOfHealing ==
  ASSUME OneCrash, RecoveryInv, NEW m \in msgs,
         m.op \in {"set_guard", "guard_set", "get_protectee", "protectee"}
  PROVE  \E d \in Mortal : /\ alive = Others(d) /\ Healing(d) /\ Repairs = {m} /\ stop = "no"
                          /\ d \in Ranks /\ RightOf(d) \in Others(d) /\ LeftOf(d) \in Others(d)
                          /\ LeftOf(d) # RightOf(d)
<1>0. CrashInv /\ StopInv /\ N >= 3
  BY DEF RecoveryInv, OneCrash
<1>1. m \in Repairs
  BY DEF Repairs
<1>2. ~Whole
  BY <1>1 DEF Whole
<1>3. PICK d \in Mortal : /\ alive = Others(d)
                         /\ \/ Healing(d) \/ Over(d)
                            \/ \E x \in Others(d) : Announcing(d, x)
  BY <1>0, <1>2 DEF CrashInv
<1>4. Healing(d) /\ Repairs = {m}
  <2>1. ~Over(d)
    BY <1>1 DEF Over
  <2>2. ~\E x \in Others(d) : Announcing(d, x)
    BY <1>1 DEF Announcing, Known, Handled, Travelling
  <2>3. Healing(d)
    BY <1>3, <2>1, <2>2
  <2>4. \E k : Repairs = {k}
    BY <2>3 DEF Healing
  <2>5. QED
    BY <1>1, <2>3, <2>4
<1>5. stop = "no"
  <2>1. \A e \in Mortal : ~Over(e)
    BY <1>1 DEF Over
  <2>2. QED
    BY <1>0, <1>2, <2>1 DEF StopInv
<1>6. d \in Ranks
  BY ResilienceAssumption DEF Ranks
<1>7. RightOf(d) \in Others(d) /\ LeftOf(d) \in Others(d) /\ LeftOf(d) # RightOf(d)
  BY <1>0, <1>6, Round DEF Others
<1>8. QED
  BY <1>3, <1>4, <1>5, <1>6, <1>7

\* One message of a recovery is taken out and another one put in.
LEMMA Exchange ==
  ASSUME RecoveryInv, NEW m \in msgs, NEW new, new.to \in alive, Repairs = {m},
         new.op \in {"set_guard", "guard_set", "get_protectee", "protectee", "announce"}, Reply(m, new)
  PROVE  /\ Repairs' = {new} /\ Stops' = Stops /\ \A k \in msgs' : k.to \in alive
         /\ \A k \in msgs : k.op = "heartbeat" => k \in msgs'
<1>1. msgs' = (msgs \ {m}) \cup {new}
  BY DEF Reply, Deliverable
<1>2. m \in Repairs
  OBVIOUS
<1>3. m.op \in {"set_guard", "guard_set", "get_protectee", "protectee", "announce"}
  BY <1>2 DEF Repairs
<1>4. QED
  BY <1>1, <1>3 DEF Repairs, Stops, RecoveryInv, CrashInv

LEMMA SetGuardRecovery ==
  ASSUME OneCrash, RecoveryInv, NEW m \in msgs, set_guard(m)
  PROVE  (CrashInv /\ HeartbeatInv /\ StopInv /\ CountInStep)'
<1>0. CrashInv /\ HeartbeatInv /\ StopInv /\ CountInStep /\ RingType /\ N >= 3 /\ m.op = "set_guard"
  BY TypeParts DEF RecoveryInv, OneCrash, set_guard
<1>1. PICK d \in Mortal : /\ alive = Others(d) /\ Healing(d) /\ Repairs = {m} /\ stop = "no"
                         /\ d \in Ranks /\ RightOf(d) \in Others(d) /\ LeftOf(d) \in Others(d)
                         /\ LeftOf(d) # RightOf(d)
  BY <1>0, CallOfHealing
<1> DEFINE g == RightOf(d)
           q == LeftOf(d)
<1>2. m.from = g /\ m.to = q /\ recovery[g] = "set_guard" /\ \A r \in Ranks : guard[r] = RightOf(r)
  <2>1. \A k : Repairs = {k} => k = m
    BY <1>1
  <2>2. QED
    BY <1>0, <1>1, <2>1 DEF Healing
<1>3. PICK new : new = [op |-> "guard_set", from |-> q, to |-> g]
  OBVIOUS
<1> HIDE DEF g, q
<1>4. /\ alive' = alive /\ guard' = [guard EXCEPT ![q] = g] /\ protectee' = protectee /\ pp' = pp /\ age' = age
      /\ beaten' = beaten \ {q} /\ running' = running /\ count' = count /\ keep' = keep
      /\ recovery' = recovery /\ dead' = dead /\ stop' = stop /\ announcing' = announcing
      /\ Reply(m, new)
  BY <1>2, <1>3 DEF set_guard, view
<1>5. /\ Repairs' = {new} /\ Stops' = Stops /\ \A k \in msgs' : k.to \in alive
      /\ \A k \in msgs : k.op = "heartbeat" => k \in msgs'
  <2>1. new.op = "guard_set" /\ new.to \in alive
    BY <1>1, <1>3 DEF g
  <2>2. QED
    BY <1>1, <1>4, <2>1, Exchange
<1>6. \A r \in Ranks : guard'[r] = IF r = q THEN g ELSE RightOf(r)
  BY <1>0, <1>2, <1>4 DEF RingType
<1>7. Healing(d)'
  <2>1. Closed(d)'
    BY <1>1, <1>4, <1>6 DEF Healing, Closed, Adopted, Others, g, q
  <2>2. Repairs' = {[op |-> "guard_set", from |-> LeftOf(d), to |-> RightOf(d)]}
    BY <1>3, <1>5 DEF g, q
  <2>3. RightOf(d) \in beaten' /\ recovery'[RightOf(d)] = "set_guard"
    BY <1>1, <1>2, <1>4 DEF Healing, g, q
  <2>4. QED
    BY <1>1, <1>4, <2>1, <2>2, <2>3 DEF Healing, Closed
<1>8. CrashInv'
  BY <1>1, <1>4, <1>5, <1>7 DEF CrashInv
<1>9. HeartbeatInv'
  <2>1. \A s : Looping(s)' = Looping(s)
    BY <1>4 DEF Looping
  <2>2. ASSUME NEW s \in alive, protectee[s] \in alive
        PROVE  /\ (guard'[protectee[s]] = s /\ protectee[s] \in beaten') =>
                    age[s] = 0 \/ [op |-> "heartbeat", from |-> protectee[s], to |-> s] \in msgs'
               /\ (Looping(s) /\ age[s] > Delta) => s \in beaten' /\ LeftOf(s) \notin alive
    <3>1. (guard'[protectee[s]] = s /\ protectee[s] \in beaten') =>
                    age[s] = 0 \/ [op |-> "heartbeat", from |-> protectee[s], to |-> s] \in msgs'
      BY <1>0, <1>2, <1>4, <1>5, <1>6, <2>2 DEF HeartbeatInv, RingType
    <3>2. CASE s = q
      <4>1. LeftOf(s) \in alive
        BY <1>1, <3>2, BeyondFacts, <1>0 DEF q
      <4>2. QED
        BY <1>0, <2>2, <3>1, <4>1 DEF HeartbeatInv
    <3>3. CASE s # q
      BY <1>0, <1>4, <2>2, <3>1, <3>3 DEF HeartbeatInv
    <3>4. QED
      BY <3>2, <3>3
  <2>3. QED
    BY <1>4, <2>1, <2>2 DEF HeartbeatInv
<1>10. StopInv'
  BY <1>0, <1>1, <1>4, <1>5, StopFrame
<1>11. CountInStep'
  BY <1>0, <1>4, CountFrame
<1>12. QED
  BY <1>8, <1>9, <1>10, <1>11

LEMMA GuardSetRecovery ==
  ASSUME OneCrash, RecoveryInv, NEW m \in msgs, guard_set(m)
  PROVE  (CrashInv /\ HeartbeatInv /\ StopInv /\ CountInStep)'
<1>0. CrashInv /\ HeartbeatInv /\ StopInv /\ CountInStep /\ RingType /\ m.op = "guard_set"
  BY TypeParts DEF RecoveryInv, guard_set
<1>1. PICK d \in Mortal : /\ alive = Others(d) /\ Healing(d) /\ Repairs = {m} /\ stop = "no"
                         /\ d \in Ranks /\ RightOf(d) \in Others(d) /\ LeftOf(d) \in Others(d)
                         /\ LeftOf(d) # RightOf(d)
  BY <1>0, CallOfHealing
<1> DEFINE g == RightOf(d)
           q == LeftOf(d)
<1>2. m.from = q /\ m.to = g /\ Closed(d)
  <2>1. \A k : Repairs = {k} => k = m
    BY <1>1
  <2>2. QED
    BY <1>0, <1>1, <2>1 DEF Healing
<1>3. PICK new : new = [op |-> "get_protectee", from |-> g, to |-> q]
  OBVIOUS
<1> HIDE DEF g, q
<1>4. /\ alive' = alive /\ guard' = guard /\ protectee' = protectee /\ pp' = pp /\ age' = age
      /\ beaten' = beaten /\ running' = running /\ count' = count /\ keep' = keep
      /\ recovery' = [recovery EXCEPT ![g] = "get_protectee"] /\ dead' = dead /\ stop' = stop
      /\ announcing' = announcing /\ Reply(m, new)
  BY <1>2, <1>3 DEF guard_set, view, ring
<1>5. /\ Repairs' = {new} /\ Stops' = Stops /\ \A k \in msgs' : k.to \in alive
      /\ \A k \in msgs : k.op = "heartbeat" => k \in msgs'
  <2>1. new.op = "get_protectee" /\ new.to \in alive
    BY <1>1, <1>3 DEF q
  <2>2. QED
    BY <1>1, <1>4, <2>1, Exchange
<1>6. \A r \in Ranks : recovery'[r] = IF r = g THEN "get_protectee" ELSE recovery[r]
  BY <1>0, <1>4 DEF RingType
<1>7. Healing(d)'
  <2>1. Closed(d)' /\ Adopted(d)'
    BY <1>2, <1>4 DEF Closed, Adopted
  <2>2. Repairs' = {[op |-> "get_protectee", from |-> RightOf(d), to |-> LeftOf(d)]}
    BY <1>3, <1>5 DEF g, q
  <2>3. recovery'[RightOf(d)] = "get_protectee" /\ \A r \in Ranks : r # RightOf(d) => recovery'[r] = "none"
    BY <1>1, <1>6 DEF Healing, g, Others
  <2>4. QED
    BY <1>1, <1>4, <2>1, <2>2, <2>3 DEF Healing
<1>8. CrashInv'
  BY <1>1, <1>4, <1>5, <1>7 DEF CrashInv
<1>9. HeartbeatInv'
  <2>1. \A s \in alive : Looping(s)' => Looping(s)
    BY <1>1, <1>4, <1>6 DEF Looping, Others
  <2>2. QED
    BY <1>0, <1>4, <1>5, <2>1, HeartbeatFrame
<1>10. StopInv'
  BY <1>0, <1>1, <1>4, <1>5, StopFrame
<1>11. CountInStep'
  BY <1>0, <1>4, CountFrame
<1>12. QED
  BY <1>8, <1>9, <1>10, <1>11

LEMMA GetProtecteeRecovery ==
  ASSUME OneCrash, RecoveryInv, NEW m \in msgs, get_protectee(m)
  PROVE  (CrashInv /\ HeartbeatInv /\ StopInv /\ CountInStep)'
<1>0. CrashInv /\ HeartbeatInv /\ StopInv /\ CountInStep /\ RingType /\ m.op = "get_protectee"
  BY TypeParts DEF RecoveryInv, get_protectee
<1>1. PICK d \in Mortal : /\ alive = Others(d) /\ Healing(d) /\ Repairs = {m} /\ stop = "no"
                         /\ d \in Ranks /\ RightOf(d) \in Others(d) /\ LeftOf(d) \in Others(d)
                         /\ LeftOf(d) # RightOf(d)
  BY <1>0, CallOfHealing
<1> DEFINE g == RightOf(d)
           q == LeftOf(d)
<1>2. m.from = g /\ m.to = q /\ Closed(d) /\ recovery[g] = "get_protectee"
  <2>1. \A k : Repairs = {k} => k = m
    BY <1>1
  <2>2. QED
    BY <1>0, <1>1, <2>1 DEF Healing
<1>3. PICK k \in Ranks : k = protectee[q]
  BY <1>0, <1>1 DEF RingType, Others
<1>4. PICK new : new = [op |-> "protectee", from |-> q, to |-> g, rank |-> k]
  OBVIOUS
<1> HIDE DEF g, q
<1>5. /\ alive' = alive /\ guard' = guard /\ protectee' = protectee /\ pp' = pp /\ age' = age
      /\ beaten' = beaten /\ running' = running /\ count' = count /\ keep' = keep
      /\ recovery' = recovery /\ dead' = dead /\ stop' = stop
      /\ announcing' = announcing /\ Reply(m, new)
  BY <1>2, <1>3, <1>4 DEF get_protectee, view, ring
<1>6. /\ Repairs' = {new} /\ Stops' = Stops /\ \A j \in msgs' : j.to \in alive
      /\ \A j \in msgs : j.op = "heartbeat" => j \in msgs'
  <2>1. new.op = "protectee" /\ new.to \in alive
    BY <1>1, <1>4 DEF g
  <2>2. QED
    BY <1>1, <1>5, <2>1, Exchange
<1>7. Healing(d)'
  <2>1. Closed(d)' /\ Adopted(d)'
    BY <1>2, <1>5 DEF Closed, Adopted
  <2>2. Repairs' = {[op |-> "protectee", from |-> LeftOf(d), to |-> RightOf(d), rank |-> k]}
    BY <1>4, <1>6 DEF g, q
  <2>3. recovery'[RightOf(d)] = "get_protectee"
    BY <1>2, <1>5 DEF g
  <2>4. QED
    BY <1>1, <1>5, <2>1, <2>2, <2>3 DEF Healing
<1>8. CrashInv'
  BY <1>1, <1>5, <1>6, <1>7 DEF CrashInv
<1>9. HeartbeatInv'
  <2>1. \A s \in alive : Looping(s)' => Looping(s)
    BY <1>5 DEF Looping
  <2>2. QED
    BY <1>0, <1>5, <1>6, <2>1, HeartbeatFrame
<1>10. StopInv'
  BY <1>0, <1>1, <1>5, <1>6, StopFrame
<1>11. CountInStep'
  BY <1>0, <1>5, CountFrame
<1>12. QED
  BY <1>8, <1>9, <1>10, <1>11

\* The ring is closed, and the guard announces the death, first to itself.
LEMMA RecoveredRecovery ==
  ASSUME OneCrash, RecoveryInv, NEW m \in msgs, recovered(m)
  PROVE  (CrashInv /\ HeartbeatInv /\ StopInv /\ CountInStep)'
<1>0. /\ CrashInv /\ HeartbeatInv /\ StopInv /\ CountInStep /\ RingType /\ m.op = "protectee" /\ N >= 3
  BY TypeParts DEF RecoveryInv, recovered, OneCrash
<1>1. PICK d \in Mortal : /\ alive = Others(d) /\ Healing(d) /\ Repairs = {m} /\ stop = "no"
                         /\ d \in Ranks /\ RightOf(d) \in Others(d) /\ LeftOf(d) \in Others(d)
                         /\ LeftOf(d) # RightOf(d)
  BY <1>0, CallOfHealing
<1> DEFINE g == RightOf(d)
<1>2. m.to = g /\ Closed(d) /\ dead[g] = d /\ g \in beaten
  <2>1. \A k : Repairs = {k} => k = m
    BY <1>1
  <2>2. QED
    BY <1>0, <1>1, <2>1 DEF Healing
<1>3. PICK a : a = Announcement(g, d, 0)
  OBVIOUS
<1> HIDE DEF g
<1>4. /\ alive' = alive /\ guard' = guard /\ protectee' = protectee /\ age' = age
      /\ beaten' = beaten /\ running' = running /\ count' = count /\ keep' = keep
      /\ recovery' = [recovery EXCEPT ![g] = "none"] /\ dead' = dead /\ stop' = stop
      /\ announcing' = {a} /\ msgs' = msgs \ {m}
  BY <1>1, <1>2, <1>3 DEF recovered, view, Healing
<1>5. /\ Repairs' = {} /\ Stops' = Stops /\ \A j \in msgs' : j.to \in alive
      /\ \A j \in msgs : j.op = "heartbeat" => j \in msgs'
  BY <1>0, <1>1, <1>4 DEF Repairs, Stops, CrashInv
<1>6. \A r \in Ranks : recovery'[r] = "none"
  BY <1>0, <1>1, <1>4 DEF RingType, Healing, g
<1>7. Announcing(d, g)'
  <2>1. Closed(d)'
    BY <1>2, <1>4 DEF Closed, Adopted
  <2>2. \A r \in Others(d) : ~(Beyond(d, r) < Beyond(d, g)) /\ running'[r] = Ranks
    <3>1. Beyond(d, g) = 0 /\ \A r \in Others(d) : Beyond(d, r) \in 0 .. N - 2
      BY <1>0, <1>1, BeyondFacts DEF g
    <3>2. QED
      BY <1>1, <1>4, <3>1, NFacts DEF Healing, Others
  <2>3. a.rank = g /\ a.dead = d /\ a.token = Beyond(d, g) /\ a.stage # "reschedule"
    BY <1>0, <1>1, <1>3, BeyondFacts DEF Announcement, g
  <2>4. g \in Others(d)
    BY <1>1 DEF g
  <2>5. QED
    BY <1>4, <1>5, <1>6, <2>1, <2>2, <2>3, <2>4 DEF Announcing, Known, Handled, Travelling
<1>8. CrashInv'
  BY <1>1, <1>4, <1>5, <1>7 DEF CrashInv, g
<1>9. HeartbeatInv'
  <2>1. LeftOf(g) \notin alive
    BY <1>0, <1>1, Round DEF Others, g
  <2>2. \A s \in alive : Looping(s)' /\ s # g => Looping(s)
    BY <1>0, <1>1, <1>4 DEF Looping, Others, RingType
  <2>3. QED
    BY <1>0, <1>2, <1>4, <1>5, <2>1, <2>2 DEF HeartbeatInv
<1>10. StopInv'
  BY <1>0, <1>1, <1>4, <1>5, StopFrame
<1>11. CountInStep'
  BY <1>0, <1>4, CountFrame
<1>12. QED
  BY <1>8, <1>9, <1>10, <1>11

-----------------------------------------------------------------------------
(* The announcement on its way around the ring.                            *)

LEMMA AnnounceRecovery ==
  ASSUME OneCrash, RecoveryInv, NEW m \in msgs, announce(m)
  PROVE  (CrashInv /\ HeartbeatInv /\ StopInv /\ CountInStep)'
<1>0. CrashInv /\ HeartbeatInv /\ StopInv /\ CountInStep /\ m.op = "announce" /\ m \in Repairs
  BY DEF RecoveryInv, announce, Repairs
<1>1. PICK d \in Mortal : alive = Others(d) /\ \E x \in Others(d) : Announcing(d, x)
  BY <1>0 DEF CrashInv, Whole, Over, Healing
<1>2. PICK x \in Others(d) : Announcing(d, x)
  BY <1>1
<1>3. /\ Repairs = {m} /\ announcing = {} /\ running[x] = Ranks
      /\ m.to = x /\ m.dead = d /\ m.token = Beyond(d, x)
  BY <1>0, <1>2 DEF Announcing, Known, Handled, Travelling
<1>4. PICK a : a = Announcement(x, d, Beyond(d, x))
  OBVIOUS
<1>5. /\ alive' = alive /\ guard' = guard /\ protectee' = protectee /\ age' = age
      /\ beaten' = beaten /\ running' = running /\ count' = count /\ keep' = keep
      /\ recovery' = recovery /\ dead' = dead /\ stop' = stop
      /\ announcing' = {a} /\ msgs' = msgs \ {m}
  BY <1>3, <1>4 DEF announce, view, ring
<1>6. /\ Repairs' = {} /\ Stops' = Stops /\ \A j \in msgs' : j.to \in alive
      /\ \A j \in msgs : j.op = "heartbeat" => j \in msgs'
  BY <1>0, <1>3, <1>5 DEF Repairs, Stops, CrashInv
<1>7. Announcing(d, x)'
  <2>1. a.rank = x /\ a.dead = d /\ a.token = Beyond(d, x) /\ a.stage # "reschedule"
    BY <1>4 DEF Announcement
  <2>2. Closed(d)'
    BY <1>2, <1>5 DEF Announcing, Known, Handled, Travelling, Closed, Adopted
  <2>3. QED
    BY <1>2, <1>3, <1>5, <1>6, <2>1, <2>2 DEF Announcing, Known, Handled, Travelling
<1>8. CrashInv'
  BY <1>1, <1>5, <1>6, <1>7 DEF CrashInv
<1>9. HeartbeatInv'
  BY <1>0, <1>5, <1>6, HeartbeatFrame DEF Looping
<1>10. stop = "no"
  BY <1>0 DEF StopInv, Whole, Over
<1>11. StopInv'
  BY <1>0, <1>5, <1>6, <1>10, StopFrame
<1>12. CountInStep'
  BY <1>0, <1>5, CountFrame
<1>13. QED
  BY <1>8, <1>9, <1>11, <1>12

\* Where an announcement is handled there is no other one.
LEMMA TheAnnouncement ==
  ASSUME OneCrash, RecoveryInv, NEW a \in announcing
  PROVE  \E d \in Mortal : /\ alive = Others(d) /\ d \in Ranks /\ stop = "no" /\ Repairs = {}
                          /\ announcing = {a} /\ a.rank \in Others(d) /\ Announcing(d, a.rank)
                          /\ a.dead = d /\ a.token = Beyond(d, a.rank)
                          /\ running[a.rank] = IF a.stage = "reschedule" THEN Others(d) ELSE Ranks
<1>0. CrashInv /\ StopInv
  BY DEF RecoveryInv
<1>1. PICK d \in Mortal : alive = Others(d) /\ \E x \in Others(d) : Announcing(d, x)
  BY <1>0 DEF CrashInv, Whole, Over, Healing
<1>2. PICK x \in Others(d) : Announcing(d, x)
  BY <1>1
<1>3. Repairs = {} /\ \E b \in announcing :
             /\ announcing = {b}
             /\ b.rank = x /\ b.dead = d /\ b.token = Beyond(d, x)
             /\ running[x] = IF b.stage = "reschedule" THEN Others(d) ELSE Ranks
  BY <1>2 DEF Announcing, Known, Handled, Travelling
<1>4. /\ announcing = {a} /\ a.rank = x /\ a.dead = d /\ a.token = Beyond(d, x)
      /\ running[x] = IF a.stage = "reschedule" THEN Others(d) ELSE Ranks
  BY <1>3
<1>5. stop = "no"
  BY <1>0, <1>4 DEF StopInv, Whole, Over
<1>6. d \in Ranks
  BY ResilienceAssumption DEF Ranks
<1>7. QED
  BY <1>1, <1>2, <1>3, <1>4, <1>5, <1>6

LEMMA ExtractRecovery ==
  ASSUME OneCrash, RecoveryInv, NEW a \in announcing, reschedule_extract(a)
  PROVE  (CrashInv /\ HeartbeatInv /\ StopInv /\ CountInStep)'
<1>0. CrashInv /\ HeartbeatInv /\ StopInv /\ CountInStep /\ AnnouncingType
  BY TypeParts DEF RecoveryInv
<1>1. PICK d \in Mortal : /\ alive = Others(d) /\ d \in Ranks /\ stop = "no" /\ Repairs = {}
                         /\ announcing = {a} /\ a.rank \in Others(d) /\ Announcing(d, a.rank)
                         /\ a.dead = d /\ a.token = Beyond(d, a.rank)
                         /\ running[a.rank] = IF a.stage = "reschedule" THEN Others(d) ELSE Ranks
  BY TheAnnouncement
<1> DEFINE x == a.rank
<1>2. PICK b : b = [a EXCEPT !.stage = "mark", !.items = {p[2] : p \in To(a.dead, delegated[a.rank])}]
  OBVIOUS
<1>3. b.rank = x /\ b.dead = d /\ b.token = Beyond(d, x) /\ b.stage = "mark" /\ a.stage = "extract"
  BY <1>0, <1>1, <1>2 DEF AnnouncingType, reschedule_extract
<1>4. /\ alive' = alive /\ guard' = guard /\ protectee' = protectee /\ age' = age
      /\ beaten' = beaten /\ running' = running /\ count' = count /\ keep' = keep
      /\ recovery' = recovery /\ dead' = dead /\ stop' = stop
      /\ announcing' = {b} /\ msgs' = msgs
  BY <1>1, <1>2 DEF reschedule_extract, view, ring
<1>5. Repairs' = {} /\ Stops' = Stops
  BY <1>1, <1>4 DEF Repairs, Stops
<1>6. Announcing(d, x)'
  <2>1. Closed(d)'
    BY <1>1, <1>4 DEF Announcing, Known, Handled, Travelling, Closed, Adopted
  <2>2. running'[x] = Ranks
    BY <1>1, <1>3, <1>4
  <2> HIDE DEF x
  <2>3. QED
    BY <1>1, <1>3, <1>4, <1>5, <2>1, <2>2 DEF Announcing, Known, Handled, Travelling, x
<1>7. CrashInv'
  BY <1>0, <1>1, <1>4, <1>6 DEF CrashInv
<1>8. HeartbeatInv'
  BY <1>0, <1>4, HeartbeatFrame DEF Looping
<1>9. StopInv'
  BY <1>0, <1>1, <1>4, <1>5, StopFrame
<1>10. CountInStep'
  BY <1>0, <1>4, CountFrame
<1>11. QED
  BY <1>7, <1>8, <1>9, <1>10

\* The locality counts the dead one out: once, as it has not done so yet.
LEMMA MarkRecovery ==
  ASSUME OneCrash, RecoveryInv, NEW a \in announcing, reschedule_mark(a)
  PROVE  (CrashInv /\ HeartbeatInv /\ StopInv /\ CountInStep)'
<1>0. /\ CrashInv /\ HeartbeatInv /\ StopInv /\ CountInStep /\ AnnouncingType /\ ViewType
      /\ N >= 3 /\ N \in Nat /\ Wrap \in Nat /\ N < Wrap
  BY TypeParts, NFacts DEF RecoveryInv, OneCrash
<1>1. PICK d \in Mortal : /\ alive = Others(d) /\ d \in Ranks /\ stop = "no" /\ Repairs = {}
                         /\ announcing = {a} /\ a.rank \in Others(d) /\ Announcing(d, a.rank)
                         /\ a.dead = d /\ a.token = Beyond(d, a.rank)
                         /\ running[a.rank] = IF a.stage = "reschedule" THEN Others(d) ELSE Ranks
  BY TheAnnouncement
<1>2. PICK x \in Others(d) : x = a.rank /\ x \in Ranks /\ x \in alive
  BY <1>1 DEF Others
<1>3. PICK b : b = [a EXCEPT !.stage = "reschedule"]
  OBVIOUS
<1>4. b.rank = x /\ b.dead = d /\ b.token = Beyond(d, x) /\ b.stage = "reschedule" /\ a.stage = "mark"
  BY <1>0, <1>1, <1>2, <1>3 DEF AnnouncingType, reschedule_mark
<1>5. /\ alive' = alive /\ guard' = guard /\ protectee' = protectee /\ age' = age
      /\ beaten' = beaten /\ recovery' = recovery /\ dead' = dead /\ stop' = stop
      /\ running' = [running EXCEPT ![x] = @ \ {d}]
      /\ count' = [count EXCEPT ![x] = (@ - 1) % Wrap]
      /\ keep' = [keep EXCEPT ![x] = @ /\ count'[x] >= 2]
      /\ announcing' = {b} /\ msgs' = msgs
  BY <1>1, <1>2, <1>3 DEF reschedule_mark, ring
<1>6. Repairs' = {} /\ Stops' = Stops
  BY <1>1, <1>5 DEF Repairs, Stops
<1>7. running[x] = Ranks /\ running'[x] = Others(d) /\ \A r \in Ranks : r # x => running'[r] = running[r]
  BY <1>0, <1>1, <1>2, <1>4, <1>5 DEF ViewType, Others
<1>8. count'[x] = N - 1 /\ \A r \in Ranks : r # x => count'[r] = count[r]
  <2>1. count[x] = N
    BY <1>0, <1>2, <1>7, RanksFinite DEF CountInStep
  <2>2. (N - 1) % Wrap = N - 1
    BY <1>0
  <2>3. QED
    BY <1>0, <1>2, <1>5, <2>1, <2>2 DEF ViewType
<1>9. \A r \in alive : keep[r] /\ keep'[r]
  BY <1>0, <1>1, <1>2, <1>5, <1>8 DEF StopInv, ViewType, Others
<1>10. Announcing(d, x)'
  <2>1. Closed(d)'
    BY <1>1, <1>5 DEF Announcing, Known, Handled, Travelling, Closed, Adopted
  <2>2. \A r \in Others(d) : /\ Beyond(d, r) < Beyond(d, x) => running'[r] = Others(d)
                             /\ Beyond(d, r) > Beyond(d, x) => running'[r] = Ranks
    <3>1. \A r \in Others(d) : Beyond(d, r) \in 0 .. N - 2 /\ r \in Ranks
      BY <1>0, <1>1, BeyondFacts DEF Others
    <3>2. \A r \in Others(d) : /\ Beyond(d, r) < Beyond(d, x) => running[r] = Others(d)
                               /\ Beyond(d, r) > Beyond(d, x) => running[r] = Ranks
      BY <1>1, <1>2 DEF Announcing, Known, Handled, Travelling
    <3>3. \A r \in Others(d) : Beyond(d, r) # Beyond(d, x) => running'[r] = running[r]
      BY <1>7, <3>1
    <3>4. \A r \in Others(d) : Beyond(d, r) < Beyond(d, x) \/ Beyond(d, r) > Beyond(d, x) =>
             Beyond(d, r) # Beyond(d, x)
      BY <1>0, <3>1
    <3>5. QED
      BY <3>2, <3>3, <3>4
  <2>3. \A r \in Ranks : recovery'[r] = "none"
    BY <1>1, <1>5 DEF Announcing, Known, Handled, Travelling
  <2>4. \E c \in announcing' :
          /\ announcing' = {c}
          /\ c.rank = x /\ c.dead = d /\ c.token = Beyond(d, x)
          /\ running'[x] = IF c.stage = "reschedule" THEN Others(d) ELSE Ranks
    BY <1>4, <1>5, <1>7
  <2>5. Known(d, x)'
    BY <2>2 DEF Known
  <2>6. Handled(d, x)'
    BY <1>6, <2>4 DEF Handled
  <2>7. QED
    BY <2>1, <2>3, <2>5, <2>6 DEF Announcing
<1>11. CrashInv'
  BY <1>0, <1>1, <1>2, <1>5, <1>10 DEF CrashInv
<1>12. HeartbeatInv'
  <2>1. \A s \in alive : Looping(s)' => Looping(s)
    BY <1>5, <1>9 DEF Looping
  <2>2. QED
    BY <1>0, <1>5, <2>1, HeartbeatFrame
<1>13. StopInv'
  BY <1>0, <1>1, <1>5, <1>6, <1>9 DEF StopInv
<1>14. CountInStep'
  <2>1. Cardinality(Others(d)) = N - 1
    BY <1>1, OthersCount
  <2>2. QED
    BY <1>0, <1>1, <1>5, <1>7, <1>8, <2>1 DEF CountInStep, Others
<1>15. QED
  BY <1>11, <1>12, <1>13, <1>14

\* It goes on to the guard until it has been everywhere.
LEMMA ForwardRecovery ==
  ASSUME OneCrash, RecoveryInv, NEW a \in announcing, reschedule_forward(a)
  PROVE  (CrashInv /\ HeartbeatInv /\ StopInv /\ CountInStep)'
<1>0. /\ CrashInv /\ HeartbeatInv /\ StopInv /\ CountInStep /\ N >= 3 /\ N \in Nat
  BY NFacts DEF RecoveryInv, OneCrash
<1>1. PICK d \in Mortal : /\ alive = Others(d) /\ d \in Ranks /\ stop = "no" /\ Repairs = {}
                         /\ announcing = {a} /\ a.rank \in Others(d) /\ Announcing(d, a.rank)
                         /\ a.dead = d /\ a.token = Beyond(d, a.rank)
                         /\ running[a.rank] = IF a.stage = "reschedule" THEN Others(d) ELSE Ranks
  BY TheAnnouncement
<1>2. PICK x \in Others(d) : x = a.rank
  BY <1>1
<1>3. running[x] = Others(d) /\ Cardinality(running[x]) = N - 1
  BY <1>1, <1>2, OthersCount DEF reschedule_forward
<1>4. /\ alive' = alive /\ guard' = guard /\ protectee' = protectee /\ age' = age
      /\ beaten' = beaten /\ recovery' = recovery /\ dead' = dead /\ stop' = stop
      /\ running' = running /\ count' = count /\ keep' = keep /\ announcing' = {}
  BY <1>1 DEF reschedule_forward, ring, view
<1>5. /\ \A r \in Others(d) : Beyond(d, r) \in 0 .. N - 2
      /\ Beyond(d, LeftOf(d)) = N - 2
      /\ \A r \in Others(d), y \in Others(d) : Beyond(d, r) = Beyond(d, y) => r = y
      /\ x # LeftOf(d) => RightOf(x) \in Others(d) /\ Beyond(d, RightOf(x)) = Beyond(d, x) + 1
      /\ LeftOf(d) \in Others(d)
  BY <1>0, <1>1, BeyondFacts, Round DEF Others
<1>6. Closed(d)'
  BY <1>1, <1>4 DEF Announcing, Known, Handled, Travelling, Closed, Adopted
<1>7. \A r \in Others(d) : Beyond(d, r) < Beyond(d, x) => running[r] = Others(d)
  BY <1>1, <1>2 DEF Announcing, Known, Handled, Travelling
<1>8. \A r \in Others(d) : Beyond(d, r) > Beyond(d, x) => running[r] = Ranks
  BY <1>1, <1>2 DEF Announcing, Known, Handled, Travelling
<1>9. \A r \in Others(d) : r = x \/ Beyond(d, r) < Beyond(d, x) \/ Beyond(d, r) > Beyond(d, x)
  BY <1>0, <1>5
<1>10. HeartbeatInv' /\ CountInStep'
  <2>1. \A m \in msgs : m \in msgs'
    BY DEF reschedule_forward, Send
  <2>2. QED
    BY <1>0, <1>4, <2>1, HeartbeatFrame, CountFrame DEF Looping
<1>11. CASE x = LeftOf(d)
  <2>1. ~(Cardinality(running[x]) > a.token + 1)
    BY <1>0, <1>1, <1>2, <1>3, <1>5, <1>11
  <2>2. msgs' = msgs
    BY <1>2, <2>1 DEF reschedule_forward, Send, Deliverable
  <2>3. Repairs' = {} /\ Stops' = Stops
    BY <1>1, <2>2 DEF Repairs, Stops
  <2>4. \A r \in Others(d) : running[r] = Others(d)
    BY <1>0, <1>3, <1>5, <1>7, <1>9, <1>11
  <2>5. Over(d)'
    BY <1>1, <1>4, <1>6, <2>3, <2>4 DEF Over, Announcing, Known, Handled, Travelling
  <2>6. CrashInv'
    BY <1>0, <1>1, <1>4, <2>2, <2>5 DEF CrashInv
  <2>7. StopInv'
    BY <1>0, <1>1, <1>4, <2>3, StopFrame
  <2>8. QED
    BY <1>10, <2>6, <2>7
<1>12. CASE x # LeftOf(d)
  <2>1. PICK y \in Others(d) : y = RightOf(x) /\ Beyond(d, y) = Beyond(d, x) + 1 /\ guard[x] = y
    BY <1>1, <1>2, <1>5, <1>12 DEF Announcing, Known, Handled, Travelling, Closed
  <2>2. PICK new : new = [op |-> "announce", from |-> x, to |-> y, dead |-> d, token |-> Beyond(d, y)]
    OBVIOUS
  <2>3. Cardinality(running[x]) > a.token + 1
    BY <1>0, <1>1, <1>2, <1>3, <1>5, <2>1
  <2>4. msgs' = msgs \cup {new}
    BY <1>1, <1>2, <2>1, <2>2, <2>3 DEF reschedule_forward, Send, Deliverable
  <2>5. Repairs' = {new} /\ Stops' = Stops /\ \A m \in msgs' : m.to \in alive
    BY <1>0, <1>1, <2>2, <2>4 DEF Repairs, Stops, CrashInv
  <2>6. \A r \in Others(d) : /\ Beyond(d, r) < Beyond(d, y) => running[r] = Others(d)
                             /\ Beyond(d, r) > Beyond(d, y) => running[r] = Ranks
    BY <1>0, <1>3, <1>5, <1>7, <1>8, <1>9, <2>1
  <2>7. running[y] = Ranks
    BY <1>0, <1>5, <1>8, <2>1
  <2>8. \A r \in Ranks : recovery[r] = "none"
    BY <1>1 DEF Announcing, Known, Handled, Travelling
  <2>9. Announcing(d, y)'
    <3>1. new \in Repairs' /\ new.op = "announce" /\ new.to = y /\ new.dead = d /\ new.token = Beyond(d, y)
      BY <2>2, <2>5
    <3>2. \E m \in Repairs' :
            /\ Repairs' = {m}
            /\ m.op = "announce" /\ m.to = y /\ m.dead = d /\ m.token = Beyond(d, y)
      BY <2>5, <3>1
    <3>3. \A r \in Others(d) : /\ Beyond(d, r) < Beyond(d, y) => running'[r] = Others(d)
                               /\ Beyond(d, r) > Beyond(d, y) => running'[r] = Ranks
      BY <1>4, <2>6
    <3>4. announcing' = {} /\ running'[y] = Ranks /\ \A r \in Ranks : recovery'[r] = "none"
      BY <1>4, <2>7, <2>8
    <3>5. Known(d, y)'
      BY <3>3 DEF Known
    <3>6. Travelling(d, y)'
      BY <3>2, <3>4 DEF Travelling
    <3>7. QED
      BY <1>6, <3>4, <3>5, <3>6 DEF Announcing
  <2>10. CrashInv'
    BY <1>1, <1>4, <2>5, <2>9 DEF CrashInv
  <2>11. StopInv'
    BY <1>0, <1>1, <1>4, <2>5, StopFrame
  <2>12. QED
    BY <1>10, <2>10, <2>11
<1>13. QED
  BY <1>11, <1>12
-----------------------------------------------------------------------------
(* The work items.                                                         *)

LEMMA WorkStepRecovery ==
  ASSUME OneCrash, RecoveryInv,
         \/ \E r \in Ranks, w \in Items, d \in Ranks : schedule_down(r, w, d)
         \/ \E r \in Ranks, w \in Items : process(r, w)
         \/ \E x \in dispatching : work_item_dispatched(x)
         \/ \E x \in waiting : on_completed(x)
         \/ \E m \in msgs : schedule_down_global(m)
  PROVE  (CrashInv /\ HeartbeatInv /\ StopInv /\ CountInStep)'
<1>0. CrashInv /\ HeartbeatInv /\ StopInv /\ CountInStep
  BY DEF RecoveryInv
<1>1. /\ alive' = alive /\ guard' = guard /\ protectee' = protectee /\ pp' = pp /\ age' = age
      /\ beaten' = beaten /\ running' = running /\ count' = count /\ keep' = keep
      /\ recovery' = recovery /\ dead' = dead /\ stop' = stop /\ announcing' = announcing
  BY DEF schedule_down, process, work_item_dispatched, on_completed, schedule_down_global, ring, view
<1>2. /\ \A m \in msgs' : m \in msgs \/ (m.op = "item" /\ m.to \in alive)
      /\ \A m \in msgs : m \in msgs' \/ m.op = "item"
  <2>1. CASE \E x \in dispatching : work_item_dispatched(x)
    BY <2>1 DEF work_item_dispatched, Send, Deliverable
  <2>2. CASE \E m \in msgs : schedule_down_global(m)
    BY <2>2 DEF schedule_down_global
  <2>3. CASE msgs' = msgs
    BY <2>3
  <2>4. QED
    BY <2>1, <2>2, <2>3 DEF schedule_down, process, on_completed
<1>3. Repairs' = Repairs /\ Stops' = Stops
  <2>1. Repairs' = {m \in msgs' : m.op \in {"set_guard", "guard_set", "get_protectee", "protectee", "announce"}}
        /\ Stops' = {m \in msgs' : m.op \in {"shutdown", "shutdown_done"}}
    BY DEF Repairs, Stops
  <2>2. \A m : m.op = "item" => m.op \notin {"set_guard", "guard_set", "get_protectee", "protectee", "announce"}
                               /\ m.op \notin {"shutdown", "shutdown_done"} /\ m.op # "heartbeat"
    OBVIOUS
  <2>3. QED
    BY <1>2, <2>1, <2>2 DEF Repairs, Stops
<1>4. CrashInv'
  <2>1. \A m \in msgs' : m.to \in alive
    BY <1>0, <1>2 DEF CrashInv
  <2>2. QED
    BY <1>0, <1>1, <1>3, <2>1, CrashFrame
<1>5. HeartbeatInv'
  <2>1. \A m \in msgs : m.op = "heartbeat" => m \in msgs'
    BY <1>2
  <2>2. QED
    BY <1>0, <1>1, <2>1, HeartbeatFrame DEF Looping
<1>6. StopInv'
  <2>1. stop # "no" => Calm'
    BY <1>0, <1>1, <1>3, CalmFrame DEF StopInv, Calm
  <2>2. QED
    BY <1>0, <1>1, <1>3, <2>1, StopFrame
<1>7. CountInStep'
  BY <1>0, <1>1, CountFrame
<1>8. QED
  BY <1>4, <1>5, <1>6, <1>7

-----------------------------------------------------------------------------
(* The end of the program.                                                 *)

\* The ring of the live localities, when nothing is going on.
LEMMA CalmRing ==
  ASSUME OneCrash, TypeOK, Calm, NEW r \in alive
  PROVE  /\ \A s \in alive : running[s] = alive
         /\ Place(r) \in 0 .. Cardinality(alive) - 1
         /\ \A s \in alive : Place(s) = Place(r) => s = r
         /\ guard[r] \in alive
         /\ Place(r) < Cardinality(alive) - 1 => Place(guard[r]) = Place(r) + 1
         /\ Cardinality(alive) \in {N - 1, N}
<1>0. N >= 3 /\ N \in Nat /\ \A s \in Ranks : s \in Nat /\ s < N
  BY NFacts, RankFacts DEF OneCrash
<1>1. CASE alive = Ranks /\ Whole
  <2>1. \A s \in Ranks : Place(s) = s
    BY <1>1, PlaceFacts
  <2>2. guard[r] = RightOf(r) /\ RightOf(r) \in Ranks
    BY <1>0, <1>1, Round DEF Whole
  <2>3. r < N - 1 => RightOf(r) = r + 1
    BY <1>0, <1>1 DEF RightOf
  <2>4. Cardinality(alive) = N
    BY <1>1, RanksFinite
  <2>5. QED
    BY <1>0, <1>1, <2>1, <2>2, <2>3, <2>4 DEF Whole
<1>2. ASSUME NEW d \in Mortal, alive = Others(d), Over(d)
      PROVE  /\ \A s \in alive : running[s] = alive
             /\ Place(r) \in 0 .. Cardinality(alive) - 1
             /\ \A s \in alive : Place(s) = Place(r) => s = r
             /\ guard[r] \in alive
             /\ Place(r) < Cardinality(alive) - 1 => Place(guard[r]) = Place(r) + 1
             /\ Cardinality(alive) \in {N - 1, N}
  <2>1. d \in Ranks /\ d \in 1 .. N - 1
    BY ResilienceAssumption DEF Ranks
  <2>2. Cardinality(alive) = N - 1
    BY <1>2, <2>1, OthersCount
  <2>3. \A s \in Ranks : Place(s) = IF d < s THEN s - 1 ELSE s
    BY <1>2, <2>1, PlaceFacts
  <2>4. r \in Ranks /\ r # d
    BY <1>2 DEF Others
  <2>5. guard[r] = IF r = LeftOf(d) THEN RightOf(d) ELSE RightOf(r)
    BY <1>2 DEF Over, Closed
  <2>6. RightOf(d) \in Others(d) /\ LeftOf(d) \in Others(d) /\ (r # LeftOf(d) => RightOf(r) \in Others(d))
    BY <1>0, <1>2, <2>1, BeyondFacts, Round DEF Others
  <2>7. guard[r] \in alive /\ guard[r] \in Ranks
    BY <1>2, <2>5, <2>6 DEF Others
  <2>8. Place(r) \in 0 .. N - 2
    BY <1>0, <2>1, <2>3, <2>4
  <2>9. \A s \in alive : Place(s) = Place(r) => s = r
    BY <1>0, <1>2, <2>1, <2>3, <2>4 DEF Others
  <2>10. ASSUME Place(r) < N - 2 PROVE Place(guard[r]) = Place(r) + 1
    <3>1. /\ Place(r) = IF d < r THEN r - 1 ELSE r
          /\ Place(guard[r]) = IF d < guard[r] THEN guard[r] - 1 ELSE guard[r]
      BY <2>3, <2>4, <2>7
    <3>2. r \in Nat /\ r < N /\ d \in Nat /\ d < N /\ d > 0
      BY <1>0, <2>1, <2>4
    <3>3. CASE r = LeftOf(d)
      <4>1. r = d - 1
        BY <3>2, <3>3 DEF LeftOf
      <4>2. guard[r] = IF d = N - 1 THEN 0 ELSE d + 1
        BY <2>5, <3>3 DEF RightOf
      <4>3. QED
        BY <1>0, <2>10, <3>1, <3>2, <4>1, <4>2
    <3>4. CASE r # LeftOf(d)
      <4>1. r # d - 1
        BY <3>2, <3>4 DEF LeftOf
      <4>2. guard[r] = IF r = N - 1 THEN 0 ELSE r + 1
        BY <2>5, <3>4 DEF RightOf
      <4>3. QED
        BY <1>0, <2>4, <2>10, <3>1, <3>2, <4>1, <4>2
    <3>5. QED
      BY <3>3, <3>4
  <2>11. QED
    BY <1>0, <1>2, <2>2, <2>7, <2>8, <2>9, <2>10 DEF Over
<1>3. QED
  BY <1>1, <1>2 DEF Calm

\* The answer finds its way back through the callers, all of which live.
LEMMA ReturnStep ==
  ASSUME NEW callers \in Seq(alive), NEW rest, Return(callers, rest), alive' = alive,
         \A m \in rest : m \in msgs /\ m \notin Stops, \A r \in alive : ~keep'[r], Calm'
  PROVE  /\ StopInv'
         /\ \A m \in rest : m \in msgs'
         /\ \A m \in msgs' : m \in rest \/ (m.op = "shutdown_done" /\ m.to \in alive)
<1>1. CASE callers = <<>>
  <2>1. stop' = "returned" /\ msgs' = rest
    BY <1>1 DEF Return
  <2>2. Stops' = {}
    BY <2>1 DEF Stops
  <2>3. QED
    BY <2>1, <2>2 DEF StopInv, Calm
<1>2. CASE callers # <<>>
  <2>1. Last(callers) \in alive /\ Front(callers) \in Seq(alive)
    BY <1>2, LastAndFront
  <2>2. PICK new : new = [op |-> "shutdown_done", to |-> Last(callers), callers |-> Front(callers)]
    OBVIOUS
  <2>3. stop' = "called" /\ msgs' = rest \cup {new}
    BY <1>2, <2>1, <2>2 DEF Return, Deliverable
  <2>4. new.op = "shutdown_done" /\ new.to \in alive /\ new.callers \in Seq(alive)
    BY <2>1, <2>2
  <2>5. Stops' = {new}
    BY <2>3, <2>4 DEF Stops
  <2>6. StopInv'
    BY <2>3, <2>4, <2>5 DEF StopInv, Calm
  <2>7. QED
    BY <2>3, <2>4, <2>6
<1>3. QED
  BY <1>1, <1>2

\* Every locality that shutdown comes to stops its loop and passes it on, until
\* it has been everywhere.
LEMMA ShutdownStep ==
  ASSUME OneCrash, RecoveryInv, Calm, NEW r \in alive, NEW token \in Nat, token = Place(r) + 1,
         NEW callers \in Seq(alive), NEW rest, rest \subseteq msgs,
         \A m \in msgs : m \in rest <=> m \notin Stops,
         \A s \in alive : Place(s) < token - 1 => ~keep[s],
         shutdown(r, token, callers, rest)
  PROVE  (CrashInv /\ HeartbeatInv /\ StopInv /\ CountInStep)'
<1>0. /\ CrashInv /\ HeartbeatInv /\ StopInv /\ CountInStep /\ TypeOK /\ ViewType /\ RingType
      /\ N >= 3 /\ N \in Nat
  BY TypeParts, NFacts DEF RecoveryInv, OneCrash
<1> DEFINE n == Cardinality(alive)
<1>1. running[r] = alive /\ n \in {N - 1, N} /\ n \in Nat /\ n >= 2 /\ r \in Ranks
  BY <1>0, CalmRing DEF RingType
<1>2. \A s \in alive : Place(s) \in 0 .. n - 1 /\ (Place(s) = Place(r) => s = r)
  BY <1>0, CalmRing
<1>3. /\ guard[r] \in alive
      /\ Place(r) < n - 1 => Place(guard[r]) = Place(r) + 1
  BY <1>0, CalmRing
<1> HIDE DEF n
<1>4. /\ alive' = alive /\ guard' = guard /\ protectee' = protectee /\ pp' = pp /\ age' = age
      /\ beaten' = beaten /\ running' = running /\ count' = count
      /\ recovery' = recovery /\ dead' = dead /\ announcing' = announcing
      /\ keep' = [keep EXCEPT ![r] = @ /\ n < 2]
  BY <1>1 DEF shutdown, ring, n
<1>5. ~keep'[r] /\ \A s \in alive : ~keep[s] => ~keep'[s]
  <2>1. ~(n < 2)
    BY <1>1
  <2>2. keep' = [keep EXCEPT ![r] = FALSE]
    BY <1>4, <2>1
  <2>3. keep \in [Ranks -> BOOLEAN] /\ alive \subseteq Ranks
    BY <1>0 DEF ViewType, RingType
  <2>4. QED
    BY <1>1, <2>2, <2>3
<1>6. ASSUME NEW s \in alive, Place(s) < token PROVE ~keep'[s]
  <2>1. Place(s) \in Int /\ Place(r) \in Int /\ (Place(s) = Place(r) => s = r)
    BY <1>1, <1>2
  <2>2. CASE s = r
    BY <1>5, <2>2
  <2>3. CASE s # r
    <3>1. Place(s) < token - 1
      BY <1>6, <2>1, <2>3
    <3>2. QED
      BY <1>5, <3>1
  <2>4. QED
    BY <2>2, <2>3
<1>7. Place(r)' = Place(r) /\ \A s : Place(s)' = Place(s)
  BY <1>4 DEF Place
<1>8. \A m \in rest : m.op \notin {"shutdown", "shutdown_done"}
  BY DEF Stops
<1>9. \A m \in msgs : m \in rest \/ m.op \in {"shutdown", "shutdown_done"}
  BY DEF Stops
<1>10. ASSUME /\ \A m \in rest : m \in msgs'
              /\ \A m \in msgs' : m \in rest \/ (m.op \in {"shutdown", "shutdown_done"} /\ m.to \in alive)
       PROVE  (CrashInv /\ HeartbeatInv /\ CountInStep)' /\ Calm'
  <2>1. Repairs' = Repairs
    BY <1>8, <1>9, <1>10 DEF Repairs
  <2>2. \A m \in msgs' : m.to \in alive
    BY <1>0, <1>10 DEF CrashInv
  <2>3. \A m \in msgs : m.op = "heartbeat" => m \in msgs'
    BY <1>9, <1>10
  <2>4. CrashInv'
    BY <1>0, <1>4, <2>1, <2>2, CrashFrame
  <2>5. Calm'
    BY <1>4, <2>1, CalmFrame
  <2>6. CountInStep'
    BY <1>0, <1>4, CountFrame
  <2>7. HeartbeatInv'
    <3>1. \A s \in alive : Looping(s)' => Looping(s)
      BY <1>4, <1>5 DEF Looping
    <3>2. QED
      BY <1>0, <1>4, <2>3, <3>1, HeartbeatFrame
  <2>8. QED
    BY <2>4, <2>5, <2>6, <2>7
<1>11. CASE n > token
  <2>1. PICK new : new = [op |-> "shutdown", to |-> guard[r], token |-> token + 1, callers |-> Append(callers, r)]
    OBVIOUS
  <2>2. stop' = "called" /\ msgs' = rest \cup {new}
    BY <1>1, <1>3, <1>11, <2>1 DEF shutdown, Return, Deliverable, n
  <2>3. /\ new.op = "shutdown" /\ new.to \in alive /\ new.callers \in Seq(alive)
        /\ new.to = guard[r] /\ new.token = token + 1
    BY <1>3, <2>1
  <2>4. Calm' /\ (CrashInv /\ HeartbeatInv /\ CountInStep)'
    BY <1>10, <2>2, <2>3
  <2>5. Stops' = {new}
    BY <1>8, <2>2, <2>3 DEF Stops
  <2>6. Place(new.to)' = new.token - 1 /\ \A s \in alive : Place(s)' < new.token - 1 => ~keep'[s]
    <3>1. Place(guard[r]) = token
      BY <1>1, <1>2, <1>3, <1>11
    <3>2. Place(guard[r])' = Place(guard[r])
      BY <1>4, <1>7
    <3>3. QED
      BY <1>4, <1>6, <1>7, <2>3, <3>1, <3>2
  <2>7. StopInv'
    BY <1>4, <2>2, <2>3, <2>4, <2>5, <2>6 DEF StopInv, Calm
  <2>8. QED
    BY <2>4, <2>7
<1>12. CASE ~(n > token)
  <2>1. Return(callers, rest)
    BY <1>1, <1>12 DEF shutdown, n
  <2>2. \A s \in alive : ~keep'[s]
    BY <1>1, <1>2, <1>6, <1>12
  <2>3. /\ \A m \in rest : m \in msgs'
        /\ \A m \in msgs' : m \in rest \/ (m.op \in {"shutdown", "shutdown_done"} /\ m.to \in alive)
    <3>1. CASE callers = <<>>
      BY <2>1, <3>1 DEF Return
    <3>2. CASE callers # <<>>
      BY <2>1, <3>2 DEF Return, Deliverable
    <3>3. QED
      BY <3>1, <3>2
  <2>4. Calm' /\ (CrashInv /\ HeartbeatInv /\ CountInStep)'
    BY <1>10, <2>3
  <2>5. StopInv'
    BY <1>4, <2>1, <2>2, <2>4, ReturnStep
  <2>6. QED
    BY <2>4, <2>5
<1>13. QED
  BY <1>11, <1>12

LEMMA StopRecovery ==
  ASSUME OneCrash, RecoveryInv,
         resilience_stop \/ \E m \in msgs : shutdown_call(m) \/ shutdown_done(m)
  PROVE  (CrashInv /\ HeartbeatInv /\ StopInv /\ CountInStep)'
<1>0. /\ CrashInv /\ HeartbeatInv /\ StopInv /\ CountInStep /\ TypeOK /\ ViewType /\ RingType /\ MessageType
      /\ N >= 3 /\ N \in Nat
  BY TypeParts, NFacts DEF RecoveryInv, OneCrash
<1>1. CASE resilience_stop
  <2>1. stop = "no" /\ Settled /\ shutdown(0, 1, <<>>, msgs) /\ Stops = {} /\ \A r \in alive : keep[r]
    BY <1>0, <1>1 DEF resilience_stop, OneCrash, StopInv
  <2>2. Calm
    <3>1. ASSUME NEW d \in Mortal, alive = Others(d) PROVE ~Whole /\ ~Healing(d) /\ ~\E x \in Others(d) : Announcing(d, x)
      <4>1. d \in Ranks /\ LeftOf(d) \in Others(d) /\ LeftOf(d) \in Ranks /\ RightOf(LeftOf(d)) = d
        BY <1>0, Round, ResilienceAssumption DEF Ranks, Others
      <4>2. guard[LeftOf(d)] # d /\ \A x \in Others(d) : running[x] # Ranks
        BY <2>1, <3>1, <4>1 DEF Settled, Others
      <4>3. QED
        BY <2>1, <4>1, <4>2 DEF Whole, Healing, Announcing, Handled, Travelling, Settled
    <3>2. QED
      BY <1>0, <3>1 DEF CrashInv, Calm
  <2>3. 0 \in alive /\ Place(0) = 0 /\ <<>> \in Seq(alive)
    <3>1. 0 \in Ranks /\ \A d \in Mortal : d # 0
      BY <1>0, RankFacts, ResilienceAssumption
    <3>2. 0 \in alive
      BY <2>2, <3>1 DEF Calm, Others
    <3>3. \A d \in Ranks : ~(d < 0)
      BY RankFacts
    <3>4. Place(0) = 0
      BY <3>3 DEF Place
    <3>5. QED
      BY <3>2, <3>4
  <2>4. \A s \in alive : ~(Place(s) < 1 - 1)
    BY <1>0, <2>2, CalmRing
  <2>5. 1 \in Nat /\ 1 = Place(0) + 1 /\ msgs \subseteq msgs /\ \A m \in msgs : m \in msgs <=> m \notin Stops
    BY <2>1, <2>3
  <2>6. QED
    BY <2>1, <2>2, <2>3, <2>4, <2>5, ShutdownStep
<1>2. ASSUME NEW m \in msgs, shutdown_call(m) PROVE (CrashInv /\ HeartbeatInv /\ StopInv /\ CountInStep)'
  <2>1. m \in Stops /\ m.op = "shutdown" /\ m.to \in alive /\ m.token \in Nat
    BY <1>0, <1>2, MessageFacts, NFacts DEF Stops, shutdown_call, CrashInv, MessageType
  <2>2. stop = "called"
    BY <1>0, <2>1 DEF StopInv, TypeOK
  <2>3. Stops = {m} /\ m.callers \in Seq(alive) /\ Place(m.to) = m.token - 1
        /\ \A r \in alive : Place(r) < m.token - 1 => ~keep[r]
    BY <1>0, <2>1, <2>2 DEF StopInv
  <2>4. Calm
    BY <1>0, <2>2 DEF StopInv, Calm
  <2>5. m.token = Place(m.to) + 1
    <3>1. Place(m.to) \in Int
      BY <1>0, <2>1, <2>4, CalmRing
    <3>2. QED
      BY <2>1, <2>3, <3>1
  <2>6. msgs \ {m} \subseteq msgs /\ \A k \in msgs : k \in msgs \ {m} <=> k \notin Stops
    BY <2>3
  <2>7. shutdown(m.to, m.token, m.callers, msgs \ {m})
    BY <1>2 DEF shutdown_call
  <2>8. QED
    BY <2>1, <2>3, <2>4, <2>5, <2>6, <2>7, ShutdownStep
<1>3. ASSUME NEW m \in msgs, shutdown_done(m) PROVE (CrashInv /\ HeartbeatInv /\ StopInv /\ CountInStep)'
  <2>1. m \in Stops /\ m.op = "shutdown_done"
    BY <1>3 DEF Stops, shutdown_done
  <2>2. stop = "called"
    BY <1>0, <2>1 DEF StopInv, TypeOK
  <2>3. Stops = {m} /\ m.callers \in Seq(alive) /\ \A r \in alive : ~keep[r]
    BY <1>0, <2>1, <2>2 DEF StopInv
  <2>4. Calm
    BY <1>0, <2>2 DEF StopInv, Calm
  <2>5. /\ alive' = alive /\ guard' = guard /\ protectee' = protectee /\ pp' = pp /\ age' = age
        /\ beaten' = beaten /\ running' = running /\ count' = count /\ keep' = keep
        /\ recovery' = recovery /\ dead' = dead /\ announcing' = announcing
        /\ Return(m.callers, msgs \ {m})
    BY <1>3 DEF shutdown_done, ring, view
  <2>6. /\ \A k \in msgs \ {m} : k \in msgs'
        /\ \A k \in msgs' : k \in msgs \ {m} \/ (k.op = "shutdown_done" /\ k.to \in alive)
    <3>1. CASE m.callers = <<>>
      BY <2>5, <3>1 DEF Return
    <3>2. CASE m.callers # <<>>
      BY <2>5, <3>2 DEF Return, Deliverable
    <3>3. QED
      BY <3>1, <3>2
  <2>7. Repairs' = Repairs
    BY <2>1, <2>6 DEF Repairs
  <2>8. Calm'
    BY <2>4, <2>5, <2>7, CalmFrame
  <2>9. StopInv'
    <3>1. \A k \in msgs \ {m} : k \in msgs /\ k \notin Stops
      BY <2>3
    <3>2. QED
      BY <2>3, <2>5, <2>8, <3>1, ReturnStep
  <2>10. CrashInv'
    <3>1. \A k \in msgs' : k.to \in alive
      BY <1>0, <2>6 DEF CrashInv
    <3>2. QED
      BY <1>0, <2>5, <2>7, <3>1, CrashFrame
  <2>11. HeartbeatInv' /\ CountInStep'
    <3>1. \A k \in msgs : k.op = "heartbeat" => k \in msgs'
      BY <2>1, <2>6
    <3>2. QED
      BY <1>0, <2>5, <3>1, HeartbeatFrame, CountFrame DEF Looping
  <2>12. QED
    BY <2>9, <2>10, <2>11
<1>4. QED
  BY <1>1, <1>2, <1>3

-----------------------------------------------------------------------------
(* Every step.                                                             *)

LEMMA NextRecovery == OneCrash /\ RecoveryInv /\ [Next]_vars => RecoveryInv'
<1> SUFFICES ASSUME OneCrash, RecoveryInv, [Next]_vars PROVE RecoveryInv'
  OBVIOUS
<1>1. TypeOK'
  BY NextType DEF RecoveryInv
<1>2. (CrashInv /\ HeartbeatInv /\ StopInv /\ CountInStep)'
  <2>1. CASE UNCHANGED vars
    <3>1. /\ CrashInv /\ HeartbeatInv /\ StopInv /\ CountInStep
          /\ alive' = alive /\ guard' = guard /\ protectee' = protectee /\ pp' = pp /\ age' = age
          /\ beaten' = beaten /\ running' = running /\ count' = count /\ keep' = keep /\ msgs' = msgs
          /\ recovery' = recovery /\ dead' = dead /\ announcing' = announcing /\ stop' = stop
      BY <2>1 DEF vars, ring, view, RecoveryInv
    <3>2. Repairs' = Repairs /\ Stops' = Stops
      BY <3>1 DEF Repairs, Stops
    <3>3. stop # "no" => Calm'
      BY <3>1, <3>2, CalmFrame DEF StopInv, Calm
    <3>4. CrashInv'
      BY <3>1, <3>2, CrashFrame DEF CrashInv
    <3>5. QED
      BY <3>1, <3>2, <3>3, <3>4, HeartbeatFrame, StopFrame, CountFrame DEF Looping
  <2>2. CASE tick
    BY <2>2, TickRecovery
  <2>3. CASE \E r \in Mortal : crash(r)
    BY <2>3, CrashRecovery
  <2>4. CASE \E r \in Ranks : loop(r)
    BY <2>4, LoopRecovery, DetectionRecovery DEF loop
  <2>5. CASE \E r \in Ranks : handle(r)
    BY <2>5, HeartbeatRecovery, SetGuardRecovery, GuardSetRecovery, GetProtecteeRecovery,
       RecoveredRecovery, AnnounceRecovery, WorkStepRecovery, StopRecovery DEF handle
  <2>6. CASE \E r \in Ranks : reschedule(r)
    BY <2>6, ExtractRecovery, MarkRecovery, ForwardRecovery DEF reschedule
  <2>7. CASE \E r \in Ranks : dispatch(r)
    BY <2>7, WorkStepRecovery DEF dispatch
  <2>8. CASE \E r \in Ranks, w \in Items : process(r, w) \/ \E d \in Ranks : schedule_down(r, w, d)
    BY <2>8, WorkStepRecovery
  <2>9. CASE resilience_stop
    BY <2>9, StopRecovery
  <2>10. QED
    BY <2>1, <2>2, <2>3, <2>4, <2>5, <2>6, <2>7, <2>8, <2>9 DEF Next
<1>3. QED
  BY <1>1, <1>2 DEF RecoveryInv

LEMMA Recovery == ASSUME OneCrash PROVE Spec => []RecoveryInv
<1>1. Init => RecoveryInv
  BY InitRecovery
<1>2. RecoveryInv /\ [Next]_vars => RecoveryInv'
  BY NextRecovery
<1>3. QED
  BY <1>1, <1>2, PTL DEF Spec

LEMMA RightlySuspected == ASSUME OneCrash, RecoveryInv PROVE OnlyDeadSuspected
<1>0. CrashInv
  BY DEF RecoveryInv
<1>1. ASSUME NEW r \in alive
      PROVE  Ranks \ running[r] \subseteq Ranks \ alive /\ (recovery[r] # "none" => dead[r] \notin alive)
  <2>1. CASE alive = Ranks /\ Whole
    BY <2>1 DEF Whole
  <2>2. ASSUME NEW d \in Mortal, alive = Others(d), Whole \/ Over(d)
        PROVE  Ranks \ running[r] \subseteq Ranks \ alive /\ recovery[r] = "none"
    BY <1>1, <2>2 DEF Whole, Over, Others
  <2>3. ASSUME NEW d \in Mortal, alive = Others(d), Healing(d)
        PROVE  Ranks \ running[r] \subseteq Ranks \ alive /\ (recovery[r] # "none" => dead[r] \notin alive)
    <3>1. dead[RightOf(d)] = d /\ running[r] = Ranks /\ (r # RightOf(d) => recovery[r] = "none")
      BY <1>1, <2>3 DEF Healing, Others
    <3>2. QED
      BY <2>3, <3>1 DEF Others
  <2>4. ASSUME NEW d \in Mortal, alive = Others(d), NEW x \in Others(d), Announcing(d, x)
        PROVE  Ranks \ running[r] \subseteq Ranks \ alive /\ recovery[r] = "none"
    <3>1. recovery[r] = "none" /\ Known(d, x) /\ running[x] \in {Ranks, Others(d)}
      BY <1>1, <2>4 DEF Announcing, Handled, Travelling, Others
    <3>2. d \in Ranks /\ N >= 3 /\ N \in Nat
      BY NFacts, ResilienceAssumption DEF OneCrash, Ranks
    <3>3. \A s \in Others(d) : Beyond(d, s) \in 0 .. N - 2 /\ (Beyond(d, s) = Beyond(d, x) => s = x)
      BY <3>2, BeyondFacts
    <3>4. running[r] \in {Ranks, Others(d)}
      BY <1>1, <2>4, <3>1, <3>2, <3>3 DEF Known
    <3>5. QED
      BY <2>4, <3>1, <3>4 DEF Others
  <2>5. QED
    BY <1>0, <2>1, <2>2, <2>3, <2>4 DEF CrashInv
<1>2. QED
  BY <1>1 DEF OnlyDeadSuspected

\* The failure detector (send_heartbeat_loop, protectee_crashed) never takes a
\* live locality for dead, also not the one that is adopted: its heartbeat has not
\* arrived, but its guard is set before the next iteration of its loop.
THEOREM NoFalseSuspicion == ASSUME OneCrash PROVE Spec => []OnlyDeadSuspected
<1>1. RecoveryInv => OnlyDeadSuspected
  BY RightlySuspected
<1>2. QED
  BY <1>1, Recovery, PTL

\* num_localities stays in step with rank_running_: the announcement
\* (reschedule_dispatched_to_dead) visits every locality at most once.
THEOREM DeathCountedOnce == ASSUME OneCrash PROVE Spec => []CountInStep
<1>1. RecoveryInv => CountInStep
  BY DEF RecoveryInv
<1>2. QED
  BY <1>1, Recovery, PTL

\* When resilience::stop has returned on the console, shutdown has been to every
\* live locality and has stopped its heartbeat loop.
THEOREM StopEndsLoops == ASSUME OneCrash PROVE Spec => []LoopsEnded
<1>1. RecoveryInv => LoopsEnded
  BY DEF RecoveryInv, StopInv, LoopsEnded
<1>2. QED
  BY <1>1, Recovery, PTL
=============================================================================
