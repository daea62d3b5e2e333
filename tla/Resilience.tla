------------------------------ MODULE Resilience ------------------------------
(***************************************************************************)
(* Failure detection and recovery (components::resilience) together with   *)
(* the part of the scheduler that hands work items to other localities.    *)
(*                                                                         *)
(* The localities form a ring: every one sends heartbeats to its guard and *)
(* watches its protectee.  When the heartbeats of the protectee stay away, *)
(* the guard adopts the protectee's protectee and announces the death      *)
(* around the ring; on its way the announcement reschedules the work items *)
(* that were dispatched to the dead locality.                              *)
(*                                                                         *)
(* Remote actions are members of `msgs' and are executed in any order; a   *)
(* message to a dead locality is never executed.  The local threads that   *)
(* take several locks one after the other have one step per lock.          *)
(***************************************************************************)
EXTENDS Integers, FiniteSets, SequencesExt

CONSTANTS
  N,           \* the number of localities
  Items,       \* the work items
  Delta,       \* `delta' in periods of the heartbeat loop (`miu')
  Mortal,      \* the localities that may crash (never the console, locality 0)
  MaxCrashes,  \* bound: how many of them do
  Overlapping  \* may a crash come while the last one is being handled or the program
               \* is being shut down, and the end of the program while a crash is?

\* num_localities is unsigned; the model's wraps at 2^16 instead of 2^64.
Wrap == 65536

ASSUME ResilienceAssumption ==
  /\ N \in 2 .. Wrap - 1
  /\ Delta \in Nat \ {0}
  /\ Mortal \subseteq 1 .. N - 1
  /\ MaxCrashes \in Nat
  /\ Overlapping \in BOOLEAN

Ranks == 0 .. N - 1

VARIABLES
  alive,       \* the localities that have not crashed
  guard,       \* guard_rank_
  protectee,   \* protectee_rank_
  pp,          \* protectees_protectee_rank_
  age,         \* my_heartbeat - protectee_heartbeat, up to Delta + 1
  beaten,      \* the localities whose loop has run in the current period
  running,     \* rank_running_
  count,       \* num_localities
  keep,        \* keep_running
  recovery,    \* protectee_crashed: the remote call it waits for
  dead,        \* its dead_protectee_rank
  announcing,  \* activations of reschedule_dispatched_to_dead
  delegated,   \* delegated_items_
  waiting,     \* continuations on the treetures of dispatched items
  dispatching, \* schedule_down between rank_running and work_item_dispatched
  held,        \* which locality has which item to schedule or process
  finished,    \* the items that have been processed
  stop,        \* the console's resilience::stop: not called, called or returned
  msgs         \* remote actions in flight

ring  == <<guard, protectee, pp>>
view  == <<running, count, keep>>
work  == <<delegated, waiting, dispatching, held, finished>>
vars  == <<alive, ring, age, beaten, view, recovery, dead, announcing, work, stop, msgs>>

LeftOf(r) == IF r = 0 THEN N - 1 ELSE r - 1

\* Mutant: the ring is not closed.
init_no_wrap ==
  /\ guard     = [r \in Ranks |-> r + 1]
  /\ protectee = [r \in Ranks |-> LeftOf(r)]
  /\ pp        = [r \in Ranks |-> LeftOf(LeftOf(r))]
  /\ age       = [r \in Ranks |-> 0]
  /\ running   = [r \in Ranks |-> Ranks]
  /\ count     = [r \in Ranks |-> N]
  /\ keep      = [r \in Ranks |-> TRUE]

init ==
  /\ guard     = [r \in Ranks |-> (r + 1) % N]
  /\ protectee = [r \in Ranks |-> LeftOf(r)]
  /\ pp        = [r \in Ranks |-> LeftOf(LeftOf(r))]
  /\ age       = [r \in Ranks |-> 0]
  /\ running   = [r \in Ranks |-> Ranks]
  /\ count     = [r \in Ranks |-> N]
  /\ keep      = [r \in Ranks |-> TRUE]

Init ==
  /\ init
  /\ alive = Ranks /\ beaten = {}
  /\ recovery = [r \in Ranks |-> "none"] /\ dead = [r \in Ranks |-> r]
  /\ announcing = {}
  /\ delegated = [r \in Ranks |-> {}] /\ waiting = {} /\ dispatching = {}
  /\ held = [w \in Items |-> {0}]
  /\ finished = {} /\ stop = "no"
  /\ msgs = {}

\* What is sent to a locality that has crashed never arrives.
Deliverable(ms) == {m \in ms : m.to \in alive}
Send(ms)      == msgs' = msgs \cup Deliverable(ms)
Reply(m, new) == msgs' = (msgs \ {m}) \cup Deliverable({new})

-----------------------------------------------------------------------------
(***************************************************************************)
(* Time and crashes.  The loop runs once per period of `miu'; a period is  *)
(* long enough for every live locality to have its turn and for the calls  *)
(* of this component to reach a live locality.  Nothing bounds the time a  *)
(* work item, or the thread of an announcement, takes.                     *)
(***************************************************************************)
Looping(r) == r \in alive /\ keep[r] /\ recovery[r] = "none"

tick ==
  /\ \A r \in Ranks : Looping(r) => r \in beaten
  /\ \A m \in msgs : m.op = "item"
  /\ beaten' = {}
  /\ age' = [r \in Ranks |-> IF Looping(r) /\ age[r] <= Delta THEN age[r] + 1 ELSE age[r]]
  /\ UNCHANGED <<stop, alive, ring, view, recovery, dead, announcing, work, msgs>>

\* Every live locality has live neighbours and knows of the crashes so far.
Settled ==
  /\ announcing = {}
  /\ \A r \in alive : /\ recovery[r] = "none" /\ running[r] = alive
                      /\ guard[r] \in alive /\ protectee[r] \in alive

\* What a crashed locality held is gone with it.
crash(r) ==
  /\ r \in alive \cap Mortal
  /\ N - Cardinality(alive) < MaxCrashes
  /\ Overlapping \/ (Settled /\ stop = "no")
  /\ alive' = alive \ {r}
  /\ held' = [w \in Items |-> held[w] \ {r}]
  /\ delegated' = [delegated EXCEPT ![r] = {}]
  /\ dispatching' = {x \in dispatching : x.rank # r}
  /\ waiting' = {x \in waiting : x.rank # r}
  /\ announcing' = {a \in announcing : a.rank # r}
  /\ msgs' = {m \in msgs : m.to # r}
  /\ UNCHANGED <<stop, ring, age, beaten, view, recovery, dead, finished>>

-----------------------------------------------------------------------------
(***************************************************************************)
(* send_heartbeat_loop: one iteration, and the actions it sends.           *)
(***************************************************************************)
Heartbeat(r) == [op |-> "heartbeat", from |-> r, to |-> guard[r]]

send_heartbeat_loop(r) ==
  /\ Looping(r) /\ r \notin beaten /\ age[r] <= Delta
  /\ beaten' = beaten \cup {r}
  /\ Send({Heartbeat(r)})
  /\ UNCHANGED <<stop, alive, ring, age, view, recovery, dead, announcing, work>>

\* The heartbeats of the protectee have stayed away: protectee_crashed.
protectee_crashed(r) ==
  /\ Looping(r) /\ r \notin beaten /\ age[r] > Delta
  /\ beaten' = beaten \cup {r}
  /\ dead' = [dead EXCEPT ![r] = protectee[r]]
  /\ protectee' = [protectee EXCEPT ![r] = pp[r]]
  /\ recovery' = [recovery EXCEPT ![r] = "set_guard"]
  /\ Send({Heartbeat(r), [op |-> "set_guard", from |-> r, to |-> pp[r]]})
  /\ UNCHANGED <<stop, alive, guard, pp, age, view, announcing, work>>

send_heartbeat(m) ==
  /\ m.op = "heartbeat"
  /\ msgs' = msgs \ {m}
  /\ age' = [age EXCEPT ![m.to] = 0]
  /\ UNCHANGED <<stop, alive, ring, beaten, view, recovery, dead, announcing, work>>

\* Mutant: the new guard is not set.
set_guard_dropped(m) ==
  /\ m.op = "set_guard"
  /\ beaten' = beaten \ {m.to}
  /\ UNCHANGED guard
  /\ Reply(m, [op |-> "guard_set", from |-> m.to, to |-> m.from])
  /\ UNCHANGED <<stop, alive, protectee, pp, age, view, recovery, dead, announcing, work>>

\* The next iteration of its loop comes before the next one of the new guard,
\* which still has to wait for the answer: m.to has its turn in this period.
set_guard(m) ==
  /\ m.op = "set_guard"
  /\ beaten' = beaten \ {m.to}
  /\ guard' = [guard EXCEPT ![m.to] = m.from]
  /\ Reply(m, [op |-> "guard_set", from |-> m.to, to |-> m.from])
  /\ UNCHANGED <<stop, alive, protectee, pp, age, view, recovery, dead, announcing, work>>

\* The first call has returned: ask the new protectee for its protectee.
guard_set(m) ==
  /\ m.op = "guard_set"
  /\ recovery' = [recovery EXCEPT ![m.to] = "get_protectee"]
  /\ Reply(m, [op |-> "get_protectee", from |-> m.to, to |-> m.from])
  /\ UNCHANGED <<stop, alive, ring, age, beaten, view, dead, announcing, work>>

get_protectee(m) ==
  /\ m.op = "get_protectee"
  /\ Reply(m, [op |-> "protectee", from |-> m.to, to |-> m.from, rank |-> protectee[m.to]])
  /\ UNCHANGED <<stop, alive, ring, age, beaten, view, recovery, dead, announcing, work>>

Announcement(r, d, token) ==
  [rank |-> r, dead |-> d, token |-> token, stage |-> "extract", items |-> {}]

\* The second call has returned: the death is announced, first to itself.
recovered(m) ==
  /\ m.op = "protectee"
  /\ pp' = [pp EXCEPT ![m.to] = m.rank]
  /\ recovery' = [recovery EXCEPT ![m.to] = "none"]
  /\ announcing' = announcing \cup {Announcement(m.to, dead[m.to], 0)}
  /\ msgs' = msgs \ {m}
  /\ UNCHANGED <<stop, alive, guard, protectee, age, beaten, view, dead, work>>

-----------------------------------------------------------------------------
(***************************************************************************)
(* reschedule_dispatched_to_dead: three steps, the first two under a lock  *)
(* of their own.                                                           *)
(***************************************************************************)
announce(m) ==
  /\ m.op = "announce"
  /\ announcing' = announcing \cup {Announcement(m.to, m.dead, m.token)}
  /\ msgs' = msgs \ {m}
  /\ UNCHANGED <<stop, alive, ring, age, beaten, view, recovery, dead, work>>

To(d, pairs) == {p \in pairs : p[1] = d}

reschedule_extract(a) ==
  /\ a \in announcing /\ a.stage = "extract"
  /\ announcing' = (announcing \ {a}) \cup
       {[a EXCEPT !.stage = "mark", !.items = {p[2] : p \in To(a.dead, delegated[a.rank])}]}
  /\ delegated' = [delegated EXCEPT ![a.rank] = @ \ To(a.dead, @)]
  /\ UNCHANGED <<stop, alive, ring, age, beaten, view, recovery, dead, waiting, dispatching, held,
                 finished, msgs>>

reschedule_mark(a) ==
  /\ a \in announcing /\ a.stage = "mark"
  /\ announcing' = (announcing \ {a}) \cup {[a EXCEPT !.stage = "reschedule"]}
  /\ running' = [running EXCEPT ![a.rank] = @ \ {a.dead}]
  /\ count' = [count EXCEPT ![a.rank] = (@ - 1) % Wrap]
  /\ keep' = [keep EXCEPT ![a.rank] = @ /\ count'[a.rank] >= 2]
  /\ UNCHANGED <<stop, alive, ring, age, beaten, recovery, dead, work, msgs>>

\* Mutant: the announcement is passed on once too often.
reschedule_forward_again(a) ==
  /\ a \in announcing /\ a.stage = "reschedule"
  /\ announcing' = announcing \ {a}
  /\ held' = [w \in Items |-> IF w \in a.items THEN held[w] \cup {a.rank} ELSE held[w]]
  /\ Send(IF Cardinality(running[a.rank]) >= a.token + 1
          THEN {[op |-> "announce", from |-> a.rank, to |-> guard[a.rank],
                 dead |-> a.dead, token |-> a.token + 1]}
          ELSE {})
  /\ UNCHANGED <<stop, alive, ring, age, beaten, view, recovery, dead, delegated, waiting,
                 dispatching, finished>>

\* Mutant: the announcement is passed on once too little.
reschedule_forward_short(a) ==
  /\ a \in announcing /\ a.stage = "reschedule"
  /\ announcing' = announcing \ {a}
  /\ held' = [w \in Items |-> IF w \in a.items THEN held[w] \cup {a.rank} ELSE held[w]]
  /\ Send(IF Cardinality(running[a.rank]) > a.token + 2
          THEN {[op |-> "announce", from |-> a.rank, to |-> guard[a.rank],
                 dead |-> a.dead, token |-> a.token + 1]}
          ELSE {})
  /\ UNCHANGED <<stop, alive, ring, age, beaten, view, recovery, dead, delegated, waiting,
                 dispatching, finished>>

reschedule_forward(a) ==
  /\ a \in announcing /\ a.stage = "reschedule"
  /\ announcing' = announcing \ {a}
  /\ held' = [w \in Items |-> IF w \in a.items THEN held[w] \cup {a.rank} ELSE held[w]]
  /\ Send(IF Cardinality(running[a.rank]) > a.token + 1
          THEN {[op |-> "announce", from |-> a.rank, to |-> guard[a.rank],
                 dead |-> a.dead, token |-> a.token + 1]}
          ELSE {})
  /\ UNCHANGED <<stop, alive, ring, age, beaten, view, recovery, dead, delegated, waiting,
                 dispatching, finished>>

-----------------------------------------------------------------------------
(***************************************************************************)
(* Work items.  schedule_down hands an item to the right child of a        *)
(* virtual node, which a locality of a higher rank hosts.                  *)
(***************************************************************************)
schedule_down(r, w, d) ==
  /\ r \in alive /\ r \in held[w] /\ d > r
  /\ d \in running[r]
  /\ held' = [held EXCEPT ![w] = @ \ {r}]
  /\ dispatching' = dispatching \cup {[rank |-> r, item |-> w, to |-> d]}
  /\ UNCHANGED <<stop, alive, ring, age, beaten, view, recovery, dead, announcing, delegated,
                 waiting, finished, msgs>>

work_item_dispatched(x) ==
  /\ x \in dispatching
  /\ dispatching' = dispatching \ {x}
  /\ delegated' = [delegated EXCEPT ![x.rank] = @ \cup {<<x.to, x.item>>}]
  /\ waiting' = waiting \cup {x}
  /\ Send({[op |-> "item", from |-> x.rank, to |-> x.to, item |-> x.item]})
  /\ UNCHANGED <<stop, alive, ring, age, beaten, view, recovery, dead, announcing, held, finished>>

schedule_down_global(m) ==
  /\ m.op = "item"
  /\ held' = [held EXCEPT ![m.item] = @ \cup {m.to}]
  /\ msgs' = msgs \ {m}
  /\ UNCHANGED <<stop, alive, ring, age, beaten, view, recovery, dead, announcing, delegated,
                 waiting, dispatching, finished>>

process(r, w) ==
  /\ r \in alive /\ r \in held[w]
  /\ held' = [held EXCEPT ![w] = @ \ {r}]
  /\ finished' = finished \cup {w}
  /\ UNCHANGED <<stop, alive, ring, age, beaten, view, recovery, dead, announcing, delegated,
                 waiting, dispatching, msgs>>

\* The continuation erases some entry for the locality it was dispatched to.
on_completed(x) ==
  /\ x \in waiting /\ x.item \in finished
  /\ waiting' = waiting \ {x}
  /\ IF To(x.to, delegated[x.rank]) = {}
     THEN UNCHANGED delegated
     ELSE \E p \in To(x.to, delegated[x.rank]) :
            delegated' = [delegated EXCEPT ![x.rank] = @ \ {p}]
  /\ UNCHANGED <<stop, alive, ring, age, beaten, view, recovery, dead, announcing, dispatching,
                 held, finished, msgs>>

-----------------------------------------------------------------------------
(***************************************************************************)
(* The end of the program: the console stops the loops around the ring;    *)
(* every locality waits for the answer of its guard.                       *)
(***************************************************************************)
\* The answer of shutdown travels back through its callers to the console.
Return(callers, rest) ==
  IF callers = <<>>
  THEN stop' = "returned" /\ msgs' = rest
  ELSE /\ stop' = "called"
       /\ msgs' = rest \cup Deliverable({[op |-> "shutdown_done", to |-> Last(callers),
                                          callers |-> Front(callers)]})

\* Mutant: the circle ends one locality early.
shutdown_short(r, token, callers, rest) ==
  LET n == Cardinality(running[r])
  IN  /\ keep' = [keep EXCEPT ![r] = @ /\ n < 2]
      /\ \/ /\ n >= 2 /\ n > token + 1
            /\ stop' = "called"
            /\ msgs' = rest \cup Deliverable({[op |-> "shutdown", to |-> guard[r],
                                 token |-> token + 1, callers |-> Append(callers, r)]})
         \/ /\ n < 2 \/ n <= token + 1
            /\ Return(callers, rest)
      /\ UNCHANGED <<alive, ring, age, beaten, running, count, recovery, dead, announcing, work>>

shutdown(r, token, callers, rest) ==
  LET n == Cardinality(running[r])
  IN  /\ keep' = [keep EXCEPT ![r] = @ /\ n < 2]
      /\ \/ /\ n >= 2 /\ n > token
            /\ stop' = "called"
            /\ msgs' = rest \cup Deliverable({[op |-> "shutdown", to |-> guard[r],
                                 token |-> token + 1, callers |-> Append(callers, r)]})
         \/ /\ n < 2 \/ n <= token
            /\ Return(callers, rest)
      /\ UNCHANGED <<alive, ring, age, beaten, running, count, recovery, dead, announcing, work>>

\* The main task is done.
resilience_stop ==
  /\ stop = "no" /\ finished = Items
  /\ Overlapping \/ Settled
  /\ shutdown(0, 1, <<>>, msgs)

shutdown_call(m) ==
  /\ m.op = "shutdown"
  /\ shutdown(m.to, m.token, m.callers, msgs \ {m})

shutdown_done(m) ==
  /\ m.op = "shutdown_done"
  /\ Return(m.callers, msgs \ {m})
  /\ UNCHANGED <<alive, ring, age, beaten, view, recovery, dead, announcing, work>>

-----------------------------------------------------------------------------
\* The threads of a locality: its loop, the handlers of the messages to it, and its
\* announcements; the dispatches of work items and their continuations.
loop(r) == send_heartbeat_loop(r) \/ protectee_crashed(r)

handle(r) ==
  \E m \in msgs :
    /\ m.to = r
    /\ \/ send_heartbeat(m) \/ set_guard(m) \/ guard_set(m) \/ get_protectee(m)
       \/ recovered(m) \/ announce(m) \/ schedule_down_global(m)
       \/ shutdown_call(m) \/ shutdown_done(m)

reschedule(r) ==
  \E a \in announcing :
    a.rank = r /\ (reschedule_extract(a) \/ reschedule_mark(a) \/ reschedule_forward(a))

dispatch(r) ==
  \/ \E x \in dispatching : x.rank = r /\ work_item_dispatched(x)
  \/ \E x \in waiting : x.rank = r /\ on_completed(x)

Next ==
  \/ tick
  \/ \E r \in Mortal : crash(r)
  \/ \E r \in Ranks : loop(r) \/ handle(r) \/ reschedule(r) \/ dispatch(r)
  \/ \E r \in Ranks, w \in Items : \/ \E d \in Ranks : schedule_down(r, w, d)
                                   \/ process(r, w)
  \/ resilience_stop

Spec == Init /\ [][Next]_vars

\* Time passes, and the threads of a live locality make progress.  Crashes, where work
\* items go, and when the main task is done are up to the environment.
FairSpec ==
  /\ Spec
  /\ WF_vars(tick)
  /\ \A r \in Ranks : WF_vars(loop(r)) /\ WF_vars(handle(r)) /\ WF_vars(reschedule(r))

-----------------------------------------------------------------------------
Messages ==
  [op : {"heartbeat", "set_guard", "guard_set", "get_protectee"}, from : Ranks, to : Ranks]
  \cup [op : {"protectee"}, from : Ranks, to : Ranks, rank : Ranks]
  \cup [op : {"announce"}, from : Ranks, to : Ranks, dead : Ranks, token : 1 .. N - 1]
  \cup [op : {"item"}, from : Ranks, to : Ranks, item : Items]
  \cup [op : {"shutdown"}, to : Ranks, token : 2 .. N, callers : Seq(Ranks)]
  \cup [op : {"shutdown_done"}, to : Ranks, callers : Seq(Ranks)]

\* The types of the component's state; an announcement, and a shutdown, is passed
\* on at most N - 1 times (reschedule_dispatched_to_dead and shutdown count tokens).
TypeOK ==
  /\ alive \subseteq Ranks /\ beaten \subseteq Ranks
  /\ guard \in [Ranks -> Ranks] /\ protectee \in [Ranks -> Ranks] /\ pp \in [Ranks -> Ranks]
  /\ age \in [Ranks -> 0 .. Delta + 1]
  /\ running \in [Ranks -> SUBSET Ranks] /\ count \in [Ranks -> 0 .. Wrap - 1]
  /\ keep \in [Ranks -> BOOLEAN]
  /\ recovery \in [Ranks -> {"none", "set_guard", "get_protectee"}] /\ dead \in [Ranks -> Ranks]
  /\ announcing \subseteq [rank : Ranks, dead : Ranks, token : 0 .. N - 1,
                           stage : {"extract", "mark", "reschedule"}, items : SUBSET Items]
  /\ delegated \in [Ranks -> SUBSET (Ranks \X Items)]
  /\ waiting \subseteq [rank : Ranks, item : Items, to : Ranks]
  /\ dispatching \subseteq [rank : Ranks, item : Items, to : Ranks]
  /\ held \in [Items -> SUBSET Ranks] /\ finished \subseteq Items
  /\ stop \in {"no", "called", "returned"}
  /\ msgs \subseteq Messages

\* The failure detector (send_heartbeat_loop, protectee_crashed) never takes a live
\* locality for dead: neither a recovery nor rank_running_ at any locality excludes one.
\* Adopting a new protectee does not reset protectee_heartbeat, so this rests on the
\* new guard being set before the next iteration.
OnlyDeadSuspected ==
  \A r \in alive : /\ Ranks \ running[r] \subseteq Ranks \ alive
                  /\ recovery[r] # "none" => dead[r] \notin alive

\* num_localities, which ends the loop, stays in step with rank_running_, which ends
\* the announcement: an announcement visits each locality once.
CountInStep == \A r \in alive : count[r] = Cardinality(running[r])

\* When resilience::stop has returned on the console, shutdown has stopped the heartbeat
\* loop of every live locality: the circle does not end before it has been everywhere.
LoopsEnded == stop = "returned" => \A r \in alive : ~keep[r]

\* protectee_crashed "restore[s] guard / protectee connections", and the announcement
\* reaches every locality: a crash is eventually known to every live locality and the
\* crashed one is no longer anybody's guard or protectee - unless the program ends.
RingRepaired ==
  \A d \in Ranks : d \notin alive ~>
    \/ \A r \in alive : d \notin running[r] /\ guard[r] # d /\ protectee[r] # d
    \/ stop # "no"

\* shutdown gets around the ring, also around the one a crash has left: stop returns and
\* the loop of every live locality ends.
ShutdownReturns ==
  stop = "called" ~> stop = "returned" /\ \A r \in alive : ~keep[r]

\* "rescheduling dispatched tasks all through the ring" (protectee_crashed): an unfinished
\* work item is never gone for good: it is on a live locality or on its way to one, or a
\* live locality has recorded or is rescheduling it.
NoItemLost ==
  \A w \in Items \ finished :
    \/ held[w] # {}
    \/ \E x \in dispatching : x.item = w
    \/ \E m \in msgs : m.op = "item" /\ m.item = w
    \/ \E r \in alive : \E d \in running[r] : <<d, w>> \in delegated[r]
    \/ \E a \in announcing : \/ w \in a.items
                             \/ a.stage = "extract" /\ <<a.dead, w>> \in delegated[a.rank]
=============================================================================
