------------------------------- MODULE Monitor -------------------------------
(***************************************************************************)
(* The monitor of every locality: the handlers that work items call when   *)
(* they start and finish, the thread that turns finished profiles into     *)
(* statistics, fed through a pair of queues, the periodic sampler, the     *)
(* task times the optimizer asks for, and stop.                            *)
(*                                                                         *)
(* The handlers run in the thread of the work item, between its execution  *)
(* and the setting of its result, so the program that stops the monitor    *)
(* has waited for all of them.                                             *)
(***************************************************************************)
EXTENDS Integers, Sequences, FiniteSets, TaskTimes

CONSTANTS
  Ranks,             \* localities; 0 stops the others
  Items,             \* the work items of the program
  Place, Path, Time, \* rank, task path and run time of every item
  Splits,            \* the items whose split variant runs
  MIN_QUEUE_ELEMS,   \* 500 in the code
  MaxSamples         \* bound: how often the sampler of each rank runs

ASSUME MonitorAssumption ==
  /\ 0 \in Ranks /\ IsFiniteSet(Ranks) /\ IsFiniteSet(Items)
  /\ Place \in [Items -> Ranks] /\ Path \in [Items -> Seq({0, 1})]
  /\ Time \in [Items -> Nat] /\ Splits \subseteq Items
  /\ MIN_QUEUE_ELEMS \in Nat \ {0} /\ MaxSamples \in [Ranks -> Nat]

At(r) == {i \in Items : Place[i] = r}

VARIABLES
  output,          \* the statistics are wanted (set in the environment)
  item,            \* where each item is in its life
  queues,          \* per rank, the two queues of finished profiles
  read, write,     \* per rank, current_read_queue and current_write_queue
  worker,          \* per rank, where process_profiles is
  profiles,        \* per rank, the profiles that were processed
  finished_tasks,  \* per rank, finished since the last sample
  samples, sampled, \* per rank, the number of samples taken, what they counted in all
  task_times, last_times, \* per rank, recorded and at the last request
  requests, handed, \* per rank, the requests so far, what they have returned in total
  done,            \* per rank, the worker is to end
  stopping,        \* per rank, where stop is
  stop_calls,      \* ranks a stop_action is on its way to
  statistics       \* rank 0: the profiles gathered and printed

vars == <<output, item, queues, read, write, worker, profiles, finished_tasks, samples, sampled,
          task_times, last_times, requests, handed, done, stopping, stop_calls,
          statistics>>

itemVars == <<item, finished_tasks>>
sampleVars == <<samples, sampled>>
workerVars == <<read, worker, profiles>>
timeVars == <<task_times, last_times, requests, handed>>
stopVars == <<done, stopping, stop_calls, statistics>>

TypeOK ==
  /\ output \in BOOLEAN
  /\ item \in [Items -> {"spawned", "started", "timed", "queued", "notify", "counted"}]
  /\ queues \in [Ranks -> [{0, 1} -> SUBSET Items]]
  /\ read \in [Ranks -> {0, 1}] /\ write \in [Ranks -> {0, 1}]
  /\ worker \in [Ranks -> {"start", "wait", "awake", "drain", "ended"}]
  /\ profiles \in [Ranks -> SUBSET Items]
  /\ finished_tasks \in [Ranks -> Nat]
  /\ samples \in [Ranks -> Nat] /\ sampled \in [Ranks -> Nat]
  /\ task_times \in [Ranks -> [Tracked -> Nat]] /\ last_times \in [Ranks -> [Tracked -> Nat]]
  /\ requests \in [Ranks -> Nat] /\ handed \in [Ranks -> [Tracked -> Nat]]
  /\ done \in [Ranks -> BOOLEAN]
  /\ stopping \in [Ranks -> {"no", "called", "done", "joining", "joined", "gathered", "returned"}]
  /\ stop_calls \subseteq Ranks
  /\ statistics \subseteq Items

Init ==
  /\ output \in BOOLEAN
  /\ item = [i \in Items |-> "spawned"]
  /\ queues = [r \in Ranks |-> [q \in {0, 1} |-> {}]]
  /\ read = [r \in Ranks |-> 0] /\ write = [r \in Ranks |-> 0]
  /\ worker = [r \in Ranks |-> "start"]
  /\ profiles = [r \in Ranks |-> {}]
  /\ finished_tasks = [r \in Ranks |-> 0]
  /\ samples = [r \in Ranks |-> 0] /\ sampled = [r \in Ranks |-> 0]
  /\ task_times = [r \in Ranks |-> NoTimes] /\ last_times = [r \in Ranks |-> NoTimes]
  /\ requests = [r \in Ranks |-> 0] /\ handed = [r \in Ranks |-> NoTimes]
  /\ done = [r \in Ranks |-> FALSE]
  /\ stopping = [r \in Ranks |-> "no"]
  /\ stop_calls = {} /\ statistics = {}

------------------------------------------------------------------------------
(* The handlers, in the threads of the work items.                         *)

\* w_exec_split_start_wrapper, w_exec_process_start_wrapper: a profile is made.
ExecStart(i) ==
  /\ item[i] = "spawned"
  /\ item' = [item EXCEPT ![i] = "started"]
  /\ UNCHANGED <<output, queues, write, workerVars, finished_tasks, sampleVars, timeVars, stopVars>>

\* add_task_time, after the process variant has run.
add_task_time(i) ==
  LET r == Place[i]
  IN /\ item[i] = "started" /\ i \notin Splits
     /\ item' = [item EXCEPT ![i] = "timed"]
     /\ task_times' = [task_times EXCEPT ![r] = add(@, Path[i], Time[i])]
     /\ UNCHANGED <<output, queues, write, workerVars, finished_tasks, sampleVars,
                    last_times, requests, handed, stopVars>>

\* w_exec_*_finish_wrapper, under m_queue: the profile is queued and, when there
\* are enough of them, the worker is to be notified.
ExecFinish(i) ==
  LET r == Place[i]
      q == queues[r][write[r]] \cup {i}
  IN /\ item[i] = (IF i \in Splits THEN "started" ELSE "timed")
     /\ queues' = [queues EXCEPT ![r][write[r]] = q]
     /\ item' = [item EXCEPT ![i] =
                  IF Cardinality(q) >= MIN_QUEUE_ELEMS THEN "notify" ELSE "queued"]
     /\ UNCHANGED <<output, write, workerVars, finished_tasks, sampleVars, timeVars, stopVars>>

\* cv.notify_one: it wakes the worker only if the worker waits.
Woken(r) == IF worker[r] = "wait" THEN [worker EXCEPT ![r] = "awake"] ELSE worker

Notify(i) ==
  /\ item[i] = "notify"
  /\ item' = [item EXCEPT ![i] = "queued"]
  /\ worker' = Woken(Place[i])
  /\ UNCHANGED <<output, queues, read, write, profiles, finished_tasks, sampleVars, timeVars, stopVars>>

\* Mutant of Count: the count of the sample so far is overwritten.
Count_Overwrites(i) ==
  /\ item[i] = "queued"
  /\ item' = [item EXCEPT ![i] = "counted"]
  /\ finished_tasks' = [finished_tasks EXCEPT ![Place[i]] = 1]
  /\ UNCHANGED <<output, queues, write, workerVars, sampleVars, timeVars, stopVars>>

\* finished_tasks, under sampling_mutex; the work item's result follows.
Count(i) ==
  /\ item[i] = "queued"
  /\ item' = [item EXCEPT ![i] = "counted"]
  /\ finished_tasks' = [finished_tasks EXCEPT ![Place[i]] = @ + 1]
  /\ UNCHANGED <<output, queues, write, workerVars, sampleVars, timeVars, stopVars>>

\* sample_node, by the timer until stop has stopped it.
sample_node(r) ==
  /\ samples[r] < MaxSamples[r] /\ stopping[r] \in {"no", "called", "done", "joining"}
  /\ samples' = [samples EXCEPT ![r] = @ + 1]
  /\ sampled' = [sampled EXCEPT ![r] = @ + finished_tasks[r]]
  /\ finished_tasks' = [finished_tasks EXCEPT ![r] = 0]
  /\ UNCHANGED <<output, item, queues, write, workerVars, timeVars, stopVars>>

\* get_task_times, called by the optimizer: what was recorded since the last
\* call.  It is returned as a rate, divided by the nanoseconds since that call;
\* handed adds up the dividends.
get_task_times(r) ==
  LET new == Minus(task_times[r], last_times[r])
  IN
  /\ task_times[r] # last_times[r]
  /\ requests' = [requests EXCEPT ![r] = @ + 1]
  /\ handed' = [handed EXCEPT ![r] = [q \in Tracked |-> @[q] + new[q]]]
  /\ last_times' = [last_times EXCEPT ![r] = task_times[r]]
  /\ UNCHANGED <<output, item, queues, write, workerVars, finished_tasks, sampleVars,
                 task_times, stopVars>>

------------------------------------------------------------------------------
(* process_profiles, in a thread of its own.                               *)

\* The head of the loop, with m_queue held: wait, or take what is left in the
\* queue to read and end.
LoopHead(r, rd) ==
  IF done[r]
  THEN /\ worker' = [worker EXCEPT ![r] = "ended"]
       /\ profiles' = [profiles EXCEPT ![r] = @ \cup queues[r][rd]]
       /\ queues' = [queues EXCEPT ![r][rd] = {}]
  ELSE /\ worker' = [worker EXCEPT ![r] = "wait"]
       /\ UNCHANGED <<profiles, queues>>

ProcessStart(r) ==
  /\ worker[r] = "start"
  /\ LoopHead(r, read[r])
  /\ UNCHANGED <<output, itemVars, read, write, sampleVars, timeVars, stopVars>>

\* A condition variable may also wake up by itself.
Spurious(r) ==
  /\ worker[r] = "wait"
  /\ worker' = Woken(r)
  /\ UNCHANGED <<output, itemVars, queues, read, write, profiles, sampleVars, timeVars, stopVars>>

\* Mutant of SwitchWrite: the handlers go on writing to the same queue.
SwitchWrite_Same(r) ==
  /\ worker[r] = "awake"
  /\ worker' = [worker EXCEPT ![r] = "drain"]
  /\ UNCHANGED <<output, itemVars, queues, read, write, profiles, sampleVars, timeVars, stopVars>>

\* Awake, with m_queue held again: the handlers write to the other queue.
SwitchWrite(r) ==
  /\ worker[r] = "awake"
  /\ write' = [write EXCEPT ![r] = (@ + 1) % 2]
  /\ worker' = [worker EXCEPT ![r] = "drain"]
  /\ UNCHANGED <<output, itemVars, queues, read, profiles, sampleVars, timeVars, stopVars>>

\* The queue to read is emptied without m_queue.
ProcessOne(r) ==
  /\ worker[r] = "drain"
  /\ \E i \in queues[r][read[r]] :
       /\ profiles' = [profiles EXCEPT ![r] = @ \cup {i}]
       /\ queues' = [queues EXCEPT ![r][read[r]] = @ \ {i}]
  /\ UNCHANGED <<output, itemVars, read, write, worker, sampleVars, timeVars, stopVars>>

\* Mutant of SwitchRead: the loop is left before the queue to read is switched.
SwitchRead_Late(r) ==
  /\ worker[r] = "drain" /\ queues[r][read[r]] = {}
  /\ read' = IF done[r] THEN read ELSE [read EXCEPT ![r] = (@ + 1) % 2]
  /\ LoopHead(r, read'[r])
  /\ UNCHANGED <<output, itemVars, write, sampleVars, timeVars, stopVars>>

\* It is empty: with m_queue held the other queue is the one to read next.
SwitchRead(r) ==
  /\ worker[r] = "drain" /\ queues[r][read[r]] = {}
  /\ read' = [read EXCEPT ![r] = (@ + 1) % 2]
  /\ LoopHead(r, read'[r])
  /\ UNCHANGED <<output, itemVars, write, sampleVars, timeVars, stopVars>>

------------------------------------------------------------------------------
(* stop.                                                                   *)

\* The program has waited for its work items.  Rank 0 calls stop of the others.
StopFirst ==
  /\ stopping[0] = "no" /\ \A i \in Items : item[i] = "counted"
  /\ stopping' = [stopping EXCEPT ![0] = "called"]
  /\ stop_calls' = Ranks \ {0}
  /\ UNCHANGED <<output, itemVars, queues, write, workerVars, sampleVars, timeVars, done, statistics>>

StopOther(r) ==
  /\ r \in stop_calls
  /\ stop_calls' = stop_calls \ {r}
  /\ stopping' = [stopping EXCEPT ![r] = "called"]
  /\ UNCHANGED <<output, itemVars, queues, write, workerVars, sampleVars, timeVars, done, statistics>>

\* done is set under m_queue, then the worker is notified and joined.
SetDone(r) ==
  /\ stopping[r] = "called"
  /\ done' = [done EXCEPT ![r] = TRUE]
  /\ stopping' = [stopping EXCEPT ![r] = "done"]
  /\ UNCHANGED <<output, itemVars, queues, write, workerVars, sampleVars, timeVars, stop_calls, statistics>>

\* Mutant of NotifyDone: the worker is not notified.
NotifyDone_Not(r) ==
  /\ stopping[r] = "done"
  /\ stopping' = [stopping EXCEPT ![r] = "joining"]
  /\ UNCHANGED <<output, itemVars, queues, write, workerVars, sampleVars, timeVars, done,
                 stop_calls, statistics>>

NotifyDone(r) ==
  /\ stopping[r] = "done"
  /\ worker' = Woken(r)
  /\ stopping' = [stopping EXCEPT ![r] = "joining"]
  /\ UNCHANGED <<output, itemVars, queues, read, write, profiles, sampleVars, timeVars, done,
                 stop_calls, statistics>>

Join(r) ==
  /\ stopping[r] = "joining" /\ worker[r] = "ended"
  /\ stopping' = [stopping EXCEPT ![r] = "joined"]
  /\ UNCHANGED <<output, itemVars, queues, write, workerVars, sampleVars, timeVars, done,
                 stop_calls, statistics>>

\* Mutant of Gather: rank 0 takes what the others have processed so far.
Gather_SoFar(r) ==
  /\ stopping[r] = "joined"
  /\ statistics' = IF output /\ r = 0 THEN UNION {profiles[o] : o \in Ranks} ELSE statistics
  /\ stopping' = [stopping EXCEPT ![r] = "gathered"]
  /\ UNCHANGED <<output, itemVars, queues, write, workerVars, sampleVars, timeVars, done, stop_calls>>

\* gather_there, and gather_here at rank 0, if there is something to print.
Gather(r) ==
  /\ stopping[r] = "joined"
  /\ output /\ r = 0 => \A o \in Ranks \ {0} : stopping[o] \in {"gathered", "returned"}
  /\ statistics' = IF output /\ r = 0 THEN UNION {profiles[o] : o \in Ranks} ELSE statistics
  /\ stopping' = [stopping EXCEPT ![r] = "gathered"]
  /\ UNCHANGED <<output, itemVars, queues, write, workerVars, sampleVars, timeVars, done, stop_calls>>

\* Rank 0 waits for an empty list of futures: the one it filled is another
\* variable of the same name.
Return(r) ==
  /\ stopping[r] = "gathered"
  /\ stopping' = [stopping EXCEPT ![r] = "returned"]
  /\ UNCHANGED <<output, itemVars, queues, write, workerVars, sampleVars, timeVars, done,
                 stop_calls, statistics>>

------------------------------------------------------------------------------
ItemStep(i) == ExecStart(i) \/ add_task_time(i) \/ ExecFinish(i) \/ Notify(i) \/ Count(i)

WorkerStep(r) == ProcessStart(r) \/ SwitchWrite(r) \/ ProcessOne(r) \/ SwitchRead(r)

StopStep(r) == StopOther(r) \/ SetDone(r) \/ NotifyDone(r) \/ Join(r) \/ Gather(r) \/ Return(r)

Next ==
  \/ StopFirst
  \/ \E i \in Items : ItemStep(i)
  \/ \E r \in Ranks : \/ WorkerStep(r) \/ StopStep(r)
                      \/ Spurious(r) \/ sample_node(r) \/ get_task_times(r)

\* The threads of the program, the worker threads and the calls of stop go on;
\* nobody has to sample, to ask for times or to wake up without a reason.
Fairness ==
  /\ WF_vars(StopFirst)
  /\ \A i \in Items : WF_vars(ItemStep(i))
  /\ \A r \in Ranks : WF_vars(WorkerStep(r)) /\ WF_vars(StopStep(r))

Spec == Init /\ [][Next]_vars /\ Fairness

------------------------------------------------------------------------------
(* Properties.                                                             *)

\* The queue the worker empties without the lock is never the one the handlers
\* write to (current_read_queue and current_write_queue).
QueuesApart == \A r \in Ranks : worker[r] = "drain" => read[r] # write[r]

\* When the worker of a locality has ended it has processed the profile of every
\* work item that ran there, whatever was in which queue when stop came and
\* however many notifications were lost.
AllProfiled == \A r \in Ranks : worker[r] = "ended" => profiles[r] = At(r)

\* The statistics that rank 0 prints are those of all localities' work items.
StatisticsComplete == stopping[0] = "returned" /\ output => statistics = Items

\* A finished work item is in exactly one sample, or in the next one
\* (finished_tasks is counted by the handlers and reset by sample_node).
SampledOnce ==
  \A r \in Ranks :
    sampled[r] + finished_tasks[r] = Cardinality({i \in At(r) : item[i] = "counted"})

Recorded(r) == {i \in At(r) \ Splits : item[i] \notin {"spawned", "started"}}

Total(times) == MapThenSumSet(LAMBDA q : times[q], Tracked)

\* What was handed to the optimizer and what is still to be handed out.
Kept(r) == Total([q \in Tracked |-> handed[r][q] + (task_times[r][q] - last_times[r][q])])

RunTime(r) == MapThenSumSet(LAMBDA i : Time[i], Recorded(r))

\* What rounding may have cost so far: half the distance of neighbouring floats
\* at each tracked time, twice for every recorded item (its share is made a
\* float and then added) and once for every request.
Rounding(r) ==
  (2 * Cardinality(Recorded(r)) + requests[r])
    * Total([q \in Tracked |-> Ulp(task_times[r][q]) \div 2])

\* The times handed to the optimizer, and those still to be handed out, add up to
\* the run times of the processed work items up to rounding, and exactly while
\* every tracked time is below 2^Mantissa: nothing else is lost or counted twice
\* between two requests or when a time is split over the tracked tasks
\* (task_times::add, operator- and monitor::get_task_times).
TimesWithinRounding ==
  \A r \in Ranks : Kept(r) - RunTime(r) \in -Rounding(r) .. Rounding(r)

\* stop returns on every locality: the worker notices that it has to end.
StopReturns == <>(\A r \in Ranks : stopping[r] = "returned")

\* "Wait for all the other localitites": stop of rank 0 returns after the others.
StopWaits == stopping[0] = "returned" => \A r \in Ranks : stopping[r] = "returned"
==============================================================================
