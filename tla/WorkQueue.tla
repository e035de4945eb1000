------------------------------ MODULE WorkQueue ------------------------------
(***************************************************************************)
(* libworkq over libthread: a pool of queues with one worker thread each,  *)
(* and one thread that pushes tasks and destroys the pool. thread_create   *)
(* gives every thread the type THREAD_LOCK_COND, for which thread_lock and *)
(* thread_unlock do nothing: pushes, pops and waits interleave at every    *)
(* access to the list, which is why its pointers are modelled one by one.  *)
(***************************************************************************)
EXTENDS Integers, FiniteSets

CONSTANTS Queues,     \* the number of work queues (cpus)
          MaxTasks,   \* bound: tasks pushed
          MayDestroy  \* whether the pool is destroyed at some point

ASSUME WorkQueueAssumption ==
    Queues \in Nat \ {0} /\ MaxTasks \in Nat /\ MayDestroy \in BOOLEAN

VARIABLES next, prev,  \* the list pointers, of tasks and of list heads
          run, load,   \* wq->run, wq->load
          wpc,         \* where each worker is
          task,        \* the task a worker is busy with
          del,         \* the neighbours list_del_init works on, per thread
          mpc,         \* where the pushing thread is
          mq,          \* the queue it is looking at
          mtask,       \* the task it creates or destroys
          mprev,       \* head->prev as list_add_tail read it
          made,        \* tasks created so far
          freed,       \* tasks freed so far
          runs,        \* how often each task was run, bound: counted up to 2
          ub           \* whether a freed task was accessed, so that nothing is known

vars == <<next, prev, run, load, wpc, task, del, mpc, mq, mtask, mprev, made,
          freed, runs, ub>>
worker == <<run, load, wpc, task, runs>>
pusher == <<mpc, mq, mtask, mprev, made>>
mem == <<freed, ub>>

Q == 1 .. Queues
Tasks == 1 .. MaxTasks
Anchor(q) == -q
Node == Tasks \cup {Anchor(q) : q \in Q}
Main == 0
NULL == 0

\* workq_pool_create: a worker per queue, all lists empty
Init ==
    /\ next = [n \in Node |-> n] /\ prev = [n \in Node |-> n]
    /\ run = [q \in Q |-> 1] /\ load = [q \in Q |-> 0]
    /\ wpc = [q \in Q |-> "top"] /\ task = [q \in Q |-> NULL]
    /\ del = [th \in Q \cup {Main} |-> <<NULL, NULL>>]
    /\ mpc = "idle" /\ mq = 1 /\ mtask = NULL /\ mprev = NULL
    /\ made = 0 /\ freed = {} /\ runs = [t \in Tasks |-> 0]
    /\ ub = FALSE

-----------------------------------------------------------------------------
\* list_del_init(t) by thread th: the neighbours are read, then each is bent to
\* the other, then t to itself
DelRead(th, t) ==
    /\ del' = [del EXCEPT ![th] = <<prev[t], next[t]>>]
    /\ ub' = (ub \/ t \in freed)
    /\ UNCHANGED <<next, prev, freed>>
DelNext(th) ==
    /\ prev' = [prev EXCEPT ![del[th][2]] = del[th][1]]
    /\ ub' = (ub \/ del[th][2] \in freed)
    /\ UNCHANGED <<next, del, freed>>
DelPrev(th) ==
    /\ next' = [next EXCEPT ![del[th][1]] = del[th][2]]
    /\ ub' = (ub \/ del[th][1] \in freed)
    /\ UNCHANGED <<prev, del, freed>>
DelFree(th, t) ==
    /\ next' = [next EXCEPT ![t] = t]
    /\ prev' = [prev EXCEPT ![t] = t]
    /\ ub' = (ub \/ t \in freed)
    /\ freed' = freed \cup {t}
    /\ UNCHANGED del

\* thread_signal: the worker wakes if it waits, else nothing happens
thread_signal(q) ==
    wpc' = IF wpc[q] = "wait" THEN [wpc EXCEPT ![q] = "test"] ELSE wpc

-----------------------------------------------------------------------------
\* workq_pool_task_push: find_underrun_workq looks at one queue after the other
\* and forces the task on the last one when all are busy
Push ==
    /\ mpc = "idle"
    /\ made < MaxTasks
    /\ mpc' = "find"
    /\ mq' = 1
    /\ UNCHANGED <<next, prev, worker, del, mtask, mprev, made, mem>>

find_underrun_workq ==
    /\ mpc = "find"
    /\ \/ /\ load[mq] = 0 \/ mq = Queues
          /\ mpc' = "add"
          /\ made' = made + 1
          /\ mtask' = made + 1
          /\ UNCHANGED mq
       \/ /\ load[mq] # 0 /\ mq < Queues
          /\ mq' = mq + 1
          /\ UNCHANGED <<mpc, made, mtask>>
    /\ UNCHANGED <<next, prev, worker, del, mprev, mem>>

\* task_create: list_add_tail in three steps, then the signal
AddRead ==
    /\ mpc = "add"
    /\ mprev' = prev[Anchor(mq)]
    /\ mpc' = "add head"
    /\ UNCHANGED <<next, prev, worker, del, mq, mtask, made, mem>>

AddHead ==
    /\ mpc = "add head"
    /\ prev' = [prev EXCEPT ![Anchor(mq)] = mtask, ![mtask] = mprev]
    /\ next' = [next EXCEPT ![mtask] = Anchor(mq)]
    /\ mpc' = "add tail"
    /\ UNCHANGED <<worker, del, mq, mtask, mprev, made, mem>>

AddTail ==
    /\ mpc = "add tail"
    /\ next' = [next EXCEPT ![mprev] = mtask]
    /\ ub' = (ub \/ mprev \in freed)
    /\ mpc' = "signal"
    /\ UNCHANGED <<prev, worker, del, mq, mtask, mprev, made, freed>>

AddSignal ==
    /\ mpc = "signal"
    /\ thread_signal(mq)
    /\ mpc' = "idle"
    /\ UNCHANGED <<next, prev, run, load, task, runs, del, mq, mtask, mprev,
                   made, mem>>

task_create == AddRead \/ AddHead \/ AddTail \/ AddSignal

-----------------------------------------------------------------------------
\* _task_thread
Top(q) ==
    /\ wpc[q] = "top"
    /\ wpc' = [wpc EXCEPT ![q] = IF run[q] = 1 THEN "test" ELSE "exit"]
    /\ UNCHANGED <<next, prev, run, load, task, runs, del, pusher, mem>>

Test(q) ==
    /\ wpc[q] = "test"
    /\ wpc' = [wpc EXCEPT ![q] = IF next[Anchor(q)] = Anchor(q) /\ run[q] = 1
                                 THEN "to wait" ELSE "first"]
    /\ UNCHANGED <<next, prev, run, load, task, runs, del, pusher, mem>>

\* pthread_cond_wait: a signal sent before this step is not seen
Wait(q) ==
    /\ wpc[q] = "to wait"
    /\ wpc' = [wpc EXCEPT ![q] = "wait"]
    /\ UNCHANGED <<next, prev, run, load, task, runs, del, pusher, mem>>

Spurious(q) ==
    /\ wpc[q] = "wait"
    /\ wpc' = [wpc EXCEPT ![q] = "test"]
    /\ UNCHANGED <<next, prev, run, load, task, runs, del, pusher, mem>>

\* list_first_entry_or_null tests the list and then reads it
First(q) ==
    /\ wpc[q] = "first"
    /\ wpc' = [wpc EXCEPT ![q] = IF next[Anchor(q)] = Anchor(q) THEN "top" ELSE "entry"]
    /\ UNCHANGED <<next, prev, run, load, task, runs, del, pusher, mem>>

\* emptied in between, the list head is taken for a task
Entry(q) ==
    /\ wpc[q] = "entry"
    /\ \/ /\ next[Anchor(q)] # Anchor(q)
          /\ task' = [task EXCEPT ![q] = next[Anchor(q)]]
          /\ wpc' = [wpc EXCEPT ![q] = "busy"]
          /\ UNCHANGED ub
       \/ /\ next[Anchor(q)] = Anchor(q)
          /\ wpc' = [wpc EXCEPT ![q] = "exit"]
          /\ ub' = TRUE
          /\ UNCHANGED task
    /\ UNCHANGED <<next, prev, run, load, runs, del, pusher, freed>>

Busy(q) ==
    /\ wpc[q] = "busy"
    /\ load' = [load EXCEPT ![q] = 1]
    /\ ub' = (ub \/ task[q] \in freed)
    /\ wpc' = [wpc EXCEPT ![q] = "run"]
    /\ UNCHANGED <<next, prev, run, task, runs, del, pusher, freed>>

Run(q) ==
    /\ wpc[q] = "run"
    /\ runs' = [runs EXCEPT ![task[q]] = IF @ < 2 THEN @ + 1 ELSE @]
    /\ ub' = (ub \/ task[q] \in freed)
    /\ wpc' = [wpc EXCEPT ![q] = "del"]
    /\ UNCHANGED <<next, prev, run, load, task, del, pusher, freed>>

\* Mutant: the task is freed and stays linked.
WorkerDestroys_linked(q) ==
    /\ wpc[q] = "del"
    /\ freed' = freed \cup {task[q]}
    /\ task' = [task EXCEPT ![q] = NULL]
    /\ load' = [load EXCEPT ![q] = 0]
    /\ wpc' = [wpc EXCEPT ![q] = "top"]
    /\ UNCHANGED <<next, prev, run, runs, del, pusher, ub>>

WorkerDestroys(q) ==
    /\ \/ /\ wpc[q] = "del"
          /\ DelRead(q, task[q])
          /\ wpc' = [wpc EXCEPT ![q] = "del next"]
          /\ UNCHANGED <<load, task>>
       \/ /\ wpc[q] = "del next"
          /\ DelNext(q)
          /\ wpc' = [wpc EXCEPT ![q] = "del prev"]
          /\ UNCHANGED <<load, task>>
       \/ /\ wpc[q] = "del prev"
          /\ DelPrev(q)
          /\ wpc' = [wpc EXCEPT ![q] = "free"]
          /\ UNCHANGED <<load, task>>
       \/ /\ wpc[q] = "free"
          /\ DelFree(q, task[q])
          /\ wpc' = [wpc EXCEPT ![q] = "idle"]
          /\ task' = [task EXCEPT ![q] = NULL]
          /\ UNCHANGED load
       \/ /\ wpc[q] = "idle"
          /\ wpc' = [wpc EXCEPT ![q] = "top"]
          /\ load' = [load EXCEPT ![q] = 0]
          /\ UNCHANGED <<next, prev, del, task, freed, ub>>
    /\ UNCHANGED <<run, runs, pusher>>

_task_thread(q) ==
    \/ Top(q) \/ Test(q) \/ Wait(q) \/ First(q) \/ Entry(q) \/ Busy(q) \/ Run(q)
    \/ WorkerDestroys(q)
-----------------------------------------------------------------------------
\* workq_pool_destroy, last queue first: workq_destroy frees the tasks left,
\* clears run, signals and joins
Destroy ==
    /\ MayDestroy
    /\ mpc = "idle"
    /\ mpc' = "clear"
    /\ mq' = Queues
    /\ UNCHANGED <<next, prev, worker, del, mtask, mprev, made, mem>>

Clear ==
    /\ mpc = "clear"
    /\ \/ /\ next[Anchor(mq)] # Anchor(mq)
          /\ mpc' = "first"
          /\ UNCHANGED run
       \/ /\ next[Anchor(mq)] = Anchor(mq)
          /\ run' = [run EXCEPT ![mq] = 0]
          /\ mpc' = "stop"
    /\ UNCHANGED <<next, prev, load, wpc, task, runs, del, mq, mtask, mprev, made, mem>>

\* emptied since the test, the list gives NULL or its head, which task_destroy
\* dereferences
ClearFirst ==
    /\ mpc = "first"
    /\ \/ /\ next[Anchor(mq)] # Anchor(mq)
          /\ mtask' = next[Anchor(mq)]
          /\ mpc' = "del"
          /\ UNCHANGED ub
       \/ /\ next[Anchor(mq)] = Anchor(mq)
          /\ mpc' = "done"
          /\ ub' = TRUE
          /\ UNCHANGED mtask
    /\ UNCHANGED <<next, prev, worker, del, mq, mprev, made, freed>>

MainDestroys ==
    /\ \/ mpc = "del" /\ DelRead(Main, mtask) /\ mpc' = "del next"
       \/ mpc = "del next" /\ DelNext(Main) /\ mpc' = "del prev"
       \/ mpc = "del prev" /\ DelPrev(Main) /\ mpc' = "free"
       \/ mpc = "free" /\ DelFree(Main, mtask) /\ mpc' = "clear"
    /\ UNCHANGED <<worker, mq, mtask, mprev, made>>

Stop ==
    /\ mpc = "stop"
    /\ thread_signal(mq)
    /\ mpc' = "join"
    /\ UNCHANGED <<next, prev, run, load, task, runs, del, mq, mtask, mprev,
                   made, mem>>


Join ==
    /\ mpc = "join"
    /\ wpc[mq] = "exit"
    /\ \/ mq > 1 /\ mq' = mq - 1 /\ mpc' = "clear"
       \/ mq = 1 /\ mpc' = "done" /\ UNCHANGED mq
    /\ UNCHANGED <<next, prev, worker, del, mtask, mprev, made, mem>>

workq_pool_task_push == find_underrun_workq \/ task_create

workq_destroy == Clear \/ ClearFirst \/ MainDestroys \/ Stop \/ Join

\* a destroyed pool, or one nobody pushes to any more, stays as it is
Idle ==
    /\ mpc = "done" \/ (mpc = "idle" /\ made = MaxTasks)
    /\ UNCHANGED vars

Next ==
    \/ Push \/ workq_pool_task_push \/ Destroy \/ workq_destroy \/ Idle
    \/ \E q \in Q : _task_thread(q) \/ Spurious(q)

Spec == Init /\ [][Next]_vars

\* Every thread goes on while it can; nothing makes a caller push or destroy, and
\* a wait without a signal need not end.
FairSpec ==
    /\ Spec
    /\ WF_vars(workq_pool_task_push \/ workq_destroy)
    /\ \A q \in Q : WF_vars(_task_thread(q))

-----------------------------------------------------------------------------
\* the pushing thread is in workq_pool_destroy
Destroying ==
    mpc \in {"clear", "first", "del", "del next", "del prev", "free", "stop", "join"}

\* Pointers point at tasks and list heads, and a worker has a task while the task
\* is on its way through _task_thread.
TypeOK ==
    /\ next \in [Node -> Node] /\ prev \in [Node -> Node]
    /\ run \in [Q -> {0, 1}] /\ load \in [Q -> {0, 1}]
    /\ \A q \in Q : wpc[q] \in {"busy", "run", "del", "del next", "del prev", "free"}
                    <=> task[q] \in Tasks
    /\ \A q \in Q : task[q] \in Tasks \cup {NULL}
    /\ made \in 0 .. MaxTasks /\ freed \subseteq Tasks

\* Until workq_pool_destroy is called, no interleaving of list_add_tail with
\* list_del_init makes a worker take a task twice, take a freed one, or take one
\* another worker has, as long as no freed task was written to.
TaskRunsOnce ==
    \/ ub \/ Destroying \/ mpc = "done"
    \/ /\ \A t \in Tasks : runs[t] <= 1
       /\ \A q \in Q : task[q] \notin freed
       /\ \A p, q \in Q : task[p] = task[q] /\ task[p] # NULL => p = q


\* test_libworkq.c pushes tasks, waits and destroys the pool: a task that was
\* pushed is run.
EveryTaskRuns == \A t \in Tasks : (made >= t) ~> (runs[t] > 0 \/ ub)

\* test_libworkq.c goes on to its main loop after workq_pool_destroy: destroying
\* a pool returns.
DestroyReturns == (mpc = "clear") ~> (mpc = "done" \/ ub)
=============================================================================
