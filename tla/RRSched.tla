------------------------------ MODULE RRSched ------------------------------
(***************************************************************************)
(* The single-core round-robin scheduler of lps-linux/sched.c over the     *)
(* intrusive list queues of lps-linux/queue.h.                             *)
(*                                                                         *)
(* The scheduler, the system-call handlers and the sandboxes share one     *)
(* host thread: control moves between them only by kswitch, so exactly one *)
(* of them runs at a time.  `phase' says which:                            *)
(*   "host"  the embedding program, outside rrschedstart;                  *)
(*   "pick"  the scheduler loop, about to take the next thread;            *)
(*   "run"   thread cur, in its sandbox or in its system-call handler;     *)
(*   "back"  lps_thread_run(cur) has just returned to the loop.            *)
(* The operators below are the scheduler's steps and the primitives that   *)
(* handlers call; module Pipe composes them with the pipe device.          *)
(***************************************************************************)
EXTENDS Integers, Sequences

CONSTANTS
  Threads,      \* the LPSThreads of the program
  WaitQueues,   \* the names of the struct Queues threads can block on
  NoThread      \* no thread is loaded

ASSUME NoThreadAssumption == NoThread \notin Threads

VARIABLES
  state,        \* LPSThread.state
  runq,         \* the global run queue
  waitq,        \* the wait queues (Pipe.readq and Pipe.writeq)
  cur,          \* the thread lps_thread_run was last given
  phase,        \* who is running, see above
  utimer        \* the user timer interrupt was armed by rrschedstart

schedVars == <<state, runq, waitq, cur, phase, utimer>>

States == {"RUNNABLE", "BLOCKED", "EXITED"}
Phases == {"host", "pick", "run", "back"}

\* Thread t is linked into queue q.
In(t, q) == \E i \in DOMAIN q : q[i] = t

\* The host created t (calloc leaves the state RUNNABLE) and has not added it.
Fresh(t) == /\ state[t] = "RUNNABLE"
            /\ ~In(t, runq)
            /\ cur # t

SchedTypeOK ==
  /\ state \in [Threads -> States]
  /\ runq \in Seq(Threads)
  /\ waitq \in [WaitQueues -> Seq(Threads)]
  /\ cur \in Threads \cup {NoThread}
  /\ phase \in Phases
  /\ utimer \in BOOLEAN

SchedInit ==
  /\ state = [t \in Threads |-> "RUNNABLE"]
  /\ runq = <<>>
  /\ waitq = [q \in WaitQueues |-> <<>>]
  /\ cur = NoThread
  /\ phase = "host"
  /\ utimer = FALSE

-----------------------------------------------------------------------------
(* Steps of the host program and of the scheduler loop. *)

\* The host hands a new thread to the scheduler, once.
rrschedadd(t) ==
  /\ phase = "host"
  /\ Fresh(t)
  /\ runq' = Append(runq, t)
  /\ UNCHANGED <<state, waitq, cur, phase, utimer>>

\* Entry of the loop; the timer, once armed, stays armed.
rrschedstart(withTimer) ==
  /\ phase = "host"
  /\ phase' = "pick"
  /\ utimer' = (utimer \/ withTimer)
  /\ UNCHANGED <<state, runq, waitq, cur>>

\* queue_dequeue finds a thread and lps_thread_run switches to it.
get_next_runable ==
  /\ phase = "pick"
  /\ runq # <<>>
  /\ cur' = Head(runq)
  /\ runq' = Tail(runq)
  /\ phase' = "run"
  /\ UNCHANGED <<state, waitq, utimer>>

\* The run queue is empty: rrschedstart returns, whoever is still blocked.
rrschedreturn ==
  /\ phase = "pick"
  /\ runq = <<>>
  /\ phase' = "host"
  /\ UNCHANGED <<state, runq, waitq, cur, utimer>>

\* Bug form: the state is not looked at.
rrschedrequeue_always ==
  /\ phase = "back"
  /\ runq' = Append(runq, cur)
  /\ cur' = NoThread
  /\ phase' = "pick"
  /\ UNCHANGED <<state, waitq, utimer>>

\* Bug form: the thread goes back to the front of the queue.
rrschedrequeue_front ==
  /\ phase = "back"
  /\ runq' = IF state[cur] = "RUNNABLE" THEN <<cur>> \o runq ELSE runq
  /\ cur' = NoThread
  /\ phase' = "pick"
  /\ UNCHANGED <<state, waitq, utimer>>

\* lps_thread_run returned: a thread that is still RUNNABLE goes to the tail.
rrschedrequeue ==
  /\ phase = "back"
  /\ runq' = IF state[cur] = "RUNNABLE" THEN Append(runq, cur) ELSE runq
  /\ cur' = NoThread
  /\ phase' = "pick"
  /\ UNCHANGED <<state, waitq, utimer>>

-----------------------------------------------------------------------------
(* Primitives called by the system-call handlers of the running thread. *)

\* The handler of t is executing.
Running(t) == phase = "run" /\ cur = t

\* Switch from the handler back to the scheduler loop.
lps_thread_exit(t) ==
  /\ Running(t)
  /\ phase' = "back"
  /\ UNCHANGED <<runq, cur, utimer>>

rrschedblock(t, q) ==
  /\ lps_thread_exit(t)
  /\ state' = [state EXCEPT ![t] = "BLOCKED"]
  /\ waitq' = [waitq EXCEPT ![q] = Append(@, t)]

\* Every waiter of q moves, in order, to the tail of the run queue.
rrschedwake(q) ==
  /\ state' = [t \in Threads |-> IF In(t, waitq[q]) THEN "RUNNABLE" ELSE state[t]]
  /\ runq' = runq \o waitq[q]
  /\ waitq' = [waitq EXCEPT ![q] = <<>>]
  /\ UNCHANGED <<cur, phase, utimer>>

=============================================================================
