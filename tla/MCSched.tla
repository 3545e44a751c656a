------------------------------ MODULE MCSched ------------------------------
(***************************************************************************)
(* The multi-core scheduler of lps-linux/sched.c: NCore worker pthreads,   *)
(* each with a local RingQueue, one global RingQueue, and work stealing.   *)
(*                                                                         *)
(* The host adds the tasks, starts the workers and joins them, as the      *)
(* programs lps-sched and lps-bench do.  A worker is a loop of ring calls; *)
(* wk[w].pc is the point of mcsched_loop at which it waits for the result  *)
(* of the call it is in (rop[w]), e is its local variable e.               *)
(***************************************************************************)
EXTENDS RingQueue

CONSTANTS
  NCore,        \* mcsched_ncore
  NTasks,       \* LPSThreads the host adds
  MaxYield,     \* bound: how often one task yields before it exits
  Host          \* the host's pthread

Workers == 0 .. NCore - 1
Global == -1
Tasks == 1 .. NTasks

ASSUME CoreAssumption == NCore \in Nat \ {0}
ASSUME SizeAssumption == NTasks \in Nat /\ MaxYield \in Nat
ASSUME NamesAssumption ==
  /\ Procs = Workers \cup {Host}
  /\ Rings = Workers \cup {Global}
  /\ Elems = Tasks
  /\ Host \notin Workers

VARIABLES
  wk,           \* the workers
  host,         \* the host: next task to add, next worker to start, joined
  state,        \* LPSThread.state
  yields,       \* how often each task has yielded
  handed        \* history: how often each task left the global queue

vars == <<ringVars, wk, host, state, yields, handed>>
ringData == <<buf, head, tail, count, hlock, tlock>>

Init ==
  /\ RingInit
  /\ wk = [w \in Workers |-> [pc |-> "unborn", e |-> Null, i |-> 0]]
  /\ host = [pc |-> "add", i |-> 1]
  /\ state = [t \in Tasks |-> "RUNNABLE"]
  /\ yields = [t \in Tasks |-> 0]
  /\ handed = [t \in Tasks |-> 0]

-----------------------------------------------------------------------------
(* The host *)

\* mcsched_add puts task host.i into the global queue ...
mcsched_add ==
  /\ host.pc = "add" /\ host.i <= NTasks
  /\ rop[Host].fn = "none"
  /\ Call(Host, "push_one", Global, <<host.i>>, 0)
  /\ UNCHANGED <<ringData, wk, host, state, yields, handed>>

\* ... and its callers do not look at the result.
mcsched_add_return ==
  /\ Returned(Host)
  /\ rop' = [rop EXCEPT ![Host] = NoCall]
  /\ host' = [host EXCEPT !.i = @ + 1]
  /\ UNCHANGED <<ringData, wk, state, yields, handed>>

\* One pthread_create of mcshed_start.
mcshed_start ==
  LET next == {w \in Workers : wk[w].pc = "unborn"} IN
  /\ host.pc \in {"add", "start"} /\ host.i > NTasks
  /\ \E w \in next :
       /\ \A v \in next : w <= v
       /\ wk' = [wk EXCEPT ![w].pc = "local"]
       /\ Call(w, "pop_one", w, <<>>, 1)
  /\ host' = [host EXCEPT !.pc = IF \E v, w \in next : v # w THEN "start" ELSE "join"]
  /\ UNCHANGED <<ringData, state, yields, handed>>

\* Every worker has returned.
mcsched_join ==
  /\ host.pc = "join"
  /\ \A w \in Workers : wk[w].pc = "exit"
  /\ host' = [host EXCEPT !.pc = "done"]
  /\ UNCHANGED <<ringVars, wk, state, yields, handed>>

-----------------------------------------------------------------------------
(* mcsched_loop *)

\* Worker w has the result of the call it made at pc.
Back(w, pc) == wk[w].pc = pc /\ Returned(w)

\* The pointer a single-element pop returned.
Result(w) == IF rop[w].out = <<>> THEN Null ELSE rop[w].out[1]

\* Move worker w to pc with e; the next ring call, if any, is a conjunct.
Step(w, pc, e, i) == wk' = [wk EXCEPT ![w] = [pc |-> pc, e |-> e, i |-> i]]

NoRing(w) == rop' = [rop EXCEPT ![w] = NoCall]

\* 1. The local queue had a task.
LocalHit(w) ==
  /\ Back(w, "local")
  /\ Result(w) # Null
  /\ Step(w, "run", Result(w), 0)
  /\ NoRing(w)
  /\ UNCHANGED <<ringData, host, state, yields, handed>>

\* 2. It had none: take a share of the global queue, sized by its count now.
LocalMiss(w) ==
  /\ Back(w, "local")
  /\ Result(w) = Null
  /\ Step(w, "global", Null, 0)
  /\ Call(w, "pop", Global, <<>>, (count[Global] \div NCore) + 1)
  /\ UNCHANGED <<ringData, host, state, yields, handed>>

\* A share arrived and is moved to the local queue.
GlobalHit(w) ==
  LET got == rop[w].out IN
  /\ Back(w, "global")
  /\ got # <<>>
  /\ Step(w, "push", Null, 0)
  /\ Call(w, "push", w, got, 0)
  /\ handed' = [t \in Tasks |-> handed[t] + (IF \E k \in DOMAIN got : got[k] = t
                                             THEN 1 ELSE 0)]
  /\ UNCHANGED <<ringData, host, state, yields>>

\* assert(ring_push(...) == count), then the first of the share.
PushDone(w) ==
  /\ Back(w, "push")
  /\ IF rop[w].i = Len(rop[w].in)
     THEN Step(w, "again", Null, 0) /\ Call(w, "pop_one", w, <<>>, 1)
     ELSE Step(w, "abort", Null, 0) /\ NoRing(w)
  /\ UNCHANGED <<ringData, host, state, yields, handed>>

Again(w) ==
  /\ Back(w, "again")
  /\ Step(w, IF Result(w) = Null THEN "exit" ELSE "run", Result(w), 0)
  /\ NoRing(w)
  /\ UNCHANGED <<ringData, host, state, yields, handed>>

\* The next queue to steal from, from i on; NCore when there is none.
Victim(w, i) ==
  CHOOSE v \in i .. NCore : v # w /\ \A u \in i .. v - 1 : u = w

\* The body of the steal loop from i on: another queue, or the loop ends and
\* a worker with no task leaves.
StealFrom(w, i, e) ==
  LET v == Victim(w, i) IN
  IF v < NCore
  THEN Step(w, "steal", e, v) /\ Call(w, "pop_back", v, <<>>, 1)
  ELSE Step(w, IF e = Null THEN "exit" ELSE "run", e, 0) /\ NoRing(w)

\* 3. The global queue gave nothing: steal.
GlobalMiss(w) ==
  /\ Back(w, "global")
  /\ rop[w].out = <<>>
  /\ StealFrom(w, 0, Null)
  /\ UNCHANGED <<ringData, host, state, yields, handed>>

\* e is overwritten by every queue in turn: the break is commented out.
Stolen(w) ==
  /\ Back(w, "steal")
  /\ StealFrom(w, wk[w].i + 1, Result(w))
  /\ UNCHANGED <<ringData, host, state, yields, handed>>

\* lps_thread_run returns because the task exited ...
RunExit(w) ==
  /\ wk[w].pc = "run"
  /\ state' = [state EXCEPT ![wk[w].e] = "EXITED"]
  /\ Step(w, "local", Null, 0)
  /\ Call(w, "pop_one", w, <<>>, 1)
  /\ UNCHANGED <<ringData, host, yields, handed>>

\* ... or because it yielded: back to the local queue.
RunYield(w) ==
  LET t == wk[w].e IN
  /\ wk[w].pc = "run"
  /\ state[t] = "RUNNABLE"
  /\ yields[t] < MaxYield
  /\ yields' = [yields EXCEPT ![t] = @ + 1]
  /\ Step(w, "requeue", Null, 0)
  /\ Call(w, "push_one", w, <<t>>, 0)
  /\ UNCHANGED <<ringData, host, state, handed>>

\* The result of ring_push_one is not looked at.
Requeued(w) ==
  /\ Back(w, "requeue")
  /\ Step(w, "local", Null, 0)
  /\ Call(w, "pop_one", w, <<>>, 1)
  /\ UNCHANGED <<ringData, host, state, yields, handed>>

\* A failed assertion ends the process.
Aborted == \E w \in Workers : wk[w].pc = "abort"

mcsched_loop(w) ==
  \/ LocalHit(w) \/ LocalMiss(w)
  \/ GlobalHit(w) \/ GlobalMiss(w) \/ PushDone(w) \/ Again(w)
  \/ Stolen(w)
  \/ RunExit(w) \/ RunYield(w) \/ Requeued(w)

InRing(p) == RingStep(p) /\ UNCHANGED <<wk, host, state, yields, handed>>

Next ==
  /\ ~Aborted
  /\ \/ mcsched_add \/ mcsched_add_return \/ mcshed_start \/ mcsched_join
     \/ \E w \in Workers : mcsched_loop(w)
     \/ \E p \in Procs : InRing(p)

Spec == Init /\ [][Next]_vars

\* The host and the workers keep running, tasks yield only MaxYield times, and
\* a mutex that is free again and again is eventually obtained.
Fairness ==
  /\ WF_vars(mcsched_add \/ mcsched_add_return \/ mcshed_start \/ mcsched_join)
  /\ \A w \in Workers : WF_vars(mcsched_loop(w))
  /\ \A p \in Procs :
       /\ WF_vars(InRing(p))
       /\ SF_vars(LockHead(p) /\ UNCHANGED <<wk, host, state, yields, handed>>)
       /\ SF_vars(LockTail(p) /\ UNCHANGED <<wk, host, state, yields, handed>>)

FairSpec == Spec /\ Fairness

-----------------------------------------------------------------------------
(* Properties *)

Gone(w) == wk[w].pc = "exit"

\* The places task t is in while no ring function is under way: <<w, 0>> is
\* worker w running it, <<q, k>> the k-th cell of queue q from its head.
Spots(t) ==
  {<<w, 0>> : w \in {v \in Workers : wk[v].pc = "run" /\ wk[v].e = t}} \cup
  {p \in Rings \X (1 .. Cap) : p[2] <= count[p[1]] /\ Queued(p[1])[p[2]] = t}

\* With one worker no task is lost or doubled between the two queues and the
\* worker, over any number of yields and rounds of the ring: whenever no ring
\* function is under way, every task that was added and has not exited is in
\* exactly one place, and an exited one in none.
EachInOnePlace ==
  (\A p \in Procs : rop[p].fn = "none") =>
    \A t \in Tasks :
      IF t < host.i /\ state[t] = "RUNNABLE"
      THEN \E p \in Spots(t) : Spots(t) = {p}
      ELSE Spots(t) = {}

\* When mcsched_join returns, every task the host added has exited.
JoinMeansFinished ==
  host.pc = "done" => \A t \in Tasks : state[t] = "EXITED"

\* The global queue hands no task out twice, to whichever workers.
HandedAtMostOnce == \A t \in Tasks : handed[t] <= 1

\* The global queue hands every task to exactly one worker, however the
\* workers' batches interleave, and a share always fits the local queue (the
\* assertion on ring_push); when the last worker has left, all are out.
HandedOutOnce ==
  /\ ~Aborted
  /\ HandedAtMostOnce
  /\ (\A w \in Workers : Gone(w)) => \A t \in Tasks : handed[t] = 1

\* Every worker comes to an end and mcsched_join returns.
JoinReturns == <>(host.pc = "done")

=============================================================================
