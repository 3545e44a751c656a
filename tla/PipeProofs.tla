----------------------------- MODULE PipeProofs -----------------------------
(***************************************************************************)
(* Proofs about module Pipe for every number of threads, every size of the *)
(* pipe table and of the buffers, and every bound on the requests.         *)
(***************************************************************************)
EXTENDS Pipe, TLAPS

-----------------------------------------------------------------------------
(* Queues *)

\* What queue_enqueue, queue_dequeue and the loop of rrschedwake do to the
\* members of a queue.
LEMMA InAppend ==
  ASSUME NEW S, NEW q \in Seq(S), NEW u \in S, NEW t
  PROVE  In(t, Append(q, u)) <=> In(t, q) \/ t = u
<1>1. /\ Append(q, u) \in Seq(S)
      /\ Len(Append(q, u)) = Len(q) + 1
      /\ \A i \in 1 .. Len(q) : Append(q, u)[i] = q[i]
      /\ Append(q, u)[Len(q) + 1] = u
  OBVIOUS
<1>2. DOMAIN q = 1 .. Len(q) /\ DOMAIN Append(q, u) = 1 .. Len(q) + 1
  BY <1>1
<1>3. 1 .. Len(q) + 1 = (1 .. Len(q)) \cup {Len(q) + 1}
  OBVIOUS
<1> QED
  BY <1>1, <1>2, <1>3 DEF In

\* A member of the tail of a queue is a member of the queue.
LEMMA InTail ==
  ASSUME NEW S, NEW q \in Seq(S), q # <<>>, NEW t, In(t, Tail(q))
  PROVE  In(t, q)
BY DEF In

\* The members of two queues put together are the members of both.
LEMMA InConcat ==
  ASSUME NEW S, NEW q \in Seq(S), NEW r \in Seq(S), NEW t
  PROVE  In(t, q \o r) <=> In(t, q) \/ In(t, r)
<1>1. /\ q \o r \in Seq(S)
      /\ Len(q \o r) = Len(q) + Len(r)
      /\ \A i \in 1 .. Len(q) + Len(r) :
           (q \o r)[i] = IF i <= Len(q) THEN q[i] ELSE r[i - Len(q)]
  OBVIOUS
<1>2. /\ DOMAIN q = 1 .. Len(q) /\ DOMAIN r = 1 .. Len(r)
      /\ DOMAIN (q \o r) = 1 .. Len(q) + Len(r)
      /\ Len(q) \in Nat /\ Len(r) \in Nat
  BY <1>1
<1>3. ASSUME NEW i \in 1 .. Len(r)
      PROVE  /\ i + Len(q) \in 1 .. Len(q) + Len(r)
             /\ (q \o r)[i + Len(q)] = r[i]
  BY <1>1, <1>2
<1>4. ASSUME NEW i \in 1 .. Len(q)
      PROVE  /\ i \in 1 .. Len(q) + Len(r)
             /\ (q \o r)[i] = q[i]
  BY <1>1, <1>2
<1>5. ASSUME NEW i \in 1 .. Len(q) + Len(r), i > Len(q)
      PROVE  /\ i - Len(q) \in 1 .. Len(r)
             /\ (q \o r)[i] = r[i - Len(q)]
  <2>1. ~(i <= Len(q)) /\ i - Len(q) \in 1 .. Len(r)
    BY <1>5, <1>2
  <2> QED
    BY <2>1, <1>1, Zenon
<1>6. ASSUME In(t, q \o r) PROVE In(t, q) \/ In(t, r)
  <2>1. PICK i \in 1 .. Len(q) + Len(r) : (q \o r)[i] = t
    BY <1>6, <1>2 DEF In
  <2>2. CASE i <= Len(q)
    <3>1. i \in 1 .. Len(q)
      BY <2>2, <1>2
    <3> QED  BY <3>1, <2>1, <1>4, <1>2 DEF In
  <2>3. CASE i > Len(q)
    BY <2>3, <2>1, <1>5, <1>2 DEF In
  <2> QED  BY <2>2, <2>3, <1>2
<1>7. ASSUME In(t, q) \/ In(t, r) PROVE In(t, q \o r)
  BY <1>7, <1>2, <1>3, <1>4 DEF In
<1> QED
  BY <1>6, <1>7

\* The empty queue has no members.
LEMMA InEmpty ==
  ASSUME NEW t
  PROVE  ~In(t, <<>>)
BY DEF In

\* A queue without members is empty.
LEMMA EmptyQueue ==
  ASSUME NEW Q, NEW S, NEW w \in [Q -> Seq(S)], NEW q
  PROVE  [w EXCEPT ![q] = <<>>] \in [Q -> Seq(S)]
<1>1. <<>> \in Seq(S)
  OBVIOUS
<1> QED
  BY <1>1, Zenon

\* The position in the ring is an index of the buffer.
LEMMA RingPosition ==
  ASSUME NEW k \in Nat
  PROVE  k % PIPESZ \in 0 .. PIPESZ - 1
BY PIPESZAssumption

-----------------------------------------------------------------------------
(* Types *)

\* What the locals of a handler say about its pipe.
FrameOK(f) ==
  /\ f.op = "read" => f.done = 0
  /\ f.op \in {"write", "block"} => f.done <= f.n
  /\ f.op = "copy" => /\ f.done <= f.n
                      /\ f.n - f.done <= nwrite[f.p] - nread[f.p]

\* The frames of a read that is copying, of a full write and of an exit exist
\* only while their thread runs: no other handler comes between the test of
\* the counters in pipe_read and the copy that relies on it.
FrameInv ==
  \A t \in Threads :
    /\ FrameOK(call[t])
    /\ call[t].op \in {"copy", "block", "exit"} => phase = "run" /\ cur = t

\* A thread is loaded whenever the loop is not between two threads.
LoadedInv == phase \in {"run", "back"} => cur \in Threads

\* The types alone are not inductive: a size is a natural number because the
\* counters do not cross.
CoreInv == TypeOK /\ RingBounded /\ FrameInv /\ LoadedInv

\* The core invariant holds initially.
LEMMA InitCore == Init => CoreInv
<1> SUFFICES ASSUME Init PROVE CoreInv
  OBVIOUS
<1> USE PIPESZAssumption, NPIPEAssumption, QueueAssumption, NoThreadAssumption
<1>1. Idle \in [op : Ops, p : Nat, n : Nat, done : Nat]
  BY DEF Idle, Ops
<1>2. SchedTypeOK
  <2>1. waitq \in [WaitQueues -> Seq(Threads)]
    BY DEF Init, SchedInit
  <2>2. state \in [Threads -> States]
    BY DEF Init, SchedInit, States
  <2>3. runq \in Seq(Threads) /\ cur \in Threads \cup {NoThread}
    BY DEF Init, SchedInit
  <2>4. phase \in Phases /\ utimer \in BOOLEAN
    BY DEF Init, SchedInit, Phases
  <2> QED
    BY <2>1, <2>2, <2>3, <2>4 DEF SchedTypeOK
<1>3. TypeOK
  BY <1>1, <1>2 DEF Init, TypeOK, Garbage, Idle
<1>4. RingBounded
  BY DEF Init, RingBounded, avail_space
<1>5. FrameInv
  BY DEF Init, FrameInv, FrameOK, Idle
<1>6. LoadedInv
  BY DEF Init, SchedInit, LoadedInv
<1> QED
  BY <1>3, <1>4, <1>5, <1>6 DEF CoreInv

\* The scheduler's primitives keep the types of the scheduler's state.
LEMMA ExitTypes ==
  ASSUME SchedTypeOK, NEW t \in Threads, lps_thread_exit(t),
         UNCHANGED <<state, waitq>>
  PROVE  SchedTypeOK'
BY DEF SchedTypeOK, lps_thread_exit, Phases

\* rrschedblock keeps the types of the scheduler.
LEMMA BlockTypes ==
  ASSUME SchedTypeOK, NEW t \in Threads, NEW q \in WaitQueues, rrschedblock(t, q)
  PROVE  SchedTypeOK'
<1>1. state' \in [Threads -> States]
  BY DEF SchedTypeOK, rrschedblock, States
<1>2. waitq' \in [WaitQueues -> Seq(Threads)]
  BY DEF SchedTypeOK, rrschedblock
<1> QED
  BY <1>1, <1>2 DEF SchedTypeOK, rrschedblock, lps_thread_exit, Phases

\* rrschedwake keeps the types of the scheduler.
LEMMA WakeTypes ==
  ASSUME SchedTypeOK, NEW q \in WaitQueues, rrschedwake(q)
  PROVE  SchedTypeOK'
<1>1. state' \in [Threads -> States]
  BY DEF SchedTypeOK, rrschedwake, States
<1>2. waitq' \in [WaitQueues -> Seq(Threads)]
  BY DEF SchedTypeOK, rrschedwake
<1>3. runq' \in Seq(Threads)
  BY DEF SchedTypeOK, rrschedwake
<1> QED
  BY <1>1, <1>2, <1>3 DEF SchedTypeOK, rrschedwake

\* A step of the scheduler loop keeps the types of the scheduler.
LEMMA LoopTypes ==
  ASSUME SchedTypeOK,
         get_next_runable \/ rrschedreturn \/ rrschedrequeue
           \/ (\E t \in Threads : rrschedadd(t)) \/ \E b \in BOOLEAN : rrschedstart(b),
         phase = "back" => cur \in Threads
  PROVE  SchedTypeOK'
<1>1. CASE get_next_runable
  BY <1>1 DEF SchedTypeOK, get_next_runable, Phases
<1>2. CASE rrschedreturn
  BY <1>2 DEF SchedTypeOK, rrschedreturn, Phases
<1>3. CASE rrschedrequeue
  <2>1. runq' \in Seq(Threads)
    BY <1>3 DEF SchedTypeOK, rrschedrequeue
  <2> QED
    BY <1>3, <2>1 DEF SchedTypeOK, rrschedrequeue, Phases
<1>4. ASSUME NEW t \in Threads, rrschedadd(t) PROVE SchedTypeOK'
  BY <1>4 DEF SchedTypeOK, rrschedadd
<1>5. ASSUME NEW b \in BOOLEAN, rrschedstart(b) PROVE SchedTypeOK'
  BY <1>5 DEF SchedTypeOK, rrschedstart, Phases
<1> QED
  BY <1>1, <1>2, <1>3, <1>4, <1>5

\* A step of the host, of the scheduler loop or of a thread leaving its
\* sandbox that does not touch the pipes and starts no handler.
LEMMA CoreLeave ==
  ASSUME CoreInv, UNCHANGED pipeVars, SchedTypeOK', LoadedInv',
         \A t \in Threads : call[t].op \in {"copy", "block", "exit"}
                              => phase' = "run" /\ cur' = t
  PROVE  CoreInv'
<1>1. TypeOK'
  BY DEF CoreInv, TypeOK, pipeVars, devVars, dataVars, fdVars
<1>2. RingBounded'
  BY DEF CoreInv, RingBounded, avail_space, pipeVars, devVars, dataVars
<1>3. FrameInv'
  BY DEF CoreInv, FrameInv, FrameOK, pipeVars, dataVars
<1> QED
  BY <1>1, <1>2, <1>3 DEF CoreInv

\* A handler step that changes only its own frame, to op.
LEMMA CoreFrame ==
  ASSUME CoreInv, NEW t \in Threads, Running(t), SchedTypeOK',
         UNCHANGED <<devVars, dataVars, fdVars>>, phase' = phase, cur' = cur,
         NEW f \in [op : Ops, p : Nat, n : Nat, done : Nat],
         call' = [call EXCEPT ![t] = f],
         f.op \in {"read", "copy", "write", "block"} => f.p \in Slots,
         FrameOK(f)
  PROVE  CoreInv'
<1>1. call' \in [Threads -> [op : Ops, p : Nat, n : Nat, done : Nat]]
  BY DEF CoreInv, TypeOK
<1>2. \A u \in Threads : call'[u] = IF u = t THEN f ELSE call[u]
  BY DEF CoreInv, TypeOK
<1>3. TypeOK'
  BY <1>1, <1>2 DEF CoreInv, TypeOK, devVars, dataVars, fdVars
<1>4. RingBounded'
  BY DEF CoreInv, RingBounded, avail_space, dataVars
<1>5. FrameInv'
  BY <1>2 DEF CoreInv, FrameInv, FrameOK, dataVars, Running
<1>6. LoadedInv'
  BY DEF CoreInv, LoadedInv
<1> QED
  BY <1>3, <1>4, <1>5, <1>6 DEF CoreInv

\* pipe_read: the frame's size is fixed from the counters.
LEMMA CoreReadSize ==
  ASSUME CoreInv, NEW t \in Threads, pipe_read_size(t)
  PROVE  CoreInv'
<1> DEFINE p == call[t].p
           f == [call[t] EXCEPT !.op = "copy", !.n = Least(@, nwrite[p] - nread[p])]
<1>1. /\ call[t] \in [op : Ops, p : Nat, n : Nat, done : Nat]
      /\ p \in Slots /\ nwrite[p] \in Nat /\ nread[p] \in Nat
      /\ nread[p] <= nwrite[p]
  BY DEF CoreInv, TypeOK, RingBounded, pipe_read_size, At
<1>2. Least(call[t].n, nwrite[p] - nread[p]) \in Nat
  BY <1>1 DEF Least
<1>3. f \in [op : Ops, p : Nat, n : Nat, done : Nat]
  BY <1>1, <1>2 DEF Ops
<1>4. call' = [call EXCEPT ![t] = f]
  BY DEF pipe_read_size
<1>5. FrameOK(f) /\ f.p \in Slots
  BY <1>1 DEF CoreInv, FrameInv, FrameOK, pipe_read_size, At, Least
<1>6. SchedTypeOK' /\ phase' = phase /\ cur' = cur
  BY DEF CoreInv, TypeOK, SchedTypeOK, pipe_read_size, schedVars
<1> QED
  BY <1>3, <1>4, <1>5, <1>6, CoreFrame DEF pipe_read_size, At

\* pipe_read: one memcpy out of the ring.
LEMMA CoreReadCopy ==
  ASSUME CoreInv, NEW t \in Threads, pipe_read_copy(t)
  PROVE  CoreInv'
<1> DEFINE p == call[t].p
           pos == nread[p] % PIPESZ
           chunk == read_chunk(t)
           bytes == [i \in 1 .. chunk |-> data[p][pos + i - 1]]
<1> USE PIPESZAssumption
<1>1. /\ call[t] \in [op : Ops, p : Nat, n : Nat, done : Nat]
      /\ p \in Slots /\ nwrite[p] \in Nat /\ nread[p] \in Nat
      /\ call[t].op = "copy" /\ call[t].done < call[t].n
      /\ call[t].n - call[t].done <= nwrite[p] - nread[p]
      /\ Running(t)
  BY DEF CoreInv, TypeOK, FrameInv, FrameOK, pipe_read_copy, At
<1>2. pos \in 0 .. PIPESZ - 1
  BY <1>1, RingPosition
<1>3. /\ chunk \in Nat \ {0}
      /\ chunk <= call[t].n - call[t].done
      /\ chunk <= PIPESZ - pos
  BY <1>1, <1>2 DEF read_chunk, Least
<1>4. bytes \in Seq(Int)
  <2>1. \A i \in 1 .. chunk : pos + i - 1 \in 0 .. PIPESZ - 1
    BY <1>2, <1>3
  <2>2. data[p] \in [0 .. PIPESZ - 1 -> Int]
    BY <1>1 DEF CoreInv, TypeOK
  <2>3. \A k \in 0 .. PIPESZ - 1 : data[p][k] \in Int
    BY <2>2
  <2> HIDE DEF pos, chunk
  <2>4. \A i \in 1 .. chunk : data[p][pos + i - 1] \in Int
    BY <2>1, <2>3
  <2> QED
    BY <2>4, <1>3
<1>5. rcvd' \in [Slots -> Seq(Int)]
  <2>1. rcvd' = [rcvd EXCEPT ![p] = rcvd[p] \o bytes]
    BY DEF pipe_read_copy
  <2>2. rcvd[p] \in Seq(Int)
    BY <1>1 DEF CoreInv, TypeOK
  <2> HIDE DEF bytes
  <2>3. rcvd[p] \o bytes \in Seq(Int)
    BY <2>2, <1>4
  <2> QED
    BY <2>1, <2>3 DEF CoreInv, TypeOK
<1>6. /\ nread' = [nread EXCEPT ![p] = nread[p] + chunk]
      /\ call' = [call EXCEPT ![t] = [call[t] EXCEPT !.done = call[t].done + chunk]]
      /\ UNCHANGED <<schedVars, devVars, nwrite, data, wsent, fdVars>>
  BY DEF pipe_read_copy
<1> HIDE DEF pos, chunk, bytes
<1>c. /\ nread \in [Slots -> Nat] /\ nwrite \in [Slots -> Nat] /\ nwrite' = nwrite
      /\ \A q \in Slots : nread'[q] = IF q = p THEN nread[p] + chunk ELSE nread[q]
  BY <1>6 DEF CoreInv, TypeOK
<1>7. [call[t] EXCEPT !.done = call[t].done + chunk]
        \in [op : Ops, p : Nat, n : Nat, done : Nat]
  BY <1>1, <1>3
<1>8. TypeOK'
  <2>1. SchedTypeOK'
    BY <1>6 DEF CoreInv, TypeOK, SchedTypeOK, schedVars
  <2>2. nread' \in [Slots -> Nat]
    BY <1>1, <1>3, <1>6, <1>c
  <2>3. call' \in [Threads -> [op : Ops, p : Nat, n : Nat, done : Nat]]
    BY <1>6, <1>7 DEF CoreInv, TypeOK
  <2>4. \A u \in Threads : call'[u].op = call[u].op /\ call'[u].p = call[u].p
    BY <1>1, <1>6 DEF CoreInv, TypeOK
  <2> QED
    BY <1>5, <1>6, <2>1, <2>2, <2>3, <2>4 DEF CoreInv, TypeOK, devVars, fdVars
<1>9. RingBounded'
  <2>1. ASSUME NEW q \in Slots
        PROVE  nread'[q] <= nwrite'[q] /\ PIPESZ - (nwrite'[q] - nread'[q]) >= 0
    <3>1. nread[q] <= nwrite[q] /\ PIPESZ - (nwrite[q] - nread[q]) >= 0
      BY DEF CoreInv, RingBounded, avail_space
    <3> QED
      BY <3>1, <1>1, <1>3, <1>c
  <2> QED
    BY <2>1 DEF RingBounded, avail_space
<1>10. FrameInv' /\ LoadedInv'
  <2>1. \A u \in Threads \ {t} : call'[u] = call[u] /\ call[u].op # "copy"
    BY <1>1, <1>6 DEF CoreInv, TypeOK, FrameInv, Running
  <2>2. call'[t] = [call[t] EXCEPT !.done = call[t].done + chunk]
    BY <1>1, <1>6 DEF CoreInv, TypeOK
  <2>3. FrameOK(call[t])'
    BY <1>1, <1>3, <1>c, <2>2 DEF FrameOK
  <2> QED
    BY <1>6, <2>1, <2>2, <2>3, <1>1
       DEF CoreInv, FrameInv, FrameOK, LoadedInv, schedVars, Running
<1> QED
  BY <1>8, <1>9, <1>10 DEF CoreInv

\* pipe_write: one memcpy into the ring.
LEMMA CoreWriteCopy ==
  ASSUME CoreInv, NEW t \in Threads, pipe_write_copy(t)
  PROVE  CoreInv'
<1> DEFINE p == call[t].p
           pos == nwrite[p] % PIPESZ
           chunk == write_chunk(t)
           ring == [k \in 0 .. PIPESZ - 1 |->
                      IF pos <= k /\ k < pos + chunk
                      THEN wsent[p] + call[t].done + (k - pos)
                      ELSE data[p][k]]
<1> USE PIPESZAssumption
<1>1. /\ call[t] \in [op : Ops, p : Nat, n : Nat, done : Nat]
      /\ p \in Slots /\ nwrite[p] \in Nat /\ nread[p] \in Nat /\ wsent[p] \in Nat
      /\ call[t].op = "write" /\ call[t].done < call[t].n
      /\ nread[p] <= nwrite[p] /\ PIPESZ - (nwrite[p] - nread[p]) > 0
      /\ Running(t)
  BY DEF CoreInv, TypeOK, RingBounded, avail_space, pipe_write_copy, At
<1>2. pos \in 0 .. PIPESZ - 1
  BY <1>1, RingPosition
<1>3. /\ chunk \in Nat \ {0}
      /\ chunk <= call[t].n - call[t].done
      /\ chunk <= PIPESZ - (nwrite[p] - nread[p])
      /\ chunk <= PIPESZ - pos
  BY <1>1, <1>2 DEF write_chunk, avail_space, Least
<1>4. /\ data' = [data EXCEPT ![p] = ring]
      /\ nwrite' = [nwrite EXCEPT ![p] = nwrite[p] + chunk]
      /\ call' = [call EXCEPT ![t] = [call[t] EXCEPT !.done = call[t].done + chunk]]
      /\ UNCHANGED <<schedVars, devVars, nread, wsent, rcvd, fdVars>>
  BY DEF pipe_write_copy
<1>5. ring \in [0 .. PIPESZ - 1 -> Int]
  <2>1. data[p] \in [0 .. PIPESZ - 1 -> Int]
    BY <1>1 DEF CoreInv, TypeOK
  <2>2. \A k \in 0 .. PIPESZ - 1 : wsent[p] + call[t].done + (k - pos) \in Int
    BY <1>1, <1>2
  <2> QED
    BY <2>1, <2>2
<1> HIDE DEF pos, chunk, ring
<1>c. /\ nread \in [Slots -> Nat] /\ nwrite \in [Slots -> Nat] /\ nread' = nread
      /\ \A q \in Slots : nwrite'[q] = IF q = p THEN nwrite[p] + chunk ELSE nwrite[q]
  BY <1>4 DEF CoreInv, TypeOK
<1>6. TypeOK'
  <2>1. SchedTypeOK'
    BY <1>4 DEF CoreInv, TypeOK, SchedTypeOK, schedVars
  <2>2. nwrite' \in [Slots -> Nat]
    BY <1>1, <1>3, <1>4, <1>c
  <2>3. data' \in [Slots -> [0 .. PIPESZ - 1 -> Int]]
    BY <1>1, <1>4, <1>5 DEF CoreInv, TypeOK
  <2>4. [call[t] EXCEPT !.done = call[t].done + chunk]
          \in [op : Ops, p : Nat, n : Nat, done : Nat]
    BY <1>1, <1>3
  <2>5. call' \in [Threads -> [op : Ops, p : Nat, n : Nat, done : Nat]]
    BY <1>4, <2>4 DEF CoreInv, TypeOK
  <2>6. \A u \in Threads : call'[u].op = call[u].op /\ call'[u].p = call[u].p
    BY <1>1, <1>4 DEF CoreInv, TypeOK
  <2> QED
    BY <1>4, <2>1, <2>2, <2>3, <2>5, <2>6 DEF CoreInv, TypeOK, devVars, fdVars
<1>7. RingBounded'
  <2>1. ASSUME NEW q \in Slots
        PROVE  nread'[q] <= nwrite'[q] /\ PIPESZ - (nwrite'[q] - nread'[q]) >= 0
    <3>1. nread[q] <= nwrite[q] /\ PIPESZ - (nwrite[q] - nread[q]) >= 0
      BY DEF CoreInv, RingBounded, avail_space
    <3> QED
      BY <3>1, <1>1, <1>3, <1>c
  <2> QED
    BY <2>1 DEF RingBounded, avail_space
<1>8. FrameInv' /\ LoadedInv'
  <2>1. \A u \in Threads \ {t} : call'[u] = call[u] /\ call[u].op # "copy"
    BY <1>1, <1>4 DEF CoreInv, TypeOK, FrameInv, Running
  <2>2. call'[t] = [call[t] EXCEPT !.done = call[t].done + chunk]
    BY <1>1, <1>4 DEF CoreInv, TypeOK
  <2>3. FrameOK(call[t])'
    BY <1>1, <1>3, <2>2 DEF FrameOK
  <2> QED
    BY <1>4, <2>1, <2>2, <2>3, <1>1
       DEF CoreInv, FrameInv, FrameOK, LoadedInv, schedVars, Running
<1> QED
  BY <1>6, <1>7, <1>8 DEF CoreInv

\* lps_pipe_new
LEMMA CorePipeNew ==
  ASSUME CoreInv, NEW from \in Threads, NEW to \in Threads, NEW p \in Slots,
         lps_pipe_new(from, to, p)
  PROVE  CoreInv'
<1> USE PIPESZAssumption
<1> DEFINE blank == [k \in 0 .. PIPESZ - 1 |-> Garbage]
<1>1. SchedTypeOK'
  <2> DEFINE noReaders == [waitq EXCEPT ![readq(p)] = <<>>]
  <2>2. noReaders \in [WaitQueues -> Seq(Threads)]
    BY EmptyQueue DEF CoreInv, TypeOK, SchedTypeOK
  <2>3. waitq' = [noReaders EXCEPT ![writeq(p)] = <<>>]
    BY DEF lps_pipe_new
  <2> HIDE DEF noReaders
  <2>1. waitq' \in [WaitQueues -> Seq(Threads)]
    BY <2>2, <2>3, EmptyQueue
  <2> QED
    BY <2>1 DEF CoreInv, TypeOK, SchedTypeOK, lps_pipe_new
<1>2. data' \in [Slots -> [0 .. PIPESZ - 1 -> Int]]
  <2>1. blank \in [0 .. PIPESZ - 1 -> Int]
    BY DEF Garbage
  <2>2. data' = [data EXCEPT ![p] = blank]
    BY DEF lps_pipe_new
  <2> QED
    BY <2>1, <2>2 DEF CoreInv, TypeOK
<1>3. TypeOK'
  <2>1. /\ allocated' \in [Slots -> BOOLEAN]
        /\ readopen' \in [Slots -> BOOLEAN]
        /\ writeopen' \in [Slots -> BOOLEAN]
    BY Zenon DEF CoreInv, TypeOK, lps_pipe_new
  <2>2. /\ nread' \in [Slots -> Nat]
        /\ nwrite' \in [Slots -> Nat]
        /\ wsent' \in [Slots -> Nat]
    BY DEF CoreInv, TypeOK, lps_pipe_new
  <2>3. /\ rfd' \in [Slots -> Threads \cup {NoThread}]
        /\ wfd' \in [Slots -> Threads \cup {NoThread}]
    BY DEF CoreInv, TypeOK, lps_pipe_new
  <2>4. rcvd' \in [Slots -> Seq(Int)]
    BY DEF CoreInv, TypeOK, lps_pipe_new
  <2> QED
    BY <1>1, <1>2, <2>1, <2>2, <2>3, <2>4 DEF CoreInv, TypeOK, lps_pipe_new
<1>4. RingBounded'
  BY DEF CoreInv, TypeOK, RingBounded, avail_space, lps_pipe_new
<1>5. FrameInv'
  BY DEF CoreInv, TypeOK, FrameInv, FrameOK, lps_pipe_new
<1>6. LoadedInv'
  BY DEF CoreInv, LoadedInv, lps_pipe_new
<1> QED
  BY <1>3, <1>4, <1>5, <1>6 DEF CoreInv

\* pipe_close of either end, called by fdfree.
LEMMA CoreClose ==
  ASSUME CoreInv, NEW p \in Slots, NEW ropen \in BOOLEAN, NEW wopen \in BOOLEAN,
         PipeRelease(p, ropen, wopen), NEW q \in WaitQueues, rrschedwake(q),
         UNCHANGED call,
         rfd' \in [Slots -> Threads \cup {NoThread}],
         wfd' \in [Slots -> Threads \cup {NoThread}]
  PROVE  CoreInv'
<1> USE PIPESZAssumption
<1> DEFINE blank == [k \in 0 .. PIPESZ - 1 |-> Garbage]
<1>1. SchedTypeOK'
  BY WakeTypes DEF CoreInv, TypeOK
<1>2. data' \in [Slots -> [0 .. PIPESZ - 1 -> Int]]
  <2>1. blank \in [0 .. PIPESZ - 1 -> Int]
    BY DEF Garbage
  <2>2. data' = data \/ data' = [data EXCEPT ![p] = blank]
    BY DEF PipeRelease
  <2> QED
    BY <2>1, <2>2 DEF CoreInv, TypeOK
<1>3. /\ allocated' \in [Slots -> BOOLEAN]
      /\ readopen' \in [Slots -> BOOLEAN]
      /\ writeopen' \in [Slots -> BOOLEAN]
  BY Zenon DEF CoreInv, TypeOK, PipeRelease
<1>4. TypeOK'
  BY <1>1, <1>2, <1>3 DEF CoreInv, TypeOK, PipeRelease
<1>5. RingBounded'
  BY DEF CoreInv, RingBounded, avail_space, PipeRelease
<1>6. FrameInv' /\ LoadedInv'
  BY DEF CoreInv, FrameInv, FrameOK, LoadedInv, PipeRelease, rrschedwake
<1> QED
  BY <1>4, <1>5, <1>6 DEF CoreInv

\* Every step keeps the core invariant, one case per action.
LEMMA NextCore ==
  ASSUME CoreInv, [Next]_vars
  PROVE  CoreInv'
<1> USE PIPESZAssumption, NPIPEAssumption
<1>q. \A p \in Slots : readq(p) \in WaitQueues /\ writeq(p) \in WaitQueues
  BY QueueAssumption DEF readq, writeq, PipeQueues
<1>f. /\ SchedTypeOK
      /\ \A t \in Threads : call[t] \in [op : Ops, p : Nat, n : Nat, done : Nat]
      /\ \A t \in Threads : call[t].op \in {"read", "copy", "write", "block"}
                              => call[t].p \in Slots
      /\ Idle \in [op : Ops, p : Nat, n : Nat, done : Nat]
      /\ FrameOK(Idle)
      /\ Slots \subseteq Nat
  BY DEF CoreInv, TypeOK, Idle, Ops, FrameOK, Slots
<1>l. ASSUME UNCHANGED pipeVars,
             get_next_runable \/ rrschedreturn \/ rrschedrequeue
               \/ (\E t \in Threads : rrschedadd(t))
               \/ \E b \in BOOLEAN : rrschedstart(b)
      PROVE  CoreInv'
  <2>1. SchedTypeOK'
    BY <1>l, <1>f, LoopTypes DEF CoreInv, LoadedInv
  <2>2. phase # "run"
    BY <1>l DEF get_next_runable, rrschedreturn, rrschedrequeue, rrschedadd,
                rrschedstart
  <2>3. \A t \in Threads : call[t].op \notin {"copy", "block", "exit"}
    BY <2>2 DEF CoreInv, FrameInv
  <2>4. LoadedInv'
    BY <1>l, <1>f DEF LoadedInv, get_next_runable, rrschedreturn, rrschedrequeue,
                rrschedadd, rrschedstart, SchedTypeOK
  <2> QED
    BY <1>l, <2>1, <2>3, <2>4, CoreLeave
<1>x. ASSUME NEW t \in Threads, At(t, "none"), lps_thread_exit(t),
             UNCHANGED <<state, waitq, pipeVars>>
      PROVE  CoreInv'
  <2>1. SchedTypeOK'
    BY <1>x, <1>f, ExitTypes
  <2>2. \A u \in Threads : call[u].op \notin {"copy", "block", "exit"}
    BY <1>x DEF CoreInv, FrameInv, At, Running
  <2>3. LoadedInv'
    BY <1>x DEF LoadedInv, lps_thread_exit, Running
  <2> QED
    BY <1>x, <2>1, <2>2, <2>3, CoreLeave
<1>1. CASE Host
  <2>1. ASSUME NEW from \in Threads, NEW to \in Threads, NEW p \in Slots,
               lps_pipe_new(from, to, p)
        PROVE  CoreInv'
    BY <2>1, CorePipeNew
  <2> QED
    BY <1>1, <2>1, <1>l DEF Host
<1>2. CASE Loop
  BY <1>2, <1>l DEF Loop
<1>3. ASSUME NEW t \in Threads, User(t) PROVE CoreInv'
  <2>1. ASSUME NEW p \in Slots, NEW n \in 1 .. MaxN, sys_read(t, p, n) PROVE CoreInv'
    <3> DEFINE f == [op |-> "read", p |-> p, n |-> n, done |-> 0]
    <3>1. f \in [op : Ops, p : Nat, n : Nat, done : Nat] /\ FrameOK(f) /\ f.p \in Slots
      BY <1>f, BoundAssumption DEF Ops, FrameOK
    <3> QED
      BY <2>1, <3>1, <1>f, CoreFrame DEF sys_read, At, schedVars, SchedTypeOK
  <2>2. ASSUME NEW p \in Slots, NEW n \in 1 .. MaxN, sys_write(t, p, n) PROVE CoreInv'
    <3> DEFINE f == [op |-> "write", p |-> p, n |-> n, done |-> 0]
    <3>1. f \in [op : Ops, p : Nat, n : Nat, done : Nat] /\ FrameOK(f) /\ f.p \in Slots
      BY <1>f, BoundAssumption DEF Ops, FrameOK
    <3> QED
      BY <2>2, <3>1, <1>f, CoreFrame DEF sys_write, At, schedVars, SchedTypeOK
  <2>3. ASSUME NEW p \in Slots, sys_close_read(t, p) \/ sys_close_write(t, p)
        PROVE  CoreInv'
    <3>1. TypeOK'
      BY <2>3 DEF CoreInv, TypeOK, SchedTypeOK, sys_close_read, sys_close_write,
                  schedVars, devVars, dataVars
    <3> QED
      BY <2>3, <3>1 DEF CoreInv, RingBounded, avail_space, FrameInv, FrameOK, LoadedInv,
             sys_close_read, sys_close_write, schedVars, dataVars
  <2>4. ASSUME sys_exit(t) PROVE CoreInv'
    <3> DEFINE f == [call[t] EXCEPT !.op = "exit"]
    <3>1. f \in [op : Ops, p : Nat, n : Nat, done : Nat] /\ FrameOK(f) /\ f.op = "exit"
      BY <1>f DEF Ops, FrameOK
    <3>2. SchedTypeOK'
      BY <2>4, <1>f DEF sys_exit, SchedTypeOK, States
    <3>3. call' = [call EXCEPT ![t] = f]
      BY <2>4 DEF sys_exit, Goto
    <3> QED
      BY <2>4, <3>1, <3>2, <3>3, CoreFrame DEF sys_exit, At
  <2>5. ASSUME sys_runtime_call(t) PROVE CoreInv'
    BY <2>5, <1>x DEF sys_runtime_call
  <2> QED
    BY <1>3, <2>1, <2>2, <2>3, <2>4, <2>5 DEF User
<1>4. ASSUME NEW t \in Threads, Handler(t) PROVE CoreInv'
  <2> DEFINE p == call[t].p
  <2>b. ASSUME NEW q \in WaitQueues, rrschedblock(t, q), call[t].op \in {"read", "block"},
               NEW g \in [op : Ops, p : Nat, n : Nat, done : Nat], FrameOK(g),
               g.op \in {"read", "write"}, g.p = p,
               call' = [call EXCEPT ![t] = g],
               UNCHANGED <<devVars, dataVars, fdVars>>
        PROVE  CoreInv'
    <3>1. SchedTypeOK'
      BY <2>b, <1>f, BlockTypes
    <3>2. call' \in [Threads -> [op : Ops, p : Nat, n : Nat, done : Nat]]
      BY <2>b DEF CoreInv, TypeOK
    <3>3. \A u \in Threads : call'[u] = IF u = t THEN g ELSE call[u]
      BY <2>b DEF CoreInv, TypeOK
    <3>4. TypeOK'
      BY <2>b, <3>1, <3>2, <3>3, <1>f DEF CoreInv, TypeOK, devVars, dataVars, fdVars
    <3>5. RingBounded'
      BY <2>b DEF CoreInv, RingBounded, avail_space, dataVars
    <3>6. \A u \in Threads \ {t} : call[u].op \notin {"copy", "block", "exit"}
      BY <2>b DEF rrschedblock, lps_thread_exit, Running, CoreInv, FrameInv
    <3>7. FrameInv'
      BY <2>b, <3>3, <3>6 DEF CoreInv, FrameInv, FrameOK, dataVars
    <3>8. LoadedInv'
      BY <2>b DEF rrschedblock, lps_thread_exit, Running, LoadedInv
    <3> QED
      BY <3>4, <3>5, <3>7, <3>8 DEF CoreInv
  <2>w. ASSUME NEW q \in WaitQueues, rrschedwake(q), Running(t),
               NEW g \in [op : Ops, p : Nat, n : Nat, done : Nat], FrameOK(g),
               g.op \in {"read", "copy", "write", "block"} => g.p \in Slots,
               call' = [call EXCEPT ![t] = g],
               UNCHANGED <<devVars, dataVars, fdVars>>
        PROVE  CoreInv'
    <3>1. SchedTypeOK' /\ phase' = phase /\ cur' = cur
      BY <2>w, <1>f, WakeTypes DEF rrschedwake
    <3> QED
      BY <2>w, <3>1, CoreFrame
  <2>1. ASSUME pipe_read_wait(t) PROVE CoreInv'
    <3>1. call' = [call EXCEPT ![t] = call[t]]
      BY <2>1 DEF pipe_read_wait, pipeVars, CoreInv, TypeOK
    <3> QED
      BY <2>1, <3>1, <2>b, <1>f, <1>q
         DEF pipe_read_wait, At, pipeVars, CoreInv, FrameInv
  <2>2. ASSUME pipe_read_size(t) PROVE CoreInv'
    BY <2>2, CoreReadSize
  <2>3. ASSUME pipe_read_copy(t) PROVE CoreInv'
    BY <2>3, CoreReadCopy
  <2>4. ASSUME pipe_read_return(t) PROVE CoreInv'
    BY <2>4, <2>w, <1>f, <1>q DEF pipe_read_return, At, Return, Idle
  <2>5. ASSUME pipe_write_fail(t) PROVE CoreInv'
    <3>1. call' = [call EXCEPT ![t] = Idle]
      BY <2>5 DEF pipe_write_fail, Return
    <3>2. SchedTypeOK' /\ phase' = phase /\ cur' = cur
      BY <2>5, <1>f DEF pipe_write_fail, schedVars, SchedTypeOK
    <3> QED
      BY <2>5, <3>1, <3>2, <1>f, CoreFrame DEF pipe_write_fail, At, Idle
  <2>6. ASSUME pipe_write_full(t) PROVE CoreInv'
    <3> DEFINE g == [call[t] EXCEPT !.op = "block"]
    <3>1. call' = [call EXCEPT ![t] = g]
      BY <2>6 DEF pipe_write_full, Goto
    <3>2. g \in [op : Ops, p : Nat, n : Nat, done : Nat] /\ FrameOK(g) /\ g.p \in Slots
      BY <2>6, <1>f DEF pipe_write_full, At, Ops, CoreInv, FrameInv, FrameOK
    <3> QED
      BY <2>6, <3>1, <3>2, <2>w, <1>f, <1>q DEF pipe_write_full, At
  <2>7. ASSUME pipe_write_wait(t) PROVE CoreInv'
    <3> DEFINE g == [call[t] EXCEPT !.op = "write"]
    <3>1. call' = [call EXCEPT ![t] = g]
      BY <2>7 DEF pipe_write_wait, Goto
    <3>2. /\ g \in [op : Ops, p : Nat, n : Nat, done : Nat] /\ FrameOK(g)
          /\ g.op = "write" /\ g.p = p
      BY <2>7, <1>f DEF pipe_write_wait, At, Ops, CoreInv, FrameInv, FrameOK
    <3> HIDE DEF g
    <3> QED
      BY <2>7, <3>1, <3>2, <2>b, <1>f, <1>q DEF pipe_write_wait, At
  <2>8. ASSUME pipe_write_copy(t) PROVE CoreInv'
    BY <2>8, CoreWriteCopy
  <2>9. ASSUME pipe_write_return(t) PROVE CoreInv'
    <3>1. call[t] \in [op : Ops, p : Nat, n : Nat, done : Nat] /\ p \in Slots /\ Running(t)
      BY <2>9, <1>f DEF pipe_write_return, At
    <3>6. SchedTypeOK' /\ phase' = phase /\ cur' = cur
      BY <2>9, <3>1, <1>f, <1>q, WakeTypes DEF pipe_write_return, rrschedwake
    <3>7. wsent' \in [Slots -> Nat]
      <4>1. wsent' = [wsent EXCEPT ![p] = wsent[p] + call[t].n]
        BY <2>9 DEF pipe_write_return
      <4>2. wsent[p] + call[t].n \in Nat
        BY <3>1 DEF CoreInv, TypeOK
      <4> QED
        BY <4>1, <4>2 DEF CoreInv, TypeOK
    <3>2. /\ SchedTypeOK' /\ phase' = phase /\ cur' = cur
          /\ wsent' \in [Slots -> Nat]
      BY <3>6, <3>7
    <3>3. /\ call' \in [Threads -> [op : Ops, p : Nat, n : Nat, done : Nat]]
          /\ \A u \in Threads : call'[u] = IF u = t THEN Idle ELSE call[u]
      BY <2>9, <1>f DEF pipe_write_return, Return, CoreInv, TypeOK
    <3>4. TypeOK'
      <4>1. \A u \in Threads : call'[u].op \in {"read", "copy", "write", "block"}
                                => call'[u].p \in Slots
        BY <3>3, <1>f DEF Idle
      <4> QED
        BY <2>9, <3>2, <3>3, <4>1 DEF pipe_write_return, CoreInv, TypeOK, devVars, fdVars
    <3>5. RingBounded' /\ FrameInv' /\ LoadedInv'
      BY <2>9, <3>1, <3>2, <3>3, <1>f DEF pipe_write_return, CoreInv, RingBounded,
         avail_space, FrameInv, FrameOK, LoadedInv, Running, Idle
    <3> QED
      BY <3>4, <3>5 DEF CoreInv
  <2>10. ASSUME NEW r \in Slots, fdfree_read(t, r) \/ fdfree_write(t, r) PROVE CoreInv'
    <3>1. /\ rfd' \in [Slots -> Threads \cup {NoThread}]
          /\ wfd' \in [Slots -> Threads \cup {NoThread}]
          /\ UNCHANGED call
      BY <2>10 DEF fdfree_read, fdfree_write, CoreInv, TypeOK
    <3>2. readopen[r] \in BOOLEAN /\ writeopen[r] \in BOOLEAN
      BY DEF CoreInv, TypeOK
    <3>3. CASE fdfree_read(t, r)
      BY <3>1, <3>2, <3>3, <1>q, CoreClose DEF fdfree_read, pipe_close_read
    <3>4. CASE fdfree_write(t, r)
      BY <3>1, <3>2, <3>4, <1>q, CoreClose DEF fdfree_write, pipe_close_write
    <3> QED
      BY <2>10, <3>3, <3>4
  <2>11. ASSUME sys_exit_switch(t) PROVE CoreInv'
    <3>1. SchedTypeOK'
      BY <2>11, <1>f, ExitTypes DEF sys_exit_switch
    <3>2. /\ call' \in [Threads -> [op : Ops, p : Nat, n : Nat, done : Nat]]
          /\ \A u \in Threads : call'[u] = IF u = t THEN Idle ELSE call[u]
      BY <2>11, <1>f DEF sys_exit_switch, Return, CoreInv, TypeOK
    <3>3. TypeOK'
      <4>1. \A u \in Threads : call'[u].op \in {"read", "copy", "write", "block"}
                                => call'[u].p \in Slots
        BY <3>2, <1>f DEF Idle
      <4> QED
        BY <2>11, <3>1, <3>2, <4>1 DEF sys_exit_switch, CoreInv, TypeOK, devVars,
                                        dataVars, fdVars
    <3>4. RingBounded' /\ FrameInv' /\ LoadedInv'
      BY <2>11, <3>2, <1>f DEF sys_exit_switch, CoreInv, RingBounded, avail_space,
         FrameInv, FrameOK, LoadedInv, lps_thread_exit, At, Running, Idle, dataVars
    <3> QED
      BY <3>3, <3>4 DEF CoreInv
  <2> QED
    BY <1>4, <2>1, <2>2, <2>3, <2>4, <2>5, <2>6, <2>7, <2>8, <2>9, <2>10, <2>11
       DEF Handler
<1>5. ASSUME NEW t \in Threads, TimerIrq(t) PROVE CoreInv'
  BY <1>5, <1>x DEF TimerIrq
<1>6. CASE UNCHANGED vars
  <2>1. UNCHANGED <<state, waitq, runq, cur, phase, utimer, pipeVars>>
    BY <1>6 DEF vars, schedVars
  <2>2. SchedTypeOK' /\ LoadedInv'
    BY <2>1, <1>f DEF SchedTypeOK, CoreInv, LoadedInv
  <2> QED
    BY <2>1, <2>2, CoreLeave DEF CoreInv, FrameInv
<1> QED
  BY <1>1, <1>2, <1>3, <1>4, <1>5, <1>6 DEF Next

\* The core invariant holds in every state.
LEMMA CoreHolds == Spec => []CoreInv
<1>1. Init => CoreInv
  BY InitCore
<1>2. CoreInv /\ [Next]_vars => CoreInv'
  BY NextCore
<1> QED
  BY <1>1, <1>2, PTL DEF Spec

\* Type correctness of the scheduler and the pipes: sizes and positions that
\* the handlers compute with unsigned arithmetic never go below zero.
THEOREM TypeCorrect == Spec => []TypeOK
BY CoreHolds, PTL DEF CoreInv

\* The ring never holds more than its size, nor fewer than zero bytes.
THEOREM RingNeverOverruns == Spec => []RingBounded
BY CoreHolds, PTL DEF CoreInv

-----------------------------------------------------------------------------
(***************************************************************************)
(* The safety of blocking, waking and releasing: PlacedOnce,               *)
(* NoUseAfterRelease, NoLostWakeup and StuckOnlyOnPeers, from one          *)
(* inductive invariant.                                                    *)
(***************************************************************************)

\* The loop has no thread in hand, and the thread that runs is not asleep.
CurInv ==
  /\ phase \in {"host", "pick"} => cur = NoThread
  /\ phase = "run" => state[cur] # "BLOCKED"

\* The running thread's handler is at op on pipe p.
Working(op, p) == phase = "run" /\ call[cur].op = op /\ call[cur].p = p

\* Why a sleeper may still sleep: there is nothing for it to do, or the
\* handler that changed this is running and has yet to reach its rrschedwake.
SleepInv ==
  /\ \A p \in Slots :
       /\ waitq[readq(p)] # <<>> => writeopen[p] /\ (Empty(p) \/ Working("write", p))
       /\ waitq[writeq(p)] # <<>> =>
            readopen[p] /\ (avail_space(p) = 0 \/ Working("copy", p))
  /\ \A t \in Threads :
       call[t].op = "block" => avail_space(call[t].p) = 0 /\ readopen[call[t].p]

\* A thread that has finished exiting owns no end of a pipe.
ExitInv ==
  \A t \in Threads :
    /\ call[t].op = "exit" => state[t] = "EXITED"
    /\ state[t] = "EXITED" /\ call[t].op # "exit" =>
         \A p \in Slots : rfd[p] # t /\ wfd[p] # t

SafeInv == CoreInv /\ CurInv /\ PlacedOnce /\ NoUseAfterRelease /\ SleepInv /\ ExitInv

-----------------------------------------------------------------------------
(* Queues again: members that occur once *)

\* Appending a thread that is not in a queue leaves it without duplicates.
LEMMA OnceAppend ==
  ASSUME NEW S, NEW q \in Seq(S), NEW u \in S, NEW t
  PROVE  /\ t # u /\ Once(t, q) => Once(t, Append(q, u))
         /\ ~In(u, q) => Once(u, Append(q, u))
<1>1. /\ \A i \in 1 .. Len(q) : Append(q, u)[i] = q[i]
      /\ Append(q, u)[Len(q) + 1] = u
      /\ DOMAIN q = 1 .. Len(q) /\ DOMAIN Append(q, u) = 1 .. Len(q) + 1
      /\ Len(q) \in Nat
  OBVIOUS
<1>2. 1 .. Len(q) + 1 = (1 .. Len(q)) \cup {Len(q) + 1}
  BY <1>1
<1> QED
  BY <1>1, <1>2 DEF Once, In

\* Taking the head off a queue without duplicates removes it altogether.
LEMMA OnceTail ==
  ASSUME NEW S, NEW q \in Seq(S), q # <<>>, NEW t, Once(t, q)
  PROVE  /\ t = Head(q) => ~In(t, Tail(q))
         /\ t # Head(q) => Once(t, Tail(q))
<1>1. /\ DOMAIN q = 1 .. Len(q) /\ DOMAIN Tail(q) = 1 .. Len(q) - 1
      /\ \A i \in 1 .. Len(q) - 1 : Tail(q)[i] = q[i + 1]
      /\ Head(q) = q[1] /\ Len(q) \in Nat \ {0}
  OBVIOUS
<1>2. PICK k \in 1 .. Len(q) : q[k] = t /\ \A j \in 1 .. Len(q) : q[j] = t => j = k
  BY <1>1 DEF Once
<1>3. ASSUME t = Head(q) PROVE ~In(t, Tail(q))
  <2>1. k = 1
    BY <1>1, <1>2, <1>3
  <2>2. ASSUME NEW i \in 1 .. Len(q) - 1 PROVE Tail(q)[i] # t
    <3>1. i + 1 \in 1 .. Len(q) /\ i + 1 # 1
      BY <1>1
    <3> QED
      BY <3>1, <2>1, <1>1, <1>2
  <2> QED
    BY <2>2, <1>1 DEF In
<1>4. ASSUME t # Head(q) PROVE Once(t, Tail(q))
  <2>1. k - 1 \in 1 .. Len(q) - 1 /\ Tail(q)[k - 1] = t
    <3>1. k # 1
      BY <1>1, <1>2, <1>4
    <3>2. k - 1 \in 1 .. Len(q) - 1 /\ (k - 1) + 1 = k
      BY <3>1, <1>1
    <3> QED
      BY <3>2, <1>1, <1>2
  <2>2. ASSUME NEW j \in 1 .. Len(q) - 1, Tail(q)[j] = t PROVE j = k - 1
    <3>1. j + 1 \in 1 .. Len(q) /\ q[j + 1] = t
      BY <2>2, <1>1
    <3>2. j + 1 = k
      BY <3>1, <1>2
    <3> QED
      BY <3>2
  <2> QED
    BY <2>1, <2>2, <1>1 DEF Once
<1> QED
  BY <1>3, <1>4

\* Two queues without duplicates or common members make one without duplicates.
LEMMA OnceConcat ==
  ASSUME NEW S, NEW q \in Seq(S), NEW r \in Seq(S), NEW t
  PROVE  /\ Once(t, q) /\ ~In(t, r) => Once(t, q \o r)
         /\ ~In(t, q) /\ Once(t, r) => Once(t, q \o r)
<1>1. /\ DOMAIN q = 1 .. Len(q) /\ DOMAIN r = 1 .. Len(r)
      /\ DOMAIN (q \o r) = 1 .. Len(q) + Len(r)
      /\ Len(q) \in Nat /\ Len(r) \in Nat
  OBVIOUS
<1>2. \A i \in 1 .. Len(q) + Len(r) :
        (q \o r)[i] = IF i <= Len(q) THEN q[i] ELSE r[i - Len(q)]
  OBVIOUS
<1>3. ASSUME NEW j \in 1 .. Len(q) + Len(r), (q \o r)[j] = t, ~In(t, r)
      PROVE  j \in 1 .. Len(q) /\ q[j] = t
  <2>1. CASE j > Len(q)
    <3>1. j - Len(q) \in 1 .. Len(r) /\ ~(j <= Len(q))
      BY <2>1, <1>1
    <3>2. r[j - Len(q)] = t
      BY <3>1, <1>2, <1>3, Zenon
    <3> QED
      BY <3>1, <3>2, <1>1, <1>3 DEF In
  <2>2. CASE j <= Len(q)
    <3>1. j \in 1 .. Len(q)
      BY <2>2, <1>1
    <3> QED
      BY <3>1, <2>2, <1>2, <1>3, Zenon
  <2> QED
    BY <2>1, <2>2, <1>1
<1>4. ASSUME NEW j \in 1 .. Len(q) + Len(r), (q \o r)[j] = t, ~In(t, q)
      PROVE  j - Len(q) \in 1 .. Len(r) /\ r[j - Len(q)] = t
  <2>1. CASE j > Len(q)
    <3>1. j - Len(q) \in 1 .. Len(r) /\ ~(j <= Len(q))
      BY <2>1, <1>1
    <3> QED
      BY <3>1, <1>2, <1>4, Zenon
  <2>2. CASE j <= Len(q)
    <3>1. j \in 1 .. Len(q)
      BY <2>2, <1>1
    <3>2. q[j] = t
      BY <2>2, <1>2, <1>4, Zenon
    <3> QED
      BY <3>1, <3>2, <1>1, <1>4 DEF In
  <2> QED
    BY <2>1, <2>2, <1>1
<1>5. ASSUME Once(t, q), ~In(t, r) PROVE Once(t, q \o r)
  <2>1. PICK k \in 1 .. Len(q) : q[k] = t /\ \A j \in 1 .. Len(q) : q[j] = t => j = k
    BY <1>1, <1>5 DEF Once
  <2>2. k \in 1 .. Len(q) + Len(r) /\ k <= Len(q)
    BY <1>1
  <2>3. (q \o r)[k] = t
    BY <2>1, <2>2, <1>2, Zenon
  <2> QED
    BY <2>1, <2>2, <2>3, <1>3, <1>5, <1>1, Zenon DEF Once
<1>6. ASSUME ~In(t, q), Once(t, r) PROVE Once(t, q \o r)
  <2>1. PICK k \in 1 .. Len(r) : r[k] = t /\ \A j \in 1 .. Len(r) : r[j] = t => j = k
    BY <1>1, <1>6 DEF Once
  <2>2. /\ k + Len(q) \in 1 .. Len(q) + Len(r) /\ ~(k + Len(q) <= Len(q))
        /\ (k + Len(q)) - Len(q) = k
    BY <1>1
  <2>3. (q \o r)[k + Len(q)] = t
    BY <2>1, <2>2, <1>2, Zenon
  <2>4. ASSUME NEW j \in 1 .. Len(q) + Len(r), (q \o r)[j] = t PROVE j = k + Len(q)
    <3>1. j - Len(q) = k
      BY <2>1, <2>4, <1>4, <1>6
    <3> QED
      BY <3>1, <1>1
  <2> QED
    BY <2>2, <2>3, <2>4, <1>1, Zenon DEF Once
<1> QED
  BY <1>5, <1>6

\* A queue that is not empty has a member.
LEMMA HasMember ==
  ASSUME NEW S, NEW q \in Seq(S), q # <<>>
  PROVE  \E t \in S : In(t, q)
<1>1. 1 \in DOMAIN q /\ q[1] \in S
  OBVIOUS
<1> QED
  BY <1>1 DEF In

\* The head of a queue that is not empty is one of its members.
LEMMA HeadMember ==
  ASSUME NEW S, NEW q \in Seq(S), q # <<>>
  PROVE  Head(q) \in S /\ In(Head(q), q)
<1>1. 1 \in DOMAIN q /\ q[1] \in S /\ Head(q) = q[1]
  OBVIOUS
<1> QED
  BY <1>1 DEF In

\* The names of the wait queues are distinct.
LEMMA QueueNames ==
  ASSUME NEW p \in Slots, NEW r \in Slots
  PROVE  /\ readq(p) \in WaitQueues /\ writeq(p) \in WaitQueues
         /\ readq(p) # writeq(r)
         /\ readq(p) = readq(r) => p = r
         /\ writeq(p) = writeq(r) => p = r
BY QueueAssumption DEF readq, writeq, PipeQueues

-----------------------------------------------------------------------------
(* PlacedOnce and CurInv *)

\* The running thread is in no queue.
LEMMA RunningFree ==
  ASSUME SafeInv, NEW t \in Threads, Running(t)
  PROVE  /\ ~In(t, runq)
         /\ \A q \in WaitQueues : ~In(t, waitq[q])
         /\ state[t] # "BLOCKED"
BY DEF SafeInv, CurInv, PlacedOnce, Placed, Running

\* The running thread changes its own frame, and perhaps exits.
LEMMA PlacedFrame ==
  ASSUME SafeInv, NEW t \in Threads, Running(t),
         UNCHANGED <<runq, waitq, cur, phase>>,
         \A u \in Threads \ {t} : call'[u] = call[u] /\ state'[u] = state[u],
         state'[t] # "BLOCKED"
  PROVE  PlacedOnce' /\ CurInv'
<1>1. CurInv'
  BY DEF SafeInv, CurInv, Running
<1>2. ASSUME NEW u \in Threads PROVE Placed(u)'
  <2>1. CASE u = t
    BY <2>1, RunningFree DEF Placed
  <2>2. CASE u # t
    BY <2>2 DEF SafeInv, PlacedOnce, Placed, WaitsOn, readq, writeq
  <2> QED
    BY <2>1, <2>2
<1> QED
  BY <1>1, <1>2 DEF PlacedOnce

\* rrschedwake: the woken threads move from one queue to the other.
LEMMA PlacedWake ==
  ASSUME SafeInv, NEW t \in Threads, Running(t), NEW q \in WaitQueues, rrschedwake(q),
         \A u \in Threads \ {t} : call'[u] = call[u]
  PROVE  PlacedOnce' /\ CurInv'
<1>1. /\ runq \in Seq(Threads)
      /\ waitq \in [WaitQueues -> Seq(Threads)]
      /\ waitq[q] \in Seq(Threads)
      /\ cur = t /\ phase = "run"
  BY DEF SafeInv, CoreInv, TypeOK, SchedTypeOK, Running
<1>2. /\ runq' = runq \o waitq[q] /\ waitq'[q] = <<>>
      /\ \A r \in WaitQueues \ {q} : waitq'[r] = waitq[r]
      /\ \A u \in Threads : state'[u] = IF In(u, waitq[q]) THEN "RUNNABLE" ELSE state[u]
      /\ UNCHANGED <<cur, phase>>
  BY <1>1 DEF rrschedwake
<1>3. CurInv'
  BY <1>1, <1>2 DEF SafeInv, CurInv
<1>4. \A u : ~In(u, waitq'[q])
  BY <1>2, InEmpty
<1>5. ASSUME NEW u \in Threads PROVE Placed(u)'
  <2>1. In(u, runq') <=> In(u, runq) \/ In(u, waitq[q])
    BY <1>1, <1>2, InConcat
  <2>2. CASE u = t
    BY <2>2, <2>1, <1>2, <1>4, RunningFree DEF Placed
  <2>3. CASE u # t /\ In(u, waitq[q])
    <3>1. /\ Once(u, waitq[q]) /\ state[u] = "BLOCKED" /\ ~In(u, runq)
          /\ \A r \in WaitQueues \ {q} : ~In(u, waitq[r])
      BY <2>3 DEF SafeInv, PlacedOnce, Placed
    <3>2. Once(u, runq')
      BY <3>1, <1>1, <1>2, OnceConcat
    <3> QED
      BY <2>3, <3>1, <3>2, <1>1, <1>2, <1>4 DEF Placed
  <2>4. CASE u # t /\ ~In(u, waitq[q])
    <3>1. In(u, runq) => Once(u, runq')
      BY <2>4, <1>1, <1>2, OnceConcat DEF SafeInv, PlacedOnce, Placed
    <3>2. WaitsOn(u)' = WaitsOn(u) /\ state'[u] = state[u] /\ call'[u] = call[u]
      BY <2>4, <1>2 DEF WaitsOn, readq, writeq
    <3> QED
      BY <2>4, <2>1, <3>1, <3>2, <1>2, <1>4 DEF SafeInv, PlacedOnce, Placed
  <2> QED
    BY <2>2, <2>3, <2>4
<1> QED
  BY <1>3, <1>5 DEF PlacedOnce

\* rrschedblock
LEMMA PlacedBlock ==
  ASSUME SafeInv, NEW t \in Threads, NEW q \in WaitQueues, rrschedblock(t, q),
         \A u \in Threads \ {t} : call'[u] = call[u],
         call'[t].op \in {"read", "write"}, q = WaitsOn(t)'
  PROVE  PlacedOnce' /\ CurInv'
<1>1. /\ waitq \in [WaitQueues -> Seq(Threads)]
      /\ state \in [Threads -> States]
      /\ waitq[q] \in Seq(Threads)
      /\ Running(t)
  BY DEF SafeInv, CoreInv, TypeOK, SchedTypeOK, rrschedblock, lps_thread_exit
<1>2. /\ waitq'[q] = Append(waitq[q], t)
      /\ \A r \in WaitQueues \ {q} : waitq'[r] = waitq[r]
      /\ \A u \in Threads : state'[u] = IF u = t THEN "BLOCKED" ELSE state[u]
      /\ UNCHANGED <<runq, cur>> /\ phase' = "back"
  BY <1>1 DEF rrschedblock, lps_thread_exit
<1>3. CurInv'
  BY <1>2 DEF CurInv
<1>4. ASSUME NEW u \in Threads PROVE Placed(u)'
  <2>1. In(u, waitq'[q]) <=> In(u, waitq[q]) \/ u = t
    BY <1>1, <1>2, InAppend
  <2>2. CASE u = t
    <3>1. Once(u, waitq'[q])
      BY <2>2, <1>1, <1>2, RunningFree, OnceAppend
    <3> QED
      BY <2>1, <2>2, <3>1, <1>1, <1>2, RunningFree DEF Placed
  <2>3. CASE u # t
    <3>1. Once(u, waitq[q]) => Once(u, waitq'[q])
      BY <2>3, <1>1, <1>2, OnceAppend
    <3>2. WaitsOn(u)' = WaitsOn(u) /\ state'[u] = state[u] /\ call'[u] = call[u]
      BY <2>3, <1>2 DEF WaitsOn, readq, writeq
    <3>3. Placed(u)
      BY DEF SafeInv, PlacedOnce
    <3> QED
      BY <2>1, <2>3, <3>1, <3>2, <3>3, <1>2 DEF Placed
  <2> QED
    BY <2>2, <2>3
<1> QED
  BY <1>3, <1>4 DEF PlacedOnce

\* The running thread goes back to the loop without blocking.
LEMMA PlacedLeave ==
  ASSUME SafeInv, NEW t \in Threads, lps_thread_exit(t), UNCHANGED <<state, waitq>>,
         \A u \in Threads \ {t} : call'[u] = call[u]
  PROVE  PlacedOnce' /\ CurInv'
<1>1. Running(t) /\ UNCHANGED <<runq, cur>> /\ phase' = "back"
  BY DEF lps_thread_exit
<1>2. CurInv'
  BY <1>1 DEF CurInv
<1>3. ASSUME NEW u \in Threads PROVE Placed(u)'
  <2>1. CASE u = t
    BY <2>1, <1>1, RunningFree DEF Placed
  <2>2. CASE u # t
    BY <2>2, <1>1 DEF SafeInv, PlacedOnce, Placed, WaitsOn, readq, writeq
  <2> QED
    BY <2>1, <2>2
<1> QED
  BY <1>2, <1>3 DEF PlacedOnce

\* The scheduler loop and the host's calls to it.
LEMMA PlacedLoop ==
  ASSUME SafeInv, UNCHANGED call,
         get_next_runable \/ rrschedreturn \/ rrschedrequeue
           \/ (\E t \in Threads : rrschedadd(t)) \/ \E b \in BOOLEAN : rrschedstart(b)
  PROVE  PlacedOnce' /\ CurInv'
<1>1. /\ runq \in Seq(Threads)
      /\ \A u \in Threads : WaitsOn(u)' = WaitsOn(u)
  BY DEF SafeInv, CoreInv, TypeOK, SchedTypeOK, WaitsOn, readq, writeq
<1>2. CASE get_next_runable
  <2>1. /\ Head(runq) \in Threads /\ In(Head(runq), runq)
        /\ cur' = Head(runq) /\ runq' = Tail(runq) /\ phase' = "run"
        /\ UNCHANGED <<state, waitq>> /\ runq # <<>>
    BY <1>1, <1>2, HeadMember DEF get_next_runable
  <2>2. state[Head(runq)] = "RUNNABLE"
    BY <2>1 DEF SafeInv, PlacedOnce, Placed
  <2>3. CurInv'
    BY <2>1, <2>2 DEF CurInv
  <2>4. ASSUME NEW u \in Threads PROVE Placed(u)'
    <3>1. In(u, runq') => In(u, runq)
      BY <2>1, <1>1, InTail
    <3>2. In(u, runq) => Once(u, runq)
      BY DEF SafeInv, PlacedOnce, Placed
    <3>3. In(u, runq') => u # Head(runq) /\ Once(u, runq')
      BY <3>1, <3>2, <2>1, <1>1, OnceTail
    <3> QED
      BY <3>1, <3>3, <2>1, <1>1 DEF SafeInv, PlacedOnce, Placed
  <2> QED
    BY <2>3, <2>4 DEF PlacedOnce
<1>3. CASE rrschedreturn \/ \E b \in BOOLEAN : rrschedstart(b)
  BY <1>1, <1>3 DEF SafeInv, PlacedOnce, Placed, CurInv, rrschedreturn, rrschedstart
<1>4. CASE rrschedrequeue
  <2>1. /\ cur \in Threads /\ cur' = NoThread /\ phase' = "pick"
        /\ runq' = IF state[cur] = "RUNNABLE" THEN Append(runq, cur) ELSE runq
        /\ UNCHANGED <<state, waitq>>
    BY <1>4 DEF rrschedrequeue, SafeInv, CoreInv, LoadedInv
  <2>2. CurInv'
    BY <2>1 DEF CurInv
  <2>3. ~In(cur, runq)
    BY <2>1 DEF SafeInv, PlacedOnce, Placed
  <2>4. ASSUME NEW u \in Threads PROVE Placed(u)'
    <3>1. CASE state[cur] = "RUNNABLE"
      <4>1. /\ In(u, runq') <=> In(u, runq) \/ u = cur
            /\ Once(u, runq) /\ u # cur => Once(u, runq')
            /\ u = cur => Once(u, runq')
        BY <3>1, <2>1, <2>3, <1>1, InAppend, OnceAppend
      <4> QED
        BY <4>1, <3>1, <2>1, <1>1, NoThreadAssumption DEF SafeInv, PlacedOnce, Placed
    <3>2. CASE state[cur] # "RUNNABLE"
      BY <3>2, <2>1, <1>1, NoThreadAssumption DEF SafeInv, PlacedOnce, Placed
    <3> QED
      BY <3>1, <3>2
  <2> QED
    BY <2>2, <2>4 DEF PlacedOnce
<1>5. ASSUME NEW t \in Threads, rrschedadd(t) PROVE PlacedOnce' /\ CurInv'
  <2>1. /\ runq' = Append(runq, t) /\ ~In(t, runq) /\ state[t] = "RUNNABLE" /\ cur # t
        /\ UNCHANGED <<state, waitq, cur, phase>>
    BY <1>5 DEF rrschedadd, Fresh
  <2>2. CurInv'
    BY <2>1 DEF SafeInv, CurInv
  <2>3. ASSUME NEW u \in Threads PROVE Placed(u)'
    <3>1. /\ In(u, runq') <=> In(u, runq) \/ u = t
          /\ Once(u, runq) /\ u # t => Once(u, runq')
          /\ u = t => Once(u, runq')
      BY <2>1, <1>1, InAppend, OnceAppend
    <3> QED
      BY <3>1, <2>1, <1>1 DEF SafeInv, PlacedOnce, Placed
  <2> QED
    BY <2>2, <2>3 DEF PlacedOnce
<1> QED
  BY <1>2, <1>3, <1>4, <1>5

\* lps_pipe_new initialises the two queues of its slot, which were empty.
LEMMA PlacedNew ==
  ASSUME SafeInv, NEW from \in Threads, NEW to \in Threads, NEW p \in Slots,
         lps_pipe_new(from, to, p)
  PROVE  PlacedOnce' /\ CurInv' /\ waitq' = waitq
<1>1. /\ waitq \in [WaitQueues -> Seq(Threads)]
      /\ waitq[readq(p)] = <<>> /\ waitq[writeq(p)] = <<>>
  BY DEF SafeInv, CoreInv, TypeOK, SchedTypeOK, lps_pipe_new, FirstFree,
         NoUseAfterRelease, Kept
<1>2. waitq' = waitq
  BY <1>1 DEF lps_pipe_new
<1> QED
  BY <1>2 DEF SafeInv, PlacedOnce, Placed, CurInv, WaitsOn, readq, writeq, lps_pipe_new

-----------------------------------------------------------------------------
(* Steps of the loop and of the host *)

\* Nothing but the run queue, the loaded thread and the phase changes, and no
\* handler is in the middle of its work.
LEMMA SafeQuiet ==
  ASSUME SafeInv, UNCHANGED <<waitq, pipeVars>>, UNCHANGED state,
         PlacedOnce', CurInv', CoreInv',
         phase = "run" => call[cur].op \in {"none", "exit"}
  PROVE  SafeInv'
<1>1. NoUseAfterRelease'
  BY DEF SafeInv, NoUseAfterRelease, Kept, pipeVars, devVars, fdVars, readq, writeq
<1>2. SleepInv'
  BY DEF SafeInv, SleepInv, Working, Empty, avail_space, pipeVars, devVars, dataVars,
         readq, writeq
<1>3. ExitInv'
  BY DEF SafeInv, ExitInv, pipeVars, fdVars
<1> QED
  BY <1>1, <1>2, <1>3 DEF SafeInv

\* The scheduler loop keeps the safety invariant.
LEMMA SafeLoop ==
  ASSUME SafeInv, CoreInv', UNCHANGED pipeVars,
         get_next_runable \/ rrschedreturn \/ rrschedrequeue
           \/ (\E t \in Threads : rrschedadd(t)) \/ \E b \in BOOLEAN : rrschedstart(b)
  PROVE  SafeInv'
<1>1. PlacedOnce' /\ CurInv'
  BY PlacedLoop DEF pipeVars
<1>2. phase # "run" /\ UNCHANGED <<waitq, state>>
  BY DEF get_next_runable, rrschedreturn, rrschedrequeue, rrschedadd, rrschedstart
<1> QED
  BY <1>1, <1>2, SafeQuiet

\* lps_pipe_new keeps the safety invariant.
LEMMA SafeNew ==
  ASSUME SafeInv, CoreInv', NEW from \in Threads, NEW to \in Threads, NEW p \in Slots,
         lps_pipe_new(from, to, p)
  PROVE  SafeInv'
<1>1. PlacedOnce' /\ CurInv' /\ waitq' = waitq
  BY PlacedNew
<1>2. /\ TypeOK /\ waitq[readq(p)] = <<>> /\ waitq[writeq(p)] = <<>>
      /\ rfd[p] = NoThread /\ wfd[p] = NoThread /\ phase = "host"
      /\ UNCHANGED <<call, state, phase, cur>>
  BY DEF SafeInv, CoreInv, lps_pipe_new, FirstFree, NoUseAfterRelease, Kept
<1>3. \A t \in Threads : call[t].op \in {"read", "copy", "write", "block"} => call[t].p # p
  BY <1>2, NoThreadAssumption DEF SafeInv, NoUseAfterRelease
<1>4. NoUseAfterRelease'
  <2>1. ASSUME NEW r \in Slots PROVE Kept(r)'
    <3>1. CASE r = p
      BY <3>1, <1>1, <1>2 DEF Kept, lps_pipe_new, TypeOK, readq, writeq
    <3>2. CASE r # p
      BY <3>2, <1>1, <1>2 DEF SafeInv, NoUseAfterRelease, Kept, lps_pipe_new, TypeOK, readq, writeq
    <3> QED
      BY <3>1, <3>2
  <2> QED
    BY <2>1, <1>2, <1>3 DEF SafeInv, NoUseAfterRelease, lps_pipe_new, TypeOK
<1>5. SleepInv'
  <2>1. ASSUME NEW r \in Slots
        PROVE  /\ waitq[readq(r)] # <<>> => writeopen'[r] /\ Empty(r)'
               /\ waitq[writeq(r)] # <<>> => readopen'[r] /\ avail_space(r)' = 0
    <3>1. CASE r = p
      BY <3>1, <1>2
    <3>2. CASE r # p
      BY <3>2, <1>2 DEF SafeInv, SleepInv, Working, Empty, avail_space, lps_pipe_new, TypeOK
    <3> QED
      BY <3>1, <3>2
  <2>2. \A t \in Threads : call[t].op # "block"
    BY <1>2 DEF SafeInv, CoreInv, FrameInv
  <2> QED
    BY <2>1, <2>2, <1>1, <1>2 DEF SleepInv, readq, writeq
<1>6. ExitInv'
  BY <1>2 DEF SafeInv, ExitInv, lps_pipe_new, TypeOK
<1> QED
  BY <1>1, <1>4, <1>5, <1>6 DEF SafeInv

-----------------------------------------------------------------------------
(* Steps of a thread *)

\* The running thread goes to a new frame g and touches nothing else.
LEMMA SafeFrame ==
  ASSUME SafeInv, CoreInv', NEW t \in Threads, Running(t),
         UNCHANGED <<schedVars, devVars, dataVars, fdVars>>,
         NEW g, call' = [call EXCEPT ![t] = g],
         g.op \in {"read", "copy"} => rfd[g.p] = t,
         g.op \in {"write", "block"} => wfd[g.p] = t,
         g.op \notin {"block", "exit"}, call[t].op # "exit",
         \A p \in Slots :
           /\ waitq[readq(p)] # <<>> => Empty(p) \/ (g.op = "write" /\ g.p = p)
           /\ waitq[writeq(p)] # <<>> => avail_space(p) = 0 \/ (g.op = "copy" /\ g.p = p)
  PROVE  SafeInv'
<1>1. \A u \in Threads : call'[u] = IF u = t THEN g ELSE call[u]
  BY DEF SafeInv, CoreInv, TypeOK
<1>2. PlacedOnce' /\ CurInv'
  BY <1>1, PlacedFrame, RunningFree DEF schedVars
<1>3. NoUseAfterRelease'
  BY <1>1 DEF SafeInv, NoUseAfterRelease, Kept, schedVars, devVars, fdVars, readq, writeq
<1>4. SleepInv'
  BY <1>1 DEF SafeInv, SleepInv, Working, Empty, avail_space, Running, schedVars, devVars,
              dataVars, readq, writeq
<1>5. ExitInv'
  BY <1>1 DEF SafeInv, ExitInv, schedVars, fdVars
<1> QED
  BY <1>2, <1>3, <1>4, <1>5 DEF SafeInv

\* rrschedwake at the end of a transfer on pipe p, or before a full write
\* sleeps; g is the frame the thread goes on with.
LEMMA SafeWake ==
  ASSUME SafeInv, CoreInv', NEW t \in Threads, Running(t), NEW p \in Slots,
         NEW q \in {readq(p), writeq(p)}, rrschedwake(q),
         q = readq(p) => call[t].op = "write" /\ call[t].p = p,
         q = writeq(p) => call[t].op = "copy" /\ call[t].p = p,
         NEW g, call' = [call EXCEPT ![t] = g],
         \/ g.op = "none"
         \/ g.op = "block" /\ g.p = p /\ avail_space(p) = 0 /\ readopen[p]
                           /\ wfd[p] = t,
         UNCHANGED <<devVars, nread, nwrite, fdVars>>
  PROVE  SafeInv'
<1>1. \A u \in Threads : call'[u] = IF u = t THEN g ELSE call[u]
  BY DEF SafeInv, CoreInv, TypeOK
<1>2. q \in WaitQueues
  BY QueueNames
<1>3. PlacedOnce' /\ CurInv'
  BY <1>1, <1>2, PlacedWake
<1>4. /\ \A r \in WaitQueues : waitq'[r] = IF r = q THEN <<>> ELSE waitq[r]
      /\ \A u \in Threads : state'[u] = state[u] \/ (state'[u] = "RUNNABLE" /\ u # t)
      /\ UNCHANGED <<cur, phase>> /\ cur = t /\ phase = "run"
  BY <1>2, RunningFree DEF rrschedwake, Running, SafeInv, CoreInv, TypeOK, SchedTypeOK
<1>5. \A r \in Slots : /\ readq(r) \in WaitQueues /\ writeq(r) \in WaitQueues
                       /\ q = readq(p) => writeq(r) # q /\ (r # p => readq(r) # q)
                       /\ q = writeq(p) => readq(r) # q /\ (r # p => writeq(r) # q)
  BY QueueNames
<1>6. NoUseAfterRelease'
  <2>1. ASSUME NEW r \in Slots PROVE Kept(r)'
    <3>1. /\ waitq[readq(r)] = <<>> => waitq'[readq(r)] = <<>>
          /\ waitq[writeq(r)] = <<>> => waitq'[writeq(r)] = <<>>
      BY <1>4, <1>5
    <3> QED
      BY <3>1 DEF SafeInv, NoUseAfterRelease, Kept, devVars, fdVars, readq, writeq
  <2> QED
    BY <2>1, <1>1 DEF SafeInv, NoUseAfterRelease, fdVars
<1>7. SleepInv'
  <2>1. ASSUME NEW r \in Slots
        PROVE  /\ waitq'[readq(r)] # <<>> => writeopen[r] /\ Empty(r)
               /\ waitq'[writeq(r)] # <<>> => readopen[r] /\ avail_space(r) = 0
    <3>1. /\ waitq'[readq(r)] # <<>> => waitq[readq(r)] # <<>> /\ q # readq(r)
          /\ waitq'[writeq(r)] # <<>> => waitq[writeq(r)] # <<>> /\ q # writeq(r)
      BY <1>4, <1>5
    <3>2. /\ q # readq(r) => ~Working("write", r)
          /\ q # writeq(r) => ~Working("copy", r)
      BY <1>4 DEF Working
    <3> QED
      BY <3>1, <3>2 DEF SafeInv, SleepInv
  <2> QED
    BY <2>1, <1>1 DEF SafeInv, SleepInv, Empty, avail_space, devVars, readq, writeq
<1>8. ExitInv'
  <2>1. \A u \in Threads : call[u].op = "exit" => u = t
    BY <1>4 DEF SafeInv, CoreInv, FrameInv
  <2> QED
    BY <2>1, <1>1, <1>4, <1>5 DEF SafeInv, ExitInv, fdVars
<1> QED
  BY <1>3, <1>6, <1>7, <1>8 DEF SafeInv

\* rrschedblock on pipe p; g is the frame the thread will wake up in.
LEMMA SafeBlock ==
  ASSUME SafeInv, CoreInv', NEW t \in Threads, NEW p \in Slots,
         NEW q \in WaitQueues, rrschedblock(t, q),
         NEW g, call' = [call EXCEPT ![t] = g], g.p = p,
         \/ q = readq(p) /\ g.op = "read" /\ rfd[p] = t /\ Empty(p) /\ writeopen[p]
            /\ call[t].op = "read"
         \/ q = writeq(p) /\ g.op = "write" /\ wfd[p] = t /\ avail_space(p) = 0
            /\ readopen[p] /\ call[t].op = "block",
         UNCHANGED <<devVars, dataVars, fdVars>>
  PROVE  SafeInv'
<1>1. \A u \in Threads : call'[u] = IF u = t THEN g ELSE call[u]
  BY DEF SafeInv, CoreInv, TypeOK
<1>2. PlacedOnce' /\ CurInv'
  <2>1. q = WaitsOn(t)'
    BY <1>1 DEF WaitsOn, readq, writeq
  <2> QED
    BY <1>1, <2>1, PlacedBlock
<1>3. /\ \A r \in WaitQueues \ {q} : waitq'[r] = waitq[r]
      /\ \A u \in Threads : state'[u] = IF u = t THEN "BLOCKED" ELSE state[u]
      /\ cur = t /\ phase = "run" /\ phase' = "back"
  BY DEF rrschedblock, lps_thread_exit, Running, SafeInv, CoreInv, TypeOK, SchedTypeOK
<1>4. \A r \in Slots : /\ readq(r) \in WaitQueues /\ writeq(r) \in WaitQueues
                       /\ q = readq(p) => writeq(r) # q /\ (r # p => readq(r) # q)
                       /\ q = writeq(p) => readq(r) # q /\ (r # p => writeq(r) # q)
  BY QueueNames
<1>5. NoUseAfterRelease'
  <2>1. allocated[p]
    BY NoThreadAssumption DEF SafeInv, NoUseAfterRelease, Kept
  <2>2. ASSUME NEW r \in Slots PROVE Kept(r)'
    <3>1. r # p => waitq'[readq(r)] = waitq[readq(r)] /\ waitq'[writeq(r)] = waitq[writeq(r)]
      BY <1>3, <1>4
    <3> QED
      BY <3>1, <2>1 DEF SafeInv, NoUseAfterRelease, Kept, devVars, fdVars, readq, writeq
  <2> QED
    BY <2>2, <1>1 DEF SafeInv, NoUseAfterRelease, fdVars
<1>6. SleepInv'
  <2>1. ASSUME NEW r \in Slots
        PROVE  /\ waitq'[readq(r)] # <<>> => writeopen[r] /\ Empty(r)
               /\ waitq'[writeq(r)] # <<>> => readopen[r] /\ avail_space(r) = 0
    <3>1. /\ q # readq(r) => waitq'[readq(r)] = waitq[readq(r)]
          /\ q # writeq(r) => waitq'[writeq(r)] = waitq[writeq(r)]
          /\ q = readq(r) => r = p /\ Empty(p) /\ writeopen[p]
          /\ q = writeq(r) => r = p /\ avail_space(p) = 0 /\ readopen[p]
      BY <1>3, <1>4
    <3>2. ~Working("write", r) /\ ~Working("copy", r)
      BY <1>3 DEF Working
    <3> QED
      BY <3>1, <3>2 DEF SafeInv, SleepInv
  <2> QED
    BY <2>1, <1>1 DEF SafeInv, SleepInv, Empty, avail_space, devVars, dataVars, readq, writeq
<1>7. ExitInv'
  BY <1>1, <1>3 DEF SafeInv, ExitInv, fdVars
<1> QED
  BY <1>2, <1>5, <1>6, <1>7 DEF SafeInv

\* One memcpy of pipe_read or pipe_write on pipe p: the counters move, the
\* frame stays at op.
LEMMA SafeCopy ==
  ASSUME SafeInv, CoreInv', NEW t \in Threads, Running(t), NEW p \in Slots,
         NEW g, call' = [call EXCEPT ![t] = g], g.op = call[t].op, g.p = p, call[t].p = p,
         \/ g.op = "copy" /\ nwrite' = nwrite
         \/ g.op = "write" /\ nread' = nread /\ avail_space(p) # 0,
         \A r \in Slots \ {p} : nread'[r] = nread[r] /\ nwrite'[r] = nwrite[r],
         g.op = "copy" => ~Empty(p),
         UNCHANGED <<schedVars, devVars, fdVars>>
  PROVE  SafeInv'
<1>1. \A u \in Threads : call'[u] = IF u = t THEN g ELSE call[u]
  BY DEF SafeInv, CoreInv, TypeOK
<1>2. PlacedOnce' /\ CurInv'
  BY <1>1, PlacedFrame, RunningFree DEF schedVars
<1>3. NoUseAfterRelease'
  BY <1>1 DEF SafeInv, NoUseAfterRelease, Kept, schedVars, devVars, fdVars, readq, writeq
<1>4. SleepInv'
  <2>1. cur = t /\ phase = "run" /\ UNCHANGED <<cur, phase, waitq, readopen, writeopen>>
    BY DEF Running, schedVars, devVars
  <2>2. \A u \in Threads : call'[u].op # "block"
    BY <2>1, <1>1 DEF SafeInv, CoreInv, FrameInv
  <2>3. ASSUME NEW r \in Slots
        PROVE  /\ waitq[readq(r)] # <<>> =>
                    writeopen[r] /\ (Empty(r)' \/ (g.op = "write" /\ r = p))
               /\ waitq[writeq(r)] # <<>> =>
                    readopen[r] /\ (avail_space(r)' = 0 \/ (g.op = "copy" /\ r = p))
    <3>1. CASE r # p
      BY <3>1, <2>1 DEF SafeInv, SleepInv, Working, Empty, avail_space
    <3>2. CASE r = p
      BY <3>2, <2>1 DEF SafeInv, SleepInv, Working
    <3> QED
      BY <3>1, <3>2
  <2> QED
    BY <2>1, <2>2, <2>3, <1>1 DEF SleepInv, Working, readq, writeq
<1>5. ExitInv'
  BY <1>1 DEF SafeInv, ExitInv, schedVars, fdVars
<1> QED
  BY <1>2, <1>3, <1>4, <1>5 DEF SafeInv

\* Only the owner of an end can sleep on it, so an owner that is not inside
\* read or write finds the queue of its own end empty.
LEMMA OwnQueueEmpty ==
  ASSUME SafeInv, NEW t \in Threads, NEW p \in Slots,
         call[t].op \notin {"read", "copy", "write", "block"}
  PROVE  /\ rfd[p] \in {t, NoThread} => waitq[readq(p)] = <<>>
         /\ wfd[p] \in {t, NoThread} => waitq[writeq(p)] = <<>>
<1>1. /\ waitq[readq(p)] \in Seq(Threads) /\ waitq[writeq(p)] \in Seq(Threads)
      /\ readq(p) \in WaitQueues /\ writeq(p) \in WaitQueues
  BY QueueNames DEF SafeInv, CoreInv, TypeOK, SchedTypeOK
<1>2. ASSUME NEW u \in Threads, In(u, waitq[readq(p)]) PROVE rfd[p] = u /\ u # t
  <2>1. call[u].op \in {"read", "write"} /\ readq(p) = WaitsOn(u) /\ call[u].p \in Slots
    BY <1>1, <1>2 DEF SafeInv, PlacedOnce, Placed, CoreInv, TypeOK
  <2>2. call[u].op = "read" /\ call[u].p = p
    BY <2>1, QueueNames DEF WaitsOn
  <2> QED
    BY <2>2 DEF SafeInv, NoUseAfterRelease
<1>3. ASSUME NEW u \in Threads, In(u, waitq[writeq(p)]) PROVE wfd[p] = u /\ u # t
  <2>1. call[u].op \in {"read", "write"} /\ writeq(p) = WaitsOn(u) /\ call[u].p \in Slots
    BY <1>1, <1>3 DEF SafeInv, PlacedOnce, Placed, CoreInv, TypeOK
  <2>2. call[u].op = "write" /\ call[u].p = p
    BY <2>1, QueueNames DEF WaitsOn
  <2> QED
    BY <2>2 DEF SafeInv, NoUseAfterRelease
<1> QED
  BY <1>1, <1>2, <1>3, HasMember, NoThreadAssumption

\* fdfree closes an end of pipe p that the exiting thread t owns: it wakes the
\* queue of the other end, and the queue of its own end is empty.
LEMMA SafeClose ==
  ASSUME SafeInv, CoreInv', NEW t \in Threads, NEW p \in Slots,
         fdfree_read(t, p) \/ fdfree_write(t, p)
  PROVE  SafeInv'
<1>1. /\ Running(t) /\ call[t].op = "exit" /\ cur = t /\ phase = "run" /\ UNCHANGED call
      /\ TypeOK
  BY DEF fdfree_read, fdfree_write, At, Running, SafeInv, CoreInv
<1>2. PICK q \in {readq(p), writeq(p)} :
        /\ rrschedwake(q)
        /\ q = writeq(p) => fdfree_read(t, p)
        /\ q = readq(p) => fdfree_write(t, p)
  <2>1. readq(p) # writeq(p)
    BY QueueNames
  <2> QED
    BY <2>1 DEF fdfree_read, fdfree_write, pipe_close_read, pipe_close_write
<1>3. q \in WaitQueues
  BY <1>2, QueueNames
<1>4. PlacedOnce' /\ CurInv'
  BY <1>1, <1>2, <1>3, PlacedWake
<1>5. /\ \A r \in WaitQueues : waitq'[r] = IF r = q THEN <<>> ELSE waitq[r]
      /\ \A u \in Threads : state'[u] = state[u] \/ (state'[u] = "RUNNABLE" /\ u # t)
      /\ UNCHANGED <<cur, phase>>
  BY <1>1, <1>2, <1>3, RunningFree DEF rrschedwake, TypeOK, SchedTypeOK
<1>6. /\ waitq'[readq(p)] = <<>> /\ waitq'[writeq(p)] = <<>>
  <2>1. /\ fdfree_read(t, p) => rfd[p] = t
        /\ fdfree_write(t, p) => wfd[p] = t
    BY DEF fdfree_read, fdfree_write
  <2> QED
    BY <2>1, <1>1, <1>2, <1>5, OwnQueueEmpty, QueueNames
<1>7. \A r \in Slots \ {p} : /\ waitq'[readq(r)] = waitq[readq(r)]
                              /\ waitq'[writeq(r)] = waitq[writeq(r)]
  <2>1. ASSUME NEW r \in Slots \ {p}
        PROVE  readq(r) \in WaitQueues \ {q} /\ writeq(r) \in WaitQueues \ {q}
    BY <1>2, QueueNames
  <2> QED
    BY <2>1, <1>5
<1>8. \A r \in Slots \ {p} : /\ allocated'[r] = allocated[r]
                              /\ readopen'[r] = readopen[r] /\ writeopen'[r] = writeopen[r]
                              /\ rfd'[r] = rfd[r] /\ wfd'[r] = wfd[r]
  BY <1>1 DEF fdfree_read, fdfree_write, pipe_close_read, pipe_close_write, PipeRelease, TypeOK
<1>9. /\ allocated'[p] <=> readopen'[p] \/ writeopen'[p]
      /\ \/ rfd'[p] = NoThread /\ wfd'[p] = wfd[p] /\ writeopen'[p] = writeopen[p] /\ rfd[p] = t
         \/ wfd'[p] = NoThread /\ rfd'[p] = rfd[p] /\ readopen'[p] = readopen[p] /\ wfd[p] = t
  <2>1. CASE fdfree_read(t, p)
    BY <2>1, <1>1 DEF fdfree_read, pipe_close_read, PipeRelease, TypeOK
  <2>2. CASE fdfree_write(t, p)
    BY <2>2, <1>1 DEF fdfree_write, pipe_close_write, PipeRelease, TypeOK
  <2> QED
    BY <2>1, <2>2
<1>10. \A u \in Threads : u # t => call[u].op \notin {"copy", "block", "exit"}
  BY <1>1 DEF SafeInv, CoreInv, FrameInv
<1>11. NoUseAfterRelease'
  <2>1. ASSUME NEW r \in Slots PROVE Kept(r)'
    <3>1. CASE r = p
      BY <3>1, <1>6, <1>9 DEF SafeInv, NoUseAfterRelease, Kept, readq, writeq
    <3>2. CASE r # p
      BY <3>2, <1>7, <1>8 DEF SafeInv, NoUseAfterRelease, Kept, readq, writeq
    <3> QED
      BY <3>1, <3>2
  <2>2. ASSUME NEW u \in Threads
        PROVE  /\ call[u].op \in {"read", "copy"} => rfd'[call[u].p] = u
               /\ call[u].op \in {"write", "block"} => wfd'[call[u].p] = u
    <3>1. /\ call[u].op \in {"read", "copy"} => rfd[call[u].p] = u
          /\ call[u].op \in {"write", "block"} => wfd[call[u].p] = u
      BY DEF SafeInv, NoUseAfterRelease
    <3>2. call[u].op \in {"read", "copy", "write", "block"} => call[u].p \in Slots /\ u # t
      BY <1>1 DEF TypeOK
    <3> DEFINE r == call[u].p
    <3>3. CASE r = p
      BY <3>1, <3>2, <3>3, <1>9
    <3>4. CASE r # p
      BY <3>1, <3>2, <3>4, <1>8
    <3> QED
      BY <3>3, <3>4
  <2> QED
    BY <2>1, <2>2, <1>1 DEF NoUseAfterRelease
<1>12. SleepInv'
  <2>1. UNCHANGED <<nread, nwrite>>
    BY DEF fdfree_read, fdfree_write, pipe_close_read, pipe_close_write, PipeRelease
  <2>2. ASSUME NEW r \in Slots
        PROVE  /\ waitq'[readq(r)] # <<>> => writeopen'[r] /\ Empty(r)
               /\ waitq'[writeq(r)] # <<>> => readopen'[r] /\ avail_space(r) = 0
    <3>1. CASE r = p
      BY <3>1, <1>6
    <3>2. CASE r # p
      BY <3>2, <1>1, <1>7, <1>8 DEF SafeInv, SleepInv, Working
    <3> QED
      BY <3>1, <3>2
  <2> QED
    BY <2>1, <2>2, <1>1, <1>10 DEF SleepInv, Empty, avail_space, readq, writeq
<1>13. ExitInv'
  BY <1>1, <1>5, <1>8, <1>9, <1>10, NoThreadAssumption DEF SafeInv, ExitInv
<1> QED
  BY <1>4, <1>11, <1>12, <1>13 DEF SafeInv

\* sys_exit sets the state of the thread and starts the exit handler.
LEMMA SafeExit ==
  ASSUME SafeInv, CoreInv', NEW t \in Threads, sys_exit(t)
  PROVE  SafeInv'
<1>1. /\ Running(t) /\ call[t].op = "none" /\ cur = t /\ phase = "run"
      /\ \A u \in Threads : state'[u] = IF u = t THEN "EXITED" ELSE state[u]
      /\ \A u \in Threads \ {t} : call'[u] = call[u]
      /\ call'[t].op = "exit"
      /\ UNCHANGED <<runq, waitq, cur, phase>>
  BY DEF sys_exit, At, Running, Goto, SafeInv, CoreInv, TypeOK, SchedTypeOK
<1>2. PlacedOnce' /\ CurInv'
  BY <1>1, PlacedFrame
<1>3. NoUseAfterRelease'
  BY <1>1 DEF sys_exit, SafeInv, NoUseAfterRelease, Kept, devVars, fdVars, readq, writeq
<1>4. SleepInv'
  BY <1>1 DEF sys_exit, SafeInv, SleepInv, Working, Empty, avail_space, devVars, dataVars,
              readq, writeq
<1>5. ExitInv'
  BY <1>1 DEF sys_exit, SafeInv, ExitInv, fdVars
<1> QED
  BY <1>2, <1>3, <1>4, <1>5 DEF SafeInv

\* The last switch of an exited thread keeps the safety invariant.
LEMMA SafeExitSwitch ==
  ASSUME SafeInv, CoreInv', NEW t \in Threads, sys_exit_switch(t)
  PROVE  SafeInv'
<1>1. /\ Running(t) /\ call[t].op = "exit" /\ cur = t /\ phase = "run"
      /\ \A u \in Threads \ {t} : call'[u] = call[u]
      /\ call'[t] = Idle /\ Idle.op = "none"
      /\ lps_thread_exit(t) /\ phase' = "back"
      /\ UNCHANGED <<state, waitq, runq, cur>>
  BY DEF sys_exit_switch, At, Running, Return, lps_thread_exit, Idle, SafeInv, CoreInv, TypeOK
<1>2. PlacedOnce' /\ CurInv'
  BY <1>1, PlacedLeave
<1>3. NoUseAfterRelease'
  BY <1>1 DEF sys_exit_switch, SafeInv, NoUseAfterRelease, Kept, devVars, fdVars, readq, writeq
<1>4. SleepInv'
  BY <1>1 DEF sys_exit_switch, SafeInv, SleepInv, Working, Empty, avail_space, devVars,
              dataVars, readq, writeq
<1>5. ExitInv'
  BY <1>1 DEF sys_exit_switch, SafeInv, ExitInv, fdVars
<1> QED
  BY <1>2, <1>3, <1>4, <1>5 DEF SafeInv

\* SleepInv does not look at descriptors.
LEMMA SleepStays ==
  ASSUME SleepInv,
         UNCHANGED <<waitq, cur, phase, call, readopen, writeopen, nread, nwrite>>
  PROVE  SleepInv'
BY DEF SleepInv, Working, Empty, avail_space, readq, writeq

\* close(2): a descriptor goes away, the device does not notice.
LEMMA SafeSysClose ==
  ASSUME SafeInv, CoreInv', NEW t \in Threads, NEW p \in Slots,
         sys_close_read(t, p) \/ sys_close_write(t, p)
  PROVE  SafeInv'
<1>1. /\ Running(t) /\ call[t].op = "none" /\ TypeOK
      /\ UNCHANGED <<call, schedVars, devVars, dataVars>>
      /\ \/ rfd[p] = t /\ rfd' = [rfd EXCEPT ![p] = NoThread] /\ wfd' = wfd
         \/ wfd[p] = t /\ wfd' = [wfd EXCEPT ![p] = NoThread] /\ rfd' = rfd
  BY DEF sys_close_read, sys_close_write, At, SafeInv, CoreInv
<1>2. PlacedOnce' /\ CurInv'
  BY <1>1, PlacedFrame, RunningFree DEF schedVars
<1>3. NoUseAfterRelease'
  <2>1. ASSUME NEW r \in Slots PROVE Kept(r)'
    BY <1>1 DEF SafeInv, NoUseAfterRelease, Kept, schedVars, devVars, TypeOK, readq, writeq
  <2>2. ASSUME NEW u \in Threads
        PROVE  /\ call[u].op \in {"read", "copy"} => rfd'[call[u].p] = u
               /\ call[u].op \in {"write", "block"} => wfd'[call[u].p] = u
    BY <1>1 DEF SafeInv, NoUseAfterRelease, TypeOK
  <2> QED
    BY <2>1, <2>2, <1>1 DEF NoUseAfterRelease
<1>4. SleepInv'
  BY <1>1, SleepStays DEF SafeInv, schedVars, devVars, dataVars
<1>5. ExitInv'
  BY <1>1, NoThreadAssumption DEF SafeInv, ExitInv, schedVars, TypeOK
<1> QED
  BY <1>2, <1>3, <1>4, <1>5 DEF SafeInv

\* A yield or a timer interrupt in sandbox code.
LEMMA SafeYield ==
  ASSUME SafeInv, CoreInv', NEW t \in Threads, At(t, "none"), lps_thread_exit(t),
         UNCHANGED <<state, waitq, pipeVars>>
  PROVE  SafeInv'
<1>1. PlacedOnce' /\ CurInv'
  BY PlacedLeave DEF pipeVars
<1> QED
  BY <1>1, SafeQuiet DEF At, Running

-----------------------------------------------------------------------------
\* The safety invariant holds initially.
LEMMA InitSafe == Init => SafeInv
<1> SUFFICES ASSUME Init PROVE SafeInv
  OBVIOUS
<1>1. CoreInv
  BY InitCore
<1>2. \A q \in WaitQueues : waitq[q] = <<>>
  BY DEF Init, SchedInit
<1>3. \A p \in Slots : waitq[readq(p)] = <<>> /\ waitq[writeq(p)] = <<>>
  BY <1>2, QueueNames
<1>4. CurInv
  BY DEF Init, SchedInit, CurInv
<1>5. PlacedOnce
  BY <1>2, InEmpty DEF Init, SchedInit, PlacedOnce, Placed
<1>6. NoUseAfterRelease
  BY <1>3 DEF Init, NoUseAfterRelease, Kept, Idle
<1>7. SleepInv
  BY <1>3 DEF Init, SleepInv, Idle
<1>8. ExitInv
  BY DEF Init, SchedInit, ExitInv, Idle
<1> QED
  BY <1>1, <1>4, <1>5, <1>6, <1>7, <1>8 DEF SafeInv

\* Every step keeps the safety invariant, one case per action.
LEMMA NextSafe ==
  ASSUME SafeInv, [Next]_vars
  PROVE  SafeInv'
<1>c. CoreInv'
  BY NextCore DEF SafeInv
<1>f. /\ \A t \in Threads : call[t] \in [op : Ops, p : Nat, n : Nat, done : Nat]
      /\ \A t \in Threads : call[t].op \in {"read", "copy", "write", "block"}
                              => call[t].p \in Slots
      /\ Idle.op = "none"
  BY DEF SafeInv, CoreInv, TypeOK, Idle
<1>1. CASE Host
  BY <1>1, <1>c, SafeNew, SafeLoop DEF Host
<1>2. CASE Loop
  BY <1>2, <1>c, SafeLoop DEF Loop
<1>3. ASSUME NEW t \in Threads, User(t) PROVE SafeInv'
  <2>s. ASSUME At(t, "none")
        PROVE  \A p \in Slots : /\ waitq[readq(p)] # <<>> => Empty(p)
                                /\ waitq[writeq(p)] # <<>> => avail_space(p) = 0
    BY <2>s DEF SafeInv, SleepInv, Working, At, Running
  <2>1. ASSUME NEW p \in Slots, NEW n \in 1 .. MaxN, sys_read(t, p, n) PROVE SafeInv'
    <3> DEFINE g == [op |-> "read", p |-> p, n |-> n, done |-> 0]
    <3>1. g.op = "read" /\ g.p = p /\ call' = [call EXCEPT ![t] = g]
      BY <2>1 DEF sys_read
    <3> HIDE DEF g
    <3> QED
      BY <2>1, <2>s, <3>1, <1>c, SafeFrame DEF sys_read, At
  <2>2. ASSUME NEW p \in Slots, NEW n \in 1 .. MaxN, sys_write(t, p, n) PROVE SafeInv'
    <3> DEFINE g == [op |-> "write", p |-> p, n |-> n, done |-> 0]
    <3>1. g.op = "write" /\ g.p = p /\ call' = [call EXCEPT ![t] = g]
      BY <2>2 DEF sys_write
    <3> HIDE DEF g
    <3> QED
      BY <2>2, <2>s, <3>1, <1>c, SafeFrame DEF sys_write, At
  <2>3. ASSUME NEW p \in Slots, sys_close_read(t, p) \/ sys_close_write(t, p)
        PROVE  SafeInv'
    BY <2>3, <1>c, SafeSysClose
  <2>4. ASSUME sys_exit(t) PROVE SafeInv'
    BY <2>4, <1>c, SafeExit
  <2>5. ASSUME sys_runtime_call(t) PROVE SafeInv'
    BY <2>5, <1>c, SafeYield DEF sys_runtime_call
  <2> QED
    BY <1>3, <2>1, <2>2, <2>3, <2>4, <2>5 DEF User
<1>4. ASSUME NEW t \in Threads, Handler(t) PROVE SafeInv'
  <2> DEFINE p == call[t].p
  <2>s. ASSUME Running(t), call[t].op \in {"read", "copy", "write", "block"}
        PROVE  /\ p \in Slots /\ cur = t /\ phase = "run"
               /\ call[t].op \in {"read", "copy"} => rfd[p] = t
               /\ call[t].op \in {"write", "block"} => wfd[p] = t
               /\ \A r \in Slots :
                    /\ waitq[readq(r)] # <<>> => Empty(r) \/ (call[t].op = "write" /\ p = r)
                    /\ waitq[writeq(r)] # <<>> => avail_space(r) = 0 \/ (call[t].op = "copy" /\ p = r)
    BY <2>s, <1>f DEF SafeInv, SleepInv, Working, NoUseAfterRelease, Running
  <2>1. ASSUME pipe_read_wait(t) PROVE SafeInv'
    <3>1. call' = [call EXCEPT ![t] = call[t]]
      BY <2>1 DEF pipe_read_wait, pipeVars, SafeInv, CoreInv, TypeOK
    <3>2. At(t, "read") /\ rrschedblock(t, readq(p)) /\ Empty(p) /\ writeopen[p]
          /\ UNCHANGED <<devVars, dataVars, fdVars>>
      BY <2>1 DEF pipe_read_wait, pipeVars
    <3>3. readq(p) \in WaitQueues /\ p \in Slots /\ rfd[p] = t
      BY <3>2, <2>s, QueueNames DEF At
    <3> QED
      BY <3>1, <3>2, <3>3, <1>c, SafeBlock DEF At
  <2>2. ASSUME pipe_read_size(t) PROVE SafeInv'
    <3> DEFINE g == [call[t] EXCEPT !.op = "copy", !.n = Least(@, nwrite[p] - nread[p])]
    <3>1. g.op = "copy" /\ g.p = p /\ call' = [call EXCEPT ![t] = g]
      BY <2>2, <1>f DEF pipe_read_size
    <3> HIDE DEF g
    <3>2. At(t, "read") /\ UNCHANGED <<schedVars, devVars, dataVars, fdVars>>
      BY <2>2 DEF pipe_read_size
    <3> QED
      BY <3>1, <3>2, <2>s, <1>c, SafeFrame DEF At
  <2>3. ASSUME pipe_read_copy(t) PROVE SafeInv'
    <3> DEFINE g == [call[t] EXCEPT !.done = @ + read_chunk(t)]
    <3>1. g.op = "copy" /\ g.p = p /\ call' = [call EXCEPT ![t] = g] /\ At(t, "copy")
      BY <2>3, <1>f DEF pipe_read_copy, At
    <3> HIDE DEF g
    <3>2. /\ \A r \in Slots \ {p} : nread'[r] = nread[r]
          /\ UNCHANGED <<nwrite, schedVars, devVars, fdVars>>
      BY <2>3 DEF pipe_read_copy, SafeInv, CoreInv, TypeOK
    <3>3. ~Empty(p)
      <4>1. call[t].op = "copy" /\ call[t].done < call[t].n
        BY <2>3 DEF pipe_read_copy, At
      <4>2. call[t].n - call[t].done <= nwrite[p] - nread[p]
        BY <4>1, <1>f DEF SafeInv, CoreInv, FrameInv, FrameOK
      <4>3. /\ nwrite[p] \in Nat /\ nread[p] \in Nat
            /\ call[t].n \in Nat /\ call[t].done \in Nat
        BY <4>1, <2>s DEF SafeInv, CoreInv, TypeOK
      <4> QED
        BY <4>1, <4>2, <4>3 DEF Empty
    <3> QED
      BY <3>1, <3>2, <3>3, <2>s, <1>c, SafeCopy DEF At
  <2>4. ASSUME pipe_read_return(t) PROVE SafeInv'
    <3>1. At(t, "copy") /\ rrschedwake(writeq(p)) /\ call' = [call EXCEPT ![t] = Idle]
          /\ UNCHANGED <<devVars, nread, nwrite, fdVars>>
      BY <2>4 DEF pipe_read_return, Return, dataVars
    <3>2. p \in Slots /\ writeq(p) # readq(p)
      BY <3>1, <2>s, QueueNames DEF At
    <3> QED
      BY <3>1, <3>2, <1>f, <1>c, SafeWake DEF At
  <2>5. ASSUME pipe_write_fail(t) PROVE SafeInv'
    <3>1. At(t, "write") /\ ~readopen[p] /\ call' = [call EXCEPT ![t] = Idle]
          /\ UNCHANGED <<schedVars, devVars, dataVars, fdVars>>
      BY <2>5 DEF pipe_write_fail, Return
    <3>2. waitq[readq(p)] = <<>>
      <4>1. rfd[p] = NoThread
        BY <3>1, <2>s DEF At, SafeInv, NoUseAfterRelease, Kept
      <4>2. ASSUME NEW u \in Threads PROVE ~In(u, waitq[readq(p)])
        <5>1. ASSUME In(u, waitq[readq(p)]) PROVE FALSE
          <6>1. p \in Slots /\ readq(p) \in WaitQueues
            BY <3>1, <2>s, QueueNames DEF At
          <6>2. call[u].op \in {"read", "write"} /\ readq(p) = WaitsOn(u) /\ call[u].p \in Slots
            BY <5>1, <6>1, <1>f DEF SafeInv, PlacedOnce, Placed
          <6>3. call[u].op = "read" /\ call[u].p = p
            BY <6>1, <6>2, QueueNames DEF WaitsOn
          <6> QED
            BY <4>1, <6>3, NoThreadAssumption DEF SafeInv, NoUseAfterRelease
        <5> QED
          BY <5>1
      <4>3. waitq[readq(p)] \in Seq(Threads)
        BY <3>1, <2>s, QueueNames DEF At, SafeInv, CoreInv, TypeOK, SchedTypeOK
      <4> QED
        BY <4>2, <4>3, HasMember
    <3> QED
      BY <3>1, <3>2, <2>s, <1>f, <1>c, SafeFrame DEF At
  <2>6. ASSUME pipe_write_full(t) PROVE SafeInv'
    <3> DEFINE g == [call[t] EXCEPT !.op = "block"]
    <3>1. g.op = "block" /\ g.p = p /\ call' = [call EXCEPT ![t] = g]
      BY <2>6, <1>f DEF pipe_write_full, Goto
    <3> HIDE DEF g
    <3>2. /\ At(t, "write") /\ rrschedwake(readq(p)) /\ avail_space(p) = 0 /\ readopen[p]
          /\ UNCHANGED <<devVars, nread, nwrite, fdVars>>
      BY <2>6 DEF pipe_write_full, dataVars
    <3>3. p \in Slots /\ writeq(p) # readq(p) /\ wfd[p] = t
      BY <3>2, <2>s, QueueNames DEF At
    <3> QED
      BY <3>1, <3>2, <3>3, <1>c, SafeWake DEF At
  <2>7. ASSUME pipe_write_wait(t) PROVE SafeInv'
    <3> DEFINE g == [call[t] EXCEPT !.op = "write"]
    <3>1. g.op = "write" /\ g.p = p /\ call' = [call EXCEPT ![t] = g]
      BY <2>7, <1>f DEF pipe_write_wait, Goto
    <3> HIDE DEF g
    <3>2. /\ At(t, "block") /\ rrschedblock(t, writeq(p))
          /\ UNCHANGED <<devVars, dataVars, fdVars>>
      BY <2>7 DEF pipe_write_wait
    <3>3. writeq(p) \in WaitQueues /\ p \in Slots /\ wfd[p] = t
      BY <3>2, <2>s, QueueNames DEF At
    <3>4. avail_space(p) = 0 /\ readopen[p]
      BY <3>2 DEF At, SafeInv, SleepInv
    <3> QED
      BY <3>1, <3>2, <3>3, <3>4, <1>c, SafeBlock DEF At
  <2>8. ASSUME pipe_write_copy(t) PROVE SafeInv'
    <3> DEFINE g == [call[t] EXCEPT !.done = @ + write_chunk(t)]
    <3>1. g.op = "write" /\ g.p = p /\ call' = [call EXCEPT ![t] = g] /\ At(t, "write")
      BY <2>8, <1>f DEF pipe_write_copy, At
    <3> HIDE DEF g
    <3>2. /\ \A r \in Slots \ {p} : nwrite'[r] = nwrite[r]
          /\ UNCHANGED <<nread, schedVars, devVars, fdVars>> /\ avail_space(p) # 0
      BY <2>8 DEF pipe_write_copy, SafeInv, CoreInv, TypeOK
    <3> QED
      BY <3>1, <3>2, <2>s, <1>c, SafeCopy DEF At
  <2>9. ASSUME pipe_write_return(t) PROVE SafeInv'
    <3>1. At(t, "write") /\ rrschedwake(readq(p)) /\ call' = [call EXCEPT ![t] = Idle]
          /\ UNCHANGED <<devVars, nread, nwrite, fdVars>>
      BY <2>9 DEF pipe_write_return, Return
    <3>2. p \in Slots /\ writeq(p) # readq(p)
      BY <3>1, <2>s, QueueNames DEF At
    <3> QED
      BY <3>1, <3>2, <1>f, <1>c, SafeWake DEF At
  <2>10. ASSUME NEW r \in Slots, fdfree_read(t, r) \/ fdfree_write(t, r) PROVE SafeInv'
    BY <2>10, <1>c, SafeClose
  <2>11. ASSUME sys_exit_switch(t) PROVE SafeInv'
    BY <2>11, <1>c, SafeExitSwitch
  <2> QED
    BY <1>4, <2>1, <2>2, <2>3, <2>4, <2>5, <2>6, <2>7, <2>8, <2>9, <2>10, <2>11
       DEF Handler
<1>5. ASSUME NEW t \in Threads, TimerIrq(t) PROVE SafeInv'
  BY <1>5, <1>c, SafeYield DEF TimerIrq
<1>6. CASE UNCHANGED vars
  <2> USE <1>6 DEF vars, schedVars, pipeVars, devVars, dataVars, fdVars
  <2>1. PlacedOnce' /\ CurInv'
    BY DEF SafeInv, PlacedOnce, Placed, WaitsOn, CurInv, readq, writeq
  <2>2. NoUseAfterRelease'
    BY DEF SafeInv, NoUseAfterRelease, Kept, readq, writeq
  <2>3. SleepInv'
    BY SleepStays DEF SafeInv
  <2>4. ExitInv'
    BY DEF SafeInv, ExitInv
  <2> QED
    BY <2>1, <2>2, <2>3, <2>4, <1>c DEF SafeInv
<1> QED
  BY <1>1, <1>2, <1>3, <1>4, <1>5, <1>6 DEF Next

\* The safety invariant holds in every state.
LEMMA SafeHolds == Spec => []SafeInv
<1>1. Init => SafeInv
  BY InitSafe
<1>2. SafeInv /\ [Next]_vars => SafeInv'
  BY NextSafe
<1> QED
  BY <1>1, <1>2, PTL DEF Spec

\* The elem links of a thread are in one list at most, the one its state says.
THEOREM PlacedOnceHolds == Spec => []PlacedOnce
BY SafeHolds, PTL DEF SafeInv

\* pipe_close frees a buffer, and pipe_new reuses a slot, only when nobody can
\* reach the pipe any more.
THEOREM NoUseAfterReleaseHolds == Spec => []NoUseAfterRelease
BY SafeHolds, PTL DEF SafeInv

\* Every change of a pipe that a sleeper waits for is followed by rrschedwake
\* before the handler that made it gives up the processor.
THEOREM NoLostWakeupHolds == Spec => []NoLostWakeup
<1>1. SafeInv => NoLostWakeup
  BY DEF SafeInv, SleepInv, NoLostWakeup, Working
<1> QED
  BY <1>1, SafeHolds, PTL

\* rrschedstart leaves nobody asleep on the end of a process that has exited.
THEOREM StuckOnlyOnPeersHolds == Spec => []StuckOnlyOnPeers
<1>1. ASSUME SafeInv PROVE StuckOnlyOnPeers
  <2> SUFFICES ASSUME phase = "host", runq = <<>>, NEW p \in Slots, NEW t \in Threads
               PROVE  /\ In(t, waitq[readq(p)]) =>
                           /\ writeopen[p]
                           /\ wfd[p] = NoThread \/ state[wfd[p]] = "BLOCKED" \/ Fresh(wfd[p])
                      /\ In(t, waitq[writeq(p)]) =>
                           /\ readopen[p]
                           /\ rfd[p] = NoThread \/ state[rfd[p]] = "BLOCKED" \/ Fresh(rfd[p])
    BY DEF StuckOnlyOnPeers
  <2>1. ASSUME NEW u \in Threads, state[u] # "BLOCKED", rfd[p] = u \/ wfd[p] = u PROVE Fresh(u)
    <3>1. call[u].op # "exit"
      BY <1>1 DEF SafeInv, CoreInv, FrameInv
    <3>2. state[u] = "RUNNABLE"
      BY <1>1, <2>1, <3>1 DEF SafeInv, ExitInv, CoreInv, TypeOK, SchedTypeOK, States
    <3> QED
      BY <1>1, <3>2, InEmpty, NoThreadAssumption DEF Fresh, SafeInv, CurInv
  <2>2. /\ In(t, waitq[readq(p)]) => waitq[readq(p)] # <<>>
        /\ In(t, waitq[writeq(p)]) => waitq[writeq(p)] # <<>>
    BY InEmpty
  <2>3. rfd[p] \in Threads \cup {NoThread} /\ wfd[p] \in Threads \cup {NoThread}
    BY <1>1 DEF SafeInv, CoreInv, TypeOK
  <2> QED
    BY <1>1, <2>1, <2>2, <2>3 DEF SafeInv, SleepInv
<1> QED
  BY <1>1, SafeHolds, PTL

=============================================================================
