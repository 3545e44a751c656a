-------------------------------- MODULE Pipe --------------------------------
(***************************************************************************)
(* The inter-sandbox pipes of lps-linux/sys/sys_pipe.c, with the system    *)
(* calls that reach them (read, write, close, exit, the yield runtime call *)
(* and the timer interrupt), running on the round-robin scheduler.         *)
(*                                                                         *)
(* A handler runs with user interrupts off, so it is interrupted only      *)
(* where it calls rrschedblock.  call[t] is the frame of the handler that  *)
(* thread t is in: where it is in its loop and its local variables.  While *)
(* the running thread has a frame only its handler can step.               *)
(*                                                                         *)
(* Data: the bytes of one pipe are numbered 0, 1, 2, ... in the order the  *)
(* writing program produces them, and a byte is its number.  The device    *)
(* never looks at a byte, so distinct bytes show every loss, duplication   *)
(* and reordering.  Garbage is a byte nobody wrote.                        *)
(***************************************************************************)
EXTENDS RRSched, FiniteSets

CONSTANTS
  NPIPE,        \* slots of the static table pipes[]
  PIPESZ,       \* bytes of one ring buffer
  MaxN,         \* bound: the largest n a sandbox passes to read or write
  MaxBytes      \* bound: bytes written to one pipe in its lifetime

ASSUME NPIPEAssumption  == NPIPE \in Nat
ASSUME PIPESZAssumption == PIPESZ \in Nat \ {0}
ASSUME BoundAssumption  == MaxN \in Nat /\ MaxBytes \in Nat

Slots == 0 .. NPIPE - 1
readq(p)  == <<p, "r">>
writeq(p) == <<p, "w">>
PipeQueues == Slots \X {"r", "w"}

ASSUME QueueAssumption == WaitQueues = PipeQueues

Garbage == -1

VARIABLES
  allocated, readopen, writeopen, nread, nwrite, data,   \* struct Pipe
  rfd, wfd,     \* the thread whose fd table holds each end, or NoThread
  call,         \* handler frame of each thread
  wsent,        \* bytes of the completed writes of each pipe
  rcvd          \* history: the bytes delivered to the reader, in order

devVars  == <<allocated, readopen, writeopen>>
dataVars == <<nread, nwrite, data, wsent, rcvd>>
fdVars   == <<rfd, wfd>>
pipeVars == <<devVars, dataVars, fdVars, call>>
vars     == <<schedVars, pipeVars>>

Ops == {"none", "read", "copy", "write", "block", "exit"}

\* A thread in its sandbox: no handler frame.
Idle == [op |-> "none", p |-> 0, n |-> 0, done |-> 0]

Least(a, b) == IF a < b THEN a ELSE b

TypeOK ==
  /\ SchedTypeOK
  /\ allocated \in [Slots -> BOOLEAN]
  /\ readopen \in [Slots -> BOOLEAN]
  /\ writeopen \in [Slots -> BOOLEAN]
  /\ nread \in [Slots -> Nat]
  /\ nwrite \in [Slots -> Nat]
  /\ data \in [Slots -> [0 .. PIPESZ - 1 -> Int]]
  /\ rfd \in [Slots -> Threads \cup {NoThread}]
  /\ wfd \in [Slots -> Threads \cup {NoThread}]
  /\ call \in [Threads -> [op : Ops, p : Nat, n : Nat, done : Nat]]
  /\ \A t \in Threads : call[t].op \in {"read", "copy", "write", "block"}
                          => call[t].p \in Slots
  /\ wsent \in [Slots -> Nat]
  /\ rcvd \in [Slots -> Seq(Int)]

Init ==
  /\ SchedInit
  /\ allocated = [p \in Slots |-> FALSE]
  /\ readopen = [p \in Slots |-> FALSE]
  /\ writeopen = [p \in Slots |-> FALSE]
  /\ nread = [p \in Slots |-> 0]
  /\ nwrite = [p \in Slots |-> 0]
  /\ data = [p \in Slots |-> [k \in 0 .. PIPESZ - 1 |-> Garbage]]
  /\ rfd = [p \in Slots |-> NoThread]
  /\ wfd = [p \in Slots |-> NoThread]
  /\ call = [t \in Threads |-> Idle]
  /\ wsent = [p \in Slots |-> 0]
  /\ rcvd = [p \in Slots |-> <<>>]

-----------------------------------------------------------------------------
(* The host connects two processes, outside rrschedstart. *)

\* Slot p is the first one pipe_new finds unallocated.
FirstFree(p) == ~allocated[p] /\ \A r \in 0 .. p - 1 : allocated[r]

\* lps_pipe_new(from, ., to, .): a new pipe in the first free slot, its write
\* end in from's table and its read end in to's.
lps_pipe_new(from, to, p) ==
  /\ phase = "host"
  /\ state[from] # "EXITED" /\ state[to] # "EXITED"
  /\ FirstFree(p)
  /\ allocated' = [allocated EXCEPT ![p] = TRUE]
  /\ readopen' = [readopen EXCEPT ![p] = TRUE]
  /\ writeopen' = [writeopen EXCEPT ![p] = TRUE]
  /\ nread' = [nread EXCEPT ![p] = 0]
  /\ nwrite' = [nwrite EXCEPT ![p] = 0]
  /\ waitq' = [waitq EXCEPT ![readq(p)] = <<>>, ![writeq(p)] = <<>>]
  /\ data' = [data EXCEPT ![p] = [k \in 0 .. PIPESZ - 1 |-> Garbage]]
  /\ rfd' = [rfd EXCEPT ![p] = to]
  /\ wfd' = [wfd EXCEPT ![p] = from]
  /\ wsent' = [wsent EXCEPT ![p] = 0]
  /\ rcvd' = [rcvd EXCEPT ![p] = <<>>]
  /\ UNCHANGED <<state, runq, cur, phase, utimer, call>>

-----------------------------------------------------------------------------
(* pipe_read *)

\* Thread t runs in the handler at the point op; frame f is its locals.
At(t, op) == Running(t) /\ call[t].op = op

Goto(t, op) == call' = [call EXCEPT ![t].op = op]

Return(t) == call' = [call EXCEPT ![t] = Idle]

Empty(p) == nread[p] = nwrite[p]

sys_read(t, p, n) ==
  /\ At(t, "none")
  /\ rfd[p] = t
  /\ call' = [call EXCEPT ![t] = [op |-> "read", p |-> p, n |-> n, done |-> 0]]
  /\ UNCHANGED <<schedVars, devVars, dataVars, fdVars>>

\* The wait loop: empty, and a writer may still come.
pipe_read_wait(t) ==
  LET p == call[t].p IN
  /\ At(t, "read")
  /\ Empty(p) /\ writeopen[p]
  /\ rrschedblock(t, readq(p))
  /\ UNCHANGED pipeVars

\* Bug form: the counters swapped in the subtraction.
pipe_read_size_swapped(t) ==
  LET p == call[t].p IN
  /\ At(t, "read")
  /\ ~(Empty(p) /\ writeopen[p])
  /\ call' = [call EXCEPT ![t].op = "copy",
                          ![t].n = Least(@, nread[p] - nwrite[p])]
  /\ UNCHANGED <<schedVars, devVars, dataVars, fdVars>>

\* Past the loop: how much will be copied is decided once.
pipe_read_size(t) ==
  LET p == call[t].p IN
  /\ At(t, "read")
  /\ ~(Empty(p) /\ writeopen[p])
  /\ call' = [call EXCEPT ![t].op = "copy",
                          ![t].n = Least(@, nwrite[p] - nread[p])]
  /\ UNCHANGED <<schedVars, devVars, dataVars, fdVars>>

\* One memcpy copies at most to the end of the ring.
read_chunk(t) ==
  Least(call[t].n - call[t].done, PIPESZ - (nread[call[t].p] % PIPESZ))

pipe_read_copy(t) ==
  LET p     == call[t].p
      pos   == nread[p] % PIPESZ
      chunk == read_chunk(t)
  IN
  /\ At(t, "copy")
  /\ call[t].done < call[t].n
  /\ rcvd' = [rcvd EXCEPT ![p] = @ \o [i \in 1 .. chunk |-> data[p][pos + i - 1]]]
  /\ nread' = [nread EXCEPT ![p] = @ + chunk]
  /\ call' = [call EXCEPT ![t].done = @ + chunk]
  /\ UNCHANGED <<schedVars, devVars, nwrite, data, wsent, fdVars>>

pipe_read_return(t) ==
  /\ At(t, "copy")
  /\ call[t].done >= call[t].n
  /\ rrschedwake(writeq(call[t].p))
  /\ Return(t)
  /\ UNCHANGED <<devVars, dataVars, fdVars>>

-----------------------------------------------------------------------------
(* pipe_write *)

\* Bug form: one byte too many.
avail_space_plus1(p) == PIPESZ + 1 - (nwrite[p] - nread[p])

avail_space(p) == PIPESZ - (nwrite[p] - nread[p])

sys_write(t, p, n) ==
  /\ At(t, "none")
  /\ wfd[p] = t
  /\ wsent[p] + n <= MaxBytes
  /\ call' = [call EXCEPT ![t] = [op |-> "write", p |-> p, n |-> n, done |-> 0]]
  /\ UNCHANGED <<schedVars, devVars, dataVars, fdVars>>

\* The reader is gone: -1, and what was already copied stays in the buffer.
pipe_write_fail(t) ==
  /\ At(t, "write")
  /\ call[t].done < call[t].n
  /\ ~readopen[call[t].p]
  /\ Return(t)
  /\ UNCHANGED <<schedVars, devVars, dataVars, fdVars>>

\* Full: the readers are woken before the writer goes to sleep.
pipe_write_full(t) ==
  LET p == call[t].p IN
  /\ At(t, "write")
  /\ call[t].done < call[t].n
  /\ readopen[p]
  /\ avail_space(p) = 0
  /\ rrschedwake(readq(p))
  /\ Goto(t, "block")
  /\ UNCHANGED <<devVars, dataVars, fdVars>>

pipe_write_wait(t) ==
  /\ At(t, "block")
  /\ rrschedblock(t, writeq(call[t].p))
  /\ Goto(t, "write")
  /\ UNCHANGED <<devVars, dataVars, fdVars>>

\* Bug form: a copy that forgets the end of the ring.
write_chunk_nowrap(t) ==
  Least(call[t].n - call[t].done, avail_space(call[t].p))

\* One memcpy: what is left, what fits, and at most to the end of the ring.
write_chunk(t) ==
  LET p == call[t].p IN
  Least(Least(call[t].n - call[t].done, avail_space(p)),
        PIPESZ - (nwrite[p] % PIPESZ))

pipe_write_copy(t) ==
  LET p     == call[t].p
      pos   == nwrite[p] % PIPESZ
      chunk == write_chunk(t)
  IN
  /\ At(t, "write")
  /\ call[t].done < call[t].n
  /\ readopen[p]
  /\ avail_space(p) # 0
  /\ data' = [data EXCEPT ![p] = [k \in 0 .. PIPESZ - 1 |->
                IF pos <= k /\ k < pos + chunk
                THEN wsent[p] + call[t].done + (k - pos)
                ELSE data[p][k]]]
  /\ nwrite' = [nwrite EXCEPT ![p] = @ + chunk]
  /\ call' = [call EXCEPT ![t].done = @ + chunk]
  /\ UNCHANGED <<schedVars, devVars, nread, wsent, rcvd, fdVars>>

\* Bug form: the readers are not woken.
pipe_write_return_nowake(t) ==
  LET p == call[t].p IN
  /\ At(t, "write")
  /\ call[t].done >= call[t].n
  /\ Return(t)
  /\ wsent' = [wsent EXCEPT ![p] = @ + call[t].n]
  /\ UNCHANGED <<schedVars, devVars, nread, nwrite, data, rcvd, fdVars>>

pipe_write_return(t) ==
  LET p == call[t].p IN
  /\ At(t, "write")
  /\ call[t].done >= call[t].n
  /\ rrschedwake(readq(p))
  /\ Return(t)
  /\ wsent' = [wsent EXCEPT ![p] = @ + call[t].n]
  /\ UNCHANGED <<devVars, nread, nwrite, data, rcvd, fdVars>>

-----------------------------------------------------------------------------
(* Closing an end *)

\* Bug form: the slot is released with the first end.
PipeReleaseEarly(p, ropen, wopen) ==
  /\ readopen' = [readopen EXCEPT ![p] = ropen]
  /\ writeopen' = [writeopen EXCEPT ![p] = wopen]
  /\ allocated' = [allocated EXCEPT ![p] = ropen /\ wopen]
  /\ data' = [data EXCEPT ![p] = [k \in 0 .. PIPESZ - 1 |-> Garbage]]
  /\ UNCHANGED <<nread, nwrite, wsent, rcvd>>

\* Both ends closed: the buffer is freed and the slot can be reused.
PipeRelease(p, ropen, wopen) ==
  /\ readopen' = [readopen EXCEPT ![p] = ropen]
  /\ writeopen' = [writeopen EXCEPT ![p] = wopen]
  /\ allocated' = [allocated EXCEPT ![p] = ropen \/ wopen]
  /\ data' = IF ropen \/ wopen THEN data
             ELSE [data EXCEPT ![p] = [k \in 0 .. PIPESZ - 1 |-> Garbage]]
  /\ UNCHANGED <<nread, nwrite, wsent, rcvd>>

pipe_close_read(p) ==
  /\ PipeRelease(p, FALSE, writeopen[p])
  /\ rrschedwake(writeq(p))

\* Bug form: the readers are not told.
pipe_close_write_nowake(p) ==
  /\ PipeRelease(p, readopen[p], FALSE)
  /\ UNCHANGED schedVars

pipe_close_write(p) ==
  /\ PipeRelease(p, readopen[p], FALSE)
  /\ rrschedwake(readq(p))

\* close(2) on a pipe descriptor.  filefree frees the FDFile and never calls
\* its close function, so the device hears nothing: only the slot is emptied.
sys_close_read(t, p) ==
  /\ At(t, "none")
  /\ rfd[p] = t
  /\ rfd' = [rfd EXCEPT ![p] = NoThread]
  /\ UNCHANGED <<schedVars, devVars, dataVars, wfd, call>>

sys_close_write(t, p) ==
  /\ At(t, "none")
  /\ wfd[p] = t
  /\ wfd' = [wfd EXCEPT ![p] = NoThread]
  /\ UNCHANGED <<schedVars, devVars, dataVars, rfd, call>>

-----------------------------------------------------------------------------
(* Leaving the processor *)

\* exit and exit_group: the state is set first, then fdfree runs.
sys_exit(t) ==
  /\ At(t, "none")
  /\ state' = [state EXCEPT ![t] = "EXITED"]
  /\ Goto(t, "exit")
  /\ UNCHANGED <<runq, waitq, cur, phase, utimer, devVars, dataVars, fdVars>>

\* One descriptor of fdfree's loop; descriptor numbers, and so the order of
\* the ends, are the host's choice.
fdfree_read(t, p) ==
  /\ At(t, "exit")
  /\ rfd[p] = t
  /\ pipe_close_read(p)
  /\ rfd' = [rfd EXCEPT ![p] = NoThread]
  /\ UNCHANGED <<wfd, call>>

fdfree_write(t, p) ==
  /\ At(t, "exit")
  /\ wfd[p] = t
  /\ pipe_close_write(p)
  /\ wfd' = [wfd EXCEPT ![p] = NoThread]
  /\ UNCHANGED <<rfd, call>>

\* Bug form: the thread leaves with descriptors still open.
sys_exit_switch_early(t) ==
  /\ At(t, "exit")
  /\ lps_thread_exit(t)
  /\ Return(t)
  /\ UNCHANGED <<state, waitq, devVars, dataVars, fdVars>>

\* The table is empty: the thread leaves for good.
sys_exit_switch(t) ==
  /\ At(t, "exit")
  /\ \A p \in Slots : rfd[p] # t /\ wfd[p] # t
  /\ lps_thread_exit(t)
  /\ Return(t)
  /\ UNCHANGED <<state, waitq, devVars, dataVars, fdVars>>

\* The YIELD runtime call.
sys_runtime_call(t) ==
  /\ At(t, "none")
  /\ lps_thread_exit(t)
  /\ UNCHANGED <<state, waitq, pipeVars>>

\* The user timer fires; it can only do so in sandbox code.
TimerIrq(t) ==
  /\ utimer
  /\ At(t, "none")
  /\ lps_thread_exit(t)
  /\ UNCHANGED <<state, waitq, pipeVars>>

-----------------------------------------------------------------------------
Host ==
  \/ \E from, to \in Threads, p \in Slots : lps_pipe_new(from, to, p)
  \/ /\ \/ \E t \in Threads : rrschedadd(t)
        \/ \E b \in BOOLEAN : rrschedstart(b)
     /\ UNCHANGED pipeVars

Loop ==
  /\ get_next_runable \/ rrschedreturn \/ rrschedrequeue
  /\ UNCHANGED pipeVars

\* What the program in the sandbox may ask for.
User(t) ==
  \/ \E p \in Slots, n \in 1 .. MaxN : sys_read(t, p, n) \/ sys_write(t, p, n)
  \/ \E p \in Slots : sys_close_read(t, p) \/ sys_close_write(t, p)
  \/ sys_exit(t)
  \/ sys_runtime_call(t)

\* A step of a handler that is already running.
Handler(t) ==
  \/ pipe_read_wait(t) \/ pipe_read_size(t) \/ pipe_read_copy(t)
  \/ pipe_read_return(t)
  \/ pipe_write_fail(t) \/ pipe_write_full(t) \/ pipe_write_wait(t)
  \/ pipe_write_copy(t) \/ pipe_write_return(t)
  \/ \E p \in Slots : fdfree_read(t, p) \/ fdfree_write(t, p)
  \/ sys_exit_switch(t)

Next ==
  \/ Host
  \/ Loop
  \/ \E t \in Threads : User(t) \/ Handler(t) \/ TimerIrq(t)

Spec == Init /\ [][Next]_vars

\* The loop and the handlers never stop by themselves.  An armed timer that
\* expires during a handler stays pending and is taken on the return to the
\* sandbox, so a program that keeps making system calls is interrupted too:
\* strong fairness.  Nothing is assumed of the host or of the programs.
Fairness ==
  /\ WF_vars(Loop)
  /\ \A t \in Threads : WF_vars(Handler(t)) /\ SF_vars(TimerIrq(t))

FairSpec == Spec /\ Fairness

-----------------------------------------------------------------------------
(* Properties *)

\* Thread t is in the list a queue name stands for, exactly once.
Once(t, q) == \E i \in DOMAIN q : q[i] = t /\ \A j \in DOMAIN q : q[j] = t => j = i

\* The queue the handler of t blocks on.
WaitsOn(t) == IF call[t].op = "read" THEN readq(call[t].p) ELSE writeq(call[t].p)

Placed(t) ==
  /\ In(t, runq) => /\ Once(t, runq)
                    /\ state[t] = "RUNNABLE"
                    /\ cur # t
  /\ \A q \in WaitQueues :
       In(t, waitq[q]) => /\ Once(t, waitq[q])
                          /\ state[t] = "BLOCKED"
                          /\ call[t].op \in {"read", "write"}
                          /\ q = WaitsOn(t)
  /\ state[t] = "BLOCKED" => \E q \in WaitQueues : In(t, waitq[q])

\* Every thread is linked into one list at most, as its state says: the
\* intrusive elem links of a thread are never shared.  A BLOCKED thread is in
\* exactly one wait queue, once, the one its handler waits on; a thread in the
\* run queue is there once, RUNNABLE and not loaded; an EXITED thread is in no
\* list.
PlacedOnce == \A t \in Threads : Placed(t)

\* No wake-up is lost: whenever no handler is in the middle of its work, a
\* thread sleeps on a pipe only while there is nothing for it to do.  Readers
\* sleep on an empty pipe whose writer may still write, writers on a full pipe
\* whose reader may still read.
NoLostWakeup ==
  (phase = "run" => call[cur].op = "none") =>
    \A p \in Slots :
      /\ waitq[readq(p)] # <<>> => Empty(p) /\ writeopen[p]
      /\ waitq[writeq(p)] # <<>> => avail_space(p) = 0 /\ readopen[p]

\* The reader gets the writer's bytes: in order, none lost, none twice, none
\* overwritten before it was read.
InOrderDelivery ==
  \A p \in Slots : rcvd[p] = [i \in 1 .. nread[p] |-> i - 1]

\* The counters never cross and never get further apart than the buffer.
RingBounded == \A p \in Slots : nread[p] <= nwrite[p] /\ avail_space(p) >= 0

\* The ends of slot p that something still refers to are open.
Kept(p) ==
  /\ rfd[p] # NoThread => allocated[p] /\ readopen[p]
  /\ wfd[p] # NoThread => allocated[p] /\ writeopen[p]
  /\ ~allocated[p] => waitq[readq(p)] = <<>> /\ waitq[writeq(p)] = <<>>

\* Nobody reaches a freed buffer: an end that a descriptor still refers to, or
\* whose handler is asleep, is open and its pipe keeps its slot; and a slot
\* that pipe_new may reinitialise has no thread in its queues.
NoUseAfterRelease ==
  /\ \A p \in Slots : Kept(p)
  /\ \A t \in Threads :
       /\ call[t].op \in {"read", "copy"} => rfd[call[t].p] = t
       /\ call[t].op \in {"write", "block"} => wfd[call[t].p] = t

\* When rrschedstart returns although a thread sleeps on a pipe, the program
\* has deadlocked itself: the other end is still open, and it is in the table
\* of a process that sleeps too or was never added, or a sandbox dropped it
\* with close.  A process that has exited never keeps anybody asleep.
StuckOnlyOnPeers ==
  phase = "host" /\ runq = <<>> =>
    \A p \in Slots, t \in Threads :
      /\ In(t, waitq[readq(p)]) =>
           /\ writeopen[p]
           /\ wfd[p] = NoThread \/ state[wfd[p]] = "BLOCKED" \/ Fresh(wfd[p])
      /\ In(t, waitq[writeq(p)]) =>
           /\ readopen[p]
           /\ rfd[p] = NoThread \/ state[rfd[p]] = "BLOCKED" \/ Fresh(rfd[p])

\* The bytes in the ring, oldest first.
Content(p) == [i \in 1 .. nwrite[p] - nread[p] |->
                 data[p][(nread[p] + i - 1) % PIPESZ]]

Chan(p) == INSTANCE Channel WITH
  Cap <- PIPESZ,
  buf <- IF allocated[p] THEN Content(p) ELSE <<>>,
  out <- rcvd[p],
  ropen <- readopen[p],
  wopen <- writeopen[p]

\* Every slot of the pipe table implements the bounded lossless channel,
\* across wrap-around of the ring, blocking, closing and reuse of the slot.
\* (This is \A p \in Slots : Chan(p)!Spec with the quantifier moved inside.)
ImplementsChannel ==
  /\ \A p \in Slots : Chan(p)!Init
  /\ [][\A p \in Slots : [Chan(p)!Next]_(Chan(p)!chanVars)]_vars

\* With the timer armed, a thread in the run queue gets the processor: no
\* program can keep the others out by not yielding.
NoStarvation ==
  \A t \in Threads : (In(t, runq) /\ utimer /\ phase # "host") ~> (cur = t)

\* A call whose peer's process exits is always answered: a read with the bytes
\* left in the pipe or with end of file, a write asleep on a full pipe too.
ExitAnswersPeer ==
  \A t \in Threads, p \in Slots :
    /\ (call[t].op = "read" /\ call[t].p = p /\ ~writeopen[p] /\ utimer)
         ~> (call[t].op # "read")
    /\ (call[t].op = "write" /\ call[t].p = p /\ ~readopen[p] /\ utimer)
         ~> (call[t].op # "write")

=============================================================================
