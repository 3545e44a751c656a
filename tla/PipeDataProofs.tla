--------------------------- MODULE PipeDataProofs ---------------------------
(***************************************************************************)
(* What the pipes carry: the reader gets the writer's bytes in order, and  *)
(* every slot of the pipe table implements the bounded channel of module   *)
(* Channel.  Both rest on one invariant about the ring, on top of SafeInv. *)
(***************************************************************************)
EXTENDS PipeProofs

-----------------------------------------------------------------------------
(* The invariant *)

\* The ring of an allocated pipe holds, at its place, every byte that was
\* written and not yet read.
Held(p) == allocated[p] =>
             \A k \in nread[p] .. nwrite[p] - 1 : data[p][k % PIPESZ] = k

\* Thread t is inside pipe_write on slot p.
Writes(t, p) == call[t].op \in {"write", "block"} /\ call[t].p = p

\* The write counter is the writing program's count: the bytes of its complete
\* writes and what the call in progress has copied.  A write that fails has
\* found the read end closed, and then nothing is copied any more.
Counted(p) ==
  readopen[p] =>
    /\ \A t \in Threads : Writes(t, p) => nwrite[p] = wsent[p] + call[t].done
    /\ (\A t \in Threads : ~Writes(t, p)) => nwrite[p] = wsent[p]

\* A slot is allocated as long as one of its ends is open.
OpenAllocated(p) == allocated[p] <=> readopen[p] \/ writeopen[p]

Delivered(p) == rcvd[p] = [i \in 1 .. nread[p] |-> i - 1]

DataInv ==
  \A p \in Slots : Held(p) /\ Counted(p) /\ OpenAllocated(p) /\ Delivered(p)

-----------------------------------------------------------------------------
(* Arithmetic of the ring *)

\* Inside one lap of the ring the position moves with the counter.
LEMMA RingStep ==
  ASSUME NEW n \in Nat, NEW i \in Nat, (n % PIPESZ) + i < PIPESZ
  PROVE  (n + i) % PIPESZ = (n % PIPESZ) + i
<1> DEFINE lap == n \div PIPESZ
           pos == n % PIPESZ
<1>1. n = PIPESZ * lap + pos /\ lap \in Int /\ pos \in 0 .. PIPESZ - 1
  BY PIPESZAssumption
<1>2. pos + i < PIPESZ
  OBVIOUS
<1> HIDE DEF lap, pos
<1>3. n + i = PIPESZ * lap + (pos + i) /\ pos + i \in 0 .. PIPESZ - 1
  BY <1>1, <1>2, PIPESZAssumption
<1>4. (PIPESZ * lap + (pos + i)) % PIPESZ = pos + i
  BY <1>1, <1>3, PIPESZAssumption
<1> QED
  BY <1>3, <1>4 DEF pos

\* Two counters less than a lap apart have different positions.
LEMMA RingApart ==
  ASSUME NEW a \in Nat, NEW b \in Nat, a < b, b < a + PIPESZ
  PROVE  a % PIPESZ # b % PIPESZ
<1> USE PIPESZAssumption
<1>1. /\ a = PIPESZ * (a \div PIPESZ) + (a % PIPESZ)
      /\ b = PIPESZ * (b \div PIPESZ) + (b % PIPESZ)
      /\ a \div PIPESZ \in Int /\ b \div PIPESZ \in Int
  OBVIOUS
<1>2. ASSUME a % PIPESZ = b % PIPESZ PROVE FALSE
  <2> DEFINE laps == (b \div PIPESZ) - (a \div PIPESZ)
  <2>1. b - a = PIPESZ * laps /\ laps \in Int
    BY <1>1, <1>2
  <2> HIDE DEF laps
  <2>2. CASE laps <= 0
    <3>1. PIPESZ * laps <= 0
      BY <2>1, <2>2
    <3> QED
      BY <3>1, <2>1
  <2>3. CASE laps >= 1
    <3>1. PIPESZ * laps >= PIPESZ
      BY <2>1, <2>3
    <3> QED
      BY <3>1, <2>1
  <2> QED
    BY <2>1, <2>2, <2>3
<1> QED
  BY <1>2

\* n numbers in a row, from a on.
Run(a, n) == [i \in 1 .. n |-> a + i - 1]

\* Runs are sequences.
LEMMA RunSeq ==
  ASSUME NEW a \in Int, NEW n \in Nat
  PROVE  Run(a, n) \in Seq(Int) /\ Len(Run(a, n)) = n
BY DEF Run

\* The elements of two sequences put together.
LEMMA ConcatShape ==
  ASSUME NEW S, NEW s \in Seq(S), NEW u \in Seq(S)
  PROVE  /\ s \o u \in Seq(S)
         /\ Len(s \o u) = Len(s) + Len(u)
         /\ \A i \in 1 .. Len(s) + Len(u) :
              (s \o u)[i] = IF i <= Len(s) THEN s[i] ELSE u[i - Len(s)]
OBVIOUS

\* Two sequences with the same elements are equal.
LEMMA SameElements ==
  ASSUME NEW S, NEW s \in Seq(S), NEW u \in Seq(S), Len(s) = Len(u),
         \A i \in 1 .. Len(s) : s[i] = u[i]
  PROVE  s = u
OBVIOUS

\* A run followed by the next one is a run.
LEMMA RunConcat ==
  ASSUME NEW a \in Int, NEW n \in Nat, NEW m \in Nat
  PROVE  Run(a, n) \o Run(a + n, m) = Run(a, n + m)
<1> DEFINE s == Run(a, n)
           u == Run(a + n, m)
           v == Run(a, n + m)
<1>1. /\ s \in Seq(Int) /\ Len(s) = n
      /\ u \in Seq(Int) /\ Len(u) = m
      /\ v \in Seq(Int) /\ Len(v) = n + m
  BY RunSeq
<1>2. /\ \A i \in 1 .. n : s[i] = a + i - 1
      /\ \A i \in 1 .. m : u[i] = a + n + i - 1
      /\ \A i \in 1 .. n + m : v[i] = a + i - 1
  BY DEF Run
<1> HIDE DEF s, u, v
<1>3. /\ s \o u \in Seq(Int)
      /\ Len(s \o u) = Len(s) + Len(u)
      /\ \A i \in 1 .. Len(s) + Len(u) :
           (s \o u)[i] = IF i <= Len(s) THEN s[i] ELSE u[i - Len(s)]
  <2>1. s \in Seq(Int) /\ u \in Seq(Int)
    BY <1>1
  <2> QED
    BY <2>1, ConcatShape
<1>4. ASSUME NEW i \in 1 .. n + m PROVE (s \o u)[i] = v[i]
  <2>1. i \in 1 .. Len(s) + Len(u) /\ v[i] = a + i - 1
    BY <1>1, <1>2
  <2>2. CASE i <= n
    <3>1. i \in 1 .. n /\ i <= Len(s)
      BY <1>1, <2>2
    <3>2. (s \o u)[i] = s[i]
      BY <1>3, <2>1, <3>1
    <3> QED
      BY <1>2, <2>1, <3>1, <3>2
  <2>3. CASE ~(i <= n)
    <3>1. PICK j \in 1 .. m : j = i - n
      BY <2>3
    <3>2. (s \o u)[i] = u[i - n]
      BY <1>1, <1>3, <2>1, <2>3
    <3>3. u[j] = a + n + j - 1 /\ a + n + j - 1 = a + i - 1
      BY <1>2, <3>1
    <3> QED
      BY <2>1, <3>1, <3>2, <3>3
  <2> QED
    BY <2>2, <2>3
<1>5. s \o u = v
  <2> DEFINE w == s \o u
  <2>1. w \in Seq(Int) /\ Len(w) = Len(v) /\ \A i \in 1 .. Len(w) : w[i] = v[i]
    BY <1>1, <1>3, <1>4
  <2> HIDE DEF w
  <2>2. w = v
    BY <2>1, <1>1, SameElements
  <2> QED
    BY <2>2 DEF w
<1> QED
  BY <1>5 DEF s, u, v

\* The same for the runs from zero.
LEMMA RunFromZero ==
  ASSUME NEW n \in Nat, NEW m \in Nat
  PROVE  /\ Run(0, n) = [i \in 1 .. n |-> i - 1]
         /\ Run(0, n) \o Run(n, m) = Run(0, n + m)
<1>1. Run(0, n) = [i \in 1 .. n |-> i - 1]
  BY DEF Run
<1>2. ASSUME NEW a \in Int, a = 0 PROVE Run(a, n) \o Run(n, m) = Run(a, n + m)
  <2>1. a + n = n
    BY <1>2
  <2>2. Run(a, n) \o Run(a + n, m) = Run(a, n + m)
    BY RunConcat
  <2> QED
    BY <2>1, <2>2
<1> QED
  BY <1>1, <1>2

\* The first k of a run, and the rest.
LEMMA RunSplit ==
  ASSUME NEW a \in Int, NEW n \in Nat, NEW k \in Nat, k <= n
  PROVE  /\ SubSeq(Run(a, n), 1, k) = Run(a, k)
         /\ SubSeq(Run(a, n), k + 1, n) = Run(a + k, n - k)
<1> DEFINE s == Run(a, n)
<1>1. s \in Seq(Int) /\ Len(s) = n /\ \A i \in 1 .. n : s[i] = a + i - 1
  BY RunSeq DEF Run
<1>2. SubSeq(s, 1, k) = [i \in 1 .. k |-> s[i]]
  BY <1>1
<1>3. SubSeq(s, k + 1, n) = [i \in 1 .. n - k |-> s[i + k]]
  BY <1>1
<1> HIDE DEF s
<1>4. [i \in 1 .. k |-> s[i]] = Run(a, k)
  BY <1>1 DEF Run
<1>5. [i \in 1 .. n - k |-> s[i + k]] = Run(a + k, n - k)
  BY <1>1 DEF Run
<1> QED
  BY <1>2, <1>3, <1>4, <1>5 DEF s

-----------------------------------------------------------------------------
(* The invariant is kept *)

\* The write counter and the writing program's count stand still on slot p.
LEMMA CountedStays ==
  ASSUME NEW p \in Slots, Counted(p), nwrite'[p] = nwrite[p], wsent'[p] = wsent[p],
         readopen'[p] => readopen[p],
         \A u \in Threads : /\ Writes(u, p)' <=> Writes(u, p)
                            /\ Writes(u, p) => call'[u].done = call[u].done
  PROVE  Counted(p)'
BY DEF Counted

\* A handler moves on without a byte written: its frame becomes g.
LEMMA CountedFrame ==
  ASSUME SafeInv, DataInv, NEW t \in Threads, NEW g, call' = [call EXCEPT ![t] = g],
         UNCHANGED <<nwrite, wsent, readopen>>,
         g.op \in {"write", "block"} <=> call[t].op \in {"write", "block"},
         g.op \in {"write", "block"} => g.p = call[t].p /\ g.done = call[t].done,
         NEW p \in Slots
  PROVE  Counted(p)'
<1>1. \A u \in Threads : call'[u] = IF u = t THEN g ELSE call[u]
  BY DEF SafeInv, CoreInv, TypeOK
<1>2. \A u \in Threads : /\ Writes(u, p)' <=> Writes(u, p)
                         /\ Writes(u, p) => call'[u].done = call[u].done
  BY <1>1 DEF Writes
<1> QED
  BY <1>2, CountedStays DEF DataInv

\* There is one writer at a time: the thread that holds the write end.
LEMMA OneWriter ==
  ASSUME SafeInv, NEW t \in Threads, NEW p, Writes(t, p)
  PROVE  /\ p \in Slots /\ wfd[p] = t /\ allocated[p] /\ writeopen[p]
         /\ \A u \in Threads : Writes(u, p) => u = t
<1>1. p \in Slots
  BY DEF Writes, SafeInv, CoreInv, TypeOK
<1>2. \A u \in Threads : Writes(u, p) => wfd[p] = u
  BY DEF Writes, SafeInv, NoUseAfterRelease
<1> QED
  BY <1>1, <1>2, NoThreadAssumption DEF SafeInv, NoUseAfterRelease, Kept

\* sys_write: a call begins with nothing copied.
LEMMA CountedBegin ==
  ASSUME SafeInv, DataInv, NEW t \in Threads, NEW r \in Slots, NEW n, sys_write(t, r, n),
         NEW p \in Slots
  PROVE  Counted(p)'
<1> DEFINE g == [op |-> "write", p |-> r, n |-> n, done |-> 0]
<1>1. /\ call[t].op = "none" /\ wfd[r] = t
      /\ \A u \in Threads : call'[u] = IF u = t THEN g ELSE call[u]
      /\ UNCHANGED <<nwrite, wsent, readopen>>
  BY DEF sys_write, At, SafeInv, CoreInv, TypeOK, devVars, dataVars
<1>2. CASE p = r
  <2>1. \A u \in Threads : ~Writes(u, r)
    BY <1>1 DEF Writes, SafeInv, NoUseAfterRelease
  <2>2. readopen[r] => nwrite[r] = wsent[r] + 0
    BY <2>1 DEF DataInv, Counted, SafeInv, CoreInv, TypeOK
  <2>3. \A u \in Threads : Writes(u, r)' <=> u = t
    BY <1>1, <2>1 DEF Writes
  <2>4. call'[t].done = 0
    BY <1>1
  <2> QED
    BY <1>1, <1>2, <2>2, <2>3, <2>4 DEF Counted
<1>3. CASE p # r
  <2>1. \A u \in Threads : /\ Writes(u, p)' <=> Writes(u, p)
                           /\ Writes(u, p) => call'[u].done = call[u].done
    BY <1>1, <1>3 DEF Writes
  <2> QED
    BY <1>1, <2>1, CountedStays DEF DataInv
<1> QED
  BY <1>2, <1>3

\* pipe_write returns: complete, or because the reader is gone.
LEMMA CountedEnd ==
  ASSUME SafeInv, DataInv, NEW t \in Threads,
         pipe_write_fail(t) \/ pipe_write_return(t), NEW p \in Slots
  PROVE  Counted(p)'
<1> DEFINE r == call[t].p
<1>1. /\ Writes(t, r)
      /\ \A u \in Threads : call'[u] = IF u = t THEN Idle ELSE call[u]
      /\ UNCHANGED <<nwrite, readopen>>
  BY DEF pipe_write_fail, pipe_write_return, At, Return, SafeInv, CoreInv, TypeOK,
         devVars, dataVars, Writes
<1>2. r \in Slots /\ \A u \in Threads : Writes(u, r) => u = t
  BY <1>1, OneWriter
<1>3. \A u \in Threads : Writes(u, p)' <=> Writes(u, p) /\ u # t
  BY <1>1 DEF Writes, Idle
<1>4. CASE p # r
  <2>1. ~Writes(t, p)
    BY <1>1, <1>4 DEF Writes
  <2>2. wsent'[p] = wsent[p]
    BY <1>4 DEF pipe_write_fail, pipe_write_return, dataVars, SafeInv, CoreInv, TypeOK
  <2>3. \A u \in Threads : /\ Writes(u, p)' <=> Writes(u, p)
                           /\ Writes(u, p) => call'[u].done = call[u].done
    BY <1>1, <1>3, <2>1
  <2> QED
    BY <1>1, <2>2, <2>3, CountedStays DEF DataInv
<1>5. CASE p = r /\ pipe_write_fail(t)
  BY <1>1, <1>5 DEF Counted, pipe_write_fail
<1>6. CASE p = r /\ pipe_write_return(t)
  <2>1. /\ call[t].n \in Nat /\ call[t].done \in Nat /\ wsent[r] \in Nat
        /\ call[t].done <= call[t].n /\ call[t].done >= call[t].n
    BY <1>1, <1>2, <1>6 DEF pipe_write_return, Writes, SafeInv, CoreInv, TypeOK, FrameInv,
                            FrameOK
  <2>2. wsent'[r] = wsent[r] + call[t].n
    BY <1>2, <1>6 DEF pipe_write_return, SafeInv, CoreInv, TypeOK
  <2>3. readopen[r] => nwrite[r] = wsent[r] + call[t].done
    BY <1>1, <1>2 DEF DataInv, Counted
  <2>4. wsent'[r] = wsent[r] + call[t].done
    BY <2>1, <2>2
  <2> QED
    BY <1>1, <1>2, <1>3, <1>6, <2>3, <2>4 DEF Counted
<1> QED
  BY <1>4, <1>5, <1>6

\* What pipe_write_copy does to its pipe, in numbers.
LEMMA WriteCopyFacts ==
  ASSUME SafeInv, NEW t \in Threads, pipe_write_copy(t)
  PROVE  LET p     == call[t].p
             pos   == nwrite[p] % PIPESZ
             chunk == write_chunk(t)
         IN  /\ p \in Slots /\ Writes(t, p) /\ readopen[p]
             /\ nread[p] \in Nat /\ nwrite[p] \in Nat /\ nread[p] <= nwrite[p]
             /\ pos \in 0 .. PIPESZ - 1
             /\ chunk \in Nat \ {0}
             /\ chunk <= PIPESZ - (nwrite[p] - nread[p])
             /\ chunk <= PIPESZ - pos
             /\ nwrite' = [nwrite EXCEPT ![p] = nwrite[p] + chunk]
             /\ nwrite'[p] = nwrite[p] + chunk
             /\ \A k \in 0 .. PIPESZ - 1 :
                  data'[p][k] = IF pos <= k /\ k < pos + chunk
                                THEN wsent[p] + call[t].done + (k - pos)
                                ELSE data[p][k]
             /\ \A r \in Slots \ {p} : data'[r] = data[r] /\ nwrite'[r] = nwrite[r]
             /\ \A u \in Threads :
                  call'[u] = IF u = t THEN [call[t] EXCEPT !.done = call[t].done + chunk]
                             ELSE call[u]
             /\ UNCHANGED <<devVars, nread, wsent, rcvd, fdVars>>
<1> DEFINE p     == call[t].p
           pos   == nwrite[p] % PIPESZ
           chunk == write_chunk(t)
<1> USE PIPESZAssumption
<1>1. /\ call[t] \in [op : Ops, p : Nat, n : Nat, done : Nat]
      /\ p \in Slots /\ nwrite[p] \in Nat /\ nread[p] \in Nat
      /\ call[t].op = "write" /\ call[t].done < call[t].n /\ readopen[p]
      /\ nread[p] <= nwrite[p] /\ PIPESZ - (nwrite[p] - nread[p]) > 0
  BY DEF SafeInv, CoreInv, TypeOK, RingBounded, avail_space, pipe_write_copy, At
<1>2. pos \in 0 .. PIPESZ - 1
  BY <1>1, RingPosition
<1>3. /\ chunk \in Nat \ {0}
      /\ chunk <= PIPESZ - (nwrite[p] - nread[p])
      /\ chunk <= PIPESZ - pos
  BY <1>1, <1>2 DEF write_chunk, avail_space, Least
<1>4. /\ nwrite' = [nwrite EXCEPT ![p] = nwrite[p] + chunk]
      /\ UNCHANGED <<devVars, nread, wsent, rcvd, fdVars>>
      /\ call' = [call EXCEPT ![t] = [call[t] EXCEPT !.done = call[t].done + chunk]]
  BY DEF pipe_write_copy
<1>5. /\ \A k \in 0 .. PIPESZ - 1 :
           data'[p][k] = IF pos <= k /\ k < pos + chunk
                         THEN wsent[p] + call[t].done + (k - pos)
                         ELSE data[p][k]
      /\ \A r \in Slots \ {p} : data'[r] = data[r]
  BY <1>1 DEF pipe_write_copy, SafeInv, CoreInv, TypeOK
<1> HIDE DEF pos, chunk
<1>6. \A r \in Slots : nwrite'[r] = IF r = p THEN nwrite[p] + chunk ELSE nwrite[r]
  BY <1>1, <1>4 DEF SafeInv, CoreInv, TypeOK
<1>7. \A u \in Threads :
        call'[u] = IF u = t THEN [call[t] EXCEPT !.done = call[t].done + chunk] ELSE call[u]
  BY <1>4 DEF SafeInv, CoreInv, TypeOK
<1> QED
  BY <1>1, <1>2, <1>3, <1>4, <1>5, <1>6, <1>7 DEF Writes, pos, chunk

\* A copy into the ring puts every byte where the reader will look for it, and
\* no byte that is still to be read is overwritten.
LEMMA DataWriteCopy ==
  ASSUME SafeInv, DataInv, NEW t \in Threads, pipe_write_copy(t)
  PROVE  DataInv'
<1> USE PIPESZAssumption
<1>0. PICK p \in Slots : p = call[t].p
  BY WriteCopyFacts
<1> DEFINE pos   == nwrite[p] % PIPESZ
           chunk == write_chunk(t)
<1>1. /\ p \in Slots /\ Writes(t, p) /\ readopen[p]
      /\ nread[p] \in Nat /\ nwrite[p] \in Nat /\ nread[p] <= nwrite[p]
      /\ pos \in 0 .. PIPESZ - 1
      /\ chunk \in Nat \ {0}
      /\ chunk <= PIPESZ - (nwrite[p] - nread[p])
      /\ chunk <= PIPESZ - pos
      /\ nwrite'[p] = nwrite[p] + chunk
      /\ \A k \in 0 .. PIPESZ - 1 :
           data'[p][k] = IF pos <= k /\ k < pos + chunk
                         THEN wsent[p] + call[t].done + (k - pos)
                         ELSE data[p][k]
      /\ \A r \in Slots \ {p} : data'[r] = data[r] /\ nwrite'[r] = nwrite[r]
      /\ \A u \in Threads :
           call'[u] = IF u = t THEN [call[t] EXCEPT !.done = call[t].done + chunk]
                      ELSE call[u]
      /\ UNCHANGED <<devVars, nread, wsent, rcvd, fdVars>>
  BY <1>0, WriteCopyFacts
<1>2. allocated[p] /\ \A u \in Threads : Writes(u, p) => u = t
  BY <1>1, OneWriter
<1>3. nwrite[p] = wsent[p] + call[t].done /\ wsent[p] \in Nat /\ call[t].done \in Nat
  BY <1>1 DEF DataInv, Counted, SafeInv, CoreInv, TypeOK
<1>4. call[t] \in [op : Ops, p : Nat, n : Nat, done : Nat]
  BY DEF SafeInv, CoreInv, TypeOK
<1>p. pos = nwrite[p] % PIPESZ
  OBVIOUS
<1> HIDE DEF pos, chunk
<1>5. Held(p)'
  <2> SUFFICES ASSUME NEW k \in nread[p] .. nwrite[p] + chunk - 1
               PROVE  data'[p][k % PIPESZ] = k
    BY <1>1 DEF Held
  <2>0. k \in Nat /\ k % PIPESZ \in 0 .. PIPESZ - 1
    BY <1>1, RingPosition
  <2>1. CASE k < nwrite[p]
    <3>1. ASSUME pos <= k % PIPESZ, k % PIPESZ < pos + chunk PROVE FALSE
      <4> DEFINE i == (k % PIPESZ) - pos
      <4>1. i \in Nat /\ pos + i = k % PIPESZ /\ pos + i < PIPESZ /\ i < chunk
        BY <1>1, <2>0, <3>1
      <4> HIDE DEF i
      <4>2. (nwrite[p] + i) % PIPESZ = k % PIPESZ
        BY <1>1, <4>1, <1>p, RingStep
      <4>3. nwrite[p] + i \in Nat /\ k < nwrite[p] + i /\ nwrite[p] + i < k + PIPESZ
        BY <1>1, <2>0, <2>1, <4>1
      <4> QED
        BY <2>0, <4>2, <4>3, RingApart
    <3>2. data'[p][k % PIPESZ] = data[p][k % PIPESZ]
      BY <1>1, <2>0, <3>1
    <3>3. data[p][k % PIPESZ] = k
      BY <1>1, <1>2, <2>0, <2>1 DEF DataInv, Held
    <3> QED
      BY <3>2, <3>3
  <2>2. CASE k >= nwrite[p]
    <3> DEFINE i == k - nwrite[p]
    <3>1. i \in Nat /\ i < chunk /\ k = nwrite[p] + i /\ pos + i < PIPESZ
      BY <1>1, <2>0, <2>2
    <3> HIDE DEF i
    <3>2. k % PIPESZ = pos + i
      BY <1>1, <3>1, <1>p, RingStep
    <3>3. data'[p][k % PIPESZ] = wsent[p] + call[t].done + ((pos + i) - pos)
      BY <1>1, <2>0, <3>1, <3>2
    <3> QED
      BY <1>1, <1>3, <3>1, <3>3
  <2> QED
    BY <1>1, <2>0, <2>1, <2>2
<1>6. Counted(p)'
  <2>1. \A u \in Threads : Writes(u, p)' => u = t
    BY <1>1, <1>2 DEF Writes
  <2>2. Writes(t, p)' /\ call'[t].done = call[t].done + chunk
    BY <1>1, <1>4 DEF Writes
  <2>3. nwrite'[p] = wsent'[p] + call'[t].done
    BY <1>1, <1>3, <2>2
  <2> QED
    BY <2>1, <2>2, <2>3 DEF Counted
<1>7. ASSUME NEW r \in Slots, r # p PROVE Held(r)' /\ Counted(r)'
  <2>1. nwrite'[r] = nwrite[r] /\ data'[r] = data[r]
    BY <1>1, <1>7
  <2>2. \A u \in Threads : /\ Writes(u, r)' <=> Writes(u, r)
                           /\ Writes(u, r) => call'[u].done = call[u].done
    BY <1>1, <1>4, <1>7 DEF Writes
  <2>3. Counted(r)'
    BY <1>1, <2>1, <2>2, CountedStays DEF DataInv, devVars
  <2>4. Held(r)'
    BY <1>1, <2>1 DEF DataInv, Held, devVars
  <2> QED
    BY <2>3, <2>4
<1>8. \A r \in Slots : OpenAllocated(r)' /\ Delivered(r)'
  BY <1>1 DEF DataInv, OpenAllocated, Delivered, devVars
<1> QED
  BY <1>5, <1>6, <1>7, <1>8 DEF DataInv

\* What pipe_read_copy does to its pipe, in numbers.
LEMMA ReadCopyFacts ==
  ASSUME SafeInv, DataInv, NEW t \in Threads, pipe_read_copy(t)
  PROVE  LET p     == call[t].p
             chunk == read_chunk(t)
         IN  /\ p \in Slots /\ readopen[p] /\ allocated[p]
             /\ nread[p] \in Nat /\ nwrite[p] \in Nat
             /\ chunk \in Nat \ {0}
             /\ chunk <= nwrite[p] - nread[p]
             /\ nwrite[p] - nread[p] <= PIPESZ
             /\ nread'[p] = nread[p] + chunk
             /\ rcvd[p] = Run(0, nread[p])
             /\ rcvd'[p] = Run(0, nread[p]) \o Run(nread[p], chunk)
             /\ \A r \in Slots \ {p} : nread'[r] = nread[r] /\ rcvd'[r] = rcvd[r]
             /\ UNCHANGED <<devVars, nwrite, data, wsent, fdVars>>
<1> USE PIPESZAssumption
<1> DEFINE p     == call[t].p
           pos   == nread[p] % PIPESZ
           chunk == read_chunk(t)
           bytes == [i \in 1 .. chunk |-> data[p][pos + i - 1]]
<1>1. /\ call[t] \in [op : Ops, p : Nat, n : Nat, done : Nat]
      /\ p \in Slots /\ nwrite[p] \in Nat /\ nread[p] \in Nat
      /\ call[t].op = "copy" /\ call[t].done < call[t].n
      /\ call[t].n - call[t].done <= nwrite[p] - nread[p]
      /\ nwrite[p] - nread[p] <= PIPESZ
  BY SMTT(20) DEF SafeInv, CoreInv, TypeOK, FrameInv, FrameOK, RingBounded, avail_space,
         pipe_read_copy, At
<1>2. readopen[p] /\ allocated[p]
  BY <1>1, NoThreadAssumption DEF SafeInv, NoUseAfterRelease, Kept
<1>3. pos \in 0 .. PIPESZ - 1
  BY <1>1, RingPosition
<1>4. /\ chunk \in Nat \ {0}
      /\ chunk <= nwrite[p] - nread[p]
      /\ chunk <= PIPESZ - pos
  BY <1>1, <1>3 DEF read_chunk, Least
<1>5. /\ nread' = [nread EXCEPT ![p] = nread[p] + chunk]
      /\ rcvd' = [rcvd EXCEPT ![p] = rcvd[p] \o bytes]
      /\ UNCHANGED <<devVars, nwrite, data, wsent, fdVars>>
  BY DEF pipe_read_copy
<1>p. pos = nread[p] % PIPESZ
  OBVIOUS
<1> HIDE DEF pos, chunk
<1>6. bytes = Run(nread[p], chunk)
  <2>1. ASSUME NEW i \in 1 .. chunk PROVE data[p][pos + i - 1] = nread[p] + i - 1
    <3> DEFINE j == i - 1
    <3>1. /\ j \in Nat /\ pos + j < PIPESZ /\ pos + i - 1 = pos + j
          /\ nread[p] + i - 1 = nread[p] + j
          /\ nread[p] + j \in nread[p] .. nwrite[p] - 1
      BY <1>1, <1>3, <1>4
    <3> HIDE DEF j
    <3>2. (nread[p] + j) % PIPESZ = pos + j
      BY <1>1, <3>1, <1>p, RingStep
    <3>3. data[p][(nread[p] + j) % PIPESZ] = nread[p] + j
      BY <1>1, <1>2, <3>1 DEF DataInv, Held
    <3> QED
      BY <3>1, <3>2, <3>3
  <2> QED
    BY <2>1 DEF Run
<1>7. rcvd[p] = Run(0, nread[p])
  BY <1>1, RunFromZero DEF DataInv, Delivered
<1> HIDE DEF bytes
<1>8. /\ \A r \in Slots : nread'[r] = IF r = p THEN nread[p] + chunk ELSE nread[r]
      /\ \A r \in Slots : rcvd'[r] = IF r = p THEN rcvd[p] \o bytes ELSE rcvd[r]
  BY <1>1, <1>5 DEF SafeInv, CoreInv, TypeOK
<1> QED
  BY <1>1, <1>2, <1>4, <1>5, <1>6, <1>7, <1>8 DEF chunk

\* A copy out of the ring delivers the next bytes of the writer.
LEMMA DataReadCopy ==
  ASSUME SafeInv, DataInv, NEW t \in Threads, pipe_read_copy(t)
  PROVE  DataInv'
<1>0. PICK p \in Slots : p = call[t].p
  BY ReadCopyFacts
<1> DEFINE chunk == read_chunk(t)
<1>1. /\ nread[p] \in Nat /\ nwrite[p] \in Nat
      /\ chunk \in Nat \ {0}
      /\ nread'[p] = nread[p] + chunk
      /\ rcvd'[p] = Run(0, nread[p]) \o Run(nread[p], chunk)
      /\ \A r \in Slots \ {p} : nread'[r] = nread[r] /\ rcvd'[r] = rcvd[r]
      /\ UNCHANGED <<devVars, nwrite, data, wsent>>
  BY <1>0, ReadCopyFacts
<1> HIDE DEF chunk
<1>2. ASSUME NEW r \in Slots PROVE Held(r)'
  <2>0. nread[r] \in Nat /\ nwrite[r] \in Nat
    BY DEF SafeInv, CoreInv, TypeOK
  <2>1. nread'[r] >= nread[r] /\ nread'[r] \in Nat
    BY <1>1, <2>0
  <2>2. \A k \in nread'[r] .. nwrite[r] - 1 : k \in nread[r] .. nwrite[r] - 1
    BY <2>0, <2>1
  <2> QED
    BY <1>1, <2>2 DEF DataInv, Held, devVars
<1>3. Delivered(p)'
  <2>1. rcvd'[p] = Run(0, nread[p] + chunk)
    BY <1>1, RunFromZero
  <2>2. Run(0, nread[p] + chunk) = [i \in 1 .. nread[p] + chunk |-> i - 1]
    <3>1. nread[p] + chunk \in Nat
      BY <1>1
    <3> QED
      BY <3>1, RunFromZero
  <2> QED
    BY <1>1, <2>1, <2>2 DEF Delivered
<1>4. \A r \in Slots \ {p} : Delivered(r)'
  BY <1>1 DEF DataInv, Delivered
<1>5. ASSUME NEW r \in Slots PROVE Counted(r)'
  <2> DEFINE g == [call[t] EXCEPT !.done = call[t].done + chunk]
  <2>1. call' = [call EXCEPT ![t] = g] /\ call[t].op = "copy"
    BY DEF pipe_read_copy, At, chunk
  <2>2. g.op = "copy"
    BY <2>1 DEF SafeInv, CoreInv, TypeOK
  <2> HIDE DEF g
  <2> QED
    BY <1>1, <2>1, <2>2, CountedFrame DEF devVars
<1>6. \A r \in Slots : OpenAllocated(r)'
  BY <1>1 DEF DataInv, OpenAllocated, devVars
<1> QED
  BY <1>2, <1>3, <1>4, <1>5, <1>6 DEF DataInv

\* What lps_pipe_new does to the pipes.
LEMMA NewFacts ==
  ASSUME SafeInv, NEW from \in Threads, NEW to \in Threads, NEW p \in Slots,
         lps_pipe_new(from, to, p)
  PROVE  /\ nread'[p] = 0 /\ nwrite'[p] = 0 /\ wsent'[p] = 0 /\ rcvd'[p] = <<>>
         /\ allocated'[p] /\ readopen'[p] /\ writeopen'[p]
         /\ \A r \in Slots \ {p} :
              /\ nread'[r] = nread[r] /\ nwrite'[r] = nwrite[r] /\ wsent'[r] = wsent[r]
              /\ rcvd'[r] = rcvd[r] /\ data'[r] = data[r] /\ allocated'[r] = allocated[r]
              /\ readopen'[r] = readopen[r] /\ writeopen'[r] = writeopen[r]
         /\ call' = call
         /\ ~allocated[p]
BY DEF lps_pipe_new, FirstFree, SafeInv, CoreInv, TypeOK

\* lps_pipe_new: a fresh ring.
LEMMA DataNew ==
  ASSUME SafeInv, DataInv, NEW from \in Threads, NEW to \in Threads, NEW p \in Slots,
         lps_pipe_new(from, to, p)
  PROVE  DataInv'
<1>1. /\ nread'[p] = 0 /\ nwrite'[p] = 0 /\ wsent'[p] = 0 /\ rcvd'[p] = <<>>
      /\ allocated'[p] /\ readopen'[p] /\ writeopen'[p]
      /\ \A r \in Slots \ {p} :
           /\ nread'[r] = nread[r] /\ nwrite'[r] = nwrite[r] /\ wsent'[r] = wsent[r]
           /\ rcvd'[r] = rcvd[r] /\ data'[r] = data[r] /\ allocated'[r] = allocated[r]
           /\ readopen'[r] = readopen[r] /\ writeopen'[r] = writeopen[r]
      /\ call' = call
      /\ ~allocated[p]
  BY NewFacts
<1>2. \A u \in Threads : ~Writes(u, p)
  BY <1>1, OneWriter
<1>3. Counted(p)' /\ OpenAllocated(p)'
  BY <1>1, <1>2 DEF Counted, Writes, OpenAllocated
<1>4. Held(p)'
  BY <1>1 DEF Held
<1>5. Delivered(p)'
  BY <1>1 DEF Delivered
<1>6. ASSUME NEW r \in Slots, r # p
      PROVE  Held(r)' /\ Counted(r)' /\ OpenAllocated(r)' /\ Delivered(r)'
  BY <1>1, <1>6 DEF DataInv, Held, Counted, OpenAllocated, Delivered, Writes
<1> QED
  BY <1>3, <1>4, <1>5, <1>6 DEF DataInv

\* What fdfree does to a pipe end, in numbers.
LEMMA CloseFacts ==
  ASSUME SafeInv, NEW t \in Threads, NEW p \in Slots,
         fdfree_read(t, p) \/ fdfree_write(t, p)
  PROVE  /\ \/ readopen[p] /\ ~readopen'[p] /\ writeopen'[p] = writeopen[p]
            \/ writeopen[p] /\ ~writeopen'[p] /\ readopen'[p] = readopen[p]
         /\ allocated'[p] <=> readopen'[p] \/ writeopen'[p]
         /\ allocated[p]
         /\ allocated'[p] => data' = data
         /\ \A r \in Slots \ {p} :
              /\ readopen'[r] = readopen[r] /\ writeopen'[r] = writeopen[r]
              /\ allocated'[r] = allocated[r] /\ data'[r] = data[r]
         /\ UNCHANGED <<nread, nwrite, wsent, rcvd, call>>
<1>1. /\ allocated \in [Slots -> BOOLEAN] /\ readopen \in [Slots -> BOOLEAN]
      /\ writeopen \in [Slots -> BOOLEAN] /\ DOMAIN data = Slots
  BY DEF SafeInv, CoreInv, TypeOK
<1>2. CASE fdfree_read(t, p)
  <2>1. rfd[p] = t /\ PipeRelease(p, FALSE, writeopen[p]) /\ call' = call
    BY <1>2 DEF fdfree_read, pipe_close_read
  <2>2. readopen[p] /\ allocated[p]
    BY <2>1, NoThreadAssumption DEF SafeInv, NoUseAfterRelease, Kept
  <2> QED
    BY <1>1, <2>1, <2>2 DEF PipeRelease
<1>3. CASE fdfree_write(t, p)
  <2>1. wfd[p] = t /\ PipeRelease(p, readopen[p], FALSE) /\ call' = call
    BY <1>3 DEF fdfree_write, pipe_close_write
  <2>2. writeopen[p] /\ allocated[p]
    BY <2>1, NoThreadAssumption DEF SafeInv, NoUseAfterRelease, Kept
  <2> QED
    BY <1>1, <2>1, <2>2 DEF PipeRelease
<1> QED
  BY <1>2, <1>3

\* fdfree closes an end: with the second one the buffer goes.
LEMMA DataClose ==
  ASSUME SafeInv, DataInv, NEW t \in Threads, NEW p \in Slots,
         fdfree_read(t, p) \/ fdfree_write(t, p)
  PROVE  DataInv'
<1> SUFFICES ASSUME NEW r \in Slots
             PROVE  (Held(r) /\ Counted(r) /\ OpenAllocated(r) /\ Delivered(r))'
  BY DEF DataInv
<1>1. readopen'[r] => readopen[r]
  BY CloseFacts
<1>2. Counted(r)'
  BY <1>1, CloseFacts DEF DataInv, Counted, Writes
<1>3. Held(r)' /\ OpenAllocated(r)' /\ Delivered(r)'
  <2>1. CASE r = p
    BY <2>1, CloseFacts DEF DataInv, Held, OpenAllocated, Delivered
  <2>2. CASE r # p
    BY <2>2, CloseFacts DEF DataInv, Held, OpenAllocated, Delivered
  <2> QED
    BY <2>1, <2>2
<1> QED
  BY <1>2, <1>3

\* A step that moves no byte and opens or closes no end.
LEMMA DataQuiet ==
  ASSUME DataInv, UNCHANGED <<devVars, nread, nwrite, data, rcvd>>,
         \A p \in Slots : Counted(p)'
  PROVE  DataInv'
BY DEF DataInv, Held, OpenAllocated, Delivered, devVars

\* A step that does not touch the pipes or a handler.
LEMMA DataUntouched ==
  ASSUME DataInv, UNCHANGED <<devVars, dataVars, call>>
  PROVE  DataInv'
BY DEF DataInv, Held, Counted, Writes, OpenAllocated, Delivered, devVars, dataVars

\* A handler step that only moves its frame to g.
LEMMA DataFrame ==
  ASSUME SafeInv, DataInv, NEW t \in Threads, NEW g, call' = [call EXCEPT ![t] = g],
         UNCHANGED <<devVars, dataVars>>,
         g.op \in {"write", "block"} <=> call[t].op \in {"write", "block"},
         g.op \in {"write", "block"} => g.p = call[t].p /\ g.done = call[t].done
  PROVE  DataInv'
<1>1. UNCHANGED <<nread, nwrite, data, wsent, rcvd, readopen>>
  BY DEF devVars, dataVars
<1>2. \A p \in Slots : Counted(p)'
  BY <1>1, CountedFrame
<1> QED
  BY <1>1, <1>2, DataQuiet

\* The kinds of steps that move a byte, or open or close an end, and the rest.
Moves ==
  \/ \E from, to \in Threads, p \in Slots : lps_pipe_new(from, to, p)
  \/ \E t \in Threads : pipe_read_copy(t) \/ pipe_write_copy(t)
  \/ \E t \in Threads, p \in Slots : fdfree_read(t, p) \/ fdfree_write(t, p)

\* A step of another kind leaves the rings alone, and keeps the invariant.
LEMMA DataOther ==
  ASSUME SafeInv, DataInv, [Next]_vars, ~Moves
  PROVE  DataInv' /\ UNCHANGED <<devVars, nread, nwrite, data, rcvd>>
<1> DEFINE Done == DataInv' /\ UNCHANGED <<devVars, nread, nwrite, data, rcvd>>
<1>f. \A t \in Threads : call[t] \in [op : Ops, p : Nat, n : Nat, done : Nat]
  BY DEF SafeInv, CoreInv, TypeOK
<1>d. UNCHANGED dataVars => UNCHANGED <<nread, nwrite, data, rcvd>>
  BY DEF dataVars
<1>u. UNCHANGED <<devVars, dataVars, call>> => Done
  BY <1>d, DataUntouched
<1>p. UNCHANGED pipeVars => Done
  BY <1>u DEF pipeVars
<1> SUFFICES Done
  OBVIOUS
<1> HIDE DEF Done
<1>w. ASSUME NEW t \in Threads, NEW g, call' = [call EXCEPT ![t] = g],
             UNCHANGED <<devVars, dataVars>>,
             g.op \in {"write", "block"} <=> call[t].op \in {"write", "block"},
             g.op \in {"write", "block"} => g.p = call[t].p /\ g.done = call[t].done
      PROVE  Done
  BY <1>w, <1>d, DataFrame DEF Done
<1>1. CASE Host \/ Loop
  <2>1. UNCHANGED pipeVars
    BY <1>1 DEF Moves, Host, Loop
  <2> QED
    BY <2>1, <1>p
<1>2. ASSUME NEW t \in Threads, User(t) PROVE Done
  <2>1. ASSUME NEW p \in Slots, NEW n \in 1 .. MaxN, sys_read(t, p, n) PROVE Done
    <3> DEFINE g == [op |-> "read", p |-> p, n |-> n, done |-> 0]
    <3>1. /\ call' = [call EXCEPT ![t] = g] /\ g.op = "read" /\ call[t].op = "none"
          /\ UNCHANGED <<devVars, dataVars>>
      BY <2>1 DEF sys_read, At
    <3> HIDE DEF g
    <3> QED
      BY <3>1, <1>w
  <2>2. ASSUME NEW p \in Slots, NEW n \in 1 .. MaxN, sys_write(t, p, n) PROVE Done
    <3>1. \A r \in Slots : Counted(r)'
      BY <2>2, CountedBegin
    <3>2. UNCHANGED <<devVars, nread, nwrite, data, rcvd>>
      BY <2>2, <1>d DEF sys_write
    <3> QED
      BY <3>1, <3>2, DataQuiet DEF Done
  <2>3. ASSUME NEW p \in Slots, sys_close_read(t, p) \/ sys_close_write(t, p) PROVE Done
    BY <2>3, <1>u DEF sys_close_read, sys_close_write
  <2>4. ASSUME sys_exit(t) PROVE Done
    <3> DEFINE g == [call[t] EXCEPT !.op = "exit"]
    <3>1. /\ call' = [call EXCEPT ![t] = g] /\ call[t].op = "none"
          /\ UNCHANGED <<devVars, dataVars>>
      BY <2>4 DEF sys_exit, Goto, At
    <3>2. g.op = "exit"
      BY <1>f
    <3> HIDE DEF g
    <3> QED
      BY <3>1, <3>2, <1>w
  <2>5. ASSUME sys_runtime_call(t) PROVE Done
    BY <2>5, <1>p DEF sys_runtime_call
  <2> QED
    BY <1>2, <2>1, <2>2, <2>3, <2>4, <2>5 DEF User
<1>3. ASSUME NEW t \in Threads, Handler(t) PROVE Done
  <2>i. Idle.op = "none"
    BY DEF Idle
  <2>1. ASSUME pipe_read_wait(t) PROVE Done
    BY <2>1, <1>p DEF pipe_read_wait
  <2>2. ASSUME pipe_read_size(t) PROVE Done
    <3> DEFINE g == [call[t] EXCEPT !.op = "copy",
                       !.n = Least(@, nwrite[call[t].p] - nread[call[t].p])]
    <3>1. /\ call' = [call EXCEPT ![t] = g] /\ call[t].op = "read"
          /\ UNCHANGED <<devVars, dataVars>>
      BY <2>2 DEF pipe_read_size, At
    <3>2. g.op = "copy"
      BY <1>f
    <3> HIDE DEF g
    <3> QED
      BY <3>1, <3>2, <1>w
  <2>3. ASSUME pipe_read_return(t) PROVE Done
    BY <2>3, <2>i, <1>w DEF pipe_read_return, At, Return
  <2>4. ASSUME pipe_write_fail(t) \/ pipe_write_return(t) PROVE Done
    <3>1. \A r \in Slots : Counted(r)'
      BY <2>4, CountedEnd
    <3>2. UNCHANGED <<devVars, nread, nwrite, data, rcvd>>
      BY <2>4, <1>d DEF pipe_write_fail, pipe_write_return
    <3> QED
      BY <3>1, <3>2, DataQuiet DEF Done
  <2>5. ASSUME pipe_write_full(t) \/ pipe_write_wait(t) PROVE Done
    <3>1. PICK op \in {"write", "block"} :
            /\ call' = [call EXCEPT ![t] = [call[t] EXCEPT !.op = op]]
            /\ call[t].op \in {"write", "block"}
            /\ UNCHANGED <<devVars, dataVars>>
      BY <2>5 DEF pipe_write_full, pipe_write_wait, Goto, At
    <3> DEFINE g == [call[t] EXCEPT !.op = op]
    <3>2. g.op = op /\ g.p = call[t].p /\ g.done = call[t].done /\ call' = [call EXCEPT ![t] = g]
      BY <1>f, <3>1
    <3> HIDE DEF g
    <3> QED
      BY <3>1, <3>2, <1>w
  <2>6. ASSUME sys_exit_switch(t) PROVE Done
    BY <2>6, <2>i, <1>w DEF sys_exit_switch, At, Return
  <2>7. ~(pipe_read_copy(t) \/ pipe_write_copy(t))
    BY DEF Moves
  <2>8. \A p \in Slots : ~(fdfree_read(t, p) \/ fdfree_write(t, p))
    BY DEF Moves
  <2> QED
    BY <1>3, <2>1, <2>2, <2>3, <2>4, <2>5, <2>6, <2>7, <2>8 DEF Handler
<1>4. ASSUME NEW t \in Threads, TimerIrq(t) PROVE Done
  BY <1>4, <1>p DEF TimerIrq
<1>5. CASE UNCHANGED vars
  BY <1>5, <1>p DEF vars
<1> QED
  BY <1>1, <1>2, <1>3, <1>4, <1>5 DEF Next

\* Every step keeps what the rings hold.
LEMMA NextData ==
  ASSUME SafeInv, DataInv, [Next]_vars
  PROVE  DataInv'
<1>1. CASE Moves
  BY <1>1, DataNew, DataReadCopy, DataWriteCopy, DataClose DEF Moves
<1>2. CASE ~Moves
  BY <1>2, DataOther
<1> QED
  BY <1>1, <1>2

\* No pipe is allocated at the start.
LEMMA InitData == Init => DataInv
BY DEF Init, DataInv, Held, Counted, OpenAllocated, Delivered, Writes

\* The invariant of the rings holds in every state.
LEMMA DataHolds == Spec => []DataInv
<1>1. Init => DataInv
  BY InitData
<1>2. SafeInv /\ DataInv /\ [Next]_vars => DataInv'
  BY NextData
<1> QED
  BY <1>1, <1>2, SafeHolds, PTL DEF Spec

\* pipe_read delivers the bytes of pipe_write in order: none is lost, none
\* comes twice and none is overwritten in the ring before it was read.
THEOREM InOrderDeliveryHolds == Spec => []InOrderDelivery
<1>1. DataInv => InOrderDelivery
  BY DEF DataInv, Delivered, InOrderDelivery
<1> QED
  BY <1>1, DataHolds, PTL

-----------------------------------------------------------------------------
(* Refinement *)

\* A ring that holds the bytes from r to w at their places, read from r on.
LEMMA RingIsRun ==
  ASSUME NEW r \in Nat, NEW w \in Nat, r <= w, NEW ring,
         \A k \in r .. w - 1 : ring[k % PIPESZ] = k
  PROVE  [i \in 1 .. w - r |-> ring[(r + i - 1) % PIPESZ]] = Run(r, w - r)
<1>1. \A i \in 1 .. w - r : r + i - 1 \in r .. w - 1
  OBVIOUS
<1>2. \A i \in 1 .. w - r : ring[(r + i - 1) % PIPESZ] = r + i - 1
  BY <1>1
<1> QED
  BY <1>2 DEF Run

\* What is in the channel and what has come out of it, in both states of a
\* step: the runs of numbers before and after the read counter.
LEMMA Abstracted ==
  ASSUME SafeInv, DataInv, NEW p \in Slots
  PROVE  /\ nread[p] \in Nat /\ nwrite[p] \in Nat /\ nread[p] <= nwrite[p]
         /\ nwrite[p] - nread[p] <= PIPESZ
         /\ rcvd[p] = Run(0, nread[p])
         /\ allocated[p] => Content(p) = Run(nread[p], nwrite[p] - nread[p])
<1>1. /\ nread[p] \in Nat /\ nwrite[p] \in Nat /\ nread[p] <= nwrite[p]
      /\ nwrite[p] - nread[p] <= PIPESZ
  BY PIPESZAssumption DEF SafeInv, CoreInv, TypeOK, RingBounded, avail_space
<1>2. rcvd[p] = Run(0, nread[p])
  BY <1>1, RunFromZero DEF DataInv, Delivered
<1>3. allocated[p] => Content(p) = Run(nread[p], nwrite[p] - nread[p])
  BY <1>1, RingIsRun DEF DataInv, Held, Content
<1> QED
  BY <1>1, <1>2, <1>3

\* The same in the next state.
LEMMA AbstractedNext ==
  ASSUME SafeInv', DataInv', NEW p \in Slots
  PROVE  /\ rcvd'[p] = Run(0, nread'[p])
         /\ allocated'[p] => Content(p)' = Run(nread'[p], nwrite'[p] - nread'[p])
<1>1. nread'[p] \in Nat /\ nwrite'[p] \in Nat /\ nread'[p] <= nwrite'[p]
  BY DEF SafeInv, CoreInv, TypeOK, RingBounded
<1>2. rcvd'[p] = Run(0, nread'[p])
  BY <1>1, RunFromZero DEF DataInv, Delivered
<1>3. allocated'[p] => Content(p)' = Run(nread'[p], nwrite'[p] - nread'[p])
  BY <1>1, RingIsRun DEF DataInv, Held, Content
<1> QED
  BY <1>1, <1>2, <1>3

\* pipe_write_copy accepts the next bytes of the producer.
LEMMA SendStep ==
  ASSUME SafeInv, SafeInv', DataInv, DataInv', NEW t \in Threads, pipe_write_copy(t),
         NEW p \in Slots, p = call[t].p
  PROVE  Chan(p)!Next
<1> DEFINE k == write_chunk(t)
           r == nread[p]
           w == nwrite[p]
<1>1. /\ Writes(t, p) /\ readopen[p]
      /\ k \in Nat \ {0} /\ k <= PIPESZ - (w - r)
      /\ nwrite'[p] = w + k
      /\ UNCHANGED <<devVars, nread, rcvd>>
  BY WriteCopyFacts
<1>2. /\ allocated[p] /\ writeopen[p] /\ allocated'[p] /\ readopen'[p] = readopen[p]
      /\ writeopen'[p] = writeopen[p] /\ rcvd'[p] = rcvd[p] /\ nread'[p] = r
  BY <1>1, OneWriter DEF devVars
<1>3. /\ r \in Nat /\ w \in Nat /\ r <= w
      /\ Content(p) = Run(r, w - r) /\ rcvd[p] = Run(0, r)
  BY <1>2, Abstracted
<1>4. Content(p)' = Run(r, (w + k) - r)
  BY <1>1, <1>2, AbstractedNext
<1> HIDE DEF k, r, w
<1>n. w - r \in Nat /\ r \in Int /\ 0 \in Int /\ k \in Nat
  BY <1>1, <1>3
<1>5. Len(Run(r, w - r)) = w - r /\ Len(Run(0, r)) = r
  BY <1>3, <1>n, RunSeq
<1>6. Run(r, w - r) \o Run(r + (w - r), k) = Run(r, (w - r) + k)
  BY <1>n, RunConcat
<1>7. r + (w - r) = w /\ (w - r) + k = (w + k) - r /\ k \in 1 .. PIPESZ
      /\ (w - r) + k <= PIPESZ
  BY <1>1, <1>3, PIPESZAssumption
<1>8. Run(w, k) = [i \in 1 .. k |-> Len(rcvd[p]) + Len(Content(p)) + i - 1]
  BY <1>3, <1>5, <1>7 DEF Run
<1>9. Content(p)' = Content(p) \o Run(w, k)
  BY <1>3, <1>4, <1>6, <1>7
<1>10. Content(p)' = Content(p) \o [i \in 1 .. k |-> Len(rcvd[p]) + Len(Content(p)) + i - 1]
  BY <1>8, <1>9
<1>11. Len(Content(p)) + k <= PIPESZ
  BY <1>3, <1>5, <1>7
<1>12. Chan(p)!Send(k)
  BY <1>1, <1>2, <1>10, <1>11 DEF Chan!Send
<1> QED
  BY <1>7, <1>12 DEF Chan!Next

\* pipe_read_copy delivers the oldest bytes.
LEMMA ReceiveStep ==
  ASSUME SafeInv, SafeInv', DataInv, DataInv', NEW t \in Threads, pipe_read_copy(t),
         NEW p \in Slots, p = call[t].p
  PROVE  Chan(p)!Next
<1> DEFINE k == read_chunk(t)
           r == nread[p]
           w == nwrite[p]
<1>1. /\ readopen[p] /\ allocated[p]
      /\ k \in Nat \ {0} /\ k <= w - r /\ w - r <= PIPESZ
      /\ nread'[p] = r + k
      /\ rcvd'[p] = Run(0, r) \o Run(r, k)
      /\ UNCHANGED <<devVars, nwrite>>
  BY ReadCopyFacts
<1>2. /\ allocated'[p] /\ readopen'[p] = readopen[p]
      /\ writeopen'[p] = writeopen[p] /\ nwrite'[p] = w
  BY <1>1 DEF devVars
<1>3. /\ r \in Nat /\ w \in Nat /\ r <= w
      /\ Content(p) = Run(r, w - r) /\ rcvd[p] = Run(0, r)
  BY <1>1, Abstracted
<1>4. Content(p)' = Run(r + k, w - (r + k))
  BY <1>1, <1>2, AbstractedNext
<1> HIDE DEF k, r, w
<1>n. w - r \in Nat /\ r \in Int /\ k \in Nat
  BY <1>1, <1>3
<1>5. Len(Run(r, w - r)) = w - r
  BY <1>n, RunSeq
<1>6. /\ SubSeq(Run(r, w - r), 1, k) = Run(r, k)
      /\ SubSeq(Run(r, w - r), k + 1, w - r) = Run(r + k, (w - r) - k)
  BY <1>1, <1>n, RunSplit
<1>7. (w - r) - k = w - (r + k) /\ k \in 1 .. PIPESZ
  BY <1>1, <1>3, PIPESZAssumption
<1>8. k <= Len(Content(p)) /\ Content(p)' = SubSeq(Content(p), k + 1, Len(Content(p)))
  BY <1>1, <1>3, <1>4, <1>5, <1>6, <1>7
<1>9. rcvd'[p] = rcvd[p] \o SubSeq(Content(p), 1, k)
  BY <1>1, <1>3, <1>6
<1>10. Chan(p)!Receive(k)
  BY <1>1, <1>2, <1>8, <1>9 DEF Chan!Receive
<1> QED
  BY <1>7, <1>10 DEF Chan!Next

\* lps_pipe_new creates the channel of a free slot.
LEMMA CreateStep ==
  ASSUME SafeInv, DataInv, NEW from \in Threads, NEW to \in Threads, NEW p \in Slots,
         lps_pipe_new(from, to, p)
  PROVE  Chan(p)!Next
<1>1. /\ nread'[p] = 0 /\ nwrite'[p] = 0 /\ rcvd'[p] = <<>>
      /\ allocated'[p] = TRUE /\ readopen'[p] = TRUE /\ writeopen'[p] = TRUE
      /\ ~allocated[p]
  BY DEF lps_pipe_new, FirstFree, SafeInv, CoreInv, TypeOK
<1>2. ~readopen[p] /\ ~writeopen[p]
  BY <1>1 DEF DataInv, OpenAllocated
<1>3. Content(p)' = <<>>
  BY <1>1 DEF Content
<1> QED
  BY <1>1, <1>2, <1>3 DEF Chan!Next, Chan!Create

\* fdfree closes an end; what is left in the ring goes with the second one.
LEMMA CloseStep ==
  ASSUME SafeInv, DataInv, NEW t \in Threads, NEW p \in Slots,
         fdfree_read(t, p) \/ fdfree_write(t, p)
  PROVE  Chan(p)!Next
<1>1. /\ allocated \in [Slots -> BOOLEAN] /\ readopen[p] \in BOOLEAN
      /\ writeopen[p] \in BOOLEAN /\ readopen'[p] \in BOOLEAN /\ writeopen'[p] \in BOOLEAN
  BY DEF SafeInv, CoreInv, TypeOK, fdfree_read, fdfree_write, pipe_close_read,
         pipe_close_write, PipeRelease
<1>2. allocated'[p] => Content(p)' = Content(p)
  BY CloseFacts DEF Content
<1>3. rcvd'[p] = rcvd[p]
  BY CloseFacts
<1>4. CASE readopen[p] /\ ~readopen'[p] /\ writeopen'[p] = writeopen[p]
  <2>1. Chan(p)!Close(FALSE, writeopen[p])
    BY <1>1, <1>2, <1>3, <1>4, CloseFacts DEF Chan!Close
  <2> QED
    BY <2>1 DEF Chan!Next
<1>5. CASE writeopen[p] /\ ~writeopen'[p] /\ readopen'[p] = readopen[p]
  <2>1. Chan(p)!Close(readopen[p], FALSE)
    BY <1>1, <1>2, <1>3, <1>5, CloseFacts DEF Chan!Close
  <2> QED
    BY <2>1 DEF Chan!Next
<1> QED
  BY <1>4, <1>5, CloseFacts

\* A step that does not touch the ring of slot p.
LEMMA StutterStep ==
  ASSUME NEW p \in Slots, nread'[p] = nread[p], nwrite'[p] = nwrite[p],
         data'[p] = data[p], rcvd'[p] = rcvd[p], allocated'[p] = allocated[p],
         readopen'[p] = readopen[p], writeopen'[p] = writeopen[p]
  PROVE  UNCHANGED (Chan(p)!chanVars)
<1>1. Content(p)' = Content(p)
  BY DEF Content
<1> QED
  BY <1>1 DEF Chan!chanVars

\* Every step is a step of every slot's channel, or leaves it alone.
LEMMA StepRefines ==
  ASSUME SafeInv, SafeInv', DataInv, DataInv', [Next]_vars
  PROVE  \A p \in Slots : [Chan(p)!Next]_(Chan(p)!chanVars)
<1> TAKE p \in Slots
<1>1. ASSUME NEW from \in Threads, NEW to \in Threads, NEW r \in Slots,
             lps_pipe_new(from, to, r)
      PROVE  [Chan(p)!Next]_(Chan(p)!chanVars)
  <2>1. CASE r = p
    BY <1>1, <2>1, CreateStep
  <2>2. CASE r # p
    <3>0. p \in Slots \ {r}
      BY <2>2
    <3>1. /\ nread'[p] = nread[p] /\ nwrite'[p] = nwrite[p] /\ data'[p] = data[p]
          /\ rcvd'[p] = rcvd[p] /\ allocated'[p] = allocated[p]
          /\ readopen'[p] = readopen[p] /\ writeopen'[p] = writeopen[p]
      BY <1>1, <3>0, NewFacts, ZenonT(30)
    <3> QED
      BY <3>1, StutterStep
  <2> QED
    BY <2>1, <2>2
<1>2. ASSUME NEW t \in Threads, pipe_read_copy(t)
      PROVE  [Chan(p)!Next]_(Chan(p)!chanVars)
  <2>1. CASE p = call[t].p
    BY <1>2, <2>1, ReceiveStep
  <2>2. CASE p # call[t].p
    <3>1. /\ nread'[p] = nread[p] /\ nwrite' = nwrite /\ data' = data
          /\ rcvd'[p] = rcvd[p] /\ UNCHANGED devVars
      BY <1>2, <2>2, ReadCopyFacts
    <3> QED
      BY <3>1, StutterStep DEF devVars
  <2> QED
    BY <2>1, <2>2
<1>3. ASSUME NEW t \in Threads, pipe_write_copy(t)
      PROVE  [Chan(p)!Next]_(Chan(p)!chanVars)
  <2>1. CASE p = call[t].p
    BY <1>3, <2>1, SendStep
  <2>2. CASE p # call[t].p
    <3>0. p \in Slots \ {call[t].p}
      BY <2>2
    <3>1. /\ nread' = nread /\ nwrite'[p] = nwrite[p] /\ data'[p] = data[p]
          /\ rcvd' = rcvd /\ UNCHANGED devVars
      BY <1>3, <3>0, WriteCopyFacts, Zenon
    <3> QED
      BY <3>1, StutterStep DEF devVars
  <2> QED
    BY <2>1, <2>2
<1>4. ASSUME NEW t \in Threads, NEW r \in Slots, fdfree_read(t, r) \/ fdfree_write(t, r)
      PROVE  [Chan(p)!Next]_(Chan(p)!chanVars)
  <2>1. CASE r = p
    BY <1>4, <2>1, CloseStep
  <2>2. CASE r # p
    <3>1. /\ nread' = nread /\ nwrite' = nwrite /\ data'[p] = data[p]
          /\ rcvd' = rcvd /\ allocated'[p] = allocated[p]
          /\ readopen'[p] = readopen[p] /\ writeopen'[p] = writeopen[p]
      BY <1>4, <2>2, CloseFacts
    <3> QED
      BY <3>1, StutterStep
  <2> QED
    BY <2>1, <2>2
<1>5. CASE ~Moves
  BY <1>5, DataOther, StutterStep DEF devVars
<1> QED
  BY <1>1, <1>2, <1>3, <1>4, <1>5 DEF Moves

\* Every slot of the pipe table implements the bounded lossless channel, for
\* every size of the table and of the rings: across wrap-around, blocking,
\* closing and reuse of the slot.
THEOREM ImplementsChannelHolds == Spec => ImplementsChannel
<1>1. Init => \A p \in Slots : Chan(p)!Init
  BY DEF Init, Chan!Init
<1>2. SafeInv /\ SafeInv' /\ DataInv /\ DataInv' /\ [Next]_vars
        => \A p \in Slots : [Chan(p)!Next]_(Chan(p)!chanVars)
  BY StepRefines
<1> QED
  BY <1>1, <1>2, SafeHolds, DataHolds, PTL DEF Spec, ImplementsChannel
=============================================================================
