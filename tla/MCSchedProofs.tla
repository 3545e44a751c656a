--------------------------- MODULE MCSchedProofs ---------------------------
(***************************************************************************)
(* Proofs about module MCSched for every number of workers and every       *)
(* interleaving of their memory accesses: the global queue hands no task   *)
(* out twice, and every task once when the tasks fit the queues; with one  *)
(* worker, every task is run to its exit.                                  *)
(***************************************************************************)
EXTENDS MCSched, SequenceTheorems, TLAPS

-----------------------------------------------------------------------------
(* The inductive invariant *)

Fields == {"fn", "q", "pc", "need", "in", "max", "i", "reg", "out"}
Frame(f) == f = [x \in Fields |-> f[x]]

\* Worker w is in its call of ring_pop on the global queue.
Using(w) == rop[w].fn # "none" /\ rop[w].q = Global

\* Where ring_pop holds the head mutex; where it is at all.
Held == {"tlock", "loop", "slot", "index", "move", "add", "tunlock", "hunlock"}
PopPCs == Held \cup {"hlock", "done"}

PushPCs == {"load", "hlock", "tlock", "check", "slot", "index", "move", "add",
            "tunlock", "hunlock", "done"}
Early == {"load", "hlock", "tlock", "check", "slot", "index", "move"}

Shape ==
  /\ DOMAIN rop = Procs /\ wk = [v \in Workers |-> wk[v]] /\ handed \in [Tasks -> Nat]
  /\ DOMAIN buf = Rings /\ DOMAIN head = Rings /\ DOMAIN tail = Rings
  /\ DOMAIN count = Rings /\ DOMAIN hlock = Rings
  /\ DOMAIN buf[Global] = Index
  /\ \A x \in Procs : Frame(rop[x]) /\ (rop[x].fn # "none" => rop[x].q \in Rings)
  /\ host = [pc |-> host.pc, i |-> host.i] /\ host.i \in 1 .. NTasks + 1
  /\ host.i <= NTasks => host.pc = "add"
  /\ host.pc = "add" => \A w \in Workers : wk[w].pc = "unborn"

\* The loop of worker w and the call it is in.
Loops(w) ==
  /\ wk[w] = [pc |-> wk[w].pc, e |-> wk[w].e, i |-> wk[w].i]
  /\ wk[w].pc = "unborn" => rop[w].fn = "none"
  /\ wk[w].pc = "global" <=> Using(w)
  /\ wk[w].pc = "steal" => wk[w].i \in Workers

\* P tasks were stored in the global queue, the first ones, and the places of H
\* of them were passed.
Stored(P, H) ==
  /\ P \in 0 .. Cap /\ H \in 0 .. P
  /\ head[Global] = H % Cap /\ tail[Global] = P % Cap
  /\ \A k \in 0 .. P - 1 : buf[Global][k] = k + 1

\* The host in mcsched_add.
Adds(P) ==
  LET f == rop[Host] IN
  /\ f.fn = "none" => f.i = 0 /\ f.pc = "done"
  /\ f.fn # "none" =>
       /\ f.fn = "push_one" /\ f.q = Global /\ f.in = <<host.i>> /\ host.pc = "add"
       /\ host.i <= NTasks /\ f.i \in {0, 1} /\ f.pc \in PushPCs
       /\ f.pc \in Early => f.i = 0
       /\ f.pc = "add" => f.i = 1
       /\ f.pc \in {"slot", "index", "move"} => P < Cap
       /\ f.pc \in {"index", "move"} => buf[Global][P] = host.i
       /\ f.pc = "move" => f.reg = P
       /\ f.pc \in {"tunlock", "hunlock", "done"} /\ f.i = 0 => P = Cap
  /\ host.pc = "add" => count[Global] = IF f.pc = "add" THEN P - 1 ELSE P
  /\ P <= (host.i - 1) + f.i
  /\ P < Cap => P = (host.i - 1) + f.i

\* The share worker w is taking.
Share(w, P, H) ==
  LET f == rop[w] IN
  /\ f.fn = "pop" /\ f.pc \in PopPCs /\ f.need = Both /\ f.out \in Seq(Int)
  /\ f.pc \in Held => hlock[Global] = w
  /\ f.pc \in {"slot", "index", "move"} => H < P
  /\ f.pc = "move" => f.reg = head[Global]
  /\ \A k \in DOMAIN f.out :
       f.out[k] <= H \/ (f.out[k] = H + 1 /\ f.pc \in {"index", "move"})

\* No task is in two shares; one that was handed out is in none.
Once(H) ==
  /\ \A v, w \in Workers : Using(v) /\ Using(w) /\ v # w =>
       \A j \in DOMAIN rop[v].out, k \in DOMAIN rop[w].out : rop[v].out[j] # rop[w].out[k]
  /\ \A t \in Tasks : handed[t] # 0 =>
       /\ handed[t] = 1 /\ t <= H
       /\ \A w \in Workers : Using(w) => \A k \in DOMAIN rop[w].out : rop[w].out[k] # t

Handing(P, H) ==
  /\ Stored(P, H) /\ Adds(P) /\ Once(H)
  /\ \A w \in Workers : Using(w) => Share(w, P, H)

SchedInv ==
  /\ Shape
  /\ \A w \in Workers : Loops(w)
  /\ \E P \in 0 .. Cap : \E H \in 0 .. P : Handing(P, H)

-----------------------------------------------------------------------------
(* Records of a call *)

\* The changes of an activation inside a ring function.
WithPc(f, v) == [f EXCEPT !.pc = v]
NeedPc(f, n, v) == [[f EXCEPT !.need = n] EXCEPT !.pc = v]
RegPc(f, n, v) == [[f EXCEPT !.pc = v] EXCEPT !.reg = n]
IPc(f, n, v) == [[f EXCEPT !.i = n] EXCEPT !.pc = v]
OutPc(f, n, v) == [[f EXCEPT !.out = n] EXCEPT !.pc = v]

\* They leave the function, the queue and what is pushed alone.
Same(f, g) == Frame(g) /\ g.fn = f.fn /\ g.q = f.q /\ g.in = f.in /\ g.max = f.max

LEMMA SetPc ==
  ASSUME NEW f, Frame(f), NEW v, NEW g, g = WithPc(f, v)
  PROVE  /\ Same(f, g) /\ g.pc = v /\ g.need = f.need
         /\ g.i = f.i /\ g.reg = f.reg /\ g.out = f.out
  BY DEF Fields, Frame, WithPc, Same

LEMMA SetNeedPc ==
  ASSUME NEW f, Frame(f), NEW v, NEW n, NEW g, g = NeedPc(f, n, v)
  PROVE  /\ Same(f, g) /\ g.pc = v /\ g.need = n
         /\ g.i = f.i /\ g.reg = f.reg /\ g.out = f.out
  BY DEF Fields, Frame, NeedPc, Same

LEMMA SetRegPc ==
  ASSUME NEW f, Frame(f), NEW v, NEW n, NEW g, g = RegPc(f, n, v)
  PROVE  /\ Same(f, g) /\ g.pc = v /\ g.need = f.need
         /\ g.i = f.i /\ g.reg = n /\ g.out = f.out
  BY DEF Fields, Frame, RegPc, Same

LEMMA SetIPc ==
  ASSUME NEW f, Frame(f), NEW v, NEW n, NEW g, g = IPc(f, n, v)
  PROVE  /\ Same(f, g) /\ g.pc = v /\ g.need = f.need
         /\ g.i = n /\ g.reg = f.reg /\ g.out = f.out
  BY DEF Fields, Frame, IPc, Same

LEMMA SetOutPc ==
  ASSUME NEW f, Frame(f), NEW v, NEW n, NEW g, g = OutPc(f, n, v)
  PROVE  /\ Same(f, g) /\ g.pc = v /\ g.need = f.need
         /\ g.i = f.i /\ g.reg = f.reg /\ g.out = n
  BY DEF Fields, Frame, OutPc, Same

\* The activation a call starts with.
Called(fn, q, in, max) ==
  [NoCall EXCEPT !.fn = fn, !.q = q, !.in = in,
     !.max = max, !.pc = IF fn \in {"push", "pop"} THEN "hlock" ELSE "load",
     !.need = IF fn \in {"push", "pop"} THEN Both ELSE {}]

LEMMA CalledFields ==
  ASSUME NEW fn, NEW q, NEW in, NEW max, NEW g, g = Called(fn, q, in, max)
  PROVE  /\ Frame(g) /\ g.fn = fn /\ g.q = q /\ g.in = in /\ g.i = 0 /\ g.out = <<>>
         /\ g.max = max
         /\ g.pc = IF fn \in {"push", "pop"} THEN "hlock" ELSE "load"
         /\ g.need = IF fn \in {"push", "pop"} THEN Both ELSE {}
  BY DEF Called, NoCall, Frame, Fields

LEMMA NoCallFields ==
  ASSUME NEW g, g = NoCall
  PROVE  /\ Frame(g) /\ g.fn = "none" /\ g.i = 0 /\ g.out = <<>> /\ g.pc = "done"
  BY DEF NoCall, Frame, Fields

-----------------------------------------------------------------------------
(* What a step inside a ring function leaves alone *)

\* x's activation becomes g.
Becomes(x, g) == rop' = [rop EXCEPT ![x] = g] /\ Same(rop[x], g)

\* A step of x inside its function changes its activation, not its call.
LEMMA RingFrame ==
  ASSUME NEW x \in Procs, Shape, RingStep(x)
  PROVE  \E g : Becomes(x, g)
<1>1. Frame(rop[x]) /\ DOMAIN rop = Procs
  BY DEF Shape
<1>2. ASSUME NEW v, rop' = [rop EXCEPT ![x].pc = v] PROVE \E g : Becomes(x, g)
  <2>1. PICK g : g = WithPc(rop[x], v)
    OBVIOUS
  <2>2. rop' = [rop EXCEPT ![x] = g]
    BY <1>2, <2>1 DEF WithPc
  <2> QED
    BY <1>1, <2>1, <2>2, SetPc DEF Becomes
<1>3. CASE Load(x)
  <2>1. CASE QuickFail(rop[x].fn, count[rop[x].q])
    BY <1>2, <1>3, <2>1 DEF Load
  <2>2. CASE ~QuickFail(rop[x].fn, count[rop[x].q])
    <3>1. PICK n, v : rop' = [rop EXCEPT ![x].need = n, ![x].pc = v]
      BY <1>3, <2>2 DEF Load
    <3>2. PICK g : g = NeedPc(rop[x], n, v)
      OBVIOUS
    <3>3. rop' = [rop EXCEPT ![x] = g]
      BY <1>1, <3>1, <3>2 DEF NeedPc
    <3> QED
      BY <1>1, <3>2, <3>3, SetNeedPc DEF Becomes
  <2> QED
    BY <2>1, <2>2
<1>4. CASE LockHead(x) \/ LockTail(x) \/ Check(x) \/ Loop(x) \/ Add(x)
             \/ UnlockTail(x) \/ UnlockHead(x)
  <2>1. PICK v : rop' = [rop EXCEPT ![x].pc = v]
    BY <1>4 DEF LockHead, LockTail, Check, Loop, Add, UnlockTail, UnlockHead, Goto
  <2> QED
    BY <1>2, <2>1
<1>5. CASE Slot(x)
  <2>1. CASE Pushes(rop[x].fn)
    BY <1>2, <1>5, <2>1 DEF Slot, Goto
  <2>2. CASE ~Pushes(rop[x].fn)
    <3>1. PICK n, v : rop' = [rop EXCEPT ![x].out = n, ![x].pc = v]
      BY <1>5, <2>2 DEF Slot
    <3>2. PICK g : g = OutPc(rop[x], n, v)
      OBVIOUS
    <3>3. rop' = [rop EXCEPT ![x] = g]
      BY <1>1, <3>1, <3>2 DEF OutPc
    <3> QED
      BY <1>1, <3>2, <3>3, SetOutPc DEF Becomes
  <2> QED
    BY <2>1, <2>2
<1>6. CASE LoadIndex(x)
  <2>1. PICK n : rop' = [rop EXCEPT ![x].pc = "move", ![x].reg = n]
    BY <1>6 DEF LoadIndex
  <2>2. PICK g : g = RegPc(rop[x], n, "move")
    OBVIOUS
  <2>3. rop' = [rop EXCEPT ![x] = g]
    BY <1>1, <2>1, <2>2 DEF RegPc
  <2> QED
    BY <1>1, <2>2, <2>3, SetRegPc DEF Becomes
<1>7. CASE MoveIndex(x)
  <2>1. PICK n, v : rop' = [rop EXCEPT ![x].i = n, ![x].pc = v]
    BY <1>7 DEF MoveIndex
  <2>2. PICK g : g = IPc(rop[x], n, v)
    OBVIOUS
  <2>3. rop' = [rop EXCEPT ![x] = g]
    BY <1>1, <2>1, <2>2 DEF IPc
  <2> QED
    BY <1>1, <2>2, <2>3, SetIPc DEF Becomes
<1> QED
  BY <1>3, <1>4, <1>5, <1>6, <1>7 DEF RingStep

\* It changes the one queue it works on.
Elsewhere(q) ==
  /\ DOMAIN buf' = Rings /\ DOMAIN head' = Rings /\ DOMAIN tail' = Rings
  /\ DOMAIN count' = Rings /\ DOMAIN hlock' = Rings
  /\ \A r \in Rings : r # q =>
       /\ buf'[r] = buf[r] /\ head'[r] = head[r] /\ tail'[r] = tail[r]
       /\ count'[r] = count[r] /\ hlock'[r] = hlock[r]

LEMMA RingElsewhere ==
  ASSUME NEW x \in Procs, Shape, RingStep(x)
  PROVE  Elsewhere(rop[x].q)
<1> DEFINE q == rop[x].q
<1>1. /\ DOMAIN buf = Rings /\ DOMAIN head = Rings /\ DOMAIN tail = Rings
      /\ DOMAIN count = Rings /\ DOMAIN hlock = Rings
  BY DEF Shape
<1>2. CASE UNCHANGED <<buf, head, tail, count, hlock>>
  BY <1>1, <1>2 DEF Elsewhere
<1>3. CASE Load(x) \/ LockTail(x) \/ Check(x) \/ Loop(x) \/ LoadIndex(x) \/ UnlockTail(x)
  BY <1>2, <1>3 DEF Load, LockTail, Check, Loop, LoadIndex, UnlockTail
<1>4. CASE LockHead(x) \/ UnlockHead(x)
  <2>1. PICK v : hlock' = [hlock EXCEPT ![q] = v]
    BY <1>4 DEF LockHead, UnlockHead
  <2>2. UNCHANGED <<buf, head, tail, count>>
    BY <1>4 DEF LockHead, UnlockHead
  <2> QED
    BY <1>1, <2>1, <2>2 DEF Elsewhere
<1>5. CASE Slot(x)
  <2>1. UNCHANGED <<head, tail, count, hlock>>
    BY <1>5 DEF Slot
  <2>2. CASE Pushes(rop[x].fn)
    <3>1. PICK v : buf' = [buf EXCEPT ![q] = v]
      BY <1>5, <2>2 DEF Slot
    <3> QED
      BY <1>1, <2>1, <3>1 DEF Elsewhere
  <2>3. CASE ~Pushes(rop[x].fn)
    BY <1>2, <1>5, <2>1, <2>3 DEF Slot
  <2> QED
    BY <2>2, <2>3
<1>6. CASE MoveIndex(x)
  <2>1. UNCHANGED <<buf, count, hlock>>
    BY <1>6 DEF MoveIndex
  <2>2. PICK v : \/ tail' = [tail EXCEPT ![q] = v] /\ UNCHANGED head
                 \/ head' = [head EXCEPT ![q] = v] /\ UNCHANGED tail
    BY <1>6 DEF MoveIndex
  <2> QED
    BY <1>1, <2>1, <2>2 DEF Elsewhere
<1>7. CASE Add(x)
  <2>1. PICK v : count' = [count EXCEPT ![q] = v]
    BY <1>7 DEF Add
  <2>2. UNCHANGED <<buf, head, tail, hlock>>
    BY <1>7 DEF Add
  <2> QED
    BY <1>1, <2>1, <2>2 DEF Elsewhere
<1> QED
  BY <1>3, <1>4, <1>5, <1>6, <1>7 DEF RingStep

-----------------------------------------------------------------------------
(* What a step of one worker leaves alone *)

LEMMA Names ==
  /\ Host \in Procs /\ Host \notin Workers /\ Workers \subseteq Procs
  /\ Global \in Rings /\ Global \notin Workers /\ Workers \subseteq Rings /\ Workers \subseteq Nat
  BY NamesAssumption, CoreAssumption DEF Workers, Global

\* The queues as functions.
QueueShape ==
  /\ DOMAIN buf = Rings /\ DOMAIN head = Rings /\ DOMAIN tail = Rings
  /\ DOMAIN count = Rings /\ DOMAIN hlock = Rings
  /\ DOMAIN buf[Global] = Index

\* The host has added all tasks.
Added == host' = [pc |-> host'.pc, i |-> host.i] /\ host'.pc # "add" /\ host.i > NTasks

\* Worker w goes on to loop state r and call g.
LEMMA OneWorker ==
  ASSUME Shape, \A v \in Workers : Loops(v), NEW w \in Workers, NEW g, NEW r,
         rop' = [rop EXCEPT ![w] = g], wk' = [wk EXCEPT ![w] = r],
         Frame(g), g.fn # "none" => g.q \in Rings,
         r = [pc |-> r.pc, e |-> r.e, i |-> r.i], r.pc # "unborn",
         r.pc = "global" <=> (g.fn # "none" /\ g.q = Global),
         r.pc = "steal" => r.i \in Workers,
         Added, handed' \in [Tasks -> Nat], QueueShape'
  PROVE  Shape' /\ \A v \in Workers : Loops(v)'
<1>1. /\ w \in Procs /\ DOMAIN rop = Procs /\ DOMAIN wk = Workers
      /\ DOMAIN rop' = Procs /\ DOMAIN wk' = Workers
      /\ rop'[w] = g /\ wk'[w] = r
      /\ \A x \in Procs : x # w => rop'[x] = rop[x]
      /\ \A v \in Workers : v # w => wk'[v] = wk[v]
  BY Names DEF Shape
<1>2. \A x \in Procs : Frame(rop'[x]) /\ (rop'[x].fn # "none" => rop'[x].q \in Rings)
  BY <1>1 DEF Shape
<1>3. /\ host' = [pc |-> host'.pc, i |-> host'.i] /\ host'.i \in 1 .. NTasks + 1
      /\ host'.i <= NTasks => host'.pc = "add"
      /\ host'.pc # "add"
  <2>1. host'.i = host.i
    BY DEF Added
  <2>2. host.i \in 1 .. NTasks + 1 /\ host.i > NTasks /\ NTasks \in Nat
    BY SizeAssumption DEF Added, Shape
  <2> QED
    BY <2>1, <2>2 DEF Added
<1>4. Shape'
  BY <1>1, <1>2, <1>3 DEF Shape, QueueShape
<1>5. ASSUME NEW v \in Workers PROVE Loops(v)'
  <2>1. CASE v = w
    BY <1>1, <2>1 DEF Loops, Using
  <2>2. CASE v # w
    <3>1. Loops(v) /\ rop'[v] = rop[v] /\ wk'[v] = wk[v]
      BY <1>1, <2>2, Names
    <3> QED
      BY <3>1 DEF Loops, Using
  <2> QED
    BY <2>1, <2>2
<1> QED
  BY <1>4, <1>5

\* The global queue is as it was.
SameGlobal ==
  /\ buf'[Global] = buf[Global] /\ head'[Global] = head[Global]
  /\ tail'[Global] = tail[Global] /\ hlock'[Global] = hlock[Global]

\* While worker w works on other queues the hand-out stays as it is.
LEMMA LocalKeeps ==
  ASSUME Shape, NEW P, NEW H, Handing(P, H), NEW w \in Workers, NEW g,
         rop' = [rop EXCEPT ![w] = g],
         ~Using(w), ~(g.fn # "none" /\ g.q = Global),
         SameGlobal, Added, UNCHANGED handed
  PROVE  Handing(P, H)'
<1>1. /\ rop'[w] = g /\ rop'[Host] = rop[Host]
      /\ \A v \in Workers : v # w => rop'[v] = rop[v]
  BY Names DEF Shape
<1>2. \A v \in Workers : Using(v)' <=> Using(v)
  BY <1>1 DEF Using
<1>3. \A v \in Workers : Using(v) => rop'[v] = rop[v]
  BY <1>1
<1>4. Stored(P, H)'
  BY DEF Handing, Stored, SameGlobal
<1>5. Adds(P)'
  <2>1. rop[Host].fn = "none"
    <3>1. host.i > NTasks => ~(host.i <= NTasks)
      BY SizeAssumption DEF Shape
    <3> QED
      BY <3>1 DEF Handing, Adds, Added
  <2>2. rop'[Host].fn = "none" /\ rop'[Host] = rop[Host] /\ host'.i = host.i /\ host'.pc # "add"
    BY <1>1, <2>1 DEF Added
  <2> QED
    BY <2>2 DEF Handing, Adds
<1>6. Once(H)'
  <2>1. Once(H)
    BY DEF Handing
  <2>2. ASSUME NEW v \in Workers, NEW u \in Workers, Using(v)', Using(u)', v # u
        PROVE  \A j \in DOMAIN rop'[v].out, k \in DOMAIN rop'[u].out : rop'[v].out[j] # rop'[u].out[k]
    BY <1>2, <1>3, <2>1, <2>2 DEF Once
  <2>3. ASSUME NEW t \in Tasks, handed'[t] # 0
        PROVE  /\ handed'[t] = 1 /\ t <= H
               /\ \A v \in Workers : Using(v)' => \A k \in DOMAIN rop'[v].out : rop'[v].out[k] # t
    BY <1>2, <1>3, <2>1, <2>3 DEF Once
  <2> QED
    BY <2>2, <2>3 DEF Once
<1>7. ASSUME NEW v \in Workers, Using(v)' PROVE Share(v, P, H)'
  <2>1. rop'[v] = rop[v] /\ Share(v, P, H)
    BY <1>2, <1>3, <1>7 DEF Handing
  <2> QED
    BY <2>1 DEF Share, SameGlobal
<1> QED
  BY <1>4, <1>5, <1>6, <1>7 DEF Handing

\* A worker that was started finds the host done with adding.
LEMMA Started ==
  ASSUME Shape, \A v \in Workers : Loops(v), NEW w \in Workers, wk[w].pc # "unborn",
         UNCHANGED host
  PROVE  Added
<1>1. host.pc # "add"
  BY DEF Shape
<1>2. ~(host.i <= NTasks) /\ host.i \in 1 .. NTasks + 1
  BY <1>1 DEF Shape
<1>3. host.i > NTasks
  BY <1>2, SizeAssumption
<1> QED
  BY <1>1, <1>3 DEF Added, Shape

-----------------------------------------------------------------------------
(* Steps inside ring functions: other queues than the global one *)

LEMMA StepLocal ==
  ASSUME SchedInv, NEW w \in Workers, InRing(w), ~Using(w)
  PROVE  SchedInv'
<1>1. Shape /\ \A v \in Workers : Loops(v)
  BY DEF SchedInv
<1>2. PICK P \in 0 .. Cap : \E H \in 0 .. P : Handing(P, H)
  BY DEF SchedInv
<1>3. PICK H \in 0 .. P : Handing(P, H)
  BY <1>2
<1>4. RingStep(w) /\ UNCHANGED <<wk, host, state, yields, handed>> /\ w \in Procs
  BY Names DEF InRing
<1>5. rop[w].fn # "none"
  BY <1>4 DEF RingStep, Load, LockHead, LockTail, Check, Loop, Slot, LoadIndex, MoveIndex,
              Add, UnlockTail, UnlockHead, At
<1>6. rop[w].q # Global /\ rop[w].q \in Rings /\ wk[w].pc # "unborn"
  BY <1>1, <1>4, <1>5 DEF Using, Shape, Loops
<1>7. PICK g : Becomes(w, g)
  BY <1>1, <1>4, RingFrame
<1>8. rop' = [rop EXCEPT ![w] = g] /\ Frame(g) /\ g.fn = rop[w].fn /\ g.q = rop[w].q
  BY <1>7 DEF Becomes, Same
<1>9. Elsewhere(rop[w].q)
  BY <1>1, <1>4, RingElsewhere
<1>10. QueueShape' /\ SameGlobal
  BY <1>1, <1>6, <1>9, Names DEF Elsewhere, QueueShape, SameGlobal, Shape
<1>11. Added
  BY <1>1, <1>4, <1>6, Started
<1>12. wk' = [wk EXCEPT ![w] = wk[w]] /\ handed' \in [Tasks -> Nat] /\ UNCHANGED handed
  BY <1>1, <1>4 DEF Shape
<1>13. Loops(w)
  BY <1>1
<1>14. Shape' /\ \A v \in Workers : Loops(v)'
  <2>1. PICK r : r = wk[w]
    OBVIOUS
  <2>2. /\ r = [pc |-> r.pc, e |-> r.e, i |-> r.i] /\ r.pc # "unborn"
        /\ r.pc = "global" <=> (g.fn # "none" /\ g.q = Global)
        /\ r.pc = "steal" => r.i \in Workers
    BY <1>6, <1>8, <1>13, <2>1 DEF Loops, Using
  <2>3. g.fn # "none" => g.q \in Rings
    BY <1>6, <1>8
  <2> QED
    BY <1>1, <1>8, <1>10, <1>11, <1>12, <2>1, <2>2, <2>3, OneWorker
<1>15. Handing(P, H)'
  BY <1>1, <1>3, <1>6, <1>8, <1>10, <1>11, <1>12, LocalKeeps
<1> QED
  BY <1>14, <1>15 DEF SchedInv

-----------------------------------------------------------------------------
(* Steps inside ring_pop on the global queue *)

\* Only the owner of the head mutex is past its lock.
LEMMA Alone ==
  ASSUME NEW P, NEW H, Handing(P, H), NEW w \in Workers, Using(w), RingStep(w),
         NEW v \in Workers, v # w, Using(v)
  PROVE  rop[v].pc \notin Held /\ rop[v].pc \in {"hlock", "done"}
<1>1. Share(w, P, H) /\ Share(v, P, H)
  BY DEF Handing
<1>2. CASE rop[w].pc \in Held
  BY <1>1, <1>2 DEF Share, PopPCs, Held
<1>3. CASE rop[w].pc = "hlock"
  <2>1. LockHead(w)
    BY <1>3 DEF RingStep, Load, LockHead, LockTail, Check, Loop, Slot, LoadIndex, MoveIndex,
                Add, UnlockTail, UnlockHead, At
  <2>2. hlock[Global] = Null
    BY <2>1 DEF LockHead, Using
  <2>3. Null # v
    BY NullAssumption, Names
  <2> QED
    BY <1>1, <2>2, <2>3 DEF Share, PopPCs, Held
<1>4. CASE rop[w].pc = "done"
  BY <1>4 DEF RingStep, Load, LockHead, LockTail, Check, Loop, Slot, LoadIndex, MoveIndex,
              Add, UnlockTail, UnlockHead, At
<1> QED
  BY <1>1, <1>2, <1>3, <1>4 DEF Share, PopPCs

\* The share of g is the one of f, with at most the task behind place H.
Grows(f, g, H) ==
  \A k \in DOMAIN g.out : g.out[k] = H + 1 \/ \E j \in DOMAIN f.out : f.out[j] = g.out[k]

\* Worker w's activation becomes g and the head of the queue goes to H2: what is
\* left to show is its own share.
LEMMA GlobalKeeps ==
  ASSUME Shape, NEW P \in Nat, NEW H \in Nat, Handing(P, H), NEW w \in Workers, Using(w),
         RingStep(w), NEW g, rop' = [rop EXCEPT ![w] = g], g.fn # "none", g.q = Global,
         Added, UNCHANGED handed,
         buf'[Global] = buf[Global], tail'[Global] = tail[Global],
         NEW H2 \in {H, H + 1}, H2 <= P, head'[Global] = H2 % Cap,
         Grows(rop[w], g, H),
         Share(w, P, H2)'
  PROVE  Handing(P, H2)'
<1>1. /\ rop'[w] = g /\ rop'[Host] = rop[Host]
      /\ \A v \in Workers : v # w => rop'[v] = rop[v]
  BY Names DEF Shape
<1>2. \A v \in Workers : Using(v)' <=> Using(v)
  BY <1>1 DEF Using
<1>3. ASSUME NEW v \in Workers, v # w, Using(v)
      PROVE  /\ rop[v].pc \in {"hlock", "done"} /\ rop[v].out \in Seq(Int)
             /\ \A k \in DOMAIN rop[v].out : rop[v].out[k] <= H /\ rop[v].out[k] \in Int
  <2>1. Share(v, P, H) /\ rop[v].pc \in {"hlock", "done"}
    BY <1>3, Alone DEF Handing
  <2>2. rop[v].out \in Seq(Int)
    BY <2>1 DEF Share
  <2>3. \A k \in DOMAIN rop[v].out : rop[v].out[k] \in Int
    BY <2>2, LenProperties, ElementOfSeq
  <2> QED
    BY <2>1, <2>2, <2>3 DEF Share
<1>4. Stored(P, H2)'
  BY DEF Handing, Stored
<1>5. Adds(P)'
  <2>1. rop[Host].fn = "none"
    <3>1. host.i > NTasks => ~(host.i <= NTasks)
      BY SizeAssumption DEF Shape
    <3> QED
      BY <3>1 DEF Handing, Adds, Added
  <2>2. rop'[Host].fn = "none" /\ rop'[Host] = rop[Host] /\ host'.i = host.i /\ host'.pc # "add"
    BY <1>1, <2>1 DEF Added
  <2> QED
    BY <2>2 DEF Handing, Adds
<1>6. Once(H)
  BY DEF Handing
<1>7. ASSUME NEW v \in Workers, v # w, Using(v), NEW j \in DOMAIN rop[v].out, NEW k \in DOMAIN g.out
      PROVE  rop[v].out[j] # g.out[k]
  <2>1. rop[v].out[j] <= H /\ rop[v].out[j] \in Int
    BY <1>3, <1>7
  <2>2. CASE g.out[k] = H + 1
    BY <2>1, <2>2
  <2>3. CASE \E i \in DOMAIN rop[w].out : rop[w].out[i] = g.out[k]
    BY <1>6, <1>7, <2>3 DEF Once
  <2> QED
    BY <1>7, <2>2, <2>3 DEF Grows
<1>8. ASSUME NEW v \in Workers, NEW u \in Workers, Using(v)', Using(u)', v # u
      PROVE  \A j \in DOMAIN rop'[v].out, k \in DOMAIN rop'[u].out : rop'[v].out[j] # rop'[u].out[k]
  <2>1. Using(v) /\ Using(u)
    BY <1>2, <1>8
  <2>2. CASE v = w
    BY <1>1, <1>7, <1>8, <2>1, <2>2
  <2>3. CASE u = w
    BY <1>1, <1>7, <1>8, <2>1, <2>3
  <2>4. CASE v # w /\ u # w
    BY <1>1, <1>6, <1>8, <2>1, <2>4 DEF Once
  <2> QED
    BY <2>2, <2>3, <2>4
<1>9. ASSUME NEW t \in Tasks, handed'[t] # 0
      PROVE  /\ handed'[t] = 1 /\ t <= H2
             /\ \A v \in Workers : Using(v)' => \A k \in DOMAIN rop'[v].out : rop'[v].out[k] # t
  <2>1. /\ handed[t] = 1 /\ t <= H /\ t \in Int
        /\ \A v \in Workers : Using(v) => \A k \in DOMAIN rop[v].out : rop[v].out[k] # t
    BY <1>6, <1>9 DEF Once, Tasks
  <2>2. t <= H2 /\ t # H + 1
    BY <2>1
  <2>3. \A k \in DOMAIN g.out : g.out[k] # t
    BY <2>1, <2>2 DEF Grows
  <2> QED
    BY <1>1, <1>2, <2>1, <2>2, <2>3
<1>10. Once(H2)'
  BY <1>8, <1>9 DEF Once
<1>11. ASSUME NEW v \in Workers, Using(v)' PROVE Share(v, P, H2)'
  <2>1. CASE v = w
    BY <2>1
  <2>2. CASE v # w
    <3>1. rop'[v] = rop[v] /\ Using(v) /\ Share(v, P, H)
      BY <1>1, <1>2, <1>11, <2>2 DEF Handing
    <3>2. /\ rop[v].pc \in {"hlock", "done"}
          /\ \A k \in DOMAIN rop[v].out : rop[v].out[k] <= H /\ rop[v].out[k] \in Int
      BY <1>3, <2>2, <3>1
    <3>3. \A k \in DOMAIN rop[v].out : rop[v].out[k] <= H2
      BY <3>2
    <3>4. rop[v].pc \notin Held
      BY <3>2 DEF Held
    <3> QED
      BY <3>1, <3>2, <3>3, <3>4 DEF Share
  <2> QED
    BY <2>1, <2>2
<1> QED
  BY <1>4, <1>5, <1>10, <1>11 DEF Handing

\* Worker w is inside ring_pop on the global queue and takes a step.
Pops(w, P, H) ==
  /\ Shape /\ \A v \in Workers : Loops(v)
  /\ P \in 0 .. Cap /\ H \in 0 .. P /\ Handing(P, H)
  /\ Using(w) /\ InRing(w)

LEMMA PopsFacts ==
  ASSUME NEW w \in Workers, NEW P, NEW H, Pops(w, P, H)
  PROVE  /\ rop[w].fn = "pop" /\ rop[w].q = Global /\ rop[w].need = Both /\ Frame(rop[w])
         /\ rop[w].pc \in PopPCs /\ rop[w].out \in Seq(Int)
         /\ rop[w].pc \in Held => hlock[Global] = w
         /\ rop[w].pc \in {"slot", "index", "move"} => H < P
         /\ rop[w].pc = "move" => rop[w].reg = head[Global]
         /\ \A k \in DOMAIN rop[w].out :
              rop[w].out[k] <= H \/ (rop[w].out[k] = H + 1 /\ rop[w].pc \in {"index", "move"})
         /\ P \in Nat /\ H \in Nat /\ H <= P /\ P <= Cap
         /\ head[Global] = H % Cap /\ tail[Global] = P % Cap
         /\ RingStep(w) /\ UNCHANGED <<wk, host, handed>> /\ w \in Procs
         /\ DOMAIN head = Rings /\ DOMAIN hlock = Rings /\ DOMAIN rop = Procs
         /\ ~AtTail(rop[w].fn) /\ ~Pushes(rop[w].fn)
<1>1. Share(w, P, H) /\ Stored(P, H)
  BY DEF Pops, Handing
<1>2. P \in Nat /\ H \in Nat /\ H <= P /\ P <= Cap
  BY CapAssumption DEF Pops
<1>3. RingStep(w) /\ UNCHANGED <<wk, host, handed>> /\ w \in Procs
  BY Names DEF Pops, InRing
<1>4. Frame(rop[w]) /\ DOMAIN head = Rings /\ DOMAIN hlock = Rings /\ DOMAIN rop = Procs
  BY <1>3 DEF Pops, Shape
<1>5. rop[w].fn = "pop" /\ rop[w].q = Global
  BY <1>1 DEF Share, Pops, Using
<1>6. ~AtTail(rop[w].fn) /\ ~Pushes(rop[w].fn)
  BY <1>5 DEF AtTail, Pushes
<1> QED
  BY <1>1, <1>2, <1>3, <1>4, <1>5, <1>6 DEF Share, Stored

\* A step of it, from what it does to w's own activation and the queue.
LEMMA PopsTo ==
  ASSUME NEW w \in Workers, NEW P, NEW H, Pops(w, P, H), NEW g,
         rop' = [rop EXCEPT ![w] = g], Same(rop[w], g), g.need = Both,
         UNCHANGED <<buf, tail>>,
         NEW H2 \in {H, H + 1}, H2 <= P, head'[Global] = H2 % Cap,
         g.pc \in PopPCs, g.out \in Seq(Int),
         g.pc \in Held => hlock'[Global] = w,
         g.pc \in {"slot", "index", "move"} => H2 < P,
         g.pc = "move" => g.reg = head'[Global],
         \A k \in DOMAIN g.out : g.out[k] <= H2 \/ (g.out[k] = H2 + 1 /\ g.pc \in {"index", "move"}),
         Grows(rop[w], g, H)
  PROVE  SchedInv'
<1>1. /\ rop[w].fn = "pop" /\ rop[w].q = Global /\ P \in Nat /\ H \in Nat /\ P <= Cap
      /\ RingStep(w) /\ UNCHANGED <<wk, host, handed>> /\ w \in Procs /\ DOMAIN rop = Procs
  BY PopsFacts
<1>2. Shape /\ (\A v \in Workers : Loops(v)) /\ Handing(P, H) /\ Using(w)
  BY DEF Pops
<1>3. Frame(g) /\ g.fn = "pop" /\ g.q = Global
  BY <1>1 DEF Same
<1>4. wk[w].pc = "global"
  BY <1>2 DEF Loops
<1>5. Added
  BY <1>1, <1>2, <1>4, Started
<1>6. rop'[w] = g
  BY <1>1
<1>7. Share(w, P, H2)'
  BY <1>3, <1>6 DEF Share
<1>8. Handing(P, H2)'
  <2>1. /\ buf'[Global] = buf[Global] /\ tail'[Global] = tail[Global] /\ UNCHANGED handed
        /\ g.fn # "none"
    BY <1>1, <1>3
  <2> QED
    BY <1>1, <1>2, <1>3, <1>5, <1>7, <2>1, GlobalKeeps
<1>9. QueueShape'
  BY <1>1, <1>2, RingElsewhere DEF Elsewhere, QueueShape, Shape
<1>10. wk' = [wk EXCEPT ![w] = wk[w]] /\ handed' \in [Tasks -> Nat]
  BY <1>1, <1>2 DEF Shape
<1>11. Shape' /\ \A v \in Workers : Loops(v)'
  <2>1. PICK r : r = wk[w]
    OBVIOUS
  <2>2. /\ r = [pc |-> r.pc, e |-> r.e, i |-> r.i] /\ r.pc # "unborn"
        /\ r.pc = "global" <=> (g.fn # "none" /\ g.q = Global)
        /\ r.pc = "steal" => r.i \in Workers
    BY <1>2, <1>3, <1>4, <2>1 DEF Loops
  <2>3. g.fn # "none" => g.q \in Rings
    BY <1>3, Names
  <2> QED
    BY <1>2, <1>3, <1>5, <1>9, <1>10, <2>1, <2>2, <2>3, OneWorker
<1>12. P \in 0 .. Cap /\ H2 \in 0 .. P
  BY <1>1, CapAssumption
<1> QED
  BY <1>8, <1>11, <1>12 DEF SchedInv

\* The steps that only go on.
LEMMA PopsGoto ==
  ASSUME NEW w \in Workers, NEW P, NEW H, Pops(w, P, H), NEW v \in PopPCs,
         rop' = [rop EXCEPT ![w].pc = v], UNCHANGED <<buf, head, tail>>,
         v \in Held => hlock'[Global] = w,
         v \notin {"index", "move"}, rop[w].pc \notin {"index", "move"}, v = "slot" => H < P
  PROVE  SchedInv'
<1>1. PICK g : g = WithPc(rop[w], v)
  OBVIOUS
<1>2. rop' = [rop EXCEPT ![w] = g]
  BY <1>1 DEF WithPc
<1>3. /\ Frame(rop[w]) /\ rop[w].need = Both /\ rop[w].out \in Seq(Int) /\ head[Global] = H % Cap
      /\ H <= P
      /\ \A k \in DOMAIN rop[w].out : rop[w].out[k] <= H
  BY PopsFacts
<1>4. Same(rop[w], g) /\ g.pc = v /\ g.need = rop[w].need /\ g.out = rop[w].out
  BY <1>1, <1>3, SetPc
<1>5. /\ g.need = Both /\ g.pc \in PopPCs /\ g.out \in Seq(Int)
      /\ g.pc \in Held => hlock'[Global] = w
      /\ g.pc \in {"slot", "index", "move"} => H < P
      /\ g.pc # "move" /\ head'[Global] = H % Cap
      /\ \A k \in DOMAIN g.out : g.out[k] <= H
      /\ Grows(rop[w], g, H)
  BY <1>3, <1>4 DEF Grows
<1>6. H \in {H, H + 1}
  OBVIOUS
<1> QED
  BY <1>2, <1>3, <1>4, <1>5, <1>6, PopsTo

LEMMA PopsLocks ==
  ASSUME NEW w \in Workers, NEW P, NEW H, Pops(w, P, H),
         LockHead(w) \/ LockTail(w) \/ Loop(w) \/ Add(w) \/ UnlockTail(w) \/ UnlockHead(w)
  PROVE  SchedInv'
<1>1. /\ rop[w].fn = "pop" /\ rop[w].q = Global /\ rop[w].need = Both
      /\ rop[w].pc \in Held => hlock[Global] = w
      /\ P \in Nat /\ H \in Nat /\ H <= P /\ DOMAIN hlock = Rings
      /\ head[Global] = H % Cap /\ tail[Global] = P % Cap
  BY PopsFacts
<1>2. CASE LockHead(w)
  <2>1. rop' = [rop EXCEPT ![w].pc = "tlock"]
    BY <1>1, <1>2 DEF LockHead, Goto, Both
  <2>2. hlock'[Global] = w /\ UNCHANGED <<buf, head, tail>> /\ rop[w].pc = "hlock"
    BY <1>1, <1>2, Names DEF LockHead, At
  <2>3. "tlock" \in PopPCs
    BY DEF PopPCs, Held
  <2> QED
    BY <2>1, <2>2, <2>3, PopsGoto
<1>3. CASE LockTail(w)
  <2>1. rop' = [rop EXCEPT ![w].pc = "loop"]
    BY <1>1, <1>3 DEF LockTail, Goto, Entered
  <2>2. rop[w].pc = "tlock" /\ UNCHANGED <<buf, head, tail, hlock>>
    BY <1>3 DEF LockTail, At
  <2>3. "loop" \in PopPCs /\ hlock'[Global] = w
    BY <1>1, <2>2 DEF PopPCs, Held
  <2> QED
    BY <2>1, <2>2, <2>3, PopsGoto
<1>4. CASE Loop(w)
  <2>1. rop[w].pc = "loop" /\ UNCHANGED <<buf, head, tail, hlock>>
    BY <1>4 DEF Loop, At
  <2>2. hlock'[Global] = w
    BY <1>1, <2>1 DEF Held
  <2>3. CASE LoopGoes(rop[w])
    <3>1. rop' = [rop EXCEPT ![w].pc = "slot"]
      BY <1>4, <2>3 DEF Loop, Goto
    <3>2. head[Global] # tail[Global]
      BY <1>1, <2>3 DEF LoopGoes
    <3>3. H # P
      BY <1>1, <3>2
    <3>4. H < P /\ "slot" \in PopPCs
      BY <1>1, <3>3 DEF PopPCs, Held
    <3> QED
      BY <2>1, <2>2, <3>1, <3>4, PopsGoto
  <2>4. CASE ~LoopGoes(rop[w])
    <3>1. rop' = [rop EXCEPT ![w].pc = "add"]
      BY <1>4, <2>4 DEF Loop, Goto
    <3>2. "add" \in PopPCs
      BY DEF PopPCs, Held
    <3> QED
      BY <2>1, <2>2, <3>1, <3>2, PopsGoto
  <2> QED
    BY <2>3, <2>4
<1>5. CASE Add(w)
  <2>1. PICK v \in {"tunlock", "hunlock"} : rop' = [rop EXCEPT ![w].pc = v]
    BY <1>5 DEF Add, Goto, FirstUnlock
  <2>2. rop[w].pc = "add" /\ UNCHANGED <<buf, head, tail, hlock>>
    BY <1>5 DEF Add, At
  <2>3. v \in PopPCs /\ hlock'[Global] = w /\ v \notin {"index", "move", "slot"}
    BY <1>1, <2>1, <2>2 DEF PopPCs, Held
  <2> QED
    BY <2>1, <2>2, <2>3, PopsGoto
<1>6. CASE UnlockTail(w)
  <2>1. PICK v \in {"hunlock", "done"} : rop' = [rop EXCEPT ![w].pc = v]
    BY <1>6 DEF UnlockTail, Goto
  <2>2. rop[w].pc = "tunlock" /\ UNCHANGED <<buf, head, tail, hlock>>
    BY <1>6 DEF UnlockTail, At
  <2>3. v \in PopPCs /\ hlock'[Global] = w /\ v \notin {"index", "move", "slot"}
    BY <1>1, <2>1, <2>2 DEF PopPCs, Held
  <2> QED
    BY <2>1, <2>2, <2>3, PopsGoto
<1>7. CASE UnlockHead(w)
  <2>1. rop' = [rop EXCEPT ![w].pc = "done"]
    BY <1>7 DEF UnlockHead, Goto
  <2>2. rop[w].pc = "hunlock" /\ UNCHANGED <<buf, head, tail>>
    BY <1>7 DEF UnlockHead, At
  <2>3. "done" \in PopPCs /\ "done" \notin Held
    BY DEF PopPCs, Held
  <2> QED
    BY <2>1, <2>2, <2>3, PopsGoto
<1> QED
  BY <1>2, <1>3, <1>4, <1>5, <1>6, <1>7

\* The oldest task that is left joins the share; by Alone no other worker is at
\* the slot or has passed it without moving the head.
LEMMA PopsSlot ==
  ASSUME NEW w \in Workers, NEW P, NEW H, Pops(w, P, H), Slot(w)
  PROVE  SchedInv'
<1>1. /\ rop[w].fn = "pop" /\ rop[w].q = Global /\ rop[w].need = Both /\ Frame(rop[w])
      /\ rop[w].out \in Seq(Int) /\ P \in Nat /\ H \in Nat /\ H <= P /\ P <= Cap
      /\ rop[w].pc \in Held => hlock[Global] = w
      /\ rop[w].pc \in {"slot", "index", "move"} => H < P
      /\ \A k \in DOMAIN rop[w].out :
           rop[w].out[k] <= H \/ (rop[w].out[k] = H + 1 /\ rop[w].pc \in {"index", "move"})
      /\ head[Global] = H % Cap /\ ~AtTail(rop[w].fn) /\ ~Pushes(rop[w].fn) /\ DOMAIN rop = Procs
      /\ w \in Procs
  BY PopsFacts
<1>2. rop[w].pc = "slot"
  BY DEF Slot, At
<1>3. H < P /\ hlock[Global] = w /\ \A k \in DOMAIN rop[w].out : rop[w].out[k] <= H
  BY <1>1, <1>2 DEF Held
<1>4. buf[Global][head[Global]] = H + 1
  <2>1. H % Cap = H
    BY <1>1, <1>3, CapAssumption, SMTT(20)
  <2>2. H \in 0 .. P - 1
    BY <1>1, <1>3
  <2>3. Stored(P, H)
    BY DEF Pops, Handing
  <2> QED
    BY <1>1, <2>1, <2>2, <2>3 DEF Stored
<1>5. PICK out : out = Append(rop[w].out, H + 1)
  OBVIOUS
<1>6. PICK g : g = OutPc(rop[w], out, "index")
  OBVIOUS
<1>7. rop' = [rop EXCEPT ![w] = g]
  BY <1>1, <1>4, <1>5, <1>6 DEF Slot, OutPc
<1>8. UNCHANGED <<buf, head, tail, hlock>>
  BY <1>1 DEF Slot
<1>9. Same(rop[w], g) /\ g.pc = "index" /\ g.need = Both /\ g.out = out
  BY <1>1, <1>6, SetOutPc
<1>10. /\ out \in Seq(Int) /\ DOMAIN out = 1 .. Len(rop[w].out) + 1
       /\ \A k \in 1 .. Len(rop[w].out) : out[k] = rop[w].out[k]
       /\ out[Len(rop[w].out) + 1] = H + 1
       /\ DOMAIN rop[w].out = 1 .. Len(rop[w].out) /\ Len(rop[w].out) \in Nat
  <2>1. PICK s \in Seq(Int) : s = rop[w].out
    BY <1>1
  <2>2. PICK e \in Int : e = H + 1
    BY <1>1
  <2>3. /\ Append(s, e) \in Seq(Int) /\ Len(Append(s, e)) = Len(s) + 1
        /\ \A k \in 1 .. Len(s) : Append(s, e)[k] = s[k]
        /\ Append(s, e)[Len(s) + 1] = e
    BY AppendProperties
  <2>4. DOMAIN s = 1 .. Len(s) /\ Len(s) \in Nat
    BY LenProperties
  <2>5. DOMAIN Append(s, e) = 1 .. Len(Append(s, e))
    BY <2>3, LenProperties
  <2> QED
    BY <1>5, <2>1, <2>2, <2>3, <2>4, <2>5
<1>11. ASSUME NEW k \in DOMAIN out
       PROVE  out[k] = H + 1 \/ (k \in DOMAIN rop[w].out /\ rop[w].out[k] = out[k])
  <2>1. k \in 1 .. Len(rop[w].out) \/ k = Len(rop[w].out) + 1
    BY <1>10, <1>11
  <2> QED
    BY <1>10, <2>1
<1>12. \A k \in DOMAIN g.out : g.out[k] <= H \/ (g.out[k] = H + 1 /\ g.pc \in {"index", "move"})
  BY <1>3, <1>9, <1>11
<1>13. Grows(rop[w], g, H)
  BY <1>9, <1>11 DEF Grows
<1>14. /\ g.pc \in PopPCs /\ g.out \in Seq(Int) /\ hlock'[Global] = w /\ g.pc # "move"
       /\ head'[Global] = H % Cap /\ H \in {H, H + 1} /\ UNCHANGED <<buf, tail>>
  BY <1>1, <1>3, <1>8, <1>9, <1>10 DEF PopPCs, Held
<1> QED
  BY <1>1, <1>3, <1>7, <1>9, <1>12, <1>13, <1>14, PopsTo

LEMMA PopsLoadIndex ==
  ASSUME NEW w \in Workers, NEW P, NEW H, Pops(w, P, H), LoadIndex(w)
  PROVE  SchedInv'
<1>1. /\ rop[w].fn = "pop" /\ rop[w].q = Global /\ rop[w].need = Both /\ Frame(rop[w])
      /\ rop[w].out \in Seq(Int) /\ P \in Nat /\ H \in Nat /\ H <= P
      /\ rop[w].pc \in Held => hlock[Global] = w
      /\ rop[w].pc \in {"slot", "index", "move"} => H < P
      /\ \A k \in DOMAIN rop[w].out : rop[w].out[k] <= H \/ rop[w].out[k] = H + 1
      /\ head[Global] = H % Cap /\ ~AtTail(rop[w].fn) /\ DOMAIN rop = Procs /\ w \in Procs
  BY PopsFacts
<1>2. rop[w].pc = "index" /\ UNCHANGED <<buf, head, tail, hlock>>
  BY DEF LoadIndex, At
<1>3. PICK g : g = RegPc(rop[w], head[Global], "move")
  OBVIOUS
<1>4. rop' = [rop EXCEPT ![w] = g]
  BY <1>1, <1>3 DEF LoadIndex, RegPc
<1>5. /\ Same(rop[w], g) /\ g.pc = "move" /\ g.need = Both /\ g.reg = head[Global]
      /\ g.out = rop[w].out
  BY <1>1, <1>3, SetRegPc
<1>6. /\ g.pc \in PopPCs /\ g.out \in Seq(Int) /\ hlock'[Global] = w /\ H < P
      /\ g.reg = head'[Global] /\ head'[Global] = H % Cap /\ H \in {H, H + 1}
      /\ UNCHANGED <<buf, tail>>
  BY <1>1, <1>2, <1>5 DEF PopPCs, Held
<1>7. /\ \A k \in DOMAIN g.out : g.out[k] <= H \/ (g.out[k] = H + 1 /\ g.pc \in {"index", "move"})
      /\ Grows(rop[w], g, H)
  BY <1>1, <1>5 DEF Grows
<1> QED
  BY <1>1, <1>4, <1>5, <1>6, <1>7, PopsTo

LEMMA PopsMove ==
  ASSUME NEW w \in Workers, NEW P, NEW H, Pops(w, P, H), MoveIndex(w)
  PROVE  SchedInv'
<1>1. /\ rop[w].fn = "pop" /\ rop[w].q = Global /\ rop[w].need = Both /\ Frame(rop[w])
      /\ rop[w].out \in Seq(Int) /\ P \in Nat /\ H \in Nat /\ H <= P /\ P <= Cap
      /\ rop[w].pc \in Held => hlock[Global] = w
      /\ rop[w].pc \in {"slot", "index", "move"} => H < P
      /\ rop[w].pc = "move" => rop[w].reg = head[Global]
      /\ \A k \in DOMAIN rop[w].out : rop[w].out[k] <= H \/ rop[w].out[k] = H + 1
      /\ head[Global] = H % Cap /\ ~AtTail(rop[w].fn) /\ DOMAIN rop = Procs /\ w \in Procs
      /\ DOMAIN head = Rings
  BY PopsFacts
<1>2. rop[w].pc = "move" /\ UNCHANGED <<buf, tail, hlock>>
  BY <1>1 DEF MoveIndex, At
<1>3. H < P /\ rop[w].reg = head[Global] /\ hlock[Global] = w
  BY <1>1, <1>2 DEF Held
<1>4. PICK g : g = IPc(rop[w], rop[w].i + 1, "loop")
  OBVIOUS
<1>5. rop' = [rop EXCEPT ![w] = g]
  BY <1>1, <1>4 DEF MoveIndex, IPc
<1>6. /\ Same(rop[w], g) /\ g.pc = "loop" /\ g.need = Both /\ g.out = rop[w].out
  BY <1>1, <1>4, SetIPc
<1>7. head'[Global] = (H + 1) % Cap
  <2>1. H % Cap = H
    BY <1>1, <1>3, CapAssumption
  <2>2. head' = [head EXCEPT ![Global] = (head[Global] + 1) % Cap]
    BY <1>1, <1>3 DEF MoveIndex, NextIndex
  <2> QED
    BY <1>1, <2>1, <2>2, Names
<1>8. \A k \in DOMAIN g.out : g.out[k] <= H + 1
  <2>1. \A k \in DOMAIN rop[w].out : rop[w].out[k] \in Int
    BY <1>1, LenProperties, ElementOfSeq
  <2> QED
    BY <1>1, <1>6, <2>1
<1>9. /\ g.pc \in PopPCs /\ g.out \in Seq(Int) /\ hlock'[Global] = w /\ H + 1 <= P
      /\ H + 1 \in {H, H + 1} /\ g.pc \notin {"slot", "index", "move"} /\ UNCHANGED <<buf, tail>>
  BY <1>1, <1>2, <1>3, <1>6 DEF PopPCs, Held
<1>10. Grows(rop[w], g, H)
  BY <1>6 DEF Grows
<1> QED
  BY <1>5, <1>6, <1>7, <1>8, <1>9, <1>10, PopsTo

LEMMA StepGlobal ==
  ASSUME SchedInv, NEW w \in Workers, InRing(w), Using(w)
  PROVE  SchedInv'
<1>1. PICK P \in 0 .. Cap : \E H \in 0 .. P : Handing(P, H)
  BY DEF SchedInv
<1>2. PICK H \in 0 .. P : Handing(P, H)
  BY <1>1
<1>3. Pops(w, P, H)
  BY <1>2 DEF SchedInv, Pops
<1>4. rop[w].pc \in PopPCs /\ RingStep(w)
  BY <1>3, PopsFacts
<1>5. ~Load(w) /\ ~Check(w)
  BY <1>4 DEF Load, Check, At, PopPCs, Held
<1> QED
  BY <1>3, <1>4, <1>5, PopsLocks, PopsSlot, PopsLoadIndex, PopsMove DEF RingStep

-----------------------------------------------------------------------------
(* The host fills the global queue, before there is a worker *)

LEMMA HostKeeps ==
  ASSUME SchedInv, NEW P \in 0 .. Cap, NEW H \in 0 .. P, Once(H), NEW g,
         rop' = [rop EXCEPT ![Host] = g], Frame(g), g.fn # "none" => g.q \in Rings,
         UNCHANGED <<wk, handed>>, host.pc = "add",
         host' = [pc |-> "add", i |-> host'.i], host'.i \in 1 .. NTasks + 1,
         QueueShape', Stored(P, H)', Adds(P)'
  PROVE  SchedInv'
<1>1. Shape /\ \A v \in Workers : Loops(v)
  BY DEF SchedInv
<1>2. /\ DOMAIN rop' = Procs /\ rop'[Host] = g
      /\ \A x \in Procs : x # Host => rop'[x] = rop[x]
      /\ \A v \in Workers : rop'[v] = rop[v]
  BY <1>1, Names DEF Shape
<1>3. \A x \in Procs : Frame(rop'[x]) /\ (rop'[x].fn # "none" => rop'[x].q \in Rings)
  BY <1>1, <1>2 DEF Shape
<1>4. host'.pc = "add" /\ host' = [pc |-> host'.pc, i |-> host'.i]
  OBVIOUS
<1>5. Shape'
  BY <1>1, <1>2, <1>3, <1>4 DEF Shape, QueueShape
<1>6. \A v \in Workers : Loops(v)'
  BY <1>1, <1>2 DEF Loops, Using
<1>7. \A v \in Workers : ~Using(v)'
  BY <1>1, <1>2 DEF Shape, Loops, Using
<1>8. Once(H)'
  BY <1>7 DEF Once
<1>9. Handing(P, H)'
  BY <1>7, <1>8 DEF Handing
<1> QED
  BY <1>5, <1>6, <1>9 DEF SchedInv

LEMMA HostBegins ==
  ASSUME SchedInv, mcsched_add
  PROVE  SchedInv'
<1>1. PICK P \in 0 .. Cap : \E H \in 0 .. P : Handing(P, H)
  BY DEF SchedInv
<1>2. PICK H \in 0 .. P : Handing(P, H)
  BY <1>1
<1>3. /\ Stored(P, H) /\ Adds(P) /\ Once(H) /\ Shape
  BY <1>2 DEF Handing, SchedInv
<1>4. /\ host.pc = "add" /\ host.i <= NTasks /\ rop[Host].fn = "none"
      /\ UNCHANGED <<buf, head, tail, count, hlock, wk, host, handed>>
  BY DEF mcsched_add, ringData
<1>5. PICK g : g = Called("push_one", Global, <<host.i>>, 0)
  OBVIOUS
<1>6. rop' = [rop EXCEPT ![Host] = g]
  BY <1>5 DEF mcsched_add, Call, Called
<1>7. /\ Frame(g) /\ g.fn = "push_one" /\ g.q = Global /\ g.in = <<host.i>> /\ g.i = 0
      /\ g.pc = "load"
  <2>1. PICK in : in = <<host.i>>
    OBVIOUS
  <2> QED
    BY <1>5, <2>1, CalledFields
<1>8. rop'[Host] = g
  BY <1>3, <1>6, Names DEF Shape
<1>9. Adds(P)'
  BY <1>3, <1>4, <1>7, <1>8 DEF Adds, PushPCs, Early
<1>10. Stored(P, H)' /\ QueueShape'
  BY <1>3, <1>4 DEF Stored, QueueShape, Shape
<1>11. host' = [pc |-> "add", i |-> host'.i] /\ host'.i \in 1 .. NTasks + 1
  BY <1>3, <1>4 DEF Shape
<1>12. g.fn # "none" => g.q \in Rings
  BY <1>7, Names
<1> QED
  BY <1>3, <1>4, <1>6, <1>7, <1>9, <1>10, <1>11, <1>12, HostKeeps

\* The numbers of an activation of the host.
LEMMA AddsFacts ==
  ASSUME Shape, NEW P \in 0 .. Cap, Adds(P), rop[Host].fn # "none"
  PROVE  /\ rop[Host].fn = "push_one" /\ rop[Host].q = Global /\ rop[Host].in = <<host.i>>
         /\ host.pc = "add" /\ host.i \in Nat /\ host.i >= 1 /\ host.i <= NTasks /\ P \in Nat
         /\ P <= Cap /\ rop[Host].i \in {0, 1} /\ rop[Host].pc \in PushPCs
         /\ rop[Host].pc \in Early => rop[Host].i = 0
         /\ rop[Host].pc = "add" => rop[Host].i = 1
         /\ rop[Host].pc \in {"slot", "index", "move"} => P < Cap
         /\ rop[Host].pc \in {"index", "move"} => buf[Global][P] = host.i
         /\ rop[Host].pc = "move" => rop[Host].reg = P
         /\ rop[Host].pc \in {"tunlock", "hunlock", "done"} /\ rop[Host].i = 0 => P = Cap
         /\ count[Global] = IF rop[Host].pc = "add" THEN P - 1 ELSE P
         /\ P <= (host.i - 1) + rop[Host].i
         /\ P < Cap => P = (host.i - 1) + rop[Host].i
         /\ Frame(rop[Host]) /\ DOMAIN rop = Procs /\ Host \in Procs
<1>1. host.i \in 1 .. NTasks + 1 /\ Frame(rop[Host]) /\ DOMAIN rop = Procs /\ Host \in Procs
  BY Names DEF Shape
<1>2. P \in Nat /\ P <= Cap /\ host.i \in Nat /\ host.i >= 1
  BY <1>1, CapAssumption, SizeAssumption
<1> QED
  BY <1>1, <1>2 DEF Adds

LEMMA HostReturns ==
  ASSUME SchedInv, mcsched_add_return
  PROVE  SchedInv'
<1>1. PICK P \in 0 .. Cap : \E H \in 0 .. P : Handing(P, H)
  BY DEF SchedInv
<1>2. PICK H \in 0 .. P : Handing(P, H)
  BY <1>1
<1>3. /\ Stored(P, H) /\ Adds(P) /\ Once(H) /\ Shape
  BY <1>2 DEF Handing, SchedInv
<1>4. /\ rop[Host].fn # "none" /\ rop[Host].pc = "done"
      /\ UNCHANGED <<buf, head, tail, count, hlock, wk, handed>>
  BY DEF mcsched_add_return, Returned, ringData
<1>5. /\ host.pc = "add" /\ host.i \in Nat /\ host.i >= 1 /\ host.i <= NTasks /\ P \in Nat /\ P <= Cap
      /\ rop[Host].i \in {0, 1} /\ (rop[Host].i = 0 => P = Cap) /\ count[Global] = P
      /\ P <= (host.i - 1) + rop[Host].i
      /\ P < Cap => P = (host.i - 1) + rop[Host].i
  BY <1>3, <1>4, AddsFacts
<1>6. PICK g : g = NoCall
  OBVIOUS
<1>7. rop' = [rop EXCEPT ![Host] = g]
  BY <1>6 DEF mcsched_add_return
<1>8. Frame(g) /\ g.fn = "none" /\ g.i = 0 /\ g.pc = "done"
  BY <1>6, NoCallFields
<1>9. rop'[Host] = g
  BY <1>3, <1>7, Names DEF Shape
<1>10. host' = [pc |-> "add", i |-> host'.i] /\ host'.i = host.i + 1
  <2>1. host = [pc |-> host.pc, i |-> host.i] /\ host' = [host EXCEPT !.i = host.i + 1]
    BY <1>3 DEF Shape, mcsched_add_return
  <2> QED
    BY <1>5, <2>1
<1>11. host'.i \in 1 .. NTasks + 1
  BY <1>5, <1>10, SizeAssumption
<1>12. P <= (host'.i - 1) + 0 /\ (P < Cap => P = (host'.i - 1) + 0)
  BY <1>5, <1>10
<1>13. Adds(P)'
  BY <1>4, <1>5, <1>8, <1>9, <1>10, <1>12 DEF Adds
<1>14. Stored(P, H)' /\ QueueShape'
  BY <1>3, <1>4 DEF Stored, QueueShape, Shape
<1> QED
  BY <1>3, <1>4, <1>5, <1>7, <1>8, <1>10, <1>11, <1>13, <1>14, HostKeeps

-----------------------------------------------------------------------------
(* Steps inside ring_push_one *)

Adding(P, H) ==
  /\ SchedInv /\ P \in 0 .. Cap /\ H \in 0 .. P /\ Handing(P, H)
  /\ InRing(Host) /\ rop[Host].fn # "none"

\* A step that stores nothing new.
LEMMA AddingTo ==
  ASSUME NEW P, NEW H, Adding(P, H), NEW g, rop' = [rop EXCEPT ![Host] = g],
         Same(rop[Host], g), g.i = rop[Host].i, g.pc \in PushPCs \ {"add"},
         rop[Host].pc # "add",
         UNCHANGED <<buf, head, tail, count>>,
         g.pc \in Early => rop[Host].pc \in Early,
         g.pc \in {"slot", "index", "move"} => P < Cap,
         g.pc \in {"index", "move"} => buf[Global][P] = host.i,
         g.pc = "move" => g.reg = P,
         g.pc \in {"tunlock", "hunlock", "done"} /\ g.i = 0 => P = Cap
  PROVE  SchedInv'
<1>1. P \in 0 .. Cap /\ H \in 0 .. P /\ Stored(P, H) /\ Adds(P) /\ Once(H) /\ Shape
  BY DEF Adding, Handing, SchedInv
<1>2. /\ rop[Host].fn = "push_one" /\ rop[Host].q = Global /\ rop[Host].in = <<host.i>>
      /\ host.pc = "add" /\ host.i <= NTasks
      /\ rop[Host].pc \in Early => rop[Host].i = 0
      /\ rop[Host].i \in {0, 1} /\ count[Global] = P /\ P <= (host.i - 1) + rop[Host].i
      /\ P < Cap => P = (host.i - 1) + rop[Host].i
  BY <1>1, AddsFacts DEF Adding
<1>3. Frame(g) /\ g.fn = "push_one" /\ g.q = Global /\ g.in = <<host.i>>
  BY <1>2 DEF Same
<1>4. RingStep(Host) /\ UNCHANGED <<wk, host, handed>>
  BY DEF Adding, InRing
<1>5. rop'[Host] = g
  BY <1>1, Names DEF Shape
<1>6. Adds(P)'
  BY <1>2, <1>3, <1>4, <1>5 DEF Adds
<1>7. Elsewhere(rop[Host].q)
  BY <1>1, <1>4, RingElsewhere, Names
<1>8. Stored(P, H)' /\ QueueShape'
  BY <1>1, <1>7 DEF Stored, QueueShape, Shape, Elsewhere
<1>9. host' = [pc |-> "add", i |-> host'.i] /\ host'.i \in 1 .. NTasks + 1
  BY <1>1, <1>2, <1>4 DEF Shape
<1>10. SchedInv /\ (g.fn # "none" => g.q \in Rings) /\ UNCHANGED <<wk, handed>>
  BY <1>3, <1>4, Names DEF Adding
<1> QED
  BY <1>1, <1>2, <1>3, <1>6, <1>8, <1>9, <1>10, HostKeeps

LEMMA AddingGoto ==
  ASSUME NEW P, NEW H, Adding(P, H), NEW v \in PushPCs \ {"add", "index", "move"},
         rop' = [rop EXCEPT ![Host].pc = v], rop[Host].pc # "add",
         UNCHANGED <<buf, head, tail, count>>,
         v \in Early => rop[Host].pc \in Early,
         v = "slot" => P < Cap,
         v \in {"tunlock", "hunlock", "done"} /\ rop[Host].i = 0 => P = Cap
  PROVE  SchedInv'
<1>1. PICK g : g = WithPc(rop[Host], v)
  OBVIOUS
<1>2. rop' = [rop EXCEPT ![Host] = g]
  BY <1>1 DEF WithPc
<1>3. Frame(rop[Host])
  BY Names DEF Adding, SchedInv, Shape
<1>4. Same(rop[Host], g) /\ g.pc = v /\ g.i = rop[Host].i
  BY <1>1, <1>3, SetPc
<1>5. /\ g.pc \in PushPCs \ {"add"} /\ (g.pc \in Early => rop[Host].pc \in Early)
      /\ g.pc \in {"slot", "index", "move"} => P < Cap
      /\ g.pc \notin {"index", "move"}
      /\ g.pc \in {"tunlock", "hunlock", "done"} /\ g.i = 0 => P = Cap
  BY <1>4
<1> QED
  BY <1>2, <1>4, <1>5, AddingTo

\* What is known at every step.
LEMMA AddingFacts ==
  ASSUME NEW P, NEW H, Adding(P, H)
  PROVE  /\ Shape /\ Adds(P) /\ Stored(P, H) /\ Once(H) /\ P \in 0 .. Cap /\ H \in 0 .. P
         /\ rop[Host].fn # "none" /\ RingStep(Host) /\ UNCHANGED <<wk, host, handed>>
  BY DEF Adding, Handing, SchedInv, InRing

LEMMA AddingLoad ==
  ASSUME NEW P, NEW H, Adding(P, H), Load(Host)
  PROVE  SchedInv'
<1>1. /\ rop[Host].pc = "load" /\ UNCHANGED <<buf, head, tail, count>>
  BY DEF Load, At
<1>2. /\ rop[Host].fn = "push_one" /\ rop[Host].q = Global /\ rop[Host].i = 0 /\ P \in Nat /\ P <= Cap
      /\ count[Global] = P /\ Frame(rop[Host]) /\ DOMAIN rop = Procs /\ Host \in Procs
      /\ "load" \in Early
  <2>1. "load" \in Early
    BY DEF Early
  <2> QED
    BY <1>1, <2>1, AddingFacts, AddsFacts
<1>3. CASE QuickFail(rop[Host].fn, count[rop[Host].q])
  <2>1. rop' = [rop EXCEPT ![Host].pc = "done"]
    BY <1>3 DEF Load
  <2>2. P = Cap
    BY <1>2, <1>3, CapAssumption DEF QuickFail, AtLeast
  <2>3. "done" \in PushPCs \ {"add", "index", "move"} /\ "done" \notin Early
    BY DEF PushPCs, Early
  <2> QED
    BY <1>1, <2>1, <2>2, <2>3, AddingGoto
<1>4. CASE ~QuickFail(rop[Host].fn, count[rop[Host].q])
  <2> DEFINE need == Need(rop[Host].fn, count[rop[Host].q])
             v == IF "h" \in need THEN "hlock" ELSE "tlock"
  <2>1. PICK g : g = NeedPc(rop[Host], need, v)
    OBVIOUS
  <2>2. rop' = [rop EXCEPT ![Host] = g]
    BY <1>2, <1>4, <2>1 DEF Load, NeedPc
  <2>3. v \in {"hlock", "tlock"}
    OBVIOUS
  <2> HIDE DEF need, v
  <2>4. Same(rop[Host], g) /\ g.pc = v /\ g.i = rop[Host].i
    BY <1>2, <2>1, SetNeedPc
  <2>5. /\ g.pc \in PushPCs \ {"add"} /\ g.pc \notin {"slot", "index", "move"}
        /\ g.pc \notin {"tunlock", "hunlock", "done"} /\ rop[Host].pc \in Early
        /\ rop[Host].pc # "add"
    BY <1>1, <2>3, <2>4 DEF PushPCs, Early
  <2> QED
    BY <1>1, <2>2, <2>4, <2>5, AddingTo
<1> QED
  BY <1>3, <1>4

LEMMA AddingLocks ==
  ASSUME NEW P, NEW H, Adding(P, H), LockHead(Host) \/ LockTail(Host)
  PROVE  SchedInv'
<1>1. rop[Host].pc \in {"hlock", "tlock"} /\ UNCHANGED <<buf, head, tail, count>>
  BY DEF LockHead, LockTail, At
<1>2. rop[Host].fn = "push_one"
  BY AddingFacts, AddsFacts
<1>3. PICK v \in {"tlock", "check"} : rop' = [rop EXCEPT ![Host].pc = v]
  BY <1>2 DEF LockHead, LockTail, Goto, Entered
<1>4. /\ v \in PushPCs \ {"add", "index", "move"} /\ v \notin {"slot", "tunlock", "hunlock", "done"}
      /\ rop[Host].pc \in Early /\ rop[Host].pc # "add"
  BY <1>1, <1>3 DEF PushPCs, Early
<1> QED
  BY <1>1, <1>3, <1>4, AddingGoto

LEMMA AddingCheck ==
  ASSUME NEW P, NEW H, Adding(P, H), Check(Host)
  PROVE  SchedInv'
<1>1. rop[Host].pc = "check" /\ UNCHANGED <<buf, head, tail, count>>
  BY DEF Check, At
<1>2. /\ rop[Host].fn = "push_one" /\ rop[Host].q = Global /\ P \in Nat /\ P <= Cap
      /\ count[Global] = P
  BY <1>1, AddingFacts, AddsFacts
<1>3. "slot" \in PushPCs \ {"add", "index", "move"} /\ rop[Host].pc \in Early
  BY <1>1 DEF PushPCs, Early
<1>4. CASE StillFails(rop[Host].fn, count[rop[Host].q])
  <2>1. PICK v \in {"tunlock", "hunlock"} : rop' = [rop EXCEPT ![Host].pc = v]
    BY <1>2, <1>4 DEF Check, Goto, FirstUnlock
  <2>2. P = Cap
    BY <1>2, <1>4, CapAssumption DEF StillFails, AtLeast
  <2>3. v \in PushPCs \ {"add", "index", "move"} /\ v \notin Early /\ v # "slot"
    BY <2>1 DEF PushPCs, Early
  <2> QED
    BY <1>1, <2>1, <2>2, <2>3, AddingGoto
<1>5. CASE ~StillFails(rop[Host].fn, count[rop[Host].q])
  <2>1. rop' = [rop EXCEPT ![Host].pc = "slot"]
    BY <1>2, <1>5 DEF Check, Goto
  <2>2. P < Cap
    BY <1>2, <1>5, CapAssumption DEF StillFails, AtLeast
  <2> QED
    BY <1>1, <1>3, <2>1, <2>2, AddingGoto
<1> QED
  BY <1>4, <1>5

LEMMA AddingUnlocks ==
  ASSUME NEW P, NEW H, Adding(P, H), UnlockTail(Host) \/ UnlockHead(Host)
  PROVE  SchedInv'
<1>1. rop[Host].pc \in {"tunlock", "hunlock"} /\ UNCHANGED <<buf, head, tail, count>>
  BY DEF UnlockTail, UnlockHead, At
<1>2. rop[Host].i = 0 => P = Cap
  BY <1>1, AddingFacts, AddsFacts
<1>3. PICK v \in {"hunlock", "done"} : rop' = [rop EXCEPT ![Host].pc = v]
  BY DEF UnlockTail, UnlockHead, Goto
<1>4. /\ v \in PushPCs \ {"add", "index", "move"} /\ v \notin Early /\ v # "slot"
      /\ rop[Host].pc # "add"
  BY <1>1, <1>3 DEF PushPCs, Early
<1> QED
  BY <1>1, <1>2, <1>3, <1>4, AddingGoto

LEMMA AddingLoadIndex ==
  ASSUME NEW P, NEW H, Adding(P, H), LoadIndex(Host)
  PROVE  SchedInv'
<1>1. rop[Host].pc = "index" /\ UNCHANGED <<buf, head, tail, count>>
  BY DEF LoadIndex, At
<1>2. /\ rop[Host].fn = "push_one" /\ rop[Host].q = Global /\ P \in Nat /\ P < Cap
      /\ buf[Global][P] = host.i /\ Frame(rop[Host]) /\ DOMAIN rop = Procs /\ Host \in Procs
  BY <1>1, AddingFacts, AddsFacts
<1>3. tail[Global] = P
  <2>1. P % Cap = P
    BY <1>2, CapAssumption
  <2> QED
    BY <2>1, AddingFacts DEF Stored
<1>4. PICK g : g = RegPc(rop[Host], P, "move")
  OBVIOUS
<1>5. rop' = [rop EXCEPT ![Host] = g]
  BY <1>2, <1>3, <1>4 DEF LoadIndex, RegPc, AtTail
<1>6. Same(rop[Host], g) /\ g.pc = "move" /\ g.i = rop[Host].i /\ g.reg = P
  BY <1>2, <1>4, SetRegPc
<1>7. /\ g.pc \in PushPCs \ {"add"} /\ g.pc \notin {"tunlock", "hunlock", "done"}
      /\ rop[Host].pc \in Early /\ rop[Host].pc # "add"
  BY <1>1, <1>6 DEF PushPCs, Early
<1> QED
  BY <1>1, <1>2, <1>5, <1>6, <1>7, AddingTo

\* The new task goes into the slot behind the ones that are stored.
LEMMA AddingSlot ==
  ASSUME NEW P, NEW H, Adding(P, H), Slot(Host)
  PROVE  SchedInv'
<1>1. rop[Host].pc = "slot" /\ UNCHANGED <<head, tail, count, hlock>>
  BY DEF Slot, At
<1>2. /\ rop[Host].fn = "push_one" /\ rop[Host].q = Global /\ P \in Nat /\ P < Cap
      /\ rop[Host].i = 0 /\ rop[Host].in = <<host.i>> /\ host.pc = "add" /\ host.i <= NTasks
      /\ count[Global] = P /\ P <= (host.i - 1) + rop[Host].i
      /\ P < Cap => P = (host.i - 1) + rop[Host].i
      /\ Frame(rop[Host]) /\ DOMAIN rop = Procs /\ Host \in Procs
  <2>1. "slot" \in Early
    BY DEF Early
  <2> QED
    BY <1>1, <2>1, AddingFacts, AddsFacts
<1>3. /\ Shape /\ Stored(P, H) /\ Once(H) /\ P \in 0 .. Cap /\ H \in 0 .. P
      /\ UNCHANGED <<wk, host, handed>> /\ SchedInv
  BY AddingFacts DEF Adding
<1>4. tail[Global] = P
  <2>1. P % Cap = P
    BY <1>2, CapAssumption
  <2> QED
    BY <1>3, <2>1 DEF Stored
<1>5. PICK g : g = WithPc(rop[Host], "index")
  OBVIOUS
<1>6. rop' = [rop EXCEPT ![Host] = g]
  BY <1>2, <1>5 DEF Slot, Goto, WithPc, Pushes
<1>7. Same(rop[Host], g) /\ g.pc = "index" /\ g.i = rop[Host].i
  BY <1>2, <1>5, SetPc
<1>8. Frame(g) /\ g.fn = "push_one" /\ g.q = Global /\ g.in = <<host.i>> /\ g.i = 0
  BY <1>2, <1>7 DEF Same
<1>9. rop[Host].in[rop[Host].i + 1] = host.i
  BY <1>2
<1>10. buf' = [buf EXCEPT ![Global] = [buf[Global] EXCEPT ![P] = host.i]]
  BY <1>2, <1>4, <1>9 DEF Slot, AtTail, Pushes
<1>11. DOMAIN buf = Rings /\ DOMAIN buf[Global] = Index /\ P \in Index /\ Global \in Rings
  BY <1>2, <1>3, CapAssumption, Names DEF Shape, Index
<1>12. /\ DOMAIN buf' = Rings /\ DOMAIN buf'[Global] = Index /\ buf'[Global][P] = host.i
       /\ \A k \in Index : k # P => buf'[Global][k] = buf[Global][k]
  BY <1>10, <1>11
<1>13. Stored(P, H)'
  <2>1. ASSUME NEW k \in 0 .. P - 1 PROVE buf'[Global][k] = k + 1
    <3>1. k \in Index /\ k # P
      BY <1>2, CapAssumption DEF Index
    <3>2. buf[Global][k] = k + 1
      BY <1>3 DEF Stored
    <3> QED
      BY <1>12, <3>1, <3>2
  <2> QED
    BY <1>1, <1>3, <2>1 DEF Stored
<1>14. rop'[Host] = g
  BY <1>2, <1>6
<1>15. Adds(P)'
  BY <1>1, <1>2, <1>3, <1>7, <1>8, <1>12, <1>14 DEF Adds, PushPCs, Early
<1>16. QueueShape'
  BY <1>1, <1>3, <1>12 DEF QueueShape, Shape
<1>17. host' = [pc |-> "add", i |-> host'.i] /\ host'.i \in 1 .. NTasks + 1
  BY <1>2, <1>3 DEF Shape
<1>18. (g.fn # "none" => g.q \in Rings) /\ UNCHANGED <<wk, handed>>
  BY <1>3, <1>8, Names
<1> QED
  BY <1>2, <1>3, <1>6, <1>8, <1>13, <1>15, <1>16, <1>17, <1>18, HostKeeps

LEMMA AddingMove ==
  ASSUME NEW P, NEW H, Adding(P, H), MoveIndex(Host)
  PROVE  SchedInv'
<1>1. /\ rop[Host].fn = "push_one" /\ rop[Host].q = Global
  BY AddingFacts, AddsFacts
<1>2. rop[Host].pc = "move" /\ UNCHANGED <<buf, head, count, hlock>>
  BY <1>1 DEF MoveIndex, At, AtTail
<1>3. /\ P \in Nat /\ P < Cap /\ rop[Host].i = 0 /\ rop[Host].in = <<host.i>> /\ host.pc = "add"
      /\ host.i <= NTasks /\ host.i \in Nat /\ rop[Host].reg = P /\ buf[Global][P] = host.i
      /\ count[Global] = P /\ P = (host.i - 1) + rop[Host].i
      /\ Frame(rop[Host]) /\ DOMAIN rop = Procs /\ Host \in Procs
  <2>1. "move" \in Early
    BY DEF Early
  <2> QED
    BY <1>2, <2>1, AddingFacts, AddsFacts
<1>4. /\ Shape /\ Stored(P, H) /\ Once(H) /\ P \in 0 .. Cap /\ H \in 0 .. P
      /\ UNCHANGED <<wk, host, handed>> /\ SchedInv
  BY AddingFacts DEF Adding
<1>5. PICK g : g = IPc(rop[Host], rop[Host].i + 1, "add")
  OBVIOUS
<1>6. rop' = [rop EXCEPT ![Host] = g]
  BY <1>1, <1>3, <1>5 DEF MoveIndex, IPc
<1>7. Same(rop[Host], g) /\ g.pc = "add" /\ g.i = 1
  BY <1>3, <1>5, SetIPc
<1>8. Frame(g) /\ g.fn = "push_one" /\ g.q = Global /\ g.in = <<host.i>>
  BY <1>1, <1>3, <1>7 DEF Same
<1>9. tail' = [tail EXCEPT ![Global] = (P + 1) % Cap]
  BY <1>1, <1>3 DEF MoveIndex, NextIndex, AtTail
<1>10. tail'[Global] = (P + 1) % Cap /\ DOMAIN tail' = Rings
  BY <1>4, <1>9, Names DEF Shape
<1>11. P + 1 \in 0 .. Cap /\ H \in 0 .. P + 1 /\ host.i = P + 1
  BY <1>3, <1>4, CapAssumption
<1>12. Stored(P + 1, H)'
  <2>1. ASSUME NEW k \in 0 .. (P + 1) - 1 PROVE buf[Global][k] = k + 1
    <3>1. k \in 0 .. P - 1 \/ k = P
      BY <1>3
    <3> QED
      BY <1>3, <1>4, <1>11, <3>1 DEF Stored
  <2> QED
    BY <1>2, <1>4, <1>10, <1>11, <2>1 DEF Stored
<1>13. rop'[Host] = g
  BY <1>3, <1>6
<1>14. /\ P + 1 <= (host.i - 1) + 1 /\ P + 1 = (host.i - 1) + 1 /\ P = (P + 1) - 1
  BY <1>3, <1>11
<1>15. Adds(P + 1)'
  BY <1>2, <1>3, <1>4, <1>7, <1>8, <1>13, <1>14 DEF Adds, PushPCs, Early
<1>16. QueueShape'
  BY <1>2, <1>4, <1>10 DEF QueueShape, Shape
<1>17. host' = [pc |-> "add", i |-> host'.i] /\ host'.i \in 1 .. NTasks + 1
  BY <1>3, <1>4 DEF Shape
<1>18. (g.fn # "none" => g.q \in Rings) /\ UNCHANGED <<wk, handed>>
  BY <1>4, <1>8, Names
<1> QED
  BY <1>3, <1>4, <1>6, <1>8, <1>11, <1>12, <1>15, <1>16, <1>17, <1>18, HostKeeps

LEMMA AddingAdd ==
  ASSUME NEW P, NEW H, Adding(P, H), Add(Host)
  PROVE  SchedInv'
<1>1. rop[Host].pc = "add" /\ UNCHANGED <<buf, head, tail, hlock>>
  BY DEF Add, At
<1>2. /\ rop[Host].fn = "push_one" /\ rop[Host].q = Global /\ rop[Host].i = 1 /\ P \in Nat
      /\ rop[Host].in = <<host.i>> /\ host.pc = "add" /\ host.i <= NTasks
      /\ count[Global] = P - 1 /\ P <= (host.i - 1) + rop[Host].i
      /\ P < Cap => P = (host.i - 1) + rop[Host].i
      /\ Frame(rop[Host]) /\ DOMAIN rop = Procs /\ Host \in Procs
  BY <1>1, AddingFacts, AddsFacts
<1>3. /\ Shape /\ Stored(P, H) /\ Once(H) /\ P \in 0 .. Cap /\ H \in 0 .. P
      /\ UNCHANGED <<wk, host, handed>> /\ SchedInv
  BY AddingFacts DEF Adding
<1>4. PICK v \in {"tunlock", "hunlock"} : rop' = [rop EXCEPT ![Host].pc = v]
  BY DEF Add, Goto, FirstUnlock
<1>5. PICK g : g = WithPc(rop[Host], v)
  OBVIOUS
<1>6. rop' = [rop EXCEPT ![Host] = g]
  BY <1>4, <1>5 DEF WithPc
<1>7. Same(rop[Host], g) /\ g.pc = v /\ g.i = rop[Host].i
  BY <1>2, <1>5, SetPc
<1>8. Frame(g) /\ g.fn = "push_one" /\ g.q = Global /\ g.in = <<host.i>> /\ g.i = 1
  BY <1>2, <1>7 DEF Same
<1>9. count' = [count EXCEPT ![Global] = count[Global] + 1]
  BY <1>2 DEF Add, NewCount, Pushes
<1>10. count'[Global] = P /\ DOMAIN count' = Rings
  <2>1. count'[Global] = count[Global] + 1 /\ DOMAIN count' = Rings
    BY <1>3, <1>9, Names DEF Shape
  <2> QED
    BY <1>2, <2>1
<1>11. Stored(P, H)' /\ QueueShape'
  BY <1>1, <1>3, <1>10 DEF Stored, QueueShape, Shape
<1>12. rop'[Host] = g
  BY <1>2, <1>6
<1>13. Adds(P)'
  BY <1>2, <1>3, <1>4, <1>7, <1>8, <1>10, <1>12 DEF Adds, PushPCs, Early
<1>14. host' = [pc |-> "add", i |-> host'.i] /\ host'.i \in 1 .. NTasks + 1
  BY <1>2, <1>3 DEF Shape
<1>15. (g.fn # "none" => g.q \in Rings) /\ UNCHANGED <<wk, handed>>
  BY <1>3, <1>8, Names
<1> QED
  BY <1>2, <1>3, <1>6, <1>8, <1>11, <1>13, <1>14, <1>15, HostKeeps

LEMMA StepHost ==
  ASSUME SchedInv, InRing(Host)
  PROVE  SchedInv'
<1>1. PICK P \in 0 .. Cap : \E H \in 0 .. P : Handing(P, H)
  BY DEF SchedInv
<1>2. PICK H \in 0 .. P : Handing(P, H)
  BY <1>1
<1>3. RingStep(Host)
  BY DEF InRing
<1>4. rop[Host].fn # "none"
  BY <1>3 DEF RingStep, Load, LockHead, LockTail, Check, Loop, Slot, LoadIndex, MoveIndex,
              Add, UnlockTail, UnlockHead, At
<1>5. Adding(P, H)
  BY <1>2, <1>4 DEF Adding
<1>6. ~Loop(Host)
  <2>1. rop[Host].pc \in PushPCs
    BY <1>5, AddingFacts, AddsFacts
  <2> QED
    BY <2>1 DEF Loop, At, PushPCs
<1> QED
  BY <1>3, <1>5, <1>6, AddingLoad, AddingLocks, AddingCheck, AddingSlot, AddingLoadIndex,
     AddingMove, AddingAdd, AddingUnlocks DEF RingStep

-----------------------------------------------------------------------------
(* The steps of mcsched_loop *)

\* A loop state and a call, or none, on a queue of a worker.
Proceeds(w, g, r) ==
  /\ rop' = [rop EXCEPT ![w] = g] /\ wk' = [wk EXCEPT ![w] = r]
  /\ Frame(g) /\ (g.fn # "none" => g.q \in Workers)
  /\ r = [pc |-> r.pc, e |-> r.e, i |-> r.i] /\ r.pc \notin {"unborn", "global"}
  /\ r.pc = "steal" => r.i \in Workers
  /\ Added /\ UNCHANGED <<buf, head, tail, count, hlock>>

\* Worker w goes on without having anything of the global queue.
LEMMA Goes ==
  ASSUME SchedInv, NEW w \in Workers, ~Using(w), NEW g, NEW r, Proceeds(w, g, r),
         UNCHANGED handed
  PROVE  SchedInv'
<1>1. Shape /\ \A v \in Workers : Loops(v)
  BY DEF SchedInv
<1>2. PICK P \in 0 .. Cap : \E H \in 0 .. P : Handing(P, H)
  BY DEF SchedInv
<1>3. PICK H \in 0 .. P : Handing(P, H)
  BY <1>2
<1>4. g.q \in Workers => g.q \in Rings /\ g.q # Global
  BY Names
<1>5. QueueShape' /\ SameGlobal /\ handed' \in [Tasks -> Nat] /\ Added
  BY <1>1 DEF Proceeds, QueueShape, SameGlobal, Shape
<1>6. Shape' /\ \A v \in Workers : Loops(v)'
  BY <1>1, <1>4, <1>5, OneWorker DEF Proceeds
<1>7. Handing(P, H)'
  BY <1>1, <1>3, <1>4, <1>5, LocalKeeps DEF Proceeds
<1> QED
  BY <1>6, <1>7 DEF SchedInv

\* What the hand-out of worker w's share does to the history.
HandsOut(w) ==
  handed' = [t \in Tasks |-> handed[t] + (IF \E k \in DOMAIN rop[w].out : rop[w].out[k] = t
                                          THEN 1 ELSE 0)]

\* Worker w leaves ring_pop with its share: no other one has a task of it.
LEMMA Leaves ==
  ASSUME SchedInv, NEW w \in Workers, Using(w), rop[w].pc = "done",
         NEW g, NEW r, Proceeds(w, g, r), HandsOut(w)
  PROVE  SchedInv'
<1>1. Shape /\ \A v \in Workers : Loops(v)
  BY DEF SchedInv
<1>2. PICK P \in 0 .. Cap : \E H \in 0 .. P : Handing(P, H)
  BY DEF SchedInv
<1>3. PICK H \in 0 .. P : Handing(P, H)
  BY <1>2
<1>4. g.q \in Workers => g.q \in Rings /\ g.q # Global
  BY Names
<1>5. handed \in [Tasks -> Nat]
  BY <1>1 DEF Shape
<1>6. handed' \in [Tasks -> Nat]
  <2>1. ASSUME NEW t \in Tasks
        PROVE  handed[t] + (IF \E k \in DOMAIN rop[w].out : rop[w].out[k] = t THEN 1 ELSE 0) \in Nat
    BY <1>5
  <2> QED
    BY <2>1 DEF HandsOut
<1>7. QueueShape' /\ SameGlobal /\ Added
  BY <1>1 DEF Proceeds, QueueShape, SameGlobal, Shape
<1>8. Shape' /\ \A v \in Workers : Loops(v)'
  BY <1>1, <1>4, <1>6, <1>7, OneWorker DEF Proceeds
<1>9. /\ rop'[w] = g /\ rop'[Host] = rop[Host]
      /\ \A v \in Workers : v # w => rop'[v] = rop[v]
  BY <1>1, Names DEF Shape, Proceeds
<1>10. \A v \in Workers : Using(v)' => Using(v) /\ v # w /\ rop'[v] = rop[v]
  BY <1>4, <1>9 DEF Using, Proceeds
<1>11. Stored(P, H)'
  BY <1>3, <1>7 DEF Handing, Stored, SameGlobal
<1>12. Adds(P)'
  <2>1. rop[Host].fn = "none"
    <3>1. host.i > NTasks => ~(host.i <= NTasks)
      BY <1>1, SizeAssumption DEF Shape
    <3> QED
      BY <1>3, <1>7, <3>1 DEF Handing, Adds, Added
  <2>2. rop'[Host].fn = "none" /\ rop'[Host] = rop[Host] /\ host'.i = host.i /\ host'.pc # "add"
    BY <1>7, <1>9, <2>1 DEF Added
  <2> QED
    BY <1>3, <2>2 DEF Handing, Adds
<1>13. Once(H) /\ Share(w, P, H)
  BY <1>3 DEF Handing
<1>14. ASSUME NEW v \in Workers, NEW u \in Workers, Using(v)', Using(u)', v # u
       PROVE  \A j \in DOMAIN rop'[v].out, k \in DOMAIN rop'[u].out : rop'[v].out[j] # rop'[u].out[k]
  BY <1>10, <1>13, <1>14 DEF Once
<1>15. ASSUME NEW t \in Tasks, handed'[t] # 0
       PROVE  /\ handed'[t] = 1 /\ t <= H
              /\ \A v \in Workers : Using(v)' => \A k \in DOMAIN rop'[v].out : rop'[v].out[k] # t
  <2>1. CASE \E k \in DOMAIN rop[w].out : rop[w].out[k] = t
    <3>1. PICK k \in DOMAIN rop[w].out : rop[w].out[k] = t
      BY <2>1
    <3>2. handed[t] = 0
      BY <1>13, <3>1 DEF Once
    <3>3. handed'[t] = handed[t] + 1
      BY <2>1 DEF HandsOut
    <3>4. t <= H
      BY <1>13, <3>1 DEF Share
    <3>5. ASSUME NEW v \in Workers, Using(v)', NEW j \in DOMAIN rop'[v].out
          PROVE  rop'[v].out[j] # t
      BY <1>10, <1>13, <3>1, <3>5 DEF Once
    <3> QED
      BY <3>2, <3>3, <3>4, <3>5
  <2>2. CASE ~\E k \in DOMAIN rop[w].out : rop[w].out[k] = t
    <3>1. handed'[t] = handed[t]
      BY <1>5, <2>2 DEF HandsOut
    <3> QED
      BY <1>10, <1>13, <1>15, <3>1 DEF Once
  <2> QED
    BY <2>1, <2>2
<1>16. Once(H)'
  BY <1>14, <1>15 DEF Once
<1>17. ASSUME NEW v \in Workers, Using(v)' PROVE Share(v, P, H)'
  <2>1. rop'[v] = rop[v] /\ Share(v, P, H)
    BY <1>3, <1>10, <1>17 DEF Handing
  <2> QED
    BY <1>7, <2>1 DEF Share, SameGlobal
<1>18. Handing(P, H)'
  BY <1>11, <1>12, <1>16, <1>17 DEF Handing
<1> QED
  BY <1>8, <1>18 DEF SchedInv

\* Worker w starts its call of ring_pop on the global queue.
LEMMA LoopLocalMiss ==
  ASSUME SchedInv, NEW w \in Workers, LocalMiss(w)
  PROVE  SchedInv'
<1>1. Shape /\ \A v \in Workers : Loops(v)
  BY DEF SchedInv
<1>2. PICK P \in 0 .. Cap : \E H \in 0 .. P : Handing(P, H)
  BY DEF SchedInv
<1>3. PICK H \in 0 .. P : Handing(P, H)
  BY <1>2
<1>4. wk[w].pc = "local" /\ ~Using(w) /\ UNCHANGED <<buf, head, tail, count, hlock, host, handed>>
  BY <1>1 DEF LocalMiss, Back, ringData, Loops
<1>5. PICK m : m = (count[Global] \div NCore) + 1
  OBVIOUS
<1>6. PICK g : g = Called("pop", Global, <<>>, m)
  OBVIOUS
<1>7. rop' = [rop EXCEPT ![w] = g]
  BY <1>5, <1>6 DEF LocalMiss, Call, Called
<1>8. Frame(g) /\ g.fn = "pop" /\ g.q = Global /\ g.pc = "hlock" /\ g.need = Both /\ g.out = <<>>
  BY <1>6, CalledFields
<1>9. PICK r : r = [pc |-> "global", e |-> Null, i |-> 0]
  OBVIOUS
<1>10. wk' = [wk EXCEPT ![w] = r]
  BY <1>9 DEF LocalMiss, Step
<1>11. /\ r = [pc |-> r.pc, e |-> r.e, i |-> r.i] /\ r.pc = "global"
  BY <1>9
<1>12. Added
  BY <1>1, <1>4, Started
<1>13. QueueShape' /\ SameGlobal /\ handed' \in [Tasks -> Nat]
  BY <1>1, <1>4 DEF QueueShape, SameGlobal, Shape
<1>14. Shape' /\ \A v \in Workers : Loops(v)'
  BY <1>1, <1>7, <1>8, <1>10, <1>11, <1>12, <1>13, Names, OneWorker
<1>15. /\ rop'[w] = g /\ rop'[Host] = rop[Host]
       /\ \A v \in Workers : v # w => rop'[v] = rop[v]
  BY <1>1, <1>7, Names DEF Shape
<1>16. \A v \in Workers : Using(v)' => v = w \/ (Using(v) /\ v # w /\ rop'[v] = rop[v])
  BY <1>15 DEF Using
<1>17. rop'[w].out = <<>> /\ DOMAIN rop'[w].out = {}
  BY <1>8, <1>15
<1>18. Stored(P, H)'
  BY <1>3, <1>13 DEF Handing, Stored, SameGlobal
<1>19. Adds(P)'
  BY <1>3, <1>4, <1>15 DEF Handing, Adds
<1>20. Once(H)
  BY <1>3 DEF Handing
<1>21. ASSUME NEW v \in Workers, NEW u \in Workers, Using(v)', Using(u)', v # u
       PROVE  \A j \in DOMAIN rop'[v].out, k \in DOMAIN rop'[u].out : rop'[v].out[j] # rop'[u].out[k]
  <2>1. CASE v = w \/ u = w
    BY <1>17, <2>1
  <2>2. CASE v # w /\ u # w
    BY <1>16, <1>20, <1>21, <2>2 DEF Once
  <2> QED
    BY <2>1, <2>2
<1>22. ASSUME NEW t \in Tasks, handed'[t] # 0
       PROVE  /\ handed'[t] = 1 /\ t <= H
              /\ \A v \in Workers : Using(v)' => \A k \in DOMAIN rop'[v].out : rop'[v].out[k] # t
  <2>1. /\ handed[t] = 1 /\ t <= H
        /\ \A v \in Workers : Using(v) => \A k \in DOMAIN rop[v].out : rop[v].out[k] # t
    BY <1>4, <1>20, <1>22 DEF Once
  <2>2. ASSUME NEW v \in Workers, Using(v)', NEW k \in DOMAIN rop'[v].out
        PROVE  rop'[v].out[k] # t
    BY <1>16, <1>17, <2>1, <2>2
  <2> QED
    BY <1>4, <2>1, <2>2
<1>23. Once(H)'
  BY <1>21, <1>22 DEF Once
<1>24. ASSUME NEW v \in Workers, Using(v)' PROVE Share(v, P, H)'
  <2>1. CASE v = w
    <3>1. rop'[w].pc = "hlock" /\ rop'[w].fn = "pop" /\ rop'[w].need = Both
      BY <1>8, <1>15
    <3>2. "hlock" \notin Held /\ "hlock" \in PopPCs /\ <<>> \in Seq(Int)
      BY DEF Held, PopPCs
    <3> QED
      BY <1>17, <2>1, <3>1, <3>2 DEF Share
  <2>2. CASE v # w
    <3>1. rop'[v] = rop[v] /\ Share(v, P, H)
      BY <1>3, <1>16, <1>24, <2>2 DEF Handing
    <3> QED
      BY <1>13, <3>1 DEF Share, SameGlobal
  <2> QED
    BY <2>1, <2>2
<1>25. Handing(P, H)'
  BY <1>18, <1>19, <1>23, <1>24 DEF Handing
<1> QED
  BY <1>14, <1>25 DEF SchedInv

\* The state of the loop after a step, with no call or a new one on a worker's queue.
LEMMA ToNone ==
  ASSUME NEW w, NEW pc, NEW e, NEW i, Step(w, pc, e, i), NoRing(w),
         pc \notin {"unborn", "global", "steal"},
         Added, UNCHANGED <<buf, head, tail, count, hlock>>
  PROVE  \E g, r : Proceeds(w, g, r)
<1>1. PICK g : g = NoCall
  OBVIOUS
<1>2. PICK r : r = [pc |-> pc, e |-> e, i |-> i]
  OBVIOUS
<1>3. rop' = [rop EXCEPT ![w] = g] /\ wk' = [wk EXCEPT ![w] = r]
  BY <1>1, <1>2 DEF Step, NoRing
<1>4. Frame(g) /\ g.fn = "none"
  BY <1>1, NoCallFields
<1>5. r = [pc |-> r.pc, e |-> r.e, i |-> r.i] /\ r.pc = pc
  BY <1>2
<1>6. Proceeds(w, g, r)
  BY <1>3, <1>4, <1>5 DEF Proceeds
<1> QED
  BY <1>6

LEMMA ToCall ==
  ASSUME NEW w, NEW pc, NEW e, NEW i, Step(w, pc, e, i),
         NEW fn, NEW q \in Workers, NEW in, NEW max, Call(w, fn, q, in, max),
         pc \notin {"unborn", "global"}, pc = "steal" => i \in Workers,
         Added, UNCHANGED <<buf, head, tail, count, hlock>>
  PROVE  \E g, r : Proceeds(w, g, r)
<1>1. PICK g : g = Called(fn, q, in, max)
  OBVIOUS
<1>2. PICK r : r = [pc |-> pc, e |-> e, i |-> i]
  OBVIOUS
<1>3. rop' = [rop EXCEPT ![w] = g] /\ wk' = [wk EXCEPT ![w] = r]
  BY <1>1, <1>2 DEF Step, Call, Called
<1>4. Frame(g) /\ g.q = q
  BY <1>1, CalledFields
<1>5. r = [pc |-> r.pc, e |-> r.e, i |-> r.i] /\ r.pc = pc /\ r.i = i
  BY <1>2
<1>6. Proceeds(w, g, r)
  BY <1>3, <1>4, <1>5 DEF Proceeds
<1> QED
  BY <1>6

\* The queue to steal from is that of another worker.
LEMMA VictimExists ==
  ASSUME NEW w \in Workers, NEW i \in 0 .. NCore
  PROVE  Victim(w, i) \in i .. NCore /\ Victim(w, i) # w
<1>1. NCore \in Nat /\ w \in Nat /\ w < NCore
  BY CoreAssumption DEF Workers
<1>2. \E v \in i .. NCore : v # w /\ \A u \in i .. v - 1 : u = w
  <2>1. CASE i # w
    <3>1. i \in i .. NCore /\ \A u \in i .. i - 1 : u = w
      BY <1>1
    <3> QED
      BY <2>1, <3>1
  <2>2. CASE i = w
    <3>1. i + 1 \in i .. NCore /\ i + 1 # w /\ \A u \in i .. (i + 1) - 1 : u = w
      BY <1>1, <2>2
    <3> QED
      BY <3>1
  <2> QED
    BY <2>1, <2>2
<1> QED
  BY <1>2 DEF Victim

LEMMA ToSteal ==
  ASSUME NEW w \in Workers, NEW i \in 0 .. NCore, NEW e, StealFrom(w, i, e),
         Added, UNCHANGED <<buf, head, tail, count, hlock>>
  PROVE  \E g, r : Proceeds(w, g, r)
<1>1. PICK v : v = Victim(w, i)
  OBVIOUS
<1>2. v \in i .. NCore /\ NCore \in Nat
  BY <1>1, VictimExists, CoreAssumption
<1>3. CASE v < NCore
  <2>1. v \in Workers
    BY <1>2, <1>3 DEF Workers
  <2>2. Step(w, "steal", e, v) /\ Call(w, "pop_back", v, <<>>, 1)
    BY <1>1, <1>3 DEF StealFrom
  <2> QED
    BY <2>1, <2>2, ToCall
<1>4. CASE ~(v < NCore)
  <2>1. PICK pc \in {"exit", "run"} : Step(w, pc, e, 0) /\ NoRing(w)
    BY <1>1, <1>4 DEF StealFrom
  <2> QED
    BY <2>1, ToNone
<1> QED
  BY <1>3, <1>4

\* The steps of a worker that takes nothing from the global queue.
LEMMA LoopOthers ==
  ASSUME SchedInv, NEW w \in Workers,
         \/ LocalHit(w) \/ PushDone(w) \/ Again(w) \/ Stolen(w)
         \/ RunExit(w) \/ RunYield(w) \/ Requeued(w)
  PROVE  SchedInv'
<1>1. Shape /\ \A v \in Workers : Loops(v)
  BY DEF SchedInv
<1>2. wk[w].pc \in {"local", "push", "again", "steal", "run", "requeue"}
  BY DEF LocalHit, PushDone, Again, Stolen, RunExit, RunYield, Requeued, Back
<1>3. ~Using(w) /\ wk[w].pc # "unborn"
  BY <1>1, <1>2 DEF Loops
<1>4. UNCHANGED <<buf, head, tail, count, hlock, host, handed>>
  BY DEF LocalHit, PushDone, Again, Stolen, RunExit, RunYield, Requeued, ringData
<1>5. Added
  BY <1>1, <1>3, <1>4, Started
<1>6. \E g, r : Proceeds(w, g, r)
  <2>1. CASE LocalHit(w)
    BY <1>4, <1>5, <2>1, ToNone DEF LocalHit
  <2>2. CASE PushDone(w)
    <3>1. CASE rop[w].i = Len(rop[w].in)
      <4>1. Step(w, "again", Null, 0) /\ Call(w, "pop_one", w, <<>>, 1)
        BY <2>2, <3>1 DEF PushDone
      <4> QED
        BY <1>4, <1>5, <4>1, ToCall
    <3>2. CASE rop[w].i # Len(rop[w].in)
      <4>1. Step(w, "abort", Null, 0) /\ NoRing(w)
        BY <2>2, <3>2 DEF PushDone
      <4> QED
        BY <1>4, <1>5, <4>1, ToNone
    <3> QED
      BY <3>1, <3>2
  <2>3. CASE Again(w)
    <3>1. PICK pc \in {"exit", "run"} : Step(w, pc, Result(w), 0) /\ NoRing(w)
      BY <2>3 DEF Again
    <3> QED
      BY <1>4, <1>5, <3>1, ToNone
  <2>4. CASE Stolen(w)
    <3>1. wk[w].pc = "steal" /\ StealFrom(w, wk[w].i + 1, Result(w))
      BY <2>4 DEF Stolen, Back
    <3>2. wk[w].i \in Workers
      BY <1>1, <3>1 DEF Loops
    <3>3. wk[w].i + 1 \in 0 .. NCore
      BY <3>2, CoreAssumption DEF Workers
    <3> QED
      BY <1>4, <1>5, <3>1, <3>3, ToSteal
  <2>5. CASE RunExit(w)
    <3>1. Step(w, "local", Null, 0) /\ Call(w, "pop_one", w, <<>>, 1)
      BY <2>5 DEF RunExit
    <3> QED
      BY <1>4, <1>5, <3>1, ToCall
  <2>6. CASE RunYield(w)
    <3>1. Step(w, "requeue", Null, 0) /\ Call(w, "push_one", w, <<wk[w].e>>, 0)
      BY <2>6 DEF RunYield
    <3>2. PICK in : in = <<wk[w].e>>
      OBVIOUS
    <3>3. Call(w, "push_one", w, in, 0)
      BY <3>1, <3>2
    <3> QED
      BY <1>4, <1>5, <3>1, <3>3, ToCall
  <2>7. CASE Requeued(w)
    <3>1. Step(w, "local", Null, 0) /\ Call(w, "pop_one", w, <<>>, 1)
      BY <2>7 DEF Requeued
    <3> QED
      BY <1>4, <1>5, <3>1, ToCall
  <2> QED
    BY <2>1, <2>2, <2>3, <2>4, <2>5, <2>6, <2>7
<1> QED
  BY <1>3, <1>4, <1>6, Goes

\* The steps of a worker that has its share.
LEMMA LoopShare ==
  ASSUME SchedInv, NEW w \in Workers, GlobalHit(w) \/ GlobalMiss(w)
  PROVE  SchedInv'
<1>1. Shape /\ \A v \in Workers : Loops(v)
  BY DEF SchedInv
<1>2. wk[w].pc = "global" /\ rop[w].pc = "done"
  BY DEF GlobalHit, GlobalMiss, Back, Returned
<1>3. Using(w) /\ wk[w].pc # "unborn"
  BY <1>1, <1>2 DEF Loops
<1>4. UNCHANGED <<buf, head, tail, count, hlock, host>>
  BY DEF GlobalHit, GlobalMiss, ringData
<1>5. Added
  BY <1>1, <1>3, <1>4, Started
<1>6. CASE GlobalHit(w)
  <2>1. HandsOut(w)
    BY <1>6 DEF GlobalHit, HandsOut
  <2>2. Step(w, "push", Null, 0) /\ Call(w, "push", w, rop[w].out, 0)
    BY <1>6 DEF GlobalHit
  <2>3. \E g, r : Proceeds(w, g, r)
    BY <1>4, <1>5, <2>2, ToCall
  <2> QED
    BY <1>2, <1>3, <2>1, <2>3, Leaves
<1>7. CASE GlobalMiss(w)
  <2>1. rop[w].out = <<>> /\ handed' = handed /\ StealFrom(w, 0, Null)
    BY <1>7 DEF GlobalMiss
  <2>2. handed \in [Tasks -> Nat]
    BY <1>1 DEF Shape
  <2>3. \A t \in Tasks : handed[t] + (IF \E k \in DOMAIN rop[w].out : rop[w].out[k] = t
                                       THEN 1 ELSE 0) = handed[t]
    BY <2>1, <2>2
  <2>4. HandsOut(w)
    BY <2>1, <2>2, <2>3 DEF HandsOut
  <2>5. 0 \in 0 .. NCore
    BY CoreAssumption
  <2>6. \E g, r : Proceeds(w, g, r)
    BY <1>4, <1>5, <2>1, <2>5, ToSteal
  <2> QED
    BY <1>2, <1>3, <2>4, <2>6, Leaves
<1> QED
  BY <1>6, <1>7

LEMMA LoopStep ==
  ASSUME SchedInv, NEW w \in Workers, mcsched_loop(w)
  PROVE  SchedInv'
  BY LoopOthers, LoopShare, LoopLocalMiss DEF mcsched_loop

-----------------------------------------------------------------------------
(* The host starts and joins the workers *)

LEMMA HostStarts ==
  ASSUME SchedInv, mcshed_start
  PROVE  SchedInv'
<1>1. Shape /\ \A v \in Workers : Loops(v)
  BY DEF SchedInv
<1>2. PICK w \in Workers : /\ wk[w].pc = "unborn" /\ wk' = [wk EXCEPT ![w].pc = "local"]
                           /\ Call(w, "pop_one", w, <<>>, 1)
  BY DEF mcshed_start
<1>3. ~Using(w)
  BY <1>1, <1>2 DEF Loops
<1>4. UNCHANGED <<buf, head, tail, count, hlock, handed>> /\ host.i > NTasks
  BY DEF mcshed_start, ringData
<1>5. PICK pc \in {"start", "join"} : host' = [host EXCEPT !.pc = pc]
  BY DEF mcshed_start
<1>6. Added
  <2>1. host = [pc |-> host.pc, i |-> host.i]
    BY <1>1 DEF Shape
  <2>2. host' = [pc |-> pc, i |-> host.i]
    BY <1>5, <2>1
  <2> QED
    BY <1>4, <2>2 DEF Added
<1>7. Step(w, "local", wk[w].e, wk[w].i)
  <2>1. wk[w] = [pc |-> wk[w].pc, e |-> wk[w].e, i |-> wk[w].i]
    BY <1>1 DEF Loops
  <2>2. [wk[w] EXCEPT !.pc = "local"] = [pc |-> "local", e |-> wk[w].e, i |-> wk[w].i]
    BY <2>1
  <2> QED
    BY <1>2, <2>2 DEF Step
<1>8. \E g, r : Proceeds(w, g, r)
  BY <1>2, <1>4, <1>6, <1>7, ToCall
<1> QED
  BY <1>3, <1>4, <1>8, Goes

LEMMA HostJoins ==
  ASSUME SchedInv, mcsched_join
  PROVE  SchedInv'
<1>1. Shape /\ \A v \in Workers : Loops(v)
  BY DEF SchedInv
<1>2. PICK P \in 0 .. Cap : \E H \in 0 .. P : Handing(P, H)
  BY DEF SchedInv
<1>3. PICK H \in 0 .. P : Handing(P, H)
  BY <1>2
<1>4. /\ host.pc = "join" /\ host' = [host EXCEPT !.pc = "done"]
      /\ UNCHANGED <<buf, head, tail, count, hlock, rop, wk, handed>>
  BY DEF mcsched_join, ringVars
<1>5. /\ host' = [pc |-> "done", i |-> host.i] /\ host.i \in 1 .. NTasks + 1
      /\ ~(host.i <= NTasks)
  BY <1>1, <1>4 DEF Shape
<1>6. Shape'
  BY <1>1, <1>4, <1>5 DEF Shape
<1>7. \A v \in Workers : Loops(v)'
  BY <1>1, <1>4 DEF Loops, Using
<1>8. Adds(P)'
  BY <1>3, <1>4, <1>5 DEF Handing, Adds
<1>9. Handing(P, H)'
  BY <1>3, <1>4, <1>8 DEF Handing, Stored, Once, Share, Using
<1> QED
  BY <1>6, <1>7, <1>9 DEF SchedInv

-----------------------------------------------------------------------------
(* The theorem *)

LEMMA SchedInvInit == Init => SchedInv
<1> SUFFICES ASSUME Init PROVE SchedInv
  OBVIOUS
<1>1. rop = [x \in Procs |-> NoCall] /\ \A x \in Procs : rop[x] = NoCall
  BY DEF Init, RingInit
<1>2. \A x \in Procs : /\ Frame(rop[x]) /\ rop[x].fn = "none" /\ rop[x].i = 0
                       /\ rop[x].pc = "done"
  BY <1>1, NoCallFields
<1>3. /\ host = [pc |-> "add", i |-> 1] /\ host.pc = "add" /\ host.i = 1
      /\ 1 \in 1 .. NTasks + 1
  BY SizeAssumption DEF Init
<1>4. \A w \in Workers : wk[w] = [pc |-> "unborn", e |-> Null, i |-> 0]
  BY DEF Init
<1>5. handed = [t \in Tasks |-> 0] /\ handed \in [Tasks -> Nat]
  BY DEF Init
<1>6. QueueShape
  BY Names DEF Init, RingInit, QueueShape
<1>7. Shape
  BY <1>1, <1>2, <1>3, <1>4, <1>5, <1>6 DEF Shape, QueueShape, Init
<1>8. \A w \in Workers : Loops(w) /\ ~Using(w)
  BY <1>2, <1>4, Names DEF Loops, Using
<1>9. 0 \in 0 .. Cap /\ 0 \in 0 .. 0 /\ 0 % Cap = 0 /\ 0 .. 0 - 1 = {}
  BY CapAssumption
<1>10. Stored(0, 0)
  BY <1>9, Names DEF Stored, Init, RingInit
<1>11. Adds(0)
  <2>1. rop[Host].fn = "none" /\ rop[Host].i = 0 /\ rop[Host].pc = "done" /\ count[Global] = 0
    BY <1>2, Names DEF Init, RingInit
  <2>2. 0 <= (1 - 1) + 0 /\ 0 = (1 - 1) + 0
    OBVIOUS
  <2> QED
    BY <1>3, <2>1, <2>2 DEF Adds
<1>12. Once(0)
  BY <1>5, <1>8 DEF Once
<1>13. Handing(0, 0)
  BY <1>8, <1>10, <1>11, <1>12 DEF Handing
<1> QED
  BY <1>7, <1>8, <1>9, <1>13 DEF SchedInv

LEMMA SchedInvStutter == SchedInv /\ UNCHANGED vars => SchedInv'
<1> SUFFICES ASSUME SchedInv, UNCHANGED vars PROVE SchedInv'
  OBVIOUS
<1>1. UNCHANGED <<buf, head, tail, count, hlock, tlock, rop, wk, host, handed>>
  BY DEF vars, ringVars
<1>2. Shape'
  BY <1>1 DEF SchedInv, Shape
<1>3. \A w \in Workers : Loops(w)'
  BY <1>1 DEF SchedInv, Loops, Using
<1>4. PICK P \in 0 .. Cap : \E H \in 0 .. P : Handing(P, H)
  BY DEF SchedInv
<1>5. PICK H \in 0 .. P : Handing(P, H)
  BY <1>4
<1>6. Handing(P, H)'
  <2>1. Stored(P, H)' /\ Adds(P)'
    BY <1>1, <1>5 DEF Handing, Stored, Adds
  <2>2. Once(H)'
    BY <1>1, <1>5 DEF Handing, Once, Using
  <2>3. \A w \in Workers : Using(w)' => Share(w, P, H)'
    BY <1>1, <1>5 DEF Handing, Share, Using
  <2> QED
    BY <2>1, <2>2, <2>3 DEF Handing
<1> QED
  BY <1>2, <1>3, <1>6 DEF SchedInv

LEMMA SchedInvStep == SchedInv /\ [Next]_vars => SchedInv'
<1> SUFFICES ASSUME SchedInv, Next PROVE SchedInv'
  BY SchedInvStutter
<1>1. CASE mcsched_add \/ mcsched_add_return \/ mcshed_start \/ mcsched_join
  BY <1>1, HostBegins, HostReturns, HostStarts, HostJoins
<1>2. ASSUME NEW w \in Workers, mcsched_loop(w) PROVE SchedInv'
  BY <1>2, LoopStep
<1>3. ASSUME NEW x \in Procs, InRing(x) PROVE SchedInv'
  <2>1. CASE x = Host
    BY <1>3, <2>1, StepHost
  <2>2. CASE x \in Workers
    BY <1>3, <2>2, StepLocal, StepGlobal
  <2> QED
    BY <2>1, <2>2, NamesAssumption
<1> QED
  BY <1>1, <1>2, <1>3 DEF Next

\* SchedInv holds in every reachable state.
THEOREM SchedInvHolds == Spec => []SchedInv
  BY SchedInvInit, SchedInvStep, PTL DEF Spec

LEMMA OncePerTask == SchedInv => HandedAtMostOnce
<1> SUFFICES ASSUME SchedInv, NEW t \in Tasks PROVE handed[t] <= 1
  BY DEF HandedAtMostOnce
<1>1. PICK H : Once(H)
  BY DEF SchedInv, Handing
<1>2. handed[t] \in Nat
  BY DEF SchedInv, Shape
<1> QED
  BY <1>1, <1>2 DEF Once

\* The second part of HandedOutOnce: for any number of workers and tasks, any size
\* of the queues and any interleaving of the workers' ring_pop calls, the global
\* queue of mcsched_loop gives no task to two workers, nor to one twice.
THEOREM HandedOnceHolds == Spec => []HandedAtMostOnce
  BY OncePerTask, SchedInvHolds, PTL

-----------------------------------------------------------------------------
(* Places of a queue *)

\* The place behind the n-th one.
LEMMA NextPlace ==
  ASSUME NEW n \in Nat
  PROVE  ((n % Cap) + 1) % Cap = (n + 1) % Cap /\ n % Cap \in Index
<1> USE CapAssumption
<1> DEFINE lap == n \div Cap
           pos == n % Cap
<1>1. n = Cap * lap + pos /\ lap \in Int /\ pos \in 0 .. Cap - 1
  OBVIOUS
<1> SUFFICES (pos + 1) % Cap = (n + 1) % Cap /\ pos \in Index
  OBVIOUS
<1> HIDE DEF lap, pos
<1>2. CASE pos + 1 < Cap
  <2>1. n + 1 = Cap * lap + (pos + 1) /\ pos + 1 \in 0 .. Cap - 1
    BY <1>1, <1>2
  <2>2. (Cap * lap + (pos + 1)) % Cap = pos + 1
    BY <1>1, <2>1
  <2>3. (pos + 1) % Cap = pos + 1
    BY <2>1
  <2> QED
    BY <1>1, <2>1, <2>2, <2>3 DEF Index
<1>3. CASE pos + 1 = Cap
  <2>0. PICK k \in Int : k = lap + 1
    BY <1>1
  <2>1. n + 1 = Cap * k + 0
    BY <1>1, <1>3, <2>0
  <2>2. (Cap * k + 0) % Cap = 0
    BY <2>0
  <2>3. (pos + 1) % Cap = 0
    BY <1>3
  <2> QED
    BY <1>1, <2>1, <2>2, <2>3 DEF Index
<1> QED
  BY <1>1, <1>2, <1>3

\* Places less than a lap apart are different.
LEMMA Apart ==
  ASSUME NEW a \in Nat, NEW b \in Nat, a < b, b < a + Cap
  PROVE  a % Cap # b % Cap
<1> USE CapAssumption
<1>1. /\ a = Cap * (a \div Cap) + (a % Cap)
      /\ b = Cap * (b \div Cap) + (b % Cap)
      /\ a \div Cap \in Int /\ b \div Cap \in Int
  OBVIOUS
<1>2. ASSUME a % Cap = b % Cap PROVE FALSE
  <2> DEFINE laps == (b \div Cap) - (a \div Cap)
  <2>1. b - a = Cap * laps /\ laps \in Int
    BY <1>1, <1>2
  <2> HIDE DEF laps
  <2>2. CASE laps <= 0
    <3>1. Cap * laps <= 0
      BY <2>1, <2>2
    <3> QED
      BY <3>1, <2>1
  <2>3. CASE laps >= 1
    <3>1. Cap * laps >= Cap
      BY <2>1, <2>3
    <3> QED
      BY <3>1, <2>1
  <2> QED
    BY <2>1, <2>2, <2>3
<1> QED
  BY <1>2

LEMMA Residue ==
  ASSUME NEW a \in Int, NEW b \in 0 .. Cap - 1
  PROVE  (Cap * a + b) % Cap = b
  BY CapAssumption

\* The place at a distance from another one.
LEMMA PlaceAfter ==
  ASSUME NEW n \in Nat, NEW j \in Nat
  PROVE  ((n % Cap) + j) % Cap = (n + j) % Cap
<1> USE CapAssumption
<1> DEFINE lap == n \div Cap
           pos == n % Cap
           at == (n % Cap) + j
<1>1. n = Cap * lap + pos /\ lap \in Int /\ pos \in 0 .. Cap - 1 /\ at = pos + j /\ at \in Nat
  OBVIOUS
<1> SUFFICES at % Cap = (n + j) % Cap
  OBVIOUS
<1> HIDE DEF lap, pos, at
<1> DEFINE alap == at \div Cap
           apos == at % Cap
<1>2. at = Cap * alap + apos /\ alap \in Int /\ apos \in 0 .. Cap - 1
  BY <1>1
<1> SUFFICES apos = (n + j) % Cap
  OBVIOUS
<1> HIDE DEF alap, apos
<1>3. PICK laps \in Int : laps = lap + alap
  BY <1>1, <1>2
<1>4. n + j = Cap * laps + apos
  BY <1>1, <1>2, <1>3
<1>5. (Cap * laps + apos) % Cap = apos
  BY <1>2, Residue
<1> QED
  BY <1>4, <1>5

-----------------------------------------------------------------------------
(* The global queue hands out every task: the invariant *)

\* The global queue holds nothing for ring_pop, and never will again.
Drained == host.pc # "add" /\ head[Global] = tail[Global]

\* Worker w's activation works on its own queue.
MyCall(w) == rop[w].fn # "none" /\ rop[w].q = w

\* The element or the share is counted, or there is none.
Released == {"tunlock", "hunlock", "done"}

\* Worker w has tasks of the global queue on their way to its own.
Carries(w) ==
  \/ wk[w].pc = "global" /\ rop[w].out # <<>>
  \/ wk[w].pc = "push" /\ rop[w].pc \notin Released

\* Nobody steals from worker w.
Guarded(w) == NCore = 1 \/ ~Drained \/ Carries(w)

\* The calls of mcsched_loop.
Calls(w) ==
  /\ wk[w].pc \in {"unborn", "local", "global", "push", "again", "steal", "run", "requeue", "exit"}
  /\ wk[w].pc \in {"local", "again"} => rop[w].fn = "pop_one" /\ rop[w].q = w
  /\ wk[w].pc = "push" => rop[w].fn = "push" /\ rop[w].q = w
  /\ wk[w].pc = "requeue" => rop[w].fn = "push_one" /\ rop[w].q = w
  /\ wk[w].pc = "steal" => rop[w].fn = "pop_back" /\ rop[w].q # w /\ NCore # 1
  /\ wk[w].pc \in {"unborn", "run", "exit"} => rop[w].fn = "none"
  /\ wk[w].pc = "run" => wk[w].e # Null
  /\ wk[w].pc \in {"steal", "exit"} => Drained
  /\ wk[w].pc = "push" /\ rop[w].pc \in Released => rop[w].i = Len(rop[w].in)

\* How many elements worker w's activation stored or took without counting them.
Uncounted(w) ==
  IF MyCall(w) /\ rop[w].pc \notin Released
  THEN IF Pushes(rop[w].fn) THEN rop[w].i ELSE 0 - rop[w].i
  ELSE 0

\* Worker w's queue holds n elements.
Holds(w, n) ==
  /\ count[w] \in Nat /\ n \in Nat /\ head[w] \in Index /\ DOMAIN buf[w] = Index
  /\ tail[w] = (head[w] + n) % Cap
  /\ \A k \in 0 .. n - 1 : buf[w][(head[w] + k) % Cap] # Null

\* Worker w inside ring_pop_one, ring_push_one and ring_push on its own queue.
Taking(w, f) ==
  /\ f.pc \in {"load", "hlock", "tlock", "check", "slot", "index", "move", "add"} \cup Released
  /\ f.pc \in {"add", "tunlock", "hunlock"} => f.i = 1
  /\ f.pc \in {"load", "hlock", "tlock", "check", "slot", "index", "move"} => f.i = 0
  /\ f.pc \in {"hlock", "tlock", "check", "slot", "index", "move", "add"} => count[w] >= 1
  /\ f.pc \in {"load", "hlock", "tlock", "check", "slot"} => f.out = <<>>
  /\ f.pc \in {"index", "move", "add", "tunlock", "hunlock"} => Len(f.out) = 1
  /\ f.pc = "done" => Len(f.out) = 1 \/ (f.out = <<>> /\ count[w] = 0)
  /\ f.out # <<>> => f.out[1] # Null
  /\ f.pc = "move" => f.reg = head[w]
  /\ wk[w].pc = "again" /\ f.pc = "load" => count[w] >= 1
  /\ wk[w].pc = "again" /\ f.pc = "done" => f.out # <<>>

Putting(w, f) ==
  /\ \A k \in DOMAIN f.in : f.in[k] # Null
  /\ f.pc \in {"slot", "index", "move"} => f.i < Len(f.in)
  /\ f.pc \in {"index", "move"} => buf[w][tail[w]] # Null
  /\ f.pc = "move" => f.reg = tail[w]

Requeueing(w, f) ==
  /\ f.pc \in {"load", "hlock", "tlock", "check", "slot", "index", "move", "add"} \cup Released
  /\ Len(f.in) = 1
  /\ f.pc = "add" => f.i = 1
  /\ f.pc \in {"load", "hlock", "tlock", "check", "slot", "index", "move"} => f.i = 0

Sharing(w, f) ==
  /\ f.pc \in {"hlock", "tlock", "loop", "slot", "index", "move", "add"} \cup Released
  /\ Len(f.in) \in 1 .. Cap /\ f.i \in 0 .. Len(f.in)
  /\ f.pc \in {"hlock", "tlock"} => f.i = 0
  /\ f.pc = "add" => f.i = Len(f.in)
  /\ f.pc \notin Released => count[w] = 0
  /\ f.pc \in Released => count[w] >= 1

InCall(w) ==
  /\ wk[w].pc = "global" => count[w] = 0
  /\ wk[w].pc \in {"local", "again"} => Taking(w, rop[w])
  /\ wk[w].pc \in {"requeue", "push"} => Putting(w, rop[w])
  /\ wk[w].pc = "requeue" => Requeueing(w, rop[w])
  /\ wk[w].pc = "push" => Sharing(w, rop[w])

\* Worker w's queue and its own call on it, while nobody else uses the queue.
Level(w) == Holds(w, count[w] + Uncounted(w)) /\ InCall(w)

\* Thieves have at most looked at its count.
Untouched(w) ==
  \A v \in Workers : v # w /\ rop[v].fn # "none" /\ rop[v].q = w => rop[v].pc \in {"load", "done"}

\* Worker w between its loads of the bounds of the global queue and its count.
Busy(w) == Using(w) /\ rop[w].pc \in {"loop", "slot", "index", "move", "add"}

\* The share of worker w.
Portion(w) ==
  LET f == rop[w] IN
  /\ f.max \in Nat /\ f.max >= 1 /\ f.i \in Nat
  /\ \A k \in DOMAIN f.out : f.out[k] \in Tasks
  /\ Len(f.out) = IF f.pc \in {"index", "move"} THEN f.i + 1 ELSE f.i
  /\ f.i <= head[Global]
  /\ f.pc \in {"index", "move"} => f.out[f.i + 1] = head[Global] + 1
  /\ f.pc \in {"hlock", "tlock"} => f.i = 0
  /\ f.pc \in {"slot", "index", "move"} => ~Drained
  /\ f.pc \in {"add", "tunlock", "hunlock", "done"} /\ f.out = <<>> => Drained
  /\ Busy(w) => count[Global] = (tail[Global] - head[Global]) + f.i

\* Every task that left the global queue is in a share or was handed out.
Covered ==
  \A t \in Tasks : t <= head[Global] =>
    \/ handed[t] = 1
    \/ \E w \in Workers : Using(w) /\ \E k \in DOMAIN rop[w].out : rop[w].out[k] = t

\* Outside ring_pop the count of the global queue is what it holds.
Counted ==
  host.pc # "add" /\ (\A w \in Workers : ~Busy(w)) =>
    count[Global] = tail[Global] - head[Global]

HandInv ==
  /\ host.pc = "add" => head[Global] = 0
  /\ Counted
  /\ Covered
  /\ \A w \in Workers : Calls(w) /\ (Using(w) => Portion(w))
  /\ \A w \in Workers : Guarded(w) => Level(w) /\ Untouched(w)

-----------------------------------------------------------------------------
(* Steps seen from the global queue and from the other workers *)

\* The global queue takes all the tasks.
Room == NTasks < Cap

\* Then head and tail count the tasks taken and stored.
LEMMA GlobalFacts ==
  ASSUME SchedInv, Room
  PROVE  /\ head[Global] \in Nat /\ tail[Global] \in Nat
         /\ head[Global] <= tail[Global] /\ tail[Global] <= NTasks
         /\ Handing(tail[Global], head[Global])
         /\ host.pc # "add" => tail[Global] = NTasks
         /\ host.pc = "add" /\ rop[Host].fn = "none" => count[Global] = tail[Global]
<1>1. PICK P \in 0 .. Cap : \E H \in 0 .. P : Handing(P, H)
  BY DEF SchedInv
<1>2. PICK H \in 0 .. P : Handing(P, H)
  BY <1>1
<1>3. /\ Stored(P, H) /\ Adds(P) /\ Shape /\ Cap \in Nat /\ NTasks \in Nat
      /\ P \in Nat /\ H \in Nat /\ H <= P
  BY <1>2, CapAssumption, SizeAssumption DEF Handing, SchedInv
<1>4. host.i \in 1 .. NTasks + 1 /\ (host.i <= NTasks => host.pc = "add")
  BY <1>3 DEF Shape
<1>5. /\ rop[Host].fn = "none" => rop[Host].i = 0
      /\ rop[Host].fn # "none" => rop[Host].i \in {0, 1} /\ host.i <= NTasks /\ host.pc = "add"
      /\ P <= (host.i - 1) + rop[Host].i
      /\ P < Cap => P = (host.i - 1) + rop[Host].i
  BY <1>3 DEF Adds
<1>6. P <= NTasks
  <2>1. CASE rop[Host].fn = "none"
    BY <1>3, <1>4, <1>5, <2>1
  <2>2. CASE rop[Host].fn # "none"
    BY <1>3, <1>4, <1>5, <2>2
  <2> QED
    BY <2>1, <2>2
<1>7. P < Cap /\ H < Cap
  BY <1>3, <1>6 DEF Room
<1>8. P % Cap = P /\ H % Cap = H
  BY <1>3, <1>7
<1>9. head[Global] = H /\ tail[Global] = P
  BY <1>3, <1>8 DEF Stored
<1>10. host.pc # "add" => P = NTasks
  BY <1>3, <1>4, <1>5, <1>7
<1>11. host.pc = "add" /\ rop[Host].fn = "none" => count[Global] = P
  BY <1>3 DEF Adds
<1> QED
  BY <1>2, <1>3, <1>6, <1>9, <1>10, <1>11

SameRing(q) ==
  /\ buf'[q] = buf[q] /\ head'[q] = head[q] /\ tail'[q] = tail[q] /\ count'[q] = count[q]

\* While the host adds tasks the workers' queues are as they were made.
LEMMA HostHand ==
  ASSUME SchedInv, HandInv, host.pc = "add", host'.pc = "add", UNCHANGED <<wk, handed>>,
         \A w \in Workers : rop'[w] = rop[w] /\ SameRing(w), head'[Global] = head[Global]
  PROVE  HandInv'
<1>1. Shape /\ \A w \in Workers : Loops(w)
  BY DEF SchedInv
<1>2. \A w \in Workers : wk[w].pc = "unborn" /\ rop[w].fn = "none"
  BY <1>1 DEF Shape, Loops
<1>3. head'[Global] = 0
  BY DEF HandInv
<1>4. Covered'
  <2>1. \A t \in Tasks : ~(t <= 0)
    BY DEF Tasks
  <2> QED
    BY <1>3, <2>1 DEF Covered
<1>5. \A w \in Workers : Calls(w)' /\ ~Using(w)'
  BY <1>2 DEF Calls, Using
<1>6. \A w \in Workers : Level(w) /\ Untouched(w)
  BY DEF HandInv, Guarded, Drained
<1>7. ASSUME NEW w \in Workers PROVE Level(w)' /\ Untouched(w)'
  <2>1. Uncounted(w)' = 0 /\ Uncounted(w) = 0
    BY <1>2 DEF Uncounted, MyCall
  <2>2. Holds(w, count[w] + 0)'
    BY <1>6, <2>1 DEF Level, Holds, SameRing
  <2>3. Level(w)'
    BY <1>2, <2>1, <2>2 DEF Level, InCall
  <2>4. Untouched(w)'
    BY <1>2 DEF Untouched
  <2> QED
    BY <2>3, <2>4
<1>8. Counted'
  BY DEF Counted
<1> QED
  BY <1>3, <1>4, <1>5, <1>7, <1>8 DEF HandInv

\* Worker w alone takes a step.
Only(w) ==
  /\ \A v \in Workers : v # w => rop'[v] = rop[v] /\ wk'[v] = wk[v]
  /\ host'.pc # "add"
  /\ tail'[Global] = tail[Global]
  /\ head'[Global] = head[Global] \/ (~Drained /\ head'[Global] = head[Global] + 1)

\* It works on the queue of another worker only when that is not guarded.
KeepsOff(w) ==
  \A v \in Workers : v # w =>
    /\ ~Guarded(v) \/ SameRing(v)
    /\ ~Guarded(v) \/ rop'[w].fn = "none" \/ rop'[w].q # v \/ rop'[w].pc \in {"load", "done"}

\* Who is on the global queue as well waits for the lock or is done.
KeepsQueue(w) ==
  \/ SameRing(Global)
  \/ \A v \in Workers : v # w /\ Using(v) => rop[v].pc \in {"hlock", "done"}

\* What is left to show of a step of worker w.
LEMMA WorkerKeeps ==
  ASSUME SchedInv, HandInv, Room, NEW w \in Workers, Only(w), KeepsOff(w), KeepsQueue(w),
         Guarded(w)' => Guarded(w) /\ Level(w)',
         Counted', Covered', Calls(w)', Using(w)' => Portion(w)'
  PROVE  HandInv'
<1>1. Drained => Drained'
  BY DEF Only, Drained
<1>2. ASSUME NEW v \in Workers, v # w
      PROVE  Calls(v)' /\ (Using(v)' => Portion(v)')
  <2>1. rop'[v] = rop[v] /\ wk'[v] = wk[v] /\ Calls(v) /\ (Using(v) => Portion(v))
    BY <1>2 DEF Only, HandInv
  <2>2. Calls(v)'
    BY <1>1, <2>1 DEF Calls
  <2>3. ASSUME Using(v)' PROVE Portion(v)'
    <3>1. Using(v) /\ Portion(v)
      BY <2>1, <2>3 DEF Using
    <3>2. CASE SameRing(Global)
      <4>0. host.pc # "add"
        BY <3>1 DEF SchedInv, Shape, Loops
      <4>1. Drained' <=> Drained
        BY <3>2, <4>0 DEF Only, Drained, SameRing
      <4> QED
        BY <2>1, <3>1, <3>2, <4>1 DEF Portion, SameRing, Busy, Using
    <3>3. CASE rop[v].pc \in {"hlock", "done"}
      <4>1. ~Busy(v)'
        BY <2>1, <3>3 DEF Busy
      <4>2. head[Global] \in Nat /\ rop[v].i \in Nat /\ rop[v].i <= head[Global]
        BY <3>1, GlobalFacts DEF Portion
      <4>3. rop[v].i <= head'[Global]
        BY <4>2 DEF Only
      <4> QED
        BY <1>1, <2>1, <3>1, <3>3, <4>1, <4>3 DEF Portion
    <3> QED
      BY <1>2, <3>1, <3>2, <3>3 DEF KeepsQueue
  <2> QED
    BY <2>2, <2>3
<1>3. ASSUME NEW v \in Workers, v # w, Guarded(v)' PROVE Level(v)' /\ Untouched(v)'
  <2>1. rop'[v] = rop[v] /\ wk'[v] = wk[v]
    BY <1>3 DEF Only
  <2>2. Guarded(v)
    BY <1>1, <1>3, <2>1 DEF Guarded, Carries
  <2>3. Level(v) /\ Untouched(v) /\ SameRing(v)
    BY <1>3, <2>2 DEF HandInv, KeepsOff
  <2>4. Level(v)'
    <3>1. Uncounted(v)' = Uncounted(v)
      BY <2>1 DEF Uncounted, MyCall
    <3>2. Holds(v, count[v] + Uncounted(v))'
      BY <2>3, <3>1 DEF Level, Holds, SameRing
    <3>3. /\ Taking(v, rop[v])' <=> Taking(v, rop[v])
          /\ Putting(v, rop[v])' <=> Putting(v, rop[v])
          /\ Requeueing(v, rop[v])' <=> Requeueing(v, rop[v])
          /\ Sharing(v, rop[v])' <=> Sharing(v, rop[v])
      BY <2>1, <2>3 DEF Taking, Putting, Requeueing, Sharing, SameRing
    <3> QED
      BY <2>1, <2>3, <3>2, <3>3 DEF Level, InCall, SameRing
  <2>5. ASSUME NEW u \in Workers, u # v, rop'[u].fn # "none", rop'[u].q = v
        PROVE  rop'[u].pc \in {"load", "done"}
    <3>1. CASE u = w
      BY <1>3, <2>2, <2>5, <3>1 DEF KeepsOff
    <3>2. CASE u # w
      BY <2>3, <2>5, <3>2 DEF Untouched, Only
    <3> QED
      BY <3>1, <3>2
  <2> QED
    BY <2>4, <2>5 DEF Untouched
<1>4. ASSUME Guarded(w)' PROVE Level(w)' /\ Untouched(w)'
  <2>1. Untouched(w) /\ Level(w)'
    BY <1>4 DEF HandInv
  <2> QED
    BY <2>1 DEF Untouched, Only
<1>5. \A v \in Workers : Calls(v)' /\ (Using(v)' => Portion(v)')
  BY <1>2
<1>6. \A v \in Workers : Guarded(v)' => Level(v)' /\ Untouched(v)'
  BY <1>3, <1>4
<1> QED
  BY <1>5, <1>6 DEF HandInv, Only

-----------------------------------------------------------------------------
(* The steps of mcsched_loop and what is handed out *)

\* Worker w's part of a step.
OthersRest(w) == \A v \in Workers : v # w => rop'[v] = rop[v] /\ wk'[v] = wk[v]

LEMMA BeginsCall ==
  ASSUME Shape, NEW w \in Workers, NEW fn, NEW q, NEW in, NEW max, Call(w, fn, q, in, max)
  PROVE  /\ rop'[w].fn = fn /\ rop'[w].q = q /\ rop'[w].in = in /\ rop'[w].i = 0
         /\ rop'[w].out = <<>> /\ rop'[w].max = max
         /\ rop'[w].pc = IF fn \in {"push", "pop"} THEN "hlock" ELSE "load"
         /\ \A v \in Workers : v # w => rop'[v] = rop[v]
<1>1. PICK g : g = Called(fn, q, in, max)
  OBVIOUS
<1>2. rop' = [rop EXCEPT ![w] = g]
  BY <1>1 DEF Call, Called
<1>3. rop'[w] = g /\ \A v \in Workers : v # w => rop'[v] = rop[v]
  BY <1>2, Names DEF Shape
<1> QED
  BY <1>1, <1>3, CalledFields

LEMMA EndsCall ==
  ASSUME Shape, NEW w \in Workers, NoRing(w)
  PROVE  /\ rop'[w].fn = "none" /\ rop'[w].i = 0 /\ rop'[w].out = <<>> /\ rop'[w].pc = "done"
         /\ \A v \in Workers : v # w => rop'[v] = rop[v]
<1>1. PICK g : g = NoCall
  OBVIOUS
<1>2. rop' = [rop EXCEPT ![w] = g]
  BY <1>1 DEF NoRing
<1>3. rop'[w] = g /\ \A v \in Workers : v # w => rop'[v] = rop[v]
  BY <1>2, Names DEF Shape
<1> QED
  BY <1>1, <1>3, NoCallFields

LEMMA StepFields ==
  ASSUME Shape, NEW w \in Workers, NEW pc, NEW e, NEW i, Step(w, pc, e, i)
  PROVE  /\ wk'[w].pc = pc /\ wk'[w].e = e /\ wk'[w].i = i
         /\ \A v \in Workers : v # w => wk'[v] = wk[v]
<1>1. DOMAIN wk = Workers
  BY DEF Shape
<1>2. wk'[w] = [pc |-> pc, e |-> e, i |-> i]
  BY <1>1 DEF Step
<1> QED
  BY <1>1, <1>2 DEF Step

\* A step of the loop: the queues stay and a call ends or begins.
Between(w) ==
  /\ OthersRest(w)
  /\ UNCHANGED <<buf, head, tail, count, host>>
  /\ wk[w].pc # "unborn" /\ (rop[w].fn = "none" \/ rop[w].pc = "done")
  /\ rop'[w].i = 0 /\ rop'[w].pc \in {"load", "hlock", "done"}
  /\ rop'[w].fn = "none" \/ rop'[w].q \in {w, Global} \/ rop'[w].pc = "load"

LEMMA LoopHand ==
  ASSUME SchedInv, HandInv, Room, NEW w \in Workers, Between(w),
         Guarded(w)' => Guarded(w) /\ InCall(w)',
         Covered', Calls(w)', Using(w)' => Portion(w)'
  PROVE  HandInv'
<1>1. host.pc # "add"
  BY DEF SchedInv, Shape, Between
<1>2. Only(w)
  BY <1>1 DEF Between, Only, OthersRest
<1>3. \A v \in Workers : SameRing(v)
  BY DEF Between, SameRing
<1>4. KeepsOff(w)
  <2>1. \A v \in Workers : v # Global
    BY Names
  <2> QED
    BY <1>3, <2>1 DEF KeepsOff, Between
<1>5. KeepsQueue(w)
  BY DEF Between, KeepsQueue, SameRing
<1>6. Counted'
  <2>1. \A v \in Workers : Busy(v)' <=> Busy(v)
    <3>1. ~Busy(w) /\ ~Busy(w)'
      BY DEF Busy, Using, Between
    <3> QED
      BY <3>1 DEF Busy, Using, Between, OthersRest
  <2> QED
    BY <2>1 DEF Counted, HandInv, Between
<1>7. ASSUME Guarded(w)' PROVE Level(w)'
  <2>1. Level(w) /\ InCall(w)'
    BY <1>7 DEF HandInv
  <2>2. Uncounted(w) = 0 /\ Uncounted(w)' = 0
    <3>1. ~(MyCall(w) /\ rop[w].pc \notin Released)
      BY DEF MyCall, Released, Between
    <3>2. rop'[w].i = 0
      BY DEF Between
    <3>3. 0 - rop'[w].i = 0
      BY <3>2
    <3> QED
      BY <3>1, <3>2, <3>3 DEF Uncounted
  <2>3. Holds(w, count[w] + Uncounted(w))'
    BY <1>3, <2>1, <2>2 DEF Level, Holds, SameRing
  <2> QED
    BY <2>1, <2>3 DEF Level
<1> QED
  BY <1>2, <1>4, <1>5, <1>6, <1>7, WorkerKeeps

\* Without a share of worker w before or after, what left the queue is where it was.
LEMMA CoveredStays ==
  ASSUME HandInv, NEW w \in Workers, OthersRest(w), UNCHANGED <<head, handed>>,
         Using(w) => rop[w].out = <<>>
  PROVE  Covered'
<1> SUFFICES ASSUME NEW t \in Tasks, t <= head'[Global], handed'[t] # 1
             PROVE  \E v \in Workers : Using(v)' /\ \E k \in DOMAIN rop'[v].out : rop'[v].out[k] = t
  BY DEF Covered
<1>1. PICK v \in Workers : Using(v) /\ \E k \in DOMAIN rop[v].out : rop[v].out[k] = t
  BY DEF HandInv, Covered
<1>2. v # w
  BY <1>1
<1> QED
  BY <1>1, <1>2 DEF OthersRest, Using

LEMMA HandLocalHit ==
  ASSUME SchedInv, HandInv, Room, NEW w \in Workers, LocalHit(w)
  PROVE  HandInv'
<1>1. Shape /\ Calls(w)
  BY DEF SchedInv, HandInv
<1>2. /\ wk[w].pc = "local" /\ rop[w].pc = "done" /\ Result(w) # Null
      /\ Step(w, "run", Result(w), 0) /\ NoRing(w)
      /\ UNCHANGED <<buf, head, tail, count, host, handed>>
  BY DEF LocalHit, Back, Returned, ringData
<1>3. wk'[w].pc = "run" /\ wk'[w].e = Result(w) /\ \A v \in Workers : v # w => wk'[v] = wk[v]
  BY <1>1, <1>2, StepFields
<1>4. /\ rop'[w].fn = "none" /\ rop'[w].i = 0 /\ rop'[w].pc = "done"
      /\ \A v \in Workers : v # w => rop'[v] = rop[v]
  BY <1>1, <1>2, EndsCall
<1>5. Between(w)
  BY <1>2, <1>3, <1>4 DEF Between, OthersRest
<1>6. ~Using(w) /\ ~Using(w)'
  BY <1>1, <1>2, <1>4, Names DEF Using, Calls
<1>7. Covered'
  BY <1>2, <1>5, <1>6, CoveredStays DEF Between
<1>8. Calls(w)'
  BY <1>2, <1>3, <1>4 DEF Calls
<1>9. InCall(w)' /\ (Guarded(w)' => Guarded(w))
  BY <1>2, <1>3 DEF InCall, Guarded, Carries, Drained
<1> QED
  BY <1>5, <1>6, <1>7, <1>8, <1>9, LoopHand

LEMMA HandLocalMiss ==
  ASSUME SchedInv, HandInv, Room, NEW w \in Workers, LocalMiss(w)
  PROVE  HandInv'
<1>1. Shape /\ Calls(w)
  BY DEF SchedInv, HandInv
<1>2. /\ wk[w].pc = "local" /\ rop[w].pc = "done" /\ Result(w) = Null
      /\ Step(w, "global", Null, 0)
      /\ Call(w, "pop", Global, <<>>, (count[Global] \div NCore) + 1)
      /\ UNCHANGED <<buf, head, tail, count, host, handed>>
  BY DEF LocalMiss, Back, Returned, ringData
<1>3. wk'[w].pc = "global" /\ \A v \in Workers : v # w => wk'[v] = wk[v]
  BY <1>1, <1>2, StepFields
<1>4. PICK m : m = (count[Global] \div NCore) + 1
  OBVIOUS
<1>5. /\ rop'[w].fn = "pop" /\ rop'[w].q = Global /\ rop'[w].i = 0 /\ rop'[w].pc = "hlock"
      /\ rop'[w].out = <<>> /\ rop'[w].max = m
      /\ \A v \in Workers : v # w => rop'[v] = rop[v]
  <2>1. Call(w, "pop", Global, <<>>, m)
    BY <1>2, <1>4
  <2> QED
    BY <1>1, <2>1, BeginsCall
<1>6. Between(w)
  BY <1>2, <1>3, <1>5 DEF Between, OthersRest
<1>7. ~Using(w)
  BY <1>1, <1>2, Names DEF Using, Calls
<1>8. Covered'
  BY <1>2, <1>6, <1>7, CoveredStays DEF Between
<1>9. Calls(w)'
  BY <1>2, <1>3, <1>5 DEF Calls
<1>10. Guarded(w)' => Guarded(w)
  BY <1>2, <1>3, <1>5 DEF Guarded, Carries, Drained
<1>11. ASSUME Guarded(w) PROVE InCall(w)'
  <2>1. Taking(w, rop[w])
    BY <1>2, <1>11 DEF HandInv, Level, InCall
  <2>2. rop[w].out = <<>>
    BY <1>2, <2>1 DEF Result, Taking
  <2>3. count[w] = 0
    BY <1>2, <2>1, <2>2 DEF Taking
  <2> QED
    BY <1>2, <1>3, <2>3 DEF InCall
<1>12. m \in Nat /\ m >= 1
  <2>1. count[Global] \in Nat
    <3>1. host.pc # "add"
      BY <1>1, <1>2 DEF Shape
    <3>2. /\ head[Global] \in Nat /\ tail[Global] \in Nat /\ head[Global] <= tail[Global]
      BY GlobalFacts
    <3>3. CASE \A v \in Workers : ~Busy(v)
      BY <3>1, <3>2, <3>3 DEF HandInv, Counted
    <3>4. CASE \E v \in Workers : Busy(v)
      <4>1. PICK v \in Workers : Busy(v)
        BY <3>4
      <4>2. rop[v].i \in Nat /\ count[Global] = (tail[Global] - head[Global]) + rop[v].i
        BY <4>1 DEF HandInv, Portion, Busy
      <4> QED
        BY <3>2, <4>2
    <3> QED
      BY <3>3, <3>4
  <2>2. count[Global] \div NCore \in Nat
    BY <2>1, CoreAssumption
  <2> QED
    BY <1>4, <2>2
<1>13. Portion(w)'
  <2>1. head'[Global] \in Nat
    BY <1>2, GlobalFacts
  <2>2. DOMAIN rop'[w].out = {} /\ Len(rop'[w].out) = 0
    BY <1>5
  <2>3. ~Busy(w)'
    BY <1>5 DEF Busy
  <2>4. /\ rop'[w].pc \notin {"index", "move"} /\ rop'[w].pc \notin {"slot", "index", "move"}
        /\ rop'[w].pc \notin {"add", "tunlock", "hunlock", "done"}
    BY <1>5
  <2> QED
    BY <1>5, <1>12, <2>1, <2>2, <2>3, <2>4 DEF Portion
<1> QED
  BY <1>6, <1>8, <1>9, <1>10, <1>11, <1>13, LoopHand

LEMMA HandGlobalHit ==
  ASSUME SchedInv, HandInv, Room, NEW w \in Workers, GlobalHit(w)
  PROVE  HandInv'
<1>1. Shape /\ Calls(w) /\ Loops(w)
  BY DEF SchedInv, HandInv
<1>2. PICK got : got = rop[w].out
  OBVIOUS
<1>3. /\ wk[w].pc = "global" /\ rop[w].pc = "done" /\ got # <<>>
      /\ Step(w, "push", Null, 0) /\ Call(w, "push", w, got, 0)
      /\ UNCHANGED <<buf, head, tail, count, host>> /\ HandsOut(w)
  BY <1>2 DEF GlobalHit, Back, Returned, ringData, HandsOut
<1>4. wk'[w].pc = "push" /\ \A v \in Workers : v # w => wk'[v] = wk[v]
  BY <1>1, <1>3, StepFields
<1>5. /\ rop'[w].fn = "push" /\ rop'[w].q = w /\ rop'[w].i = 0 /\ rop'[w].pc = "hlock"
      /\ rop'[w].in = got
      /\ \A v \in Workers : v # w => rop'[v] = rop[v]
  BY <1>1, <1>3, BeginsCall
<1>6. Between(w)
  BY <1>3, <1>4, <1>5 DEF Between, OthersRest
<1>7. Using(w) /\ ~Using(w)'
  BY <1>1, <1>3, <1>5, Names DEF Using, Loops
<1>8. Portion(w)
  BY <1>7 DEF HandInv
<1>9. ASSUME NEW t \in Tasks, t <= head[Global], handed'[t] # 1
      PROVE  \E v \in Workers : Using(v)' /\ \E k \in DOMAIN rop'[v].out : rop'[v].out[k] = t
  <2>1. handed \in [Tasks -> Nat] /\ SchedInv'
    <3>1. SchedInv'
      BY LoopShare
    <3> QED
      BY <1>1, <3>1 DEF Shape
  <2>2. handed'[t] \in Nat /\ handed'[t] <= 1
    <3>1. PICK H : Once(H)'
      BY <2>1 DEF SchedInv, Handing
    <3>2. handed'[t] \in Nat
      BY <2>1 DEF SchedInv, Shape
    <3> QED
      BY <3>1, <3>2 DEF Once
  <2>3. handed'[t] = 0
    BY <1>9, <2>2
  <2>4. handed[t] = 0 /\ ~\E k \in DOMAIN rop[w].out : rop[w].out[k] = t
    <3>1. handed'[t] = handed[t] + (IF \E k \in DOMAIN rop[w].out : rop[w].out[k] = t THEN 1 ELSE 0)
      BY <1>3 DEF HandsOut
    <3>2. handed[t] \in Nat
      BY <2>1
    <3> QED
      BY <2>3, <3>1, <3>2
  <2>5. PICK v \in Workers : Using(v) /\ \E k \in DOMAIN rop[v].out : rop[v].out[k] = t
    BY <1>9, <2>4 DEF HandInv, Covered
  <2>6. v # w
    BY <2>4, <2>5
  <2> QED
    BY <1>5, <2>5, <2>6 DEF Using
<1>10. Covered'
  BY <1>3, <1>9 DEF Covered
<1>11. "hlock" \notin Released
  BY DEF Released
<1>12. Calls(w)'
  BY <1>3, <1>4, <1>5, <1>11 DEF Calls
<1>13. Guarded(w)' => Guarded(w)
  BY <1>2, <1>3 DEF Guarded, Carries, Drained
<1>14. ASSUME Guarded(w) PROVE InCall(w)'
  <2>1. count[w] = 0
    BY <1>3, <1>14 DEF HandInv, Level, InCall
  <2>2. got \in Seq(Int)
    <3>1. Share(w, tail[Global], head[Global])
      BY <1>7, GlobalFacts DEF Handing
    <3> QED
      BY <1>2, <3>1 DEF Share
  <2>3. Len(got) \in 1 .. Cap
    <3>1. Len(got) \in Nat /\ Len(got) # 0
      BY <1>3, <2>2, EmptySeq
    <3>2. Len(got) <= head[Global]
      BY <1>2, <1>3, <1>8 DEF Portion
    <3>3. /\ head[Global] \in Nat /\ tail[Global] \in Nat /\ head[Global] <= tail[Global]
          /\ tail[Global] <= NTasks /\ NTasks \in Nat /\ Cap \in Nat
      BY GlobalFacts, SizeAssumption, CapAssumption
    <3> QED
      BY <3>1, <3>2, <3>3 DEF Room
  <2>4. \A k \in DOMAIN got : got[k] # Null
    BY <1>2, <1>8, NullAssumption, NamesAssumption DEF Portion
  <2>5. Putting(w, rop[w])'
    BY <1>5, <2>4 DEF Putting
  <2>6. Sharing(w, rop[w])'
    BY <1>3, <1>5, <1>11, <2>1, <2>3 DEF Sharing
  <2> QED
    BY <1>4, <2>5, <2>6 DEF InCall
<1> QED
  BY <1>6, <1>7, <1>10, <1>12, <1>13, <1>14, LoopHand

LEMMA HandSteal ==
  ASSUME SchedInv, HandInv, Room, NEW w \in Workers, NEW i \in 0 .. NCore, NEW e,
         StealFrom(w, i, e), wk[w].pc \in {"global", "steal"}, rop[w].pc = "done",
         Using(w) => rop[w].out = <<>>, Drained,
         UNCHANGED <<buf, head, tail, count, host, handed>>
  PROVE  HandInv'
<1>1. Shape /\ Calls(w) /\ Drained'
  BY DEF SchedInv, HandInv, Drained
<1>2. PICK v : v = Victim(w, i)
  OBVIOUS
<1>3. v \in i .. NCore /\ v # w /\ NCore \in Nat
  BY <1>2, VictimExists, CoreAssumption
<1>4. CASE v < NCore
  <2>1. v \in Workers /\ NCore # 1
    BY <1>3, <1>4 DEF Workers
  <2>2. Step(w, "steal", e, v) /\ Call(w, "pop_back", v, <<>>, 1)
    BY <1>2, <1>4 DEF StealFrom
  <2>3. wk'[w].pc = "steal" /\ \A u \in Workers : u # w => wk'[u] = wk[u]
    BY <1>1, <2>2, StepFields
  <2>4. /\ rop'[w].fn = "pop_back" /\ rop'[w].q = v /\ rop'[w].i = 0 /\ rop'[w].pc = "load"
        /\ \A u \in Workers : u # w => rop'[u] = rop[u]
    BY <1>1, <2>2, BeginsCall
  <2>5. Between(w)
    BY <2>3, <2>4 DEF Between, OthersRest
  <2>6. Covered'
    BY <2>5, CoveredStays DEF Between
  <2>7. Calls(w)' /\ ~Using(w)'
    BY <1>1, <1>3, <2>1, <2>3, <2>4, Names DEF Calls, Using
  <2>8. ~Guarded(w)'
    BY <1>1, <2>1, <2>3 DEF Guarded, Carries
  <2> QED
    BY <2>5, <2>6, <2>7, <2>8, LoopHand
<1>5. CASE ~(v < NCore)
  <2>1. PICK pc \in {"exit", "run"} : Step(w, pc, e, 0) /\ NoRing(w) /\ (pc = "run" => e # Null)
    BY <1>2, <1>5 DEF StealFrom
  <2>2. wk'[w].pc = pc /\ wk'[w].e = e /\ \A u \in Workers : u # w => wk'[u] = wk[u]
    BY <1>1, <2>1, StepFields
  <2>3. /\ rop'[w].fn = "none" /\ rop'[w].i = 0 /\ rop'[w].pc = "done"
        /\ \A u \in Workers : u # w => rop'[u] = rop[u]
    BY <1>1, <2>1, EndsCall
  <2>4. Between(w)
    BY <2>2, <2>3 DEF Between, OthersRest
  <2>5. Covered'
    BY <2>4, CoveredStays DEF Between
  <2>6. Calls(w)' /\ ~Using(w)'
    BY <1>1, <2>1, <2>2, <2>3 DEF Calls, Using
  <2>7. InCall(w)' /\ (Guarded(w)' => Guarded(w))
    BY <1>1, <2>1, <2>2 DEF InCall, Guarded, Carries
  <2> QED
    BY <2>4, <2>5, <2>6, <2>7, LoopHand
<1> QED
  BY <1>4, <1>5

LEMMA HandGlobalMiss ==
  ASSUME SchedInv, HandInv, Room, NEW w \in Workers, GlobalMiss(w)
  PROVE  HandInv'
<1>1. /\ wk[w].pc = "global" /\ rop[w].pc = "done" /\ rop[w].out = <<>>
      /\ StealFrom(w, 0, Null) /\ UNCHANGED <<buf, head, tail, count, host, handed>>
  BY DEF GlobalMiss, Back, Returned, ringData
<1>2. Using(w)
  BY <1>1 DEF SchedInv, Loops
<1>3. Drained
  BY <1>1, <1>2 DEF HandInv, Portion
<1>4. 0 \in 0 .. NCore
  BY CoreAssumption
<1> QED
  BY <1>1, <1>3, <1>4, HandSteal

LEMMA HandStolen ==
  ASSUME SchedInv, HandInv, Room, NEW w \in Workers, Stolen(w)
  PROVE  HandInv'
<1>1. /\ wk[w].pc = "steal" /\ rop[w].pc = "done"
      /\ StealFrom(w, wk[w].i + 1, Result(w)) /\ UNCHANGED <<buf, head, tail, count, host, handed>>
  BY DEF Stolen, Back, Returned, ringData
<1>2. Drained /\ ~Using(w) /\ wk[w].i \in Workers
  BY <1>1 DEF SchedInv, HandInv, Loops, Calls
<1>3. wk[w].i + 1 \in 0 .. NCore
  BY <1>2, CoreAssumption DEF Workers
<1> QED
  BY <1>1, <1>2, <1>3, HandSteal

\* Worker w goes on to ring_pop_one on its own queue.
LEMMA HandTake ==
  ASSUME SchedInv, HandInv, Room, NEW w \in Workers, NEW pc \in {"local", "again"},
         Step(w, pc, Null, 0), Call(w, "pop_one", w, <<>>, 1),
         wk[w].pc \in {"run", "requeue", "push"}, rop[w].fn = "none" \/ rop[w].pc = "done",
         pc = "again" /\ Guarded(w) => count[w] >= 1,
         UNCHANGED <<buf, head, tail, count, host, handed>>
  PROVE  HandInv'
<1>1. Shape /\ Calls(w)
  BY DEF SchedInv, HandInv
<1>2. wk'[w].pc = pc /\ \A v \in Workers : v # w => wk'[v] = wk[v]
  BY <1>1, StepFields
<1>3. /\ rop'[w].fn = "pop_one" /\ rop'[w].q = w /\ rop'[w].i = 0 /\ rop'[w].pc = "load"
      /\ rop'[w].out = <<>> /\ \A v \in Workers : v # w => rop'[v] = rop[v]
  BY <1>1, BeginsCall
<1>4. Between(w)
  BY <1>2, <1>3 DEF Between, OthersRest
<1>5. ~Using(w) /\ ~Using(w)'
  BY <1>1, <1>3, Names DEF Using, Calls
<1>6. Covered'
  BY <1>4, <1>5, CoveredStays DEF Between
<1>7. Calls(w)'
  BY <1>2, <1>3 DEF Calls
<1>8. Guarded(w)' => Guarded(w)
  BY <1>2 DEF Guarded, Carries, Drained
<1>9. ASSUME Guarded(w) PROVE InCall(w)'
  <2>1. Taking(w, rop[w])'
    BY <1>2, <1>3, <1>9 DEF Taking, Released
  <2> QED
    BY <1>2, <2>1 DEF InCall
<1> QED
  BY <1>4, <1>5, <1>6, <1>7, <1>8, <1>9, LoopHand

LEMMA HandRunExit ==
  ASSUME SchedInv, HandInv, Room, NEW w \in Workers, RunExit(w) \/ Requeued(w)
  PROVE  HandInv'
<1>1. Calls(w) /\ UNCHANGED <<buf, head, tail, count, host, handed>>
  BY DEF HandInv, RunExit, Requeued, ringData
<1>2. /\ wk[w].pc \in {"run", "requeue"} /\ (rop[w].fn = "none" \/ rop[w].pc = "done")
      /\ Step(w, "local", Null, 0) /\ Call(w, "pop_one", w, <<>>, 1)
  BY <1>1 DEF RunExit, Requeued, Back, Returned, Calls
<1>3. "local" \in {"local", "again"}
  OBVIOUS
<1> QED
  BY <1>1, <1>2, <1>3, HandTake

LEMMA HandPushDone ==
  ASSUME SchedInv, HandInv, Room, NEW w \in Workers, PushDone(w)
  PROVE  HandInv'
<1>1. /\ Calls(w) /\ UNCHANGED <<buf, head, tail, count, host, handed>>
      /\ wk[w].pc = "push" /\ rop[w].pc = "done"
  BY DEF HandInv, PushDone, Back, Returned, ringData
<1>2. rop[w].pc \in Released
  BY <1>1 DEF Released
<1>3. rop[w].i = Len(rop[w].in)
  BY <1>1, <1>2 DEF Calls
<1>4. Step(w, "again", Null, 0) /\ Call(w, "pop_one", w, <<>>, 1)
  BY <1>3 DEF PushDone
<1>5. Guarded(w) => count[w] >= 1
  BY <1>1, <1>2 DEF HandInv, Level, InCall, Sharing
<1>6. "again" \in {"local", "again"}
  OBVIOUS
<1> QED
  BY <1>1, <1>4, <1>5, <1>6, HandTake

LEMMA HandAgain ==
  ASSUME SchedInv, HandInv, Room, NEW w \in Workers, Again(w)
  PROVE  HandInv'
<1>1. Shape /\ Calls(w)
  BY DEF SchedInv, HandInv
<1>2. /\ wk[w].pc = "again" /\ rop[w].pc = "done" /\ NoRing(w)
      /\ UNCHANGED <<buf, head, tail, count, host, handed>>
  BY DEF Again, Back, Returned, ringData
<1>3. PICK pc : pc = IF Result(w) = Null THEN "exit" ELSE "run"
  OBVIOUS
<1>4. Step(w, pc, Result(w), 0)
  BY <1>3 DEF Again
<1>5. wk'[w].pc = pc /\ wk'[w].e = Result(w) /\ \A v \in Workers : v # w => wk'[v] = wk[v]
  BY <1>1, <1>4, StepFields
<1>6. /\ rop'[w].fn = "none" /\ rop'[w].i = 0 /\ rop'[w].pc = "done"
      /\ \A v \in Workers : v # w => rop'[v] = rop[v]
  BY <1>1, <1>2, EndsCall
<1>7. Between(w)
  BY <1>2, <1>5, <1>6 DEF Between, OthersRest
<1>8. ~Using(w) /\ ~Using(w)'
  BY <1>1, <1>2, <1>6, Names DEF Using, Calls
<1>9. Covered'
  BY <1>2, <1>7, <1>8, CoveredStays DEF Between
<1>10. Result(w) = Null => Drained
  <2> SUFFICES ASSUME ~Drained PROVE Result(w) # Null
    OBVIOUS
  <2>1. Taking(w, rop[w])
    BY <1>2 DEF HandInv, Level, InCall, Guarded
  <2>2. rop[w].out # <<>> /\ rop[w].out[1] # Null
    BY <1>2, <2>1 DEF Taking
  <2> QED
    BY <2>2 DEF Result
<1>11. Drained' <=> Drained
  BY <1>2 DEF Drained
<1>12. Calls(w)'
  BY <1>3, <1>5, <1>6, <1>10, <1>11 DEF Calls
<1>13. InCall(w)' /\ (Guarded(w)' => Guarded(w))
  BY <1>3, <1>5, <1>11 DEF InCall, Guarded, Carries
<1> QED
  BY <1>7, <1>8, <1>9, <1>12, <1>13, LoopHand

LEMMA HandRunYield ==
  ASSUME SchedInv, HandInv, Room, NEW w \in Workers, RunYield(w)
  PROVE  HandInv'
<1>1. Shape /\ Calls(w)
  BY DEF SchedInv, HandInv
<1>2. PICK in : in = <<wk[w].e>>
  OBVIOUS
<1>3. /\ wk[w].pc = "run" /\ Step(w, "requeue", Null, 0) /\ Call(w, "push_one", w, in, 0)
      /\ UNCHANGED <<buf, head, tail, count, host, handed>>
  BY <1>2 DEF RunYield, ringData
<1>4. rop[w].fn = "none" /\ wk[w].e # Null
  BY <1>1, <1>3 DEF Calls
<1>5. wk'[w].pc = "requeue" /\ \A v \in Workers : v # w => wk'[v] = wk[v]
  BY <1>1, <1>3, StepFields
<1>6. /\ rop'[w].fn = "push_one" /\ rop'[w].q = w /\ rop'[w].i = 0 /\ rop'[w].pc = "load"
      /\ rop'[w].in = in /\ \A v \in Workers : v # w => rop'[v] = rop[v]
  BY <1>1, <1>3, BeginsCall
<1>7. Between(w)
  BY <1>3, <1>4, <1>5, <1>6 DEF Between, OthersRest
<1>8. ~Using(w) /\ ~Using(w)'
  BY <1>4, <1>6, Names DEF Using
<1>9. Covered'
  BY <1>3, <1>7, <1>8, CoveredStays DEF Between
<1>10. Calls(w)'
  BY <1>5, <1>6 DEF Calls
<1>11. Guarded(w)' => Guarded(w)
  BY <1>3, <1>5 DEF Guarded, Carries, Drained
<1>12. InCall(w)'
  <2>1. Len(in) = 1 /\ \A k \in DOMAIN in : in[k] # Null
    BY <1>2, <1>4
  <2>2. Putting(w, rop[w])' /\ Requeueing(w, rop[w])'
    BY <1>6, <2>1 DEF Putting, Requeueing, Released
  <2> QED
    BY <1>5, <2>2 DEF InCall
<1> QED
  BY <1>7, <1>8, <1>9, <1>10, <1>11, <1>12, LoopHand

LEMMA HandLoop ==
  ASSUME SchedInv, HandInv, Room, NEW w \in Workers, mcsched_loop(w)
  PROVE  HandInv'
  BY HandLocalHit, HandLocalMiss, HandGlobalHit, HandGlobalMiss, HandPushDone, HandAgain,
     HandStolen, HandRunExit, HandRunYield DEF mcsched_loop

-----------------------------------------------------------------------------
(* The steps of the host and what is handed out *)

LEMMA HandStart ==
  ASSUME SchedInv, HandInv, Room, mcshed_start
  PROVE  HandInv'
<1>1. Shape
  BY DEF SchedInv
<1>2. PICK w \in Workers : /\ wk[w].pc = "unborn" /\ wk' = [wk EXCEPT ![w].pc = "local"]
                           /\ Call(w, "pop_one", w, <<>>, 1)
  BY DEF mcshed_start
<1>3. /\ UNCHANGED <<buf, head, tail, count, handed>> /\ host.i > NTasks
      /\ host.pc \in {"add", "start"} /\ host'.pc # "add"
  BY <1>1 DEF mcshed_start, ringData, Shape
<1>4. wk'[w].pc = "local" /\ \A v \in Workers : v # w => wk'[v] = wk[v]
  <2>1. Loops(w) /\ DOMAIN wk = Workers
    BY DEF SchedInv, Shape
  <2> QED
    BY <1>2, <2>1 DEF Loops
<1>5. /\ rop'[w].fn = "pop_one" /\ rop'[w].q = w /\ rop'[w].i = 0 /\ rop'[w].pc = "load"
      /\ rop'[w].out = <<>> /\ \A v \in Workers : v # w => rop'[v] = rop[v]
  BY <1>1, <1>2, BeginsCall
<1>6. Calls(w) /\ rop[w].fn = "none"
  BY <1>2 DEF HandInv, Calls
<1>7. \A q : SameRing(q)
  BY <1>3 DEF SameRing
<1>8. Only(w) /\ KeepsQueue(w)
  BY <1>3, <1>4, <1>5, <1>7 DEF Only, KeepsQueue
<1>9. KeepsOff(w)
  BY <1>5, <1>7 DEF KeepsOff
<1>10. OthersRest(w) /\ ~Using(w) /\ ~Using(w)'
  BY <1>4, <1>5, <1>6, Names DEF OthersRest, Using
<1>11. Covered'
  BY <1>3, <1>10, CoveredStays
<1>12. Counted'
  <2>1. \A v \in Workers : Busy(v)' <=> Busy(v)
    BY <1>5, <1>10 DEF Busy, Using
  <2>2. CASE host.pc # "add"
    BY <1>3, <2>1, <2>2 DEF HandInv, Counted
  <2>3. CASE host.pc = "add"
    <3>1. head[Global] = 0
      BY <2>3 DEF HandInv
    <3>2. rop[Host].fn = "none"
      <4>1. PICK P : Adds(P)
        BY DEF SchedInv, Handing
      <4>2. host.i \in 1 .. NTasks + 1
        BY <1>1 DEF Shape
      <4> QED
        BY <1>3, <4>1, <4>2, SizeAssumption DEF Adds
    <3>3. count[Global] = tail[Global] /\ tail[Global] \in Nat
      BY <2>3, <3>2, GlobalFacts
    <3> QED
      BY <1>3, <3>1, <3>3 DEF Counted
  <2> QED
    BY <2>2, <2>3
<1>13. Calls(w)'
  BY <1>4, <1>5 DEF Calls
<1>14. ASSUME Guarded(w)' PROVE Guarded(w) /\ Level(w)'
  <2>1. Guarded(w)
    BY <1>3, <1>4, <1>14 DEF Guarded, Carries, Drained
  <2>2. Level(w)
    BY <2>1 DEF HandInv
  <2>3. Uncounted(w) = 0 /\ Uncounted(w)' = 0
    <3>1. ~MyCall(w)
      BY <1>6 DEF MyCall
    <3>2. 0 - rop'[w].i = 0
      BY <1>5
    <3> QED
      BY <1>5, <3>1, <3>2 DEF Uncounted
  <2>4. Holds(w, count[w] + Uncounted(w))'
    BY <1>7, <2>2, <2>3 DEF Level, Holds, SameRing
  <2>5. Taking(w, rop[w])'
    BY <1>4, <1>5 DEF Taking, Released
  <2> QED
    BY <1>4, <2>1, <2>4, <2>5 DEF Level, InCall
<1> QED
  BY <1>8, <1>9, <1>10, <1>11, <1>12, <1>13, <1>14, WorkerKeeps

LEMMA HandJoin ==
  ASSUME SchedInv, HandInv, mcsched_join
  PROVE  HandInv'
<1>1. /\ host.pc = "join" /\ host'.pc = "done"
      /\ UNCHANGED <<buf, head, tail, count, rop, wk, handed>>
  BY DEF mcsched_join, ringVars, SchedInv, Shape
<1>2. Drained' <=> Drained
  BY <1>1 DEF Drained
<1>3. Covered' /\ Counted'
  BY <1>1 DEF HandInv, Covered, Counted, Busy, Using
<1>4. ASSUME NEW w \in Workers PROVE Calls(w)' /\ (Using(w)' => Portion(w)')
  <2>1. Calls(w) /\ (Using(w) => Portion(w))
    BY DEF HandInv
  <2>2. Calls(w)'
    BY <1>1, <1>2, <2>1 DEF Calls
  <2>3. Using(w)' => Portion(w)'
    BY <1>1, <1>2, <2>1 DEF Portion, Busy, Using
  <2> QED
    BY <2>2, <2>3
<1>5. ASSUME NEW w \in Workers, Guarded(w)' PROVE Level(w)' /\ Untouched(w)'
  <2>1. Guarded(w)
    BY <1>1, <1>2, <1>5 DEF Guarded, Carries
  <2>2. Level(w) /\ Untouched(w)
    BY <2>1 DEF HandInv
  <2>3. Level(w)'
    <3>1. Uncounted(w)' = Uncounted(w)
      BY <1>1 DEF Uncounted, MyCall
    <3>2. Holds(w, count[w] + Uncounted(w))'
      BY <1>1, <2>2, <3>1 DEF Level, Holds
    <3>3. /\ Taking(w, rop[w])' <=> Taking(w, rop[w])
          /\ Putting(w, rop[w])' <=> Putting(w, rop[w])
          /\ Requeueing(w, rop[w])' <=> Requeueing(w, rop[w])
          /\ Sharing(w, rop[w])' <=> Sharing(w, rop[w])
      BY <1>1 DEF Taking, Putting, Requeueing, Sharing
    <3> QED
      BY <1>1, <2>2, <3>2, <3>3 DEF Level, InCall
  <2>4. Untouched(w)'
    BY <1>1, <2>2 DEF Untouched
  <2> QED
    BY <2>3, <2>4
<1> QED
  BY <1>1, <1>3, <1>4, <1>5 DEF HandInv

LEMMA HandAdd ==
  ASSUME SchedInv, HandInv, Room, mcsched_add \/ mcsched_add_return
  PROVE  HandInv'
<1>1. Shape
  BY DEF SchedInv
<1>2. /\ UNCHANGED <<buf, head, tail, count, wk, handed>> /\ host'.pc = host.pc
      /\ \E g : rop' = [rop EXCEPT ![Host] = g]
  BY <1>1 DEF mcsched_add, mcsched_add_return, ringData, Call, Shape
<1>3. host.pc = "add"
  <2>1. CASE mcsched_add
    BY <2>1 DEF mcsched_add
  <2>2. CASE mcsched_add_return
    <3>1. PICK P : Adds(P)
      BY DEF SchedInv, Handing
    <3> QED
      BY <2>2, <3>1 DEF Adds, mcsched_add_return, Returned
  <2> QED
    BY <2>1, <2>2
<1>4. \A w \in Workers : rop'[w] = rop[w] /\ SameRing(w)
  BY <1>1, <1>2, Names DEF SameRing, Shape
<1> QED
  BY <1>2, <1>3, <1>4, HostHand

LEMMA HandHostRing ==
  ASSUME SchedInv, HandInv, Room, InRing(Host)
  PROVE  HandInv'
<1>1. Shape /\ Host \in Procs
  BY Names DEF SchedInv
<1>2. RingStep(Host) /\ UNCHANGED <<wk, host, handed>>
  BY DEF InRing
<1>3. rop[Host].fn # "none"
  BY <1>2 DEF RingStep, Load, LockHead, LockTail, Check, Loop, Slot, LoadIndex, MoveIndex,
              Add, UnlockTail, UnlockHead, At
<1>4. rop[Host].fn = "push_one" /\ rop[Host].q = Global /\ host.pc = "add"
  <2>1. PICK P : Adds(P)
    BY DEF SchedInv, Handing
  <2> QED
    BY <1>3, <2>1 DEF Adds
<1>5. Elsewhere(Global)
  BY <1>1, <1>2, <1>4, RingElsewhere
<1>6. PICK g : Becomes(Host, g)
  BY <1>1, <1>2, RingFrame
<1>7. \A w \in Workers : rop'[w] = rop[w] /\ SameRing(w)
  BY <1>1, <1>5, <1>6, Names DEF Elsewhere, SameRing, Becomes, Shape
<1>8. head' = head
  BY <1>2, <1>4 DEF RingStep, Load, LockHead, LockTail, Check, Loop, Slot, LoadIndex, MoveIndex,
              Add, UnlockTail, UnlockHead, AtTail
<1> QED
  BY <1>2, <1>4, <1>7, <1>8, HostHand

-----------------------------------------------------------------------------
(* A worker inside a function on its own queue *)

\* Of worker w's activation only the position changes.
Moves(w, pc) ==
  /\ rop'[w].pc = pc /\ rop'[w].fn = rop[w].fn /\ rop'[w].q = rop[w].q /\ rop'[w].in = rop[w].in
  /\ rop'[w].max = rop[w].max /\ rop'[w].i = rop[w].i /\ rop'[w].reg = rop[w].reg
  /\ rop'[w].out = rop[w].out

LEMMA MovesTo ==
  ASSUME Shape, NEW w \in Workers, NEW pc, rop' = [rop EXCEPT ![w].pc = pc]
  PROVE  Moves(w, pc)
<1>1. Frame(rop[w]) /\ DOMAIN rop = Procs /\ w \in Procs
  BY Names DEF Shape
<1>2. PICK g : g = WithPc(rop[w], pc)
  OBVIOUS
<1>3. rop'[w] = g
  BY <1>1, <1>2 DEF WithPc
<1> QED
  BY <1>1, <1>2, <1>3, SetPc DEF Moves, Same

\* The steps that leave the array, the indices and the count alone.
LEMMA QuietSteps ==
  ASSUME Shape, NEW w \in Workers, NEW q, q = rop[w].q
  PROVE  /\ Load(w) =>
              /\ UNCHANGED <<buf, head, tail, count>> /\ rop[w].pc = "load"
              /\ QuickFail(rop[w].fn, count[q]) => Moves(w, "done")
              /\ ~QuickFail(rop[w].fn, count[q]) =>
                   Moves(w, IF "h" \in Need(rop[w].fn, count[q]) THEN "hlock" ELSE "tlock")
         /\ LockHead(w) =>
              /\ UNCHANGED <<buf, head, tail, count>> /\ rop[w].pc = "hlock"
              /\ Moves(w, IF "t" \in rop[w].need THEN "tlock" ELSE Entered(rop[w].fn))
         /\ LockTail(w) =>
              /\ UNCHANGED <<buf, head, tail, count>> /\ rop[w].pc = "tlock"
              /\ Moves(w, Entered(rop[w].fn))
         /\ Check(w) =>
              /\ UNCHANGED <<buf, head, tail, count>> /\ rop[w].pc = "check"
              /\ Moves(w, IF StillFails(rop[w].fn, count[q]) THEN FirstUnlock(rop[w])
                          ELSE IF rop[w].fn = "pop_back" THEN "index" ELSE "slot")
         /\ Loop(w) =>
              /\ UNCHANGED <<buf, head, tail, count>> /\ rop[w].pc = "loop"
              /\ Moves(w, IF LoopGoes(rop[w]) THEN "slot" ELSE "add")
         /\ UnlockTail(w) =>
              /\ UNCHANGED <<buf, head, tail, count>> /\ rop[w].pc = "tunlock"
              /\ Moves(w, IF "h" \in Release(rop[w].fn, rop[w].need) THEN "hunlock" ELSE "done")
         /\ UnlockHead(w) =>
              /\ UNCHANGED <<buf, head, tail, count>> /\ rop[w].pc = "hunlock"
              /\ Moves(w, "done")
<1>1. Frame(rop[w]) /\ DOMAIN rop = Procs /\ w \in Procs
  BY Names DEF Shape
<1>2. ASSUME Load(w), ~QuickFail(rop[w].fn, count[q])
      PROVE  Moves(w, IF "h" \in Need(rop[w].fn, count[q]) THEN "hlock" ELSE "tlock")
  <2>1. PICK n, v : /\ v = IF "h" \in Need(rop[w].fn, count[q]) THEN "hlock" ELSE "tlock"
                    /\ rop' = [rop EXCEPT ![w].need = n, ![w].pc = v]
    BY <1>2 DEF Load
  <2>2. PICK g : g = NeedPc(rop[w], n, v)
    OBVIOUS
  <2>3. rop'[w] = g
    BY <1>1, <2>1, <2>2 DEF NeedPc
  <2> QED
    BY <1>1, <2>1, <2>2, <2>3, SetNeedPc DEF Moves, Same
<1>3. Load(w) /\ QuickFail(rop[w].fn, count[q]) => Moves(w, "done")
  BY MovesTo DEF Load
<1> QED
  BY <1>2, <1>3, MovesTo DEF Load, LockHead, LockTail, Check, Loop, UnlockTail, UnlockHead, Goto, At

\* The access to the array, the load of the index, its store, the count.
LEMMA SlotPop ==
  ASSUME Shape, NEW w \in Workers, Slot(w), rop[w].fn \in {"pop_one", "pop"}
  PROVE  /\ UNCHANGED <<buf, head, tail, count>> /\ rop[w].pc = "slot"
         /\ rop'[w].pc = "index" /\ rop'[w].fn = rop[w].fn /\ rop'[w].q = rop[w].q
         /\ rop'[w].in = rop[w].in /\ rop'[w].max = rop[w].max /\ rop'[w].i = rop[w].i
         /\ rop'[w].out = Append(rop[w].out, buf[rop[w].q][head[rop[w].q]])
<1>1. Frame(rop[w]) /\ DOMAIN rop = Procs /\ w \in Procs
  BY Names DEF Shape
<1>2. PICK x : x = Append(rop[w].out, buf[rop[w].q][head[rop[w].q]])
  OBVIOUS
<1>3. rop' = [rop EXCEPT ![w].out = x, ![w].pc = "index"]
  BY <1>2 DEF Slot, Pushes, AtTail
<1>4. PICK g : g = OutPc(rop[w], x, "index")
  OBVIOUS
<1>5. rop'[w] = g
  BY <1>1, <1>3, <1>4 DEF OutPc
<1>6. UNCHANGED <<buf, head, tail, count>> /\ rop[w].pc = "slot"
  BY DEF Slot, Pushes, At
<1>7. /\ rop'[w].pc = "index" /\ rop'[w].fn = rop[w].fn /\ rop'[w].q = rop[w].q
      /\ rop'[w].in = rop[w].in /\ rop'[w].max = rop[w].max /\ rop'[w].i = rop[w].i
      /\ rop'[w].out = x
  BY <1>1, <1>4, <1>5, SetOutPc DEF Same
<1> QED
  BY <1>2, <1>6, <1>7

LEMMA SlotPush ==
  ASSUME Shape, NEW w \in Workers, Slot(w), Pushes(rop[w].fn)
  PROVE  /\ UNCHANGED <<head, tail, count>> /\ rop[w].pc = "slot" /\ Moves(w, "index")
         /\ buf' = [buf EXCEPT ![rop[w].q][tail[rop[w].q]] = rop[w].in[rop[w].i + 1]]
<1>1. AtTail(rop[w].fn)
  BY DEF AtTail, Pushes
<1> QED
  BY <1>1, MovesTo DEF Slot, Goto, At

LEMMA LoadedIndex ==
  ASSUME Shape, NEW w \in Workers, LoadIndex(w)
  PROVE  /\ UNCHANGED <<buf, head, tail, count>> /\ rop[w].pc = "index"
         /\ rop'[w].pc = "move" /\ rop'[w].fn = rop[w].fn /\ rop'[w].q = rop[w].q
         /\ rop'[w].in = rop[w].in /\ rop'[w].max = rop[w].max /\ rop'[w].i = rop[w].i
         /\ rop'[w].out = rop[w].out
         /\ rop'[w].reg = IF AtTail(rop[w].fn) THEN tail[rop[w].q] ELSE head[rop[w].q]
<1>1. Frame(rop[w]) /\ DOMAIN rop = Procs /\ w \in Procs
  BY Names DEF Shape
<1>2. PICK x : x = IF AtTail(rop[w].fn) THEN tail[rop[w].q] ELSE head[rop[w].q]
  OBVIOUS
<1>3. rop' = [rop EXCEPT ![w].pc = "move", ![w].reg = x]
  BY <1>2 DEF LoadIndex
<1>4. PICK g : g = RegPc(rop[w], x, "move")
  OBVIOUS
<1>5. rop'[w] = g
  BY <1>1, <1>3, <1>4 DEF RegPc
<1>6. UNCHANGED <<buf, head, tail, count>> /\ rop[w].pc = "index"
  BY DEF LoadIndex, At
<1> QED
  BY <1>1, <1>2, <1>4, <1>5, <1>6, SetRegPc DEF Same

LEMMA MovedIndex ==
  ASSUME Shape, NEW w \in Workers, MoveIndex(w), rop[w].fn # "pop_back"
  PROVE  /\ UNCHANGED <<buf, count>> /\ rop[w].pc = "move"
         /\ rop'[w].pc = IF rop[w].fn \in {"push", "pop"} THEN "loop" ELSE "add"
         /\ rop'[w].fn = rop[w].fn /\ rop'[w].q = rop[w].q
         /\ rop'[w].in = rop[w].in /\ rop'[w].max = rop[w].max /\ rop'[w].i = rop[w].i + 1
         /\ rop'[w].out = rop[w].out /\ rop'[w].reg = rop[w].reg
         /\ AtTail(rop[w].fn) =>
              UNCHANGED head /\ tail' = [tail EXCEPT ![rop[w].q] = (rop[w].reg + 1) % Cap]
         /\ ~AtTail(rop[w].fn) =>
              UNCHANGED tail /\ head' = [head EXCEPT ![rop[w].q] = (rop[w].reg + 1) % Cap]
<1>1. Frame(rop[w]) /\ DOMAIN rop = Procs /\ w \in Procs
  BY Names DEF Shape
<1>2. PICK v : v = IF rop[w].fn \in {"push", "pop"} THEN "loop" ELSE "add"
  OBVIOUS
<1>3. rop' = [rop EXCEPT ![w].i = rop[w].i + 1, ![w].pc = v]
  BY <1>1, <1>2 DEF MoveIndex
<1>4. PICK g : g = IPc(rop[w], rop[w].i + 1, v)
  OBVIOUS
<1>5. rop'[w] = g
  BY <1>1, <1>3, <1>4 DEF IPc
<1>6. /\ UNCHANGED <<buf, count>> /\ rop[w].pc = "move"
      /\ AtTail(rop[w].fn) =>
           UNCHANGED head /\ tail' = [tail EXCEPT ![rop[w].q] = (rop[w].reg + 1) % Cap]
      /\ ~AtTail(rop[w].fn) =>
           UNCHANGED tail /\ head' = [head EXCEPT ![rop[w].q] = (rop[w].reg + 1) % Cap]
  BY DEF MoveIndex, At, NextIndex
<1> QED
  BY <1>1, <1>2, <1>4, <1>5, <1>6, SetIPc DEF Same

LEMMA CountStep ==
  ASSUME Shape, NEW w \in Workers, Add(w)
  PROVE  /\ UNCHANGED <<buf, head, tail>> /\ rop[w].pc = "add" /\ Moves(w, FirstUnlock(rop[w]))
         /\ count' = [count EXCEPT ![rop[w].q] = NewCount(rop[w])]
  BY MovesTo DEF Add, Goto, At

LEMMA UncountedStays ==
  ASSUME NEW w \in Workers, rop'[w].fn = rop[w].fn, rop'[w].q = rop[w].q, rop'[w].i = rop[w].i,
         rop[w].i = 0 \/ (rop'[w].pc \in Released <=> rop[w].pc \in Released)
  PROVE  Uncounted(w)' = Uncounted(w)
<1>1. MyCall(w)' <=> MyCall(w)
  BY DEF MyCall
<1>2. CASE rop[w].i = 0
  <2>1. 0 - rop[w].i = 0
    BY <1>2
  <2> QED
    BY <1>2, <2>1 DEF Uncounted
<1>3. CASE rop'[w].pc \in Released <=> rop[w].pc \in Released
  BY <1>1, <1>3 DEF Uncounted
<1> QED
  BY <1>2, <1>3

\* A step that moves no element between the queue and worker w.
LEMMA HoldsOn ==
  ASSUME NEW w \in Workers, MyCall(w), Level(w), UNCHANGED <<buf, head, tail, count>>,
         rop'[w].fn = rop[w].fn, rop'[w].q = rop[w].q, rop'[w].i = rop[w].i,
         rop[w].i = 0 \/ (rop'[w].pc \in Released <=> rop[w].pc \in Released)
  PROVE  Holds(w, count[w] + Uncounted(w))'
<1>1. Uncounted(w)' = Uncounted(w)
  BY UncountedStays
<1> QED
  BY <1>1 DEF Level, Holds

LEMMA OwnTake ==
  ASSUME Shape, NEW w \in Workers, wk[w].pc \in {"local", "again"}, UNCHANGED wk,
         rop[w].fn = "pop_one", rop[w].q = w, Level(w), RingStep(w)
  PROVE  Level(w)'
<1> DEFINE f == rop[w]
<1>1. MyCall(w) /\ Taking(w, f) /\ Holds(w, count[w] + Uncounted(w)) /\ w \in Rings
  BY Names DEF MyCall, Level, InCall
<1>2. SUFFICES Holds(w, count[w] + Uncounted(w))' /\ Taking(w, rop[w])'
  BY DEF Level, InCall
<1>3. /\ count[w] \in Nat /\ head[w] \in Index
  BY <1>1 DEF Holds
<1>4. CASE Load(w)
  <2>1. UNCHANGED <<buf, head, tail, count>> /\ f.pc = "load" /\ f.i = 0 /\ f.out = <<>>
    BY <1>1, <1>4, QuietSteps DEF Taking
  <2>2. CASE QuickFail(f.fn, count[w])
    <3>1. Moves(w, "done")
      BY <1>4, <2>2, QuietSteps
    <3>2. count[w] = 0
      BY <1>3, <2>2 DEF QuickFail
    <3>3. Holds(w, count[w] + Uncounted(w))'
      BY <1>1, <2>1, <3>1, HoldsOn DEF Moves
    <3>4. Taking(w, rop[w])'
      <4>1. wk[w].pc # "again"
        BY <1>1, <2>1, <3>2 DEF Taking
      <4> QED
        BY <2>1, <3>1, <3>2, <4>1 DEF Taking, Moves, Released
    <3> QED
      BY <3>3, <3>4
  <2>3. CASE ~QuickFail(f.fn, count[w])
    <3>1. "h" \in Need(f.fn, count[w])
      BY DEF Need, Both
    <3>2. Moves(w, "hlock")
      BY <1>4, <2>3, <3>1, QuietSteps
    <3>3. count[w] >= 1
      BY <1>3, <2>3 DEF QuickFail
    <3>4. Holds(w, count[w] + Uncounted(w))'
      BY <1>1, <2>1, <3>2, HoldsOn DEF Moves
    <3>5. Taking(w, rop[w])'
      BY <2>1, <3>2, <3>3 DEF Taking, Moves, Released
    <3> QED
      BY <3>4, <3>5
  <2> QED
    BY <2>2, <2>3
<1>5. CASE LockHead(w) \/ LockTail(w)
  <2>1. PICK pc \in {"tlock", "check"} : Moves(w, pc)
    <3>1. Entered(f.fn) = "check"
      BY DEF Entered
    <3> QED
      BY <1>5, <3>1, QuietSteps
  <2>2. UNCHANGED <<buf, head, tail, count>> /\ f.pc \in {"hlock", "tlock"}
    BY <1>5, QuietSteps
  <2>3. f.i = 0 /\ f.out = <<>> /\ count[w] >= 1
    BY <1>1, <2>2 DEF Taking
  <2>4. Holds(w, count[w] + Uncounted(w))'
    BY <1>1, <2>1, <2>2, <2>3, HoldsOn DEF Moves
  <2>5. Taking(w, rop[w])'
    BY <2>1, <2>2, <2>3 DEF Taking, Moves, Released
  <2> QED
    BY <2>4, <2>5
<1>6. CASE Check(w)
  <2>1. UNCHANGED <<buf, head, tail, count>> /\ f.pc = "check"
    BY <1>6, QuietSteps
  <2>2. f.i = 0 /\ f.out = <<>> /\ count[w] >= 1
    BY <1>1, <2>1 DEF Taking
  <2>3. ~StillFails(f.fn, count[w])
    BY <1>3, <2>2 DEF StillFails
  <2>4. Moves(w, "slot")
    BY <1>6, <2>3, QuietSteps
  <2>5. Holds(w, count[w] + Uncounted(w))'
    BY <1>1, <2>1, <2>2, <2>4, HoldsOn DEF Moves
  <2>6. Taking(w, rop[w])'
    BY <2>1, <2>2, <2>4 DEF Taking, Moves, Released
  <2> QED
    BY <2>5, <2>6
<1>7. CASE Slot(w)
  <2>1. /\ UNCHANGED <<buf, head, tail, count>> /\ f.pc = "slot"
        /\ rop'[w].pc = "index" /\ rop'[w].fn = f.fn /\ rop'[w].q = f.q /\ rop'[w].i = f.i
        /\ rop'[w].out = Append(f.out, buf[w][head[w]])
    BY <1>7, SlotPop
  <2>2. f.i = 0 /\ f.out = <<>> /\ count[w] >= 1
    BY <1>1, <2>1 DEF Taking
  <2>3. Holds(w, count[w] + Uncounted(w))'
    BY <1>1, <2>1, <2>2, HoldsOn
  <2>4. buf[w][head[w]] # Null
    <3>1. Uncounted(w) = 0
      <4>1. 0 - f.i = 0
        BY <2>2
      <4> QED
        BY <2>2, <4>1 DEF Uncounted
    <3>2. 0 \in 0 .. (count[w] + 0) - 1 /\ (head[w] + 0) % Cap = head[w]
      BY <1>3, <2>2, CapAssumption DEF Index
    <3> QED
      BY <1>1, <3>1, <3>2 DEF Holds
  <2>5. Len(rop'[w].out) = 1 /\ rop'[w].out[1] # Null
    <3>1. PICK x : x = buf[w][head[w]]
      OBVIOUS
    <3>2. rop'[w].out = <<x>>
      BY <2>1, <2>2, <3>1
    <3> QED
      BY <2>4, <3>1, <3>2
  <2>6. Taking(w, rop[w])'
    BY <2>1, <2>2, <2>5 DEF Taking, Released
  <2> QED
    BY <2>3, <2>6
<1>8. CASE LoadIndex(w)
  <2>1. /\ UNCHANGED <<buf, head, tail, count>> /\ f.pc = "index"
        /\ rop'[w].pc = "move" /\ rop'[w].fn = f.fn /\ rop'[w].q = f.q /\ rop'[w].i = f.i
        /\ rop'[w].out = f.out /\ rop'[w].reg = head[w]
    BY <1>8, LoadedIndex DEF AtTail
  <2>2. f.i = 0 /\ Len(f.out) = 1 /\ f.out # <<>> /\ f.out[1] # Null /\ count[w] >= 1
    BY <1>1, <2>1 DEF Taking
  <2>3. Holds(w, count[w] + Uncounted(w))'
    BY <1>1, <2>1, <2>2, HoldsOn
  <2>4. Taking(w, rop[w])'
    BY <2>1, <2>2 DEF Taking, Released
  <2> QED
    BY <2>3, <2>4
<1>9. CASE MoveIndex(w)
  <2>1. /\ UNCHANGED <<buf, count, tail>> /\ f.pc = "move"
        /\ rop'[w].pc = "add" /\ rop'[w].fn = f.fn /\ rop'[w].q = f.q /\ rop'[w].i = f.i + 1
        /\ rop'[w].out = f.out /\ head' = [head EXCEPT ![w] = (f.reg + 1) % Cap]
    BY <1>9, MovedIndex DEF AtTail
  <2>2. /\ f.i = 0 /\ Len(f.out) = 1 /\ f.out # <<>> /\ f.out[1] # Null /\ count[w] >= 1
        /\ f.reg = head[w]
    BY <1>1, <2>1 DEF Taking
  <2>3. head'[w] = (head[w] + 1) % Cap
    BY <1>1, <2>1, <2>2 DEF Shape
  <2>4. rop'[w].i = 1
    BY <2>1, <2>2
  <2>5. Taking(w, rop[w])'
    BY <2>1, <2>2, <2>4 DEF Taking, Released
  <2>6. Uncounted(w) = 0 /\ Uncounted(w)' = -1
    <3>1. 0 - f.i = 0 /\ 0 - rop'[w].i = -1
      BY <2>2, <2>4
    <3> QED
      BY <1>1, <2>1, <2>2, <3>1 DEF Uncounted, MyCall, Pushes, Released
  <2>7. PICK n \in Nat : n = count[w] /\ n >= 1
    BY <1>3, <2>2
  <2>8. Holds(w, n)
    BY <1>1, <2>6, <2>7
  <2>9. Holds(w, n - 1)'
    <3>1. head'[w] \in Index /\ n - 1 \in Nat /\ count'[w] \in Nat
      BY <1>3, <2>1, <2>3, <2>7, CapAssumption DEF Index
    <3>2. ASSUME NEW j \in Nat PROVE (head'[w] + j) % Cap = (head[w] + (j + 1)) % Cap
      <4>1. head[w] + 1 \in Nat /\ head[w] + (j + 1) = (head[w] + 1) + j
        BY <1>3, CapAssumption DEF Index
      <4> QED
        BY <2>3, <4>1, PlaceAfter
    <3>3. tail'[w] = (head'[w] + (n - 1)) % Cap
      <4>1. n - 1 \in Nat /\ (n - 1) + 1 = n
        BY <2>7
      <4>2. tail[w] = (head[w] + n) % Cap
        BY <2>8 DEF Holds
      <4> QED
        BY <2>1, <3>2, <4>1, <4>2
    <3>4. ASSUME NEW k \in 0 .. (n - 1) - 1 PROVE buf'[w][(head'[w] + k) % Cap] # Null
      <4>1. k \in Nat /\ k + 1 \in 0 .. n - 1
        BY <2>7
      <4>2. buf[w][(head[w] + (k + 1)) % Cap] # Null
        BY <2>8, <4>1 DEF Holds
      <4> QED
        BY <2>1, <3>2, <4>1, <4>2
    <3> QED
      BY <2>1, <2>8, <3>1, <3>3, <3>4 DEF Holds
  <2>10. count'[w] + Uncounted(w)' = n - 1
    BY <2>1, <2>6, <2>7
  <2> QED
    BY <2>5, <2>9, <2>10
<1>10. CASE Add(w)
  <2>1. /\ UNCHANGED <<buf, head, tail>> /\ f.pc = "add" /\ Moves(w, FirstUnlock(f))
        /\ count' = [count EXCEPT ![w] = NewCount(f)]
    BY <1>10, CountStep
  <2>2. /\ f.i = 1 /\ Len(f.out) = 1 /\ f.out # <<>> /\ f.out[1] # Null /\ count[w] >= 1
    BY <1>1, <2>1 DEF Taking
  <2>3. FirstUnlock(f) = "tunlock"
    <3>1. locked_both(f.fn, f.need)
      BY DEF locked_both
    <3>2. "t" \in Release(f.fn, f.need)
      BY <3>1 DEF Release, Both
    <3> QED
      BY <3>2 DEF FirstUnlock
  <2>4. count'[w] = count[w] - 1
    <3>1. NewCount(f) = count[w] - 1
      BY <2>2 DEF NewCount, Pushes
    <3> QED
      BY <1>1, <2>1, <3>1 DEF Shape
  <2>5. Uncounted(w) = -1 /\ Uncounted(w)' = 0
    <3>1. 0 - f.i = -1
      BY <2>2
    <3> QED
      BY <1>1, <2>1, <2>3, <3>1 DEF Uncounted, Pushes, Released, Moves
  <2>6. PICK n : n = count[w] + Uncounted(w) /\ n = count'[w] + Uncounted(w)' /\ count'[w] \in Nat
    <3>1. count[w] + Uncounted(w) = count'[w] + Uncounted(w)' /\ count'[w] \in Nat
      BY <1>3, <2>2, <2>4, <2>5
    <3> QED
      BY <3>1
  <2>7. Holds(w, n)'
    BY <1>1, <2>1, <2>6 DEF Holds
  <2>8. Taking(w, rop[w])'
    BY <2>1, <2>2, <2>3 DEF Taking, Moves, Released
  <2> QED
    BY <2>6, <2>7, <2>8
<1>11. CASE UnlockTail(w) \/ UnlockHead(w)
  <2>1. PICK pc \in {"hunlock", "done"} : Moves(w, pc)
    BY <1>11, QuietSteps
  <2>2. UNCHANGED <<buf, head, tail, count>> /\ f.pc \in {"tunlock", "hunlock"}
    BY <1>11, QuietSteps
  <2>3. f.i = 1 /\ Len(f.out) = 1 /\ f.out # <<>> /\ f.out[1] # Null
    BY <1>1, <2>2 DEF Taking
  <2>4. Holds(w, count[w] + Uncounted(w))'
    BY <1>1, <2>1, <2>2, HoldsOn DEF Moves, Released
  <2>5. Taking(w, rop[w])'
    BY <2>1, <2>3 DEF Taking, Moves, Released
  <2> QED
    BY <2>4, <2>5
<1>12. ~Loop(w)
  BY <1>1 DEF Loop, At, Taking, Released
<1> QED
  BY <1>4, <1>5, <1>6, <1>7, <1>8, <1>9, <1>10, <1>11, <1>12 DEF RingStep

\* An element is written behind the last one ...
LEMMA Written ==
  ASSUME Shape, NEW w \in Workers, NEW n, Holds(w, n), NEW x, x # Null,
         UNCHANGED <<head, tail, count>>, buf' = [buf EXCEPT ![w][tail[w]] = x]
  PROVE  Holds(w, n)' /\ buf'[w][tail[w]] # Null
<1>1. /\ n \in Nat /\ head[w] \in Index /\ tail[w] = (head[w] + n) % Cap /\ w \in DOMAIN buf
  BY Names DEF Holds, Shape
<1>2. \A k \in Nat : (head[w] + k) % Cap \in Index
  <2>1. head[w] \in Nat
    BY <1>1 DEF Index
  <2> QED
    BY <2>1, CapAssumption DEF Index
<1>3. tail[w] \in Index
  BY <1>1, <1>2
<1>4. /\ \A p \in Index : buf'[w][p] = IF p = tail[w] THEN x ELSE buf[w][p]
      /\ DOMAIN buf'[w] = Index
  BY <1>1, <1>3 DEF Holds
<1>5. ASSUME NEW k \in 0 .. n - 1 PROVE buf'[w][(head[w] + k) % Cap] # Null
  <2>1. k \in Nat /\ buf[w][(head[w] + k) % Cap] # Null
    BY <1>1 DEF Holds
  <2> QED
    BY <1>2, <1>4, <2>1
<1> QED
  BY <1>3, <1>4, <1>5 DEF Holds

\* ... and tail passes it.
LEMMA Passed ==
  ASSUME Shape, NEW w \in Workers, NEW n \in Nat, Holds(w, n), buf[w][tail[w]] # Null,
         UNCHANGED <<buf, head, count>>, tail' = [tail EXCEPT ![w] = (tail[w] + 1) % Cap]
  PROVE  Holds(w, n + 1)'
<1>1. /\ head[w] \in Nat /\ head[w] \in Index /\ tail[w] = (head[w] + n) % Cap /\ w \in DOMAIN tail
  BY Names DEF Holds, Shape, Index
<1>2. tail'[w] = (tail[w] + 1) % Cap
  BY <1>1
<1>3. head[w] + n \in Nat /\ (head[w] + n) + 1 = head[w] + (n + 1)
  BY <1>1
<1>4. tail'[w] = (head[w] + (n + 1)) % Cap
  BY <1>1, <1>2, <1>3, NextPlace
<1>5. ASSUME NEW k \in 0 .. (n + 1) - 1 PROVE buf[w][(head[w] + k) % Cap] # Null
  <2>1. k \in 0 .. n - 1 \/ k = n
    OBVIOUS
  <2> QED
    BY <1>1, <2>1 DEF Holds
<1> QED
  BY <1>4, <1>5 DEF Holds

LEMMA OwnRequeue ==
  ASSUME Shape, NEW w \in Workers, wk[w].pc = "requeue", UNCHANGED wk,
         rop[w].fn = "push_one", rop[w].q = w, Level(w), RingStep(w)
  PROVE  Level(w)'
<1> DEFINE f == rop[w]
<1>1. /\ MyCall(w) /\ Requeueing(w, f) /\ Putting(w, f) /\ Pushes(f.fn)
      /\ Holds(w, count[w] + Uncounted(w)) /\ w \in Rings
  BY Names DEF MyCall, Level, InCall, Pushes
<1>2. SUFFICES Holds(w, count[w] + Uncounted(w))' /\ Requeueing(w, rop[w])' /\ Putting(w, rop[w])'
  BY DEF Level, InCall
<1>3. /\ count[w] \in Nat /\ Len(f.in) = 1 /\ \A k \in DOMAIN f.in : f.in[k] # Null
  BY <1>1 DEF Holds, Requeueing, Putting
<1>4. CASE Load(w) \/ LockHead(w) \/ LockTail(w) \/ Check(w)
  <2>1. UNCHANGED <<buf, head, tail, count>> /\ f.pc \in {"load", "hlock", "tlock", "check"}
    BY <1>4, QuietSteps
  <2>2. f.i = 0
    BY <1>1, <2>1 DEF Requeueing
  <2>3. PICK pc \in {"hlock", "tlock", "check", "slot", "tunlock", "hunlock", "done"} : Moves(w, pc)
    <3>1. Entered(f.fn) = "check"
      BY DEF Entered
    <3>2. CASE Load(w)
      BY <3>2, QuietSteps
    <3>3. CASE LockHead(w) \/ LockTail(w)
      BY <3>1, <3>3, QuietSteps
    <3>4. CASE Check(w)
      BY <3>4, QuietSteps DEF FirstUnlock
    <3> QED
      BY <1>4, <3>2, <3>3, <3>4
  <2>4. Holds(w, count[w] + Uncounted(w))'
    BY <1>1, <2>1, <2>2, <2>3, HoldsOn DEF Moves
  <2>5. Requeueing(w, rop[w])'
    BY <1>3, <2>2, <2>3 DEF Requeueing, Moves, Released
  <2>6. Putting(w, rop[w])'
    <3>1. f.i < Len(f.in)
      BY <1>3, <2>2
    <3>2. rop'[w].pc \notin {"index", "move"} /\ rop'[w].in = f.in /\ rop'[w].i = f.i
      BY <2>3 DEF Moves
    <3> QED
      BY <1>3, <3>1, <3>2 DEF Putting
  <2> QED
    BY <2>4, <2>5, <2>6
<1>5. CASE Slot(w)
  <2>1. /\ UNCHANGED <<head, tail, count>> /\ f.pc = "slot" /\ Moves(w, "index")
        /\ buf' = [buf EXCEPT ![w][tail[w]] = f.in[f.i + 1]]
    BY <1>1, <1>5, SlotPush
  <2>2. f.i = 0 /\ f.i < Len(f.in)
    BY <1>1, <1>3, <2>1 DEF Requeueing
  <2>3. PICK x : x = f.in[f.i + 1]
    OBVIOUS
  <2>4. x # Null
    <3>1. PICK in : in = f.in
      OBVIOUS
    <3>2. 1 \in DOMAIN f.in
      BY <1>1, <2>1, <2>2 DEF Putting, Requeueing
    <3> QED
      BY <1>3, <2>2, <2>3, <3>2
  <2>5. Uncounted(w)' = Uncounted(w)
    BY <1>1, <2>1 DEF Uncounted, MyCall, Moves, Released
  <2>6. PICK n : n = count[w] + Uncounted(w)
    OBVIOUS
  <2>7. Holds(w, n)' /\ buf'[w][tail[w]] # Null
    BY <1>1, <2>1, <2>3, <2>4, <2>6, Written
  <2>8. Holds(w, count[w] + Uncounted(w))'
    BY <2>1, <2>5, <2>6, <2>7
  <2>9. Requeueing(w, rop[w])'
    BY <1>3, <2>1, <2>2 DEF Requeueing, Moves, Released
  <2>10. Putting(w, rop[w])'
    BY <1>3, <2>1, <2>2, <2>7 DEF Putting, Moves
  <2> QED
    BY <2>8, <2>9, <2>10
<1>6. CASE LoadIndex(w)
  <2>1. /\ UNCHANGED <<buf, head, tail, count>> /\ f.pc = "index"
        /\ rop'[w].pc = "move" /\ rop'[w].fn = f.fn /\ rop'[w].q = f.q /\ rop'[w].i = f.i
        /\ rop'[w].in = f.in /\ rop'[w].reg = tail[w]
    BY <1>6, LoadedIndex DEF AtTail
  <2>2. f.i = 0 /\ f.i < Len(f.in) /\ buf[w][tail[w]] # Null
    BY <1>1, <2>1 DEF Requeueing, Putting
  <2>3. Holds(w, count[w] + Uncounted(w))'
    BY <1>1, <2>1, <2>2, HoldsOn
  <2>4. Requeueing(w, rop[w])' /\ Putting(w, rop[w])'
    BY <1>3, <2>1, <2>2 DEF Requeueing, Putting, Released
  <2> QED
    BY <2>3, <2>4
<1>7. CASE MoveIndex(w)
  <2>1. /\ UNCHANGED <<buf, count, head>> /\ f.pc = "move"
        /\ rop'[w].pc = "add" /\ rop'[w].fn = f.fn /\ rop'[w].q = f.q /\ rop'[w].i = f.i + 1
        /\ rop'[w].in = f.in /\ tail' = [tail EXCEPT ![w] = (f.reg + 1) % Cap]
    BY <1>7, MovedIndex DEF AtTail
  <2>2. f.i = 0 /\ buf[w][tail[w]] # Null /\ f.reg = tail[w]
    BY <1>1, <2>1 DEF Requeueing, Putting
  <2>3. rop'[w].i = 1
    BY <2>1, <2>2
  <2>4. Uncounted(w) = 0 /\ Uncounted(w)' = 1
    BY <1>1, <2>1, <2>2, <2>3 DEF Uncounted, MyCall, Released
  <2>5. PICK n \in Nat : n = count[w]
    BY <1>3
  <2>6. Holds(w, n + 1)'
    <3>1. Holds(w, n)
      BY <1>1, <2>4, <2>5
    <3> QED
      BY <2>1, <2>2, <2>5, <3>1, Passed
  <2>7. Holds(w, count[w] + Uncounted(w))'
    BY <2>1, <2>4, <2>5, <2>6
  <2>8. Requeueing(w, rop[w])' /\ Putting(w, rop[w])'
    BY <1>3, <2>1, <2>3 DEF Requeueing, Putting, Released
  <2> QED
    BY <2>7, <2>8
<1>8. CASE Add(w)
  <2>1. /\ UNCHANGED <<buf, head, tail>> /\ f.pc = "add" /\ Moves(w, FirstUnlock(f))
        /\ count' = [count EXCEPT ![w] = NewCount(f)]
    BY <1>8, CountStep
  <2>2. f.i = 1
    BY <1>1, <2>1 DEF Requeueing
  <2>3. FirstUnlock(f) \in {"tunlock", "hunlock"}
    BY DEF FirstUnlock
  <2>4. count'[w] = count[w] + 1
    <3>1. NewCount(f) = count[w] + 1
      BY <1>1, <2>2 DEF NewCount
    <3> QED
      BY <1>1, <2>1, <3>1 DEF Shape
  <2>5. Uncounted(w) = 1 /\ Uncounted(w)' = 0
    BY <1>1, <2>1, <2>2, <2>3 DEF Uncounted, Released, Moves
  <2>6. PICK n : n = count[w] + Uncounted(w) /\ n = count'[w] + Uncounted(w)' /\ count'[w] \in Nat
    <3>1. count[w] + Uncounted(w) = count'[w] + Uncounted(w)' /\ count'[w] \in Nat
      BY <1>3, <2>4, <2>5
    <3> QED
      BY <3>1
  <2>7. Holds(w, n)'
    BY <1>1, <2>1, <2>6 DEF Holds
  <2>8. Requeueing(w, rop[w])' /\ Putting(w, rop[w])'
    BY <1>3, <2>1, <2>3 DEF Requeueing, Putting, Released, Moves
  <2> QED
    BY <2>6, <2>7, <2>8
<1>9. CASE UnlockTail(w) \/ UnlockHead(w)
  <2>1. PICK pc \in {"hunlock", "done"} : Moves(w, pc)
    BY <1>9, QuietSteps
  <2>2. UNCHANGED <<buf, head, tail, count>> /\ f.pc \in {"tunlock", "hunlock"}
    BY <1>9, QuietSteps
  <2>3. Holds(w, count[w] + Uncounted(w))'
    BY <1>1, <2>1, <2>2, HoldsOn DEF Moves, Released
  <2>4. Requeueing(w, rop[w])' /\ Putting(w, rop[w])'
    BY <1>3, <2>1 DEF Requeueing, Putting, Moves, Released
  <2> QED
    BY <2>3, <2>4
<1>10. ~Loop(w)
  BY <1>1 DEF Loop, At, Requeueing, Released
<1> QED
  BY <1>4, <1>5, <1>6, <1>7, <1>8, <1>9, <1>10 DEF RingStep

LEMMA OwnShare ==
  ASSUME Shape, NEW w \in Workers, wk[w].pc = "push", UNCHANGED wk,
         rop[w].fn = "push", rop[w].q = w, Level(w), RingStep(w)
  PROVE  /\ Level(w)' /\ (rop[w].pc \in Released => rop'[w].pc \in Released)
         /\ rop'[w].pc \in Released => rop'[w].i = Len(rop'[w].in) \/ rop[w].pc \in Released
<1> DEFINE f == rop[w]
<1>1. /\ MyCall(w) /\ Sharing(w, f) /\ Putting(w, f) /\ Pushes(f.fn)
      /\ Holds(w, count[w] + Uncounted(w)) /\ w \in Rings
  BY Names DEF MyCall, Level, InCall, Pushes
<1>2. SUFFICES /\ Holds(w, count[w] + Uncounted(w))' /\ Sharing(w, rop[w])' /\ Putting(w, rop[w])'
               /\ rop[w].pc \in Released => rop'[w].pc \in Released
               /\ rop'[w].pc \in Released => rop'[w].i = Len(rop'[w].in) \/ rop[w].pc \in Released
  BY DEF Level, InCall
<1>3. /\ count[w] \in Nat /\ Len(f.in) \in 1 .. Cap /\ f.i \in 0 .. Len(f.in) /\ Cap \in Nat
      /\ \A k \in DOMAIN f.in : f.in[k] # Null
  BY <1>1, CapAssumption DEF Holds, Sharing, Putting
<1>4. CASE LockHead(w) \/ LockTail(w)
  <2>1. UNCHANGED <<buf, head, tail, count>> /\ f.pc \in {"hlock", "tlock"}
    BY <1>4, QuietSteps
  <2>2. f.i = 0 /\ count[w] = 0
    BY <1>1, <2>1 DEF Sharing, Released
  <2>3. PICK pc \in {"tlock", "loop"} : Moves(w, pc)
    <3>1. Entered(f.fn) = "loop"
      BY DEF Entered
    <3> QED
      BY <1>4, <3>1, QuietSteps
  <2>4. Holds(w, count[w] + Uncounted(w))'
    BY <1>1, <2>1, <2>2, <2>3, HoldsOn DEF Moves
  <2>5. Sharing(w, rop[w])' /\ Putting(w, rop[w])'
    BY <1>3, <2>1, <2>2, <2>3 DEF Sharing, Putting, Moves, Released
  <2> QED
    BY <2>1, <2>3, <2>4, <2>5 DEF Released, Moves
<1>5. CASE Loop(w)
  <2>1. UNCHANGED <<buf, head, tail, count>> /\ f.pc = "loop"
    BY <1>5, QuietSteps
  <2>2. count[w] = 0 /\ Uncounted(w) = f.i
    BY <1>1, <2>1 DEF Sharing, Released, Uncounted
  <2>3. PICK pc \in {"slot", "add"} : /\ Moves(w, pc) /\ (pc = "slot" <=> LoopGoes(f))
    BY <1>5, QuietSteps
  <2>4. Holds(w, count[w] + Uncounted(w))'
    BY <1>1, <2>1, <2>3, HoldsOn DEF Moves, Released
  <2>5. pc = "slot" => f.i < Len(f.in)
    BY <1>3, <2>3 DEF LoopGoes
  <2>6. pc = "add" => f.i = Len(f.in)
    <3> SUFFICES ASSUME pc = "add", f.i < Len(f.in) PROVE FALSE
      BY <1>3
    <3>1. f.i # 0 /\ tail[w] = head[w]
      BY <2>3 DEF LoopGoes
    <3>2. PICK n \in Nat : n = f.i /\ n # 0 /\ n < Cap
      BY <1>3, <3>1
    <3>3. tail[w] = (head[w] + n) % Cap /\ head[w] \in Index
      BY <1>1, <2>2, <3>2 DEF Holds
    <3>4. PICK a \in Nat : a = head[w] /\ a < Cap
      BY <3>3, CapAssumption DEF Index
    <3>5. a % Cap = a
      BY <3>4, CapAssumption
    <3>6. a + n \in Nat /\ a < a + n /\ a + n < a + Cap
      BY <3>2, <3>4, CapAssumption
    <3>7. a % Cap # (a + n) % Cap
      BY <3>6, Apart
    <3> QED
      BY <3>1, <3>3, <3>4, <3>5, <3>7
  <2>7. Sharing(w, rop[w])' /\ Putting(w, rop[w])'
    BY <1>3, <2>1, <2>2, <2>3, <2>5, <2>6 DEF Sharing, Putting, Moves, Released
  <2> QED
    BY <2>1, <2>3, <2>4, <2>7 DEF Released, Moves
<1>6. CASE Slot(w)
  <2>1. /\ UNCHANGED <<head, tail, count>> /\ f.pc = "slot" /\ Moves(w, "index")
        /\ buf' = [buf EXCEPT ![w][tail[w]] = f.in[f.i + 1]]
    BY <1>1, <1>6, SlotPush
  <2>2. f.i < Len(f.in) /\ count[w] = 0
    BY <1>1, <2>1 DEF Putting, Sharing, Released
  <2>3. PICK x : x = f.in[f.i + 1]
    OBVIOUS
  <2>4. x # Null
    <3>1. f.i + 1 \in DOMAIN f.in
      BY <1>1, <1>3, <2>2 DEF Sharing
    <3> QED
      BY <1>3, <2>3, <3>1
  <2>5. Uncounted(w)' = Uncounted(w)
    BY <1>1, <2>1 DEF Uncounted, MyCall, Moves, Released
  <2>6. PICK n : n = count[w] + Uncounted(w)
    OBVIOUS
  <2>7. Holds(w, n)' /\ buf'[w][tail[w]] # Null
    BY <1>1, <2>1, <2>3, <2>4, <2>6, Written
  <2>8. Holds(w, count[w] + Uncounted(w))'
    BY <2>1, <2>5, <2>6, <2>7
  <2>9. Sharing(w, rop[w])' /\ Putting(w, rop[w])'
    BY <1>3, <2>1, <2>2, <2>7 DEF Sharing, Putting, Moves, Released
  <2> QED
    BY <2>1, <2>8, <2>9 DEF Released, Moves
<1>7. CASE LoadIndex(w)
  <2>1. /\ UNCHANGED <<buf, head, tail, count>> /\ f.pc = "index"
        /\ rop'[w].pc = "move" /\ rop'[w].fn = f.fn /\ rop'[w].q = f.q /\ rop'[w].i = f.i
        /\ rop'[w].in = f.in /\ rop'[w].reg = tail[w]
    BY <1>7, LoadedIndex DEF AtTail
  <2>2. f.i < Len(f.in) /\ count[w] = 0 /\ buf[w][tail[w]] # Null
    BY <1>1, <2>1 DEF Putting, Sharing, Released
  <2>3. Holds(w, count[w] + Uncounted(w))'
    BY <1>1, <2>1, <2>2, HoldsOn DEF Released
  <2>4. Sharing(w, rop[w])' /\ Putting(w, rop[w])'
    BY <1>3, <2>1, <2>2 DEF Sharing, Putting, Released
  <2> QED
    BY <2>1, <2>3, <2>4 DEF Released
<1>8. CASE MoveIndex(w)
  <2>1. /\ UNCHANGED <<buf, count, head>> /\ f.pc = "move"
        /\ rop'[w].pc = "loop" /\ rop'[w].fn = f.fn /\ rop'[w].q = f.q /\ rop'[w].i = f.i + 1
        /\ rop'[w].in = f.in /\ tail' = [tail EXCEPT ![w] = (f.reg + 1) % Cap]
    BY <1>8, MovedIndex DEF AtTail
  <2>2. f.i < Len(f.in) /\ count[w] = 0 /\ buf[w][tail[w]] # Null /\ f.reg = tail[w]
    BY <1>1, <2>1 DEF Putting, Sharing, Released
  <2>3. Uncounted(w) = f.i /\ Uncounted(w)' = f.i + 1
    BY <1>1, <2>1 DEF Uncounted, MyCall, Released
  <2>4. PICK n \in Nat : n = f.i
    BY <1>3
  <2>5. n = count[w] + Uncounted(w) /\ n + 1 = count'[w] + Uncounted(w)'
    BY <2>1, <2>2, <2>3, <2>4
  <2>6. Holds(w, n + 1)'
    BY <1>1, <2>1, <2>2, <2>5, Passed
  <2>7. Holds(w, count[w] + Uncounted(w))'
    BY <2>5, <2>6
  <2>8. Sharing(w, rop[w])' /\ Putting(w, rop[w])'
    <3>1. f.i + 1 \in 0 .. Len(f.in)
      BY <1>3, <2>2
    <3> QED
      BY <1>3, <2>1, <2>2, <3>1 DEF Sharing, Putting, Released
  <2> QED
    BY <2>1, <2>7, <2>8 DEF Released
<1>9. CASE Add(w)
  <2>1. /\ UNCHANGED <<buf, head, tail>> /\ f.pc = "add" /\ Moves(w, FirstUnlock(f))
        /\ count' = [count EXCEPT ![w] = NewCount(f)]
    BY <1>9, CountStep
  <2>2. f.i = Len(f.in) /\ count[w] = 0
    BY <1>1, <2>1 DEF Sharing, Released
  <2>3. FirstUnlock(f) \in {"tunlock", "hunlock"}
    BY DEF FirstUnlock
  <2>4. count'[w] = f.i
    <3>1. NewCount(f) = f.i
      BY <1>1, <1>3, <2>2 DEF NewCount
    <3> QED
      BY <1>1, <2>1, <3>1 DEF Shape
  <2>5. Uncounted(w) = f.i /\ Uncounted(w)' = 0
    BY <1>1, <2>1, <2>3 DEF Uncounted, Released, Moves
  <2>6. PICK n : n = count[w] + Uncounted(w) /\ n = count'[w] + Uncounted(w)' /\ count'[w] \in Nat
    <3>1. count[w] + Uncounted(w) = count'[w] + Uncounted(w)' /\ count'[w] \in Nat
      BY <1>3, <2>2, <2>4, <2>5
    <3> QED
      BY <3>1
  <2>7. Holds(w, n)'
    BY <1>1, <2>1, <2>6 DEF Holds
  <2>8. Sharing(w, rop[w])' /\ Putting(w, rop[w])'
    BY <1>3, <2>1, <2>2, <2>3, <2>4 DEF Sharing, Putting, Released, Moves
  <2> QED
    BY <2>1, <2>2, <2>3, <2>6, <2>7, <2>8 DEF Released, Moves
<1>10. CASE UnlockTail(w) \/ UnlockHead(w)
  <2>1. PICK pc \in {"hunlock", "done"} : Moves(w, pc)
    BY <1>10, QuietSteps
  <2>2. UNCHANGED <<buf, head, tail, count>> /\ f.pc \in {"tunlock", "hunlock"}
    BY <1>10, QuietSteps
  <2>3. count[w] >= 1
    BY <1>1, <2>2 DEF Sharing, Released
  <2>4. Holds(w, count[w] + Uncounted(w))'
    BY <1>1, <2>1, <2>2, HoldsOn DEF Moves, Released
  <2>5. Sharing(w, rop[w])' /\ Putting(w, rop[w])'
    BY <1>3, <2>1, <2>2, <2>3 DEF Sharing, Putting, Moves, Released
  <2> QED
    BY <2>1, <2>2, <2>4, <2>5 DEF Released, Moves
<1>11. ~Load(w) /\ ~Check(w)
  BY <1>1 DEF Load, Check, At, Sharing, Released
<1> QED
  BY <1>4, <1>5, <1>6, <1>7, <1>8, <1>9, <1>10, <1>11 DEF RingStep

\* A step inside a function on worker w's own queue.
LEMMA HandOwn ==
  ASSUME SchedInv, HandInv, Room, NEW w \in Workers, InRing(w), MyCall(w)
  PROVE  HandInv'
<1>1. /\ Shape /\ Calls(w) /\ w \in Procs /\ RingStep(w) /\ UNCHANGED <<wk, host, handed>>
      /\ rop[w].fn # "none" /\ rop[w].q = w
  BY Names DEF SchedInv, HandInv, InRing, MyCall
<1>2. /\ ~Using(w) /\ host.pc # "add"
      /\ wk[w].pc \in {"local", "again", "push", "requeue"}
  <2>1. ~Using(w)
    BY <1>1, Names DEF Using
  <2>2. wk[w].pc # "global" /\ wk[w].pc # "unborn"
    BY <1>1, <2>1 DEF SchedInv, Loops
  <2> QED
    BY <1>1, <2>1, <2>2 DEF Calls, Shape
<1>3. PICK g : Becomes(w, g)
  BY <1>1, RingFrame
<1>4. /\ rop'[w].fn = rop[w].fn /\ rop'[w].q = w /\ rop'[w].in = rop[w].in
      /\ \A v \in Workers : v # w => rop'[v] = rop[v]
  BY <1>1, <1>3, Names DEF Becomes, Same, Shape
<1>5. Elsewhere(w)
  BY <1>1, RingElsewhere
<1>6. SameRing(Global) /\ \A v \in Workers : v # w => SameRing(v)
  BY <1>5, Names DEF Elsewhere, SameRing
<1>7. Only(w) /\ KeepsOff(w) /\ KeepsQueue(w)
  BY <1>1, <1>2, <1>4, <1>6 DEF Only, KeepsOff, KeepsQueue, SameRing
<1>8. ~Using(w)'
  BY <1>4, Names DEF Using
<1>9. Covered'
  <2> SUFFICES ASSUME NEW t \in Tasks, t <= head'[Global], handed'[t] # 1
               PROVE  \E v \in Workers : Using(v)' /\ \E k \in DOMAIN rop'[v].out : rop'[v].out[k] = t
    BY DEF Covered
  <2>1. PICK v \in Workers : Using(v) /\ \E k \in DOMAIN rop[v].out : rop[v].out[k] = t
    BY <1>1, <1>6 DEF HandInv, Covered, SameRing
  <2>2. v # w
    BY <1>2, <2>1
  <2> QED
    BY <1>4, <2>1, <2>2 DEF Using
<1>10. Counted'
  <2>1. \A v \in Workers : Busy(v)' <=> Busy(v)
    BY <1>2, <1>4, <1>8 DEF Busy, Using
  <2> QED
    BY <1>1, <1>6, <2>1 DEF HandInv, Counted, SameRing
<1>11. Drained' <=> Drained
  BY <1>1, <1>6 DEF Drained, SameRing
<1>12. ASSUME wk[w].pc = "push"
       PROVE  /\ Carries(w)' => Carries(w) 
              /\ rop'[w].pc \in Released => rop'[w].i = Len(rop'[w].in)
  <2>1. rop[w].fn = "push"
    BY <1>1, <1>12 DEF Calls
  <2>2. CASE rop[w].pc \notin Released
    <3>1. Carries(w)
      BY <1>12, <2>2 DEF Carries
    <3>2. Level(w)
      BY <3>1 DEF HandInv, Guarded
    <3> QED
      BY <1>1, <1>12, <2>1, <2>2, <3>1, <3>2, OwnShare
  <2>3. CASE rop[w].pc \in Released
    <3>1. UnlockTail(w) \/ UnlockHead(w)
      BY <1>1, <2>3 DEF Released, RingStep, Load, LockHead, LockTail, Check, Loop, Slot, LoadIndex,
                        MoveIndex, Add, UnlockTail, UnlockHead, At
    <3>2. PICK pc \in {"hunlock", "done"} : Moves(w, pc)
      BY <1>1, <3>1, QuietSteps
    <3>3. rop'[w].pc \in Released /\ rop'[w].i = rop[w].i
      BY <3>2 DEF Moves, Released
    <3>4. rop[w].i = Len(rop[w].in)
      BY <1>1, <1>12, <2>3 DEF Calls
    <3>5. ~Carries(w)'
      BY <1>1, <1>12, <3>3 DEF Carries
    <3> QED
      BY <1>4, <3>3, <3>4, <3>5
  <2> QED
    BY <2>2, <2>3
<1>13. Calls(w)'
  BY <1>1, <1>4, <1>11, <1>12 DEF Calls
<1>14. ASSUME Guarded(w)' PROVE Guarded(w) /\ Level(w)'
  <2>1. Carries(w)' => Carries(w)
    BY <1>1, <1>2, <1>12 DEF Carries
  <2>2. Guarded(w)
    BY <1>11, <1>14, <2>1 DEF Guarded
  <2>3. Level(w)
    BY <2>2 DEF HandInv
  <2>4. CASE wk[w].pc \in {"local", "again"}
    <3>1. rop[w].fn = "pop_one"
      BY <1>1, <2>4 DEF Calls
    <3> QED
      BY <1>1, <2>2, <2>3, <2>4, <3>1, OwnTake
  <2>5. CASE wk[w].pc = "push"
    <3>1. rop[w].fn = "push"
      BY <1>1, <2>5 DEF Calls
    <3> QED
      BY <1>1, <2>2, <2>3, <2>5, <3>1, OwnShare
  <2>6. CASE wk[w].pc = "requeue"
    <3>1. rop[w].fn = "push_one"
      BY <1>1, <2>6 DEF Calls
    <3> QED
      BY <1>1, <2>2, <2>3, <2>6, <3>1, OwnRequeue
  <2> QED
    BY <1>2, <2>4, <2>5, <2>6
<1> QED
  BY <1>7, <1>8, <1>9, <1>10, <1>13, <1>14, WorkerKeeps

\* A step of worker w inside ring_pop_back on the queue of another one.
LEMMA HandThief ==
  ASSUME SchedInv, HandInv, Room, NEW w \in Workers, InRing(w), wk[w].pc = "steal"
  PROVE  HandInv'
<1>1. /\ Shape /\ Calls(w) /\ w \in Procs /\ RingStep(w) /\ UNCHANGED <<wk, host, handed>>
      /\ rop[w].fn = "pop_back" /\ rop[w].q # w /\ NCore # 1 /\ Drained
  BY Names DEF SchedInv, HandInv, InRing, Calls
<1>2. ~Using(w) /\ host.pc # "add"
  BY <1>1 DEF SchedInv, Loops, Shape
<1>3. PICK g : Becomes(w, g)
  BY <1>1, RingFrame
<1>4. /\ rop'[w].fn = rop[w].fn /\ rop'[w].q = rop[w].q
      /\ \A v \in Workers : v # w => rop'[v] = rop[v]
  BY <1>1, <1>3, Names DEF Becomes, Same, Shape
<1>5. Elsewhere(rop[w].q) /\ rop[w].q # Global
  BY <1>1, <1>2, RingElsewhere DEF Using
<1>6. SameRing(Global) /\ \A v \in Workers : v # rop[w].q => SameRing(v)
  BY <1>5, Names DEF Elsewhere, SameRing
<1>7. Only(w) /\ KeepsQueue(w)
  BY <1>1, <1>2, <1>4, <1>6 DEF Only, KeepsQueue, SameRing
<1>8. ASSUME NEW v \in Workers, v # w, Guarded(v)
      PROVE  SameRing(v) /\ (rop'[w].q # v \/ rop'[w].pc \in {"load", "done"})
  <2>1. CASE rop[w].q # v
    BY <1>4, <1>6, <2>1
  <2>2. CASE rop[w].q = v
    <3>1. Level(v) /\ Untouched(v)
      BY <1>8 DEF HandInv
    <3>2. rop[w].pc \in {"load", "done"}
      BY <1>1, <1>8, <2>2, <3>1 DEF Untouched
    <3>3. Load(w)
      BY <1>1, <3>2 DEF RingStep, Load, LockHead, LockTail, Check, Loop, Slot, LoadIndex,
                        MoveIndex, Add, UnlockTail, UnlockHead, At
    <3>4. count[v] = 0
      <4>1. Carries(v)
        BY <1>1, <1>8 DEF Guarded
      <4> QED
        BY <3>1, <4>1 DEF Carries, Level, InCall, Sharing
    <3>5. QuickFail(rop[w].fn, count[rop[w].q])
      BY <1>1, <2>2, <3>4 DEF QuickFail
    <3> QED
      BY <1>1, <3>3, <3>5, QuietSteps DEF SameRing, Moves
  <2> QED
    BY <2>1, <2>2
<1>9. KeepsOff(w)
  BY <1>8 DEF KeepsOff
<1>10. ~Using(w)'
  BY <1>4, <1>5 DEF Using
<1>11. Covered'
  <2> SUFFICES ASSUME NEW t \in Tasks, t <= head'[Global], handed'[t] # 1
               PROVE  \E v \in Workers : Using(v)' /\ \E k \in DOMAIN rop'[v].out : rop'[v].out[k] = t
    BY DEF Covered
  <2>1. PICK v \in Workers : Using(v) /\ \E k \in DOMAIN rop[v].out : rop[v].out[k] = t
    BY <1>1, <1>6 DEF HandInv, Covered, SameRing
  <2>2. v # w
    BY <1>2, <2>1
  <2> QED
    BY <1>4, <2>1, <2>2 DEF Using
<1>12. Counted'
  <2>1. \A v \in Workers : Busy(v)' <=> Busy(v)
    BY <1>2, <1>4, <1>10 DEF Busy, Using
  <2> QED
    BY <1>1, <1>6, <2>1 DEF HandInv, Counted, SameRing
<1>13. Drained'
  BY <1>1, <1>6 DEF Drained, SameRing
<1>14. Calls(w)'
  BY <1>1, <1>4, <1>13 DEF Calls
<1>15. ~Guarded(w)'
  BY <1>1, <1>13 DEF Guarded, Carries
<1> QED
  BY <1>7, <1>9, <1>10, <1>11, <1>12, <1>14, <1>15, WorkerKeeps

-----------------------------------------------------------------------------
(* A worker inside ring_pop on the global queue and what is handed out *)

\* Worker w's share keeps what it has; what the head passes is in it.
Kept(w) ==
  /\ \A k \in DOMAIN rop[w].out : k \in DOMAIN rop'[w].out /\ rop'[w].out[k] = rop[w].out[k]
  /\ \A t \in Tasks : t <= head'[Global] =>
       t <= head[Global] \/ \E k \in DOMAIN rop'[w].out : rop'[w].out[k] = t

LEMMA PopHand ==
  ASSUME SchedInv, HandInv, Room, NEW w \in Workers, Using(w), InRing(w),
         head'[Global] = head[Global] \/ (~Drained /\ head'[Global] = head[Global] + 1),
         tail' = tail, Portion(w)', Kept(w), Counted',
         rop'[w].out # <<>> => rop[w].out # <<>> \/ ~Drained
  PROVE  HandInv'
<1>1. /\ Shape /\ Calls(w) /\ w \in Procs /\ RingStep(w) /\ UNCHANGED <<wk, host, handed>>
      /\ rop[w].q = Global /\ wk[w].pc = "global"
  BY Names DEF SchedInv, HandInv, InRing, Using, Loops
<1>2. host.pc # "add"
  BY <1>1 DEF Shape
<1>3. PICK g : Becomes(w, g)
  BY <1>1, RingFrame
<1>4. /\ rop'[w].fn = rop[w].fn /\ rop'[w].q = Global
      /\ \A v \in Workers : v # w => rop'[v] = rop[v]
  BY <1>1, <1>3, Names DEF Becomes, Same, Shape
<1>5. Elsewhere(Global)
  BY <1>1, RingElsewhere
<1>6. \A v \in Workers : SameRing(v)
  BY <1>5, Names DEF Elsewhere, SameRing
<1>7. Only(w) /\ KeepsOff(w)
  BY <1>1, <1>2, <1>4, <1>6, Names DEF Only, KeepsOff
<1>8. KeepsQueue(w)
  BY <1>1, GlobalFacts, Alone DEF KeepsQueue
<1>9. Covered'
  <2> SUFFICES ASSUME NEW t \in Tasks, t <= head'[Global], handed'[t] # 1
               PROVE  \E v \in Workers : Using(v)' /\ \E k \in DOMAIN rop'[v].out : rop'[v].out[k] = t
    BY DEF Covered
  <2>1. Using(w)'
    BY <1>4 DEF Using
  <2>2. CASE t <= head[Global]
    <3>1. PICK v \in Workers : Using(v) /\ \E k \in DOMAIN rop[v].out : rop[v].out[k] = t
      BY <1>1, <2>2 DEF HandInv, Covered
    <3>2. CASE v # w
      BY <1>4, <3>1, <3>2 DEF Using
    <3>3. CASE v = w
      BY <2>1, <3>1, <3>3 DEF Kept
    <3> QED
      BY <3>2, <3>3
  <2>3. CASE ~(t <= head[Global])
    BY <2>1, <2>3 DEF Kept
  <2> QED
    BY <2>2, <2>3
<1>10. Drained => Drained'
  BY <1>1 DEF Drained
<1>11. Calls(w)'
  BY <1>1 DEF Calls
<1>12. ASSUME Guarded(w)' PROVE Guarded(w) /\ Level(w)'
  <2>1. Guarded(w)
    BY <1>1, <1>10, <1>12 DEF Guarded, Carries
  <2>2. Level(w)
    BY <2>1 DEF HandInv
  <2>3. Uncounted(w) = 0 /\ Uncounted(w)' = 0
    BY <1>1, <1>4, Names DEF Uncounted, MyCall
  <2>4. Holds(w, count[w] + Uncounted(w))'
    BY <1>6, <2>2, <2>3 DEF Level, Holds, SameRing
  <2> QED
    BY <1>1, <1>6, <2>1, <2>2, <2>4 DEF Level, InCall, SameRing
<1> QED
  BY <1>7, <1>8, <1>9, <1>11, <1>12, WorkerKeeps

LEMMA PoppingFacts ==
  ASSUME SchedInv, HandInv, Room, NEW w \in Workers, Using(w), InRing(w)
  PROVE  /\ Shape /\ RingStep(w) /\ host' = host /\ host.pc # "add" /\ Portion(w) /\ Cap \in Nat
         /\ rop[w].fn = "pop" /\ rop[w].q = Global /\ rop[w].need = Both
         /\ rop[w].pc \in PopPCs /\ rop[w].out \in Seq(Int) /\ rop[w].i \in Nat
         /\ rop[w].pc \in {"slot", "index", "move"} => head[Global] < tail[Global]
         /\ rop[w].pc = "move" => rop[w].reg = head[Global]
         /\ head[Global] \in Nat /\ tail[Global] \in Nat /\ head[Global] <= tail[Global]
         /\ tail[Global] <= NTasks /\ NTasks < Cap /\ NTasks \in Nat
         /\ \A v \in Workers : v # w => ~Busy(v) /\ rop'[v] = rop[v]
         /\ \A k \in 0 .. tail[Global] - 1 : buf[Global][k] = k + 1
         /\ Counted
<1>1. RingStep(w) /\ UNCHANGED <<wk, host, handed>> /\ w \in Procs /\ Shape
  BY Names DEF InRing, SchedInv
<1>2. Handing(tail[Global], head[Global])
  BY GlobalFacts
<1>3. Share(w, tail[Global], head[Global])
  BY <1>2 DEF Handing
<1>4. \A v \in Workers : v # w => ~Busy(v)
  BY <1>1, <1>2, Alone DEF Busy
<1>5. PICK g : Becomes(w, g)
  BY <1>1, RingFrame
<1>6. \A v \in Workers : v # w => rop'[v] = rop[v]
  BY <1>1, <1>5, Names DEF Becomes, Shape
<1>7. host.pc # "add"
  BY <1>1 DEF SchedInv, Shape, Loops
<1>8. Portion(w) /\ Counted
  BY DEF HandInv
<1>9. /\ head[Global] \in Nat /\ tail[Global] \in Nat /\ head[Global] <= tail[Global]
      /\ tail[Global] <= NTasks /\ NTasks < Cap /\ NTasks \in Nat /\ Cap \in Nat
  BY GlobalFacts, SizeAssumption, CapAssumption DEF Room
<1>10. \A k \in 0 .. tail[Global] - 1 : buf[Global][k] = k + 1
  BY <1>2 DEF Handing, Stored
<1>11. rop[w].i \in Nat
  BY <1>8 DEF Portion
<1> QED
  BY <1>1, <1>3, <1>4, <1>6, <1>7, <1>8, <1>9, <1>10, <1>11 DEF Share, Using

\* Without a change of the share and of the queue.
LEMMA PopQuiet ==
  ASSUME SchedInv, HandInv, Room, NEW w \in Workers, Using(w), InRing(w), NEW pc, Moves(w, pc),
         UNCHANGED <<buf, head, tail, count>>, pc \notin {"index", "move", "hlock"},
         rop[w].pc \notin {"index", "move"},
         pc = "tlock" => rop[w].pc = "hlock",
         pc = "slot" => ~Drained,
         pc \in {"add", "tunlock", "hunlock", "done"} /\ rop[w].out = <<>> => Drained,
         pc \in {"loop", "slot", "add"} => count[Global] = (tail[Global] - head[Global]) + rop[w].i,
         pc \notin {"loop", "slot", "add"} => ~Busy(w)
  PROVE  HandInv'
<1>1. Portion(w) /\ host' = host
  BY PoppingFacts
<1>2. Drained' <=> Drained
  BY <1>1 DEF Drained
<1>3. Portion(w)'
  <2>1. Busy(w)' => pc \in {"loop", "slot", "add"}
    BY DEF Busy, Moves
  <2>2. rop[w].i <= head[Global] /\ Len(rop[w].out) = rop[w].i
    BY <1>1 DEF Portion
  <2> QED
    BY <1>1, <1>2, <2>1, <2>2 DEF Portion, Moves
<1>4. Kept(w)
  BY DEF Kept, Moves
<1>5. Counted'
  <2>1. \A v \in Workers : v # w => ~Busy(v) /\ rop'[v] = rop[v]
    BY PoppingFacts
  <2>2. Busy(w) => Busy(w)'
    BY DEF Busy, Using, Moves
  <2> QED
    BY <1>1, <2>1, <2>2, PoppingFacts DEF Counted
<1> QED
  BY <1>3, <1>4, <1>5, PopHand DEF Moves

LEMMA PopLocks ==
  ASSUME SchedInv, HandInv, Room, NEW w \in Workers, Using(w), InRing(w),
         LockHead(w) \/ LockTail(w) \/ Loop(w) \/ UnlockTail(w) \/ UnlockHead(w)
  PROVE  HandInv'
<1>1. /\ Shape /\ rop[w].fn = "pop" /\ rop[w].q = Global /\ rop[w].need = Both /\ Portion(w)
      /\ host.pc # "add" /\ \A v \in Workers : v # w => ~Busy(v)
  BY PoppingFacts
<1>2. /\ head[Global] \in Nat /\ tail[Global] \in Nat /\ rop[w].i \in Nat /\ Counted
      /\ rop[w].out \in Seq(Int)
  BY PoppingFacts
<1>3. "h" \in Release(rop[w].fn, rop[w].need)
  BY <1>1 DEF Release, locked_both, Both
<1>4. CASE LockHead(w)
  <2>1. /\ Moves(w, "tlock") /\ UNCHANGED <<buf, head, tail, count>> /\ rop[w].pc = "hlock"
    BY <1>1, <1>4, QuietSteps DEF Both
  <2>2. ~Busy(w)
    BY <2>1 DEF Busy
  <2> QED
    BY <2>1, <2>2, PopQuiet
<1>5. CASE LockTail(w)
  <2>1. /\ Moves(w, "loop") /\ UNCHANGED <<buf, head, tail, count>> /\ rop[w].pc = "tlock"
    BY <1>1, <1>5, QuietSteps DEF Entered
  <2>2. ~Busy(w) /\ rop[w].i = 0
    BY <1>1, <2>1 DEF Busy, Portion
  <2>3. count[Global] = tail[Global] - head[Global]
    BY <1>1, <1>2, <2>2 DEF Counted
  <2>4. count[Global] = (tail[Global] - head[Global]) + rop[w].i
    BY <1>2, <2>2, <2>3
  <2> QED
    BY <2>1, <2>4, PopQuiet
<1>6. CASE Loop(w)
  <2>1. /\ Moves(w, IF LoopGoes(rop[w]) THEN "slot" ELSE "add")
        /\ UNCHANGED <<buf, head, tail, count>> /\ rop[w].pc = "loop"
    BY <1>1, <1>6, QuietSteps
  <2>2. Busy(w)
    BY <2>1 DEF Busy
  <2>3. /\ count[Global] = (tail[Global] - head[Global]) + rop[w].i
        /\ rop[w].max \in Nat /\ rop[w].max >= 1 /\ Len(rop[w].out) = rop[w].i
    BY <1>1, <2>1, <2>2 DEF Portion
  <2>4. CASE LoopGoes(rop[w])
    <3>1. ~Drained
      BY <1>1, <2>4 DEF LoopGoes, Drained
    <3>2. Moves(w, "slot")
      BY <2>1, <2>4
    <3> QED
      BY <2>1, <2>3, <3>1, <3>2, PopQuiet
  <2>5. CASE ~LoopGoes(rop[w])
    <3>1. Moves(w, "add")
      BY <2>1, <2>5
    <3>2. rop[w].out = <<>> => Drained
      <4> SUFFICES ASSUME rop[w].out = <<>> PROVE head[Global] = tail[Global]
        BY <1>1 DEF Drained
      <4>1. rop[w].i = 0
        BY <2>3
      <4>2. rop[w].i < rop[w].max
        BY <2>3, <4>1
      <4> QED
        BY <1>1, <2>5, <4>2 DEF LoopGoes
    <3> QED
      BY <2>1, <2>3, <3>1, <3>2, PopQuiet
  <2> QED
    BY <2>4, <2>5
<1>7. CASE UnlockTail(w) \/ UnlockHead(w)
  <2>1. PICK pc \in {"hunlock", "done"} : Moves(w, pc)
    BY <1>1, <1>3, <1>7, QuietSteps
  <2>2. UNCHANGED <<buf, head, tail, count>> /\ rop[w].pc \in {"tunlock", "hunlock"}
    BY <1>1, <1>7, QuietSteps
  <2>3. ~Busy(w) /\ (rop[w].out = <<>> => Drained)
    BY <1>1, <2>2 DEF Busy, Portion
  <2> QED
    BY <2>1, <2>2, <2>3, PopQuiet
<1> QED
  BY <1>4, <1>5, <1>6, <1>7

LEMMA PopSlot ==
  ASSUME SchedInv, HandInv, Room, NEW w \in Workers, Using(w), InRing(w), Slot(w)
  PROVE  HandInv'
<1>1. /\ Shape /\ rop[w].fn = "pop" /\ rop[w].q = Global /\ Portion(w) /\ host' = host
      /\ \A v \in Workers : v # w => ~Busy(v) /\ rop'[v] = rop[v]
  BY PoppingFacts
<1>2. /\ UNCHANGED <<buf, head, tail, count>> /\ rop[w].pc = "slot"
      /\ rop'[w].pc = "index" /\ rop'[w].fn = rop[w].fn /\ rop'[w].q = rop[w].q
      /\ rop'[w].max = rop[w].max /\ rop'[w].i = rop[w].i
      /\ rop'[w].out = Append(rop[w].out, buf[Global][head[Global]])
  BY <1>1, SlotPop
<1>3. /\ head[Global] \in Nat /\ tail[Global] \in Nat /\ rop[w].i \in Nat /\ rop[w].out \in Seq(Int)
      /\ head[Global] < tail[Global] /\ tail[Global] <= NTasks /\ NTasks \in Nat
      /\ \A k \in 0 .. tail[Global] - 1 : buf[Global][k] = k + 1
  BY <1>2, PoppingFacts
<1>4. PICK x : x = head[Global] + 1
  OBVIOUS
<1>5. buf[Global][head[Global]] = x /\ x \in Tasks /\ x \in Int
  BY <1>3, <1>4 DEF Tasks
<1>6. PICK out \in Seq(Int) : out = rop[w].out
  BY <1>3
<1>8. PICK out2 : out2 = Append(out, x)
  OBVIOUS
<1>9. rop'[w].out = out2
  BY <1>2, <1>5, <1>6, <1>8
<1>10. /\ Len(out) \in Nat /\ Len(out2) = Len(out) + 1 /\ out2[Len(out) + 1] = x
       /\ \A k \in 1 .. Len(out) : out2[k] = out[k]
       /\ DOMAIN out = 1 .. Len(out) /\ DOMAIN out2 = 1 .. Len(out) + 1 /\ out2 # <<>>
  <2>1. /\ out2 \in Seq(Int) /\ Len(out2) = Len(out) + 1 /\ out2[Len(out) + 1] = x
        /\ \A k \in 1 .. Len(out) : out2[k] = out[k]
    BY <1>5, <1>6, <1>8, AppendProperties
  <2>2. Len(out) \in Nat /\ DOMAIN out = 1 .. Len(out) /\ DOMAIN out2 = 1 .. Len(out2)
    BY <1>6, <2>1, LenProperties
  <2>3. out2 # <<>>
    BY <2>1, <2>2
  <2> QED
    BY <2>1, <2>2, <2>3
<1>11. /\ Len(out) = rop[w].i /\ rop[w].i <= head[Global] /\ ~Drained
       /\ \A k \in DOMAIN out : out[k] \in Tasks
       /\ rop[w].max \in Nat /\ rop[w].max >= 1
  BY <1>1, <1>2, <1>6 DEF Portion
<1>12. Busy(w) /\ Busy(w)'
  BY <1>1, <1>2 DEF Busy, Using
<1>13. count[Global] = (tail[Global] - head[Global]) + rop[w].i
  BY <1>1, <1>12 DEF Portion
<1>14. Portion(w)'
  <2>1. ASSUME NEW k \in DOMAIN out2 PROVE out2[k] \in Tasks
    <3>1. k \in 1 .. Len(out) \/ k = Len(out) + 1
      BY <1>10, <2>1
    <3> QED
      BY <1>5, <1>10, <1>11, <3>1
  <2>2. Len(out2) = rop[w].i + 1 /\ out2[rop[w].i + 1] = head[Global] + 1
    BY <1>4, <1>10, <1>11
  <2>3. ~Drained'
    BY <1>1, <1>2, <1>11 DEF Drained
  <2> QED
    BY <1>2, <1>3, <1>9, <1>10, <1>11, <1>13, <2>1, <2>2, <2>3 DEF Portion
<1>15. Kept(w)
  <2>1. \A k \in DOMAIN out : k \in DOMAIN out2 /\ out2[k] = out[k]
    BY <1>10
  <2> QED
    BY <1>2, <1>6, <1>9, <2>1 DEF Kept
<1>16. Counted'
  BY <1>12 DEF Counted
<1> QED
  BY <1>2, <1>11, <1>14, <1>15, <1>16, PopHand

LEMMA PopLoadIndex ==
  ASSUME SchedInv, HandInv, Room, NEW w \in Workers, Using(w), InRing(w), LoadIndex(w)
  PROVE  HandInv'
<1>1. /\ Shape /\ Portion(w) /\ host' = host
  BY PoppingFacts
<1>2. /\ UNCHANGED <<buf, head, tail, count>> /\ rop[w].pc = "index"
      /\ rop'[w].pc = "move" /\ rop'[w].fn = rop[w].fn /\ rop'[w].q = rop[w].q
      /\ rop'[w].max = rop[w].max /\ rop'[w].i = rop[w].i /\ rop'[w].out = rop[w].out
  BY <1>1, LoadedIndex
<1>3. Busy(w) /\ Busy(w)' /\ (Drained' <=> Drained)
  BY <1>1, <1>2 DEF Busy, Using, Drained
<1>4. Portion(w)'
  BY <1>1, <1>2, <1>3 DEF Portion
<1>5. Kept(w)
  BY <1>2 DEF Kept
<1>6. Counted'
  BY <1>3 DEF Counted
<1> QED
  BY <1>2, <1>4, <1>5, <1>6, PopHand

LEMMA NoWrap ==
  ASSUME NEW h \in Nat, NEW t \in Nat, NEW C \in Nat, h < t, t < C
  PROVE  (h + 1) % C = h + 1
<1>1. h + 1 \in Nat /\ 0 <= h + 1 /\ h + 1 < C /\ C > 0
  OBVIOUS
<1> QED
  BY <1>1

LEMMA MovedCount ==
  ASSUME NEW h \in Nat, NEW t \in Nat, NEW n \in Nat, NEW c, n <= h, c = (t - h) + n
  PROVE  /\ n + 1 \in Nat /\ n + 1 <= h + 1
         /\ c = (t - (h + 1)) + (n + 1)
OBVIOUS

LEMMA PopMove ==
  ASSUME SchedInv, HandInv, Room, NEW w \in Workers, Using(w), InRing(w), MoveIndex(w)
  PROVE  HandInv'
<1>1. /\ Shape /\ rop[w].fn = "pop" /\ rop[w].q = Global /\ Portion(w) /\ host' = host
  BY PoppingFacts
<1>2. /\ UNCHANGED <<buf, count, tail>> /\ rop[w].pc = "move"
      /\ rop'[w].pc = "loop" /\ rop'[w].fn = rop[w].fn /\ rop'[w].q = rop[w].q
      /\ rop'[w].max = rop[w].max /\ rop'[w].i = rop[w].i + 1 /\ rop'[w].out = rop[w].out
      /\ head' = [head EXCEPT ![Global] = (rop[w].reg + 1) % Cap]
  BY <1>1, MovedIndex DEF AtTail
<1>3. /\ head[Global] \in Nat /\ tail[Global] \in Nat /\ rop[w].i \in Nat /\ rop[w].out \in Seq(Int)
      /\ head[Global] < tail[Global] /\ tail[Global] < Cap /\ Cap \in Nat
      /\ rop[w].reg = head[Global]
  BY <1>2, PoppingFacts
<1>4. head'[Global] = head[Global] + 1
  <2>1. (head[Global] + 1) % Cap = head[Global] + 1
    BY <1>3, NoWrap
  <2> QED
    BY <1>1, <1>2, <1>3, <2>1, Names DEF Shape
<1>5. /\ Len(rop[w].out) = rop[w].i + 1 /\ rop[w].i <= head[Global] /\ ~Drained
      /\ rop[w].out[rop[w].i + 1] = head[Global] + 1
      /\ \A k \in DOMAIN rop[w].out : rop[w].out[k] \in Tasks
      /\ rop[w].max \in Nat /\ rop[w].max >= 1
  BY <1>1, <1>2 DEF Portion
<1>6. Busy(w) /\ Busy(w)'
  BY <1>1, <1>2 DEF Busy, Using
<1>7. count[Global] = (tail[Global] - head[Global]) + rop[w].i
  BY <1>1, <1>6 DEF Portion
<1>8. Portion(w)'
  <2>1. /\ rop[w].i + 1 \in Nat /\ rop[w].i + 1 <= head[Global] + 1
        /\ count[Global] = (tail[Global] - (head[Global] + 1)) + (rop[w].i + 1)
    <3>1. PICK h \in Nat : h = head[Global]
      BY <1>3
    <3>2. PICK t \in Nat : t = tail[Global]
      BY <1>3
    <3>3. PICK n \in Nat : n = rop[w].i
      BY <1>3
    <3>4. n <= h /\ count[Global] = (t - h) + n
      BY <1>5, <1>7, <3>1, <3>2, <3>3
    <3>5. n + 1 \in Nat /\ n + 1 <= h + 1 /\ count[Global] = (t - (h + 1)) + (n + 1)
      BY <3>4, MovedCount
    <3> QED
      BY <3>1, <3>2, <3>3, <3>5
  <2> QED
    BY <1>2, <1>4, <1>5, <2>1 DEF Portion
<1>9. Kept(w)
  <2>1. ASSUME NEW t \in Tasks, t <= head[Global] + 1
        PROVE  t <= head[Global] \/ t = head[Global] + 1
    BY <1>3, <2>1 DEF Tasks
  <2>2. rop[w].i + 1 \in DOMAIN rop[w].out
    BY <1>3, <1>5, LenProperties
  <2> QED
    BY <1>2, <1>4, <1>5, <2>1, <2>2 DEF Kept
<1>10. Counted'
  BY <1>6 DEF Counted
<1> QED
  BY <1>2, <1>4, <1>5, <1>8, <1>9, <1>10, PopHand

LEMMA PopAdd ==
  ASSUME SchedInv, HandInv, Room, NEW w \in Workers, Using(w), InRing(w), Add(w)
  PROVE  HandInv'
<1>1. /\ Shape /\ rop[w].fn = "pop" /\ rop[w].q = Global /\ Portion(w) /\ host' = host
      /\ head[Global] \in Nat /\ tail[Global] \in Nat /\ rop[w].i \in Nat
      /\ \A v \in Workers : v # w => ~Busy(v) /\ rop'[v] = rop[v]
  BY PoppingFacts
<1>2. /\ UNCHANGED <<buf, head, tail>> /\ rop[w].pc = "add" /\ Moves(w, FirstUnlock(rop[w]))
      /\ count' = [count EXCEPT ![Global] = NewCount(rop[w])]
  BY <1>1, CountStep
<1>3. FirstUnlock(rop[w]) \in {"tunlock", "hunlock"}
  BY DEF FirstUnlock
<1>4. Busy(w) /\ ~Busy(w)' /\ (Drained' <=> Drained)
  BY <1>1, <1>2, <1>3 DEF Busy, Drained, Moves
<1>5. count[Global] = (tail[Global] - head[Global]) + rop[w].i
  BY <1>1, <1>4 DEF Portion
<1>6. count'[Global] = tail[Global] - head[Global]
  <2>1. NewCount(rop[w]) = count[Global] - rop[w].i
    BY <1>1 DEF NewCount, Pushes
  <2>2. count'[Global] = count[Global] - rop[w].i
    BY <1>1, <1>2, <2>1, Names DEF Shape
  <2> QED
    BY <1>1, <1>5, <2>2
<1>7. Portion(w)'
  BY <1>1, <1>2, <1>3, <1>4 DEF Portion, Moves
<1>8. Kept(w)
  BY <1>2 DEF Kept, Moves
<1>9. Counted'
  BY <1>2, <1>6 DEF Counted
<1> QED
  BY <1>2, <1>7, <1>8, <1>9, PopHand DEF Moves

LEMMA HandPop ==
  ASSUME SchedInv, HandInv, Room, NEW w \in Workers, Using(w), InRing(w)
  PROVE  HandInv'
<1>1. RingStep(w) /\ rop[w].pc \in PopPCs
  BY PoppingFacts
<1>2. ~Load(w) /\ ~Check(w)
  BY <1>1 DEF Load, Check, At, PopPCs, Held
<1> QED
  BY <1>1, <1>2, PopLocks, PopSlot, PopLoadIndex, PopMove, PopAdd DEF RingStep

-----------------------------------------------------------------------------
(* The global queue hands out every task: the theorem *)

LEMMA HandInvInit == Init => HandInv
<1> SUFFICES ASSUME Init PROVE HandInv
  OBVIOUS
<1>1. \A x \in Procs : rop[x] = NoCall
  BY DEF Init, RingInit
<1>2. \A x \in Procs : rop[x].fn = "none"
  BY <1>1, NoCallFields
<1>3. host.pc = "add" /\ \A w \in Workers : wk[w].pc = "unborn" /\ w \in Procs /\ w \in Rings
  BY Names DEF Init
<1>4. head[Global] = 0
  BY Names DEF Init, RingInit
<1>5. Counted
  BY <1>3 DEF Counted
<1>6. Covered
  <2>1. \A t \in Tasks : ~(t <= 0)
    BY DEF Tasks
  <2> QED
    BY <1>4, <2>1 DEF Covered
<1>7. \A w \in Workers : Calls(w) /\ ~Using(w) /\ Untouched(w)
  BY <1>2, <1>3 DEF Calls, Using, Untouched
<1>8. ASSUME NEW w \in Workers PROVE Level(w)
  <2>1. /\ count[w] = 0 /\ head[w] = 0 /\ tail[w] = 0 /\ buf[w] = [k \in Index |-> Null]
    BY <1>3 DEF Init, RingInit
  <2>2. Uncounted(w) = 0
    BY <1>2, <1>3 DEF Uncounted, MyCall
  <2>3. 0 \in Index /\ 0 % Cap = 0 /\ 0 + 0 = 0 /\ 0 .. 0 - 1 = {}
    BY CapAssumption DEF Index
  <2>4. Holds(w, 0)
    BY <2>1, <2>3 DEF Holds
  <2>5. InCall(w)
    BY <1>3 DEF InCall
  <2> QED
    BY <2>1, <2>2, <2>3, <2>4, <2>5 DEF Level
<1> QED
  BY <1>4, <1>5, <1>6, <1>7, <1>8 DEF HandInv

LEMMA HandInvStutter == HandInv /\ UNCHANGED vars => HandInv'
<1> SUFFICES ASSUME HandInv, UNCHANGED vars PROVE HandInv'
  OBVIOUS
<1>1. UNCHANGED <<buf, head, tail, count, rop, wk, host, handed>>
  BY DEF vars, ringVars
<1>2. Drained' <=> Drained
  BY <1>1 DEF Drained
<1>3. Covered' /\ Counted' /\ (host'.pc = "add" => head'[Global] = 0)
  BY <1>1 DEF HandInv, Covered, Counted, Busy, Using
<1>4. ASSUME NEW w \in Workers PROVE Calls(w)' /\ (Using(w)' => Portion(w)')
  <2>1. Calls(w) /\ (Using(w) => Portion(w))
    BY DEF HandInv
  <2>2. Calls(w)'
    BY <1>1, <1>2, <2>1 DEF Calls
  <2>3. Using(w)' => Portion(w)'
    BY <1>1, <1>2, <2>1 DEF Portion, Busy, Using
  <2> QED
    BY <2>2, <2>3
<1>5. ASSUME NEW w \in Workers, Guarded(w)' PROVE Level(w)' /\ Untouched(w)'
  <2>1. Guarded(w)
    BY <1>1, <1>2, <1>5 DEF Guarded, Carries
  <2>2. Level(w) /\ Untouched(w)
    BY <2>1 DEF HandInv
  <2>3. Level(w)'
    <3>1. Uncounted(w)' = Uncounted(w)
      BY <1>1 DEF Uncounted, MyCall
    <3>2. Holds(w, count[w] + Uncounted(w))'
      BY <1>1, <2>2, <3>1 DEF Level, Holds
    <3>3. /\ Taking(w, rop[w])' <=> Taking(w, rop[w])
          /\ Putting(w, rop[w])' <=> Putting(w, rop[w])
          /\ Requeueing(w, rop[w])' <=> Requeueing(w, rop[w])
          /\ Sharing(w, rop[w])' <=> Sharing(w, rop[w])
      BY <1>1 DEF Taking, Putting, Requeueing, Sharing
    <3> QED
      BY <1>1, <2>2, <3>2, <3>3 DEF Level, InCall
  <2>4. Untouched(w)'
    BY <1>1, <2>2 DEF Untouched
  <2> QED
    BY <2>3, <2>4
<1> QED
  BY <1>3, <1>4, <1>5 DEF HandInv

\* A worker in a ring function takes its share, works on its own queue or steals.
LEMMA HandRing ==
  ASSUME SchedInv, HandInv, Room, NEW w \in Workers, InRing(w)
  PROVE  HandInv'
<1>1. Calls(w) /\ Loops(w)
  BY DEF SchedInv, HandInv
<1>2. rop[w].fn # "none"
  BY DEF InRing, RingStep, LockHead, LockTail, Load, Check, Loop, Slot, LoadIndex, MoveIndex, Add,
         UnlockTail, UnlockHead, At
<1>3. Using(w) \/ MyCall(w) \/ wk[w].pc = "steal"
  BY <1>1, <1>2 DEF Calls, Loops, MyCall
<1> QED
  BY <1>3, HandPop, HandOwn, HandThief

LEMMA HandInvStep == SchedInv /\ HandInv /\ Room /\ [Next]_vars => HandInv'
<1> SUFFICES ASSUME SchedInv, HandInv, Room, Next PROVE HandInv'
  BY HandInvStutter
<1>1. CASE mcsched_add \/ mcsched_add_return \/ mcshed_start \/ mcsched_join
  BY <1>1, HandAdd, HandStart, HandJoin
<1>2. ASSUME NEW w \in Workers, mcsched_loop(w) PROVE HandInv'
  BY <1>2, HandLoop
<1>3. ASSUME NEW x \in Procs, InRing(x) PROVE HandInv'
  <2>1. CASE x = Host
    BY <1>3, <2>1, HandHostRing
  <2>2. CASE x \in Workers
    BY <1>3, <2>2, HandRing
  <2> QED
    BY <2>1, <2>2, NamesAssumption
<1> QED
  BY <1>1, <1>2, <1>3 DEF Next

LEMMA HandedOut == SchedInv /\ HandInv /\ Room => HandedOutOnce
<1> SUFFICES ASSUME SchedInv, HandInv, Room PROVE HandedOutOnce
  OBVIOUS
<1>1. ~Aborted
  BY DEF Aborted, HandInv, Calls
<1>2. HandedAtMostOnce
  BY OncePerTask
<1>3. ASSUME \A w \in Workers : Gone(w), NEW t \in Tasks PROVE handed[t] = 1
  <2>1. 0 \in Workers
    BY CoreAssumption DEF Workers
  <2>2. Drained /\ \A w \in Workers : ~Using(w)
    BY <1>3, <2>1 DEF HandInv, Calls, Gone, Using
  <2>3. tail[Global] = NTasks /\ head[Global] = tail[Global]
    BY <2>2, GlobalFacts DEF Drained
  <2>4. t <= head[Global]
    BY <2>3 DEF Tasks
  <2> QED
    BY <2>2, <2>4 DEF HandInv, Covered
<1> QED
  BY <1>1, <1>2, <1>3 DEF HandedOutOnce

\* HandedOutOnce for every number of workers: mcsched_loop gives every task to
\* exactly one worker, the assertion on ring_push never fails, and no worker leaves
\* while a task is still in the global queue.  The tasks must be fewer than
\* QUEUESIZE: mcsched_add does not look at a failed push, and a full queue has
\* head = tail, which ring_pop reads as empty.
THEOREM HandedOutHolds ==
  ASSUME NTasks < Cap
  PROVE  Spec => []HandedOutOnce
<1>1. Room
  BY DEF Room
<1>2. Init => SchedInv /\ HandInv
  BY SchedInvInit, HandInvInit
<1>3. (SchedInv /\ HandInv) /\ [Next]_vars => (SchedInv /\ HandInv)'
  BY <1>1, SchedInvStep, HandInvStep
<1>4. SchedInv /\ HandInv => HandedOutOnce
  BY <1>1, HandedOut
<1> QED
  BY <1>2, <1>3, <1>4, PTL DEF Spec

-----------------------------------------------------------------------------
(* One worker runs every task to its end: the invariant *)

\* How many elements are in worker w's queue, counted or not.
Filled(w) == count[w] + Uncounted(w)

\* Worker w holds one task outside of the queues, and which.
Handles(w) ==
  \/ wk[w].pc \in {"local", "again"} /\ rop[w].out # <<>> /\ rop[w].pc \in {"add"} \cup Released
  \/ wk[w].pc = "run"
  \/ wk[w].pc = "requeue" /\ rop[w].i = 0

HandTask(w) ==
  IF wk[w].pc = "run" THEN wk[w].e
  ELSE IF wk[w].pc = "requeue" THEN rop[w].in[1] ELSE rop[w].out[1]

\* The places of its share that are on their way from the global queue to its own.
Way(w) ==
  IF wk[w].pc = "global" THEN 1 .. rop[w].i
  ELSE IF wk[w].pc = "push" THEN rop[w].i + 1 .. Len(rop[w].in) ELSE {}

WayTask(w, k) == IF wk[w].pc = "global" THEN rop[w].out[k] ELSE rop[w].in[k]

Cell(w, s) == \E k \in 0 .. Filled(w) - 1 : s = (head[w] + k) % Cap

\* The places where worker w has tasks, numbered: -1 its hands, from 0 the cells of
\* its queue, above Cap its share.
Full(w, p) ==
  \/ p = -1 /\ Handles(w)
  \/ p \in Index /\ Cell(w, p)
  \/ p > Cap /\ p - Cap \in Way(w)

Task(w, p) ==
  IF p = -1 THEN HandTask(w) ELSE IF p \in Index THEN buf[w][p] ELSE WayTask(w, p - Cap)

\* Every task that left the global queue and has not exited is in one place.
Places(w) ==
  /\ \A p \in Int : Full(w, p) =>
       Task(w, p) \in Tasks /\ Task(w, p) <= head[Global] /\ state[Task(w, p)] = "RUNNABLE"
  /\ \A p, q \in Int : Full(w, p) /\ Full(w, q) /\ Task(w, p) = Task(w, q) => p = q
  /\ \A t \in Tasks : t <= head[Global] /\ state[t] = "RUNNABLE" =>
       \E p \in Int : Full(w, p) /\ Task(w, p) = t
  /\ \A t \in Tasks : t > head[Global] => state[t] = "RUNNABLE"

\* What is on its way in or out of worker w's queue, and room for it.
Passing(w) ==
  LET f == rop[w] IN
  /\ wk[w].pc \in {"unborn", "exit"} => count[w] = 0
  /\ wk[w].pc \in {"local", "again"} /\ f.pc \in {"index", "move"} => f.out[1] = buf[w][head[w]]
  /\ wk[w].pc \in {"requeue", "push"} /\ f.pc \in {"index", "move"} => buf[w][tail[w]] = f.in[f.i + 1]
  /\ wk[w].pc = "requeue" /\ f.pc \in Released => f.i = 1
  /\ wk[w].pc = "push" => Len(f.in) <= NTasks
  /\ Filled(w) <= IF Handles(w) THEN NTasks - 1 ELSE NTasks

SoloInv ==
  /\ state \in [Tasks -> {"RUNNABLE", "EXITED"}]
  /\ host.pc = "done" => \A w \in Workers : Gone(w)
  /\ \A w \in Workers : Places(w) /\ Passing(w)

-----------------------------------------------------------------------------
(* Where the tasks are, before and after a step *)

\* The step leaves every task where it is.
SameSpots(w) ==
  /\ Filled(w)' = Filled(w) /\ head'[w] = head[w]
  /\ \A s \in Index : Cell(w, s) => buf'[w][s] = buf[w][s]
  /\ Handles(w)' <=> Handles(w)
  /\ Handles(w) => HandTask(w)' = HandTask(w)
  /\ Way(w)' = Way(w)
  /\ \A k \in Way(w) : WayTask(w, k)' = WayTask(w, k)

\* Apart from places a and b nothing changes.
OtherSpots(w, a, b) ==
  \A p \in Int \ {a, b} : (Full(w, p)' <=> Full(w, p)) /\ (Full(w, p) => Task(w, p)' = Task(w, p))

LEMMA PlacesStay ==
  ASSUME NEW w \in Workers, Places(w), SameSpots(w), state' = state, head'[Global] = head[Global]
  PROVE  Places(w)'
<1>1. ASSUME NEW s \in Index PROVE Cell(w, s)' <=> Cell(w, s)
  BY DEF Cell, SameSpots
<1>2. ASSUME NEW p \in Int PROVE Full(w, p)' <=> Full(w, p)
  BY <1>1 DEF Full, SameSpots
<1>3. ASSUME NEW p \in Int, Full(w, p) PROVE Task(w, p)' = Task(w, p)
  <2>1. CASE p = -1
    <3>1. p \notin Index /\ ~(p > Cap)
      BY <2>1, CapAssumption DEF Index
    <3> QED
      BY <1>3, <2>1, <3>1 DEF Full, Task, SameSpots
  <2>2. CASE p \in Index
    <3>1. p # -1 /\ ~(p > Cap)
      BY <2>2, CapAssumption DEF Index
    <3> QED
      BY <1>3, <2>2, <3>1 DEF Full, Task, SameSpots
  <2>3. CASE p # -1 /\ p \notin Index
    BY <1>3, <2>3 DEF Full, Task, SameSpots
  <2> QED
    BY <2>1, <2>2, <2>3
<1>4. \A p \in Int : (Full(w, p)' <=> Full(w, p)) /\ (Full(w, p) => Task(w, p)' = Task(w, p))
  BY <1>2, <1>3
<1> HIDE DEF Places, Full, Task
<1>5. ASSUME NEW p \in Int, Full(w, p)'
      PROVE  Task(w, p)' \in Tasks /\ Task(w, p)' <= head'[Global] /\ state'[Task(w, p)'] = "RUNNABLE"
  BY <1>4, <1>5 DEF Places
<1>6. ASSUME NEW p \in Int, NEW q \in Int, Full(w, p)', Full(w, q)', Task(w, p)' = Task(w, q)'
      PROVE  p = q
  BY <1>4, <1>6 DEF Places
<1>7. ASSUME NEW t \in Tasks, t <= head'[Global], state'[t] = "RUNNABLE"
      PROVE  \E p \in Int : Full(w, p)' /\ Task(w, p)' = t
  BY <1>4, <1>7 DEF Places
<1>8. \A t \in Tasks : t > head'[Global] => state'[t] = "RUNNABLE"
  BY DEF Places
<1> QED
  BY <1>5, <1>6, <1>7, <1>8 DEF Places

\* One task moves from place a to place b.
LEMMA PlacesShift ==
  ASSUME NEW w \in Workers, Places(w), NEW a \in Int, NEW b \in Int, a # b, OtherSpots(w, a, b),
         Full(w, a), ~Full(w, b), ~Full(w, a)', Full(w, b)', Task(w, b)' = Task(w, a),
         state' = state, head'[Global] = head[Global]
  PROVE  Places(w)'
<1>1. ASSUME NEW p \in Int, Full(w, p)'
      PROVE  \E q \in Int : Full(w, q) /\ Task(w, q) = Task(w, p)' /\ (p = b => q = a) /\ (p # b => q = p)
  <2>1. CASE p = b
    BY <2>1
  <2>2. CASE p # b
    <3>1. p # a
      BY <1>1
    <3> QED
      BY <1>1, <2>2, <3>1 DEF OtherSpots
  <2> QED
    BY <2>1, <2>2
<1>2. ASSUME NEW p \in Int, Full(w, p)'
      PROVE  Task(w, p)' \in Tasks /\ Task(w, p)' <= head'[Global] /\ state'[Task(w, p)'] = "RUNNABLE"
  BY <1>1, <1>2 DEF Places
<1>3. ASSUME NEW p \in Int, NEW q \in Int, Full(w, p)', Full(w, q)', Task(w, p)' = Task(w, q)'
      PROVE  p = q
  <2>1. PICK x \in Int : Full(w, x) /\ Task(w, x) = Task(w, p)' /\ (p = b => x = a) /\ (p # b => x = p)
    BY <1>1, <1>3
  <2>2. PICK y \in Int : Full(w, y) /\ Task(w, y) = Task(w, q)' /\ (q = b => y = a) /\ (q # b => y = q)
    BY <1>1, <1>3
  <2>3. x = y
    BY <1>3, <2>1, <2>2 DEF Places
  <2>4. p # a /\ q # a
    BY <1>3
  <2> QED
    BY <2>1, <2>2, <2>3, <2>4
<1>4. ASSUME NEW t \in Tasks, t <= head'[Global], state'[t] = "RUNNABLE"
      PROVE  \E p \in Int : Full(w, p)' /\ Task(w, p)' = t
  <2>1. PICK x \in Int : Full(w, x) /\ Task(w, x) = t
    BY <1>4 DEF Places
  <2>2. CASE x = a
    BY <2>1, <2>2
  <2>3. CASE x # a
    <3>1. x # b
      BY <2>1
    <3> QED
      BY <2>1, <2>3, <3>1 DEF OtherSpots
  <2> QED
    BY <2>2, <2>3
<1>5. \A t \in Tasks : t > head'[Global] => state'[t] = "RUNNABLE"
  BY DEF Places
<1> QED
  BY <1>2, <1>3, <1>4, <1>5 DEF Places

\* A task comes from the global queue to place b.
LEMMA PlacesGain ==
  ASSUME NEW w \in Workers, Places(w), NEW b \in Int, OtherSpots(w, b, b),
         ~Full(w, b), Full(w, b)', NEW h \in Nat, h = head[Global], head'[Global] = h + 1,
         h + 1 \in Tasks, Task(w, b)' = h + 1, state' = state
  PROVE  Places(w)'
<1>1. \A t \in Tasks : t \in Nat
  BY SizeAssumption DEF Tasks
<1>2. ASSUME NEW p \in Int, p # b, Full(w, p)'
      PROVE  /\ Full(w, p) /\ Task(w, p)' = Task(w, p) /\ Task(w, p) \in Tasks
             /\ Task(w, p) <= h /\ state[Task(w, p)] = "RUNNABLE" /\ Task(w, p) # h + 1
  <2>1. Full(w, p) /\ Task(w, p)' = Task(w, p)
    BY <1>2 DEF OtherSpots
  <2>2. Task(w, p) \in Tasks /\ Task(w, p) <= h /\ state[Task(w, p)] = "RUNNABLE"
    BY <2>1 DEF Places
  <2>3. PICK u \in Nat : u = Task(w, p)
    BY <1>1, <2>2
  <2>4. u # h + 1
    BY <2>2, <2>3
  <2> QED
    BY <2>1, <2>2, <2>3, <2>4
<1>3. state[h + 1] = "RUNNABLE"
  <2>1. h + 1 > h
    OBVIOUS
  <2> QED
    BY <2>1 DEF Places
<1>4. ASSUME NEW p \in Int, Full(w, p)'
      PROVE  Task(w, p)' \in Tasks /\ Task(w, p)' <= head'[Global] /\ state'[Task(w, p)'] = "RUNNABLE"
  <2>1. CASE p = b
    BY <1>3, <2>1
  <2>2. CASE p # b
    <3>1. PICK u \in Nat : u = Task(w, p)
      BY <1>1, <1>2, <1>4, <2>2
    <3>2. u <= h /\ u <= h + 1
      BY <1>2, <1>4, <2>2, <3>1
    <3> QED
      BY <1>2, <1>4, <2>2, <3>1, <3>2
  <2> QED
    BY <2>1, <2>2
<1>5. ASSUME NEW p \in Int, NEW q \in Int, Full(w, p)', Full(w, q)', Task(w, p)' = Task(w, q)'
      PROVE  p = q
  <2>1. CASE p = b \/ q = b
    BY <1>2, <1>5, <2>1
  <2>2. CASE p # b /\ q # b
    BY <1>2, <1>5, <2>2 DEF Places
  <2> QED
    BY <2>1, <2>2
<1>6. ASSUME NEW t \in Tasks, t <= head'[Global], state'[t] = "RUNNABLE"
      PROVE  \E p \in Int : Full(w, p)' /\ Task(w, p)' = t
  <2>1. t <= h \/ t = h + 1
    BY <1>1, <1>6
  <2>2. CASE t = h + 1
    BY <2>2
  <2>3. CASE t <= h
    <3>1. PICK x \in Int : Full(w, x) /\ Task(w, x) = t
      BY <1>6, <2>3 DEF Places
    <3>2. x # b
      BY <3>1
    <3> QED
      BY <3>1, <3>2 DEF OtherSpots
  <2> QED
    BY <2>1, <2>2, <2>3
<1>7. ASSUME NEW t \in Tasks, t > head'[Global] PROVE state'[t] = "RUNNABLE"
  <2>1. t > h
    BY <1>1, <1>7
  <2> QED
    BY <2>1 DEF Places
<1> QED
  BY <1>4, <1>5, <1>6, <1>7 DEF Places

\* The task in place a exits.
LEMMA PlacesLose ==
  ASSUME NEW w \in Workers, Places(w), NEW a \in Int, OtherSpots(w, a, a),
         Full(w, a), ~Full(w, a)', head'[Global] = head[Global], head[Global] \in Nat,
         DOMAIN state = Tasks, state' = [state EXCEPT ![Task(w, a)] = "EXITED"]
  PROVE  Places(w)'
<1>1. \A t \in Tasks : t \in Nat
  BY SizeAssumption DEF Tasks
<1>2. Task(w, a) \in Tasks /\ Task(w, a) <= head[Global]
  BY DEF Places
<1>3. \A t \in Tasks : state'[t] = IF t = Task(w, a) THEN "EXITED" ELSE state[t]
  BY <1>2
<1>4. ASSUME NEW p \in Int, Full(w, p)'
      PROVE  Full(w, p) /\ Task(w, p)' = Task(w, p) /\ Task(w, p) # Task(w, a)
  <2>1. p # a
    BY <1>4
  <2>2. Full(w, p) /\ Task(w, p)' = Task(w, p)
    BY <1>4, <2>1 DEF OtherSpots
  <2> QED
    BY <2>1, <2>2 DEF Places
<1>5. ASSUME NEW p \in Int, Full(w, p)'
      PROVE  Task(w, p)' \in Tasks /\ Task(w, p)' <= head'[Global] /\ state'[Task(w, p)'] = "RUNNABLE"
  BY <1>3, <1>4, <1>5 DEF Places
<1>6. ASSUME NEW p \in Int, NEW q \in Int, Full(w, p)', Full(w, q)', Task(w, p)' = Task(w, q)'
      PROVE  p = q
  BY <1>4, <1>6 DEF Places
<1>7. ASSUME NEW t \in Tasks, t <= head'[Global], state'[t] = "RUNNABLE"
      PROVE  \E p \in Int : Full(w, p)' /\ Task(w, p)' = t
  <2>1. t # Task(w, a) /\ state[t] = "RUNNABLE"
    BY <1>3, <1>7
  <2>2. PICK x \in Int : Full(w, x) /\ Task(w, x) = t
    BY <1>7, <2>1 DEF Places
  <2>3. x # a
    BY <2>1, <2>2
  <2> QED
    BY <2>2, <2>3 DEF OtherSpots
<1>8. ASSUME NEW t \in Tasks, t > head'[Global] PROVE state'[t] = "RUNNABLE"
  <2>1. t # Task(w, a)
    BY <1>1, <1>2, <1>8
  <2> QED
    BY <1>3, <1>8, <2>1 DEF Places
<1> QED
  BY <1>5, <1>6, <1>7, <1>8 DEF Places

-----------------------------------------------------------------------------
(* How many elements the queue holds *)

LEMMA FilledQuiet ==
  ASSUME NEW w \in Workers, count'[w] = count[w],
         rop'[w].fn = rop[w].fn, rop'[w].q = rop[w].q, rop'[w].i = rop[w].i,
         rop[w].i = 0 \/ (rop'[w].pc \in Released <=> rop[w].pc \in Released)
  PROVE  Filled(w)' = Filled(w)
  BY UncountedStays DEF Filled

LEMMA FilledAdd ==
  ASSUME Shape, NEW w \in Workers, MyCall(w), Add(w), count[w] \in Nat, rop[w].i \in Nat
  PROVE  Filled(w)' = Filled(w)
<1>1. /\ rop[w].pc = "add" /\ Moves(w, FirstUnlock(rop[w])) /\ rop[w].q = w
      /\ count' = [count EXCEPT ![w] = NewCount(rop[w])]
  BY CountStep DEF MyCall
<1>2. FirstUnlock(rop[w]) \in Released /\ rop[w].pc \notin Released
  BY <1>1 DEF FirstUnlock, Released
<1>3. count'[w] = NewCount(rop[w])
  BY <1>1, Names DEF Shape
<1>4. Uncounted(w)' = 0
  BY <1>1, <1>2 DEF Uncounted, Moves
<1>5. CASE Pushes(rop[w].fn)
  <2>1. Uncounted(w) = rop[w].i /\ count'[w] = count[w] + rop[w].i
    BY <1>1, <1>2, <1>3, <1>5 DEF Uncounted, NewCount
  <2>2. (count[w] + rop[w].i) + 0 = count[w] + rop[w].i
    OBVIOUS
  <2> QED
    BY <1>4, <2>1, <2>2 DEF Filled
<1>6. CASE ~Pushes(rop[w].fn)
  <2>1. Uncounted(w) = 0 - rop[w].i /\ count'[w] = count[w] - rop[w].i
    BY <1>1, <1>2, <1>3, <1>6 DEF Uncounted, NewCount
  <2>2. (count[w] - rop[w].i) + 0 = count[w] + (0 - rop[w].i)
    OBVIOUS
  <2> QED
    BY <1>4, <2>1, <2>2 DEF Filled
<1> QED
  BY <1>5, <1>6

LEMMA FilledMove ==
  ASSUME Shape, NEW w \in Workers, MyCall(w), MoveIndex(w), rop[w].fn # "pop_back",
         count[w] \in Nat, rop[w].i \in Nat
  PROVE  /\ Pushes(rop[w].fn) => Filled(w)' = Filled(w) + 1
         /\ ~Pushes(rop[w].fn) => Filled(w)' = Filled(w) - 1
<1>1. /\ rop[w].pc = "move" /\ rop'[w].pc \in {"loop", "add"} /\ count' = count
      /\ rop'[w].fn = rop[w].fn /\ rop'[w].q = rop[w].q /\ rop'[w].i = rop[w].i + 1
  BY MovedIndex
<1>2. MyCall(w)' /\ rop[w].pc \notin Released /\ rop'[w].pc \notin Released
  BY <1>1 DEF MyCall, Released
<1>3. CASE Pushes(rop[w].fn)
  <2>1. Uncounted(w) = rop[w].i /\ Uncounted(w)' = rop[w].i + 1
    BY <1>1, <1>2, <1>3 DEF Uncounted
  <2>2. count[w] + (rop[w].i + 1) = (count[w] + rop[w].i) + 1
    OBVIOUS
  <2> QED
    BY <1>1, <1>3, <2>1, <2>2 DEF Filled
<1>4. CASE ~Pushes(rop[w].fn)
  <2>1. Uncounted(w) = 0 - rop[w].i /\ Uncounted(w)' = 0 - (rop[w].i + 1)
    BY <1>1, <1>2, <1>4 DEF Uncounted
  <2>2. count[w] + (0 - (rop[w].i + 1)) = (count[w] + (0 - rop[w].i)) - 1
    OBVIOUS
  <2> QED
    BY <1>1, <1>4, <2>1, <2>2 DEF Filled
<1> QED
  BY <1>3, <1>4

\* The cell at tail is free while the queue has room.
LEMMA FreeTail ==
  ASSUME NEW w \in Workers, NEW n \in Nat, n = Filled(w), n < Cap,
         head[w] \in Index, NEW c, c = tail[w], tail[w] = (head[w] + n) % Cap
  PROVE  c \in Index /\ ~Cell(w, c)
<1>1. PICK h \in Nat : h = head[w]
  BY DEF Index
<1>2. c \in Index /\ c = (h + n) % Cap
  <2>1. h + n \in Nat
    OBVIOUS
  <2> QED
    BY <1>1, <2>1, NextPlace
<1>3. ASSUME NEW k \in 0 .. n - 1 PROVE (h + k) % Cap # (h + n) % Cap
  <2>1. h + k \in Nat /\ h + n \in Nat /\ h + k < h + n /\ h + n < (h + k) + Cap
    BY CapAssumption
  <2> QED
    BY <2>1, Apart
<1> QED
  BY <1>1, <1>2, <1>3 DEF Cell

\* The cell that tail reaches and the one that head leaves.
LEMMA CellsPush ==
  ASSUME NEW w \in Workers, NEW n \in Nat, n = Filled(w), n < Cap, Filled(w)' = n + 1,
         head[w] \in Index, head'[w] = head[w],
         NEW c, c = tail[w], tail[w] = (head[w] + n) % Cap
  PROVE  /\ c \in Index /\ ~Cell(w, c) /\ Cell(w, c)'
         /\ \A s \in Index \ {c} : Cell(w, s)' <=> Cell(w, s)
<1>1. PICK h \in Nat : h = head[w]
  BY DEF Index
<1>2. c \in Index /\ c = (h + n) % Cap /\ ~Cell(w, c)
  BY <1>1, FreeTail
<1>3. Cell(w, c)'
  <2>1. n \in 0 .. (n + 1) - 1
    OBVIOUS
  <2>2. \E k \in 0 .. (n + 1) - 1 : c = (head'[w] + k) % Cap
    BY <1>1, <1>2, <2>1
  <2> QED
    BY <2>2 DEF Cell
<1>4. ASSUME NEW s \in Index, s # c PROVE Cell(w, s)' <=> Cell(w, s)
  <2>1. \A k \in 0 .. (n + 1) - 1 : k \in 0 .. n - 1 \/ k = n
    OBVIOUS
  <2>2. \A k \in 0 .. n - 1 : k \in 0 .. (n + 1) - 1
    OBVIOUS
  <2> QED
    BY <1>4, <2>1, <2>2 DEF Cell
<1> QED
  BY <1>2, <1>3, <1>4

LEMMA CellsPop ==
  ASSUME NEW w \in Workers, NEW n \in Nat, n = Filled(w), n >= 1, n <= Cap, Filled(w)' = n - 1,
         head[w] \in Index, NEW c, c = head[w], head'[w] = (head[w] + 1) % Cap
  PROVE  /\ Cell(w, c) /\ ~Cell(w, c)'
         /\ \A s \in Index \ {c} : Cell(w, s)' <=> Cell(w, s)
<1>1. PICK h \in Nat : h = head[w] /\ h = c /\ h < Cap
  BY CapAssumption DEF Index
<1>2. h % Cap = h
  BY <1>1, CapAssumption
<1>3. ASSUME NEW k \in Nat PROVE (head'[w] + k) % Cap = (h + (k + 1)) % Cap
  <2>1. h + 1 \in Nat /\ (h + 1) + k = h + (k + 1)
    OBVIOUS
  <2> QED
    BY <1>1, <2>1, PlaceAfter
<1>4. ASSUME NEW k \in 0 .. (n - 1) - 1 PROVE h % Cap # (h + (k + 1)) % Cap
  <2>1. h + (k + 1) \in Nat /\ h < h + (k + 1) /\ h + (k + 1) < h + Cap
    BY CapAssumption
  <2> QED
    BY <2>1, Apart
<1>5. Cell(w, c)
  <2>1. 0 \in 0 .. n - 1 /\ (h + 0) % Cap = h
    BY <1>2
  <2> QED
    BY <1>1, <2>1 DEF Cell
<1>6. ~Cell(w, c)'
  <2>1. ASSUME NEW k \in 0 .. (n - 1) - 1 PROVE h # (head'[w] + k) % Cap
    <3>1. k \in Nat
      OBVIOUS
    <3> QED
      BY <1>2, <1>3, <1>4, <3>1
  <2> QED
    BY <1>1, <2>1 DEF Cell
<1>7. ASSUME NEW s \in Index, s # c PROVE Cell(w, s)' <=> Cell(w, s)
  <2>1. ASSUME Cell(w, s)' PROVE Cell(w, s)
    <3>1. PICK k \in 0 .. (n - 1) - 1 : s = (head'[w] + k) % Cap
      BY <2>1 DEF Cell
    <3>2. k \in Nat /\ k + 1 \in 0 .. n - 1
      OBVIOUS
    <3>3. s = (h + (k + 1)) % Cap
      BY <1>3, <3>1, <3>2
    <3> QED
      BY <1>1, <3>2, <3>3 DEF Cell
  <2>2. ASSUME Cell(w, s) PROVE Cell(w, s)'
    <3>1. PICK k \in 0 .. n - 1 : s = (h + k) % Cap
      BY <1>1, <2>2 DEF Cell
    <3>2. k # 0
      <4>1. ASSUME k = 0 PROVE FALSE
        <5>1. h + k = h
          BY <4>1
        <5> QED
          BY <1>1, <1>2, <1>7, <3>1, <5>1
      <4> QED
        BY <4>1
    <3>3. PICK j \in Nat : j = k - 1
      BY <3>2
    <3>4. j \in 0 .. (n - 1) - 1 /\ j + 1 = k
      BY <3>2, <3>3
    <3>5. s = (head'[w] + j) % Cap
      BY <1>3, <3>1, <3>3, <3>4
    <3> QED
      BY <3>4, <3>5 DEF Cell
  <2> QED
    BY <2>1, <2>2
<1> QED
  BY <1>5, <1>6, <1>7

-----------------------------------------------------------------------------
(* One worker: the steps of mcsched_loop *)

Solo == NCore = 1 /\ Room /\ SchedInv /\ HandInv /\ SoloInv

LEMMA SoloFacts ==
  ASSUME Solo, NEW w \in Workers
  PROVE  /\ Workers = {w} /\ Shape /\ Loops(w) /\ Calls(w) /\ Level(w) /\ InCall(w)
         /\ Places(w) /\ Passing(w) /\ (Using(w) => Portion(w))
         /\ Holds(w, Filled(w)) /\ Filled(w) \in Nat /\ count[w] \in Nat /\ head[w] \in Index
         /\ tail[w] = (head[w] + Filled(w)) % Cap /\ DOMAIN buf[w] = Index
         /\ head[Global] \in Nat /\ tail[Global] \in Nat /\ head[Global] <= tail[Global]
         /\ tail[Global] <= NTasks /\ NTasks < Cap /\ NTasks \in Nat /\ Cap \in Nat
         /\ DOMAIN state = Tasks
         /\ (wk[w].pc # "exit" => host.pc # "done")
<1>1. Workers = {w}
  BY DEF Solo, Workers
<1>2. /\ Shape /\ Loops(w) /\ Calls(w) /\ Level(w) /\ Places(w) /\ Passing(w)
      /\ (Using(w) => Portion(w))
  BY DEF Solo, SchedInv, HandInv, SoloInv, Guarded
<1>3. Holds(w, Filled(w)) /\ InCall(w)
  BY <1>2 DEF Level, Filled
<1>4. /\ Filled(w) \in Nat /\ count[w] \in Nat /\ head[w] \in Index
      /\ tail[w] = (head[w] + Filled(w)) % Cap /\ DOMAIN buf[w] = Index
  BY <1>3 DEF Holds
<1>5. /\ head[Global] \in Nat /\ tail[Global] \in Nat /\ head[Global] <= tail[Global]
      /\ tail[Global] <= NTasks
  BY GlobalFacts DEF Solo
<1>6. NTasks < Cap /\ NTasks \in Nat /\ Cap \in Nat
  BY SizeAssumption, CapAssumption DEF Solo, Room
<1>7. DOMAIN state = Tasks /\ (wk[w].pc # "exit" => host.pc # "done")
  BY DEF Solo, SoloInv, Gone
<1> QED
  BY <1>1, <1>2, <1>3, <1>4, <1>5, <1>6, <1>7

LEMMA SoloStep ==
  ASSUME Solo, NEW w \in Workers, state' \in [Tasks -> {"RUNNABLE", "EXITED"}], host' = host,
         wk[w].pc # "exit", Places(w)', Passing(w)'
  PROVE  SoloInv'
<1>1. Workers = {w} /\ host.pc # "done"
  BY SoloFacts
<1> QED
  BY <1>1 DEF SoloInv

\* Between two calls worker w's queue is what its count says.
LEMMA SoloBetween ==
  ASSUME Solo, NEW w \in Workers, UNCHANGED <<buf, head, tail, count, host>>,
         rop[w].fn = "none" \/ rop[w].pc = "done", rop'[w].i = 0, rop'[w].fn # "pop_back"
  PROVE  /\ Filled(w)' = Filled(w) /\ Filled(w) = count[w]
         /\ \A s \in Index : Cell(w, s)' <=> Cell(w, s)
<1>1. Uncounted(w) = 0
  BY DEF Uncounted, MyCall, Released
<1>2. Uncounted(w)' = 0
  <2>1. 0 - rop'[w].i = 0
    OBVIOUS
  <2> QED
    BY <2>1 DEF Uncounted
<1>3. count[w] + 0 = count[w]
  BY SoloFacts
<1>4. Filled(w)' = Filled(w) /\ Filled(w) = count[w]
  BY <1>1, <1>2, <1>3 DEF Filled
<1> QED
  BY <1>4 DEF Cell

\* A step of the loop after which worker w has what it had.
LEMMA SoloKeeps ==
  ASSUME Solo, NEW w \in Workers, UNCHANGED <<buf, head, tail, count, host, state>>,
         wk[w].pc # "exit", rop[w].fn = "none" \/ rop[w].pc = "done",
         rop'[w].i = 0, rop'[w].fn # "pop_back",
         Handles(w)' <=> Handles(w), Handles(w) => HandTask(w)' = HandTask(w),
         Way(w)' = Way(w), \A k \in Way(w) : WayTask(w, k)' = WayTask(w, k),
         wk'[w].pc = "exit" => count[w] = 0, wk'[w].pc # "unborn",
         rop'[w].pc \in {"load", "hlock", "done"}, wk'[w].pc = "requeue" => rop'[w].pc = "load",
         wk'[w].pc = "push" => Len(rop'[w].in) <= NTasks
  PROVE  SoloInv'
<1>1. Filled(w)' = Filled(w)
  BY SoloBetween
<1>2. SameSpots(w)
  BY <1>1 DEF SameSpots
<1>3. Places(w)'
  BY <1>2, PlacesStay, SoloFacts
<1>4. Filled(w) <= IF Handles(w) THEN NTasks - 1 ELSE NTasks
  BY SoloFacts DEF Passing
<1>5. Passing(w)'
  BY <1>1, <1>4 DEF Passing, Released
<1>6. state' \in [Tasks -> {"RUNNABLE", "EXITED"}]
  BY DEF Solo, SoloInv
<1> QED
  BY <1>3, <1>5, <1>6, SoloStep

LEMMA SoloRuns ==
  ASSUME Solo, NEW w \in Workers, LocalHit(w) \/ Again(w)
  PROVE  SoloInv'
<1>1. /\ Shape /\ Calls(w) /\ InCall(w)
  BY SoloFacts
<1>2. /\ wk[w].pc \in {"local", "again"} /\ rop[w].pc = "done" /\ NoRing(w)
      /\ UNCHANGED <<buf, head, tail, count, host, state>>
  BY DEF LocalHit, Again, Back, Returned, ringData
<1>3. Taking(w, rop[w])
  BY <1>1, <1>2 DEF InCall
<1>4. Result(w) # Null /\ rop[w].out # <<>> /\ Result(w) = rop[w].out[1]
  <2>1. CASE LocalHit(w)
    BY <2>1 DEF LocalHit, Result
  <2>2. CASE Again(w)
    <3>1. rop[w].out # <<>> /\ rop[w].out[1] # Null
      BY <1>2, <1>3, <2>2 DEF Taking, Again, Back
    <3> QED
      BY <3>1 DEF Result
  <2> QED
    BY <2>1, <2>2
<1>5. Step(w, "run", Result(w), 0)
  BY <1>4 DEF LocalHit, Again
<1>6. wk'[w].pc = "run" /\ wk'[w].e = rop[w].out[1]
  BY <1>1, <1>4, <1>5, StepFields
<1>7. rop'[w].fn = "none" /\ rop'[w].i = 0 /\ rop'[w].pc = "done"
  BY <1>1, <1>2, EndsCall
<1>8. Handles(w) /\ Handles(w)' /\ HandTask(w)' = HandTask(w)
  BY <1>2, <1>4, <1>6 DEF Handles, HandTask, Released
<1>9. Way(w) = {} /\ Way(w)' = {}
  BY <1>2, <1>6 DEF Way
<1> QED
  BY <1>2, <1>6, <1>7, <1>8, <1>9, SoloKeeps

LEMMA SoloLocalMiss ==
  ASSUME Solo, NEW w \in Workers, LocalMiss(w)
  PROVE  SoloInv'
<1>1. /\ Shape /\ InCall(w)
  BY SoloFacts
<1>2. /\ wk[w].pc = "local" /\ rop[w].pc = "done" /\ Result(w) = Null
      /\ Step(w, "global", Null, 0)
      /\ Call(w, "pop", Global, <<>>, (count[Global] \div NCore) + 1)
      /\ UNCHANGED <<buf, head, tail, count, host, state>>
  BY DEF LocalMiss, Back, Returned, ringData
<1>3. wk'[w].pc = "global"
  BY <1>1, <1>2, StepFields
<1>4. rop'[w].fn = "pop" /\ rop'[w].i = 0 /\ rop'[w].pc = "hlock"
  BY <1>1, <1>2, BeginsCall
<1>5. rop[w].out = <<>>
  BY <1>1, <1>2 DEF InCall, Taking, Result
<1>6. ~Handles(w) /\ ~Handles(w)'
  BY <1>2, <1>3, <1>5 DEF Handles
<1>7. Way(w) = {} /\ Way(w)' = {}
  BY <1>2, <1>3, <1>4 DEF Way
<1> QED
  BY <1>2, <1>3, <1>4, <1>6, <1>7, SoloKeeps

LEMMA SoloGlobalHit ==
  ASSUME Solo, NEW w \in Workers, GlobalHit(w)
  PROVE  SoloInv'
<1>1. /\ Shape /\ Loops(w) /\ (Using(w) => Portion(w)) /\ head[Global] \in Nat /\ NTasks \in Nat
      /\ head[Global] <= NTasks
  BY SoloFacts
<1>2. /\ wk[w].pc = "global" /\ rop[w].pc = "done"
      /\ Step(w, "push", Null, 0) /\ Call(w, "push", w, rop[w].out, 0)
      /\ UNCHANGED <<buf, head, tail, count, host, state>>
  BY DEF GlobalHit, Back, Returned, ringData
<1>3. wk'[w].pc = "push"
  BY <1>1, <1>2, StepFields
<1>4. rop'[w].fn = "push" /\ rop'[w].i = 0 /\ rop'[w].pc = "hlock" /\ rop'[w].in = rop[w].out
  BY <1>1, <1>2, BeginsCall
<1>5. Len(rop[w].out) = rop[w].i /\ rop[w].i \in Nat /\ rop[w].i <= head[Global]
  BY <1>1, <1>2 DEF Loops, Portion
<1>6. Len(rop'[w].in) <= NTasks
  BY <1>1, <1>4, <1>5
<1>7. ~Handles(w) /\ ~Handles(w)'
  BY <1>2, <1>3 DEF Handles
<1>8. Way(w)' = Way(w)
  BY <1>2, <1>3, <1>4, <1>5 DEF Way
<1>9. \A k \in Way(w) : WayTask(w, k)' = WayTask(w, k)
  BY <1>2, <1>3, <1>4 DEF WayTask
<1> QED
  BY <1>2, <1>3, <1>4, <1>6, <1>7, <1>8, <1>9, SoloKeeps

LEMMA SoloGlobalMiss ==
  ASSUME Solo, NEW w \in Workers, GlobalMiss(w)
  PROVE  SoloInv'
<1>1. /\ Shape /\ Loops(w) /\ InCall(w) /\ (Using(w) => Portion(w))
  BY SoloFacts
<1>2. /\ wk[w].pc = "global" /\ rop[w].pc = "done" /\ rop[w].out = <<>> /\ StealFrom(w, 0, Null)
      /\ UNCHANGED <<buf, head, tail, count, host, state>>
  BY DEF GlobalMiss, Back, Returned, ringData
<1>3. HandInv'
  BY HandLoop DEF mcsched_loop, Solo
<1>4. wk'[w].pc # "steal"
  BY <1>3 DEF HandInv, Calls, Solo
<1>5. Step(w, "exit", Null, 0) /\ NoRing(w)
  <2>1. CASE Victim(w, 0) < NCore
    <3>1. Step(w, "steal", Null, Victim(w, 0))
      BY <1>2, <2>1 DEF StealFrom
    <3> QED
      BY <1>1, <1>4, <3>1, StepFields
  <2>2. CASE ~(Victim(w, 0) < NCore)
    BY <1>2, <2>2 DEF StealFrom
  <2> QED
    BY <2>1, <2>2
<1>6. wk'[w].pc = "exit"
  BY <1>1, <1>5, StepFields
<1>7. rop'[w].fn = "none" /\ rop'[w].i = 0 /\ rop'[w].pc = "done"
  BY <1>1, <1>5, EndsCall
<1>8. rop[w].i = 0 /\ count[w] = 0
  <2>1. Len(rop[w].out) = rop[w].i /\ count[w] = 0
    BY <1>1, <1>2 DEF Loops, Portion, InCall
  <2> QED
    BY <1>2, <2>1
<1>9. ~Handles(w) /\ ~Handles(w)'
  BY <1>2, <1>6 DEF Handles
<1>10. Way(w) = {} /\ Way(w)' = {}
  BY <1>2, <1>6, <1>8 DEF Way
<1> QED
  BY <1>2, <1>6, <1>7, <1>8, <1>9, <1>10, SoloKeeps

\* The share is in the queue, or the task that yielded.
LEMMA SoloStored ==
  ASSUME Solo, NEW w \in Workers, PushDone(w) \/ Requeued(w)
  PROVE  SoloInv'
<1>1. /\ Shape /\ Calls(w) /\ InCall(w) /\ Passing(w)
  BY SoloFacts
<1>2. /\ wk[w].pc \in {"push", "requeue"} /\ rop[w].pc = "done"
      /\ UNCHANGED <<buf, head, tail, count, host, state>>
  BY DEF PushDone, Requeued, Back, Returned, ringData
<1>3. /\ wk[w].pc = "push" => rop[w].i = Len(rop[w].in) /\ Len(rop[w].in) \in Nat
      /\ wk[w].pc = "requeue" => rop[w].i = 1
  BY <1>1, <1>2 DEF Calls, Passing, Released, InCall, Sharing
<1>4. PICK pc \in {"again", "local"} : Step(w, pc, Null, 0)
  BY <1>3 DEF PushDone, Requeued, Back
<1>5. Call(w, "pop_one", w, <<>>, 1)
  BY <1>3 DEF PushDone, Requeued, Back
<1>6. wk'[w].pc \in {"again", "local"}
  BY <1>1, <1>4, StepFields
<1>7. rop'[w].fn = "pop_one" /\ rop'[w].i = 0 /\ rop'[w].pc = "load" /\ rop'[w].out = <<>>
  BY <1>1, <1>5, BeginsCall
<1>8. ~Handles(w) /\ ~Handles(w)'
  BY <1>2, <1>3, <1>6, <1>7 DEF Handles
<1>9. Way(w) = {} /\ Way(w)' = {}
  BY <1>2, <1>3, <1>6 DEF Way
<1> QED
  BY <1>2, <1>6, <1>7, <1>8, <1>9, SoloKeeps

LEMMA SoloYield ==
  ASSUME Solo, NEW w \in Workers, RunYield(w)
  PROVE  SoloInv'
<1>1. /\ Shape /\ Calls(w)
  BY SoloFacts
<1>2. /\ wk[w].pc = "run" /\ Step(w, "requeue", Null, 0) /\ Call(w, "push_one", w, <<wk[w].e>>, 0)
      /\ UNCHANGED <<buf, head, tail, count, host, state>>
  BY DEF RunYield, ringData
<1>3. wk'[w].pc = "requeue"
  BY <1>1, <1>2, StepFields
<1>4. /\ rop'[w].fn = "push_one" /\ rop'[w].i = 0 /\ rop'[w].pc = "load"
      /\ rop'[w].in = <<wk[w].e>>
  BY <1>1, <1>2, BeginsCall
<1>5. Handles(w) /\ Handles(w)' /\ HandTask(w)' = HandTask(w)
  BY <1>2, <1>3, <1>4 DEF Handles, HandTask
<1>6. Way(w) = {} /\ Way(w)' = {} /\ rop[w].fn = "none"
  BY <1>1, <1>2, <1>3 DEF Way, Calls
<1> QED
  BY <1>2, <1>3, <1>4, <1>5, <1>6, SoloKeeps

LEMMA SoloExit ==
  ASSUME Solo, NEW w \in Workers, RunExit(w)
  PROVE  SoloInv'
<1>1. /\ Shape /\ Calls(w) /\ Places(w) /\ Passing(w) /\ head[Global] \in Nat
      /\ DOMAIN state = Tasks /\ Filled(w) \in Nat /\ NTasks \in Nat
  BY SoloFacts
<1>2. /\ wk[w].pc = "run" /\ Step(w, "local", Null, 0) /\ Call(w, "pop_one", w, <<>>, 1)
      /\ UNCHANGED <<buf, head, tail, count, host>>
      /\ state' = [state EXCEPT ![wk[w].e] = "EXITED"] /\ rop[w].fn = "none"
  BY <1>1 DEF RunExit, ringData, Calls
<1>3. wk'[w].pc = "local"
  BY <1>1, <1>2, StepFields
<1>4. rop'[w].fn = "pop_one" /\ rop'[w].i = 0 /\ rop'[w].pc = "load" /\ rop'[w].out = <<>>
  BY <1>1, <1>2, BeginsCall
<1>5. Filled(w)' = Filled(w) /\ \A s \in Index : Cell(w, s)' <=> Cell(w, s)
  BY <1>2, <1>4, SoloBetween
<1>6. Handles(w) /\ ~Handles(w)' /\ HandTask(w) = wk[w].e /\ Way(w) = {} /\ Way(w)' = {}
  BY <1>2, <1>3, <1>4 DEF Handles, HandTask, Way
<1>7. -1 \in Int /\ -1 \notin Index /\ ~(-1 > Cap)
  BY CapAssumption DEF Index
<1>8. Full(w, -1) /\ ~Full(w, -1)' /\ Task(w, -1) = wk[w].e
  BY <1>6, <1>7 DEF Full, Task
<1>9. OtherSpots(w, -1, -1)
  <2> SUFFICES ASSUME NEW p \in Int, p # -1
               PROVE  (Full(w, p)' <=> Full(w, p)) /\ (Full(w, p) => Task(w, p)' = Task(w, p))
    BY DEF OtherSpots
  <2>1. Full(w, p) => p \in Index
    BY <1>6 DEF Full
  <2>2. Full(w, p)' <=> Full(w, p)
    BY <1>5, <1>6 DEF Full
  <2> QED
    BY <1>2, <2>1, <2>2 DEF Task
<1>10. Places(w)'
  BY <1>1, <1>2, <1>7, <1>8, <1>9, PlacesLose
<1>11. Passing(w)'
  <2>1. Filled(w) <= NTasks - 1
    BY <1>1, <1>6 DEF Passing
  <2>2. Filled(w) <= NTasks
    BY <1>1, <2>1
  <2> QED
    BY <1>3, <1>4, <1>5, <1>6, <2>2 DEF Passing
<1>12. state' \in [Tasks -> {"RUNNABLE", "EXITED"}]
  BY <1>2 DEF Solo, SoloInv
<1> QED
  BY <1>2, <1>10, <1>11, <1>12, SoloStep

LEMMA SoloLoop ==
  ASSUME Solo, NEW w \in Workers, mcsched_loop(w)
  PROVE  SoloInv'
<1>1. ~Stolen(w)
  BY SoloFacts DEF Stolen, Back, Calls, Solo
<1> QED
  BY <1>1, SoloRuns, SoloLocalMiss, SoloGlobalHit, SoloGlobalMiss, SoloStored, SoloYield, SoloExit
     DEF mcsched_loop

-----------------------------------------------------------------------------
(* One worker: the steps of its ring calls *)

\* A step that leaves every task where it is.
LEMMA SoloStays ==
  ASSUME Solo, NEW w \in Workers, UNCHANGED <<wk, host, state>>, SameSpots(w),
         head'[Global] = head[Global], wk[w].pc \in {"local", "again", "global", "push", "requeue"},
         wk[w].pc \in {"local", "again"} /\ rop'[w].pc \in {"index", "move"} =>
           rop'[w].out[1] = buf'[w][head'[w]],
         wk[w].pc \in {"requeue", "push"} /\ rop'[w].pc \in {"index", "move"} =>
           buf'[w][tail'[w]] = rop'[w].in[rop'[w].i + 1],
         wk[w].pc = "requeue" /\ rop'[w].pc \in Released => rop'[w].i = 1,
         wk[w].pc = "push" => rop'[w].in = rop[w].in
  PROVE  SoloInv'
<1>1. Places(w) /\ Passing(w)
  BY SoloFacts
<1>2. Places(w)'
  BY <1>1, PlacesStay
<1>3. Filled(w)' <= IF Handles(w)' THEN NTasks - 1 ELSE NTasks
  BY <1>1 DEF Passing, SameSpots
<1>4. Passing(w)'
  BY <1>1, <1>3 DEF Passing
<1>5. state' \in [Tasks -> {"RUNNABLE", "EXITED"}]
  BY DEF Solo, SoloInv
<1> QED
  BY <1>2, <1>4, <1>5, SoloStep

LEMMA SoloTake ==
  ASSUME Solo, NEW w \in Workers, InRing(w), wk[w].pc \in {"local", "again"}
  PROVE  SoloInv'
<1> DEFINE f == rop[w]
<1>1. /\ Shape /\ Calls(w) /\ Taking(w, f) /\ Passing(w) /\ Places(w)
      /\ count[w] \in Nat /\ head[w] \in Index /\ Filled(w) \in Nat
      /\ NTasks \in Nat /\ Cap \in Nat /\ NTasks < Cap /\ w \in Rings
  BY SoloFacts, Names DEF InCall
<1>2. f.fn = "pop_one" /\ f.q = w /\ MyCall(w) /\ ~Pushes(f.fn) /\ w # Global
  BY <1>1, Names DEF Calls, MyCall, Pushes
<1>3. RingStep(w) /\ UNCHANGED <<wk, host, state>>
  BY DEF InRing
<1>4. Way(w) = {} /\ Way(w)' = {}
  BY <1>3 DEF Way
<1>5. CASE Load(w) \/ LockHead(w) \/ LockTail(w) \/ Check(w)
  <2>1. UNCHANGED <<buf, head, tail, count>> /\ f.pc \in {"load", "hlock", "tlock", "check"}
    BY <1>1, <1>5, QuietSteps
  <2>2. f.i = 0 /\ f.out = <<>>
    BY <1>1, <2>1 DEF Taking
  <2>3. PICK pc \in {"hlock", "tlock", "check", "slot", "tunlock", "hunlock", "done"} : Moves(w, pc)
    <3>1. Entered(f.fn) = "check"
      BY <1>2 DEF Entered
    <3>2. CASE Load(w)
      BY <1>1, <3>2, QuietSteps
    <3>3. CASE LockHead(w) \/ LockTail(w)
      BY <1>1, <3>1, <3>3, QuietSteps
    <3>4. CASE Check(w)
      BY <1>1, <1>2, <3>4, QuietSteps DEF FirstUnlock
    <3> QED
      BY <1>5, <3>2, <3>3, <3>4
  <2>4. Filled(w)' = Filled(w)
    BY <2>1, <2>2, <2>3, FilledQuiet DEF Moves
  <2>5. ~Handles(w) /\ ~Handles(w)'
    BY <1>3, <2>2, <2>3 DEF Handles, Moves
  <2>6. SameSpots(w)
    BY <1>4, <2>1, <2>4, <2>5 DEF SameSpots
  <2> QED
    BY <1>3, <2>1, <2>3, <2>6, SoloStays DEF Moves
<1>6. CASE UnlockTail(w) \/ UnlockHead(w)
  <2>1. UNCHANGED <<buf, head, tail, count>> /\ f.pc \in {"tunlock", "hunlock"}
    BY <1>1, <1>6, QuietSteps
  <2>2. PICK pc \in {"hunlock", "done"} : Moves(w, pc)
    BY <1>1, <1>6, QuietSteps
  <2>3. f.pc \in Released /\ rop'[w].pc \in Released
    BY <2>1, <2>2 DEF Moves, Released
  <2>4. Filled(w)' = Filled(w)
    BY <2>1, <2>2, <2>3, FilledQuiet DEF Moves
  <2>5. (Handles(w)' <=> Handles(w)) /\ HandTask(w)' = HandTask(w)
    BY <1>3, <2>2, <2>3 DEF Handles, HandTask, Moves
  <2>6. SameSpots(w)
    BY <1>4, <2>1, <2>4, <2>5 DEF SameSpots
  <2> QED
    BY <1>3, <2>1, <2>2, <2>6, SoloStays DEF Moves
<1>7. CASE Slot(w)
  <2>1. /\ UNCHANGED <<buf, head, tail, count>> /\ f.pc = "slot"
        /\ rop'[w].pc = "index" /\ rop'[w].fn = f.fn /\ rop'[w].q = f.q /\ rop'[w].i = f.i
        /\ rop'[w].out = Append(f.out, buf[w][head[w]])
    BY <1>1, <1>2, <1>7, SlotPop
  <2>2. f.i = 0 /\ f.out = <<>>
    BY <1>1, <2>1 DEF Taking
  <2>3. PICK x : x = buf[w][head[w]]
    OBVIOUS
  <2>4. rop'[w].out = <<x>>
    BY <2>1, <2>2, <2>3
  <2>5. Filled(w)' = Filled(w)
    BY <2>1, <2>2, FilledQuiet
  <2>6. ~Handles(w) /\ ~Handles(w)'
    BY <1>3, <2>1, <2>2 DEF Handles, Released
  <2>7. SameSpots(w)
    BY <1>4, <2>1, <2>5, <2>6 DEF SameSpots
  <2>8. rop'[w].out[1] = buf'[w][head'[w]]
    BY <2>1, <2>3, <2>4
  <2> QED
    BY <1>3, <2>1, <2>7, <2>8, SoloStays
<1>8. CASE LoadIndex(w)
  <2>1. /\ UNCHANGED <<buf, head, tail, count>> /\ f.pc = "index"
        /\ rop'[w].pc = "move" /\ rop'[w].fn = f.fn /\ rop'[w].q = f.q /\ rop'[w].i = f.i
        /\ rop'[w].out = f.out
    BY <1>1, <1>8, LoadedIndex
  <2>2. Filled(w)' = Filled(w)
    BY <2>1, FilledQuiet DEF Released
  <2>3. ~Handles(w) /\ ~Handles(w)'
    BY <1>3, <2>1 DEF Handles, Released
  <2>4. SameSpots(w)
    BY <1>4, <2>1, <2>2, <2>3 DEF SameSpots
  <2>5. rop'[w].out[1] = buf'[w][head'[w]]
    BY <1>1, <2>1 DEF Passing
  <2> QED
    BY <1>3, <2>1, <2>4, <2>5, SoloStays
<1>9. CASE MoveIndex(w)
  <2>1. /\ UNCHANGED <<buf, count, tail>> /\ f.pc = "move"
        /\ rop'[w].pc = "add" /\ rop'[w].fn = f.fn /\ rop'[w].q = f.q /\ rop'[w].i = f.i + 1
        /\ rop'[w].out = f.out /\ head' = [head EXCEPT ![w] = (f.reg + 1) % Cap]
    BY <1>1, <1>2, <1>9, MovedIndex DEF AtTail
  <2>2. /\ f.i = 0 /\ f.out # <<>> /\ count[w] >= 1 /\ f.reg = head[w]
        /\ f.out[1] = buf[w][head[w]]
    <3>1. f.i = 0 /\ Len(f.out) = 1 /\ count[w] >= 1 /\ f.reg = head[w]
      BY <1>1, <2>1 DEF Taking
    <3> QED
      BY <1>1, <2>1, <3>1 DEF Passing
  <2>3. head'[w] = (head[w] + 1) % Cap /\ head'[Global] = head[Global]
    BY <1>1, <1>2, <2>1, <2>2, Names DEF Shape
  <2>4. Filled(w)' = Filled(w) - 1
    BY <1>1, <1>2, <1>9, <2>2, FilledMove
  <2>5. ~Handles(w) /\ Handles(w)' /\ HandTask(w)' = f.out[1]
    BY <1>3, <2>1, <2>2 DEF Handles, HandTask, Released
  <2>6. PICK n \in Nat : n = Filled(w) /\ n >= 1 /\ n <= NTasks
    <3>1. Filled(w) = count[w]
      <4>1. Uncounted(w) = 0
        <5>1. 0 - f.i = 0
          BY <2>2
        <5> QED
          BY <2>2, <5>1 DEF Uncounted
      <4>2. count[w] + 0 = count[w]
        BY <1>1
      <4> QED
        BY <4>1, <4>2 DEF Filled
    <3>2. Filled(w) <= NTasks
      BY <1>1, <2>5 DEF Passing
    <3> QED
      BY <1>1, <2>2, <3>1, <3>2
  <2>7. n <= Cap /\ Filled(w)' = n - 1
    BY <1>1, <2>4, <2>6
  <2>8. PICK c \in Int : c = head[w] /\ c \in Index /\ c # -1 /\ ~(c > Cap)
    BY <1>1, CapAssumption DEF Index
  <2>9. /\ Cell(w, c) /\ ~Cell(w, c)'
        /\ \A s \in Index \ {c} : Cell(w, s)' <=> Cell(w, s)
    BY <1>1, <2>3, <2>6, <2>7, <2>8, CellsPop
  <2>10. -1 \in Int /\ -1 \notin Index /\ ~(-1 > Cap)
    BY CapAssumption DEF Index
  <2>11. /\ Full(w, c) /\ ~Full(w, c)' /\ ~Full(w, -1) /\ Full(w, -1)'
         /\ Task(w, -1)' = Task(w, c)
    BY <2>2, <2>5, <2>8, <2>9, <2>10 DEF Full, Task
  <2>12. OtherSpots(w, c, -1)
    <3> SUFFICES ASSUME NEW p \in Int, p # -1, p # c
                 PROVE  (Full(w, p)' <=> Full(w, p)) /\ (Full(w, p) => Task(w, p)' = Task(w, p))
      BY DEF OtherSpots
    <3>1. Full(w, p) => p \in Index
      BY <1>4 DEF Full
    <3>2. Full(w, p)' <=> Full(w, p)
      BY <1>4, <2>9 DEF Full
    <3> QED
      BY <2>1, <3>1, <3>2 DEF Task
  <2>13. Places(w)'
    BY <1>1, <1>3, <2>3, <2>8, <2>10, <2>11, <2>12, PlacesShift
  <2>14. Passing(w)'
    <3>1. Filled(w)' <= NTasks - 1
      BY <1>1, <2>6, <2>7
    <3> QED
      BY <1>3, <2>1, <2>5, <3>1 DEF Passing
  <2>15. state' \in [Tasks -> {"RUNNABLE", "EXITED"}]
    BY <1>3 DEF Solo, SoloInv
  <2> QED
    BY <1>3, <2>13, <2>14, <2>15, SoloStep
<1>10. CASE Add(w)
  <2>1. /\ UNCHANGED <<buf, head, tail>> /\ f.pc = "add" /\ Moves(w, FirstUnlock(f))
    BY <1>1, <1>10, CountStep
  <2>2. FirstUnlock(f) \in Released /\ FirstUnlock(f) \notin {"index", "move"} /\ f.i = 1
    BY <1>1, <2>1 DEF FirstUnlock, Released, Taking
  <2>3. Filled(w)' = Filled(w)
    BY <1>1, <1>2, <1>10, <2>2, FilledAdd
  <2>4. (Handles(w)' <=> Handles(w)) /\ HandTask(w)' = HandTask(w)
    BY <1>3, <2>1, <2>2 DEF Handles, HandTask, Moves
  <2>5. SameSpots(w)
    BY <1>4, <2>1, <2>3, <2>4 DEF SameSpots
  <2> QED
    BY <1>3, <2>1, <2>2, <2>5, SoloStays DEF Moves
<1>11. ~Loop(w)
  BY <1>1 DEF Loop, At, Taking, Released
<1> QED
  BY <1>3, <1>5, <1>6, <1>7, <1>8, <1>9, <1>10, <1>11 DEF RingStep

\* Worker w while it puts tasks into its own queue.
LEMMA PutFacts ==
  ASSUME Solo, NEW w \in Workers, InRing(w), wk[w].pc \in {"requeue", "push"}
  PROVE  /\ RingStep(w) /\ UNCHANGED <<wk, host, state>>
         /\ Shape /\ Pushes(rop[w].fn) /\ rop[w].q = w /\ MyCall(w) /\ rop[w].fn # "pop_back"
         /\ wk[w].pc = "requeue" => rop[w].fn = "push_one" /\ Requeueing(w, rop[w])
         /\ wk[w].pc = "push" => rop[w].fn = "push" /\ Sharing(w, rop[w])
         /\ rop[w].i \in Nat /\ w # Global /\ w \in Rings /\ Passing(w) /\ Places(w)
         /\ rop[w].pc \in {"slot", "index", "move"} =>
              rop[w].i + 1 \in 1 .. Len(rop[w].in) /\ Filled(w) < Cap
         /\ rop[w].pc \in {"index", "move"} => buf[w][tail[w]] = rop[w].in[rop[w].i + 1]
         /\ rop[w].pc \in {"load", "hlock", "tlock", "check"} => rop[w].i = 0
<1>1. RingStep(w) /\ UNCHANGED <<wk, host, state>>
  BY DEF InRing
<1>2. Shape /\ Calls(w) /\ InCall(w) /\ Passing(w) /\ Places(w) /\ NTasks \in Nat /\ Cap \in Nat /\ NTasks < Cap
      /\ Filled(w) \in Nat /\ count[w] \in Nat
  BY SoloFacts
<1>3. /\ Pushes(rop[w].fn) /\ rop[w].q = w /\ MyCall(w) /\ rop[w].fn # "pop_back"
      /\ wk[w].pc = "requeue" => rop[w].fn = "push_one" /\ Requeueing(w, rop[w])
      /\ wk[w].pc = "push" => rop[w].fn = "push" /\ Sharing(w, rop[w])
      /\ Putting(w, rop[w])
  BY <1>2 DEF Calls, InCall, MyCall, Pushes
<1>4. rop[w].i \in Nat
  <2>1. CASE wk[w].pc = "push"
    BY <1>3, <2>1 DEF Sharing
  <2>2. CASE wk[w].pc = "requeue"
    <3>1. CASE rop[w].pc \in Released
      BY <1>2, <2>2, <3>1 DEF Passing
    <3>2. CASE rop[w].pc \notin Released
      BY <1>3, <2>2, <3>2 DEF Requeueing
    <3> QED
      BY <3>1, <3>2
  <2> QED
    BY <2>1, <2>2
<1>5. ASSUME rop[w].pc \in {"slot", "index", "move"}
      PROVE  rop[w].i + 1 \in 1 .. Len(rop[w].in) /\ Filled(w) < Cap
  <2>1. rop[w].i < Len(rop[w].in) /\ rop[w].pc \notin Released
    BY <1>3, <1>5 DEF Putting, Released
  <2>2. CASE wk[w].pc = "requeue"
    <3>1. rop[w].i = 0 /\ Len(rop[w].in) = 1
      BY <1>3, <1>5, <2>2 DEF Requeueing
    <3>2. Filled(w) <= NTasks - 1
      BY <1>2, <2>2, <3>1 DEF Passing, Handles
    <3> QED
      BY <1>2, <3>1, <3>2
  <2>3. CASE wk[w].pc = "push"
    <3>1. count[w] = 0 /\ Len(rop[w].in) \in Nat /\ Len(rop[w].in) <= NTasks
      BY <1>2, <1>3, <2>1, <2>3 DEF Sharing, Passing
    <3>2. Uncounted(w) = rop[w].i
      BY <1>3, <2>1 DEF Uncounted
    <3>3. Filled(w) = rop[w].i
      BY <1>4, <3>1, <3>2 DEF Filled
    <3> QED
      BY <1>2, <1>4, <2>1, <3>1, <3>3
  <2> QED
    BY <2>2, <2>3
<1>6. rop[w].pc \in {"index", "move"} => buf[w][tail[w]] = rop[w].in[rop[w].i + 1]
  BY <1>2 DEF Passing
<1>7. rop[w].pc \in {"load", "hlock", "tlock", "check"} => rop[w].i = 0
  BY <1>3 DEF Requeueing, Sharing, Released
<1> QED
  BY <1>1, <1>2, <1>3, <1>4, <1>5, <1>6, <1>7, Names

\* Where it is in its share stays, and what it has in hand.
LEMMA PutKeeps ==
  ASSUME NEW w \in Workers, wk[w].pc \in {"requeue", "push"}, wk' = wk,
         rop'[w].i = rop[w].i, rop'[w].in = rop[w].in
  PROVE  /\ Way(w)' = Way(w) /\ (Handles(w)' <=> Handles(w))
         /\ Handles(w) => HandTask(w)' = HandTask(w)
         /\ \A k \in Way(w) : WayTask(w, k)' = WayTask(w, k)
<1>1. Way(w)' = Way(w)
  BY DEF Way
<1>2. Handles(w)' <=> Handles(w)
  BY DEF Handles
<1>3. Handles(w) => HandTask(w)' = HandTask(w)
  BY DEF Handles, HandTask
<1>4. \A k : WayTask(w, k)' = WayTask(w, k)
  BY DEF WayTask
<1> QED
  BY <1>1, <1>2, <1>3, <1>4

LEMMA SoloPutQuiet ==
  ASSUME Solo, NEW w \in Workers, InRing(w), wk[w].pc \in {"requeue", "push"},
         NEW pc, Moves(w, pc), UNCHANGED <<buf, head, tail, count>>, pc \notin {"index", "move"},
         rop[w].i = 0 \/ (pc \in Released <=> rop[w].pc \in Released),
         wk[w].pc = "requeue" /\ pc \in Released => rop[w].pc \in Released
  PROVE  SoloInv'
<1>1. UNCHANGED <<wk, host, state>> /\ Passing(w)
  BY PutFacts
<1>2. Filled(w)' = Filled(w)
  BY FilledQuiet DEF Moves
<1>3. SameSpots(w)
  BY <1>1, <1>2, PutKeeps DEF SameSpots, Moves
<1>4. wk[w].pc = "requeue" /\ rop'[w].pc \in Released => rop'[w].i = 1
  BY <1>1 DEF Passing, Moves
<1> QED
  BY <1>1, <1>3, <1>4, SoloStays DEF Moves

LEMMA SoloWrite ==
  ASSUME Solo, NEW w \in Workers, InRing(w), wk[w].pc \in {"requeue", "push"},
         Slot(w) \/ LoadIndex(w) \/ Add(w)
  PROVE  SoloInv'
<1> DEFINE f == rop[w]
<1>1. /\ UNCHANGED <<wk, host, state>> /\ Shape /\ Pushes(f.fn) /\ f.q = w /\ MyCall(w)
      /\ f.i \in Nat /\ w # Global /\ w \in Rings
      /\ wk[w].pc = "requeue" => Requeueing(w, f)
  BY PutFacts
<1>2. /\ head[w] \in Index /\ DOMAIN buf[w] = Index /\ count[w] \in Nat /\ Filled(w) \in Nat
      /\ tail[w] = (head[w] + Filled(w)) % Cap
  BY SoloFacts
<1>3. CASE Slot(w)
  <2>1. /\ UNCHANGED <<head, tail, count>> /\ f.pc = "slot" /\ Moves(w, "index")
        /\ buf' = [buf EXCEPT ![w][tail[w]] = f.in[f.i + 1]]
    BY <1>1, <1>3, SlotPush
  <2>2. Filled(w) < Cap
    BY <2>1, PutFacts
  <2>3. tail[w] \in Index /\ ~Cell(w, tail[w])
    BY <1>2, <2>2, FreeTail
  <2>4. /\ \A s \in Index : s # tail[w] => buf'[w][s] = buf[w][s]
        /\ buf'[w][tail[w]] = f.in[f.i + 1]
    BY <1>1, <1>2, <2>1, <2>3 DEF Shape
  <2>5. Filled(w)' = Filled(w)
    BY <2>1, FilledQuiet DEF Moves, Released
  <2>6. SameSpots(w)
    BY <1>1, <2>1, <2>3, <2>4, <2>5, PutKeeps DEF SameSpots, Moves
  <2>7. buf'[w][tail'[w]] = rop'[w].in[rop'[w].i + 1] /\ rop'[w].pc = "index" /\ rop'[w].in = f.in
    BY <2>1, <2>4 DEF Moves
  <2>8. "index" \notin Released
    BY DEF Released
  <2> QED
    BY <1>1, <2>1, <2>6, <2>7, <2>8, SoloStays
<1>4. CASE LoadIndex(w)
  <2>1. /\ UNCHANGED <<buf, head, tail, count>> /\ f.pc = "index"
        /\ rop'[w].pc = "move" /\ rop'[w].fn = f.fn /\ rop'[w].q = f.q /\ rop'[w].i = f.i
        /\ rop'[w].in = f.in
    BY <1>1, <1>4, LoadedIndex
  <2>2. Filled(w)' = Filled(w)
    BY <2>1, FilledQuiet DEF Released
  <2>3. SameSpots(w)
    BY <1>1, <2>1, <2>2, PutKeeps DEF SameSpots
  <2>4. buf'[w][tail'[w]] = rop'[w].in[rop'[w].i + 1]
    BY <2>1, PutFacts
  <2>5. "move" \notin Released
    BY DEF Released
  <2> QED
    BY <1>1, <2>1, <2>3, <2>4, <2>5, SoloStays
<1>5. CASE Add(w)
  <2>1. /\ UNCHANGED <<buf, head, tail>> /\ f.pc = "add" /\ Moves(w, FirstUnlock(f))
    BY <1>1, <1>5, CountStep
  <2>2. FirstUnlock(f) \notin {"index", "move"}
    BY DEF FirstUnlock
  <2>3. Filled(w)' = Filled(w)
    BY <1>1, <1>2, <1>5, FilledAdd
  <2>4. SameSpots(w)
    BY <1>1, <2>1, <2>3, PutKeeps DEF SameSpots, Moves
  <2>5. wk[w].pc = "requeue" => rop'[w].i = 1
    BY <1>1, <2>1 DEF Requeueing, Moves
  <2> QED
    BY <1>1, <2>1, <2>2, <2>4, <2>5, SoloStays DEF Moves
<1> QED
  BY <1>3, <1>4, <1>5

\* tail passes the element: the task is in the queue now.
LEMMA SoloPassed ==
  ASSUME Solo, NEW w \in Workers, InRing(w), wk[w].pc \in {"requeue", "push"}, MoveIndex(w)
  PROVE  SoloInv'
<1> DEFINE f == rop[w]
<1>1. /\ UNCHANGED <<wk, host, state>> /\ Shape /\ Pushes(f.fn) /\ f.q = w /\ MyCall(w)
      /\ f.i \in Nat /\ w # Global /\ w \in Rings /\ f.fn # "pop_back" /\ Passing(w) /\ Places(w)
      /\ wk[w].pc = "requeue" => Requeueing(w, f)
      /\ wk[w].pc = "push" => Sharing(w, f)
  BY PutFacts
<1>2. /\ head[w] \in Index /\ count[w] \in Nat /\ Filled(w) \in Nat /\ NTasks \in Nat
      /\ tail[w] = (head[w] + Filled(w)) % Cap
  BY SoloFacts
<1>3. /\ UNCHANGED <<buf, count, head>> /\ f.pc = "move" /\ rop'[w].pc \in {"loop", "add"}
      /\ rop'[w].fn = f.fn /\ rop'[w].q = f.q /\ rop'[w].i = f.i + 1
      /\ rop'[w].in = f.in
  BY <1>1, MovedIndex DEF AtTail, Pushes
<1>4. /\ f.i + 1 \in 1 .. Len(f.in) /\ Filled(w) < Cap /\ buf[w][tail[w]] = f.in[f.i + 1]
  BY <1>3, PutFacts
<1>5. Filled(w)' = Filled(w) + 1
  BY <1>1, <1>2, FilledMove
<1>6. PICK c \in Int : c = tail[w] /\ c \in Index /\ c # -1 /\ ~(c > Cap)
  BY <1>2, <1>4, FreeTail, CapAssumption DEF Index
<1>7. PICK n \in Nat : n = Filled(w)
  BY <1>2
<1>8. /\ ~Cell(w, c) /\ Cell(w, c)'
      /\ \A s \in Index \ {c} : Cell(w, s)' <=> Cell(w, s)
  BY <1>2, <1>3, <1>4, <1>5, <1>6, <1>7, CellsPush
<1>9. ~Full(w, c) /\ Full(w, c)' /\ Task(w, c)' = f.in[f.i + 1]
  BY <1>3, <1>4, <1>6, <1>8 DEF Full, Task
<1>10. Places(w)'
  <2>1. CASE wk[w].pc = "requeue"
    <3>1. f.i = 0
      BY <1>1, <1>3, <2>1 DEF Requeueing
    <3>2. rop'[w].i = 1 /\ f.in[f.i + 1] = f.in[1]
      BY <1>3, <3>1
    <3>3. Handles(w) /\ ~Handles(w)' /\ HandTask(w) = f.in[1] /\ Way(w) = {} /\ Way(w)' = {}
      BY <1>1, <2>1, <3>1, <3>2 DEF Handles, HandTask, Way
    <3>4. -1 \in Int /\ -1 \notin Index /\ ~(-1 > Cap)
      BY CapAssumption DEF Index
    <3>5. Full(w, -1) /\ ~Full(w, -1)' /\ Task(w, -1) = f.in[1]
      BY <3>3, <3>4 DEF Full, Task
    <3>6. OtherSpots(w, -1, c)
      <4> SUFFICES ASSUME NEW p \in Int, p # -1, p # c
                   PROVE  (Full(w, p)' <=> Full(w, p)) /\ (Full(w, p) => Task(w, p)' = Task(w, p))
        BY DEF OtherSpots
      <4>1. Full(w, p) => p \in Index
        BY <3>3 DEF Full
      <4>2. Full(w, p)' <=> Full(w, p)
        BY <1>8, <3>3 DEF Full
      <4> QED
        BY <1>3, <4>1, <4>2 DEF Task
    <3> QED
      BY <1>1, <1>3, <1>6, <1>9, <3>2, <3>4, <3>5, <3>6, PlacesShift
  <2>2. CASE wk[w].pc = "push"
    <3>1. PICK a \in Int : a = Cap + (f.i + 1) /\ a > Cap /\ a - Cap = f.i + 1 /\ a # -1 /\ a \notin Index
      BY <1>1, CapAssumption DEF Index
    <3>2. Len(f.in) \in Nat
      BY <1>1, <2>2 DEF Sharing
    <3>3. Way(w) = f.i + 1 .. Len(f.in) /\ Way(w)' = (f.i + 1) + 1 .. Len(f.in)
      BY <1>1, <1>3, <2>2 DEF Way
    <3>4. f.i + 1 \in Way(w) /\ f.i + 1 \notin Way(w)'
      BY <1>1, <1>4, <3>2, <3>3
    <3>5. \A k \in Int : k # f.i + 1 => (k \in Way(w)' <=> k \in Way(w))
      BY <1>1, <3>2, <3>3
    <3>6. ~Handles(w) /\ ~Handles(w)'
      BY <1>1, <2>2 DEF Handles
    <3>7. Full(w, a) /\ ~Full(w, a)' /\ Task(w, a) = f.in[f.i + 1]
      BY <2>2, <3>1, <3>4 DEF Full, Task, WayTask
    <3>8. OtherSpots(w, a, c)
      <4> SUFFICES ASSUME NEW p \in Int, p # a, p # c
                   PROVE  (Full(w, p)' <=> Full(w, p)) /\ (Full(w, p) => Task(w, p)' = Task(w, p))
        BY DEF OtherSpots
      <4>1. p - Cap \in Int /\ p - Cap # f.i + 1
        BY <1>1, <3>1, CapAssumption
      <4>2. Full(w, p)' <=> Full(w, p)
        BY <1>8, <3>5, <3>6, <4>1 DEF Full
      <4>3. Full(w, p) => p # -1
        <5>1. -1 \notin Index /\ ~(-1 > Cap)
          BY CapAssumption DEF Index
        <5> QED
          BY <3>6, <5>1 DEF Full
      <4>4. Full(w, p) => Task(w, p)' = Task(w, p)
        BY <1>1, <1>3, <2>2, <4>3 DEF Task, WayTask
      <4> QED
        BY <4>2, <4>4
    <3>9. a # c
      BY <1>6, <3>1
    <3> QED
      BY <1>1, <1>3, <1>6, <1>9, <3>1, <3>7, <3>8, <3>9, PlacesShift
  <2> QED
    BY <2>1, <2>2
<1>11. Passing(w)'
  <2>1. Filled(w)' <= NTasks /\ ~Handles(w)'
    <3>1. CASE wk[w].pc = "requeue"
      <4>1. f.i = 0
        BY <1>1, <1>3, <3>1 DEF Requeueing
      <4>2. Filled(w) <= NTasks - 1
        BY <1>1, <3>1, <4>1 DEF Passing, Handles
      <4>3. rop'[w].i = 1
        BY <1>3, <4>1
      <4> QED
        BY <1>1, <1>2, <1>5, <3>1, <4>2, <4>3 DEF Handles
    <3>2. CASE wk[w].pc = "push"
      <4>1. count[w] = 0 /\ Len(f.in) <= NTasks /\ Len(f.in) \in Nat
        BY <1>1, <1>3, <3>2 DEF Sharing, Passing, Released
      <4>2. Uncounted(w) = f.i
        BY <1>1, <1>3 DEF Uncounted, Released
      <4>3. Filled(w) = f.i
        BY <1>1, <4>1, <4>2 DEF Filled
      <4> QED
        BY <1>1, <1>2, <1>4, <1>5, <3>2, <4>1, <4>3 DEF Handles
    <3> QED
      BY <3>1, <3>2
  <2> QED
    BY <1>1, <1>3, <2>1 DEF Passing, Released
<1>12. state' \in [Tasks -> {"RUNNABLE", "EXITED"}]
  BY <1>1 DEF Solo, SoloInv
<1> QED
  BY <1>1, <1>10, <1>11, <1>12, SoloStep

\* The task that yielded finds room, and so does the share.
LEMMA SoloPut ==
  ASSUME Solo, NEW w \in Workers, InRing(w), wk[w].pc \in {"requeue", "push"}
  PROVE  SoloInv'
<1> DEFINE f == rop[w]
<1>1. /\ RingStep(w) /\ Shape /\ Pushes(f.fn) /\ f.q = w /\ MyCall(w) /\ f.i \in Nat /\ Passing(w)
      /\ wk[w].pc = "requeue" => f.fn = "push_one" /\ Requeueing(w, f)
      /\ wk[w].pc = "push" => f.fn = "push" /\ Sharing(w, f)
      /\ f.pc \in {"load", "hlock", "tlock", "check"} => f.i = 0
  BY PutFacts
<1>2. /\ count[w] \in Nat /\ Filled(w) \in Nat /\ NTasks \in Nat /\ Cap \in Nat /\ NTasks < Cap
  BY SoloFacts
<1>3. ASSUME wk[w].pc = "requeue", f.i = 0 PROVE ~AtLeast(count[w], Cap)
  <2>1. Filled(w) <= NTasks - 1
    BY <1>1, <1>3 DEF Passing, Handles
  <2>2. Uncounted(w) = 0
    BY <1>1, <1>3 DEF Uncounted
  <2>3. Filled(w) = count[w]
    BY <1>2, <2>2 DEF Filled
  <2> QED
    BY <1>2, <2>1, <2>3 DEF AtLeast
<1>4. CASE Load(w) \/ Check(w)
  <2>1. UNCHANGED <<buf, head, tail, count>> /\ f.pc \in {"load", "check"}
    BY <1>1, <1>4, QuietSteps
  <2>2. f.i = 0 /\ wk[w].pc = "requeue" /\ f.fn = "push_one"
    BY <1>1, <2>1 DEF Sharing, Released
  <2>3. ~QuickFail(f.fn, count[w]) /\ ~StillFails(f.fn, count[w])
    BY <1>3, <2>2 DEF QuickFail, StillFails
  <2>4. PICK pc \in {"hlock", "tlock", "slot"} : Moves(w, pc)
    BY <1>1, <1>4, <2>2, <2>3, QuietSteps
  <2>5. pc \notin Released /\ pc \notin {"index", "move"}
    BY DEF Released
  <2> QED
    BY <2>1, <2>2, <2>4, <2>5, SoloPutQuiet
<1>5. CASE LockHead(w) \/ LockTail(w) \/ Loop(w)
  <2>1. UNCHANGED <<buf, head, tail, count>> /\ f.pc \in {"hlock", "tlock", "loop"}
    BY <1>1, <1>5, QuietSteps
  <2>2. PICK pc \in {"tlock", "loop", "check", "slot", "add"} : Moves(w, pc)
    BY <1>1, <1>5, QuietSteps DEF Entered
  <2>3. pc \notin Released /\ f.pc \notin Released /\ pc \notin {"index", "move"}
    BY <2>1 DEF Released
  <2> QED
    BY <2>1, <2>2, <2>3, SoloPutQuiet
<1>6. CASE UnlockTail(w) \/ UnlockHead(w)
  <2>1. UNCHANGED <<buf, head, tail, count>> /\ f.pc \in {"tunlock", "hunlock"}
    BY <1>1, <1>6, QuietSteps
  <2>2. PICK pc \in {"hunlock", "done"} : Moves(w, pc)
    BY <1>1, <1>6, QuietSteps
  <2>3. pc \in Released /\ f.pc \in Released /\ pc \notin {"index", "move"}
    BY <2>1 DEF Released
  <2> QED
    BY <2>1, <2>2, <2>3, SoloPutQuiet
<1> QED
  BY <1>1, <1>4, <1>5, <1>6, SoloWrite, SoloPassed DEF RingStep

\* The share that worker w takes from the global queue.
LEMMA ShareSpots ==
  ASSUME Solo, NEW w \in Workers, Using(w), wk' = wk, UNCHANGED <<host, state, buf, tail>>,
         head' = head, count'[w] = count[w], rop'[w].fn = rop[w].fn, rop'[w].q = rop[w].q,
         rop'[w].i = rop[w].i, \A k \in 1 .. rop[w].i : rop'[w].out[k] = rop[w].out[k]
  PROVE  SoloInv'
<1>1. wk[w].pc = "global" /\ w # Global
  BY SoloFacts, Names DEF Loops
<1>2. Uncounted(w) = 0 /\ Uncounted(w)' = 0
  BY <1>1 DEF Uncounted, MyCall, Using
<1>3. Filled(w)' = Filled(w)
  BY <1>2 DEF Filled
<1>4. ~Handles(w) /\ ~Handles(w)'
  BY <1>1 DEF Handles
<1>5. Way(w) = 1 .. rop[w].i /\ Way(w)' = Way(w)
  BY <1>1 DEF Way
<1>6. \A k \in Way(w) : WayTask(w, k)' = WayTask(w, k)
  BY <1>1, <1>5 DEF WayTask
<1>7. SameSpots(w)
  BY <1>3, <1>4, <1>5, <1>6 DEF SameSpots
<1> QED
  BY <1>1, <1>7, SoloStays

LEMMA SoloShare ==
  ASSUME Solo, NEW w \in Workers, InRing(w), Using(w)
  PROVE  SoloInv'
<1> DEFINE f == rop[w]
<1>1. /\ Shape /\ RingStep(w) /\ Portion(w) /\ f.fn = "pop" /\ f.q = Global
      /\ f.pc \in PopPCs /\ f.out \in Seq(Int) /\ f.i \in Nat
      /\ (f.pc \in {"slot", "index", "move"} => head[Global] < tail[Global])
      /\ (f.pc = "move" => f.reg = head[Global])
      /\ head[Global] \in Nat /\ tail[Global] \in Nat /\ tail[Global] <= NTasks
      /\ NTasks < Cap /\ NTasks \in Nat /\ Cap \in Nat
  BY PoppingFacts DEF Solo
<1>2. /\ UNCHANGED <<wk, host, state>> /\ wk[w].pc = "global" /\ w # Global /\ w \in Rings
      /\ Places(w) /\ Passing(w) /\ count[w] \in Nat
  BY SoloFacts, Names DEF InRing, Loops
<1>3. CASE LockHead(w) \/ LockTail(w) \/ Loop(w) \/ UnlockTail(w) \/ UnlockHead(w)
  <2>1. UNCHANGED <<buf, head, tail, count>>
    BY <1>1, <1>3, QuietSteps
  <2>2. \E pc : Moves(w, pc)
    BY <1>1, <1>3, QuietSteps
  <2>3. /\ rop'[w].fn = f.fn /\ rop'[w].q = f.q /\ rop'[w].i = f.i /\ rop'[w].out = f.out
    BY <2>2 DEF Moves
  <2> QED
    BY <1>2, <2>1, <2>3, ShareSpots
<1>4. CASE Slot(w)
  <2>1. /\ UNCHANGED <<buf, head, tail, count>> /\ f.pc = "slot"
        /\ rop'[w].fn = f.fn /\ rop'[w].q = f.q /\ rop'[w].i = f.i
        /\ rop'[w].out = Append(f.out, buf[Global][head[Global]])
    BY <1>1, <1>4, SlotPop
  <2>2. PICK out \in Seq(Int) : out = f.out
    BY <1>1
  <2>3. PICK x : x = buf[Global][head[Global]]
    OBVIOUS
  <2>4. Len(out) = f.i
    BY <1>1, <2>1, <2>2 DEF Portion
  <2>5. ASSUME NEW k \in 1 .. Len(out) PROVE Append(out, x)[k] = out[k]
    <3>1. Len(out) \in Nat
      BY LenProperties
    <3> QED
      BY <3>1
  <2>6. \A k \in 1 .. f.i : rop'[w].out[k] = f.out[k]
    BY <2>1, <2>2, <2>3, <2>4, <2>5
  <2> QED
    BY <1>2, <2>1, <2>6, ShareSpots
<1>5. CASE LoadIndex(w)
  <2>1. /\ UNCHANGED <<buf, head, tail, count>> /\ rop'[w].fn = f.fn /\ rop'[w].q = f.q
        /\ rop'[w].i = f.i /\ rop'[w].out = f.out
    BY <1>1, <1>5, LoadedIndex
  <2> QED
    BY <1>2, <2>1, ShareSpots
<1>6. CASE Add(w)
  <2>1. /\ UNCHANGED <<buf, head, tail>> /\ Moves(w, FirstUnlock(f))
        /\ count' = [count EXCEPT ![Global] = NewCount(f)]
    BY <1>1, <1>6, CountStep
  <2>2. count'[w] = count[w]
    BY <1>1, <1>2, <2>1 DEF Shape
  <2>3. /\ rop'[w].fn = f.fn /\ rop'[w].q = f.q /\ rop'[w].i = f.i /\ rop'[w].out = f.out
    BY <2>1 DEF Moves
  <2> QED
    BY <1>2, <2>1, <2>2, <2>3, ShareSpots
<1>7. CASE MoveIndex(w)
  <2>1. /\ UNCHANGED <<buf, count, tail>> /\ f.pc = "move" /\ rop'[w].pc = "loop"
        /\ rop'[w].fn = f.fn /\ rop'[w].q = f.q /\ rop'[w].i = f.i + 1 /\ rop'[w].out = f.out
        /\ head' = [head EXCEPT ![Global] = (f.reg + 1) % Cap]
    BY <1>1, <1>7, MovedIndex DEF AtTail
  <2>2. /\ head[Global] < tail[Global] /\ tail[Global] < Cap /\ f.reg = head[Global]
        /\ f.out[f.i + 1] = head[Global] + 1
    BY <1>1, <2>1 DEF Portion
  <2>3. PICK h \in Nat : h = head[Global] /\ h < tail[Global]
    BY <1>1, <2>2
  <2>4. (h + 1) % Cap = h + 1
    BY <1>1, <2>2, <2>3, NoWrap
  <2>5. head'[Global] = h + 1 /\ head'[w] = head[w]
    BY <1>1, <1>2, <2>1, <2>2, <2>3, <2>4, Names DEF Shape
  <2>6. h + 1 \in Tasks
    BY <1>1, <2>3 DEF Tasks
  <2>7. Uncounted(w) = 0 /\ Uncounted(w)' = 0
    BY <1>1, <1>2, <2>1 DEF Uncounted, MyCall
  <2>8. Filled(w)' = Filled(w)
    BY <2>1, <2>7 DEF Filled
  <2>9. \A s \in Index : Cell(w, s)' <=> Cell(w, s)
    BY <2>5, <2>8 DEF Cell
  <2>10. /\ ~Handles(w) /\ ~Handles(w)' /\ Way(w) = 1 .. f.i /\ Way(w)' = 1 .. f.i + 1
    BY <1>2, <2>1 DEF Handles, Way
  <2>11. PICK b \in Int : b = Cap + (f.i + 1) /\ b > Cap /\ b - Cap = f.i + 1 /\ b # -1 /\ b \notin Index
    BY <1>1, CapAssumption DEF Index
  <2>12. f.i + 1 \notin Way(w) /\ f.i + 1 \in Way(w)'
    BY <1>1, <2>10
  <2>13. \A k \in Int : k # f.i + 1 => (k \in Way(w)' <=> k \in Way(w))
    BY <1>1, <2>10
  <2>14. ~Full(w, b) /\ Full(w, b)' /\ Task(w, b)' = h + 1
    BY <1>2, <2>1, <2>2, <2>3, <2>11, <2>12 DEF Full, Task, WayTask
  <2>15. OtherSpots(w, b, b)
    <3> SUFFICES ASSUME NEW p \in Int, p # b
                 PROVE  (Full(w, p)' <=> Full(w, p)) /\ (Full(w, p) => Task(w, p)' = Task(w, p))
      BY DEF OtherSpots
    <3>1. p - Cap \in Int /\ p - Cap # f.i + 1
      BY <1>1, <2>11
    <3>2. Full(w, p)' <=> Full(w, p)
      BY <2>9, <2>10, <2>13, <3>1 DEF Full
    <3>3. Full(w, p) => p # -1
      <4>1. -1 \notin Index /\ ~(-1 > Cap)
        BY CapAssumption DEF Index
      <4> QED
        BY <2>10, <4>1 DEF Full
    <3>4. Full(w, p) => Task(w, p)' = Task(w, p)
      BY <1>2, <2>1, <3>3 DEF Task, WayTask
    <3> QED
      BY <3>2, <3>4
  <2>16. Places(w)'
    BY <1>2, <2>3, <2>5, <2>6, <2>11, <2>14, <2>15, PlacesGain
  <2>17. Passing(w)'
    <3>1. Filled(w) <= NTasks
      BY <1>2, <2>10 DEF Passing
    <3> QED
      BY <1>2, <2>8, <2>10, <3>1 DEF Passing
  <2>18. state' \in [Tasks -> {"RUNNABLE", "EXITED"}]
    BY <1>2 DEF Solo, SoloInv
  <2> QED
    BY <1>2, <2>16, <2>17, <2>18, SoloStep
<1>8. ~Load(w) /\ ~Check(w)
  BY <1>1 DEF Load, Check, At, PopPCs, Held
<1> QED
  BY <1>1, <1>3, <1>4, <1>5, <1>6, <1>7, <1>8 DEF RingStep

LEMMA SoloRing ==
  ASSUME Solo, NEW w \in Workers, InRing(w)
  PROVE  SoloInv'
<1>1. Calls(w) /\ Loops(w) /\ NCore = 1
  BY SoloFacts DEF Solo
<1>2. rop[w].fn # "none"
  BY DEF InRing, RingStep, LockHead, LockTail, Load, Check, Loop, Slot, LoadIndex, MoveIndex, Add,
         UnlockTail, UnlockHead, At
<1>3. wk[w].pc \in {"local", "again", "global", "push", "requeue"}
  BY <1>1, <1>2 DEF Calls
<1>4. wk[w].pc = "global" => Using(w)
  BY <1>1 DEF Loops
<1> QED
  BY <1>3, <1>4, SoloTake, SoloPut, SoloShare

-----------------------------------------------------------------------------
(* One worker: the host *)

\* The host leaves the worker and its queue alone.
LEMMA SoloHost ==
  ASSUME Solo, UNCHANGED <<wk, state>>, \A w \in Workers : rop'[w] = rop[w] /\ SameRing(w),
         head'[Global] = head[Global], host'.pc = "done" => \A w \in Workers : Gone(w)
  PROVE  SoloInv'
<1>1. ASSUME NEW w \in Workers PROVE Places(w)' /\ Passing(w)'
  <2>1. Places(w) /\ Passing(w)
    BY SoloFacts
  <2>2. rop'[w] = rop[w] /\ SameRing(w)
    OBVIOUS
  <2>3. Uncounted(w)' = Uncounted(w)
    BY <2>2 DEF Uncounted, MyCall
  <2>4. Filled(w)' = Filled(w)
    BY <2>2, <2>3 DEF Filled, SameRing
  <2>5. (Handles(w)' <=> Handles(w)) /\ HandTask(w)' = HandTask(w) /\ Way(w)' = Way(w)
    BY <2>2 DEF Handles, HandTask, Way
  <2>6. \A k : WayTask(w, k)' = WayTask(w, k)
    BY <2>2 DEF WayTask
  <2>7. SameSpots(w)
    BY <2>2, <2>4, <2>5, <2>6 DEF SameSpots, SameRing
  <2>8. Places(w)'
    BY <2>1, <2>7, PlacesStay
  <2>9. Passing(w)'
    BY <2>1, <2>2, <2>4, <2>5 DEF Passing, SameRing
  <2> QED
    BY <2>8, <2>9
<1>2. state' \in [Tasks -> {"RUNNABLE", "EXITED"}]
  BY DEF Solo, SoloInv
<1>3. host'.pc = "done" => \A w \in Workers : Gone(w)'
  BY DEF Gone
<1> QED
  BY <1>1, <1>2, <1>3 DEF SoloInv

LEMMA SoloAdd ==
  ASSUME Solo, mcsched_add \/ mcsched_add_return
  PROVE  SoloInv'
<1>1. Shape
  BY DEF Solo, SchedInv
<1>2. /\ UNCHANGED <<buf, head, tail, count, wk, state>> /\ host'.pc = host.pc
      /\ \E g : rop' = [rop EXCEPT ![Host] = g]
  BY <1>1 DEF mcsched_add, mcsched_add_return, ringData, Call, Shape
<1>3. \A w \in Workers : rop'[w] = rop[w] /\ SameRing(w)
  BY <1>1, <1>2, Names DEF SameRing, Shape
<1>4. host'.pc = "done" => \A w \in Workers : Gone(w)
  BY <1>2 DEF Solo, SoloInv
<1> QED
  BY <1>2, <1>3, <1>4, SoloHost

LEMMA SoloHostRing ==
  ASSUME Solo, InRing(Host)
  PROVE  SoloInv'
<1>1. Shape /\ Host \in Procs
  BY Names DEF Solo, SchedInv
<1>2. RingStep(Host) /\ UNCHANGED <<wk, host, state>>
  BY DEF InRing
<1>3. rop[Host].fn # "none"
  BY <1>2 DEF RingStep, Load, LockHead, LockTail, Check, Loop, Slot, LoadIndex, MoveIndex,
              Add, UnlockTail, UnlockHead, At
<1>4. rop[Host].fn = "push_one" /\ rop[Host].q = Global
  <2>1. PICK P : Adds(P)
    BY DEF Solo, SchedInv, Handing
  <2> QED
    BY <1>3, <2>1 DEF Adds
<1>5. Elsewhere(Global)
  BY <1>1, <1>2, <1>4, RingElsewhere
<1>6. PICK g : Becomes(Host, g)
  BY <1>1, <1>2, RingFrame
<1>7. \A w \in Workers : rop'[w] = rop[w] /\ SameRing(w)
  BY <1>1, <1>5, <1>6, Names DEF Elsewhere, SameRing, Becomes, Shape
<1>8. head' = head
  BY <1>2, <1>4 DEF RingStep, Load, LockHead, LockTail, Check, Loop, Slot, LoadIndex, MoveIndex,
              Add, UnlockTail, UnlockHead, AtTail
<1>9. host'.pc = "done" => \A w \in Workers : Gone(w)
  BY <1>2 DEF Solo, SoloInv
<1> QED
  BY <1>2, <1>7, <1>8, <1>9, SoloHost

LEMMA SoloJoin ==
  ASSUME Solo, mcsched_join
  PROVE  SoloInv'
<1>1. UNCHANGED <<buf, head, tail, count, rop, wk, state>> /\ \A w \in Workers : Gone(w)
  BY DEF mcsched_join, ringVars, Gone
<1>2. \A w \in Workers : rop'[w] = rop[w] /\ SameRing(w)
  BY <1>1 DEF SameRing
<1> QED
  BY <1>1, <1>2, SoloHost

LEMMA SoloStart ==
  ASSUME Solo, mcshed_start
  PROVE  SoloInv'
<1>1. Shape
  BY DEF Solo, SchedInv
<1>2. PICK w \in Workers : /\ wk[w].pc = "unborn" /\ wk' = [wk EXCEPT ![w].pc = "local"]
                           /\ Call(w, "pop_one", w, <<>>, 1)
  BY DEF mcshed_start
<1>3. UNCHANGED <<buf, head, tail, count, state>> /\ host'.pc # "done"
  BY <1>1 DEF mcshed_start, ringData, Shape
<1>4. wk'[w].pc = "local"
  <2>1. Loops(w) /\ DOMAIN wk = Workers
    BY DEF Solo, SchedInv, Shape
  <2> QED
    BY <1>2, <2>1 DEF Loops
<1>5. /\ rop'[w].fn = "pop_one" /\ rop'[w].i = 0 /\ rop'[w].pc = "load" /\ rop'[w].out = <<>>
  BY <1>1, <1>2, BeginsCall
<1>6. /\ Calls(w) /\ Places(w) /\ Passing(w) /\ Workers = {w}
  BY SoloFacts
<1>7. rop[w].fn = "none"
  BY <1>2, <1>6 DEF Calls
<1>8. Uncounted(w) = 0 /\ Uncounted(w)' = 0
  <2>1. 0 - rop'[w].i = 0
    BY <1>5
  <2> QED
    BY <1>5, <1>7, <2>1 DEF Uncounted, MyCall
<1>9. Filled(w)' = Filled(w)
  BY <1>3, <1>8 DEF Filled
<1>10. ~Handles(w) /\ ~Handles(w)' /\ Way(w) = {} /\ Way(w)' = {}
  BY <1>2, <1>4, <1>5 DEF Handles, Way
<1>11. SameSpots(w)
  BY <1>3, <1>9, <1>10 DEF SameSpots
<1>12. Places(w)'
  BY <1>3, <1>6, <1>11, PlacesStay
<1>13. Passing(w)'
  <2>1. Filled(w) <= NTasks
    BY <1>6, <1>10 DEF Passing
  <2> QED
    BY <1>4, <1>5, <1>9, <1>10, <2>1 DEF Passing
<1>14. state' \in [Tasks -> {"RUNNABLE", "EXITED"}]
  BY <1>3 DEF Solo, SoloInv
<1> QED
  BY <1>3, <1>6, <1>12, <1>13, <1>14 DEF SoloInv

-----------------------------------------------------------------------------
(* One worker: the theorems *)

LEMMA SoloInit == Init => SoloInv
<1> SUFFICES ASSUME Init PROVE SoloInv
  OBVIOUS
<1>1. state = [t \in Tasks |-> "RUNNABLE"] /\ host.pc = "add" /\ head[Global] = 0
  BY Names DEF Init, RingInit
<1>2. ASSUME NEW w \in Workers PROVE Places(w) /\ Passing(w)
  <2>1. wk[w].pc = "unborn" /\ rop[w].fn = "none" /\ count[w] = 0
    BY Names, NoCallFields DEF Init, RingInit
  <2>2. Uncounted(w) = 0
    BY <2>1 DEF Uncounted, MyCall
  <2>3. Filled(w) = 0
    BY <2>1, <2>2 DEF Filled
  <2>4. ~Handles(w) /\ Way(w) = {}
    BY <2>1 DEF Handles, Way
  <2>5. \A s : ~Cell(w, s)
    BY <2>3 DEF Cell
  <2>6. \A p : ~Full(w, p)
    BY <2>4, <2>5 DEF Full
  <2>7. \A t \in Tasks : ~(t <= 0)
    BY DEF Tasks
  <2>8. Places(w)
    BY <1>1, <2>6, <2>7 DEF Places
  <2>9. Passing(w)
    BY <2>1, <2>3, <2>4, SizeAssumption DEF Passing
  <2> QED
    BY <2>8, <2>9
<1> QED
  BY <1>1, <1>2 DEF SoloInv

LEMMA SoloStutter == SoloInv /\ UNCHANGED vars => SoloInv'
<1> SUFFICES ASSUME SoloInv, UNCHANGED vars PROVE SoloInv'
  OBVIOUS
<1>1. UNCHANGED <<buf, head, tail, count, rop, wk, host, state>>
  BY DEF vars, ringVars
<1>2. ASSUME NEW w \in Workers PROVE Places(w)' /\ Passing(w)'
  <2>1. Places(w) /\ Passing(w)
    BY DEF SoloInv
  <2>2. Uncounted(w)' = Uncounted(w)
    BY <1>1 DEF Uncounted, MyCall
  <2>3. Filled(w)' = Filled(w)
    BY <1>1, <2>2 DEF Filled
  <2>4. (Handles(w)' <=> Handles(w)) /\ HandTask(w)' = HandTask(w) /\ Way(w)' = Way(w)
    BY <1>1 DEF Handles, HandTask, Way
  <2>5. \A k : WayTask(w, k)' = WayTask(w, k)
    BY <1>1 DEF WayTask
  <2>6. SameSpots(w)
    BY <1>1, <2>3, <2>4, <2>5 DEF SameSpots
  <2>7. Places(w)'
    BY <1>1, <2>1, <2>6, PlacesStay
  <2>8. Passing(w)'
    BY <1>1, <2>1, <2>3, <2>4 DEF Passing
  <2> QED
    BY <2>7, <2>8
<1> QED
  BY <1>1, <1>2 DEF SoloInv, Gone

LEMMA SoloInvStep == Solo /\ [Next]_vars => SoloInv'
<1> SUFFICES ASSUME Solo, Next PROVE SoloInv'
  BY SoloStutter DEF Solo
<1>1. CASE mcsched_add \/ mcsched_add_return \/ mcshed_start \/ mcsched_join
  BY <1>1, SoloAdd, SoloStart, SoloJoin
<1>2. ASSUME NEW w \in Workers, mcsched_loop(w) PROVE SoloInv'
  BY <1>2, SoloLoop
<1>3. ASSUME NEW x \in Procs, InRing(x) PROVE SoloInv'
  <2>1. CASE x = Host
    BY <1>3, <2>1, SoloHostRing
  <2>2. CASE x \in Workers
    BY <1>3, <2>2, SoloRing
  <2> QED
    BY <2>1, <2>2, NamesAssumption
<1> QED
  BY <1>1, <1>2, <1>3 DEF Next

\* The global queue between calls: it holds the tasks from head on.
LEMMA SoloGlobal ==
  ASSUME Solo, \A p \in Procs : rop[p].fn = "none"
  PROVE  /\ tail[Global] = host.i - 1
         /\ count[Global] = tail[Global] - head[Global]
         /\ \A k \in 1 .. count[Global] : Queued(Global)[k] = head[Global] + k
<1>1. /\ head[Global] \in Nat /\ tail[Global] \in Nat /\ head[Global] <= tail[Global]
      /\ tail[Global] <= NTasks /\ Handing(tail[Global], head[Global])
      /\ (host.pc = "add" => count[Global] = tail[Global])
  BY GlobalFacts, Names DEF Solo
<1>2. NTasks < Cap /\ NTasks \in Nat /\ Cap \in Nat
  BY SizeAssumption, CapAssumption DEF Solo, Room
<1>3. tail[Global] = host.i - 1
  <2>1. rop[Host].i = 0
    BY <1>1, Names DEF Handing, Adds
  <2>2. host.i \in Nat
    BY <1>2 DEF Solo, SchedInv, Shape
  <2>3. tail[Global] = (host.i - 1) + rop[Host].i
    BY <1>1, <1>2 DEF Handing, Adds
  <2> QED
    BY <2>1, <2>2, <2>3
<1>4. count[Global] = tail[Global] - head[Global]
  <2>1. CASE host.pc = "add"
    <3>1. head[Global] = 0
      BY <2>1 DEF Solo, HandInv
    <3> QED
      BY <1>1, <2>1, <3>1
  <2>2. CASE host.pc # "add"
    <3>1. \A w \in Workers : ~Busy(w)
      BY Names DEF Busy, Using
    <3> QED
      BY <2>2, <3>1 DEF Solo, HandInv, Counted
  <2> QED
    BY <2>1, <2>2
<1>5. ASSUME NEW k \in 1 .. count[Global] PROVE Queued(Global)[k] = head[Global] + k
  <2>1. Queued(Global)[k] = buf[Global][(head[Global] + k - 1) % Cap]
    BY DEF Queued
  <2>2. PICK n \in Nat : n = head[Global] + k - 1 /\ n < tail[Global]
    BY <1>1, <1>4
  <2>3. n % Cap = n
    BY <1>1, <1>2, <2>2
  <2>4. buf[Global][n] = n + 1
    BY <1>1, <2>2 DEF Handing, Stored
  <2>5. n + 1 = head[Global] + k
    BY <1>1, <1>4, <2>2
  <2> QED
    BY <2>1, <2>2, <2>3, <2>4, <2>5
<1> QED
  BY <1>3, <1>4, <1>5

\* Worker w between calls, and its places.
LEMMA SoloSpots ==
  ASSUME Solo, NEW w \in Workers, \A p \in Procs : rop[p].fn = "none", NEW t \in Tasks
  PROVE  /\ Spots(t) = {x \in {<<w, 0>>} : wk[w].pc = "run" /\ wk[w].e = t}
               \cup {<<w, k>> : k \in {j \in 1 .. count[w] : buf[w][(head[w] + j - 1) % Cap] = t}}
               \cup {<<Global, k>> : k \in {j \in 1 .. count[Global] : head[Global] + j = t}}
         /\ \A p \in Int : Full(w, p) <=> (p = -1 /\ wk[w].pc = "run") \/ (p \in Index /\ Cell(w, p))
         /\ Filled(w) = count[w]
<1>1. /\ Workers = {w} /\ Calls(w) /\ Loops(w) /\ Passing(w) /\ count[w] \in Nat /\ Filled(w) \in Nat
      /\ NTasks < Cap /\ NTasks \in Nat /\ Cap \in Nat /\ head[Global] \in Nat
      /\ tail[Global] \in Nat /\ head[Global] <= tail[Global] /\ tail[Global] <= NTasks
  BY SoloFacts
<1>2. rop[w].fn = "none"
  BY Names
<1>3. wk[w].pc \in {"unborn", "run", "exit"}
  BY <1>1, <1>2 DEF Calls, Loops, Using
<1>4. Filled(w) = count[w]
  <2>1. Uncounted(w) = 0
    BY <1>2 DEF Uncounted, MyCall
  <2> QED
    BY <1>1, <2>1 DEF Filled
<1>5. (Handles(w) <=> wk[w].pc = "run") /\ Way(w) = {}
  BY <1>3 DEF Handles, Way
<1>6. \A p \in Int : Full(w, p) <=> (p = -1 /\ wk[w].pc = "run") \/ (p \in Index /\ Cell(w, p))
  BY <1>5 DEF Full
<1>7. count[w] <= Cap
  <2>1. Filled(w) <= NTasks
    BY <1>1 DEF Passing
  <2> QED
    BY <1>1, <1>4, <2>1
<1>8. count[Global] \in Nat /\ count[Global] <= Cap
  BY <1>1, SoloGlobal
<1>9. Rings = {w, Global} /\ w # Global
  BY <1>1, NamesAssumption, Names
<1>10. \A k \in 1 .. count[w] : Queued(w)[k] = buf[w][(head[w] + k - 1) % Cap]
  BY DEF Queued
<1>11. \A k \in 1 .. count[Global] : Queued(Global)[k] = head[Global] + k
  BY SoloGlobal
<1>12. {p \in Rings \X (1 .. Cap) : p[2] <= count[p[1]] /\ Queued(p[1])[p[2]] = t} =
         {<<w, k>> : k \in {j \in 1 .. count[w] : buf[w][(head[w] + j - 1) % Cap] = t}} \cup
         {<<Global, k>> : k \in {j \in 1 .. count[Global] : head[Global] + j = t}}
  <2> DEFINE All == {p \in Rings \X (1 .. Cap) : p[2] <= count[p[1]] /\ Queued(p[1])[p[2]] = t}
             Own == {<<w, k>> : k \in {j \in 1 .. count[w] : buf[w][(head[w] + j - 1) % Cap] = t}}
             Glob == {<<Global, k>> : k \in {j \in 1 .. count[Global] : head[Global] + j = t}}
  <2>1. ASSUME NEW x \in All PROVE x \in Own \cup Glob
    <3>1. PICK q \in Rings, k \in 1 .. Cap : x = <<q, k>> /\ k <= count[q] /\ Queued(q)[k] = t
      OBVIOUS
    <3>2. CASE q = w
      <4>1. k \in 1 .. count[w]
        BY <1>1, <3>1, <3>2
      <4>2. buf[w][(head[w] + k - 1) % Cap] = t
        BY <1>10, <3>1, <3>2, <4>1
      <4> QED
        BY <3>1, <3>2, <4>1, <4>2
    <3>3. CASE q = Global
      <4>1. k \in 1 .. count[Global]
        BY <1>8, <3>1, <3>3
      <4>2. head[Global] + k = t
        BY <1>11, <3>1, <3>3, <4>1
      <4> QED
        BY <3>1, <3>3, <4>1, <4>2
    <3> QED
      BY <1>9, <3>2, <3>3
  <2>2. ASSUME NEW x \in Own PROVE x \in All
    <3>1. PICK k \in 1 .. count[w] : x = <<w, k>> /\ buf[w][(head[w] + k - 1) % Cap] = t
      OBVIOUS
    <3>2. k \in 1 .. Cap /\ k <= count[w] /\ Queued(w)[k] = t /\ w \in Rings
      BY <1>1, <1>7, <1>9, <1>10, <3>1
    <3> QED
      BY <3>1, <3>2
  <2>3. ASSUME NEW x \in Glob PROVE x \in All
    <3>1. PICK k \in 1 .. count[Global] : x = <<Global, k>> /\ head[Global] + k = t
      OBVIOUS
    <3>2. k \in 1 .. Cap /\ k <= count[Global] /\ Queued(Global)[k] = t /\ Global \in Rings
      BY <1>1, <1>8, <1>9, <1>11, <3>1
    <3> QED
      BY <3>1, <3>2
  <2> QED
    BY <2>1, <2>2, <2>3
<1>13. {<<v, 0>> : v \in {u \in Workers : wk[u].pc = "run" /\ wk[u].e = t}} =
         {x \in {<<w, 0>>} : wk[w].pc = "run" /\ wk[w].e = t}
  BY <1>1
<1> QED
  BY <1>4, <1>6, <1>12, <1>13 DEF Spots

LEMMA SoloOnePlace == Solo => EachInOnePlace
<1> SUFFICES ASSUME Solo, \A p \in Procs : rop[p].fn = "none", NEW t \in Tasks
             PROVE  IF t < host.i /\ state[t] = "RUNNABLE"
                    THEN \E p \in Spots(t) : Spots(t) = {p}
                    ELSE Spots(t) = {}
  BY DEF EachInOnePlace
<1>1. PICK w : w \in Workers
  BY CoreAssumption DEF Workers
<1> DEFINE Run == {x \in {<<w, 0>>} : wk[w].pc = "run" /\ wk[w].e = t}
           Own == {<<w, k>> : k \in {j \in 1 .. count[w] : buf[w][(head[w] + j - 1) % Cap] = t}}
           Glob == {<<Global, k>> : k \in {j \in 1 .. count[Global] : head[Global] + j = t}}
<1>2. /\ Spots(t) = Run \cup Own \cup Glob /\ Filled(w) = count[w]
      /\ \A p \in Int : Full(w, p) <=> (p = -1 /\ wk[w].pc = "run") \/ (p \in Index /\ Cell(w, p))
  BY <1>1, SoloSpots
<1>3. /\ Places(w) /\ count[w] \in Nat /\ head[w] \in Index /\ head[Global] \in Nat
      /\ tail[Global] \in Nat /\ head[Global] <= tail[Global] /\ NTasks < Cap /\ NTasks \in Nat
      /\ Cap \in Nat /\ Passing(w)
  BY <1>1, SoloFacts
<1>4. tail[Global] = host.i - 1 /\ count[Global] = tail[Global] - head[Global] /\ host.i \in Int
  BY SoloGlobal DEF Solo, SchedInv, Shape
<1>5. t \in Int /\ state[t] \in {"RUNNABLE", "EXITED"}
  BY SizeAssumption DEF Solo, SoloInv, Tasks
<1>6. count[w] <= NTasks
  BY <1>2, <1>3 DEF Passing
\* The worker's places and the numbered ones.
<1>7. Run # {} => Full(w, -1) /\ Task(w, -1) = t
  BY <1>2 DEF Task, HandTask
<1>8. ASSUME NEW k \in 1 .. count[w], buf[w][(head[w] + k - 1) % Cap] = t
      PROVE  /\ (head[w] + (k - 1)) % Cap \in Index /\ Full(w, (head[w] + (k - 1)) % Cap)
             /\ Task(w, (head[w] + (k - 1)) % Cap) = t
  <2>1. PICK s : s = (head[w] + (k - 1)) % Cap
    OBVIOUS
  <2>2. s \in Index /\ s \in Int /\ s # -1
    <3>1. head[w] + (k - 1) \in Nat
      BY <1>3, <1>8 DEF Index
    <3> QED
      BY <2>1, <3>1, CapAssumption DEF Index
  <2>3. k - 1 \in 0 .. Filled(w) - 1
    BY <1>2, <1>3, <1>8
  <2>4. Cell(w, s)
    BY <2>1, <2>3 DEF Cell
  <2>5. (head[w] + k - 1) % Cap = s
    <3>1. head[w] + k - 1 = head[w] + (k - 1)
      BY <1>3, <1>8 DEF Index
    <3> QED
      BY <2>1, <3>1
  <2>6. Task(w, s) = t
    BY <1>8, <2>2, <2>5 DEF Task
  <2> QED
    BY <1>2, <2>1, <2>2, <2>4, <2>6
<1>9. ASSUME Run \cup Own # {} PROVE t <= head[Global] /\ state[t] = "RUNNABLE"
  <2>1. CASE Run # {}
    BY <1>3, <1>7, <2>1 DEF Places
  <2>2. CASE Own # {}
    <3>1. PICK k \in 1 .. count[w] : buf[w][(head[w] + k - 1) % Cap] = t
      BY <2>2
    <3>2. PICK s \in Int : Full(w, s) /\ Task(w, s) = t
      BY <1>8, <3>1 DEF Index
    <3> QED
      BY <1>3, <3>2 DEF Places
  <2> QED
    BY <1>9, <2>1, <2>2
<1>10. ASSUME NEW a \in Run \cup Own, NEW b \in Run \cup Own PROVE a = b
  <2>1. ASSUME NEW k \in 1 .. count[w], NEW l \in 1 .. count[w], k < l
        PROVE  (head[w] + (k - 1)) % Cap # (head[w] + (l - 1)) % Cap
    <3>1. PICK m \in Nat, n \in Nat : m = head[w] + (k - 1) /\ n = head[w] + (l - 1)
      BY <1>3, <2>1 DEF Index
    <3>2. m < n /\ n < m + Cap
      BY <1>3, <1>6, <2>1, <3>1 DEF Index
    <3>3. m % Cap # n % Cap
      BY <3>2, Apart
    <3> QED
      BY <3>1, <3>3
  <2>2. CASE a \in Run /\ b \in Run
    BY <2>2
  <2>3. ASSUME NEW k \in 1 .. count[w], buf[w][(head[w] + k - 1) % Cap] = t, Run # {} PROVE FALSE
    <3>1. PICK s \in Int : s \in Index /\ Full(w, s) /\ Task(w, s) = t
      BY <1>8, <2>3 DEF Index
    <3>2. s # -1 /\ -1 \in Int
      BY <3>1 DEF Index
    <3> QED
      BY <1>3, <1>7, <2>3, <3>1, <3>2 DEF Places
  <2>4. CASE a \in Own /\ b \in Own
    <3>1. PICK k \in 1 .. count[w] : a = <<w, k>> /\ buf[w][(head[w] + k - 1) % Cap] = t
      BY <2>4
    <3>2. PICK l \in 1 .. count[w] : b = <<w, l>> /\ buf[w][(head[w] + l - 1) % Cap] = t
      BY <2>4
    <3>3. (head[w] + (k - 1)) % Cap = (head[w] + (l - 1)) % Cap
      <4>1. PICK s \in Int : s = (head[w] + (k - 1)) % Cap /\ Full(w, s) /\ Task(w, s) = t
        BY <1>8, <3>1 DEF Index
      <4>2. PICK r \in Int : r = (head[w] + (l - 1)) % Cap /\ Full(w, r) /\ Task(w, r) = t
        BY <1>8, <3>2 DEF Index
      <4>3. s = r
        BY <1>3, <4>1, <4>2 DEF Places
      <4> QED
        BY <4>1, <4>2, <4>3
    <3>4. k = l
      <4>1. ~(k < l) /\ ~(l < k)
        BY <2>1, <3>3
      <4> QED
        BY <1>3, <4>1
    <3> QED
      BY <3>1, <3>2, <3>4
  <2>5. Run # {} => Own = {}
    BY <2>3
  <2> QED
    BY <1>10, <2>2, <2>4, <2>5
<1>11. Glob # {} <=> head[Global] < t /\ t <= tail[Global]
  <2>1. ASSUME Glob # {} PROVE head[Global] < t /\ t <= tail[Global]
    <3>1. PICK k \in 1 .. count[Global] : head[Global] + k = t
      BY <2>1
    <3> QED
      BY <1>3, <1>4, <3>1
  <2>2. ASSUME head[Global] < t, t <= tail[Global] PROVE Glob # {}
    <3>1. PICK k \in 1 .. count[Global] : head[Global] + k = t
      <4>1. t - head[Global] \in 1 .. count[Global] /\ head[Global] + (t - head[Global]) = t
        BY <1>3, <1>4, <1>5, <2>2
      <4> QED
        BY <4>1
    <3> QED
      BY <3>1
  <2> QED
    BY <2>1, <2>2
<1>12. ASSUME NEW a \in Glob, NEW b \in Glob PROVE a = b
  <2>1. PICK k \in 1 .. count[Global] : a = <<Global, k>> /\ head[Global] + k = t
    BY <1>12
  <2>2. PICK l \in 1 .. count[Global] : b = <<Global, l>> /\ head[Global] + l = t
    BY <1>12
  <2>3. k = l
    BY <1>3, <1>4, <2>1, <2>2
  <2> QED
    BY <2>1, <2>2, <2>3
<1>13. ASSUME t <= head[Global], state[t] = "RUNNABLE" PROVE Run \cup Own # {}
  <2>1. PICK p \in Int : Full(w, p) /\ Task(w, p) = t
    BY <1>3, <1>13 DEF Places
  <2>2. CASE p = -1 /\ wk[w].pc = "run"
    <3>1. wk[w].e = t
      BY <2>1, <2>2 DEF Task, HandTask
    <3> QED
      BY <2>2, <3>1
  <2>3. CASE p \in Index /\ Cell(w, p)
    <3>1. PICK j \in 0 .. Filled(w) - 1 : p = (head[w] + j) % Cap
      BY <2>3 DEF Cell
    <3>2. PICK k \in 1 .. count[w] : k = j + 1
      BY <1>2, <1>3, <3>1
    <3>3. (head[w] + k - 1) % Cap = p
      <4>1. head[w] + k - 1 = head[w] + j
        BY <1>3, <3>2 DEF Index
      <4> QED
        BY <3>1, <4>1
    <3>4. buf[w][p] = t
      BY <2>1, <2>3 DEF Task, Index
    <3>5. <<w, k>> \in Own
      BY <3>2, <3>3, <3>4
    <3> QED
      BY <3>5
  <2> QED
    BY <1>2, <2>1, <2>2, <2>3
<1>14. t > head[Global] => state[t] = "RUNNABLE"
  BY <1>3 DEF Places
<1> HIDE DEF Run, Own, Glob
<1>15. CASE t > tail[Global]
  <2>1. ~(t < host.i) /\ Run \cup Own = {} /\ Glob = {}
    BY <1>3, <1>4, <1>5, <1>9, <1>11, <1>15
  <2> QED
    BY <1>2, <2>1
<1>16. CASE head[Global] < t /\ t <= tail[Global]
  <2>1. t < host.i /\ Run \cup Own = {} /\ Glob # {}
    BY <1>3, <1>4, <1>5, <1>9, <1>11, <1>16
  <2>2. PICK p \in Glob : Glob = {p}
    BY <1>12, <2>1
  <2> QED
    BY <1>2, <1>14, <1>16, <2>1, <2>2
<1>17. CASE t <= head[Global]
  <2>1. t < host.i /\ Glob = {}
    BY <1>3, <1>4, <1>5, <1>11, <1>17
  <2>2. CASE state[t] = "RUNNABLE"
    <3>1. PICK p \in Run \cup Own : Run \cup Own = {p}
      BY <1>10, <1>13, <1>17, <2>2
    <3> QED
      BY <1>2, <2>1, <2>2, <3>1
  <2>3. CASE state[t] # "RUNNABLE"
    <3>1. Run \cup Own = {}
      BY <1>9, <2>3
    <3> QED
      BY <1>2, <2>1, <2>3, <3>1
  <2> QED
    BY <2>2, <2>3
<1> QED
  BY <1>3, <1>5, <1>15, <1>16, <1>17

LEMMA SoloFinishes == Solo => JoinMeansFinished
<1> SUFFICES ASSUME Solo, host.pc = "done", NEW t \in Tasks PROVE state[t] = "EXITED"
  BY DEF JoinMeansFinished
<1>1. PICK w : w \in Workers
  BY CoreAssumption DEF Workers
<1>2. /\ Calls(w) /\ Places(w) /\ Passing(w) /\ Gone(w)
  BY <1>1, SoloFacts DEF Solo, SoloInv
<1>3. wk[w].pc = "exit" /\ rop[w].fn = "none" /\ count[w] = 0 /\ Drained
  BY <1>2 DEF Gone, Calls, Passing
<1>4. Filled(w) = 0
  <2>1. Uncounted(w) = 0
    BY <1>3 DEF Uncounted, MyCall
  <2> QED
    BY <1>3, <2>1 DEF Filled
<1>5. ~Handles(w) /\ Way(w) = {} /\ \A s : ~Cell(w, s)
  BY <1>3, <1>4 DEF Handles, Way, Cell
<1>6. \A p : ~Full(w, p)
  BY <1>5 DEF Full
<1>7. t <= head[Global]
  <2>1. head[Global] = tail[Global] /\ tail[Global] = NTasks
    BY <1>3, GlobalFacts DEF Drained, Solo
  <2> QED
    BY <2>1 DEF Tasks
<1>8. state[t] # "RUNNABLE"
  BY <1>2, <1>6, <1>7 DEF Places
<1> QED
  BY <1>8 DEF Solo, SoloInv

\* With one worker and fewer tasks than QUEUESIZE the invariants hold together.
THEOREM SoloHolds ==
  ASSUME NCore = 1, NTasks < Cap
  PROVE  Spec => []Solo
<1>1. Room
  BY DEF Room
<1>2. Init => Solo
  BY <1>1, SchedInvInit, HandInvInit, SoloInit DEF Solo
<1>3. Solo /\ [Next]_vars => Solo'
  BY <1>1, SchedInvStep, HandInvStep, SoloInvStep DEF Solo, Room
<1> QED
  BY <1>2, <1>3, PTL DEF Spec

\* EachInOnePlace for one worker and any number of tasks that fit the queues: after
\* any number of yields every task is queued once, running or exited.
THEOREM EachInOnePlaceHolds ==
  ASSUME NCore = 1, NTasks < Cap
  PROVE  Spec => []EachInOnePlace
  BY SoloHolds, SoloOnePlace, PTL

\* JoinMeansFinished for one worker and any number of tasks that fit the queues: when
\* mcsched_join returns no task was lost on the way through the two queues.
THEOREM JoinFinishedHolds ==
  ASSUME NCore = 1, NTasks < Cap
  PROVE  Spec => []JoinMeansFinished
  BY SoloHolds, SoloFinishes, PTL

=============================================================================
