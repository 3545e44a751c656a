----------------------------- MODULE RingProofs -----------------------------
(***************************************************************************)
(* Proofs about modules RingQueue and RingClients under the clients of the *)
(* global run queue (mcsched_grunq): one pthread that adds tasks one by    *)
(* one, and any number of workers that take batches, for every size of the *)
(* queue, every number of elements and every size of a batch.              *)
(***************************************************************************)
EXTENDS RingClients, SequenceTheorems, TLAPS

-----------------------------------------------------------------------------
(* The inductive invariant *)

\* p pushes single elements (mcsched_add), everybody else takes batches
\* (mcsched_loop).
Many(p) ==
  /\ p \in Procs /\ Role[p] \subseteq {"push_one"}
  /\ \A c \in Procs \ {p} : Role[c] \subseteq {"pop"}

\* What p pushed so far, an element in hand included once its index has moved.
NPushed(p) == sent[p] + rop[p].i

\* The elements of a call of p that count knows of.
Counted(f) == IF f.pc \in {"tunlock", "hunlock", "done"} THEN f.i ELSE 0

PushPCs == {"load", "hlock", "tlock", "check", "slot", "index", "move", "add",
            "tunlock", "hunlock", "done"}
PopPCs == {"hlock", "tlock", "loop", "slot", "index", "move", "add",
           "tunlock", "hunlock", "done"}

\* Before p's index moves.
Early == {"load", "hlock", "tlock", "check", "slot", "index", "move"}

\* A popper has an element out of its slot and head has not moved; it is before
\* its update of count; it has the head mutex.
InHand(f) == f.pc \in {"index", "move"}
Busy(f) == f.pc \in {"tlock", "loop", "slot", "index", "move", "add"}
Holds(f) == f.pc \in {"tlock", "loop", "slot", "index", "move", "add", "tunlock", "hunlock"}

\* p has the head mutex if it decided to take it.
PushHolds(f) == "h" \in f.need /\ f.pc \in {"tlock", "check", "slot", "index", "move",
                                             "add", "tunlock", "hunlock"}

Fields == {"fn", "q", "pc", "need", "in", "max", "i", "reg", "out"}
Frame(f) == f = [x \in Fields |-> f[x]]

Types ==
  /\ buf \in [{Ring} -> [Index -> Items \cup {Null}]]
  /\ head \in [{Ring} -> Index] /\ tail \in [{Ring} -> Index]
  /\ count \in [{Ring} -> Int]
  /\ DOMAIN hlock = {Ring}
  /\ DOMAIN rop = Procs /\ DOMAIN sent = Procs /\ DOMAIN got = Procs
  /\ sent \in [Procs -> Nat]

\* An activation f of p, which pushed s elements before: it has one element,
\* number s + 1.
PushFrame(p, f, s) ==
  /\ Frame(f)
  /\ f.out = <<>> /\ f.i \in {0, 1} /\ f.pc \in PushPCs /\ s + f.i <= PerProc
  /\ f.fn = "none" => f.i = 0 /\ f.pc = "done"
  /\ f.fn # "none" =>
       /\ f.fn = "push_one" /\ f.q = Ring /\ f.in = <<<<p, s + 1>>>>
       /\ f.pc \in Early => f.i = 0 /\ s < PerProc
       /\ f.pc = "add" => f.i = 1
       /\ f.pc = "hunlock" => "h" \in f.need

\* An activation f of a client that pops.
PopFrame(f) ==
  /\ Frame(f)
  /\ f.i \in Nat /\ f.pc \in PopPCs /\ f.out \in Seq(Items)
  /\ f.fn = "none" => f.pc = "done" /\ f.out = <<>>
  /\ f.fn # "none" => f.fn = "pop" /\ f.q = Ring /\ f.need = Both
  /\ f.pc \in {"hlock", "tlock"} => f.i = 0

\* What p relies on between looking at the queue and moving its index, when head
\* has passed h elements: a free slot, its element in it.
Room(p, h) ==
  /\ rop[p].pc \in {"slot", "index", "move"} => NPushed(p) - h < Cap
  /\ rop[p].pc \in {"index", "move"} => buf[Ring][tail[Ring]] = <<p, sent[p] + 1>>
  /\ rop[p].pc = "move" => rop[p].reg = tail[Ring]

\* What the poppers rely on: an element.
Some(p, h) ==
  \A c \in Procs \ {p} :
    /\ PopFrame(rop[c])
    /\ rop[c].pc \in {"slot", "index", "move"} => h < NPushed(p)
    /\ rop[c].pc = "move" => rop[c].reg = head[Ring]

\* At most one client has the head mutex.
Held(p) ==
  /\ PushHolds(rop[p]) => hlock[Ring] = p
  /\ \A c \in Procs \ {p} : Holds(rop[c]) => hlock[Ring] = c

\* What was returned to the clients.
Returns(p) ==
  /\ got[p] = <<>>
  /\ \A c \in Procs \ {p} : sent[c] = 0 /\ got[c] \in Seq(Items)

\* The poppers hold the first t elements of p, each of them once.
Handed(p, t) ==
  /\ \A w \in Procs \ {p} : \A j \in DOMAIN Popped(w) :
       \E n \in 1 .. t : Popped(w)[j] = <<p, n>>
  /\ \A v, w \in Procs \ {p} : \A i \in DOMAIN Popped(v), j \in DOMAIN Popped(w) :
       Popped(v)[i] = Popped(w)[j] => v = w /\ i = j
  /\ \A n \in 1 .. t : \E w \in Procs \ {p} : \E j \in DOMAIN Popped(w) :
       Popped(w)[j] = <<p, n>>

\* The queue: head has passed h elements and count has forgotten b of them.
Between(p, h, b) ==
  /\ h <= NPushed(p) /\ NPushed(p) - h <= Cap
  /\ tail[Ring] = NPushed(p) % Cap /\ head[Ring] = h % Cap
  /\ \A n \in h .. NPushed(p) - 1 : buf[Ring][n % Cap] = <<p, n + 1>>
  /\ count[Ring] = (sent[p] + Counted(rop[p])) - b

\* t elements were read, head has passed h and count has forgotten b: they differ
\* by what the popper under the mutexes has in hand and has not counted.
Lag(p, t, h, b) ==
  /\ \A c \in Procs \ {p} : /\ InHand(rop[c]) => t = h + 1
                            /\ Busy(rop[c]) => h = b + rop[c].i
  /\ (\A c \in Procs \ {p} : ~InHand(rop[c])) => t = h
  /\ (\A c \in Procs \ {p} : ~Busy(rop[c])) => h = b

QInv(p, t, h, b) ==
  /\ Types /\ Between(p, h, b) /\ Lag(p, t, h, b) /\ Returns(p) /\ Handed(p, t)
  /\ PushFrame(p, rop[p], sent[p]) /\ Room(p, h) /\ Some(p, h) /\ Held(p)

RingInv(p) == \E t, h, b \in Nat : QInv(p, t, h, b)

-----------------------------------------------------------------------------
(* Arithmetic of the ring *)

\* The next index is the position of the next element.
LEMMA NextPlace ==
  ASSUME NEW n \in Nat
  PROVE  ((n % Cap) + 1) % Cap = (n + 1) % Cap /\ n % Cap \in Index
<1> USE CapAssumption
<1> DEFINE lap == n \div Cap
           pos == n % Cap
<1>1. n = Cap * lap + pos /\ lap \in Int /\ pos \in 0 .. Cap - 1
  OBVIOUS
<1> SUFFICES (pos + 1) % Cap = (n + 1) % Cap /\ pos \in Index
  OBVIOUS
<1> HIDE DEF lap, pos
<1>2. CASE pos + 1 < Cap
  <2>1. n + 1 = Cap * lap + (pos + 1) /\ pos + 1 \in 0 .. Cap - 1
    BY <1>1, <1>2
  <2>2. (Cap * lap + (pos + 1)) % Cap = pos + 1
    BY <1>1, <2>1
  <2>3. (pos + 1) % Cap = pos + 1
    BY <2>1
  <2> QED
    BY <1>1, <2>1, <2>2, <2>3 DEF Index
<1>3. CASE pos + 1 = Cap
  <2>0. PICK k \in Int : k = lap + 1
    BY <1>1
  <2>1. n + 1 = Cap * k + 0
    BY <1>1, <1>3, <2>0
  <2>2. (Cap * k + 0) % Cap = 0
    BY <2>0
  <2>3. (pos + 1) % Cap = 0
    BY <1>3
  <2> QED
    BY <1>1, <2>1, <2>2, <2>3 DEF Index
<1> QED
  BY <1>1, <1>2, <1>3

\* Two elements less than a lap apart have different slots.
LEMMA Apart ==
  ASSUME NEW a \in Nat, NEW b \in Nat, a < b, b < a + Cap
  PROVE  a % Cap # b % Cap
<1> USE CapAssumption
<1>1. /\ a = Cap * (a \div Cap) + (a % Cap)
      /\ b = Cap * (b \div Cap) + (b % Cap)
      /\ a \div Cap \in Int /\ b \div Cap \in Int
  OBVIOUS
<1>2. ASSUME a % Cap = b % Cap PROVE FALSE
  <2> DEFINE laps == (b \div Cap) - (a \div Cap)
  <2>1. b - a = Cap * laps /\ laps \in Int
    BY <1>1, <1>2
  <2> HIDE DEF laps
  <2>2. CASE laps <= 0
    <3>1. Cap * laps <= 0
      BY <2>1, <2>2
    <3> QED
      BY <3>1, <2>1
  <2>3. CASE laps >= 1
    <3>1. Cap * laps >= Cap
      BY <2>1, <2>3
    <3> QED
      BY <3>1, <2>1
  <2> QED
    BY <2>1, <2>2, <2>3
<1> QED
  BY <1>2

-----------------------------------------------------------------------------
(* Records of a call *)

\* The changes of an activation: the decision on the mutexes, the index loaded,
\* the loop counter, the elements popped.
WithPc(f, v) == [f EXCEPT !.pc = v]
NeedPc(f, n, v) == [[f EXCEPT !.need = n] EXCEPT !.pc = v]
RegPc(f, n, v) == [[f EXCEPT !.pc = v] EXCEPT !.reg = n]
IPc(f, n, v) == [[f EXCEPT !.i = n] EXCEPT !.pc = v]
OutPc(f, n, v) == [[f EXCEPT !.out = n] EXCEPT !.pc = v]

\* A call goes on to pc; the rest of its activation stays.
LEMMA SetPc ==
  ASSUME NEW f, Frame(f), NEW v, NEW g, g = WithPc(f, v)
  PROVE  /\ Frame(g) /\ g.pc = v /\ g.fn = f.fn /\ g.q = f.q /\ g.need = f.need
         /\ g.in = f.in /\ g.i = f.i /\ g.reg = f.reg /\ g.out = f.out
  BY DEF Fields, Frame, WithPc

LEMMA SetNeedPc ==
  ASSUME NEW f, Frame(f), NEW v, NEW n, NEW g,
         g = NeedPc(f, n, v)
  PROVE  /\ Frame(g) /\ g.pc = v /\ g.fn = f.fn /\ g.q = f.q /\ g.need = n
         /\ g.in = f.in /\ g.i = f.i /\ g.reg = f.reg /\ g.out = f.out
  BY DEF Fields, Frame, NeedPc

LEMMA SetRegPc ==
  ASSUME NEW f, Frame(f), NEW v, NEW n, NEW g,
         g = RegPc(f, n, v)
  PROVE  /\ Frame(g) /\ g.pc = v /\ g.fn = f.fn /\ g.q = f.q /\ g.need = f.need
         /\ g.in = f.in /\ g.i = f.i /\ g.reg = n /\ g.out = f.out
  BY DEF Fields, Frame, RegPc

LEMMA SetIPc ==
  ASSUME NEW f, Frame(f), NEW v, NEW n, NEW g,
         g = IPc(f, n, v)
  PROVE  /\ Frame(g) /\ g.pc = v /\ g.fn = f.fn /\ g.q = f.q /\ g.need = f.need
         /\ g.in = f.in /\ g.i = n /\ g.reg = f.reg /\ g.out = f.out
  BY DEF Fields, Frame, IPc

LEMMA SetOutPc ==
  ASSUME NEW f, Frame(f), NEW v, NEW n, NEW g,
         g = OutPc(f, n, v)
  PROVE  /\ Frame(g) /\ g.pc = v /\ g.fn = f.fn /\ g.q = f.q /\ g.need = f.need
         /\ g.in = f.in /\ g.i = f.i /\ g.reg = f.reg /\ g.out = n
  BY DEF Fields, Frame, OutPc

-----------------------------------------------------------------------------
(* Steps of the client that pushes that leave the queue alone *)

\* The elements in the callers' hands stay when nobody's results change.
LEMMA HandedSame ==
  ASSUME NEW p, NEW t, Handed(p, t), \A w \in Procs \ {p} : Popped(w)' = Popped(w)
  PROVE  Handed(p, t)'
  BY DEF Handed

\* What a step of p alone leaves of the poppers' side.
LEMMA PushSide ==
  ASSUME NEW p, Many(p), NEW t \in Nat, NEW h \in Nat, NEW b \in Nat, QInv(p, t, h, b),
         NEW g, rop' = [rop EXCEPT ![p] = g], UNCHANGED head,
         \A c \in Procs \ {p} : got'[c] = got[c]
  PROVE  /\ rop'[p] = g /\ DOMAIN rop' = Procs
         /\ \A c \in Procs \ {p} : rop'[c] = rop[c]
         /\ Lag(p, t, h, b)' /\ Handed(p, t)'
         /\ h < NPushed(p)' \/ NPushed(p)' = NPushed(p) => Some(p, h)'
<1>1. p \in Procs /\ DOMAIN rop = Procs
  BY DEF Many, QInv, Types
<1>2. /\ rop'[p] = g /\ DOMAIN rop' = Procs
      /\ \A c \in Procs \ {p} : rop'[c] = rop[c]
  BY <1>1
<1>3. Lag(p, t, h, b)'
  BY <1>2 DEF QInv, Lag
<1>4. \A w \in Procs \ {p} : Popped(w)' = Popped(w)
  BY <1>2 DEF Popped
<1>5. Handed(p, t)'
  BY <1>4, HandedSame DEF QInv
<1>6. ASSUME h < NPushed(p)' \/ NPushed(p)' = NPushed(p) PROVE Some(p, h)'
  BY <1>2, <1>6 DEF QInv, Some
<1> QED
  BY <1>2, <1>3, <1>5, <1>6

\* The invariant, when p's frame becomes g and only the mutexes change otherwise.
LEMMA PushQuiet ==
  ASSUME NEW p, Many(p), NEW t \in Nat, NEW h \in Nat, NEW b \in Nat, QInv(p, t, h, b),
         NEW g, rop' = [rop EXCEPT ![p] = g],
         UNCHANGED <<buf, head, tail, count, sent, got>>,
         DOMAIN hlock' = {Ring}, Held(p)',
         PushFrame(p, g, sent[p]), g.i = rop[p].i, Counted(g) = Counted(rop[p]),
         g.pc \in {"slot", "index", "move"} => NPushed(p) - h < Cap,
         g.pc \in {"index", "move"} => buf[Ring][tail[Ring]] = <<p, sent[p] + 1>>,
         g.pc = "move" => g.reg = tail[Ring]
  PROVE  RingInv(p)'
<1>1. /\ rop'[p] = g /\ DOMAIN rop' = Procs
      /\ \A c \in Procs \ {p} : rop'[c] = rop[c]
      /\ Lag(p, t, h, b)' /\ Handed(p, t)'
      /\ NPushed(p)' = NPushed(p) => Some(p, h)'
  BY PushSide
<1>2. NPushed(p)' = NPushed(p)
  BY <1>1 DEF NPushed
<1>3. Types' /\ Returns(p)'
  BY <1>1 DEF QInv, Types, Returns
<1>4. Between(p, h, b)'
  BY <1>1, <1>2 DEF QInv, Between
<1>5. PushFrame(p, rop[p], sent[p])'
  BY <1>1
<1>6. Room(p, h)'
  BY <1>1, <1>2 DEF Room
<1>7. QInv(p, t, h, b)'
  BY <1>1, <1>2, <1>3, <1>4, <1>5, <1>6 DEF QInv
<1> QED
  BY <1>7 DEF RingInv

\* The steps of p that only go on.
LEMMA PushGoto ==
  ASSUME NEW p, Many(p), NEW t \in Nat, NEW h \in Nat, NEW b \in Nat, QInv(p, t, h, b),
         NEW v \in PushPCs \ {"add", "index", "move"},
         rop[p].fn # "none", rop' = [rop EXCEPT ![p].pc = v],
         UNCHANGED <<buf, head, tail, count, sent, got>>,
         DOMAIN hlock' = {Ring}, Held(p)',
         v \in Early => rop[p].pc \in Early,
         v = "hunlock" => "h" \in rop[p].need,
         Counted(rop[p]) = IF v \in {"tunlock", "hunlock", "done"} THEN rop[p].i ELSE 0,
         v = "slot" => NPushed(p) - h < Cap
  PROVE  RingInv(p)'
<1> DEFINE f == rop[p]
<1>0. PICK g : g = WithPc(f, v)
  OBVIOUS
<1>1. Frame(f) /\ PushFrame(p, f, sent[p])
  BY DEF QInv, PushFrame
<1>2. rop' = [rop EXCEPT ![p] = g]
  BY <1>0 DEF WithPc
<1>3. /\ Frame(g) /\ g.pc = v /\ g.fn = f.fn /\ g.q = f.q /\ g.need = f.need /\ g.in = f.in
      /\ g.i = f.i /\ g.reg = f.reg /\ g.out = f.out
  BY <1>0, <1>1, SetPc
<1>4. PushFrame(p, g, sent[p])
  BY <1>1, <1>3 DEF PushFrame
<1>5. Counted(g) = Counted(rop[p])
  BY <1>3 DEF Counted
<1>6. g.pc \notin {"index", "move"} /\ (g.pc = "slot" => NPushed(p) - h < Cap) /\ g.i = rop[p].i
  BY <1>3
<1>7. UNCHANGED <<buf, head, tail, count, sent, got>>
  OBVIOUS
<1> HIDE DEF f
<1> QED
  BY <1>2, <1>4, <1>5, <1>6, <1>7, PushQuiet

\* The mutexes after a step of p that leaves them alone.
LEMMA PushHeldOn ==
  ASSUME NEW p, Many(p), NEW t \in Nat, NEW h \in Nat, NEW b \in Nat, QInv(p, t, h, b),
         NEW g, rop' = [rop EXCEPT ![p] = g], UNCHANGED hlock,
         PushHolds(g) => PushHolds(rop[p])
  PROVE  Held(p)' /\ DOMAIN hlock' = {Ring}
<1>1. /\ rop'[p] = g /\ \A c \in Procs \ {p} : rop'[c] = rop[c]
  BY DEF Many, QInv, Types
<1> QED
  BY <1>1 DEF QInv, Types, Held

-----------------------------------------------------------------------------
(* What the counts know of each other *)

\* Numbers, and how count relates to what is in the queue: an element a popper has
\* taken and not counted is still there.
LEMMA Counts ==
  ASSUME NEW p, Many(p), NEW t \in Nat, NEW h \in Nat, NEW b \in Nat, QInv(p, t, h, b)
  PROVE  /\ NPushed(p) \in Nat /\ sent[p] \in Nat /\ rop[p].i \in Nat /\ count[Ring] \in Int
         /\ head[Ring] \in Index /\ tail[Ring] \in Index
         /\ b <= h
         /\ rop[p].i = 0 => NPushed(p) - h <= count[Ring]
<1>1. rop[p].i \in Nat
  BY DEF QInv, PushFrame
<1>2. sent[p] \in Nat /\ count[Ring] \in Int /\ head[Ring] \in Index /\ tail[Ring] \in Index
  BY DEF QInv, Types, Many
<1>3. NPushed(p) \in Nat /\ NPushed(p) = sent[p] + rop[p].i
  BY <1>1, <1>2 DEF NPushed
<1>4. b <= h
  <2>1. CASE \E c \in Procs \ {p} : Busy(rop[c])
    <3>1. PICK c \in Procs \ {p} : Busy(rop[c])
      BY <2>1
    <3>2. h = b + rop[c].i /\ rop[c].i \in Nat
      BY <3>1 DEF QInv, Lag, Some, PopFrame
    <3> QED
      BY <3>2
  <2>2. CASE ~ \E c \in Procs \ {p} : Busy(rop[c])
    BY <2>2 DEF QInv, Lag
  <2> QED
    BY <2>1, <2>2
<1>5. ASSUME rop[p].i = 0 PROVE NPushed(p) - h <= count[Ring]
  <2>1. count[Ring] = (sent[p] + Counted(rop[p])) - b /\ Counted(rop[p]) = 0
    BY <1>5 DEF QInv, Between, Counted
  <2> QED
    BY <1>2, <1>3, <1>4, <1>5, <2>1
<1> QED
  BY <1>1, <1>2, <1>3, <1>4, <1>5

-----------------------------------------------------------------------------
(* The steps of the client that pushes *)

\* Facts about the frame of p inside ring_push_one.
LEMMA Pushing ==
  ASSUME NEW p, NEW t, NEW h, NEW b, QInv(p, t, h, b), rop[p].fn # "none"
  PROVE  /\ rop[p].fn = "push_one" /\ rop[p].q = Ring /\ Frame(rop[p])
         /\ rop[p].in = <<<<p, sent[p] + 1>>>> /\ rop[p].i \in {0, 1}
         /\ rop[p].pc \in Early => rop[p].i = 0 /\ sent[p] < PerProc
         /\ rop[p].pc = "add" => rop[p].i = 1
         /\ rop[p].pc = "hunlock" => "h" \in rop[p].need
  BY DEF QInv, PushFrame

LEMMA PushLoad ==
  ASSUME NEW p, Many(p), NEW t \in Nat, NEW h \in Nat, NEW b \in Nat, QInv(p, t, h, b),
         Load(p), UNCHANGED <<sent, got>>
  PROVE  RingInv(p)'
<1>1. rop[p].fn # "none" /\ rop[p].pc = "load"
  BY DEF Load, At
<1>2. /\ rop[p].fn = "push_one" /\ rop[p].q = Ring /\ Frame(rop[p])
      /\ rop[p].i = 0
  BY <1>1, Pushing DEF Early
<1>3. UNCHANGED <<buf, head, tail, count, sent, got, hlock>>
  BY DEF Load
<1>4. CASE QuickFail(rop[p].fn, count[rop[p].q])
  <2>0. PICK g : g = WithPc(rop[p], "done")
    OBVIOUS
  <2>1. rop' = [rop EXCEPT ![p].pc = "done"] /\ rop' = [rop EXCEPT ![p] = g]
    BY <1>4, <2>0 DEF Load, WithPc
  <2>2. /\ "done" \in PushPCs \ {"add", "index", "move"} /\ "done" \notin Early
        /\ Counted(rop[p]) = rop[p].i
    BY <1>1, <1>2 DEF PushPCs, Early, Counted
  <2>3. ~PushHolds(g)
    BY <1>2, <2>0, SetPc DEF PushHolds
  <2>4. Held(p)' /\ DOMAIN hlock' = {Ring}
    BY <1>3, <2>1, <2>3, PushHeldOn
  <2> QED
    BY <1>1, <1>3, <2>1, <2>2, <2>4, PushGoto
<1>5. CASE ~QuickFail(rop[p].fn, count[rop[p].q])
  <2> DEFINE need == Need(rop[p].fn, count[rop[p].q])
             v == IF "h" \in need THEN "hlock" ELSE "tlock"
  <2>0. PICK g : g = NeedPc(rop[p], need, v)
    OBVIOUS
  <2>1. rop' = [rop EXCEPT ![p] = g]
    BY <1>5, <1>2, <2>0 DEF Load, QInv, Types, Many, NeedPc
  <2>2. v \in {"hlock", "tlock"} /\ ("h" \in need => v = "hlock")
    OBVIOUS
  <2> HIDE DEF need, v
  <2>3. /\ Frame(g) /\ g.pc = v /\ g.fn = rop[p].fn /\ g.q = rop[p].q /\ g.need = need
        /\ g.in = rop[p].in /\ g.i = rop[p].i /\ g.out = rop[p].out
    BY <1>2, <2>0, SetNeedPc
  <2>4. PushFrame(p, g, sent[p])
    BY <1>1, <1>2, <2>2, <2>3 DEF QInv, PushFrame, PushPCs, Early
  <2>5. Counted(g) = Counted(rop[p])
    BY <1>1, <2>2, <2>3 DEF Counted
  <2>6. g.pc \notin {"slot", "index", "move"} /\ g.i = rop[p].i
    BY <2>2, <2>3
  <2>7. ~PushHolds(g)
    BY <2>2, <2>3 DEF PushHolds
  <2>8. Held(p)' /\ DOMAIN hlock' = {Ring}
    BY <1>3, <2>1, <2>7, PushHeldOn
  <2> QED
    BY <1>3, <2>1, <2>4, <2>5, <2>6, <2>8, PushQuiet
<1> QED
  BY <1>4, <1>5

\* p obtains the head mutex: no popper had it.
LEMMA PushLockHead ==
  ASSUME NEW p, Many(p), NEW t \in Nat, NEW h \in Nat, NEW b \in Nat, QInv(p, t, h, b),
         LockHead(p), UNCHANGED <<sent, got>>
  PROVE  RingInv(p)'
<1>1. rop[p].fn # "none" /\ rop[p].pc = "hlock"
  BY DEF LockHead, At
<1>2. rop[p].fn = "push_one" /\ rop[p].i = 0 /\ rop[p].q = Ring
  BY <1>1, Pushing DEF Early
<1>3. PICK v \in {"tlock", "check"} : rop' = [rop EXCEPT ![p].pc = v]
  BY <1>2 DEF LockHead, Goto, Entered
<1>4. UNCHANGED <<buf, head, tail, count, sent, got>>
  BY DEF LockHead
<1>5. hlock[Ring] = Null /\ hlock' = [hlock EXCEPT ![Ring] = p]
  BY <1>2 DEF LockHead
<1>6. hlock'[Ring] = p /\ DOMAIN hlock' = {Ring}
  BY <1>5 DEF QInv, Types
<1>7. \A c \in Procs \ {p} : rop'[c] = rop[c] /\ ~Holds(rop[c])
  BY <1>3, <1>5, NullAssumption DEF QInv, Types, Held
<1>8. Held(p)'
  BY <1>6, <1>7 DEF Held
<1>9. /\ v \in PushPCs \ {"add", "index", "move"} /\ v # "slot" /\ v # "hunlock"
      /\ rop[p].pc \in Early /\ v \notin {"tunlock", "hunlock", "done"} /\ Counted(rop[p]) = 0
  BY <1>1, <1>3 DEF PushPCs, Early, Counted
<1> QED
  BY <1>1, <1>3, <1>4, <1>6, <1>8, <1>9, PushGoto

LEMMA PushLockTail ==
  ASSUME NEW p, Many(p), NEW t \in Nat, NEW h \in Nat, NEW b \in Nat, QInv(p, t, h, b),
         LockTail(p), UNCHANGED <<sent, got>>
  PROVE  RingInv(p)'
<1>1. rop[p].fn # "none" /\ rop[p].pc = "tlock"
  BY DEF LockTail, At
<1>2. rop[p].fn = "push_one" /\ Frame(rop[p])
  BY <1>1, Pushing
<1>0. PICK g : g = WithPc(rop[p], "check")
  OBVIOUS
<1>3. rop' = [rop EXCEPT ![p].pc = "check"] /\ rop' = [rop EXCEPT ![p] = g]
  BY <1>0, <1>2 DEF LockTail, Goto, Entered, WithPc
<1>4. UNCHANGED <<buf, head, tail, count, sent, got, hlock>>
  BY DEF LockTail
<1>5. PushHolds(g) => PushHolds(rop[p])
  BY <1>0, <1>1, <1>2, SetPc DEF PushHolds
<1>6. Held(p)' /\ DOMAIN hlock' = {Ring}
  BY <1>3, <1>4, <1>5, PushHeldOn
<1>7. /\ "check" \in PushPCs \ {"add", "index", "move"}
      /\ rop[p].pc \in Early /\ Counted(rop[p]) = 0
  BY <1>1 DEF PushPCs, Early, Counted
<1> QED
  BY <1>1, <1>3, <1>4, <1>6, <1>7, PushGoto

\* p looked under the locks: count is below Cap, and at least what is in the queue.
LEMMA PushCheck ==
  ASSUME NEW p, Many(p), NEW t \in Nat, NEW h \in Nat, NEW b \in Nat, QInv(p, t, h, b),
         Check(p), UNCHANGED <<sent, got>>
  PROVE  RingInv(p)'
<1>1. rop[p].fn # "none" /\ rop[p].pc = "check"
  BY DEF Check, At
<1>2. rop[p].fn = "push_one" /\ rop[p].q = Ring /\ rop[p].i = 0 /\ Frame(rop[p])
  BY <1>1, Pushing DEF Early
<1>3. UNCHANGED <<buf, head, tail, count, sent, got, hlock>>
  BY DEF Check
<1>4. PICK v : /\ rop' = [rop EXCEPT ![p].pc = v]
               /\ StillFails(rop[p].fn, count[rop[p].q]) => v = "tunlock"
               /\ ~StillFails(rop[p].fn, count[rop[p].q]) => v = "slot"
  BY <1>2 DEF Check, Goto, FirstUnlock, Release, locked_both, Both
<1>5. v = "slot" => NPushed(p) - h < Cap
  BY <1>2, <1>4, Counts, CapAssumption DEF StillFails, AtLeast
<1>0. PICK g : g = WithPc(rop[p], v)
  OBVIOUS
<1>6. rop' = [rop EXCEPT ![p] = g]
  BY <1>0, <1>4 DEF WithPc
<1>7. PushHolds(g) => PushHolds(rop[p])
  BY <1>0, <1>1, <1>2, SetPc DEF PushHolds
<1>8. Held(p)' /\ DOMAIN hlock' = {Ring}
  BY <1>3, <1>6, <1>7, PushHeldOn
<1>9. /\ v \in {"tunlock", "slot"} /\ v \in PushPCs \ {"add", "index", "move"}
      /\ rop[p].pc \in Early /\ Counted(rop[p]) = 0 /\ v # "hunlock"
  BY <1>1, <1>4 DEF PushPCs, Early, Counted
<1> QED
  BY <1>1, <1>2, <1>3, <1>4, <1>5, <1>8, <1>9, PushGoto

LEMMA PushUnlockTail ==
  ASSUME NEW p, Many(p), NEW t \in Nat, NEW h \in Nat, NEW b \in Nat, QInv(p, t, h, b),
         UnlockTail(p), UNCHANGED <<sent, got>>
  PROVE  RingInv(p)'
<1>1. rop[p].fn # "none" /\ rop[p].pc = "tunlock"
  BY DEF UnlockTail, At
<1>2. rop[p].fn = "push_one" /\ Frame(rop[p])
  BY <1>1, Pushing
<1>3. PICK v \in {"hunlock", "done"} :
        /\ rop' = [rop EXCEPT ![p].pc = v]
        /\ v = "hunlock" => "h" \in rop[p].need
  BY <1>2 DEF UnlockTail, Goto, Release, locked_both, Both
<1>4. UNCHANGED <<buf, head, tail, count, sent, got, hlock>>
  BY DEF UnlockTail
<1>0. PICK g : g = WithPc(rop[p], v)
  OBVIOUS
<1>5. rop' = [rop EXCEPT ![p] = g]
  BY <1>0, <1>3 DEF WithPc
<1>6. PushHolds(g) => PushHolds(rop[p])
  BY <1>0, <1>1, <1>2, SetPc DEF PushHolds
<1>7. Held(p)' /\ DOMAIN hlock' = {Ring}
  BY <1>4, <1>5, <1>6, PushHeldOn
<1>8. /\ v \in PushPCs \ {"add", "index", "move"} /\ v \notin Early /\ v # "slot"
      /\ Counted(rop[p]) = rop[p].i
  BY <1>1, <1>3 DEF PushPCs, Early, Counted
<1> QED
  BY <1>1, <1>3, <1>4, <1>7, <1>8, PushGoto

\* p frees the head mutex, which it had: no popper is under it.
LEMMA PushUnlockHead ==
  ASSUME NEW p, Many(p), NEW t \in Nat, NEW h \in Nat, NEW b \in Nat, QInv(p, t, h, b),
         UnlockHead(p), UNCHANGED <<sent, got>>
  PROVE  RingInv(p)'
<1>1. rop[p].fn # "none" /\ rop[p].pc = "hunlock"
  BY DEF UnlockHead, At
<1>2. rop[p].q = Ring /\ "h" \in rop[p].need /\ Frame(rop[p])
  BY <1>1, Pushing
<1>3. rop' = [rop EXCEPT ![p].pc = "done"] /\ hlock' = [hlock EXCEPT ![Ring] = Null]
  BY <1>2 DEF UnlockHead, Goto
<1>4. UNCHANGED <<buf, head, tail, count, sent, got>>
  BY DEF UnlockHead
<1>5. hlock[Ring] = p
  BY <1>1, <1>2 DEF QInv, Held, PushHolds
<1>6. DOMAIN hlock' = {Ring}
  BY <1>3 DEF QInv, Types
<1>7. \A c \in Procs \ {p} : rop'[c] = rop[c] /\ ~Holds(rop[c])
  BY <1>3, <1>5 DEF QInv, Types, Held
<1>8. ~PushHolds(rop[p])'
  <2>1. PICK g : g = WithPc(rop[p], "done")
    OBVIOUS
  <2>2. rop'[p] = g /\ g.pc = "done"
    BY <1>2, <1>3, <2>1, SetPc DEF WithPc, QInv, Types, Many
  <2> QED
    BY <2>2 DEF PushHolds
<1>9. Held(p)'
  BY <1>7, <1>8 DEF Held
<1>10. /\ "done" \in PushPCs \ {"add", "index", "move"} /\ "done" \notin Early
       /\ Counted(rop[p]) = rop[p].i
  BY <1>1 DEF PushPCs, Early, Counted
<1> QED
  BY <1>1, <1>3, <1>4, <1>6, <1>9, <1>10, PushGoto

LEMMA PushLoadIndex ==
  ASSUME NEW p, Many(p), NEW t \in Nat, NEW h \in Nat, NEW b \in Nat, QInv(p, t, h, b),
         LoadIndex(p), UNCHANGED <<sent, got>>
  PROVE  RingInv(p)'
<1>1. rop[p].fn # "none" /\ rop[p].pc = "index"
  BY DEF LoadIndex, At
<1>2. /\ rop[p].fn = "push_one" /\ rop[p].q = Ring /\ Frame(rop[p])
      /\ rop[p].i = 0 /\ AtTail(rop[p].fn)
  BY <1>1, Pushing DEF Early, AtTail
<1>0. PICK g : g = RegPc(rop[p], tail[Ring], "move")
  OBVIOUS
<1>3. rop' = [rop EXCEPT ![p] = g]
  BY <1>0, <1>2 DEF LoadIndex, QInv, Types, Many, RegPc
<1>4. UNCHANGED <<buf, head, tail, count, sent, got, hlock>>
  BY DEF LoadIndex
<1>5. /\ Frame(g) /\ g.pc = "move" /\ g.fn = rop[p].fn /\ g.q = rop[p].q /\ g.need = rop[p].need
      /\ g.in = rop[p].in /\ g.i = rop[p].i /\ g.reg = tail[Ring] /\ g.out = rop[p].out
  BY <1>0, <1>2, SetRegPc
<1>6. PushFrame(p, g, sent[p])
  BY <1>1, <1>2, <1>5 DEF QInv, PushFrame, PushPCs, Early
<1>7. Counted(g) = Counted(rop[p])
  BY <1>1, <1>5 DEF Counted
<1>8. /\ NPushed(p) - h < Cap /\ buf[Ring][tail[Ring]] = <<p, sent[p] + 1>>
      /\ g.reg = tail[Ring] /\ g.i = rop[p].i
  BY <1>1, <1>5 DEF QInv, Room
<1>9. PushHolds(g) => PushHolds(rop[p])
  BY <1>1, <1>5 DEF PushHolds
<1>10. Held(p)' /\ DOMAIN hlock' = {Ring}
  BY <1>3, <1>4, <1>9, PushHeldOn
<1> QED
  BY <1>3, <1>4, <1>6, <1>7, <1>8, <1>10, PushQuiet

\* p fills the slot at tail: no slot of a queued element, for there is room.
LEMMA PushSlot ==
  ASSUME NEW p, Many(p), NEW t \in Nat, NEW h \in Nat, NEW b \in Nat, QInv(p, t, h, b),
         Slot(p), UNCHANGED <<sent, got>>
  PROVE  RingInv(p)'
<1>1. rop[p].fn # "none" /\ rop[p].pc = "slot"
  BY DEF Slot, At
<1>2. /\ rop[p].fn = "push_one" /\ rop[p].q = Ring /\ Frame(rop[p]) /\ rop[p].i = 0
      /\ rop[p].in = <<<<p, sent[p] + 1>>>> /\ sent[p] < PerProc
      /\ AtTail(rop[p].fn) /\ Pushes(rop[p].fn)
  BY <1>1, Pushing DEF Early, AtTail, Pushes
<1> DEFINE e == <<p, sent[p] + 1>>
<1>0. PICK g : g = WithPc(rop[p], "index")
  OBVIOUS
<1>3. rop' = [rop EXCEPT ![p] = g]
  BY <1>0, <1>2 DEF Slot, Goto, WithPc
<1>4. rop[p].in[rop[p].i + 1] = e
  BY <1>2
<1>5. buf' = [buf EXCEPT ![Ring] = [buf[Ring] EXCEPT ![tail[Ring]] = e]]
  BY <1>2, <1>4 DEF Slot
<1>6. UNCHANGED <<head, tail, count, sent, got, hlock>>
  BY DEF Slot
<1>7. /\ Frame(g) /\ g.pc = "index" /\ g.fn = rop[p].fn /\ g.q = rop[p].q /\ g.need = rop[p].need
      /\ g.in = rop[p].in /\ g.i = rop[p].i /\ g.out = rop[p].out
  BY <1>0, <1>2, SetPc
<1>8. /\ rop'[p] = g /\ DOMAIN rop' = Procs
      /\ \A c \in Procs \ {p} : rop'[c] = rop[c]
      /\ Lag(p, t, h, b)' /\ Handed(p, t)'
      /\ NPushed(p)' = NPushed(p) => Some(p, h)'
  BY <1>3, <1>6, PushSide
<1>9. NPushed(p)' = NPushed(p)
  BY <1>6, <1>7, <1>8 DEF NPushed
<1>10. e \in Items
  <2>0. sent[p] \in Nat
    BY Counts
  <2>1. sent[p] + 1 \in 1 .. PerProc
    BY <1>2, <2>0, ClientAssumption
  <2> QED
    BY <2>1 DEF Items, Many
<1> HIDE DEF e
<1>11. Types'
  <2>1. buf \in [{Ring} -> [Index -> Items \cup {Null}]] /\ tail[Ring] \in Index
    BY DEF QInv, Types
  <2>2. [buf[Ring] EXCEPT ![tail[Ring]] = e] \in [Index -> Items \cup {Null}]
    BY <1>10, <2>1
  <2>3. buf' \in [{Ring} -> [Index -> Items \cup {Null}]]
    BY <1>5, <2>1, <2>2
  <2> QED
    BY <1>6, <1>8, <2>3 DEF QInv, Types
<1>12. NPushed(p) - h < Cap
  BY <1>1 DEF QInv, Room
<1>13. /\ buf'[Ring][tail[Ring]] = e
       /\ \A k \in Index : k # tail[Ring] => buf'[Ring][k] = buf[Ring][k]
  <2>1. buf \in [{Ring} -> [Index -> Items \cup {Null}]] /\ tail[Ring] \in Index
    BY DEF QInv, Types
  <2> QED
    BY <1>5, <2>1
<1>14. Between(p, h, b)'
  <2>1. \A n \in h .. NPushed(p) - 1 : buf'[Ring][n % Cap] = <<p, n + 1>>
    <3> SUFFICES ASSUME NEW n \in h .. NPushed(p) - 1
                 PROVE  buf'[Ring][n % Cap] = <<p, n + 1>>
      OBVIOUS
    <3>1. n \in Nat /\ NPushed(p) \in Nat /\ n < NPushed(p) /\ NPushed(p) < n + Cap
      BY <1>12, Counts, CapAssumption
    <3>2. n % Cap # NPushed(p) % Cap /\ n % Cap \in Index
      BY <3>1, Apart, NextPlace
    <3>3. tail[Ring] = NPushed(p) % Cap /\ buf[Ring][n % Cap] = <<p, n + 1>>
      BY DEF QInv, Between
    <3> QED
      BY <1>13, <3>2, <3>3
  <2>2. Counted(rop[p])' = Counted(rop[p])
    BY <1>1, <1>2, <1>7, <1>8 DEF Counted
  <2>3. Between(p, h, b)
    BY DEF QInv
  <2> QED
    BY <1>6, <1>9, <2>1, <2>2, <2>3 DEF Between
<1>15. PushFrame(p, g, sent[p])
  BY <1>1, <1>2, <1>7 DEF QInv, PushFrame, PushPCs, Early
<1>16. PushFrame(p, rop[p], sent[p])'
  BY <1>6, <1>8, <1>15
<1>17. Room(p, h)'
  BY <1>6, <1>7, <1>8, <1>9, <1>12, <1>13 DEF Room, e
<1>18. Returns(p)'
  BY <1>6 DEF Returns, QInv
<1>19. PushHolds(g) => PushHolds(rop[p])
  BY <1>1, <1>7 DEF PushHolds
<1>20. Held(p)'
  BY <1>3, <1>6, <1>19, PushHeldOn
<1>21. QInv(p, t, h, b)'
  BY <1>8, <1>9, <1>11, <1>14, <1>16, <1>17, <1>18, <1>20 DEF QInv
<1> QED
  BY <1>21 DEF RingInv

\* tail moves over the filled slot: the element is in the queue.
LEMMA PushMove ==
  ASSUME NEW p, Many(p), NEW t \in Nat, NEW h \in Nat, NEW b \in Nat, QInv(p, t, h, b),
         MoveIndex(p), UNCHANGED <<sent, got>>
  PROVE  RingInv(p)'
<1>1. rop[p].fn # "none" /\ rop[p].pc = "move"
  BY DEF MoveIndex, At
<1>2. /\ rop[p].fn = "push_one" /\ rop[p].q = Ring /\ Frame(rop[p]) /\ rop[p].i = 0
      /\ rop[p].in = <<<<p, sent[p] + 1>>>> /\ sent[p] < PerProc /\ AtTail(rop[p].fn)
  BY <1>1, Pushing DEF Early, AtTail
<1>3. /\ NPushed(p) - h < Cap /\ buf[Ring][tail[Ring]] = <<p, sent[p] + 1>>
      /\ rop[p].reg = tail[Ring]
  BY <1>1 DEF QInv, Room
<1>0. PICK g : g = IPc(rop[p], rop[p].i + 1, "add")
  OBVIOUS
<1>4. rop' = [rop EXCEPT ![p] = g]
  BY <1>0, <1>2 DEF MoveIndex, QInv, Types, Many, IPc
<1>5. tail' = [tail EXCEPT ![Ring] = (tail[Ring] + 1) % Cap]
  BY <1>2, <1>3 DEF MoveIndex, NextIndex
<1>6. UNCHANGED <<buf, head, count, sent, got, hlock>>
  BY <1>2 DEF MoveIndex
<1>7. /\ Frame(g) /\ g.pc = "add" /\ g.fn = rop[p].fn /\ g.q = rop[p].q /\ g.need = rop[p].need
      /\ g.in = rop[p].in /\ g.i = 1 /\ g.out = rop[p].out
  BY <1>0, <1>2, SetIPc
<1>8. /\ rop'[p] = g /\ DOMAIN rop' = Procs
      /\ \A c \in Procs \ {p} : rop'[c] = rop[c]
      /\ Lag(p, t, h, b)' /\ Handed(p, t)'
      /\ h < NPushed(p)' => Some(p, h)'
  BY <1>4, <1>6, PushSide
<1>9. NPushed(p) \in Nat /\ sent[p] \in Nat
  BY Counts
<1>10. NPushed(p)' = NPushed(p) + 1 /\ NPushed(p) = sent[p]
  BY <1>2, <1>6, <1>7, <1>8, <1>9 DEF NPushed
<1>11. Between(p, h, b)
  BY DEF QInv
<1>12. tail'[Ring] = (NPushed(p) + 1) % Cap /\ tail' \in [{Ring} -> Index]
  <2>1. tail \in [{Ring} -> Index] /\ tail[Ring] = NPushed(p) % Cap
    BY <1>11 DEF QInv, Types, Between
  <2>3. NPushed(p) + 1 \in Nat
    BY <1>9
  <2>4. (NPushed(p) + 1) % Cap \in Index
    BY <2>3, NextPlace
  <2>5. (NPushed(p) + 1) % Cap = (tail[Ring] + 1) % Cap
    BY <1>9, <2>1, NextPlace
  <2> QED
    BY <1>5, <2>1, <2>4, <2>5
<1>13. Types' /\ Returns(p)'
  BY <1>6, <1>8, <1>12 DEF QInv, Types, Returns
<1>14. Between(p, h, b)' /\ h < NPushed(p)'
  <2>1. \A n \in h .. NPushed(p) : buf[Ring][n % Cap] = <<p, n + 1>>
    <3> SUFFICES ASSUME NEW n \in h .. NPushed(p)
                 PROVE  buf[Ring][n % Cap] = <<p, n + 1>>
      OBVIOUS
    <3>1. CASE n = NPushed(p)
      BY <1>3, <1>10, <1>11, <3>1 DEF Between
    <3>2. CASE n # NPushed(p)
      <4>1. n \in h .. NPushed(p) - 1
        BY <1>9, <3>2
      <4> QED
        BY <1>11, <4>1 DEF Between
    <3> QED
      BY <3>1, <3>2
  <2>2. Counted(rop[p])' = Counted(rop[p])
    BY <1>1, <1>7, <1>8 DEF Counted
  <2>3. /\ h <= NPushed(p) + 1 /\ (NPushed(p) + 1) - h <= Cap
        /\ (NPushed(p) + 1) - 1 = NPushed(p) /\ h < NPushed(p) + 1
    BY <1>3, <1>9, <1>11, CapAssumption DEF Between
  <2> QED
    BY <1>6, <1>10, <1>11, <1>12, <2>1, <2>2, <2>3 DEF Between
<1>15. PushFrame(p, g, sent[p])
  BY <1>2, <1>7, <1>9, ClientAssumption DEF QInv, PushFrame, PushPCs, Early
<1>16. PushFrame(p, rop[p], sent[p])'
  BY <1>6, <1>8, <1>15
<1>17. Room(p, h)'
  BY <1>7, <1>8 DEF Room
<1>18. PushHolds(g) => PushHolds(rop[p])
  BY <1>1, <1>7 DEF PushHolds
<1>19. Held(p)'
  BY <1>4, <1>6, <1>18, PushHeldOn
<1>20. QInv(p, t, h, b)'
  BY <1>8, <1>13, <1>14, <1>16, <1>17, <1>19 DEF QInv
<1> QED
  BY <1>20 DEF RingInv

\* count learns of the element.
LEMMA PushAdd ==
  ASSUME NEW p, Many(p), NEW t \in Nat, NEW h \in Nat, NEW b \in Nat, QInv(p, t, h, b),
         Add(p), UNCHANGED <<sent, got>>
  PROVE  RingInv(p)'
<1>1. rop[p].fn # "none" /\ rop[p].pc = "add"
  BY DEF Add, At
<1>2. /\ rop[p].fn = "push_one" /\ rop[p].q = Ring /\ Frame(rop[p]) /\ rop[p].i = 1
  BY <1>1, Pushing
<1>0. PICK g : g = WithPc(rop[p], "tunlock")
  OBVIOUS
<1>4. rop' = [rop EXCEPT ![p] = g]
  <2>1. FirstUnlock(rop[p]) = "tunlock"
    BY <1>2 DEF FirstUnlock, Release, locked_both, Both
  <2> QED
    BY <1>0, <2>1 DEF Add, Goto, WithPc
<1>5. count' = [count EXCEPT ![Ring] = count[Ring] + 1]
  BY <1>2 DEF Add, NewCount, Pushes
<1>6. UNCHANGED <<buf, head, tail, sent, got, hlock>>
  BY DEF Add
<1>7. /\ Frame(g) /\ g.pc = "tunlock" /\ g.fn = rop[p].fn /\ g.q = rop[p].q
      /\ g.need = rop[p].need /\ g.in = rop[p].in /\ g.i = rop[p].i /\ g.out = rop[p].out
  BY <1>0, <1>2, SetPc
<1>8. /\ rop'[p] = g /\ DOMAIN rop' = Procs
      /\ \A c \in Procs \ {p} : rop'[c] = rop[c]
      /\ Lag(p, t, h, b)' /\ Handed(p, t)'
      /\ NPushed(p)' = NPushed(p) => Some(p, h)'
  BY <1>4, <1>6, PushSide
<1>9. NPushed(p)' = NPushed(p)
  BY <1>6, <1>7, <1>8 DEF NPushed
<1>10. count \in [{Ring} -> Int] /\ count'[Ring] = count[Ring] + 1 /\ count' \in [{Ring} -> Int]
  BY <1>5 DEF QInv, Types
<1>11. Types' /\ Returns(p)'
  BY <1>6, <1>8, <1>10 DEF QInv, Types, Returns
<1>12. Between(p, h, b)'
  <2>1. /\ Counted(rop[p]) = 0 /\ Counted(rop[p])' = 1
    BY <1>1, <1>2, <1>7, <1>8 DEF Counted
  <2>2. Between(p, h, b) /\ sent[p] \in Nat
    BY Counts DEF QInv
  <2>3. count'[Ring] = (sent[p] + 1) - b
    BY <1>10, <2>1, <2>2 DEF Between
  <2> QED
    BY <1>6, <1>9, <2>1, <2>2, <2>3 DEF Between
<1>13. PushFrame(p, g, sent[p])
  BY <1>1, <1>2, <1>7 DEF QInv, PushFrame, PushPCs, Early
<1>14. PushFrame(p, rop[p], sent[p])'
  BY <1>6, <1>8, <1>13
<1>15. Room(p, h)'
  BY <1>7, <1>8 DEF Room
<1>16. PushHolds(g) => PushHolds(rop[p])
  BY <1>1, <1>7 DEF PushHolds
<1>17. Held(p)'
  BY <1>4, <1>6, <1>16, PushHeldOn
<1>18. QInv(p, t, h, b)'
  BY <1>8, <1>9, <1>11, <1>12, <1>14, <1>15, <1>17 DEF QInv
<1> QED
  BY <1>18 DEF RingInv

-----------------------------------------------------------------------------
(* Steps of a client that pops that leave the queue alone *)

\* A popper under the head mutex is alone there, and the lag is its own.
LEMMA Alone ==
  ASSUME NEW p, Many(p), NEW t \in Nat, NEW h \in Nat, NEW b \in Nat, QInv(p, t, h, b),
         NEW c \in Procs \ {p}, Holds(rop[c])
  PROVE  /\ \A d \in Procs \ {p, c} : ~Holds(rop[d])
         /\ ~PushHolds(rop[p]) /\ hlock[Ring] = c
         /\ t = IF InHand(rop[c]) THEN h + 1 ELSE h
         /\ Busy(rop[c]) => h = b + rop[c].i
         /\ ~Busy(rop[c]) => h = b
<1>1. hlock[Ring] = c
  BY DEF QInv, Held
<1>2. \A d \in Procs \ {p, c} : ~Holds(rop[d])
  BY <1>1 DEF QInv, Held
<1>3. ~PushHolds(rop[p])
  BY <1>1 DEF QInv, Held
<1>4. \A d \in Procs \ {p, c} : ~InHand(rop[d]) /\ ~Busy(rop[d])
  BY <1>2 DEF Holds, InHand, Busy
<1> QED
  BY <1>1, <1>2, <1>3, <1>4 DEF QInv, Lag

\* The lag when c is the only popper under the mutexes, with activation g.
LEMMA LagAlone ==
  ASSUME NEW p, NEW c \in Procs \ {p}, NEW g, rop'[c] = g,
         \A d \in Procs \ {p, c} : rop'[d] = rop[d] /\ ~Holds(rop[d]),
         NEW t, NEW h, NEW b,
         t = IF InHand(g) THEN h + 1 ELSE h,
         Busy(g) => h = b + g.i, ~Busy(g) => h = b
  PROVE  Lag(p, t, h, b)'
<1>1. \A d \in Procs \ {p, c} : ~InHand(rop[d])' /\ ~Busy(rop[d])'
  BY DEF Holds, InHand, Busy
<1>2. (InHand(rop[c])' <=> InHand(g)) /\ (Busy(rop[c])' <=> Busy(g))
  BY DEF InHand, Busy
<1> QED
  BY <1>1, <1>2 DEF Lag

\* What a step of c alone leaves of the producer's side.
LEMMA PopSide ==
  ASSUME NEW p, Many(p), NEW t \in Nat, NEW h \in Nat, NEW b \in Nat, QInv(p, t, h, b),
         NEW c \in Procs \ {p}, NEW g, rop' = [rop EXCEPT ![c] = g],
         UNCHANGED <<buf, tail, sent>>, NEW h1 \in Nat, h <= h1
  PROVE  /\ rop'[c] = g /\ DOMAIN rop' = Procs
         /\ rop'[p] = rop[p] /\ \A d \in Procs \ {p, c} : rop'[d] = rop[d]
         /\ NPushed(p)' = NPushed(p) /\ NPushed(p) \in Nat
         /\ PushFrame(p, rop[p], sent[p])' /\ Room(p, h1)'
<1>1. /\ rop'[c] = g /\ DOMAIN rop' = Procs
      /\ rop'[p] = rop[p] /\ \A d \in Procs \ {p, c} : rop'[d] = rop[d]
  BY DEF QInv, Types
<1>2. NPushed(p)' = NPushed(p)
  BY <1>1 DEF NPushed
<1>3. PushFrame(p, rop[p], sent[p])'
  BY <1>1 DEF QInv
<1>4. NPushed(p) \in Nat
  BY Counts
<1>5. NPushed(p) - h < Cap => NPushed(p) - h1 < Cap
  BY <1>4, CapAssumption
<1>6. Room(p, h1)'
  BY <1>1, <1>2, <1>5 DEF QInv, Room
<1> QED
  BY <1>1, <1>2, <1>3, <1>4, <1>6

\* The invariant, when c's frame becomes g and only the mutexes change otherwise.
LEMMA PopQuiet ==
  ASSUME NEW p, Many(p), NEW t \in Nat, NEW h \in Nat, NEW b \in Nat, QInv(p, t, h, b),
         NEW c \in Procs \ {p}, NEW g, rop' = [rop EXCEPT ![c] = g],
         UNCHANGED <<buf, head, tail, count, sent, got>>,
         DOMAIN hlock' = {Ring}, Held(p)', Lag(p, t, h, b)',
         PopFrame(g), g.out = rop[c].out,
         g.pc \in {"slot", "index", "move"} => h < NPushed(p),
         g.pc = "move" => g.reg = head[Ring]
  PROVE  RingInv(p)'
<1>1. /\ rop'[c] = g /\ DOMAIN rop' = Procs
      /\ rop'[p] = rop[p] /\ \A d \in Procs \ {p, c} : rop'[d] = rop[d]
      /\ NPushed(p)' = NPushed(p)
      /\ PushFrame(p, rop[p], sent[p])' /\ Room(p, h)'
  <2>1. h <= h
    OBVIOUS
  <2> QED
    BY <2>1, PopSide
<1>2. Types' /\ Returns(p)'
  BY <1>1 DEF QInv, Types, Returns
<1>3. Between(p, h, b)'
  BY <1>1 DEF QInv, Between
<1>4. Some(p, h)'
  <2>1. \A d \in Procs \ {p, c} :
          /\ PopFrame(rop[d])'
          /\ rop'[d].pc \in {"slot", "index", "move"} => h < NPushed(p)'
          /\ rop'[d].pc = "move" => rop'[d].reg = head'[Ring]
    BY <1>1 DEF QInv, Some
  <2> QED
    BY <1>1, <2>1 DEF Some
<1>5. \A w \in Procs \ {p} : Popped(w)' = Popped(w)
  BY <1>1 DEF Popped
<1>6. Handed(p, t)'
  BY <1>5, HandedSame DEF QInv
<1>7. QInv(p, t, h, b)'
  BY <1>1, <1>2, <1>3, <1>4, <1>6 DEF QInv
<1> QED
  BY <1>7 DEF RingInv

\* Facts about the frame of c inside ring_pop.
LEMMA Popping ==
  ASSUME NEW p, NEW t, NEW h, NEW b, QInv(p, t, h, b), NEW c \in Procs \ {p},
         rop[c].fn # "none"
  PROVE  /\ rop[c].fn = "pop" /\ rop[c].q = Ring /\ rop[c].need = Both
         /\ Frame(rop[c]) /\ PopFrame(rop[c])
         /\ rop[c].i \in Nat /\ rop[c].out \in Seq(Items)
         /\ ~AtTail(rop[c].fn) /\ ~Pushes(rop[c].fn)
         /\ rop[c].pc \in {"slot", "index", "move"} => h < NPushed(p)
         /\ rop[c].pc = "move" => rop[c].reg = head[Ring]
<1>1. /\ PopFrame(rop[c])
      /\ rop[c].pc \in {"slot", "index", "move"} => h < NPushed(p)
      /\ rop[c].pc = "move" => rop[c].reg = head[Ring]
  BY DEF QInv, Some
<1>2. rop[c].fn = "pop"
  BY <1>1 DEF PopFrame
<1> QED
  BY <1>1, <1>2 DEF PopFrame, AtTail, Pushes

\* The mutexes and the lag after a step of c under the head mutex that keeps it.
LEMMA PopHeldOn ==
  ASSUME NEW p, Many(p), NEW t \in Nat, NEW h \in Nat, NEW b \in Nat, QInv(p, t, h, b),
         NEW c \in Procs \ {p}, Holds(rop[c]),
         NEW g, rop' = [rop EXCEPT ![c] = g], UNCHANGED hlock
  PROVE  Held(p)' /\ DOMAIN hlock' = {Ring}
<1>1. /\ rop'[c] = g /\ rop'[p] = rop[p]
      /\ \A d \in Procs \ {p, c} : rop'[d] = rop[d]
  BY DEF QInv, Types
<1>2. /\ \A d \in Procs \ {p, c} : ~Holds(rop[d])
      /\ ~PushHolds(rop[p]) /\ hlock[Ring] = c
  BY Alone
<1>3. Held(p)'
  BY <1>1, <1>2 DEF Held
<1> QED
  BY <1>3 DEF QInv, Types

\* The steps of c under the head mutex that only go on.
LEMMA PopGoto ==
  ASSUME NEW p, Many(p), NEW t \in Nat, NEW h \in Nat, NEW b \in Nat, QInv(p, t, h, b),
         NEW c \in Procs \ {p}, Holds(rop[c]), rop[c].fn # "none", ~InHand(rop[c]),
         NEW v \in {"loop", "slot", "add", "hunlock"}, rop' = [rop EXCEPT ![c].pc = v],
         UNCHANGED <<buf, head, tail, count, sent, got, hlock>>,
         Busy(rop[c]) <=> v # "hunlock",
         v = "slot" => h < NPushed(p)
  PROVE  RingInv(p)'
<1> DEFINE f == rop[c]
<1>0. PICK g : g = WithPc(f, v)
  OBVIOUS
<1>1. Frame(f) /\ PopFrame(f)
  BY Popping
<1>2. rop' = [rop EXCEPT ![c] = g]
  BY <1>0 DEF WithPc
<1>3. /\ Frame(g) /\ g.pc = v /\ g.fn = f.fn /\ g.q = f.q /\ g.need = f.need /\ g.in = f.in
      /\ g.i = f.i /\ g.reg = f.reg /\ g.out = f.out
  BY <1>0, <1>1, SetPc
<1>4. PopFrame(g)
  BY <1>1, <1>3 DEF PopFrame, PopPCs
<1>5. /\ \A d \in Procs \ {p, c} : ~Holds(rop[d])
      /\ t = h
      /\ Busy(f) => h = b + f.i
      /\ ~Busy(f) => h = b
  BY Alone
<1>6. ~InHand(g) /\ (Busy(g) <=> Busy(f))
  BY <1>3 DEF InHand, Busy
<1>7. rop'[c] = g /\ \A d \in Procs \ {p, c} : rop'[d] = rop[d]
  BY <1>2 DEF QInv, Types
<1>8. Lag(p, t, h, b)'
  <2>1. /\ t = IF InHand(g) THEN h + 1 ELSE h
        /\ Busy(g) => h = b + g.i
        /\ ~Busy(g) => h = b
    BY <1>3, <1>5, <1>6
  <2>2. \A d \in Procs \ {p, c} : rop'[d] = rop[d] /\ ~Holds(rop[d])
    BY <1>5, <1>7
  <2> QED
    BY <1>7, <2>1, <2>2, LagAlone
<1>9. Held(p)' /\ DOMAIN hlock' = {Ring}
  BY <1>2, PopHeldOn
<1>10. g.pc \notin {"index", "move"} /\ (g.pc = "slot" => h < NPushed(p)) /\ g.out = rop[c].out
  BY <1>3
<1>11. UNCHANGED <<buf, head, tail, count, sent, got>>
  OBVIOUS
<1> HIDE DEF f
<1> QED
  BY <1>2, <1>4, <1>8, <1>9, <1>10, <1>11, PopQuiet

-----------------------------------------------------------------------------
(* The steps of the clients that pop *)

\* c obtains the head mutex: nobody had it.
LEMMA PopLockHead ==
  ASSUME NEW p, Many(p), NEW t \in Nat, NEW h \in Nat, NEW b \in Nat, QInv(p, t, h, b),
         NEW c \in Procs \ {p}, LockHead(c), UNCHANGED <<sent, got>>
  PROVE  RingInv(p)'
<1>1. rop[c].fn # "none" /\ rop[c].pc = "hlock"
  BY DEF LockHead, At
<1>2. /\ rop[c].q = Ring /\ rop[c].need = Both /\ Frame(rop[c]) /\ PopFrame(rop[c])
      /\ rop[c].i = 0
  BY <1>1, Popping DEF PopFrame
<1>0. PICK g : g = WithPc(rop[c], "tlock")
  OBVIOUS
<1>3. rop' = [rop EXCEPT ![c] = g]
  BY <1>0, <1>2 DEF LockHead, Goto, Both, WithPc
<1>4. UNCHANGED <<buf, head, tail, count, sent, got>>
  BY DEF LockHead
<1>5. hlock[Ring] = Null /\ hlock' = [hlock EXCEPT ![Ring] = c]
  BY <1>2 DEF LockHead
<1>6. hlock'[Ring] = c /\ DOMAIN hlock' = {Ring}
  BY <1>5 DEF QInv, Types
<1>7. /\ rop'[c] = g /\ rop'[p] = rop[p] /\ \A d \in Procs \ {p, c} : rop'[d] = rop[d]
  BY <1>3 DEF QInv, Types
<1>8. (\A d \in Procs \ {p} : ~Holds(rop[d])) /\ ~PushHolds(rop[p])
  BY <1>5, NullAssumption DEF QInv, Held, Many
<1>9. Held(p)'
  BY <1>6, <1>7, <1>8 DEF Held
<1>10. /\ Frame(g) /\ g.pc = "tlock" /\ g.fn = rop[c].fn /\ g.q = rop[c].q
       /\ g.need = rop[c].need /\ g.i = rop[c].i /\ g.out = rop[c].out
  BY <1>0, <1>2, SetPc
<1>11. PopFrame(g)
  BY <1>1, <1>2, <1>10 DEF PopFrame, PopPCs
<1>12. t = h /\ h = b
  <2>1. \A d \in Procs \ {p} : ~InHand(rop[d]) /\ ~Busy(rop[d])
    BY <1>8 DEF Holds, InHand, Busy
  <2> QED
    BY <2>1 DEF QInv, Lag
<1>13. Lag(p, t, h, b)'
  <2>1. ~InHand(g) /\ h = b + g.i /\ Busy(g)
    BY <1>2, <1>10, <1>12 DEF InHand, Busy
  <2> QED
    BY <1>7, <1>8, <1>12, <2>1, LagAlone
<1>14. g.pc \notin {"slot", "index", "move"} /\ g.out = rop[c].out
  BY <1>10
<1> QED
  BY <1>3, <1>4, <1>6, <1>9, <1>11, <1>13, <1>14, PopQuiet

LEMMA PopLockTail ==
  ASSUME NEW p, Many(p), NEW t \in Nat, NEW h \in Nat, NEW b \in Nat, QInv(p, t, h, b),
         NEW c \in Procs \ {p}, LockTail(c), UNCHANGED <<sent, got>>
  PROVE  RingInv(p)'
<1>1. rop[c].fn # "none" /\ rop[c].pc = "tlock"
  BY DEF LockTail, At
<1>2. rop[c].fn = "pop"
  BY <1>1, Popping
<1>3. rop' = [rop EXCEPT ![c].pc = "loop"]
  BY <1>2 DEF LockTail, Goto, Entered
<1>4. UNCHANGED <<buf, head, tail, count, sent, got, hlock>>
  BY DEF LockTail
<1>5. Holds(rop[c]) /\ ~InHand(rop[c]) /\ Busy(rop[c])
  BY <1>1 DEF Holds, InHand, Busy
<1> QED
  BY <1>1, <1>3, <1>4, <1>5, PopGoto

\* The loop of ring_pop goes on only where head and tail differ.
LEMMA PopLoop ==
  ASSUME NEW p, Many(p), NEW t \in Nat, NEW h \in Nat, NEW b \in Nat, QInv(p, t, h, b),
         NEW c \in Procs \ {p}, Loop(c), UNCHANGED <<sent, got>>
  PROVE  RingInv(p)'
<1>1. rop[c].fn # "none" /\ rop[c].pc = "loop"
  BY DEF Loop, At
<1>2. rop[c].fn = "pop" /\ rop[c].q = Ring
  BY <1>1, Popping
<1>3. UNCHANGED <<buf, head, tail, count, sent, got, hlock>>
  BY DEF Loop
<1>4. Holds(rop[c]) /\ ~InHand(rop[c]) /\ Busy(rop[c])
  BY <1>1 DEF Holds, InHand, Busy
<1>5. CASE ~LoopGoes(rop[c])
  <2>1. rop' = [rop EXCEPT ![c].pc = "add"]
    BY <1>5 DEF Loop, Goto
  <2> QED
    BY <1>1, <1>3, <1>4, <2>1, PopGoto
<1>6. CASE LoopGoes(rop[c])
  <2>1. rop' = [rop EXCEPT ![c].pc = "slot"]
    BY <1>6 DEF Loop, Goto
  <2>2. head[Ring] # tail[Ring]
    BY <1>2, <1>6 DEF LoopGoes
  <2>3. h # NPushed(p) /\ h <= NPushed(p)
    BY <2>2 DEF QInv, Between
  <2>4. h < NPushed(p)
    BY <2>3, Counts
  <2> QED
    BY <1>1, <1>3, <1>4, <2>1, <2>4, PopGoto
<1> QED
  BY <1>5, <1>6

LEMMA PopUnlockTail ==
  ASSUME NEW p, Many(p), NEW t \in Nat, NEW h \in Nat, NEW b \in Nat, QInv(p, t, h, b),
         NEW c \in Procs \ {p}, UnlockTail(c), UNCHANGED <<sent, got>>
  PROVE  RingInv(p)'
<1>1. rop[c].fn # "none" /\ rop[c].pc = "tunlock"
  BY DEF UnlockTail, At
<1>2. rop[c].fn = "pop" /\ rop[c].need = Both
  BY <1>1, Popping
<1>3. rop' = [rop EXCEPT ![c].pc = "hunlock"]
  BY <1>2 DEF UnlockTail, Goto, Release, locked_both, Both
<1>4. UNCHANGED <<buf, head, tail, count, sent, got, hlock>>
  BY DEF UnlockTail
<1>5. Holds(rop[c]) /\ ~InHand(rop[c]) /\ ~Busy(rop[c])
  BY <1>1 DEF Holds, InHand, Busy
<1> QED
  BY <1>1, <1>3, <1>4, <1>5, PopGoto

LEMMA PopUnlockHead ==
  ASSUME NEW p, Many(p), NEW t \in Nat, NEW h \in Nat, NEW b \in Nat, QInv(p, t, h, b),
         NEW c \in Procs \ {p}, UnlockHead(c), UNCHANGED <<sent, got>>
  PROVE  RingInv(p)'
<1>1. rop[c].fn # "none" /\ rop[c].pc = "hunlock"
  BY DEF UnlockHead, At
<1>2. rop[c].q = Ring /\ Frame(rop[c]) /\ PopFrame(rop[c])
  BY <1>1, Popping
<1>0. PICK g : g = WithPc(rop[c], "done")
  OBVIOUS
<1>3. rop' = [rop EXCEPT ![c] = g] /\ hlock' = [hlock EXCEPT ![Ring] = Null]
  BY <1>0, <1>2 DEF UnlockHead, Goto, WithPc
<1>4. UNCHANGED <<buf, head, tail, count, sent, got>>
  BY DEF UnlockHead
<1>5. Holds(rop[c]) /\ ~InHand(rop[c]) /\ ~Busy(rop[c])
  BY <1>1 DEF Holds, InHand, Busy
<1>6. /\ \A d \in Procs \ {p, c} : ~Holds(rop[d])
      /\ ~PushHolds(rop[p]) /\ t = h /\ h = b
  BY <1>5, Alone
<1>7. /\ rop'[c] = g /\ rop'[p] = rop[p] /\ \A d \in Procs \ {p, c} : rop'[d] = rop[d]
  BY <1>3 DEF QInv, Types
<1>8. /\ Frame(g) /\ g.pc = "done" /\ g.fn = rop[c].fn /\ g.q = rop[c].q
      /\ g.need = rop[c].need /\ g.i = rop[c].i /\ g.out = rop[c].out
  BY <1>0, <1>2, SetPc
<1>9. ~Holds(g) /\ ~InHand(g) /\ ~Busy(g)
  BY <1>8 DEF Holds, InHand, Busy
<1>10. Held(p)' /\ DOMAIN hlock' = {Ring}
  BY <1>3, <1>6, <1>7, <1>9 DEF QInv, Types, Held
<1>11. Lag(p, t, h, b)'
  BY <1>6, <1>7, <1>9, LagAlone
<1>12. PopFrame(g)
  BY <1>1, <1>2, <1>8 DEF PopFrame, PopPCs
<1>13. g.pc \notin {"slot", "index", "move"} /\ g.out = rop[c].out
  BY <1>8
<1> QED
  BY <1>3, <1>4, <1>10, <1>11, <1>12, <1>13, PopQuiet

LEMMA PopLoadIndex ==
  ASSUME NEW p, Many(p), NEW t \in Nat, NEW h \in Nat, NEW b \in Nat, QInv(p, t, h, b),
         NEW c \in Procs \ {p}, LoadIndex(c), UNCHANGED <<sent, got>>
  PROVE  RingInv(p)'
<1>1. rop[c].fn # "none" /\ rop[c].pc = "index"
  BY DEF LoadIndex, At
<1>2. /\ rop[c].q = Ring /\ Frame(rop[c]) /\ ~AtTail(rop[c].fn)
      /\ PopFrame(rop[c]) /\ h < NPushed(p)
  BY <1>1, Popping
<1>0. PICK g : g = RegPc(rop[c], head[Ring], "move")
  OBVIOUS
<1>3. rop' = [rop EXCEPT ![c] = g]
  BY <1>0, <1>2 DEF LoadIndex, QInv, Types, RegPc
<1>4. UNCHANGED <<buf, head, tail, count, sent, got, hlock>>
  BY DEF LoadIndex
<1>5. /\ Frame(g) /\ g.pc = "move" /\ g.fn = rop[c].fn /\ g.q = rop[c].q /\ g.need = rop[c].need
      /\ g.i = rop[c].i /\ g.reg = head[Ring] /\ g.out = rop[c].out
  BY <1>0, <1>2, SetRegPc
<1>6. PopFrame(g)
  BY <1>1, <1>2, <1>5 DEF PopFrame, PopPCs
<1>7. Holds(rop[c]) /\ InHand(rop[c]) /\ Busy(rop[c])
  BY <1>1 DEF Holds, InHand, Busy
<1>8. /\ \A d \in Procs \ {p, c} : ~Holds(rop[d])
      /\ t = h + 1 /\ h = b + rop[c].i
  BY <1>7, Alone
<1>9. InHand(g) /\ Busy(g)
  BY <1>5 DEF InHand, Busy
<1>10. rop'[c] = g /\ \A d \in Procs \ {p, c} : rop'[d] = rop[d]
  BY <1>3 DEF QInv, Types
<1>11. Lag(p, t, h, b)'
  BY <1>5, <1>8, <1>9, <1>10, LagAlone
<1>12. Held(p)' /\ DOMAIN hlock' = {Ring}
  BY <1>3, <1>4, <1>7, PopHeldOn
<1> QED
  BY <1>2, <1>3, <1>4, <1>5, <1>6, <1>11, <1>12, PopQuiet

\* A result grows by one element.
LEMMA ConcatAppend ==
  ASSUME NEW S, NEW s \in Seq(S), NEW u \in Seq(S), NEW e \in S
  PROVE  /\ DOMAIN (s \o u) = 1 .. Len(s) + Len(u)
         /\ DOMAIN (s \o Append(u, e)) = 1 .. Len(s) + Len(u) + 1
         /\ \A j \in 1 .. Len(s) + Len(u) : (s \o Append(u, e))[j] = (s \o u)[j]
         /\ (s \o Append(u, e))[Len(s) + Len(u) + 1] = e
<1>1. PICK x : x = Append(u, e)
  OBVIOUS
<1>2. /\ x \in Seq(S) /\ Len(x) = Len(u) + 1 /\ x[Len(u) + 1] = e
      /\ \A j \in 1 .. Len(u) : x[j] = u[j]
  BY <1>1, AppendProperties
<1>3. PICK y : y = s \o u
  OBVIOUS
<1>4. PICK z : z = s \o x
  OBVIOUS
<1>5. Len(s) \in Nat /\ Len(u) \in Nat
  BY LenProperties
<1>6. /\ y \in Seq(S) /\ Len(y) = Len(s) + Len(u)
      /\ \A j \in 1 .. Len(s) + Len(u) : y[j] = IF j <= Len(s) THEN s[j] ELSE u[j - Len(s)]
  BY <1>3, ConcatProperties
<1>7. /\ z \in Seq(S) /\ Len(z) = Len(s) + Len(x)
      /\ \A j \in 1 .. Len(s) + Len(x) : z[j] = IF j <= Len(s) THEN s[j] ELSE x[j - Len(s)]
  <2>1. PICK k \in Seq(S) : k = x
    BY <1>2
  <2>2. z = s \o k
    BY <1>4, <2>1
  <2>3. /\ z \in Seq(S) /\ Len(z) = Len(s) + Len(k)
        /\ \A j \in 1 .. Len(s) + Len(k) : z[j] = IF j <= Len(s) THEN s[j] ELSE k[j - Len(s)]
    BY <2>2, ConcatProperties
  <2> QED
    BY <2>1, <2>3
<1>8. DOMAIN y = 1 .. Len(s) + Len(u) /\ DOMAIN z = 1 .. Len(s) + Len(u) + 1
  <2>1. DOMAIN y = 1 .. Len(y) /\ DOMAIN z = 1 .. Len(z)
    BY <1>6, <1>7, LenProperties
  <2>2. Len(z) = Len(s) + Len(u) + 1
    BY <1>2, <1>5, <1>7
  <2> QED
    BY <1>6, <2>1, <2>2
<1>9. ASSUME NEW j \in 1 .. Len(s) + Len(u) PROVE z[j] = y[j]
  <2>1. j \in 1 .. Len(s) + Len(x)
    BY <1>2, <1>5
  <2>2. CASE j <= Len(s)
    BY <1>6, <1>7, <2>1, <2>2
  <2>3. CASE ~(j <= Len(s))
    <3>1. j - Len(s) \in 1 .. Len(u)
      BY <1>5, <2>3
    <3> QED
      BY <1>2, <1>6, <1>7, <2>1, <2>3, <3>1
  <2> QED
    BY <2>2, <2>3
<1>10. z[Len(s) + Len(u) + 1] = e
  <2>1. /\ Len(s) + Len(u) + 1 \in 1 .. Len(s) + Len(x) /\ ~(Len(s) + Len(u) + 1 <= Len(s))
        /\ (Len(s) + Len(u) + 1) - Len(s) = Len(u) + 1
    BY <1>2, <1>5
  <2> QED
    BY <1>2, <1>7, <2>1
<1> QED
  BY <1>1, <1>3, <1>4, <1>8, <1>9, <1>10

\* The next element of p comes into c's hands.
LEMMA HandedMore ==
  ASSUME NEW p, NEW t \in Nat, Handed(p, t), NEW c \in Procs \ {p}, NEW N \in Nat,
         \A w \in Procs \ {p, c} : Popped(w)' = Popped(w),
         DOMAIN Popped(c) = 1 .. N, DOMAIN Popped(c)' = 1 .. N + 1,
         \A j \in 1 .. N : Popped(c)'[j] = Popped(c)[j],
         Popped(c)'[N + 1] = <<p, t + 1>>
  PROVE  Handed(p, t + 1)'
<1>0. 1 .. N \subseteq 1 .. N + 1 /\ 1 .. t \subseteq 1 .. t + 1 /\ t + 1 \in 1 .. t + 1
  OBVIOUS
<1>1. \A w \in Procs \ {p} : \A j \in DOMAIN Popped(w)' :
        \/ j \in DOMAIN Popped(w) /\ Popped(w)'[j] = Popped(w)[j]
        \/ w = c /\ j = N + 1 /\ Popped(w)'[j] = <<p, t + 1>>
  <2> SUFFICES ASSUME NEW w \in Procs \ {p}, NEW j \in DOMAIN Popped(w)'
               PROVE  \/ j \in DOMAIN Popped(w) /\ Popped(w)'[j] = Popped(w)[j]
                      \/ w = c /\ j = N + 1 /\ Popped(w)'[j] = <<p, t + 1>>
    OBVIOUS
  <2>1. CASE w # c
    BY <2>1
  <2>2. CASE w = c
    <3>1. j \in 1 .. N \/ j = N + 1
      BY <2>2
    <3> QED
      BY <2>2, <3>1
  <2> QED
    BY <2>1, <2>2
<1>2. \A w \in Procs \ {p} : \A j \in DOMAIN Popped(w) :
        /\ j \in DOMAIN Popped(w)' /\ Popped(w)'[j] = Popped(w)[j]
        /\ Popped(w)[j] # <<p, t + 1>>
  <2> SUFFICES ASSUME NEW w \in Procs \ {p}, NEW j \in DOMAIN Popped(w)
               PROVE  /\ j \in DOMAIN Popped(w)' /\ Popped(w)'[j] = Popped(w)[j]
                      /\ Popped(w)[j] # <<p, t + 1>>
    OBVIOUS
  <2>1. PICK n \in 1 .. t : Popped(w)[j] = <<p, n>>
    BY DEF Handed
  <2>2. n # t + 1
    OBVIOUS
  <2>3. Popped(w)[j] # <<p, t + 1>>
    BY <2>1, <2>2
  <2>4. CASE w # c
    BY <2>3, <2>4
  <2>5. CASE w = c
    BY <1>0, <2>3, <2>5
  <2> QED
    BY <2>4, <2>5
<1>3. ASSUME NEW w \in Procs \ {p}, NEW j \in DOMAIN Popped(w)'
      PROVE  \E n \in 1 .. t + 1 : Popped(w)'[j] = <<p, n>>
  <2>1. CASE j \in DOMAIN Popped(w) /\ Popped(w)'[j] = Popped(w)[j]
    <3>1. PICK n \in 1 .. t : Popped(w)[j] = <<p, n>>
      BY <2>1 DEF Handed
    <3> QED
      BY <1>0, <2>1, <3>1
  <2>2. CASE Popped(w)'[j] = <<p, t + 1>>
    BY <1>0, <2>2
  <2> QED
    BY <1>1, <2>1, <2>2
<1>4. ASSUME NEW v \in Procs \ {p}, NEW w \in Procs \ {p},
             NEW i \in DOMAIN Popped(v)', NEW j \in DOMAIN Popped(w)',
             Popped(v)'[i] = Popped(w)'[j]
      PROVE  v = w /\ i = j
  <2>1. CASE i \in DOMAIN Popped(v) /\ j \in DOMAIN Popped(w)
    BY <1>2, <1>4, <2>1 DEF Handed
  <2>2. CASE i \notin DOMAIN Popped(v)
    <3>1. v = c /\ i = N + 1 /\ Popped(v)'[i] = <<p, t + 1>>
      BY <1>1, <2>2
    <3>2. j \notin DOMAIN Popped(w)
      BY <1>2, <1>4, <3>1
    <3>3. w = c /\ j = N + 1
      BY <1>1, <3>2
    <3> QED
      BY <3>1, <3>3
  <2>3. CASE j \notin DOMAIN Popped(w)
    <3>1. w = c /\ j = N + 1 /\ Popped(w)'[j] = <<p, t + 1>>
      BY <1>1, <2>3
    <3>2. i \notin DOMAIN Popped(v)
      BY <1>2, <1>4, <3>1
    <3>3. v = c /\ i = N + 1
      BY <1>1, <3>2
    <3> QED
      BY <3>1, <3>3
  <2> QED
    BY <2>1, <2>2, <2>3
<1>5. ASSUME NEW n \in 1 .. t + 1
      PROVE  \E w \in Procs \ {p} : \E j \in DOMAIN Popped(w)' : Popped(w)'[j] = <<p, n>>
  <2>1. CASE n = t + 1
    <3>1. N + 1 \in DOMAIN Popped(c)'
      OBVIOUS
    <3> QED
      BY <2>1, <3>1
  <2>2. CASE n # t + 1
    <3>1. n \in 1 .. t
      BY <2>2
    <3>2. PICK w \in Procs \ {p} : \E j \in DOMAIN Popped(w) : Popped(w)[j] = <<p, n>>
      BY <3>1 DEF Handed
    <3> QED
      BY <1>2, <3>2
  <2> QED
    BY <2>1, <2>2
<1> QED
  BY <1>3, <1>4, <1>5 DEF Handed

\* c takes the oldest element that is queued.
LEMMA PopSlot ==
  ASSUME NEW p, Many(p), NEW t \in Nat, NEW h \in Nat, NEW b \in Nat, QInv(p, t, h, b),
         NEW c \in Procs \ {p}, Slot(c), UNCHANGED <<sent, got>>
  PROVE  RingInv(p)'
<1>1. rop[c].fn # "none" /\ rop[c].pc = "slot"
  BY DEF Slot, At
<1>2. /\ rop[c].fn = "pop" /\ rop[c].q = Ring /\ Frame(rop[c])
      /\ ~AtTail(rop[c].fn) /\ ~Pushes(rop[c].fn)
      /\ PopFrame(rop[c]) /\ rop[c].out \in Seq(Items) /\ h < NPushed(p)
  BY <1>1, Popping
<1>3. Holds(rop[c]) /\ ~InHand(rop[c]) /\ Busy(rop[c])
  BY <1>1 DEF Holds, InHand, Busy
<1>4. /\ \A d \in Procs \ {p, c} : ~Holds(rop[d])
      /\ t = h /\ h = b + rop[c].i
  BY <1>3, Alone
<1>5. NPushed(p) \in Nat
  BY Counts
<1> DEFINE e == buf[Ring][head[Ring]]
<1>6. e = <<p, t + 1>>
  <2>1. h \in h .. NPushed(p) - 1
    BY <1>2, <1>5
  <2> QED
    BY <1>4, <2>1 DEF QInv, Between
<1>7. e \in Items
  <2>1. NPushed(p) <= PerProc
    BY DEF QInv, PushFrame, NPushed
  <2>2. t + 1 \in 1 .. PerProc
    BY <1>2, <1>4, <1>5, <2>1, ClientAssumption
  <2> QED
    BY <1>6, <2>2 DEF Items, Many
<1>00. PICK out : out = Append(rop[c].out, e)
  OBVIOUS
<1>0. PICK g : g = OutPc(rop[c], out, "index")
  OBVIOUS
<1>8. rop' = [rop EXCEPT ![c] = g]
  BY <1>00, <1>0, <1>2 DEF Slot, QInv, Types, OutPc
<1>9. UNCHANGED <<buf, head, tail, count, sent, got, hlock>>
  BY <1>2 DEF Slot
<1> HIDE DEF e
<1>10. /\ Frame(g) /\ g.pc = "index" /\ g.fn = rop[c].fn /\ g.q = rop[c].q
       /\ g.need = rop[c].need /\ g.i = rop[c].i /\ g.out = out
  BY <1>0, <1>2, SetOutPc
<1>11. /\ rop'[c] = g /\ DOMAIN rop' = Procs
       /\ rop'[p] = rop[p] /\ \A d \in Procs \ {p, c} : rop'[d] = rop[d]
       /\ NPushed(p)' = NPushed(p)
       /\ PushFrame(p, rop[p], sent[p])' /\ Room(p, h)'
  <2>1. h <= h
    OBVIOUS
  <2> QED
    BY <1>8, <1>9, <2>1, PopSide
<1>12. PopFrame(g)
  <2>1. out \in Seq(Items)
    BY <1>00, <1>2, <1>7, AppendProperties
  <2> QED
    BY <1>1, <1>2, <1>10, <2>1 DEF PopFrame, PopPCs
<1>13. Handed(p, t + 1)'
  <2>1. PICK s \in Seq(Items) : s = got[c] /\ s = got'[c]
    BY <1>9 DEF QInv, Returns
  <2>2. PICK u \in Seq(Items) : u = rop[c].out
    BY <1>2
  <2>3. PICK N \in Nat : N = Len(s) + Len(u)
    BY LenProperties
  <2>4. Popped(c) = s \o u /\ Popped(c)' = s \o Append(u, e)
    BY <1>00, <1>10, <1>11, <2>1, <2>2 DEF Popped
  <2>5. /\ DOMAIN Popped(c) = 1 .. N /\ DOMAIN Popped(c)' = 1 .. N + 1
        /\ \A j \in 1 .. N : Popped(c)'[j] = Popped(c)[j]
        /\ Popped(c)'[N + 1] = e
    BY <1>7, <2>3, <2>4, ConcatAppend
  <2>6. \A w \in Procs \ {p, c} : Popped(w)' = Popped(w)
    BY <1>9, <1>11 DEF Popped
  <2>7. Handed(p, t)
    BY DEF QInv
  <2> QED
    BY <1>6, <2>3, <2>5, <2>6, <2>7, HandedMore
<1>14. Lag(p, t + 1, h, b)'
  <2>1. InHand(g) /\ Busy(g)
    BY <1>10 DEF InHand, Busy
  <2>2. t + 1 = h + 1 /\ h = b + g.i
    BY <1>4, <1>10
  <2>3. \A d \in Procs \ {p, c} : rop'[d] = rop[d] /\ ~Holds(rop[d])
    BY <1>4, <1>11
  <2> QED
    BY <1>11, <2>1, <2>2, <2>3, LagAlone
<1>15. Held(p)' /\ DOMAIN hlock' = {Ring}
  BY <1>3, <1>8, <1>9, PopHeldOn
<1>16. Types' /\ Returns(p)'
  BY <1>9, <1>11 DEF QInv, Types, Returns
<1>17. Between(p, h, b)'
  BY <1>9, <1>11 DEF QInv, Between
<1>18. Some(p, h)'
  <2>1. \A d \in Procs \ {p, c} :
          /\ PopFrame(rop[d])'
          /\ rop'[d].pc \in {"slot", "index", "move"} => h < NPushed(p)'
          /\ rop'[d].pc = "move" => rop'[d].reg = head'[Ring]
    BY <1>9, <1>11 DEF QInv, Some
  <2> QED
    BY <1>2, <1>10, <1>11, <1>12, <2>1 DEF Some
<1>19. QInv(p, t + 1, h, b)' /\ t + 1 \in Nat
  BY <1>11, <1>13, <1>14, <1>15, <1>16, <1>17, <1>18 DEF QInv
<1> QED
  BY <1>19 DEF RingInv

\* head moves over the element that was taken: its slot is free.
LEMMA PopMove ==
  ASSUME NEW p, Many(p), NEW t \in Nat, NEW h \in Nat, NEW b \in Nat, QInv(p, t, h, b),
         NEW c \in Procs \ {p}, MoveIndex(c), UNCHANGED <<sent, got>>
  PROVE  RingInv(p)'
<1>1. rop[c].fn # "none" /\ rop[c].pc = "move"
  BY DEF MoveIndex, At
<1>2. /\ rop[c].fn = "pop" /\ rop[c].q = Ring /\ Frame(rop[c]) /\ ~AtTail(rop[c].fn)
      /\ PopFrame(rop[c]) /\ rop[c].i \in Nat
      /\ h < NPushed(p) /\ rop[c].reg = head[Ring]
  BY <1>1, Popping
<1>3. Holds(rop[c]) /\ InHand(rop[c]) /\ Busy(rop[c])
  BY <1>1 DEF Holds, InHand, Busy
<1>4. /\ \A d \in Procs \ {p, c} : ~Holds(rop[d])
      /\ t = h + 1 /\ h = b + rop[c].i
  BY <1>3, Alone
<1>0. PICK g : g = IPc(rop[c], rop[c].i + 1, "loop")
  OBVIOUS
<1>5. rop' = [rop EXCEPT ![c] = g]
  BY <1>0, <1>2 DEF MoveIndex, QInv, Types, IPc
<1>6. head' = [head EXCEPT ![Ring] = (head[Ring] + 1) % Cap]
  BY <1>2 DEF MoveIndex, NextIndex
<1>7. UNCHANGED <<buf, tail, count, sent, got, hlock>>
  BY <1>2 DEF MoveIndex
<1>8. /\ Frame(g) /\ g.pc = "loop" /\ g.fn = rop[c].fn /\ g.q = rop[c].q
      /\ g.need = rop[c].need /\ g.i = rop[c].i + 1 /\ g.out = rop[c].out
  BY <1>0, <1>2, SetIPc
<1>9. /\ rop'[c] = g /\ DOMAIN rop' = Procs
      /\ rop'[p] = rop[p] /\ \A d \in Procs \ {p, c} : rop'[d] = rop[d]
      /\ NPushed(p)' = NPushed(p) /\ NPushed(p) \in Nat
      /\ PushFrame(p, rop[p], sent[p])' /\ Room(p, h + 1)'
  <2>1. h + 1 \in Nat /\ h <= h + 1
    OBVIOUS
  <2> QED
    BY <1>5, <1>7, <2>1, PopSide
<1>10. Between(p, h, b)
  BY DEF QInv
<1>11. head'[Ring] = (h + 1) % Cap /\ head' \in [{Ring} -> Index]
  <2>1. head \in [{Ring} -> Index] /\ head[Ring] = h % Cap
    BY <1>10 DEF QInv, Types, Between
  <2>2. (h + 1) % Cap \in Index
    <3>1. h + 1 \in Nat
      OBVIOUS
    <3> QED
      BY <3>1, NextPlace
  <2>3. (h + 1) % Cap = (head[Ring] + 1) % Cap
    BY <2>1, NextPlace
  <2> QED
    BY <1>6, <2>1, <2>2, <2>3
<1>12. Held(p)' /\ DOMAIN hlock' = {Ring}
  BY <1>3, <1>5, <1>7, PopHeldOn
<1>13. Types' /\ Returns(p)'
  BY <1>7, <1>9, <1>11, <1>12 DEF QInv, Types, Returns
<1>14. Between(p, h + 1, b)'
  <2>1. \A n \in h + 1 .. NPushed(p) - 1 : buf[Ring][n % Cap] = <<p, n + 1>>
    <3> SUFFICES ASSUME NEW n \in h + 1 .. NPushed(p) - 1
                 PROVE  buf[Ring][n % Cap] = <<p, n + 1>>
      OBVIOUS
    <3>1. n \in h .. NPushed(p) - 1
      BY <1>9
    <3> QED
      BY <1>10, <3>1 DEF Between
  <2>2. Counted(rop[p])' = Counted(rop[p])
    BY <1>9 DEF Counted
  <2>3. h + 1 <= NPushed(p) /\ NPushed(p) - (h + 1) <= Cap
    BY <1>2, <1>9, <1>10, CapAssumption DEF Between
  <2> QED
    BY <1>7, <1>9, <1>10, <1>11, <2>1, <2>2, <2>3 DEF Between
<1>15. PopFrame(g)
  <2>1. g.i \in Nat
    BY <1>2, <1>8
  <2> QED
    BY <1>1, <1>2, <1>8, <2>1 DEF PopFrame, PopPCs
<1>16. Some(p, h + 1)'
  <2>1. \A d \in Procs \ {p, c} :
          PopFrame(rop[d])' /\ rop'[d].pc \notin {"slot", "index", "move"}
    BY <1>4, <1>9 DEF QInv, Some, Holds
  <2> QED
    BY <1>8, <1>9, <1>15, <2>1 DEF Some
<1>17. Lag(p, t, h + 1, b)'
  <2>1. ~InHand(g) /\ Busy(g)
    BY <1>8 DEF InHand, Busy
  <2>2. t = h + 1 /\ h + 1 = b + g.i
    BY <1>2, <1>4, <1>8
  <2>3. \A d \in Procs \ {p, c} : rop'[d] = rop[d] /\ ~Holds(rop[d])
    BY <1>4, <1>9
  <2> QED
    BY <1>9, <2>1, <2>2, <2>3, LagAlone
<1>18. Handed(p, t)'
  <2>1. \A w \in Procs \ {p} : Popped(w)' = Popped(w)
    BY <1>7, <1>8, <1>9 DEF Popped
  <2> QED
    BY <2>1, HandedSame DEF QInv
<1>19. QInv(p, t, h + 1, b)' /\ h + 1 \in Nat
  BY <1>9, <1>12, <1>13, <1>14, <1>16, <1>17, <1>18 DEF QInv
<1> QED
  BY <1>19 DEF RingInv

\* count forgets the elements that were taken.
LEMMA PopAdd ==
  ASSUME NEW p, Many(p), NEW t \in Nat, NEW h \in Nat, NEW b \in Nat, QInv(p, t, h, b),
         NEW c \in Procs \ {p}, Add(c), UNCHANGED <<sent, got>>
  PROVE  RingInv(p)'
<1>1. rop[c].fn # "none" /\ rop[c].pc = "add"
  BY DEF Add, At
<1>2. /\ rop[c].fn = "pop" /\ rop[c].q = Ring /\ Frame(rop[c]) /\ ~Pushes(rop[c].fn)
      /\ PopFrame(rop[c]) /\ rop[c].i \in Nat /\ rop[c].need = Both
  BY <1>1, Popping
<1>3. Holds(rop[c]) /\ ~InHand(rop[c]) /\ Busy(rop[c])
  BY <1>1 DEF Holds, InHand, Busy
<1>4. /\ \A d \in Procs \ {p, c} : ~Holds(rop[d])
      /\ t = h /\ h = b + rop[c].i
  BY <1>3, Alone
<1>0. PICK g : g = WithPc(rop[c], "tunlock")
  OBVIOUS
<1>5. rop' = [rop EXCEPT ![c] = g]
  <2>1. FirstUnlock(rop[c]) = "tunlock"
    BY <1>2 DEF FirstUnlock, Release, locked_both, Both
  <2> QED
    BY <1>0, <2>1 DEF Add, Goto, WithPc
<1>6. count' = [count EXCEPT ![Ring] = count[Ring] - rop[c].i]
  BY <1>2 DEF Add, NewCount
<1>7. UNCHANGED <<buf, head, tail, sent, got, hlock>>
  BY DEF Add
<1>8. /\ Frame(g) /\ g.pc = "tunlock" /\ g.fn = rop[c].fn /\ g.q = rop[c].q
      /\ g.need = rop[c].need /\ g.i = rop[c].i /\ g.out = rop[c].out
  BY <1>0, <1>2, SetPc
<1>9. /\ rop'[c] = g /\ DOMAIN rop' = Procs
      /\ rop'[p] = rop[p] /\ \A d \in Procs \ {p, c} : rop'[d] = rop[d]
      /\ NPushed(p)' = NPushed(p)
      /\ PushFrame(p, rop[p], sent[p])' /\ Room(p, h)'
  <2>1. h <= h
    OBVIOUS
  <2> QED
    BY <1>5, <1>7, <2>1, PopSide
<1>10. /\ count \in [{Ring} -> Int] /\ count'[Ring] = count[Ring] - rop[c].i
       /\ count' \in [{Ring} -> Int]
  BY <1>2, <1>6 DEF QInv, Types
<1>11. Held(p)' /\ DOMAIN hlock' = {Ring}
  BY <1>3, <1>5, <1>7, PopHeldOn
<1>12. Types' /\ Returns(p)'
  BY <1>7, <1>9, <1>10, <1>11 DEF QInv, Types, Returns
<1>13. Between(p, h, h)'
  <2>1. Counted(rop[p])' = Counted(rop[p])
    BY <1>9 DEF Counted
  <2>2. Between(p, h, b)
    BY DEF QInv
  <2>3. Counted(rop[p]) \in Nat /\ sent[p] \in Nat
    BY Counts DEF Counted
  <2>4. count'[Ring] = (sent[p] + Counted(rop[p])) - h
    BY <1>2, <1>4, <1>10, <2>2, <2>3 DEF Between
  <2> QED
    BY <1>7, <1>9, <2>1, <2>2, <2>4 DEF Between
<1>14. PopFrame(g)
  BY <1>1, <1>2, <1>8 DEF PopFrame, PopPCs
<1>15. Some(p, h)'
  <2>1. \A d \in Procs \ {p, c} :
          PopFrame(rop[d])' /\ rop'[d].pc \notin {"slot", "index", "move"}
    BY <1>4, <1>9 DEF QInv, Some, Holds
  <2> QED
    BY <1>8, <1>9, <1>14, <2>1 DEF Some
<1>16. Lag(p, t, h, h)'
  <2>1. ~InHand(g) /\ ~Busy(g)
    BY <1>8 DEF InHand, Busy
  <2>2. \A d \in Procs \ {p, c} : rop'[d] = rop[d] /\ ~Holds(rop[d])
    BY <1>4, <1>9
  <2> QED
    BY <1>4, <1>9, <2>1, <2>2, LagAlone
<1>17. Handed(p, t)'
  <2>1. \A w \in Procs \ {p} : Popped(w)' = Popped(w)
    BY <1>7, <1>8, <1>9 DEF Popped
  <2> QED
    BY <2>1, HandedSame DEF QInv
<1>18. QInv(p, t, h, h)'
  BY <1>9, <1>11, <1>12, <1>13, <1>15, <1>16, <1>17 DEF QInv
<1> QED
  BY <1>18 DEF RingInv

-----------------------------------------------------------------------------
(* Calls and returns *)

\* The activation a call starts with.
Called(fn, in, max) ==
  [NoCall EXCEPT !.fn = fn, !.q = Ring, !.in = in,
     !.max = max, !.pc = IF fn \in {"push", "pop"} THEN "hlock" ELSE "load",
     !.need = IF fn \in {"push", "pop"} THEN Both ELSE {}]

LEMMA CalledFields ==
  ASSUME NEW fn, NEW in, NEW max, NEW g, g = Called(fn, in, max)
  PROVE  /\ Frame(g) /\ g.fn = fn /\ g.q = Ring /\ g.in = in /\ g.i = 0 /\ g.out = <<>>
         /\ g.pc = IF fn \in {"push", "pop"} THEN "hlock" ELSE "load"
         /\ g.need = IF fn \in {"push", "pop"} THEN Both ELSE {}
  BY DEF Called, NoCall, Frame, Fields

LEMMA NoCallFields ==
  ASSUME NEW g, g = NoCall
  PROVE  /\ Frame(g) /\ g.fn = "none" /\ g.i = 0 /\ g.out = <<>> /\ g.pc = "done"
  BY DEF NoCall, Frame, Fields

LEMMA PushBegin ==
  ASSUME NEW p, Many(p), NEW t \in Nat, NEW h \in Nat, NEW b \in Nat, QInv(p, t, h, b), Begin(p)
  PROVE  RingInv(p)'
<1>1. rop[p].fn = "none" /\ sent[p] < PerProc
  BY DEF Begin, Many
<1>2. PICK g : g = Called("push_one", <<<<p, sent[p] + 1>>>>, 0)
  OBVIOUS
<1>3. rop' = [rop EXCEPT ![p] = g]
  BY <1>2 DEF Begin, Many, Call, Called
<1>4. /\ Frame(g) /\ g.fn = "push_one" /\ g.q = Ring /\ g.in = <<<<p, sent[p] + 1>>>>
      /\ g.i = 0 /\ g.out = <<>> /\ g.pc = "load"
  <2>1. PICK in : in = <<<<p, sent[p] + 1>>>>
    OBVIOUS
  <2> QED
    BY <1>2, <2>1, CalledFields
<1>5. UNCHANGED <<buf, head, tail, count, sent, got, hlock>>
  BY DEF Begin
<1>6. rop[p].i = 0 /\ rop[p].pc = "done" /\ sent[p] \in Nat
  BY <1>1, Counts DEF QInv, PushFrame
<1>7. PushFrame(p, g, sent[p])
  BY <1>1, <1>4, <1>6, ClientAssumption DEF PushFrame, PushPCs, Early
<1>8. Counted(g) = Counted(rop[p])
  BY <1>4, <1>6 DEF Counted
<1>9. g.i = rop[p].i /\ g.pc \notin {"slot", "index", "move"}
  BY <1>4, <1>6
<1>10. ~PushHolds(g)
  BY <1>4 DEF PushHolds
<1>11. Held(p)' /\ DOMAIN hlock' = {Ring}
  BY <1>3, <1>5, <1>10, PushHeldOn
<1> QED
  BY <1>3, <1>5, <1>7, <1>8, <1>9, <1>11, PushQuiet

\* A popper outside the mutexes stays there: nothing changes for the others.
LEMMA PopOutside ==
  ASSUME NEW p, Many(p), NEW t \in Nat, NEW h \in Nat, NEW b \in Nat, QInv(p, t, h, b),
         NEW c \in Procs \ {p}, ~Holds(rop[c]),
         NEW g, ~Holds(g), rop' = [rop EXCEPT ![c] = g], UNCHANGED hlock
  PROVE  Held(p)' /\ DOMAIN hlock' = {Ring} /\ Lag(p, t, h, b)'
<1>1. /\ rop'[c] = g /\ rop'[p] = rop[p] /\ \A d \in Procs \ {p, c} : rop'[d] = rop[d]
  BY DEF QInv, Types
<1>2. Held(p)'
  BY <1>1 DEF QInv, Held
<1>3. ~InHand(rop[c]) /\ ~Busy(rop[c]) /\ ~InHand(g) /\ ~Busy(g)
  BY DEF Holds, InHand, Busy
<1>4. Lag(p, t, h, b)'
  BY <1>1, <1>3 DEF QInv, Lag
<1> QED
  BY <1>2, <1>4 DEF QInv, Types

LEMMA PopBegin ==
  ASSUME NEW p, Many(p), NEW t \in Nat, NEW h \in Nat, NEW b \in Nat, QInv(p, t, h, b),
         NEW c \in Procs \ {p}, Begin(c)
  PROVE  RingInv(p)'
<1>1. rop[c].fn = "none"
  BY DEF Begin
<1>2. PICK max \in Int : Call(c, "pop", Ring, <<>>, max)
  BY ClientAssumption DEF Begin, Many
<1>3. PICK g : g = Called("pop", <<>>, max)
  OBVIOUS
<1>4. rop' = [rop EXCEPT ![c] = g]
  BY <1>2, <1>3 DEF Call, Called
<1>5. /\ Frame(g) /\ g.fn = "pop" /\ g.q = Ring /\ g.i = 0 /\ g.out = <<>>
      /\ g.pc = "hlock" /\ g.need = Both
  BY <1>3, CalledFields
<1>6. UNCHANGED <<buf, head, tail, count, sent, got, hlock>>
  BY DEF Begin
<1>7. rop[c].pc = "done" /\ rop[c].out = <<>>
  BY <1>1 DEF QInv, Some, PopFrame
<1>8. PopFrame(g)
  <2>1. g.out \in Seq(Items)
    BY <1>5, EmptySeq
  <2> QED
    BY <1>5, <2>1 DEF PopFrame, PopPCs
<1>9. ~Holds(rop[c]) /\ ~Holds(g)
  BY <1>5, <1>7 DEF Holds
<1>10. Held(p)' /\ DOMAIN hlock' = {Ring} /\ Lag(p, t, h, b)'
  BY <1>4, <1>6, <1>9, PopOutside
<1>11. g.out = rop[c].out /\ g.pc \notin {"slot", "index", "move"}
  BY <1>5, <1>7
<1> QED
  BY <1>4, <1>6, <1>8, <1>10, <1>11, PopQuiet

LEMMA PushEnd ==
  ASSUME NEW p, Many(p), NEW t \in Nat, NEW h \in Nat, NEW b \in Nat, QInv(p, t, h, b), End(p)
  PROVE  RingInv(p)'
<1>1. rop[p].fn # "none" /\ rop[p].pc = "done"
  BY DEF End, Returned
<1>2. Pushes(rop[p].fn)
  BY <1>1, Pushing DEF Pushes
<1>3. PICK g : g = NoCall
  OBVIOUS
<1>4. rop' = [rop EXCEPT ![p] = g] /\ UNCHANGED <<buf, head, tail, count, hlock>>
  BY <1>3 DEF End
<1>5. Frame(g) /\ g.fn = "none" /\ g.i = 0 /\ g.out = <<>> /\ g.pc = "done"
  BY <1>3, NoCallFields
<1>6. /\ sent[p] \in Nat /\ rop[p].i \in Nat /\ sent[p] + rop[p].i \in Nat
  BY Counts
<1>7. /\ sent'[p] = sent[p] + rop[p].i /\ \A c \in Procs \ {p} : sent'[c] = sent[c]
      /\ DOMAIN sent' = Procs /\ sent' \in [Procs -> Nat]
  <2>1. sent' = [sent EXCEPT ![p] = sent[p] + rop[p].i]
    BY <1>2 DEF End
  <2> QED
    BY <1>6, <2>1 DEF Many, QInv, Types
<1>8. got'[p] = <<>> /\ (\A c \in Procs \ {p} : got'[c] = got[c]) /\ DOMAIN got' = Procs
  <2>1. got' = [got EXCEPT ![p] = got[p] \o rop[p].out]
    BY DEF End
  <2>2. got[p] = <<>> /\ rop[p].out = <<>>
    BY DEF QInv, Returns, PushFrame
  <2>3. got[p] \o rop[p].out = <<>>
    BY <2>2
  <2> QED
    BY <2>1, <2>3 DEF Many, QInv, Types
<1>9. /\ rop'[p] = g /\ DOMAIN rop' = Procs
      /\ \A c \in Procs \ {p} : rop'[c] = rop[c]
      /\ Lag(p, t, h, b)' /\ Handed(p, t)'
      /\ NPushed(p)' = NPushed(p) => Some(p, h)'
  BY <1>4, <1>8, PushSide
<1>10. NPushed(p)' = NPushed(p)
  BY <1>5, <1>6, <1>7, <1>9 DEF NPushed
<1>11. ~PushHolds(g)
  BY <1>5 DEF PushHolds
<1>12. Held(p)' /\ DOMAIN hlock' = {Ring}
  BY <1>4, <1>11, PushHeldOn
<1>13. Types' /\ Returns(p)'
  BY <1>4, <1>7, <1>8, <1>9, <1>12 DEF QInv, Types, Returns
<1>14. Between(p, h, b)'
  <2>1. /\ Counted(rop[p]) = rop[p].i /\ Counted(rop[p])' = 0
    BY <1>1, <1>5, <1>9 DEF Counted
  <2>2. Between(p, h, b) /\ sent'[p] + 0 = sent[p] + rop[p].i
    BY <1>6, <1>7 DEF QInv
  <2> QED
    BY <1>4, <1>10, <2>1, <2>2 DEF Between
<1>15. PushFrame(p, g, sent'[p])
  <2>1. sent[p] + rop[p].i <= PerProc
    BY DEF QInv, PushFrame
  <2> QED
    BY <1>5, <1>6, <1>7, <2>1 DEF PushFrame, PushPCs
<1>16. PushFrame(p, rop[p], sent[p])'
  BY <1>9, <1>15
<1>17. Room(p, h)'
  BY <1>5, <1>9 DEF Room
<1>18. QInv(p, t, h, b)'
  BY <1>9, <1>10, <1>12, <1>13, <1>14, <1>16, <1>17 DEF QInv
<1> QED
  BY <1>18 DEF RingInv

\* A batch is returned: the elements stay in the caller's hands.
LEMMA PopEnd ==
  ASSUME NEW p, Many(p), NEW t \in Nat, NEW h \in Nat, NEW b \in Nat, QInv(p, t, h, b),
         NEW c \in Procs \ {p}, End(c)
  PROVE  RingInv(p)'
<1>1. rop[c].fn # "none" /\ rop[c].pc = "done"
  BY DEF End, Returned
<1>2. ~Pushes(rop[c].fn) /\ rop[c].out \in Seq(Items)
  BY <1>1, Popping
<1>3. PICK g : g = NoCall
  OBVIOUS
<1>4. rop' = [rop EXCEPT ![c] = g] /\ UNCHANGED <<buf, head, tail, count, hlock>>
  BY <1>3 DEF End
<1>5. Frame(g) /\ g.fn = "none" /\ g.i = 0 /\ g.out = <<>> /\ g.pc = "done"
  BY <1>3, NoCallFields
<1>6. sent' = sent
  <2>1. sent' = [sent EXCEPT ![c] = sent[c]]
    BY <1>2 DEF End
  <2> QED
    BY <2>1 DEF QInv, Types
<1>7. /\ rop'[c] = g /\ DOMAIN rop' = Procs
      /\ rop'[p] = rop[p] /\ \A d \in Procs \ {p, c} : rop'[d] = rop[d]
      /\ NPushed(p)' = NPushed(p)
      /\ PushFrame(p, rop[p], sent[p])' /\ Room(p, h)'
  <2>1. h <= h
    OBVIOUS
  <2> QED
    BY <1>4, <1>6, <2>1, PopSide
<1>8. /\ got'[c] = got[c] \o rop[c].out /\ got'[p] = got[p] /\ DOMAIN got' = Procs
      /\ \A d \in Procs \ {p, c} : got'[d] = got[d]
  BY DEF End, QInv, Types
<1>9. got'[c] \in Seq(Items) /\ got'[c] \o <<>> = got'[c]
  <2>1. PICK s \in Seq(Items) : s = got[c]
    BY DEF QInv, Returns
  <2>2. PICK u \in Seq(Items) : u = rop[c].out
    BY <1>2
  <2>3. PICK x \in Seq(Items) : x = s \o u
    BY ConcatProperties
  <2>4. x \o <<>> = x
    BY <2>3, ConcatEmptySeq
  <2> QED
    BY <1>8, <2>1, <2>2, <2>3, <2>4
<1>10. Types' /\ Returns(p)'
  BY <1>4, <1>6, <1>7, <1>8, <1>9 DEF QInv, Types, Returns
<1>11. ~Holds(rop[c]) /\ ~Holds(g)
  BY <1>1, <1>5 DEF Holds
<1>12. Held(p)' /\ DOMAIN hlock' = {Ring} /\ Lag(p, t, h, b)'
  BY <1>4, <1>11, PopOutside
<1>13. Between(p, h, b)'
  BY <1>4, <1>6, <1>7 DEF QInv, Between
<1>14. Some(p, h)'
  <2>1. \A d \in Procs \ {p, c} :
          /\ PopFrame(rop[d])'
          /\ rop'[d].pc \in {"slot", "index", "move"} => h < NPushed(p)'
          /\ rop'[d].pc = "move" => rop'[d].reg = head'[Ring]
    BY <1>4, <1>7 DEF QInv, Some
  <2>2. g.out \in Seq(Items)
    BY <1>5, EmptySeq
  <2>3. PopFrame(g)
    BY <1>5, <2>2 DEF PopFrame, PopPCs
  <2> QED
    BY <1>5, <1>7, <2>1, <2>3 DEF Some
<1>15. Handed(p, t)'
  <2>1. Popped(c)' = Popped(c)
    BY <1>5, <1>7, <1>8, <1>9 DEF Popped
  <2>2. \A w \in Procs \ {p, c} : Popped(w)' = Popped(w)
    BY <1>7, <1>8 DEF Popped
  <2>3. \A w \in Procs \ {p} : Popped(w)' = Popped(w)
    BY <2>1, <2>2
  <2> QED
    BY <2>3, HandedSame DEF QInv
<1>16. QInv(p, t, h, b)'
  BY <1>7, <1>10, <1>12, <1>13, <1>14, <1>15 DEF QInv
<1> QED
  BY <1>16 DEF RingInv

-----------------------------------------------------------------------------
(* The invariant *)

LEMMA RingInvInit ==
  ASSUME NEW p, Many(p), Init
  PROVE  RingInv(p)
<1>1. /\ buf = [q \in {Ring} |-> [k \in Index |-> Null]] /\ head = [q \in {Ring} |-> 0]
      /\ tail = [q \in {Ring} |-> 0] /\ count = [q \in {Ring} |-> 0]
      /\ hlock = [q \in {Ring} |-> Null]
      /\ rop = [w \in Procs |-> NoCall] /\ sent = [w \in Procs |-> 0]
      /\ got = [w \in Procs |-> <<>>]
  BY ClientAssumption DEF Init, RingInit
<1>2. PICK g : g = NoCall
  OBVIOUS
<1>3. p \in Procs /\ \A w \in Procs : rop[w] = g /\ sent[w] = 0 /\ got[w] = <<>>
  BY <1>1, <1>2 DEF Many
<1>4. Frame(g) /\ g.fn = "none" /\ g.i = 0 /\ g.out = <<>> /\ g.pc = "done"
  BY <1>2, NoCallFields
<1>5. 0 \in Index /\ 0 % Cap = 0
  BY CapAssumption DEF Index
<1>6. head[Ring] = 0 /\ tail[Ring] = 0 /\ count[Ring] = 0
  BY <1>1
<1>7. Types
  BY <1>1, <1>5 DEF Types
<1>8. g.out \in Seq(Items) /\ <<>> \in Seq(Items)
  BY <1>4, EmptySeq
<1>9. Returns(p)
  BY <1>3, <1>8 DEF Returns
<1>10. NPushed(p) = 0 /\ Counted(rop[p]) = 0
  BY <1>3, <1>4 DEF NPushed, Counted
<1>11. Between(p, 0, 0)
  <2>1. 0 <= 0 /\ 0 - 0 <= Cap /\ 0 .. 0 - 1 = {} /\ 0 = (0 + 0) - 0
    BY CapAssumption
  <2> QED
    BY <1>3, <1>5, <1>6, <1>10, <2>1 DEF Between
<1>12. PushFrame(p, rop[p], sent[p]) /\ Room(p, 0)
  BY <1>3, <1>4, ClientAssumption DEF PushFrame, PushPCs, Room
<1>13. Some(p, 0)
  <2>1. PopFrame(g)
    BY <1>4, <1>8 DEF PopFrame, PopPCs
  <2> QED
    BY <1>3, <1>4, <2>1 DEF Some
<1>14. Held(p) /\ Lag(p, 0, 0, 0)
  BY <1>3, <1>4 DEF Held, PushHolds, Holds, Lag, InHand, Busy
<1>15. Handed(p, 0)
  <2>0. ASSUME NEW w \in Procs PROVE DOMAIN Popped(w) = {}
    <3>1. got[w] = <<>> /\ rop[w].out = <<>>
      BY <1>3, <1>4
    <3> QED
      BY <3>1 DEF Popped
  <2>1. \A w \in Procs : DOMAIN Popped(w) = {}
    BY <2>0
  <2>2. 1 .. 0 = {}
    OBVIOUS
  <2> QED
    BY <2>1, <2>2 DEF Handed
<1>16. QInv(p, 0, 0, 0)
  BY <1>7, <1>9, <1>11, <1>12, <1>13, <1>14, <1>15 DEF QInv
<1> QED
  BY <1>16 DEF RingInv

\* p never is in a loop; a popper neither reads count without a lock nor checks it.
LEMMA NoOther ==
  ASSUME NEW p, NEW t, NEW h, NEW b, QInv(p, t, h, b)
  PROVE  ~Loop(p) /\ \A c \in Procs \ {p} : ~Load(c) /\ ~Check(c)
<1>1. rop[p].pc # "loop"
  BY DEF QInv, PushFrame, PushPCs
<1>2. \A c \in Procs \ {p} : rop[c].pc \notin {"load", "check"}
  BY DEF QInv, Some, PopFrame, PopPCs
<1> QED
  BY <1>1, <1>2 DEF Loop, Load, Check, At

LEMMA PushInside ==
  ASSUME NEW p, Many(p), NEW t \in Nat, NEW h \in Nat, NEW b \in Nat, QInv(p, t, h, b),
         Inside(p)
  PROVE  RingInv(p)'
<1>1. RingStep(p) /\ UNCHANGED <<sent, got>>
  BY DEF Inside
<1>2. CASE Load(p)
  BY <1>1, <1>2, PushLoad
<1>3. CASE LockHead(p)
  BY <1>1, <1>3, PushLockHead
<1>4. CASE LockTail(p)
  BY <1>1, <1>4, PushLockTail
<1>5. CASE Check(p)
  BY <1>1, <1>5, PushCheck
<1>6. CASE Slot(p)
  BY <1>1, <1>6, PushSlot
<1>7. CASE LoadIndex(p)
  BY <1>1, <1>7, PushLoadIndex
<1>8. CASE MoveIndex(p)
  BY <1>1, <1>8, PushMove
<1>9. CASE Add(p)
  BY <1>1, <1>9, PushAdd
<1>10. CASE UnlockTail(p)
  BY <1>1, <1>10, PushUnlockTail
<1>11. CASE UnlockHead(p)
  BY <1>1, <1>11, PushUnlockHead
<1>12. ~Loop(p)
  BY NoOther
<1> QED
  BY <1>1, <1>2, <1>3, <1>4, <1>5, <1>6, <1>7, <1>8, <1>9, <1>10, <1>11, <1>12 DEF RingStep

LEMMA PopInside ==
  ASSUME NEW p, Many(p), NEW t \in Nat, NEW h \in Nat, NEW b \in Nat, QInv(p, t, h, b),
         NEW c \in Procs \ {p}, Inside(c)
  PROVE  RingInv(p)'
<1>1. RingStep(c) /\ UNCHANGED <<sent, got>>
  BY DEF Inside
<1>2. CASE LockHead(c)
  BY <1>1, <1>2, PopLockHead
<1>3. CASE LockTail(c)
  BY <1>1, <1>3, PopLockTail
<1>4. CASE Loop(c)
  BY <1>1, <1>4, PopLoop
<1>5. CASE Slot(c)
  BY <1>1, <1>5, PopSlot
<1>6. CASE LoadIndex(c)
  BY <1>1, <1>6, PopLoadIndex
<1>7. CASE MoveIndex(c)
  BY <1>1, <1>7, PopMove
<1>8. CASE Add(c)
  BY <1>1, <1>8, PopAdd
<1>9. CASE UnlockTail(c)
  BY <1>1, <1>9, PopUnlockTail
<1>10. CASE UnlockHead(c)
  BY <1>1, <1>10, PopUnlockHead
<1>11. ~Load(c) /\ ~Check(c)
  BY NoOther
<1> QED
  BY <1>1, <1>2, <1>3, <1>4, <1>5, <1>6, <1>7, <1>8, <1>9, <1>10, <1>11 DEF RingStep

LEMMA RingInvStutter ==
  ASSUME NEW p, NEW t \in Nat, NEW h \in Nat, NEW b \in Nat, QInv(p, t, h, b), UNCHANGED vars
  PROVE  RingInv(p)'
<1>1. UNCHANGED <<buf, head, tail, count, hlock, rop, sent, got>>
  BY DEF vars, ringVars
<1>2. NPushed(p)' = NPushed(p) /\ \A w \in Procs \ {p} : Popped(w)' = Popped(w)
  BY <1>1 DEF NPushed, Popped
<1>3. Types' /\ Returns(p)' /\ Held(p)' /\ Lag(p, t, h, b)'
  BY <1>1 DEF QInv, Types, Returns, Held, Lag
<1>4. Between(p, h, b)'
  BY <1>1, <1>2 DEF QInv, Between
<1>5. Room(p, h)' /\ Some(p, h)'
  BY <1>1, <1>2 DEF QInv, Room, Some
<1>6. PushFrame(p, rop[p], sent[p])'
  BY <1>1 DEF QInv
<1>7. Handed(p, t)'
  BY <1>2, HandedSame DEF QInv
<1>8. QInv(p, t, h, b)'
  BY <1>3, <1>4, <1>5, <1>6, <1>7 DEF QInv
<1> QED
  BY <1>8 DEF RingInv

LEMMA RingInvStep ==
  ASSUME NEW p, Many(p), RingInv(p), [Next]_vars
  PROVE  RingInv(p)'
<1>0. PICK t \in Nat, h \in Nat, b \in Nat : QInv(p, t, h, b)
  BY DEF RingInv
<1>1. CASE UNCHANGED vars
  BY <1>0, <1>1, RingInvStutter
<1>2. CASE Next
  <2>1. PICK w \in Procs : Begin(w) \/ Inside(w) \/ End(w)
    BY <1>2 DEF Next
  <2>2. CASE w = p
    BY <1>0, <2>1, <2>2, PushBegin, PushInside, PushEnd
  <2>3. CASE w # p
    <3>1. w \in Procs \ {p}
      BY <2>3
    <3> QED
      BY <1>0, <2>1, <3>1, PopBegin, PopInside, PopEnd
  <2> QED
    BY <2>2, <2>3
<1> QED
  BY <1>1, <1>2

-----------------------------------------------------------------------------
(* What the invariant says of the queue *)

LEMMA Residue ==
  ASSUME NEW a \in Int, NEW b \in 0 .. Cap - 1
  PROVE  (Cap * a + b) % Cap = b
  BY CapAssumption

\* The place of an element at a distance from head.
LEMMA PlaceAfter ==
  ASSUME NEW n \in Nat, NEW j \in Nat
  PROVE  ((n % Cap) + j) % Cap = (n + j) % Cap
<1> USE CapAssumption
<1> DEFINE lap == n \div Cap
           pos == n % Cap
           at == (n % Cap) + j
<1>1. n = Cap * lap + pos /\ lap \in Int /\ pos \in 0 .. Cap - 1 /\ at = pos + j /\ at \in Nat
  OBVIOUS
<1> SUFFICES at % Cap = (n + j) % Cap
  OBVIOUS
<1> HIDE DEF lap, pos, at
<1> DEFINE alap == at \div Cap
           apos == at % Cap
<1>2. at = Cap * alap + apos /\ alap \in Int /\ apos \in 0 .. Cap - 1
  BY <1>1
<1> SUFFICES apos = (n + j) % Cap
  OBVIOUS
<1> HIDE DEF alap, apos
<1>3. PICK laps \in Int : laps = lap + alap
  BY <1>1, <1>2
<1>4. n + j = Cap * laps + apos
  BY <1>1, <1>2, <1>3
<1>5. (Cap * laps + apos) % Cap = apos
  BY <1>2, Residue
<1> QED
  BY <1>4, <1>5

LEMMA PoppedOnceFromInv ==
  ASSUME NEW p, Many(p), NEW t \in Nat, NEW h \in Nat, NEW b \in Nat, QInv(p, t, h, b)
  PROVE  PoppedOnce
<1>1. Handed(p, t)
  BY DEF QInv
<1>2. DOMAIN Popped(p) = {}
  <2>1. got[p] = <<>> /\ rop[p].out = <<>>
    BY DEF QInv, Returns, PushFrame
  <2> QED
    BY <2>1 DEF Popped
<1>3. Null \notin Items
  BY NullAssumption, ClientAssumption
<1>4. t <= PerProc
  <2>1. h <= NPushed(p) /\ NPushed(p) <= PerProc /\ NPushed(p) \in Nat
    BY Counts DEF QInv, Between, PushFrame, NPushed
  <2>2. CASE \E c \in Procs \ {p} : InHand(rop[c])
    <3>1. PICK c \in Procs \ {p} : InHand(rop[c])
      BY <2>2
    <3>2. t = h + 1 /\ h < NPushed(p)
      BY <3>1 DEF QInv, Lag, Some, InHand
    <3> QED
      BY <2>1, <3>2, ClientAssumption
  <2>3. CASE ~ \E c \in Procs \ {p} : InHand(rop[c])
    <3>1. t = h
      BY <2>3 DEF QInv, Lag
    <3> QED
      BY <2>1, <3>1, ClientAssumption
  <2> QED
    BY <2>2, <2>3
<1> SUFFICES ASSUME NEW v \in Procs, NEW w \in Procs,
                    NEW i \in DOMAIN Popped(v), NEW j \in DOMAIN Popped(w)
             PROVE  /\ Popped(v)[i] # Null
                    /\ Popped(v)[i] = Popped(w)[j] => v = w /\ i = j
  BY DEF PoppedOnce
<1>5. v \in Procs \ {p} /\ w \in Procs \ {p}
  BY <1>2
<1>6. PICK n \in 1 .. t : Popped(v)[i] = <<p, n>>
  BY <1>1, <1>5 DEF Handed
<1>7. n \in 1 .. PerProc
  BY <1>4, ClientAssumption
<1>8. Popped(v)[i] \in Items
  BY <1>6, <1>7 DEF Items, Many
<1> QED
  BY <1>1, <1>3, <1>5, <1>8 DEF Handed

\* Between operations: place k of the queue holds element h + k of p, and the first
\* h elements have left.
LEMMA QueuedIs ==
  ASSUME NEW p, Many(p), NEW t \in Nat, NEW h \in Nat, NEW b \in Nat, QInv(p, t, h, b),
         \A w \in Procs : rop[w].fn = "none"
  PROVE  /\ sent[p] \in Nat /\ sent[p] <= PerProc /\ t = h
         /\ count[Ring] = sent[p] - h /\ count[Ring] \in 0 .. Cap
         /\ DOMAIN Queued(Ring) = 1 .. count[Ring]
         /\ \A k \in 1 .. count[Ring] : Queued(Ring)[k] = <<p, h + k>>
<1>1. rop[p].i = 0 /\ rop[p].pc = "done" /\ \A c \in Procs \ {p} : rop[c].pc = "done"
  BY DEF QInv, PushFrame, Some, PopFrame, Many
<1>2. sent[p] \in Nat
  BY Counts
<1>3. sent[p] <= PerProc
  BY <1>1, <1>2 DEF QInv, PushFrame
<1>4. NPushed(p) = sent[p]
  BY <1>1, <1>2 DEF NPushed
<1>5. Between(p, h, b)
  BY DEF QInv
<1>6. Counted(rop[p]) = 0
  BY <1>1 DEF Counted
<1>7. t = h /\ h = b
  <2>1. \A c \in Procs \ {p} : ~InHand(rop[c]) /\ ~Busy(rop[c])
    BY <1>1 DEF InHand, Busy
  <2> QED
    BY <2>1 DEF QInv, Lag
<1>8. count[Ring] = sent[p] - h
  BY <1>2, <1>5, <1>6, <1>7 DEF Between
<1>9. count[Ring] \in 0 .. Cap
  BY <1>2, <1>4, <1>5, <1>8, CapAssumption DEF Between
<1>10. DOMAIN Queued(Ring) = 1 .. count[Ring]
  BY DEF Queued
<1>11. ASSUME NEW k \in 1 .. count[Ring] PROVE Queued(Ring)[k] = <<p, h + k>>
  <2>1. PICK n : n = h + (k - 1)
    OBVIOUS
  <2>2. k - 1 \in Nat /\ n \in h .. NPushed(p) - 1 /\ n + 1 = h + k
    BY <1>2, <1>4, <1>8, <1>9, <2>1
  <2>3. buf[Ring][n % Cap] = <<p, n + 1>>
    BY <1>5, <2>2 DEF Between
  <2>4. head[Ring] = h % Cap /\ head[Ring] \in Int
    BY <1>5, Counts, CapAssumption DEF Between, Index
  <2>5. (head[Ring] + (k - 1)) % Cap = n % Cap
    BY <2>1, <2>2, <2>4, PlaceAfter
  <2>6. head[Ring] + k - 1 = head[Ring] + (k - 1)
    BY <1>9, <2>4
  <2>7. Queued(Ring)[k] = buf[Ring][(head[Ring] + k - 1) % Cap]
    BY DEF Queued
  <2> QED
    BY <2>2, <2>3, <2>5, <2>6, <2>7
<1> QED
  BY <1>2, <1>3, <1>7, <1>8, <1>9, <1>10, <1>11

LEMMA LeftIs ==
  ASSUME NEW p, Many(p), NEW t \in Nat, NEW h \in Nat, NEW b \in Nat, QInv(p, t, h, b),
         \A w \in Procs : rop[w].fn = "none", NEW k \in Nat
  PROVE  Left(<<p, k>>) <=> k \in 1 .. t
<1>1. \A w \in Procs \ {p} : Popped(w) = got[w]
  <2> SUFFICES ASSUME NEW w \in Procs \ {p} PROVE Popped(w) = got[w]
    OBVIOUS
  <2>1. rop[w].out = <<>>
    BY DEF QInv, Some, PopFrame
  <2>2. PICK s \in Seq(Items) : s = got[w]
    BY DEF QInv, Returns
  <2>3. s \o <<>> = s
    BY ConcatEmptySeq
  <2> QED
    BY <2>1, <2>2, <2>3 DEF Popped
<1>2. DOMAIN got[p] = {}
  BY DEF QInv, Returns
<1>3. Handed(p, t)
  BY DEF QInv
<1>4. ASSUME Left(<<p, k>>) PROVE k \in 1 .. t
  <2>1. PICK v \in Procs : \E j \in DOMAIN got[v] : got[v][j] = <<p, k>>
    BY <1>4 DEF Left
  <2>2. PICK j \in DOMAIN got[v] : got[v][j] = <<p, k>>
    BY <2>1
  <2>3. v \in Procs \ {p}
    BY <1>2, <2>2
  <2>4. PICK n \in 1 .. t : got[v][j] = <<p, n>>
    BY <1>1, <1>3, <2>2, <2>3 DEF Handed
  <2>5. n = k
    BY <2>2, <2>4
  <2> QED
    BY <2>4, <2>5
<1>5. ASSUME k \in 1 .. t PROVE Left(<<p, k>>)
  BY <1>1, <1>3, <1>5 DEF Left, Handed
<1> QED
  BY <1>4, <1>5

LEMMA HoldsTheRestFromInv ==
  ASSUME NEW p, Many(p), NEW t \in Nat, NEW h \in Nat, NEW b \in Nat, QInv(p, t, h, b)
  PROVE  HoldsTheRest
<1>1. PoppedOnce
  BY PoppedOnceFromInv
<1> SUFFICES ASSUME \A w \in Procs : rop[w].fn = "none"
             PROVE
      /\ count[Ring] \in 0 .. Cap
      /\ \A n \in DOMAIN Queued(Ring) :
           Queued(Ring)[n] \in Items /\ Queued(Ring)[n][2] <= sent[Queued(Ring)[n][1]]
      /\ \A w \in Procs : \A k \in 1 .. sent[w] : Left(<<w, k>>) <=> ~IsQueued(<<w, k>>)
      /\ \A m, n \in DOMAIN Queued(Ring) :
           m < n /\ Queued(Ring)[m][1] = Queued(Ring)[n][1] => Queued(Ring)[m][2] < Queued(Ring)[n][2]
      /\ \A w \in Procs : \A j, k \in 1 .. sent[w] :
           Left(<<w, j>>) /\ IsQueued(<<w, k>>) => j < k
  BY <1>1 DEF HoldsTheRest
<1>2. p \in Procs
  BY DEF Many
<1> DEFINE L == h
           S == sent[p]
           N == count[Ring]
           Q == Queued(Ring)
<1>3. /\ S \in Nat /\ L \in Nat /\ S <= PerProc /\ N = S - L /\ N \in 0 .. Cap
      /\ DOMAIN Q = 1 .. N /\ \A k \in 1 .. N : Q[k] = <<p, L + k>>
  BY QueuedIs
<1>4. \A k \in Nat : Left(<<p, k>>) <=> k \in 1 .. L
  <2>1. t = h
    BY QueuedIs
  <2> QED
    BY <2>1, LeftIs
<1>5. \A x : IsQueued(x) <=> \E n \in 1 .. N : x = <<p, L + n>>
  BY <1>3 DEF IsQueued
<1>6. \A c \in Procs \ {p} : sent[c] = 0
  BY DEF QInv, Returns
<1> SUFFICES /\ N \in 0 .. Cap
             /\ \A n \in DOMAIN Q : Q[n] \in Items /\ Q[n][2] <= sent[Q[n][1]]
             /\ \A w \in Procs : \A k \in 1 .. sent[w] : Left(<<w, k>>) <=> ~IsQueued(<<w, k>>)
             /\ \A m, n \in DOMAIN Q : m < n /\ Q[m][1] = Q[n][1] => Q[m][2] < Q[n][2]
             /\ \A w \in Procs : \A j, k \in 1 .. sent[w] :
                  Left(<<w, j>>) /\ IsQueued(<<w, k>>) => j < k
  OBVIOUS
<1>7. sent[p] = S
  OBVIOUS
<1> HIDE DEF L, S, N, Q
<1>8. ASSUME NEW n \in DOMAIN Q PROVE Q[n] \in Items /\ Q[n][2] <= sent[Q[n][1]]
  <2>1. n \in 1 .. N /\ Q[n] = <<p, L + n>> /\ L + n \in 1 .. PerProc /\ L + n <= S
    BY <1>3, <1>8, ClientAssumption
  <2>2. Q[n][1] = p /\ Q[n][2] = L + n
    BY <2>1
  <2> QED
    BY <1>2, <1>7, <2>1, <2>2 DEF Items
<1>9. ASSUME NEW m \in DOMAIN Q, NEW n \in DOMAIN Q, m < n PROVE Q[m][2] < Q[n][2]
  <2>1. m \in 1 .. N /\ n \in 1 .. N /\ Q[m] = <<p, L + m>> /\ Q[n] = <<p, L + n>>
    BY <1>3, <1>9
  <2>2. Q[m][2] = L + m /\ Q[n][2] = L + n
    BY <2>1
  <2> QED
    BY <1>3, <1>9, <2>1, <2>2
<1>10. ASSUME NEW k \in 1 .. S PROVE IsQueued(<<p, k>>) <=> k > L
  <2>1. k \in Nat /\ k <= S
    BY <1>3
  <2>2. ASSUME k > L PROVE IsQueued(<<p, k>>)
    <3>1. k - L \in 1 .. N /\ k = L + (k - L)
      BY <1>3, <2>1, <2>2
    <3> QED
      BY <1>5, <3>1
  <2>3. ASSUME IsQueued(<<p, k>>) PROVE k > L
    <3>1. PICK n \in 1 .. N : <<p, k>> = <<p, L + n>>
      BY <1>5, <2>3
    <3>2. k = L + n
      BY <3>1
    <3> QED
      BY <1>3, <3>2
  <2> QED
    BY <2>2, <2>3
<1>11. ASSUME NEW w \in Procs, NEW k \in 1 .. sent[w] PROVE w = p /\ k \in 1 .. S
  <2>1. w = p
    BY <1>6, <1>11
  <2> QED
    BY <1>7, <1>11, <2>1
<1>12. ASSUME NEW w \in Procs, NEW k \in 1 .. sent[w]
       PROVE  Left(<<w, k>>) <=> ~IsQueued(<<w, k>>)
  <2>1. w = p /\ k \in 1 .. S /\ k \in Nat
    BY <1>3, <1>11, <1>12
  <2>2. Left(<<p, k>>) <=> k <= L
    BY <1>3, <1>4, <2>1
  <2>3. IsQueued(<<p, k>>) <=> k > L
    BY <1>10, <2>1
  <2>4. k > L <=> ~(k <= L)
    BY <1>3, <2>1
  <2> QED
    BY <2>1, <2>2, <2>3, <2>4
<1>13. ASSUME NEW w \in Procs, NEW j \in 1 .. sent[w], NEW k \in 1 .. sent[w],
              Left(<<w, j>>), IsQueued(<<w, k>>)
       PROVE  j < k
  <2>1. w = p /\ k \in 1 .. S /\ k \in Nat /\ j \in 1 .. S /\ j \in Nat
    BY <1>3, <1>11, <1>13
  <2>2. j \in 1 .. L
    BY <1>4, <1>13, <2>1
  <2>3. k > L
    BY <1>10, <1>13, <2>1
  <2> QED
    BY <1>3, <2>1, <2>2, <2>3
<1> QED
  BY <1>3, <1>8, <1>9, <1>12, <1>13

-----------------------------------------------------------------------------
\* The global run queue, with the locks the code takes: one client pushes single
\* elements (mcsched_add) and any number of others take batches
\* (mcsched_loop).  The queue is never read where nothing was stored, hands
\* every element to one caller once and in the order of the pushes, and between
\* operations holds exactly the rest, for every size of the queue, every number of
\* clients, at every fill level.
THEOREM RingHolds ==
  ASSUME NEW p, Many(p)
  PROVE  Spec => []HoldsTheRest
<1>1. Init => RingInv(p)
  BY RingInvInit
<1>2. RingInv(p) /\ [Next]_vars => RingInv(p)'
  BY RingInvStep
<1>3. RingInv(p) => HoldsTheRest
  BY HoldsTheRestFromInv DEF RingInv
<1> QED
  BY <1>1, <1>2, <1>3, PTL DEF Spec

=============================================================================
