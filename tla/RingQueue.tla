----------------------------- MODULE RingQueue -----------------------------
(***************************************************************************)
(* The two-lock ring buffer of lps-linux/queue.c, one step per access to   *)
(* shared memory.                                                          *)
(*                                                                         *)
(* head and tail are plain (volatile) variables and count is atomic; an    *)
(* operation reads count without a lock to decide which of the two         *)
(* mutexes it takes.  Accesses that the locks do not order are a data race *)
(* in C; they are modelled as interleaved accesses to single words.  The   *)
(* mutexes are the default ones of pthread_mutex_init: unlock does not     *)
(* look at the owner, it frees the mutex.                                  *)
(*                                                                         *)
(* rop[w] is the activation of the ring function that pthread w is in:     *)
(*   fn    the function        q     the queue                             *)
(*   pc    the next access     need  the mutexes it decided to take        *)
(*   in    elements to push    max   how many to pop                       *)
(*   i     the loop counter    reg   the index just loaded                 *)
(*   out   elements popped                                                 *)
(***************************************************************************)
EXTENDS Integers, Sequences

CONSTANTS
  Procs,        \* the pthreads
  Rings,        \* the queues
  Cap,          \* QUEUESIZE
  Elems,        \* what is queued
  Null          \* NULL; also a free mutex

ASSUME CapAssumption == Cap \in Nat \ {0}
ASSUME NullAssumption == Null \notin Elems /\ Null \notin Procs

VARIABLES buf, head, tail, count, hlock, tlock, rop

ringVars == <<buf, head, tail, count, hlock, tlock, rop>>

Fns == {"none", "push_one", "push", "pop_one", "pop_back", "pop"}
Both == {"h", "t"}
Index == 0 .. Cap - 1

NoCall == [fn |-> "none", q |-> Null, pc |-> "done", need |-> {}, in |-> <<>>,
           max |-> 0, i |-> 0, reg |-> 0, out |-> <<>>]

\* ring_create for every queue.
RingInit ==
  /\ buf = [q \in Rings |-> [k \in Index |-> Null]]
  /\ head = [q \in Rings |-> 0]
  /\ tail = [q \in Rings |-> 0]
  /\ count = [q \in Rings |-> 0]
  /\ hlock = [q \in Rings |-> Null]
  /\ tlock = [q \in Rings |-> Null]
  /\ rop = [w \in Procs |-> NoCall]

-----------------------------------------------------------------------------
(* Which mutexes an operation takes and which it releases. *)

\* count is a size_t: below zero it wraps to a huge value.  The unlocked
\* reads narrow it to int, so those see a negative number again.
AtLeast(c, bound) == c < 0 \/ c >= bound

\* Bug form: the last element cannot be popped.
QuickFailEarly(fn, c) ==
  \/ fn = "push_one" /\ AtLeast(c, Cap)
  \/ fn \in {"pop_one", "pop_back"} /\ c <= 1

\* The unlocked test that returns at once (the batch functions have none).
QuickFail(fn, c) ==
  \/ fn = "push_one" /\ AtLeast(c, Cap)
  \/ fn \in {"pop_one", "pop_back"} /\ c <= 0

\* Both mutexes near the ends of the queue, else the one of the end in use.
Need(fn, c) ==
  CASE fn = "push_one" -> IF AtLeast(c, Cap - 1) THEN Both ELSE {"t"}
    [] fn = "pop_one"  -> IF c <= 1 THEN Both ELSE {"h"}
    [] fn = "pop_back" -> IF c <= 1 THEN Both ELSE {"t"}
    [] OTHER           -> Both

\* The flag locked_both when the operation unlocks.  pop_one starts it at 1
\* and never clears it; pop_back sets it to 0 in both branches.
locked_both(fn, need) ==
  CASE fn = "pop_one"  -> TRUE
    [] fn = "pop_back" -> FALSE
    [] OTHER           -> need = Both

\* Bug form: the head mutex is never released.
ReleaseTailOnly(fn, need) == {"t"}

Release(fn, need) ==
  IF locked_both(fn, need) THEN Both ELSE IF fn = "pop_one" THEN {"h"} ELSE {"t"}

\* The test repeated under the locks, on the unsigned count.
StillFails(fn, c) ==
  \/ fn = "push_one" /\ AtLeast(c, Cap)
  \/ fn \in {"pop_one", "pop_back"} /\ c = 0

-----------------------------------------------------------------------------
\* w enters ring function fn.
Call(w, fn, q, in, max) ==
  rop' = [rop EXCEPT ![w] = [NoCall EXCEPT !.fn = fn, !.q = q, !.in = in,
            !.max = max, !.pc = IF fn \in {"push", "pop"} THEN "hlock" ELSE "load",
            !.need = IF fn \in {"push", "pop"} THEN Both ELSE {}]]

\* w has the result of its call.
Returned(w) == rop[w].fn # "none" /\ rop[w].pc = "done"

At(w, pc) == rop[w].fn # "none" /\ rop[w].pc = pc

Goto(w, pc) == rop' = [rop EXCEPT ![w].pc = pc]

\* The part of the queue the operation works on.
Pushes(fn) == fn \in {"push_one", "push"}
AtTail(fn) == fn \in {"push_one", "push", "pop_back"}

\* The unlocked read of count.
Load(w) ==
  LET f == rop[w]
      need == Need(f.fn, count[f.q])
  IN
  /\ At(w, "load")
  /\ rop' = IF QuickFail(f.fn, count[f.q])
            THEN [rop EXCEPT ![w].pc = "done"]
            ELSE [rop EXCEPT ![w].need = need,
                             ![w].pc = IF "h" \in need THEN "hlock" ELSE "tlock"]
  /\ UNCHANGED <<buf, head, tail, count, hlock, tlock>>

\* Under the locks: the single-element functions check again, the batch
\* functions go straight to their loop.
Entered(fn) == IF fn \in {"push", "pop"} THEN "loop" ELSE "check"

LockHead(w) ==
  LET f == rop[w] IN
  /\ At(w, "hlock")
  /\ hlock[f.q] = Null
  /\ hlock' = [hlock EXCEPT ![f.q] = w]
  /\ Goto(w, IF "t" \in f.need THEN "tlock" ELSE Entered(f.fn))
  /\ UNCHANGED <<buf, head, tail, count, tlock>>

LockTail(w) ==
  LET f == rop[w] IN
  /\ At(w, "tlock")
  /\ tlock[f.q] = Null
  /\ tlock' = [tlock EXCEPT ![f.q] = w]
  /\ Goto(w, Entered(f.fn))
  /\ UNCHANGED <<buf, head, tail, count, hlock>>

FirstUnlock(f) == IF "t" \in Release(f.fn, f.need) THEN "tunlock" ELSE "hunlock"

\* Double check.  pop_back moves tail before it reads the slot, the others
\* use the slot first.
Check(w) ==
  LET f == rop[w] IN
  /\ At(w, "check")
  /\ Goto(w, IF StillFails(f.fn, count[f.q]) THEN FirstUnlock(f)
             ELSE IF f.fn = "pop_back" THEN "index" ELSE "slot")
  /\ UNCHANGED <<buf, head, tail, count, hlock, tlock>>

\* Bug form: ring_pop does not look whether the queue is empty.
LoopGoesOn(f) ==
  IF f.fn = "push"
  THEN f.i = 0 \/ (f.i < Len(f.in) /\ tail[f.q] # head[f.q])
  ELSE f.i < f.max

\* The loop conditions: ring_push tests after its first element (do-while),
\* ring_pop before; both take head = tail for "no more".
LoopGoes(f) ==
  IF f.fn = "push"
  THEN f.i = 0 \/ (f.i < Len(f.in) /\ tail[f.q] # head[f.q])
  ELSE f.i < f.max /\ head[f.q] # tail[f.q]

Loop(w) ==
  /\ At(w, "loop")
  /\ Goto(w, IF LoopGoes(rop[w]) THEN "slot" ELSE "add")
  /\ UNCHANGED <<buf, head, tail, count, hlock, tlock>>

\* The access to the array, through the index as it is now.
Slot(w) ==
  LET f   == rop[w]
      pos == IF AtTail(f.fn) THEN tail[f.q] ELSE head[f.q]
  IN
  /\ At(w, "slot")
  /\ IF Pushes(f.fn)
     THEN /\ buf' = [buf EXCEPT ![f.q][pos] = f.in[f.i + 1]]
          /\ Goto(w, "index")
     ELSE /\ rop' = [rop EXCEPT ![w].out = Append(@, buf[f.q][pos]),
                                ![w].pc = IF f.fn = "pop_back" THEN "add" ELSE "index"]
          /\ UNCHANGED buf
  /\ UNCHANGED <<head, tail, count, hlock, tlock>>

\* head or tail is loaded ...
LoadIndex(w) ==
  LET f == rop[w] IN
  /\ At(w, "index")
  /\ rop' = [rop EXCEPT ![w].pc = "move",
               ![w].reg = IF AtTail(f.fn) THEN tail[f.q] ELSE head[f.q]]
  /\ UNCHANGED <<buf, head, tail, count, hlock, tlock>>

\* Bug form: wrap-around one slot early on the consumer's side.
NextIndexShort(fn, k) ==
  CASE fn = "pop_back"           -> (k - 1 + Cap) % Cap
    [] fn \in {"pop_one", "pop"} -> (k + 1) % (Cap - 1)
    [] OTHER                     -> (k + 1) % Cap

\* One place on; pop_back: one place back.
NextIndex(fn, k) ==
  IF fn = "pop_back" THEN (k - 1 + Cap) % Cap ELSE (k + 1) % Cap

\* ... and stored.
MoveIndex(w) ==
  LET f    == rop[w]
      next == NextIndex(f.fn, f.reg)
  IN
  /\ At(w, "move")
  /\ IF AtTail(f.fn)
     THEN tail' = [tail EXCEPT ![f.q] = next] /\ UNCHANGED head
     ELSE head' = [head EXCEPT ![f.q] = next] /\ UNCHANGED tail
  /\ rop' = [rop EXCEPT ![w].i = @ + 1,
               ![w].pc = CASE f.fn \in {"push", "pop"} -> "loop"
                           [] f.fn = "pop_back"        -> "slot"
                           [] OTHER                    -> "add"]
  /\ UNCHANGED <<buf, count, hlock, tlock>>

\* Bug form: a pop does not count.
NewCountPushOnly(f) == IF Pushes(f.fn) THEN count[f.q] + f.i ELSE count[f.q]

NewCount(f) == IF Pushes(f.fn) THEN count[f.q] + f.i ELSE count[f.q] - f.i

\* The atomic update of count.
Add(w) ==
  LET f == rop[w] IN
  /\ At(w, "add")
  /\ count' = [count EXCEPT ![f.q] = NewCount(f)]
  /\ Goto(w, FirstUnlock(f))
  /\ UNCHANGED <<buf, head, tail, hlock, tlock>>

UnlockTail(w) ==
  LET f == rop[w] IN
  /\ At(w, "tunlock")
  /\ tlock' = [tlock EXCEPT ![f.q] = Null]
  /\ Goto(w, IF "h" \in Release(f.fn, f.need) THEN "hunlock" ELSE "done")
  /\ UNCHANGED <<buf, head, tail, count, hlock>>

UnlockHead(w) ==
  LET f == rop[w] IN
  /\ At(w, "hunlock")
  /\ hlock' = [hlock EXCEPT ![f.q] = Null]
  /\ Goto(w, "done")
  /\ UNCHANGED <<buf, head, tail, count, tlock>>

\* One step of the ring function w is in.
RingStep(w) ==
  \/ Load(w) \/ LockHead(w) \/ LockTail(w) \/ Check(w) \/ Loop(w)
  \/ Slot(w) \/ LoadIndex(w) \/ MoveIndex(w) \/ Add(w)
  \/ UnlockTail(w) \/ UnlockHead(w)

\* The elements from head, as many as count says.
Queued(q) == [k \in 1 .. count[q] |-> buf[q][(head[q] + k - 1) % Cap]]

=============================================================================
