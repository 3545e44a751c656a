---------------------------- MODULE RingClients ----------------------------
(***************************************************************************)
(* One RingQueue under clients that call it in any order their role        *)
(* allows: one that fills the queue and others that drain it, by single    *)
(* elements or in batches.  Thieves are part of module MCSched.            *)
(***************************************************************************)
EXTENDS RingQueue

CONSTANTS
  Ring,         \* the queue
  Role,         \* the functions each client calls
  PerProc,      \* bound: elements one client pushes
  MaxBatch      \* bound: elements one ring_pop asks for

VARIABLES
  sent,         \* how many elements of each client the queue accepted
  got           \* what each client popped, in order

vars == <<ringVars, sent, got>>

\* A client's elements are numbered in the order it pushes them.
Items == Procs \X (1 .. PerProc)

ASSUME ClientAssumption == /\ Elems = Items
                           /\ Rings = {Ring}
                           /\ Role \in [Procs -> SUBSET Fns]
                           /\ PerProc \in Nat /\ MaxBatch \in Nat

Init ==
  /\ RingInit
  /\ sent = [w \in Procs |-> 0]
  /\ got = [w \in Procs |-> <<>>]

Begin(w) ==
  /\ rop[w].fn = "none"
  /\ \E fn \in Role[w] :
       \/ /\ fn = "push_one"
          /\ sent[w] < PerProc
          /\ Call(w, fn, Ring, <<<<w, sent[w] + 1>>>>, 0)
       \/ /\ fn = "pop_one"
          /\ Call(w, fn, Ring, <<>>, 1)
       \/ /\ fn = "pop"
          /\ \E max \in 1 .. MaxBatch : Call(w, fn, Ring, <<>>, max)
  /\ UNCHANGED <<buf, head, tail, count, hlock, tlock, sent, got>>

\* The caller gets the result: pushed or not, or the popped elements.
End(w) ==
  LET f == rop[w] IN
  /\ Returned(w)
  /\ sent' = [sent EXCEPT ![w] = IF Pushes(f.fn) THEN @ + f.i ELSE @]
  /\ got' = [got EXCEPT ![w] = @ \o f.out]
  /\ rop' = [rop EXCEPT ![w] = NoCall]
  /\ UNCHANGED <<buf, head, tail, count, hlock, tlock>>

\* A step inside the function.
Inside(w) == RingStep(w) /\ UNCHANGED <<sent, got>>

Next == \E w \in Procs : Begin(w) \/ Inside(w) \/ End(w)

Spec == Init /\ [][Next]_vars

\* Every pthread keeps running, and a mutex that is free again and again is
\* eventually obtained.
Fairness ==
  \A w \in Procs : /\ WF_vars(Inside(w)) /\ WF_vars(End(w))
                   /\ SF_vars(LockHead(w) /\ UNCHANGED <<sent, got>>)
                   /\ SF_vars(LockTail(w) /\ UNCHANGED <<sent, got>>)

FairSpec == Spec /\ Fairness

-----------------------------------------------------------------------------
\* The elements in the hands of the callers: returned, or about to be.
Popped(w) == got[w] \o rop[w].out

\* No element is handed to two callers, twice to one, or read from a slot
\* nobody filled.
PoppedOnce ==
  \A v, w \in Procs : \A i \in DOMAIN Popped(v), j \in DOMAIN Popped(w) :
    /\ Popped(v)[i] # Null
    /\ Popped(v)[i] = Popped(w)[j] => v = w /\ i = j

\* Element x has left the queue; it is at place n of it.
Left(x) == \E v \in Procs : \E j \in DOMAIN got[v] : got[v][j] = x
IsQueued(x) == \E n \in DOMAIN Queued(Ring) : Queued(Ring)[n] = x

\* At every moment each element is in the hands of one caller at most (the
\* promise of the count-dependent locking), and between operations the queue
\* holds exactly the elements that were pushed and not popped.  Of every
\* producer's elements the oldest have left and the rest are queued in the order
\* it pushed them: nothing is lost, doubled, reordered or overtaken, at any fill
\* level.
HoldsTheRest ==
  /\ PoppedOnce
  /\ (\A w \in Procs : rop[w].fn = "none") =>
    /\ count[Ring] \in 0 .. Cap
    /\ \A n \in DOMAIN Queued(Ring) :
         Queued(Ring)[n] \in Items /\ Queued(Ring)[n][2] <= sent[Queued(Ring)[n][1]]
    /\ \A w \in Procs : \A k \in 1 .. sent[w] : Left(<<w, k>>) <=> ~IsQueued(<<w, k>>)
    /\ \A m, n \in DOMAIN Queued(Ring) :
         m < n /\ Queued(Ring)[m][1] = Queued(Ring)[n][1] => Queued(Ring)[m][2] < Queued(Ring)[n][2]
    /\ \A w \in Procs : \A j, k \in 1 .. sent[w] :
         Left(<<w, j>>) /\ IsQueued(<<w, k>>) => j < k

\* Every ring function returns: no lock is left held, nobody waits for ever.
CallsReturn == \A w \in Procs : (rop[w].fn # "none") ~> (rop[w].fn = "none")

=============================================================================
