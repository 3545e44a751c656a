-------------------------------- MODULE MMap --------------------------------
(***************************************************************************)
(* The address-space tracker of lps-core/mmap.c as operators on values.    *)
(*                                                                         *)
(* An address space (struct MMAddrSpace) is                                *)
(*   nodes   the list of mappings, in list order: base, len, info          *)
(*   cursor  the position in nodes of the node mm->cursor points to,       *)
(*           NoNode for NULL, Dangling for a pointer to a freed node.      *)
(* Pages are counted from mm->base.  The list's nodes have no identity     *)
(* between operations; inside one, a node is tagged with an id so that the *)
(* cursor follows the node and not the position.                           *)
(* malloc does not fail here.                                              *)
(***************************************************************************)
EXTENDS Integers, SequencesExt

CONSTANT NPages         \* mm->len

ASSUME NPagesAssumption == NPages \in Nat \ {0}

NoNode == 0
Dangling == -1

End(n) == n.base + n.len
Span(base, len) == base .. base + len - 1

mm_init == [nodes |-> <<>>, cursor |-> NoNode]

mmvalid(start, len) == start >= 0 /\ start + len <= NPages

contained(key1, size1, key2, size2) ==
  key1 >= key2 /\ key1 + size1 <= key2 + size2

-----------------------------------------------------------------------------
(* Identity of nodes within an operation. *)

Tagged(nodes) ==
  [k \in DOMAIN nodes |->
     [base |-> nodes[k].base, len |-> nodes[k].len, info |-> nodes[k].info, id |-> k]]

Settled(nodes, cursor) ==
  [nodes  |-> [k \in DOMAIN nodes |->
                 [base |-> nodes[k].base, len |-> nodes[k].len, info |-> nodes[k].info]],
   cursor |-> IF cursor = NoNode THEN NoNode
              ELSE IF \E k \in DOMAIN nodes : nodes[k].id = cursor
              THEN CHOOSE k \in DOMAIN nodes : nodes[k].id = cursor
              ELSE Dangling]

-----------------------------------------------------------------------------
(* mm_unmap_cb *)

\* Where the walk over the list starts: back from the cursor to a node that
\* begins at or before addr, the head of the list if there is none.
UnmapStart(mm, addr) ==
  LET before == {k \in 1 .. mm.cursor : mm.nodes[k].base <= addr}
  IN  IF before = {} THEN 1 ELSE Max(before)

\* Bug form: an empty rest stays in the list.
WithRestAlways(out, rest) == Append(out, rest)

\* The list with what is left of a node on one side: an empty rest is removed.
WithRest(out, rest) == IF rest.len = 0 THEN out ELSE Append(out, rest)

\* Bug form: a removed node does not move the cursor.
MovedNever(now, orig, new) == now

\* The cursor moves to new while it still has the value from before the loop.
Moved(now, orig, new) == IF now = orig THEN new ELSE now

\* Bug form: a node that overlaps the range goes as a whole.
UnmapVisitWhole(acc, n, addr, length, orig, new) ==
  LET prev == IF acc.out = <<>> THEN NoNode ELSE Last(acc.out).id
  IN  IF n.base < addr + length /\ End(n) > addr
      THEN [acc EXCEPT !.gone = @ \cup Span(n.base, n.len),
                       !.cursor = Moved(@, orig, prev)]
      ELSE [acc EXCEPT !.out = Append(@, n)]

\* The loop body for node n.  acc.out is the list up to n, acc.gone the pages
\* ufn was called for; orig is the cursor before the loop; new is the node
\* malloc'ed up front.
UnmapVisit(acc, n, addr, length, orig, new) ==
  LET prev == IF acc.out = <<>> THEN NoNode ELSE Last(acc.out).id
      left == [n EXCEPT !.len = addr - n.base]
      right == [n EXCEPT !.base = addr + length, !.len = End(n) - (addr + length)]
      cut == [acc EXCEPT !.gone = @ \cup (Span(n.base, n.len) \cap Span(addr, length))]
  IN
  IF acc.stop
  THEN [acc EXCEPT !.out = Append(@, n)]
  ELSE IF contained(n.base, n.len, addr, length)
  THEN [cut EXCEPT !.cursor = Moved(acc.cursor, orig, prev)]
  ELSE IF contained(addr, length, n.base, n.len)
  THEN [cut EXCEPT !.out = WithRest(WithRest(@, left), [right EXCEPT !.id = new]),
                   !.cursor = Moved(acc.cursor, orig, prev), !.stop = TRUE]
  ELSE IF n.base < addr /\ End(n) > addr
  THEN [cut EXCEPT !.out = Append(@, left), !.cursor = Moved(acc.cursor, orig, n.id)]
  ELSE IF n.base < addr + length /\ End(n) > addr
  THEN [cut EXCEPT !.out = Append(@, right), !.stop = TRUE]
  ELSE [acc EXCEPT !.out = Append(@, n), !.stop = n.base >= addr + length]

\* The loop over the tagged list: its state when node k is done.
UnmapSteps(all, from, addr, length, orig) ==
  LET after[k \in from - 1 .. Len(all)] ==
        IF k = from - 1
        THEN [out |-> SubSeq(all, 1, k), cursor |-> orig, gone |-> {}, stop |-> FALSE]
        ELSE UnmapVisit(after[k - 1], all[k], addr, length, orig, Len(all) + 1)
  IN  after

\* What it ends with: the new list, the cursor's id, the pages.
UnmapLoop(mm, addr, length) ==
  UnmapSteps(Tagged(mm.nodes), UnmapStart(mm, addr), addr, length, mm.cursor)[Len(mm.nodes)]

Unmapped(r) == [ok |-> TRUE, mm |-> Settled(r.out, r.cursor), gone |-> r.gone]

\* mm_unmap_cb on a range of whole pages: whether it is accepted, the address
\* space after it, and the pages it called ufn for.
mm_unmap_cb(mm, addr, length) ==
  IF length = 0 \/ ~mmvalid(addr, length)
  THEN [ok |-> FALSE, mm |-> mm, gone |-> {}]
  ELSE Unmapped(UnmapLoop(mm, addr, length))

-----------------------------------------------------------------------------
(* mm_mapat_cb *)

\* The node the search for a place starts at: the cursor if it is not behind
\* addr, else the head.
MapAtStart(mm, addr) ==
  IF mm.cursor \in DOMAIN mm.nodes /\ mm.nodes[mm.cursor].base <= addr
  THEN mm.cursor ELSE 1

\* The list positions at which a node for [addr, addr+length) can go in; the
\* search takes the first.  None of them: assert(node) fails.
Places(mm, addr, length) ==
  LET nodes == mm.nodes
      from == MapAtStart(mm, addr)
      next(k) == IF k < Len(nodes) THEN nodes[k + 1].base ELSE NPages
  IN  IF nodes = <<>> \/ addr + length <= nodes[from].base
      THEN {from}
      ELSE {k + 1 : k \in {j \in from .. Len(nodes) :
                             addr >= End(nodes[j]) /\ addr + length <= next(j)}}

\* The list with node n at position k; the cursor stays on its node.
Inserted(mm, k, n) ==
  [nodes  |-> InsertAt(mm.nodes, k, n),
   cursor |-> IF mm.cursor >= k THEN mm.cursor + 1 ELSE mm.cursor]

\* The new node goes to the first of the places, after unmap u.
MapAtInsert(u, places, n) ==
  IF ~u.ok \/ places = {}
  THEN [ok |-> FALSE, assert |-> FALSE, mm |-> u.mm, gone |-> u.gone]
  ELSE [ok |-> TRUE, assert |-> TRUE, mm |-> Inserted(u.mm, Min(places), n),
        gone |-> u.gone]

\* What is left to do after unmap u of the same range.
MapAtAfter(u, n) == MapAtInsert(u, Places(u.mm, n.base, n.len), n)

\* The overlapped parts of old mappings are removed, then the new one goes in.
\* addr is a page number: callers pass aligned addresses.
mm_mapat_cb(mm, addr, length, info) ==
  IF ~mmvalid(addr, length)
  THEN [ok |-> FALSE, assert |-> TRUE, mm |-> mm, gone |-> {}]
  ELSE MapAtAfter(mm_unmap_cb(mm, addr, length),
                  [base |-> addr, len |-> length, info |-> info])

-----------------------------------------------------------------------------
(* mm_mapany *)

\* First page behind the node before position k.
GapStart(mm, k) == IF k = 1 THEN 0 ELSE End(mm.nodes[k - 1])

\* Positions behind node `from` (NoNode: the list is empty) with room for len.
Gaps(mm, len, from) ==
  LET last == Len(mm.nodes) + 1
      gap(k) == (IF k = last THEN NPages ELSE mm.nodes[k].base) - GapStart(mm, k)
  IN  {k \in from + 1 .. last :
         /\ \A j \in from + 1 .. k : GapStart(mm, j) < NPages
         /\ gap(k) >= len}

\* The new node goes to the first gap; the cursor becomes the node before it.
FirstFit(mm, len, info, fit) ==
  IF fit = {}
  THEN [ok |-> FALSE, mm |-> mm, addr |-> 0]
  ELSE LET k == Min(fit)
           start == GapStart(mm, k)
       IN  [ok |-> TRUE, addr |-> start,
            mm |-> [nodes  |-> InsertAt(mm.nodes, k,
                                 [base |-> start, len |-> len, info |-> info]),
                    cursor |-> k - 1]]

\* A length of no pages: every gap is wide enough, the one of no pages before
\* the node the search begins at is taken, for a node that is empty.
EmptyFit(mm, info, from) ==
  LET k     == IF from = NoNode THEN 1 ELSE from
      start == IF from = NoNode THEN 0 ELSE mm.nodes[from].base
  IN  [ok |-> TRUE, addr |-> start,
       mm |-> [nodes  |-> InsertAt(mm.nodes, k, [base |-> start, len |-> 0, info |-> info]),
               cursor |-> k - 1]]

mm_mapany_cursor(mm, len, info, from) ==
  IF len = 0 THEN EmptyFit(mm, info, from)
  ELSE FirstFit(mm, len, info, Gaps(mm, len, from))

\* Bug form: no second search from the head.
mm_mapany_once(mm, len, info) ==
  mm_mapany_cursor(mm, len, info,
    IF mm.cursor # NoNode THEN mm.cursor ELSE IF mm.nodes = <<>> THEN NoNode ELSE 1)

\* From the cursor, then from the head of the list.
mm_mapany(mm, len, info) ==
  LET head == mm_mapany_cursor(mm, len, info, IF mm.nodes = <<>> THEN NoNode ELSE 1)
      near == mm_mapany_cursor(mm, len, info, mm.cursor)
  IN  IF mm.cursor # NoNode /\ near.ok THEN near ELSE head

=============================================================================
