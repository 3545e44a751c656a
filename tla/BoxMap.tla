------------------------------- MODULE BoxMap -------------------------------
(***************************************************************************)
(* The engine's address space: lps_new, lps_free (lps-core/core.c), the    *)
(* reservation of regions and the allocation of boxes (boxmap.c), and      *)
(* lps_box_new (box.c), lps_proc_new (lps-linux/proc.c).  Addresses and    *)
(* sizes are counted in host pages.                                        *)
(*                                                                         *)
(*   stage    "none" no engine, "reserve" inside boxmap_reserve, "up",     *)
(*            "crashed" by lps_proc_new                                    *)
(*   want     nsandboxes of the engine                                     *)
(*   rsv      the locals of boxmap_reserve                                 *)
(*   regions  map->regions: base, size, active, and the set bits of bitvec *)
(*   boxes    the bases lps_box_new returned                               *)
(*   ours     the pages the host has given to this program's reservations  *)
(*   stray    history: pages that a MAP_FIXED or a munmap touched and that *)
(*            were not ours                                                *)
(*                                                                         *)
(* Boxes are never given back: lps_box_free is declared only, and mm_init  *)
(* always succeeds, so boxmap_rmspace has no caller that runs.  malloc     *)
(* does not fail.                                                          *)
(***************************************************************************)
EXTENDS Integers, Sequences, FiniteSetsExt, SysBuf

CONSTANTS
  Chunk,            \* opts.boxsize, also the chunk size
  ADDR_REGION_MAX,
  TOTAL, SIZE, MIN, \* tb(256), tb(255), gb(32): reserving as much as possible
  Space,            \* bound: the host's address space is 0 .. Space - 1
  Foreign,          \* pages of it that belong to something else
  Wants,            \* bound: the nsandboxes asked for
  MaxEngines        \* bound: how often lps_new is called

\* A region of MIN pages has a chunk, and what is left of TOTAL in the last
\* round is not below MIN.
ASSUME SizesAssumption ==
  /\ Chunk \in Nat \ {0} /\ ADDR_REGION_MAX \in Nat \ {0}
  /\ MIN \in Nat /\ Chunk <= MIN
  /\ SIZE \in Nat /\ TOTAL \in Nat /\ SIZE + MIN <= TOTAL + 1
ASSUME HostAssumption ==
  /\ Space \in Nat /\ Space < WordMod /\ Foreign \subseteq 0 .. Space - 1
  /\ Wants \subseteq Nat /\ MaxEngines \in Nat

VARIABLES stage, want, rsv, regions, boxes, ours, stray, engines

vars == <<stage, want, rsv, regions, boxes, ours, stray, engines>>

Span(base, size) == base .. base + size - 1
Pages(r) == Span(r.base, r.size)

truncp(addr, align) == addr - (addr % align)

ceilp(addr, align) == IF addr % align = 0 THEN addr ELSE addr + (align - (addr % align))

NoRsv == [total |-> 0, size |-> 0, min |-> 0, got |-> 0, goal |-> 0, i |-> 0]

Init ==
  /\ stage = "none"
  /\ want = 0
  /\ rsv = NoRsv
  /\ regions = <<>>
  /\ boxes = {}
  /\ ours = {}
  /\ stray = {}
  /\ engines = 0

-----------------------------------------------------------------------------
(* The host's mmap without MAP_FIXED: a free range other than page 0, or   *)
(* failure.                                                                *)

FreeAt(base, size) == Span(base, size) \cap (ours \cup Foreign) = {}

\* The sizes reserve() can end with: size halved until it is below threshold.
Halvings(size, threshold) ==
  {s \in 1 .. size : s >= threshold /\ \E k \in 0 .. size : s = size \div 2^k}

-----------------------------------------------------------------------------
(* addregion *)

\* Bug form: the end of the region is rounded up.
AlignedUp(base, size) ==
  LET alignbase == ceilp(base, Chunk)
  IN  [base |-> alignbase, size |-> ceilp(base + size, Chunk) - alignbase]

\* The whole chunks inside what the host gave.
Aligned(base, size) ==
  LET alignbase == ceilp(base, Chunk)
  IN  [base |-> alignbase, size |-> truncp(base + size, Chunk) - alignbase]

\* extalloc_new: a region with no bit set.
NewRegion(a) == [base |-> a.base, size |-> a.size, active |-> 0, bits |-> {}]

AllPages == UNION {Pages(regions[k]) : k \in DOMAIN regions}

\* boxmap_delete: every region is unmapped.  What reserve() mapped and no
\* region records stays mapped; kept are such pages of the last reservation.
boxmap_delete(kept) ==
  /\ stage' = "none"
  /\ regions' = <<>>
  /\ ours' = (ours \ AllPages) \cup kept
  /\ stray' = stray \cup (AllPages \ ours)
  /\ rsv' = NoRsv

-----------------------------------------------------------------------------
(* lps_new *)

lps_new(n) ==
  /\ stage = "none"
  /\ engines < MaxEngines
  /\ engines' = engines + 1
  /\ want' = n
  /\ rsv' = IF n = 0
            THEN [NoRsv EXCEPT !.total = TOTAL, !.size = SIZE, !.min = MIN, !.goal = SIZE]
            ELSE [NoRsv EXCEPT !.total = n * Chunk, !.size = n * Chunk,
                               !.min = n * Chunk, !.goal = n * Chunk]
  /\ stage' = "reserve"
  /\ UNCHANGED <<regions, boxes, ours, stray>>

\* reserve() returns 0: the loop ends before it has got enough.
reserve_fails ==
  /\ stage = "reserve"
  /\ boxmap_delete({})
  /\ UNCHANGED <<want, boxes, engines>>

\* Bug form: any reservation is enough.
EnoughAny(r) == r.got > 0

\* The loop stops when totalgot has reached the size it began with.
Enough(r) == r.got >= r.goal

\* Bug form: one round too many.
LastRoundLate(r) == r.i > ADDR_REGION_MAX

LastRound(r) == r.i = ADDR_REGION_MAX

\* One iteration: the host gives got pages at base, addregion maps the aligned
\* part again (up: that mmap succeeds; it never does for length 0).  When it
\* fails, or the rounds are over, lps_new deletes the map.
boxmap_reserve(got, base, up) ==
  LET a == Aligned(base, got)
      next == [rsv EXCEPT !.total = @ - got, !.size = rsv.total - got,
                          !.got = @ + got, !.i = @ + 1]
  IN
  /\ stage = "reserve"
  /\ FreeAt(base, got)
  /\ UNCHANGED <<want, boxes, engines>>
  /\ \/ /\ ~up \/ a.size = 0 \/ Len(regions) >= ADDR_REGION_MAX
        /\ boxmap_delete(Span(base, got))
     \/ /\ up /\ a.size # 0 /\ Len(regions) < ADDR_REGION_MAX
        /\ ~Enough(next) /\ LastRound(next)
        /\ boxmap_delete(Span(base, got) \ Pages(a))
     \/ /\ up /\ a.size # 0 /\ Len(regions) < ADDR_REGION_MAX
        /\ Enough(next) \/ ~LastRound(next)
        /\ regions' = Append(regions, NewRegion(a))
        /\ ours' = ours \cup Span(base, got) \cup Pages(a)
        /\ stray' = stray \cup (Pages(a) \ Span(base, got))
        /\ stage' = IF Enough(next) THEN "up" ELSE "reserve"
        /\ rsv' = IF Enough(next) THEN NoRsv ELSE next

lps_free ==
  /\ stage = "up"
  /\ boxmap_delete({})
  /\ boxes' = {}
  /\ UNCHANGED <<want, engines>>

-----------------------------------------------------------------------------
(* Boxes *)

Chunks(r) == r.size \div Chunk

extalloc_is_full(r) == \A i \in 0 .. Chunks(r) - 1 : i \in r.bits

\* Bug form: the last chunk is never looked at.
isfull_early == \A k \in DOMAIN regions : \A i \in 0 .. Chunks(regions[k]) - 2 : i \in regions[k].bits

isfull == \A k \in DOMAIN regions : extalloc_is_full(regions[k])

\* Bug form: the first region, whether it has room or not.
slot_region_first == 1

\* The first region that is not full.
slot_region == Min({k \in DOMAIN regions : ~extalloc_is_full(regions[k])})

\* bitvec_find_zeroes for one chunk.  It is given the number of chunks as a
\* number of bytes, so it looks at eight times as many bits as there are
\* chunks; those behind the last chunk read as zero here.
bitvec_find_zeroes(r) == Min({i \in 0 .. 8 * Chunks(r) - 1 : i \notin r.bits})

\* extalloc_alloc of one chunk, at idx.
Allocated(r, idx) == [r EXCEPT !.active = @ + 1, !.bits = @ \cup {idx}]

\* A box, or none (NULL) when every region is full.
lps_box_new ==
  /\ stage = "up"
  /\ ~isfull
  /\ LET k == slot_region
         idx == bitvec_find_zeroes(regions[k])
     IN  /\ regions' = [regions EXCEPT ![k] = Allocated(@, idx)]
         /\ boxes' = boxes \cup {regions[k].base + idx * Chunk}
  /\ UNCHANGED <<stage, want, rsv, ours, stray, engines>>

\* The result of lps_box_new is used without a look at it: with every region
\* full it is NULL and lps_box_info reads through it.
lps_proc_new ==
  \/ lps_box_new
  \/ /\ stage = "up" /\ isfull
     /\ stage' = "crashed"
     /\ UNCHANGED <<want, rsv, regions, boxes, ours, stray, engines>>

Next ==
  \/ \E n \in Wants : lps_new(n)
  \/ reserve_fails
  \/ \E got \in Halvings(rsv.size, rsv.min), base \in 1 .. Space - 1, up \in BOOLEAN :
       base + got <= Space /\ boxmap_reserve(got, base, up)
  \/ lps_proc_new
  \/ lps_free

Spec == Init /\ [][Next]_vars

-----------------------------------------------------------------------------
(* Properties *)

TypeOK ==
  /\ stage \in {"none", "reserve", "up", "crashed"}
  /\ want \in Nat
  /\ rsv \in [total : Nat, size : Nat, min : Nat, got : Nat, goal : Nat,
              i : 0 .. ADDR_REGION_MAX - 1]
  /\ regions \in Seq([base : Nat, size : Nat \ {0}, active : Nat, bits : SUBSET Nat])
  /\ boxes \subseteq Nat
  /\ ours \subseteq 0 .. Space - 1
  /\ stray \subseteq Nat
  /\ engines \in 0 .. MaxEngines

\* Every box is a whole chunk of reserved memory, no two boxes have a page in
\* common, and the boxes of each region are those its counter and its bit
\* vector tell of.
BoxesApart ==
  /\ \A b \in boxes :
       /\ b % Chunk = 0
       /\ \E k \in DOMAIN regions : Span(b, Chunk) \subseteq Pages(regions[k])
  /\ \A k \in DOMAIN regions :
       /\ regions[k].active = Cardinality(boxes \cap Pages(regions[k]))
       /\ regions[k].bits = {(b - regions[k].base) \div Chunk : b \in boxes \cap Pages(regions[k])}
       /\ \A j \in DOMAIN regions \ {k} : Pages(regions[j]) \cap Pages(regions[k]) = {}

\* The second mmap, which replaces what is at its address, and the munmaps of
\* boxmap_delete touch only pages the host gave to this engine.
OnlyOwnPages == stray = {} /\ AllPages \subseteq ours

\* The chunks of all regions.
Capacity == Cardinality(AllPages) \div Chunk

\* What lps_core.h says of lps_new: an engine made for n sandboxes has room for
\* n of them.  The code does not keep it (run box_room): the reservation is
\* exactly n chunks and the host aligns it to a page only.
RoomPromised == stage \in {"up", "crashed"} /\ want # 0 => Capacity >= want

\* How far lps_new falls short of that: cutting the one region to whole chunks
\* costs an engine made for n sandboxes one of them and never more, and an
\* engine that takes as much as it can less than two chunks in each region.
AlignmentCostsOneChunk ==
  stage \in {"up", "crashed"} =>
    /\ want # 0 => Capacity >= want - 1
    /\ want = 0 => Cardinality(AllPages) + 2 * (Chunk - 1) * Len(regions) >= SIZE

\* lps_box_new refuses, and lps_proc_new crashes, only when every chunk of
\* every region is a box: the same room is never counted as used twice.
FullOnlyWhenUsed ==
  /\ stage = "up" => (isfull <=> Cardinality(boxes) = Capacity)
  /\ stage = "crashed" => Cardinality(boxes) = Capacity

\* The buffers that bufcheck accepts in a box, over all sizes a size_t can have:
\* those that lie inside the box, and two kinds that have no bytes there or too
\* many.  An empty buffer anywhere in the box but at its start (its "last byte"
\* is the one in front of it), and one longer than all of the address space
\* beside the box, whose last byte is in the box again after it went round.  So
\* whatever a caller copies from an accepted buffer is the sandbox's own as long
\* as the size is at most the address space less a box.
BuffersAccepted ==
  \A base \in boxes : \A p \in Word, size \in Word :
    LET b == [base |-> base, size |-> Chunk]
    IN  bufcheck(b, p, size, 1) <=>
          \/ size # 0 /\ Span(p, size) \subseteq Span(base, Chunk)
          \/ size = 0 /\ p \in Span(base + 1, Chunk - 1)
          \/ p \in Span(base, Chunk) /\ (p + size - 1) - WordMod \in Span(base, Chunk)

=============================================================================
