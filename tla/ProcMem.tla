------------------------------ MODULE ProcMem ------------------------------
(***************************************************************************)
(* The memory of one sandbox: lps_box_mapat, _mapany, _munmap and _mprotect *)
(* (lps-core/box.c), what loading a program maps (lps-linux/proc.c,        *)
(* elfload.c, thread.c), and the memory system calls (lps-linux/sys/       *)
(* sys_mem.c).  Addresses are bytes from box->base, PageSize to a page.    *)
(*                                                                         *)
(*   mm       box->mm, the tracker (module MMap)                           *)
(*   host     what the host kernel has at each page of the box: the mapping *)
(*            last put there, or Reserved, the PROT_NONE reservation       *)
(*   brksize  LPSProc.brksize; brkbase is the end of the image             *)
(*   nseg     how many segments elf_load has mapped (seginfo.len)          *)
(*   stage    how far the process is; "aborted" is a failed assertion in   *)
(*            box.c, elfload.c, sys_brk or stack_init, "mm_aborted" one    *)
(*            inside mmap.c, "crashed" a write to pages that are not       *)
(*            mapped, "spoiled" a tracker with an empty node in its list,  *)
(*            which the sandbox goes on with and the model does not        *)
(*   stack    what stack_init wrote, until the program runs and the stack  *)
(*            is its own                                                   *)
(*   zeroed   history: the pages the last step gave fresh contents, kept   *)
(*            for sys_brk only                                             *)
(*                                                                         *)
(* Protections, flags and file offsets are not kept apart: a mapping is    *)
(* known by who asked for it.  Lengths are size_t: the sums with them wrap  *)
(* at WordMod (2^64).                                                      *)
(***************************************************************************)
EXTENDS MMap, StackInit

CONSTANTS
  PageSize,     \* bytes in a page
  WordMod,      \* a size_t and a uintptr_t wrap here
  BoxBase,      \* box->base, a host address
  Segments,     \* the PT_LOAD segments: first page, pages, bss pages at the end
  ELFSEGMAXN,   \* segments a process can record
  BrkPages,     \* opts.brksize
  StackPages,   \* opts.stacksize, at the end of the box
  Args,         \* bound: argc, argv and envp given to lps_thread_new
  Addrs,        \* bound: the addresses system calls pass
  Lengths,      \* bound: the lengths system calls pass
  Breaks        \* bound: the breaks asked for

VARIABLES mm, host, brksize, nseg, stage, stack, zeroed

vars == <<mm, host, brksize, nseg, stage, stack, zeroed>>

Pages == 0 .. NPages - 1
BoxSize == NPages * PageSize
ImagePages == Max({Segments[i].start + Segments[i].len : i \in DOMAIN Segments})
brkbase == ImagePages * PageSize        \* info.lastva
brkmaxsize == BrkPages * PageSize

ASSUME LayoutAssumption ==
  /\ PageSize \in Nat \ {0}
  /\ WordMod \in Nat /\ WordMod % PageSize = 0
  /\ BoxBase \in Nat /\ BoxBase >= PageSize /\ BoxBase + BoxSize < WordMod
  /\ Addrs \subseteq Nat /\ Lengths \subseteq 0 .. WordMod - 1 /\ Breaks \subseteq Nat
  /\ ELFSEGMAXN \in Nat
  /\ Segments \in Seq([start : Nat, len : Nat \ {0}, bss : Nat]) \ {<<>>}
  /\ \A i \in DOMAIN Segments : Segments[i].bss <= Segments[i].len
  /\ BrkPages \in Nat \ {0} /\ StackPages \in Nat \ {0}
  /\ ImagePages + BrkPages + StackPages <= NPages
  /\ Args \subseteq [argc : Nat, argv : Seq(Nat), envp : Seq(Nat)]

Reserved == "reserved"
Infos == {"image", "brk", "stack", "fixed", "any"}
Stages == {"new", "bss", "loaded", "created", "running", "failed", "aborted", "mm_aborted", "crashed",
           "spoiled"}
NoStack == [sp |-> 0, writes |-> <<>>, args |-> <<>>]

\* Bytes to pages; a length in the last page of the address space wraps to none.
ceil(n) == ((n + PageSize - 1) % WordMod) \div PageSize
ceilp(n) == PageSize * ceil(n)
truncp(n) == n - (n % PageSize)

Init ==
  /\ mm = mm_init
  /\ host = [p \in Pages |-> Reserved]
  /\ brksize = 0
  /\ nseg = 0
  /\ stage = "new"
  /\ stack = NoStack
  /\ zeroed = {}

-----------------------------------------------------------------------------
(* lps-core/box.c, as values: the tracker and the host pages of box b       *)
(* after a call, whether it succeeded, the stage a failed assertion leaves, *)
(* and the pages that have new contents.  up: the host's mmap succeeds.     *)

Paint(h, pages, info) == [p \in Pages |-> IF p \in pages THEN info ELSE h[p]]

\* addr >= base && addr + size <= base + box->size, where a sum that wraps is
\* small again.
InBox(addr, size) ==
  addr >= 0 /\ (addr + size <= BoxSize \/ BoxBase + addr + size >= WordMod)

box == [mm |-> mm, host |-> host]

Fail(b, abort) ==
  [mm |-> b.mm, host |-> b.host, ok |-> FALSE, abort |-> abort, fresh |-> {}]

\* Bug form: the node stays when the host's mmap fails.
MapAtHostKeep(b, m, base, len, info, up) ==
  [mm |-> m.mm, ok |-> up, abort |-> "no", fresh |-> Span(base, len),
   host |-> Paint(Paint(b.host, m.gone, Reserved), IF up THEN Span(base, len) ELSE {}, info)]

\* The tracker has answered m: cbunmap has reset what the mapping replaces,
\* then the host maps it; if the host cannot, the tracker forgets it again.
MapAtHost(b, m, base, len, info, up) ==
  LET cleared == Paint(b.host, m.gone, Reserved) IN
  IF ~m.assert THEN Fail(b, "mm_aborted")
  ELSE IF ~m.ok THEN Fail(b, "no")
  ELSE IF up THEN [mm |-> m.mm, host |-> Paint(cleared, Span(base, len), info),
                   ok |-> TRUE, abort |-> "no", fresh |-> m.gone \cup Span(base, len)]
  ELSE [mm |-> mm_unmap_cb(m.mm, base, len).mm, host |-> cleared,
        ok |-> FALSE, abort |-> "no", fresh |-> m.gone]

lps_box_mapat(b, addr, size, info, up) ==
  LET base == addr \div PageSize IN
  IF ~InBox(addr, size) THEN Fail(b, "aborted")
  ELSE MapAtHost(b, mm_mapat_cb(b.mm, base, ceil(size), info), base, ceil(size), info, up)

\* The same for a place the tracker chose, which is free.  The host refuses a
\* mapping of no pages, and the tracker then refuses to forget it.
MapAnyHost(b, m, len, info, up) ==
  IF ~m.ok THEN Fail(b, "no")
  ELSE IF len = 0 THEN [Fail(b, "spoiled") EXCEPT !.mm = m.mm]
  ELSE IF up THEN [mm |-> m.mm, host |-> Paint(b.host, Span(m.addr, len), info),
                   ok |-> TRUE, abort |-> "no", fresh |-> Span(m.addr, len)]
  ELSE [Fail(b, "no") EXCEPT !.mm = mm_unmap_cb(m.mm, m.addr, len).mm]

lps_box_mapany(b, size, info, up) ==
  MapAnyHost(b, mm_mapany(b.mm, ceil(size), info), ceil(size), info, up)

UnmapHost(b, u) ==
  IF ~u.ok THEN Fail(b, "no")
  ELSE [mm |-> u.mm, host |-> Paint(b.host, u.gone, Reserved),
        ok |-> TRUE, abort |-> "no", fresh |-> u.gone]

\* A range of no pages at page a: cbunmap has the host map nothing, which fails
\* its assertion, when the walk comes to a node that a lies in or at the end of.
UnmapNothing(b, a) ==
  Fail(b, IF \E k \in DOMAIN b.mm.nodes : b.mm.nodes[k].base <= a /\ a <= End(b.mm.nodes[k])
          THEN "aborted" ELSE "no")

\* An unaligned address and no bytes are refused, a length is rounded up.
lps_box_munmap(b, addr, size) ==
  IF ~InBox(addr, size) \/ addr % PageSize # 0 \/ size = 0 THEN Fail(b, "no")
  ELSE IF ceil(size) = 0 THEN UnmapNothing(b, addr \div PageSize)
  ELSE UnmapHost(b, mm_unmap_cb(b.mm, addr \div PageSize, ceil(size)))

\* The state after call r, with the stage it leads to when no assertion fails.
After(r, next) ==
  /\ mm' = r.mm
  /\ host' = r.host
  /\ stage' = IF r.abort = "no" THEN next ELSE r.abort

-----------------------------------------------------------------------------
(* Creating the process. *)

\* assert(proc->seginfo.len < ELFSEGMAXN), when a segment is recorded.
Recorded == IF nseg < ELFSEGMAXN THEN "new" ELSE "aborted"

\* The next segment.  refused: its bss is not writable, or the file is shorter
\* than it says; the segment stays mapped but is not recorded.
elf_load_segment ==
  \E up, refused \in BOOLEAN :
    LET s == Segments[nseg + 1]
        r == lps_box_mapat(box, s.start * PageSize, s.len * PageSize, "image", up)
    IN
    /\ stage = "new"
    /\ nseg < Len(Segments)
    /\ After(r, IF ~r.ok \/ refused THEN "failed" ELSE IF s.bss # 0 THEN "bss" ELSE Recorded)
    /\ nseg' = IF stage' = "new" THEN nseg + 1 ELSE nseg
    /\ zeroed' = {} /\ UNCHANGED <<brksize, stack>>

\* Fresh pages go over its bss, and whether that succeeded is not looked at.
elf_load_bss ==
  \E up \in BOOLEAN :
    LET s == Segments[nseg + 1] IN
    /\ stage = "bss"
    /\ After(lps_box_mapat(box, (s.start + s.len - s.bss) * PageSize, s.bss * PageSize,
                           "image", up), Recorded)
    /\ nseg' = IF stage' = "new" THEN nseg + 1 ELSE nseg
    /\ zeroed' = {} /\ UNCHANGED <<brksize, stack>>

\* A header that the checks refuse, or the next segment, before it is mapped.
elf_load_refused ==
  /\ stage = "new"
  /\ nseg < Len(Segments)
  /\ stage' = "failed"
  /\ zeroed' = {} /\ UNCHANGED <<mm, host, brksize, nseg, stack>>

\* proc_load then maps the whole brk region behind the image.
proc_load ==
  \E up \in BOOLEAN :
    LET r == lps_box_mapat(box, brkbase, brkmaxsize, "brk", up) IN
    /\ stage = "new"
    /\ nseg = Len(Segments)
    /\ After(r, IF r.ok THEN "loaded" ELSE "failed")
    /\ brksize' = 0 /\ zeroed' = {} /\ UNCHANGED <<nseg, stack>>

\* lps_thread_new puts the stack at the end of the box and fills it from there;
\* whether the arguments fit is not looked at.  The new thread's stack, and the
\* stage that leaves.
Filled(a, h) ==
  LET s     == stack_init(BoxSize, a)
      pages == UNION {{n \div PageSize : n \in Bytes(w)} : w \in ToSet(s.writes)}
  IN  IF ~StringsTerminated(a) THEN "aborted"
      ELSE IF \E p \in pages : p \notin Pages \/ h[p] = Reserved THEN "crashed"
      ELSE "created"

Created(a) ==
  LET s == stack_init(BoxSize, a) IN [sp |-> s.sp, writes |-> s.writes, args |-> a]

lps_thread_new ==
  \E up \in BOOLEAN, a \in Args :
    LET r == lps_box_mapat(box, BoxSize - StackPages * PageSize, StackPages * PageSize,
                           "stack", up) IN
    /\ stage = "loaded"
    /\ After(r, IF r.ok THEN Filled(a, r.host) ELSE "failed")
    /\ stack' = IF stage' = "created" THEN Created(a) ELSE NoStack
    /\ zeroed' = {} /\ UNCHANGED <<brksize, nseg>>

\* The program starts.
lps_thread_run ==
  /\ stage = "created"
  /\ stage' = "running"
  /\ stack' = NoStack
  /\ zeroed' = {} /\ UNCHANGED <<mm, host, brksize, nseg>>

-----------------------------------------------------------------------------
(* System calls.  addr and length are the sandbox's. *)

Min2(a, b) == IF a < b THEN a ELSE b
Max2(a, b) == IF a > b THEN a ELSE b

ptrcheck(addr) == addr >= 0 /\ addr < BoxSize

\* Bug form: the page of the old break is mapped again.
NextTrunc(old) == IF old = 0 THEN brkbase ELSE truncp(brkbase + old)

\* Where sys_brk starts the new mapping.
brk_next(old) == IF old = 0 THEN brkbase ELSE ceilp(brkbase + old)

\* Bug form: the whole heap, not what is new of it.
LenWhole(old, new) == new

\* How much it asks for.
brk_len(old, new) == new - old

\* The break moves up to newsize if the mapping succeeded.
BrkGrow(r, newsize) ==
  /\ After(r, "running")
  /\ zeroed' = r.fresh
  /\ brksize' = IF r.ok THEN newsize ELSE brksize

\* addr is in the box (ptrcheck); 0 asks for the present break.
sys_brk(addr, up) ==
  LET brkp == IF addr = 0 THEN brkbase + brksize ELSE addr
      newsize == Min2(Max2(brkp, brkbase), brkbase + brkmaxsize) - brkbase
  IN
  /\ stage = "running"
  /\ ptrcheck(addr)
  /\ newsize # brksize
  /\ UNCHANGED <<nseg, stack>>
  /\ \/ /\ newsize >= brkmaxsize        \* assert(newsize < brkmaxsize)
        /\ stage' = "aborted"
        /\ zeroed' = {} /\ UNCHANGED <<mm, host, brksize>>
     \/ /\ newsize < brkmaxsize
        /\ newsize > brksize
        /\ BrkGrow(lps_box_mapat(box, brk_next(brksize), brk_len(brksize, newsize), "brk", up),
                   newsize)
     \/ /\ newsize < brksize            \* nothing is unmapped
        /\ brksize' = newsize
        /\ zeroed' = {} /\ UNCHANGED <<mm, host, stage>>

\* MAP_FIXED: the address is rounded down, the length up.
sys_mmap_fixed(addr, length, up) ==
  /\ stage = "running"
  /\ length # 0
  /\ ptrcheck(truncp(addr))
  /\ After(lps_box_mapat(box, truncp(addr), ceilp(length), "fixed", up), "running")
  /\ zeroed' = {} /\ UNCHANGED <<brksize, nseg, stack>>

sys_mmap_any(length, up) ==
  /\ stage = "running"
  /\ length # 0
  /\ After(lps_box_mapany(box, ceilp(length), "any", up), "running")
  /\ zeroed' = {} /\ UNCHANGED <<brksize, nseg, stack>>

sys_munmap(addr, length) ==
  /\ stage = "running"
  /\ ptrcheck(addr)
  /\ After(lps_box_munmap(box, addr, length), "running")
  /\ zeroed' = {} /\ UNCHANGED <<brksize, nseg, stack>>

\* The host changes the protections, the tracker is not told; only the
\* assertion on the range shows here.
sys_mprotect(addr, length) ==
  /\ stage = "running"
  /\ ptrcheck(addr)
  /\ stage' = IF InBox(addr, length) THEN "running" ELSE "aborted"
  /\ zeroed' = {} /\ UNCHANGED <<mm, host, brksize, nseg, stack>>

Next ==
  \/ elf_load_segment \/ elf_load_bss \/ elf_load_refused \/ proc_load
  \/ lps_thread_new \/ lps_thread_run
  \/ \E addr \in Breaks, up \in BOOLEAN : sys_brk(addr, up)
  \/ \E addr \in Addrs, length \in Lengths, up \in BOOLEAN : sys_mmap_fixed(addr, length, up)
  \/ \E length \in Lengths, up \in BOOLEAN : sys_mmap_any(length, up)
  \/ \E addr \in Addrs, length \in Lengths : sys_munmap(addr, length)
  \/ \E addr \in Addrs, length \in Lengths : sys_mprotect(addr, length)

Spec == Init /\ [][Next]_vars

-----------------------------------------------------------------------------
(* Properties *)

Nodes == [base : Pages, len : 0 .. NPages, info : Infos]

TypeOK ==
  /\ mm.nodes \in Seq(Nodes)
  /\ mm.cursor \in Int
  /\ host \in [Pages -> Infos \cup {Reserved}]
  /\ brksize \in 0 .. brkmaxsize
  /\ nseg \in 0 .. Len(Segments)
  /\ stage \in Stages
  /\ (stack # NoStack) = (stage = "created")
  /\ zeroed \subseteq Pages

\* What the tracker says is at page p.
Tracked(p) ==
  LET at == {k \in DOMAIN mm.nodes : p \in Span(mm.nodes[k].base, mm.nodes[k].len)}
  IN  IF at = {} THEN Reserved ELSE mm.nodes[CHOOSE k \in at : TRUE].info

\* The list stays sorted and without overlap, inside the box, and the cursor
\* points to a node of the list or nowhere: mm_unmap_cb frees nodes while the
\* cursor may be at any of them.  No node is empty, and from every such list
\* and cursor mm_mapat_cb finds the place of a new node of at least one page:
\* its assertions hold.  What they do not survive is the length that wraps to
\* no page at all ("mm_aborted"; "spoiled", with an empty node, by mm_mapany).
ListSound ==
  /\ \A k \in DOMAIN mm.nodes :
       /\ End(mm.nodes[k]) <= NPages
       /\ k < Len(mm.nodes) => End(mm.nodes[k]) <= mm.nodes[k + 1].base
  /\ mm.cursor \in 0 .. Len(mm.nodes)
  /\ stage # "spoiled" =>
       /\ \A k \in DOMAIN mm.nodes : mm.nodes[k].len # 0
       /\ \A a \in Pages, len \in 1 .. NPages :
            a + len <= NPages => mm_mapat_cb(mm, a, len, "fixed").assert

\* The tracker and the host kernel agree on every page, also after an mmap
\* that the host refused half way through lps_box_mapat.
TrackerMatchesHost == \A p \in Pages : Tracked(p) = host[p]

\* mm_mapany finds room exactly when some run of free pages behind the first
\* mapping is long enough, wherever the cursor is.
FirstFitComplete ==
  stage # "spoiled" => \A len \in 1 .. NPages :
    mm_mapany(mm, len, "any").ok <=>
      \E first \in 0 .. NPages - len :
        /\ mm.nodes # <<>> => first >= End(mm.nodes[1])
        /\ \A p \in Span(first, len) : Tracked(p) = Reserved

HeapPages(size) == Span(ImagePages, ceil(size))

\* A break that moves up keeps the contents of every page below the old one
\* and gives fresh zeroed pages for all that is new.
BrkKeepsHeap ==
  [][brksize' > brksize => /\ zeroed' \cap HeapPages(brksize) = {}
                           /\ HeapPages(brksize') \ HeapPages(brksize) \subseteq zeroed']_vars

\* sys_brk rounds the old break up and does not take the difference off the
\* length, so the heap can leave the region that proc_load set aside; it leaves
\* it by one page and never by two, however often the break moves.
BrkNearRegion == \A p \in Pages : host[p] = "brk" => p \in Span(ImagePages, BrkPages + 1)

\* A thread that could be created has its arguments: unless the caller's argv
\* ends before its argc, start-up code that walks up from sp finds argc, every
\* string, the environment and the auxiliary vector, none of them overwritten
\* by a later copy of stack_init and all of them inside the stack.
StartupFindsArgs ==
  stage = "created" =>
    /\ argc_of(stack.args) = nargv(stack.args) =>
         ReadsBack(stack, nargv(stack.args), nenvp(stack.args))
    /\ \A w \in ToSet(stack.writes) :
         Bytes(w) \subseteq BoxSize - StackPages * PageSize .. BoxSize - 1

\* The pages of the box implement the abstract page map: whatever the lists
\* look like, a call changes one range to one mapping, and a mapping whose
\* place mm_mapany chose never lands on another one.
PM == INSTANCE PageMap WITH
        FixedInfos <- Infos \ {"any"}, Any <- "any", Free <- Reserved,
        map <- host

ImplementsPageMap == PM!Spec

=============================================================================
