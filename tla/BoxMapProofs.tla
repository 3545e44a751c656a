---------------------------- MODULE BoxMapProofs ----------------------------
(***************************************************************************)
(* Proofs about modules SysBuf and BoxMap for every size of a box, of the  *)
(* address space and of what is asked for.                                 *)
(***************************************************************************)
EXTENDS BoxMap, FiniteSetTheorems, WellFoundedInduction, TLAPS

-----------------------------------------------------------------------------
(* The check of a buffer, for every word size, every box and every buffer *)

\* Below the size where it can come round to the box again, the address of the
\* last byte of a buffer that starts in the box has wrapped to below the box.
LEMMA LastByte ==
  ASSUME NEW b \in Boxes, NEW p \in Word, NEW size \in 1 .. WordMod - b.size,
         ptrcheck(b, p), ptrcheck(b, Pred(Plus(p, size)))
  PROVE  p + size <= b.base + b.size
<1>1. /\ b.base \in Nat /\ b.size \in Nat /\ WordMod \in Nat
      /\ b.base + b.size < WordMod /\ p \in Nat /\ p < WordMod
  BY WordAssumption DEF Boxes, Word
<1>2. size \in Nat /\ size >= 1 /\ size <= WordMod - b.size
  BY <1>1
<1>3. p >= b.base /\ p < b.base + b.size
  BY DEF ptrcheck
<1>4. CASE p + size < WordMod
  <2>1. Plus(p, size) = p + size
    BY <1>1, <1>2, <1>4 DEF Plus
  <2>2. Pred(Plus(p, size)) = p + size - 1
    BY <1>1, <1>2, <2>1 DEF Pred
  <2>3. p + size - 1 < b.base + b.size
    BY <2>2 DEF ptrcheck
  <2> QED
    BY <1>1, <1>2, <2>3
<1>5. CASE p + size >= WordMod
  <2>1. Plus(p, size) = p + size - WordMod
    BY <1>1, <1>2, <1>5 DEF Plus
  <2>2. CASE p + size = WordMod
    <3>1. Pred(Plus(p, size)) = WordMod - 1
      BY <1>1, <1>2, <2>1, <2>2 DEF Pred
    <3>2. WordMod - 1 < b.base + b.size
      BY <3>1 DEF ptrcheck
    <3> QED
      BY <1>1, <3>2
  <2>3. CASE p + size > WordMod
    <3>1. Pred(Plus(p, size)) = p + size - WordMod - 1
      BY <1>1, <1>2, <2>1, <2>3 DEF Pred
    <3>2. p + size - WordMod - 1 >= b.base
      BY <3>1 DEF ptrcheck
    <3> QED
      BY <1>1, <1>2, <1>3, <3>2
  <2> QED
    BY <1>1, <1>2, <1>5, <2>2, <2>3
<1> QED
  BY <1>1, <1>2, <1>4, <1>5

\* A buffer that bufcheck accepts lies inside the box, for every word size, when
\* it is not empty and not longer than the address space beside the box.
THEOREM BufcheckIsSound == BufcheckSound
<1>1. SUFFICES ASSUME NEW b \in Boxes, NEW p \in Word, NEW align \in Word \ {0},
                      NEW size \in 1 .. WordMod - b.size, bufcheck(b, p, size, align)
               PROVE  Inside(b, p, size)
  BY DEF BufcheckSound
<1>2. ptrcheck(b, p) /\ ptrcheck(b, Pred(Plus(p, size)))
  BY <1>1 DEF bufcheck
<1>3. p + size <= b.base + b.size
  BY <1>1, <1>2, LastByte
<1> QED
  BY <1>2, <1>3 DEF Inside, ptrcheck

\* A buffer that lies in the box is accepted.
THEOREM BufcheckIsComplete == BufcheckComplete
<1>1. SUFFICES ASSUME NEW b \in Boxes, NEW p \in Word, NEW size \in Word \ {0},
                      Inside(b, p, size)
               PROVE  bufcheck(b, p, size, 1)
  BY DEF BufcheckComplete
<1>2. /\ b.base \in Nat /\ b.size \in Nat /\ WordMod \in Nat /\ p \in Nat
      /\ b.base + b.size < WordMod /\ size \in Nat /\ size >= 1
  BY <1>1, WordAssumption DEF Boxes, Word
<1>3. b.base <= p /\ p + size <= b.base + b.size
  BY <1>1 DEF Inside
<1>4. Plus(p, size) = p + size
  BY <1>2, <1>3 DEF Plus
<1>5. Pred(Plus(p, size)) = p + size - 1
  BY <1>2, <1>4 DEF Pred
<1>6. ptrcheck(b, p)
  BY <1>2, <1>3 DEF ptrcheck
<1>7. ptrcheck(b, Pred(Plus(p, size)))
  BY <1>2, <1>3, <1>5 DEF ptrcheck
<1>8. p % 1 = 0
  BY <1>2
<1> QED
  BY <1>6, <1>7, <1>8 DEF bufcheck

-----------------------------------------------------------------------------
(* Numbers *)

\* A set of natural numbers that is not empty has a least one: what Min gives.
LEMMA MinOfNaturals ==
  ASSUME NEW S, S \subseteq Nat, S # {}
  PROVE  Min(S) \in S /\ \A y \in S : Min(S) <= y
<1> DEFINE R == {ss \in Nat \X Nat : ss[1] < ss[2]}
<1>1. IsWellFoundedOn(R, Nat)
  <2>1. OpToRel(<, Nat) = R
    BY DEF OpToRel
  <2> QED
    BY <2>1, NatLessThanWellFounded
<1>2. PICK x \in S : \A y \in S : <<y, x>> \notin R
  BY <1>1, WFMin
<1>3. ASSUME NEW y \in S PROVE x <= y
  <2>1. x \in Nat /\ y \in Nat /\ <<y, x>> \notin R
    BY <1>2
  <2>2. ~(y < x)
    BY <2>1
  <2> QED
    BY <2>1, <2>2
<1> QED
  BY <1>3 DEF Min

\* Quotient and remainder.
LEMMA Division ==
  ASSUME NEW a \in Int
  PROVE  /\ a \div Chunk \in Int /\ a % Chunk \in 0 .. Chunk - 1
         /\ a = Chunk * (a \div Chunk) + (a % Chunk)
BY SizesAssumption

\* Multiples of the chunk size.
LEMMA Multiple ==
  ASSUME NEW q \in Int
  PROVE  /\ Chunk * q \in Int /\ (Chunk * q) % Chunk = 0 /\ (Chunk * q) \div Chunk = q
BY SizesAssumption

\* A number that leaves no remainder is a multiple.
LEMMA IsMultiple ==
  ASSUME NEW a \in Int, a % Chunk = 0
  PROVE  a \div Chunk \in Int /\ a = Chunk * (a \div Chunk)
BY SizesAssumption

\* Multiples are ordered as their quotients.
LEMMA MultipleOrder ==
  ASSUME NEW p \in Int, NEW q \in Int, Chunk * p < Chunk * q
  PROVE  p + 1 <= q
<1> USE SizesAssumption
<1>1. ASSUME q <= p PROVE FALSE
  <2>1. Chunk * q <= Chunk * p
    BY <1>1
  <2> QED
    BY <2>1
<1> QED
  BY <1>1

\* And conversely.
LEMMA MultipleMono ==
  ASSUME NEW p \in Int, NEW q \in Int, p <= q
  PROVE  Chunk * p <= Chunk * q
BY SizesAssumption

\* truncp rounds down.
LEMMA Truncp ==
  ASSUME NEW a \in Nat
  PROVE  LET c == truncp(a, Chunk)
         IN  c \in Nat /\ c % Chunk = 0 /\ c <= a /\ a < c + Chunk
<1>1. a \div Chunk \in Int /\ a % Chunk \in 0 .. Chunk - 1
      /\ a = Chunk * (a \div Chunk) + (a % Chunk)
  BY Division
<1>2. a - (a % Chunk) = Chunk * (a \div Chunk)
  <2> DEFINE q == a \div Chunk
             m == a % Chunk
  <2>1. q \in Int /\ m \in Int /\ a = Chunk * q + m /\ Chunk * q \in Int
    BY <1>1, SizesAssumption
  <2> HIDE DEF q, m
  <2>2. a - m = Chunk * q
    BY <2>1
  <2> QED
    BY <2>2 DEF q, m
<1>3. a - (a % Chunk) \in Nat
  BY SizesAssumption
<1> QED
  BY <1>1, <1>2, <1>3, Multiple, SizesAssumption DEF truncp

\* ceilp rounds up.
LEMMA Ceilp ==
  ASSUME NEW a \in Nat
  PROVE  LET c == ceilp(a, Chunk)
         IN  c \in Nat /\ c % Chunk = 0 /\ a <= c /\ c < a + Chunk
<1>1. a \div Chunk \in Int /\ a % Chunk \in 0 .. Chunk - 1
      /\ a = Chunk * (a \div Chunk) + (a % Chunk)
  BY Division
<1>2. CASE a % Chunk = 0
  BY <1>2, SizesAssumption DEF ceilp
<1>3. CASE a % Chunk # 0
  <2>1. a + (Chunk - (a % Chunk)) = Chunk * ((a \div Chunk) + 1)
    BY <1>1, SizesAssumption
  <2>2. (Chunk * ((a \div Chunk) + 1)) % Chunk = 0
    BY <1>1, Multiple
  <2> QED
    BY <1>1, <1>3, <2>1, <2>2, SizesAssumption DEF ceilp
<1> QED
  BY <1>2, <1>3

\* The aligned part of what the host gave: whole chunks inside it, less than
\* two chunks short of it.
LEMMA AlignedFacts ==
  ASSUME NEW base \in Nat, NEW got \in Nat, Chunk <= got
  PROVE  LET a == Aligned(base, got)
         IN  /\ a.base \in Nat /\ a.size \in Nat
             /\ a.base % Chunk = 0 /\ a.size % Chunk = 0
             /\ base <= a.base /\ a.base + a.size <= base + got
             /\ got <= a.size + 2 * (Chunk - 1)
             /\ Pages(a) \subseteq Span(base, got)
<1> DEFINE lo == ceilp(base, Chunk)
           hi == truncp(base + got, Chunk)
<1>1. lo \in Nat /\ lo % Chunk = 0 /\ base <= lo /\ lo < base + Chunk
  BY Ceilp
<1>2. hi \in Nat /\ hi % Chunk = 0 /\ hi <= base + got /\ base + got < hi + Chunk
  <2>1. base + got \in Nat
    OBVIOUS
  <2> QED
    BY <2>1, Truncp
<1>a. Aligned(base, got) = [base |-> lo, size |-> hi - lo]
  BY DEF Aligned
<1> HIDE DEF lo, hi
<1>3. /\ lo \div Chunk \in Int /\ lo = Chunk * (lo \div Chunk)
      /\ hi \div Chunk \in Int /\ hi = Chunk * (hi \div Chunk)
  BY <1>1, <1>2, IsMultiple
<1> DEFINE p == lo \div Chunk
           q == hi \div Chunk
<1> HIDE DEF p, q
<1>4. p \in Int /\ q \in Int /\ lo = Chunk * p /\ hi = Chunk * q
  BY <1>3 DEF p, q
<1>5. lo < hi + Chunk /\ hi + Chunk = Chunk * (q + 1)
  BY <1>1, <1>2, <1>4, SizesAssumption
<1>6. p <= q
  <2>1. Chunk * p < Chunk * (q + 1) /\ q + 1 \in Int
    BY <1>4, <1>5
  <2>2. p + 1 <= q + 1
    BY <1>4, <2>1, MultipleOrder
  <2> QED
    BY <1>4, <2>2
<1>7. lo <= hi
  BY <1>4, <1>6, MultipleMono
<1>8. (hi - lo) % Chunk = 0
  <2>1. hi - lo = Chunk * (q - p)
    BY <1>4, SizesAssumption
  <2> QED
    BY <1>4, <2>1, Multiple
<1> QED
  BY <1>1, <1>2, <1>7, <1>8, <1>a, SizesAssumption DEF Pages, Span

-----------------------------------------------------------------------------
(* The invariant *)

\* A region is made of whole chunks of reserved pages.
RegionInv ==
  \A k \in DOMAIN regions :
    /\ regions[k].base % Chunk = 0 /\ regions[k].size % Chunk = 0
    /\ Pages(regions[k]) \subseteq ours

\* There are boxes only in an engine that is up, and regions only in one that
\* lps_new has begun to make.
StageInv ==
  /\ stage \in {"none", "reserve"} => boxes = {}
  /\ stage = "none" => regions = <<>>
  /\ stage = "crashed" => isfull

\* Inside boxmap_reserve: at least a chunk is asked for and there is that much
\* left; with a number of sandboxes the first reservation is the last; without,
\* the regions hold what was got but for the alignment.
ReserveInv ==
  stage = "reserve" =>
    /\ Chunk <= rsv.min /\ rsv.size <= rsv.total
    /\ want # 0 => /\ regions = <<>> /\ rsv.got = 0
                   /\ rsv.size = want * Chunk /\ rsv.min = want * Chunk
                   /\ rsv.goal = want * Chunk
    /\ want = 0 => /\ rsv.goal = SIZE
                   /\ Cardinality(AllPages) + 2 * (Chunk - 1) * Len(regions) >= rsv.got

\* The pages where a chunk begins.
Firsts(S) == {b \in S : b % Chunk = 0}

CountInv ==
  /\ IsFiniteSet(boxes) /\ IsFiniteSet(AllPages)
  /\ Cardinality(AllPages) = Chunk * Cardinality(Firsts(AllPages))

BoxInv == TypeOK /\ RegionInv /\ StageInv /\ ReserveInv /\ CountInv
          /\ BoxesApart /\ OnlyOwnPages /\ AlignmentCostsOneChunk

-----------------------------------------------------------------------------
(* Counting pages and chunks *)

\* The pages of a span.
LEMMA SpanSize ==
  ASSUME NEW base \in Nat, NEW size \in Nat
  PROVE  IsFiniteSet(Span(base, size)) /\ Cardinality(Span(base, size)) = size
<1>1. base + size - 1 \in Int /\ base \in Int
  OBVIOUS
<1>2. /\ IsFiniteSet(base .. base + size - 1)
      /\ Cardinality(base .. base + size - 1) =
           IF base > base + size - 1 THEN 0 ELSE (base + size - 1) - base + 1
  BY <1>1, FS_Interval
<1> QED
  BY <1>2 DEF Span

\* An aligned span of n chunks has n pages where a chunk begins.
LEMMA SpanFirsts ==
  ASSUME NEW base \in Nat, NEW n \in Nat, base % Chunk = 0
  PROVE  /\ IsFiniteSet(Firsts(Span(base, Chunk * n)))
         /\ Cardinality(Firsts(Span(base, Chunk * n))) = n
<1> DEFINE S == Firsts(Span(base, Chunk * n))
           f == [i \in 1 .. n |-> base + Chunk * (i - 1)]
<1>0. /\ Chunk * n \in Nat
      /\ \A x : x \in S <=> x \in base .. base + Chunk * n - 1 /\ x % Chunk = 0
  BY SizesAssumption DEF Firsts, Span
<1>1. PICK p \in Int : base = Chunk * p
  BY IsMultiple
<1> HIDE DEF S
<1>2. ASSUME NEW i \in 1 .. n PROVE base + Chunk * (i - 1) \in S
  <2>1. base + Chunk * (i - 1) = Chunk * (p + (i - 1))
    BY <1>1, SizesAssumption
  <2>2. (base + Chunk * (i - 1)) % Chunk = 0
    BY <2>1, Multiple
  <2>3. 0 <= Chunk * (i - 1)
    BY SizesAssumption
  <2>4. Chunk * i <= Chunk * n
    BY MultipleMono
  <2>5. Chunk * (i - 1) = Chunk * i - Chunk /\ Chunk * i \in Int
    BY SizesAssumption
  <2> QED
    BY <1>0, <2>2, <2>3, <2>4, <2>5, SizesAssumption
<1>3. f \in [1 .. n -> S]
  BY <1>2
<1>4. ASSUME NEW i \in 1 .. n, NEW j \in 1 .. n, f[i] = f[j] PROVE i = j
  <2>1. Chunk * (i - 1) = Chunk * (j - 1)
    <3>1. base + Chunk * (i - 1) = base + Chunk * (j - 1)
      BY <1>4
    <3>2. Chunk * (i - 1) \in Int /\ Chunk * (j - 1) \in Int
      BY SizesAssumption
    <3> QED
      BY <3>1, <3>2
  <2>2. (Chunk * (i - 1)) \div Chunk = i - 1 /\ (Chunk * (j - 1)) \div Chunk = j - 1
    BY Multiple
  <2> QED
    BY <2>1, <2>2
<1>5. ASSUME NEW x \in S PROVE \E i \in 1 .. n : f[i] = x
  <2>1. x \in Int /\ base <= x /\ x < base + Chunk * n /\ x % Chunk = 0
    BY <1>0
  <2>2. PICK q \in Int : x = Chunk * q
    BY <2>1, IsMultiple
  <2>3. base + Chunk * n = Chunk * (p + n)
    BY <1>1, SizesAssumption
  <2>4. q + 1 <= p + n
    <3>1. Chunk * q < Chunk * (p + n)
      BY <2>1, <2>2, <2>3
    <3> QED
      BY <3>1, MultipleOrder
  <2>5. p <= q
    <3>1. Chunk * p < Chunk * (q + 1)
      BY <1>1, <2>1, <2>2, SizesAssumption
    <3>2. p + 1 <= q + 1
      BY <3>1, MultipleOrder
    <3> QED
      BY <3>2
  <2>6. (q - p) + 1 \in 1 .. n
    BY <2>4, <2>5
  <2>7. x = base + Chunk * (((q - p) + 1) - 1)
    BY <1>1, <2>2, SizesAssumption
  <2> QED
    BY <2>6, <2>7
<1> HIDE DEF f
<1>6. f \in Bijection(1 .. n, S)
  BY <1>3, <1>4, <1>5 DEF Bijection, Injection, Surjection, IsInjective
<1>7. ExistsBijection(1 .. n, S)
  BY <1>6 DEF ExistsBijection
<1>8. Cardinality(S) = n /\ IsFiniteSet(S)
  BY <1>7, FS_CountingElements, FS_NatBijection
<1> QED
  BY <1>8 DEF S

-----------------------------------------------------------------------------
(* The steps *)

\* Nothing is reserved at the start.
LEMMA InitBox == Init => BoxInv
<1> SUFFICES ASSUME Init PROVE BoxInv
  OBVIOUS
<1>1. TypeOK
  BY SizesAssumption, HostAssumption DEF Init, TypeOK, NoRsv
<1>2. regions = <<>> /\ AllPages = {} /\ boxes = {} /\ stage = "none" /\ stray = {}
  BY DEF Init, AllPages
<1>3. Firsts(AllPages) = {}
  BY <1>2 DEF Firsts
<1>4. CountInv
  BY <1>2, <1>3, FS_EmptySet, SizesAssumption DEF CountInv
<1>5. BoxesApart /\ OnlyOwnPages
  BY <1>2 DEF BoxesApart, OnlyOwnPages
<1>6. RegionInv /\ StageInv /\ ReserveInv /\ AlignmentCostsOneChunk
  BY <1>2 DEF RegionInv, StageInv, ReserveInv, AlignmentCostsOneChunk
<1> QED
  BY <1>1, <1>4, <1>5, <1>6 DEF BoxInv

\* boxmap_delete leaves no region, and unmaps no page of somebody else.
LEMMA DeleteStep ==
  ASSUME BoxInv, NEW kept \in SUBSET (0 .. Space - 1), boxmap_delete(kept),
         boxes' = {}, UNCHANGED <<want, engines>>
  PROVE  BoxInv'
<1>1. /\ stage' = "none" /\ regions' = <<>> /\ rsv' = NoRsv
      /\ ours' = (ours \ AllPages) \cup kept /\ stray' = stray \cup (AllPages \ ours)
  BY DEF boxmap_delete
<1>2. stray' = {}
  BY <1>1 DEF BoxInv, OnlyOwnPages
<1>3. TypeOK'
  <2>1. NoRsv \in [total : Nat, size : Nat, min : Nat, got : Nat, goal : Nat,
                   i : 0 .. ADDR_REGION_MAX - 1]
    BY SizesAssumption DEF NoRsv
  <2>2. ours' \subseteq 0 .. Space - 1
    BY <1>1 DEF BoxInv, TypeOK
  <2>3. /\ regions' \in Seq([base : Nat, size : Nat \ {0}, active : Nat, bits : SUBSET Nat])
        /\ stage' \in {"none", "reserve", "up", "crashed"}
        /\ boxes' \subseteq Nat /\ stray' \subseteq Nat
    BY <1>1, <1>2
  <2> QED
    BY <1>1, <2>1, <2>2, <2>3 DEF BoxInv, TypeOK
<1>4. AllPages' = {}
  BY <1>1 DEF AllPages
<1>5. Firsts(AllPages)' = {}
  BY <1>4 DEF Firsts
<1>6. CountInv'
  BY <1>4, <1>5, FS_EmptySet, SizesAssumption DEF CountInv
<1>7. BoxesApart' /\ OnlyOwnPages'
  BY <1>1, <1>2, <1>4 DEF BoxesApart, OnlyOwnPages
<1>8. RegionInv' /\ StageInv' /\ ReserveInv' /\ AlignmentCostsOneChunk'
  BY <1>1 DEF RegionInv, StageInv, ReserveInv, AlignmentCostsOneChunk
<1> QED
  BY <1>3, <1>6, <1>7, <1>8 DEF BoxInv

\* A step that leaves the regions, the boxes and the pages alone.
LEMMA SamePlaces ==
  ASSUME BoxInv, UNCHANGED <<regions, boxes, ours, stray>>
  PROVE  RegionInv' /\ CountInv' /\ BoxesApart' /\ OnlyOwnPages'
BY DEF BoxInv, RegionInv, CountInv, BoxesApart, OnlyOwnPages, AllPages

\* lps_new fixes what boxmap_reserve will ask for.
LEMMA NewStep ==
  ASSUME BoxInv, NEW n \in Wants, lps_new(n)
  PROVE  BoxInv'
<1> USE SizesAssumption, HostAssumption
<1>1. /\ stage = "none" /\ stage' = "reserve" /\ want' = n /\ n \in Nat
      /\ UNCHANGED <<regions, boxes, ours, stray>>
  BY DEF lps_new
<1>2. regions = <<>> /\ boxes = {}
  BY <1>1 DEF BoxInv, StageInv
<1>0. /\ NoRsv \in [total : Nat, size : Nat, min : Nat, got : Nat, goal : Nat,
                    i : 0 .. ADDR_REGION_MAX - 1]
      /\ NoRsv.got = 0
  BY DEF NoRsv
<1>c. n * Chunk \in Nat /\ (n # 0 => Chunk <= n * Chunk)
  BY <1>1
<1>3. /\ rsv' \in [total : Nat, size : Nat, min : Nat, got : Nat, goal : Nat,
                   i : 0 .. ADDR_REGION_MAX - 1]
      /\ rsv'.got = 0
      /\ n = 0 => rsv'.total = TOTAL /\ rsv'.size = SIZE /\ rsv'.min = MIN /\ rsv'.goal = SIZE
      /\ n # 0 => /\ rsv'.total = n * Chunk /\ rsv'.size = n * Chunk
                  /\ rsv'.min = n * Chunk /\ rsv'.goal = n * Chunk
  <2>1. CASE n = 0
    <3>1. rsv' = [NoRsv EXCEPT !.total = TOTAL, !.size = SIZE, !.min = MIN, !.goal = SIZE]
      BY <2>1 DEF lps_new
    <3> QED
      BY <1>0, <2>1, <3>1
  <2>2. CASE n # 0
    <3> DEFINE m == n * Chunk
    <3>1. rsv' = [NoRsv EXCEPT !.total = m, !.size = m, !.min = m, !.goal = m] /\ m \in Nat
      BY <1>c, <2>2 DEF lps_new
    <3> HIDE DEF m
    <3>2. /\ rsv' \in [total : Nat, size : Nat, min : Nat, got : Nat, goal : Nat,
                       i : 0 .. ADDR_REGION_MAX - 1]
          /\ rsv'.got = 0
          /\ rsv'.total = m /\ rsv'.size = m /\ rsv'.min = m /\ rsv'.goal = m
      BY <1>0, <3>1
    <3> QED
      BY <2>2, <3>2 DEF m
  <2> QED
    BY <2>1, <2>2
<1>5. TypeOK'
  <2>1. engines' = engines + 1 /\ engines < MaxEngines
    BY DEF lps_new
  <2>2. engines' \in 0 .. MaxEngines
    BY <2>1 DEF BoxInv, TypeOK
  <2> QED
    BY <1>1, <1>3, <2>2 DEF BoxInv, TypeOK
<1>6. Cardinality(AllPages)' \in Nat /\ Len(regions') = 0
  <2>1. AllPages' = {}
    BY <1>1, <1>2 DEF AllPages
  <2> QED
    BY <1>1, <1>2, <2>1, FS_EmptySet
<1>7. ReserveInv'
  <2>1. CASE n = 0
    <3>1. Cardinality(AllPages)' + 2 * (Chunk - 1) * Len(regions') >= 0
      BY <1>6
    <3> QED
      BY <1>1, <1>3, <2>1, <3>1 DEF ReserveInv
  <2>2. CASE n # 0
    BY <1>1, <1>2, <1>3, <1>c, <2>2 DEF ReserveInv
  <2> QED
    BY <2>1, <2>2
<1>8. StageInv' /\ AlignmentCostsOneChunk'
  BY <1>1, <1>2 DEF StageInv, AlignmentCostsOneChunk
<1> QED
  BY <1>1, <1>5, <1>7, <1>8, SamePlaces DEF BoxInv

Region == [base : Nat, size : Nat \ {0}, active : Nat, bits : SUBSET Nat]

\* addregion appends a region to the map.
LEMMA AppendRegion ==
  ASSUME regions \in Seq(Region), NEW r \in Region, regions' = Append(regions, r)
  PROVE  /\ regions' \in Seq(Region)
         /\ Len(regions') = Len(regions) + 1 /\ Len(regions) \in Nat
         /\ DOMAIN regions = 1 .. Len(regions)
         /\ DOMAIN regions' = (DOMAIN regions) \cup {Len(regions) + 1}
         /\ Len(regions) + 1 \notin DOMAIN regions
         /\ \A k \in DOMAIN regions : regions'[k] = regions[k]
         /\ regions'[Len(regions) + 1] = r
         /\ AllPages' = AllPages \cup Pages(r)
<1>1. /\ regions' \in Seq(Region)
      /\ Len(regions') = Len(regions) + 1 /\ Len(regions) \in Nat
      /\ DOMAIN regions = 1 .. Len(regions)
      /\ DOMAIN regions' = 1 .. Len(regions) + 1
      /\ \A k \in 1 .. Len(regions) : regions'[k] = regions[k]
      /\ regions'[Len(regions) + 1] = r
  OBVIOUS
<1>2. 1 .. Len(regions) + 1 = (1 .. Len(regions)) \cup {Len(regions) + 1}
      /\ Len(regions) + 1 \notin 1 .. Len(regions)
  BY <1>1
<1>3. DOMAIN regions' = (DOMAIN regions) \cup {Len(regions) + 1}
      /\ \A k \in DOMAIN regions : regions'[k] = regions[k]
  BY <1>1, <1>2
<1>4. AllPages' = UNION {Pages(regions'[k]) : k \in DOMAIN regions'}
  BY DEF AllPages, Pages, Span
<1>5. AllPages' = AllPages \cup Pages(r)
  <2>1. ASSUME NEW x PROVE x \in AllPages' <=> x \in AllPages \/ x \in Pages(r)
    <3>1. x \in AllPages' <=> \E k \in DOMAIN regions' : x \in Pages(regions'[k])
      BY <1>4
    <3>2. x \in AllPages <=> \E k \in DOMAIN regions : x \in Pages(regions[k])
      BY DEF AllPages
    <3> QED
      BY <1>1, <1>3, <3>1, <3>2
  <2> QED
    BY <2>1
<1> QED
  BY <1>1, <1>2, <1>3, <1>5

\* What boxmap_reserve gets from the host and from addregion.
LEMMA GotFacts ==
  ASSUME BoxInv, stage = "reserve", NEW got \in Halvings(rsv.size, rsv.min),
         NEW base \in 1 .. Space - 1, base + got <= Space, FreeAt(base, got)
  PROVE  LET a == Aligned(base, got)
         IN  /\ got \in Nat /\ base \in Nat /\ Chunk <= got
             /\ rsv.min <= got /\ got <= rsv.size
             /\ a.base \in Nat /\ a.size \in Nat
             /\ a.base % Chunk = 0 /\ a.size % Chunk = 0
             /\ got <= a.size + 2 * (Chunk - 1)
             /\ Pages(a) \subseteq Span(base, got)
             /\ Span(base, got) \subseteq 0 .. Space - 1
             /\ Span(base, got) \cap ours = {}
             /\ AllPages \cap Pages(a) = {}
<1> USE SizesAssumption, HostAssumption
<1>1. rsv \in [total : Nat, size : Nat, min : Nat, got : Nat, goal : Nat,
               i : 0 .. ADDR_REGION_MAX - 1]
  BY DEF BoxInv, TypeOK
<1>2. got \in Nat /\ base \in Nat /\ Chunk <= got /\ rsv.min <= got /\ got <= rsv.size
  BY <1>1 DEF BoxInv, ReserveInv, Halvings
<1>3. LET a == Aligned(base, got)
      IN  /\ a.base \in Nat /\ a.size \in Nat
          /\ a.base % Chunk = 0 /\ a.size % Chunk = 0
          /\ got <= a.size + 2 * (Chunk - 1)
          /\ Pages(a) \subseteq Span(base, got)
  BY <1>2, AlignedFacts
<1>4. /\ Span(base, got) \subseteq 0 .. Space - 1
      /\ Span(base, got) \cap ours = {}
  BY <1>2 DEF Span, FreeAt
<1>5. AllPages \cap Pages(Aligned(base, got)) = {}
  BY <1>3, <1>4 DEF BoxInv, OnlyOwnPages
<1> QED
  BY <1>2, <1>3, <1>4, <1>5

\* The counters of the regions after addregion.
LEMMA CountAppend ==
  ASSUME BoxInv, NEW base \in Nat, NEW size \in Nat, base % Chunk = 0, size % Chunk = 0,
         AllPages' = AllPages \cup Span(base, size), AllPages \cap Span(base, size) = {}
  PROVE  /\ IsFiniteSet(AllPages')
         /\ Cardinality(AllPages') = Cardinality(AllPages) + size
         /\ Cardinality(AllPages) \in Nat
         /\ Cardinality(AllPages') = Chunk * Cardinality(Firsts(AllPages'))
<1> DEFINE S == Span(base, size)
           n == size \div Chunk
<1>1. n \in Nat /\ size = Chunk * n
  <2>1. size \div Chunk \in Nat
    BY SizesAssumption
  <2> QED
    BY <2>1, IsMultiple
<1>2. /\ IsFiniteSet(S) /\ Cardinality(S) = size
      /\ IsFiniteSet(Firsts(S)) /\ Cardinality(Firsts(S)) = n
  <2> HIDE DEF n
  <2> QED
    BY <1>1, SpanSize, SpanFirsts
<1>3. /\ IsFiniteSet(AllPages) /\ Cardinality(AllPages) \in Nat
      /\ Cardinality(AllPages) = Chunk * Cardinality(Firsts(AllPages))
      /\ IsFiniteSet(Firsts(AllPages)) /\ Cardinality(Firsts(AllPages)) \in Nat
  <2>1. Firsts(AllPages) \in SUBSET AllPages
    BY DEF Firsts
  <2> QED
    BY <2>1, FS_CardinalityType, FS_Subset DEF BoxInv, CountInv
<1> HIDE DEF S, n
<1>4. AllPages \cap S = {} /\ AllPages' = AllPages \cup S
  BY DEF S
<1>5. Cardinality({}) = 0
  BY FS_EmptySet
<1>6. IsFiniteSet(AllPages') /\ Cardinality(AllPages') = Cardinality(AllPages) + size
  <2>1. /\ IsFiniteSet(AllPages \cup S)
        /\ Cardinality(AllPages \cup S)
             = Cardinality(AllPages) + Cardinality(S) - Cardinality(AllPages \cap S)
    BY <1>2, <1>3, FS_Union
  <2>2. Cardinality(AllPages \cap S) = 0
    BY <1>4, <1>5, Zenon
  <2>3. Cardinality(AllPages \cup S) = Cardinality(AllPages) + size
    BY <1>2, <1>3, <2>1, <2>2
  <2> QED
    BY <1>4, <2>1, <2>3, Zenon
<1>7. Cardinality(Firsts(AllPages')) = Cardinality(Firsts(AllPages)) + n
  <2>1. Firsts(AllPages') = Firsts(AllPages) \cup Firsts(S)
        /\ Firsts(AllPages) \cap Firsts(S) = {}
    BY <1>4 DEF Firsts
  <2>2. Cardinality(Firsts(AllPages) \cup Firsts(S))
          = Cardinality(Firsts(AllPages)) + Cardinality(Firsts(S))
              - Cardinality(Firsts(AllPages) \cap Firsts(S))
    BY <1>2, <1>3, FS_Union
  <2>3. Cardinality(Firsts(AllPages) \cap Firsts(S)) = 0
    BY <1>5, <2>1, Zenon
  <2>4. Cardinality(Firsts(AllPages) \cup Firsts(S)) = Cardinality(Firsts(AllPages)) + n
    BY <1>1, <1>2, <1>3, <2>2, <2>3
  <2> QED
    BY <2>1, <2>4, Zenon
<1>8. Chunk * (Cardinality(Firsts(AllPages)) + n) = Chunk * Cardinality(Firsts(AllPages)) + Chunk * n
  BY <1>1, <1>3, SizesAssumption
<1> QED
  BY <1>1, <1>3, <1>6, <1>7, <1>8

Reservation == [total : Nat, size : Nat, min : Nat, got : Nat, goal : Nat, i : Nat]

\* The locals of boxmap_reserve after a round that got so many pages.
After(got) == [rsv EXCEPT !.total = @ - got, !.size = rsv.total - got,
                          !.got = @ + got, !.i = @ + 1]

\* A round of boxmap_reserve in which addregion succeeds.
Adds(got, base) ==
  LET a == Aligned(base, got)
  IN  /\ stage = "reserve" /\ got \in Halvings(rsv.size, rsv.min)
      /\ base \in 1 .. Space - 1 /\ base + got <= Space /\ FreeAt(base, got)
      /\ UNCHANGED <<want, boxes, engines>>
      /\ a.size # 0
      /\ Enough(After(got)) \/ ~LastRound(After(got))
      /\ regions' = Append(regions, NewRegion(a))
      /\ ours' = ours \cup Span(base, got) \cup Pages(a)
      /\ stray' = stray \cup (Pages(a) \ Span(base, got))
      /\ stage' = IF Enough(After(got)) THEN "up" ELSE "reserve"
      /\ rsv' = IF Enough(After(got)) THEN NoRsv ELSE After(got)

\* The locals after a round.
LEMMA AfterFacts ==
  ASSUME BoxInv, NEW got, NEW base, Adds(got, base)
  PROVE  /\ After(got) \in Reservation
         /\ After(got).size = After(got).total /\ After(got).min = rsv.min
         /\ After(got).got = rsv.got + got
         /\ After(got).goal = rsv.goal /\ After(got).i = rsv.i + 1
         /\ rsv.got \in Nat /\ rsv.i \in 0 .. ADDR_REGION_MAX - 1
         /\ rsv.min \in Nat /\ rsv.size \in Nat /\ rsv.goal \in Nat
<1>1. rsv \in [total : Nat, size : Nat, min : Nat, got : Nat, goal : Nat,
               i : 0 .. ADDR_REGION_MAX - 1]
  BY DEF BoxInv, TypeOK
<1>2. got \in Nat /\ got <= rsv.size
  BY <1>1 DEF Adds, Halvings
<1>3. rsv.size <= rsv.total
  BY DEF Adds, BoxInv, ReserveInv
<1>4. rsv.total - got \in Nat /\ rsv.got + got \in Nat /\ rsv.i + 1 \in Nat
  BY <1>1, <1>2, <1>3, SizesAssumption
<1> QED
  BY <1>1, <1>4 DEF After, Reservation

\* The new region.
LEMMA AddedFacts ==
  ASSUME BoxInv, NEW got, NEW base, Adds(got, base)
  PROVE  LET a == Aligned(base, got)
             r == NewRegion(a)
         IN  /\ got \in Nat /\ base \in Nat /\ rsv.min <= got /\ got <= rsv.size
             /\ a.size \in Nat \ {0} /\ got <= a.size + 2 * (Chunk - 1)
             /\ r \in Region /\ r.base % Chunk = 0 /\ r.size % Chunk = 0
             /\ r.size = a.size /\ r.active = 0 /\ r.bits = {}
             /\ Pages(r) \subseteq Span(base, got)
             /\ Span(base, got) \subseteq 0 .. Space - 1
             /\ ours' = ours \cup Span(base, got)
             /\ AllPages \cap Pages(r) = {}
             /\ stray' = {} /\ boxes = {} /\ boxes' = {}
             /\ regions \in Seq(Region)
             /\ regions' = Append(regions, r)
             /\ AllPages \subseteq ours
<1> DEFINE a == Aligned(base, got)
           r == NewRegion(a)
<1>1. /\ stage = "reserve" /\ got \in Halvings(rsv.size, rsv.min)
      /\ base \in 1 .. Space - 1 /\ base + got <= Space /\ FreeAt(base, got)
  BY DEF Adds
<1>2. /\ got \in Nat /\ base \in Nat
      /\ rsv.min <= got /\ got <= rsv.size
      /\ a.base \in Nat /\ a.size \in Nat
      /\ a.base % Chunk = 0 /\ a.size % Chunk = 0
      /\ got <= a.size + 2 * (Chunk - 1)
      /\ Pages(a) \subseteq Span(base, got)
      /\ Span(base, got) \subseteq 0 .. Space - 1
      /\ Span(base, got) \cap ours = {}
      /\ AllPages \cap Pages(a) = {}
  BY <1>1, GotFacts
<1>3. /\ a.size # 0 /\ UNCHANGED boxes
      /\ regions' = Append(regions, r)
      /\ ours' = ours \cup Span(base, got) \cup Pages(a)
      /\ stray' = stray \cup (Pages(a) \ Span(base, got))
  BY DEF Adds
<1>4. /\ boxes = {} /\ stray = {} /\ regions \in Seq(Region) /\ AllPages \subseteq ours
  BY <1>1 DEF BoxInv, StageInv, OnlyOwnPages, TypeOK, Region
<1> HIDE DEF a
<1>5. /\ r \in Region /\ r.base = a.base /\ r.size = a.size /\ r.active = 0 /\ r.bits = {}
  BY <1>2, <1>3 DEF NewRegion, Region
<1>6. Pages(r) = Pages(a)
  BY <1>5 DEF Pages
<1> HIDE DEF r
<1>7. ours' = ours \cup Span(base, got) /\ stray' = {}
  BY <1>2, <1>3, <1>4
<1> QED
  BY <1>2, <1>3, <1>4, <1>5, <1>6, <1>7 DEF a, r

\* The map with the new region.
LEMMA AddedMap ==
  ASSUME BoxInv, NEW got, NEW base, Adds(got, base),
         NEW r, r = NewRegion(Aligned(base, got))
  PROVE  /\ regions' \in Seq(Region)
         /\ Len(regions') = Len(regions) + 1 /\ Len(regions) \in Nat
         /\ DOMAIN regions' = (DOMAIN regions) \cup {Len(regions) + 1}
         /\ Len(regions) + 1 \notin DOMAIN regions
         /\ \A k \in DOMAIN regions : regions'[k] = regions[k]
         /\ regions'[Len(regions) + 1] = r
         /\ AllPages' = AllPages \cup Pages(r)
         /\ IsFiniteSet(AllPages')
         /\ Cardinality(AllPages') = Cardinality(AllPages) + r.size
         /\ Cardinality(AllPages) \in Nat
         /\ Cardinality(AllPages') = Chunk * Cardinality(Firsts(AllPages'))
<1>1. /\ r \in Region /\ r.base % Chunk = 0 /\ r.size % Chunk = 0
      /\ AllPages \cap Pages(r) = {}
      /\ regions \in Seq(Region) /\ regions' = Append(regions, r)
  BY AddedFacts
<1>2. /\ regions' \in Seq(Region)
      /\ Len(regions') = Len(regions) + 1 /\ Len(regions) \in Nat
      /\ DOMAIN regions' = (DOMAIN regions) \cup {Len(regions) + 1}
      /\ Len(regions) + 1 \notin DOMAIN regions
      /\ \A k \in DOMAIN regions : regions'[k] = regions[k]
      /\ regions'[Len(regions) + 1] = r
      /\ AllPages' = AllPages \cup Pages(r)
  BY <1>1, AppendRegion
<1>3. r.base \in Nat /\ r.size \in Nat /\ Pages(r) = Span(r.base, r.size)
  BY <1>1 DEF Region, Pages
<1>4. AllPages' = AllPages \cup Span(r.base, r.size) /\ AllPages \cap Span(r.base, r.size) = {}
  BY <1>1, <1>2, <1>3, Zenon
<1> QED
  BY <1>1, <1>2, <1>3, <1>4, CountAppend

\* addregion keeps the regions apart and inside the reservations.
LEMMA AddedPlaces ==
  ASSUME BoxInv, NEW got, NEW base, Adds(got, base)
  PROVE  RegionInv' /\ CountInv' /\ BoxesApart' /\ OnlyOwnPages' /\ StageInv'
<1>0. PICK r : r = NewRegion(Aligned(base, got))
  OBVIOUS
<1> DEFINE L == Len(regions) + 1
<1>1. /\ r.base % Chunk = 0 /\ r.size % Chunk = 0
      /\ r.active = 0 /\ r.bits = {}
      /\ Pages(r) \subseteq Span(base, got)
      /\ ours' = ours \cup Span(base, got)
      /\ AllPages \cap Pages(r) = {}
      /\ stray' = {} /\ boxes = {} /\ boxes' = {}
      /\ AllPages \subseteq ours
  BY <1>0, AddedFacts
<1>2. /\ DOMAIN regions' = (DOMAIN regions) \cup {L}
      /\ L \notin DOMAIN regions
      /\ \A k \in DOMAIN regions : regions'[k] = regions[k]
      /\ regions'[L] = r
      /\ AllPages' = AllPages \cup Pages(r)
      /\ IsFiniteSet(AllPages')
      /\ Cardinality(AllPages') = Chunk * Cardinality(Firsts(AllPages'))
  BY <1>0, AddedMap
<1> HIDE DEF L
<1>3. RegionInv'
  <2>1. ASSUME NEW k \in DOMAIN regions'
        PROVE  /\ regions'[k].base % Chunk = 0 /\ regions'[k].size % Chunk = 0
               /\ Pages(regions'[k]) \subseteq ours'
    <3>1. CASE k \in DOMAIN regions
      <4>1. /\ regions[k].base % Chunk = 0 /\ regions[k].size % Chunk = 0
            /\ Pages(regions[k]) \subseteq ours
        BY <3>1 DEF BoxInv, RegionInv
      <4> QED
        BY <1>1, <1>2, <3>1, <4>1
    <3>2. CASE k = L
      BY <1>1, <1>2, <3>2
    <3> QED
      BY <1>2, <3>1, <3>2
  <2> QED
    BY <2>1 DEF RegionInv, Pages, Span
<1>4. CountInv'
  BY <1>1, <1>2, FS_EmptySet DEF CountInv, Firsts
<1>5. OnlyOwnPages'
  BY <1>1, <1>2 DEF OnlyOwnPages
<1>6. BoxesApart'
  <2>e. \A S : boxes \cap S = {} /\ boxes' \cap S = {}
    BY <1>1
  <2>c. Cardinality({}) = 0
    BY FS_EmptySet
  <2>1. ASSUME NEW k \in DOMAIN regions' PROVE regions'[k].active = 0 /\ regions'[k].bits = {}
    <3>1. CASE k \in DOMAIN regions
      <4>1. /\ regions[k].active = Cardinality(boxes \cap Pages(regions[k]))
            /\ regions[k].bits = {(b - regions[k].base) \div Chunk : b \in boxes \cap Pages(regions[k])}
        BY <3>1 DEF BoxInv, BoxesApart
      <4>2. boxes \cap Pages(regions[k]) = {}
        BY <2>e
      <4>3. regions[k].active = 0
        BY <2>c, <4>1, <4>2, Zenon
      <4>4. regions[k].bits = {}
        BY <4>1, <4>2
      <4> QED
        BY <1>2, <3>1, <4>3, <4>4
    <3>2. CASE k = L
      BY <1>1, <1>2, <3>2
    <3> QED
      BY <1>2, <3>1, <3>2
  <2>2. ASSUME NEW k \in DOMAIN regions', NEW j \in (DOMAIN regions') \ {k}
        PROVE  Pages(regions'[j]) \cap Pages(regions'[k]) = {}
    <3>0. \A m \in DOMAIN regions : Pages(regions[m]) \subseteq AllPages
      BY DEF AllPages
    <3>1. CASE j \in DOMAIN regions /\ k \in DOMAIN regions
      <4>1. Pages(regions[j]) \cap Pages(regions[k]) = {}
        BY <2>2, <3>1 DEF BoxInv, BoxesApart
      <4> QED
        BY <1>2, <3>1, <4>1
    <3>2. CASE j = L /\ k \in DOMAIN regions
      BY <1>1, <1>2, <3>0, <3>2
    <3>3. CASE k = L /\ j \in DOMAIN regions
      BY <1>1, <1>2, <3>0, <3>3
    <3> QED
      BY <1>2, <2>2, <3>1, <3>2, <3>3
  <2>3. ASSUME NEW k \in DOMAIN regions'
        PROVE  /\ regions'[k].active = Cardinality(boxes' \cap Pages(regions'[k]))
               /\ regions'[k].bits = {(b - regions'[k].base) \div Chunk :
                                        b \in boxes' \cap Pages(regions'[k])}
    <3>1. boxes' \cap Pages(regions'[k]) = {}
      BY <2>e
    <3>2. Cardinality(boxes' \cap Pages(regions'[k])) = 0
      BY <2>c, <3>1, Zenon
    <3> QED
      BY <2>1, <3>1, <3>2
  <2> QED
    BY <1>1, <2>2, <2>3 DEF BoxesApart, Pages, Span
<1>7. StageInv'
  <2>1. stage' \in {"up", "reserve"}
    BY DEF Adds
  <2> QED
    BY <1>1, <2>1 DEF StageInv
<1> QED
  BY <1>3, <1>4, <1>5, <1>6, <1>7

\* The alignment costs less than two chunks a region, and an engine for a
\* number of sandboxes is done with its first region.
LEMMA AddedRoom ==
  ASSUME BoxInv, NEW got, NEW base, Adds(got, base)
  PROVE  ReserveInv' /\ AlignmentCostsOneChunk'
<1>0. PICK r : r = NewRegion(Aligned(base, got))
  OBVIOUS
<1> DEFINE L    == Len(regions)
           c    == 2 * (Chunk - 1)
           n    == Cardinality(AllPages)
           s    == r.size
           next == After(got)
<1>1. /\ got \in Nat /\ rsv.min <= got /\ got <= rsv.size
      /\ s \in Nat /\ s % Chunk = 0 /\ got <= s + c
  BY <1>0, AddedFacts
<1>2. /\ L \in Nat /\ n \in Nat /\ c \in Nat
      /\ Cardinality(AllPages') = n + s /\ Len(regions') = L + 1
  BY <1>0, AddedMap, SizesAssumption
<1>3. /\ next \in Reservation
      /\ next.size = next.total /\ next.min = rsv.min
      /\ next.got = rsv.got + got
      /\ next.goal = rsv.goal
      /\ rsv.got \in Nat /\ rsv.min \in Nat /\ rsv.size \in Nat /\ rsv.goal \in Nat
  BY AfterFacts
<1>4. /\ Chunk <= rsv.min
      /\ want # 0 => /\ regions = <<>> /\ rsv.got = 0
                     /\ rsv.size = want * Chunk /\ rsv.min = want * Chunk
                     /\ rsv.goal = want * Chunk
      /\ want = 0 => rsv.goal = SIZE /\ n + c * L >= rsv.got
  BY DEF BoxInv, ReserveInv, Adds
<1>5. /\ want' = want
      /\ stage' = IF Enough(next) THEN "up" ELSE "reserve"
      /\ rsv' = IF Enough(next) THEN NoRsv ELSE next
      /\ want \in Nat
  BY DEF Adds, BoxInv, TypeOK
<1>6. /\ Cardinality(AllPages)' = n + s
      /\ (2 * (Chunk - 1) * Len(regions))' = c * (L + 1)
      /\ c * (L + 1) \in Nat
  BY <1>2 DEF AllPages, Pages, Span
<1> HIDE DEF L, c, n, s, next
<1>7. ASSUME want = 0 PROVE (n + s) + c * (L + 1) >= next.got
  <2>1. c * (L + 1) = c * L + c /\ c * L \in Nat
    BY <1>2
  <2> QED
    BY <1>1, <1>2, <1>3, <1>4, <1>7, <2>1
<1>8. ASSUME want # 0
      PROVE  Enough(next) /\ (n + s) \div Chunk >= want - 1
  <2>1. got = want * Chunk
    BY <1>1, <1>3, <1>4, <1>8
  <2>2. Enough(next)
    BY <1>1, <1>3, <1>4, <1>8, <2>1 DEF Enough
  <2>3. n = 0
    <3>1. AllPages = {}
      BY <1>4, <1>8 DEF AllPages
    <3> QED
      BY <3>1, FS_EmptySet DEF n
  <2> DEFINE m == s \div Chunk
  <2>4. m \in Int /\ s = Chunk * m
    BY <1>1, IsMultiple
  <2> HIDE DEF m
  <2>5. Chunk * want < Chunk * (m + 2)
    <3>1. Chunk * (m + 2) = Chunk * m + 2 * Chunk /\ Chunk * m \in Int
      BY <2>4, SizesAssumption
    <3>2. want * Chunk = Chunk * want
      BY <1>5, SizesAssumption
    <3>3. c = 2 * Chunk - 2 /\ Chunk \in Nat
      BY SizesAssumption DEF c
    <3> QED
      BY <1>1, <2>1, <2>4, <3>1, <3>2, <3>3
  <2>6. want + 1 <= m + 2
    <3>1. m + 2 \in Int
      BY <2>4
    <3> QED
      BY <1>5, <2>5, <3>1, MultipleOrder
  <2>7. n + s = s
    BY <1>1, <2>3
  <2>8. m >= want - 1
    BY <1>5, <2>4, <2>6
  <2> QED
    BY <2>2, <2>7, <2>8 DEF m
<1>9. ReserveInv'
  <2> SUFFICES ASSUME ~Enough(next) PROVE ReserveInv'
    BY <1>5 DEF ReserveInv
  <2>1. rsv' = next /\ want = 0 /\ want' = 0
    BY <1>5, <1>8
  <2>2. Chunk <= next.min /\ next.size <= next.total /\ next.goal = SIZE
    BY <1>3, <1>4, <2>1 DEF Reservation
  <2>3. (n + s) + c * (L + 1) >= next.got
    BY <1>7, <2>1
  <2>4. (Cardinality(AllPages) + 2 * (Chunk - 1) * Len(regions))' >= next.got
    BY <1>6, <2>3
  <2> QED
    BY <2>1, <2>2, <2>4 DEF ReserveInv
<1>10. AlignmentCostsOneChunk'
  <2> SUFFICES ASSUME Enough(next) PROVE AlignmentCostsOneChunk'
    BY <1>5 DEF AlignmentCostsOneChunk
  <2>1. ASSUME want = 0 PROVE (Cardinality(AllPages) + 2 * (Chunk - 1) * Len(regions))' >= SIZE
    <3>1. next.got >= SIZE
      BY <1>3, <1>4, <2>1 DEF Enough
    <3>2. (n + s) + c * (L + 1) >= SIZE
      BY <1>1, <1>2, <1>3, <1>6, <1>7, <2>1, <3>1, SizesAssumption
    <3> QED
      BY <1>6, <3>2
  <2>2. ASSUME want # 0 PROVE Capacity' >= want - 1
    BY <1>6, <1>8, <2>2 DEF Capacity
  <2> QED
    BY <1>5, <2>1, <2>2 DEF AlignmentCostsOneChunk
<1> QED
  BY <1>9, <1>10

\* One round of boxmap_reserve.
LEMMA ReserveStep ==
  ASSUME BoxInv, NEW got \in Halvings(rsv.size, rsv.min), NEW base \in 1 .. Space - 1,
         NEW up \in BOOLEAN, base + got <= Space, boxmap_reserve(got, base, up)
  PROVE  BoxInv'
<1>1. CASE Adds(got, base)
  <2>1. /\ regions' \in Seq(Region) /\ ours' = ours \cup Span(base, got) /\ stray' = {}
        /\ boxes' = {} /\ Span(base, got) \subseteq 0 .. Space - 1
    BY <1>1, AddedFacts, AddedMap
  <2>2. rsv' \in [total : Nat, size : Nat, min : Nat, got : Nat, goal : Nat,
                  i : 0 .. ADDR_REGION_MAX - 1]
    <3>1. NoRsv \in [total : Nat, size : Nat, min : Nat, got : Nat, goal : Nat,
                     i : 0 .. ADDR_REGION_MAX - 1]
      BY SizesAssumption DEF NoRsv
    <3>2. /\ After(got) \in Reservation /\ After(got).i = rsv.i + 1
          /\ rsv.i \in 0 .. ADDR_REGION_MAX - 1
      BY <1>1, AfterFacts
    <3>3. ~Enough(After(got)) => After(got).i # ADDR_REGION_MAX
      BY <1>1 DEF Adds, LastRound
    <3>4. ~Enough(After(got)) => After(got).i \in 0 .. ADDR_REGION_MAX - 1
      BY <3>2, <3>3, SizesAssumption
    <3>5. rsv' = IF Enough(After(got)) THEN NoRsv ELSE After(got)
      BY <1>1 DEF Adds
    <3> QED
      BY <3>1, <3>2, <3>4, <3>5 DEF Reservation
  <2>3. stage' \in {"up", "reserve"} /\ UNCHANGED <<want, engines>>
    BY <1>1 DEF Adds
  <2>4. TypeOK'
    BY <2>1, <2>2, <2>3 DEF BoxInv, TypeOK, Region
  <2> QED
    BY <1>1, <2>4, AddedPlaces, AddedRoom DEF BoxInv
<1>2. CASE ~Adds(got, base)
  <2>1. stage = "reserve" /\ FreeAt(base, got) /\ UNCHANGED <<want, boxes, engines>>
    BY DEF boxmap_reserve
  <2>2. Span(base, got) \subseteq 0 .. Space - 1
    BY <2>1, GotFacts
  <2>3. PICK kept \in SUBSET (0 .. Space - 1) : boxmap_delete(kept)
    <3>1. \/ boxmap_delete(Span(base, got))
          \/ boxmap_delete(Span(base, got) \ Pages(Aligned(base, got)))
      BY <1>2 DEF boxmap_reserve, Adds, After
    <3>2. Span(base, got) \ Pages(Aligned(base, got)) \subseteq 0 .. Space - 1
      BY <2>2
    <3> QED
      BY <2>2, <3>1, <3>2
  <2>4. boxes' = {}
    BY <2>1 DEF BoxInv, StageInv
  <2> QED
    BY <2>1, <2>3, <2>4, DeleteStep
<1> QED
  BY <1>1, <1>2

\* What the invariant says of one region.
LEMMA PlacedRegion ==
  ASSUME BoxInv, NEW k \in DOMAIN regions
  PROVE  /\ regions[k].base \in Nat /\ regions[k].size \in Nat
         /\ regions[k].base % Chunk = 0 /\ regions[k].size % Chunk = 0
         /\ Pages(regions[k]) \subseteq ours
<1>1. regions \in Seq(Region)
  BY DEF BoxInv, TypeOK, Region
<1>2. regions[k] \in Region
  BY <1>1
<1>3. /\ regions[k].base % Chunk = 0 /\ regions[k].size % Chunk = 0
      /\ Pages(regions[k]) \subseteq ours
  BY DEF BoxInv, RegionInv
<1> QED
  BY <1>2, <1>3 DEF Region

\* The chunk lps_box_new takes: its first page, in region k at idx.
Slot(k, idx) == regions[k].base + idx * Chunk

\* What lps_box_new does, with the region and the chunk named.
Takes(k, idx) ==
  /\ stage = "up" /\ k \in DOMAIN regions
  /\ idx \in 0 .. Chunks(regions[k]) - 1 /\ idx \notin regions[k].bits
  /\ regions' = [regions EXCEPT ![k] = Allocated(@, idx)]
  /\ boxes' = boxes \cup {Slot(k, idx)}
  /\ UNCHANGED <<stage, want, rsv, ours, stray, engines>>

\* A map that is not full has a region that is not, and that region a chunk
\* whose bit is not set; the search, which may look behind the last chunk,
\* stops before its end.
LEMMA FoundSlot ==
  ASSUME BoxInv, lps_box_new
  PROVE  \E k, idx : Takes(k, idx)
<1> DEFINE K    == {k \in DOMAIN regions : ~extalloc_is_full(regions[k])}
           Z(r) == {i \in 0 .. 8 * Chunks(r) - 1 : i \notin r.bits}
<1>1. PICK k : k = Min(K)
  OBVIOUS
<1>2. regions \in Seq(Region)
  BY DEF BoxInv, TypeOK, Region
<1>3. k \in DOMAIN regions /\ ~extalloc_is_full(regions[k])
  <2>1. K # {}
    BY DEF lps_box_new, isfull
  <2>2. K \subseteq Nat
    BY <1>2
  <2>3. Min(K) \in K
    BY <2>1, <2>2, MinOfNaturals
  <2> QED
    BY <1>1, <2>3
<1>4. PICK i \in 0 .. Chunks(regions[k]) - 1 : i \notin regions[k].bits
  BY <1>3 DEF extalloc_is_full
<1>5. Chunks(regions[k]) \in Int
  <2>1. regions[k].size \in Int
    <3>1. regions[k] \in Region
      BY <1>2, <1>3
    <3> QED
      BY <3>1 DEF Region
  <2> QED
    BY <2>1, Division DEF Chunks
<1>6. PICK idx : idx = Min(Z(regions[k]))
  OBVIOUS
<1>7. idx \in 0 .. Chunks(regions[k]) - 1 /\ idx \notin regions[k].bits
  <2>1. i \in Z(regions[k])
    BY <1>4, <1>5
  <2>2. Z(regions[k]) \subseteq Nat
    BY <1>5
  <2>3. Min(Z(regions[k])) \in Z(regions[k]) /\ Min(Z(regions[k])) <= i
    BY <2>1, <2>2, MinOfNaturals
  <2>4. idx \in Z(regions[k]) /\ idx <= i
    BY <1>6, <2>3
  <2> QED
    BY <1>4, <1>5, <2>4
<1>8. k = slot_region /\ idx = bitvec_find_zeroes(regions[k])
  BY <1>1, <1>6 DEF slot_region, bitvec_find_zeroes
<1>9. Takes(k, idx)
  BY <1>3, <1>7, <1>8 DEF lps_box_new, Takes, Slot
<1> QED
  BY <1>9

\* Chunk i of region k: a whole one, and i is found again from its first page.
LEMMA ChunkAt ==
  ASSUME BoxInv, NEW k \in DOMAIN regions, NEW i \in 0 .. Chunks(regions[k]) - 1,
         NEW b, b = Slot(k, i)
  PROVE  /\ b \in Nat /\ b % Chunk = 0 /\ (b - regions[k].base) \div Chunk = i
         /\ b \in Pages(regions[k]) /\ Span(b, Chunk) \subseteq Pages(regions[k])
<1> DEFINE r == regions[k]
           n == Chunks(r)
<1>1. i \in 0 .. n - 1
  OBVIOUS
<1>2. r.base \in Nat /\ r.size \in Nat
  BY PlacedRegion
<1>3. r.base % Chunk = 0 /\ r.size % Chunk = 0
  BY PlacedRegion
<1>4. n \in Int /\ r.size = Chunk * n
  BY <1>2, <1>3, IsMultiple DEF Chunks
<1>5. PICK p \in Int : r.base = Chunk * p
  BY <1>2, <1>3, IsMultiple
<1>6. b = r.base + i * Chunk
  BY DEF Slot
<1>7. Pages(r) = r.base .. r.base + r.size - 1 /\ Span(b, Chunk) = b .. b + Chunk - 1
  BY DEF Pages, Span
<1> HIDE DEF r, n
<1>8. b = r.base + Chunk * i /\ Chunk * i \in Nat /\ b \in Nat
  BY <1>1, <1>2, <1>4, <1>6, SizesAssumption
<1>9. b % Chunk = 0
  <2>1. b = Chunk * (p + i)
    BY <1>1, <1>4, <1>5, <1>8, SizesAssumption
  <2> QED
    BY <1>1, <1>4, <2>1, Multiple
<1>10. (b - r.base) \div Chunk = i
  <2>1. b - r.base = Chunk * i
    BY <1>2, <1>8
  <2> QED
    BY <1>1, <1>4, <2>1, Multiple
<1>11. b + Chunk <= r.base + r.size
  <2>1. Chunk * (i + 1) <= Chunk * n
    BY <1>1, <1>4, MultipleMono
  <2>2. Chunk * (i + 1) = Chunk * i + Chunk
    BY <1>1, <1>4, SizesAssumption
  <2> QED
    BY <1>2, <1>4, <1>8, <2>1, <2>2, SizesAssumption
<1>12. b \in Pages(r) /\ Span(b, Chunk) \subseteq Pages(r)
  <2>1. r.base <= b
    BY <1>2, <1>8
  <2>2. Chunk \in Nat /\ Chunk >= 1
    BY SizesAssumption
  <2>3. b \in r.base .. r.base + r.size - 1
    BY <1>2, <1>8, <1>11, <2>1, <2>2
  <2>4. b .. b + Chunk - 1 \subseteq r.base .. r.base + r.size - 1
    BY <1>2, <1>8, <1>11, <2>1, <2>2
  <2> QED
    BY <1>7, <2>3, <2>4
<1> QED
  BY <1>8, <1>9, <1>10, <1>12 DEF r

\* The chunk lps_box_new takes is no box yet.
LEMMA SlotFacts ==
  ASSUME BoxInv, NEW k, NEW idx, Takes(k, idx), NEW b, b = Slot(k, idx)
  PROVE  /\ b \in Nat /\ b % Chunk = 0 /\ (b - regions[k].base) \div Chunk = idx
         /\ b \in Pages(regions[k]) /\ Span(b, Chunk) \subseteq Pages(regions[k])
         /\ b \notin boxes
         /\ \A j \in DOMAIN regions \ {k} : b \notin Pages(regions[j])
<1>1. /\ k \in DOMAIN regions /\ idx \in 0 .. Chunks(regions[k]) - 1
      /\ idx \notin regions[k].bits
  BY DEF Takes
<1>2. /\ b \in Nat /\ b % Chunk = 0 /\ (b - regions[k].base) \div Chunk = idx
      /\ b \in Pages(regions[k]) /\ Span(b, Chunk) \subseteq Pages(regions[k])
  BY <1>1, ChunkAt
<1>3. /\ regions[k].bits = {(c - regions[k].base) \div Chunk : c \in boxes \cap Pages(regions[k])}
      /\ \A j \in DOMAIN regions \ {k} : Pages(regions[j]) \cap Pages(regions[k]) = {}
  BY <1>1 DEF BoxInv, BoxesApart
<1>4. b \notin boxes
  BY <1>1, <1>2, <1>3
<1>5. \A j \in DOMAIN regions \ {k} : b \notin Pages(regions[j])
  BY <1>2, <1>3
<1> QED
  BY <1>2, <1>4, <1>5

\* The bit and the counter of the region; nothing else changes in the map.
LEMMA SlotMap ==
  ASSUME BoxInv, NEW k, NEW idx, Takes(k, idx)
  PROVE  /\ k \in DOMAIN regions /\ DOMAIN regions' = DOMAIN regions
         /\ regions' \in Seq(Region) /\ Len(regions') = Len(regions)
         /\ \A j \in DOMAIN regions \ {k} : regions'[j] = regions[j]
         /\ regions'[k].active = regions[k].active + 1
         /\ regions'[k].bits = regions[k].bits \cup {idx}
         /\ \A j \in DOMAIN regions : /\ regions'[j].base = regions[j].base
                                      /\ regions'[j].size = regions[j].size
                                      /\ Pages(regions'[j]) = Pages(regions[j])
         /\ AllPages' = AllPages
<1>1. /\ k \in DOMAIN regions /\ idx \in 0 .. Chunks(regions[k]) - 1
      /\ regions' = [regions EXCEPT ![k] = Allocated(@, idx)]
  BY DEF Takes
<1>2. regions \in Seq(Region) /\ regions[k] \in Region
  <2>1. regions \in Seq(Region)
    BY DEF BoxInv, TypeOK, Region
  <2> QED
    BY <1>1, <2>1
<1> DEFINE r == regions[k]
           q == Allocated(r, idx)
<1>3. /\ q \in Region /\ q.base = r.base /\ q.size = r.size
      /\ q.active = r.active + 1 /\ q.bits = r.bits \cup {idx}
  <2>1. r \in [base : Nat, size : Nat \ {0}, active : Nat, bits : SUBSET Nat]
    BY <1>2 DEF Region
  <2>2. idx \in Nat
    BY <1>1
  <2> HIDE DEF r
  <2>3. q = [r EXCEPT !.active = r.active + 1, !.bits = r.bits \cup {idx}]
    BY DEF Allocated
  <2>4. r.active + 1 \in Nat /\ r.bits \cup {idx} \in SUBSET Nat
    BY <2>1, <2>2
  <2> HIDE DEF q
  <2> QED
    BY <2>1, <2>3, <2>4 DEF Region
<1>4. regions' = [regions EXCEPT ![k] = q]
  BY <1>1
<1> HIDE DEF q, r
<1>5. /\ DOMAIN regions' = DOMAIN regions
      /\ regions' \in Seq(Region) /\ Len(regions') = Len(regions)
      /\ \A j \in DOMAIN regions \ {k} : regions'[j] = regions[j]
      /\ regions'[k] = q
  BY <1>1, <1>2, <1>3, <1>4
<1>6. ASSUME NEW j \in DOMAIN regions
      PROVE  /\ regions'[j].base = regions[j].base /\ regions'[j].size = regions[j].size
             /\ Pages(regions'[j]) = Pages(regions[j])
  <2>1. regions'[j].base = regions[j].base /\ regions'[j].size = regions[j].size
    BY <1>3, <1>5 DEF r
  <2> QED
    BY <2>1 DEF Pages
<1>7. AllPages' = AllPages
  <2>1. AllPages' = UNION {Pages(regions'[j]) : j \in DOMAIN regions'}
    BY DEF AllPages, Pages, Span
  <2>2. AllPages = UNION {Pages(regions[j]) : j \in DOMAIN regions}
    BY DEF AllPages
  <2>3. \A x : x \in AllPages' <=> \E j \in DOMAIN regions' : x \in Pages(regions'[j])
    BY <2>1
  <2>4. \A x : x \in AllPages <=> \E j \in DOMAIN regions : x \in Pages(regions[j])
    BY <2>2
  <2>5. \A x : x \in AllPages' <=> x \in AllPages
    BY <1>5, <1>6, <2>3, <2>4
  <2> QED
    BY <2>5
<1> QED
  BY <1>1, <1>3, <1>5, <1>6, <1>7 DEF r

\* lps_box_new keeps the boxes apart and the counters right.
LEMMA SlotPlaces ==
  ASSUME BoxInv, NEW k, NEW idx, Takes(k, idx)
  PROVE  BoxesApart'
<1>0. PICK b : b = Slot(k, idx)
  OBVIOUS
<1>1. /\ b \in Nat /\ b % Chunk = 0 /\ (b - regions[k].base) \div Chunk = idx
      /\ b \in Pages(regions[k]) /\ Span(b, Chunk) \subseteq Pages(regions[k])
      /\ b \notin boxes
      /\ \A j \in DOMAIN regions \ {k} : b \notin Pages(regions[j])
  BY <1>0, SlotFacts
<1>2. /\ k \in DOMAIN regions /\ DOMAIN regions' = DOMAIN regions
      /\ \A j \in DOMAIN regions \ {k} : regions'[j] = regions[j]
      /\ regions'[k].active = regions[k].active + 1
      /\ regions'[k].bits = regions[k].bits \cup {idx}
      /\ \A j \in DOMAIN regions : /\ regions'[j].base = regions[j].base
                                   /\ Pages(regions'[j]) = Pages(regions[j])
  BY SlotMap
<1>3. boxes' = boxes \cup {b}
  BY <1>0 DEF Takes
<1>4. IsFiniteSet(boxes) /\ BoxesApart
  BY DEF BoxInv, CountInv
<1>5. ASSUME NEW c \in boxes'
      PROVE  /\ c % Chunk = 0
             /\ \E j \in DOMAIN regions' : Span(c, Chunk) \subseteq Pages(regions'[j])
  <2>1. CASE c = b
    BY <1>1, <1>2, <2>1
  <2>2. CASE c \in boxes
    <3>1. c % Chunk = 0 /\ \E j \in DOMAIN regions : Span(c, Chunk) \subseteq Pages(regions[j])
      BY <1>4, <2>2 DEF BoxesApart
    <3> QED
      BY <1>2, <3>1
  <2> QED
    BY <1>3, <2>1, <2>2
<1>6. ASSUME NEW j \in DOMAIN regions'
      PROVE  /\ regions'[j].active = Cardinality(boxes' \cap Pages(regions'[j]))
             /\ regions'[j].bits = {(c - regions'[j].base) \div Chunk :
                                      c \in boxes' \cap Pages(regions'[j])}
  <2> DEFINE P == Pages(regions[j])
             B == boxes \cap P
             v == regions[j].base
  <2>1. /\ regions[j].active = Cardinality(B)
        /\ regions[j].bits = {(c - v) \div Chunk : c \in B}
    BY <1>2, <1>4 DEF BoxesApart
  <2>2. Pages(regions'[j]) = P /\ regions'[j].base = v
    BY <1>2
  <2>3. CASE j # k
    <3>1. boxes' \cap P = B
      BY <1>1, <1>2, <1>3, <2>3
    <3>2. regions'[j] = regions[j]
      BY <1>2, <2>3
    <3>3. boxes' \cap Pages(regions'[j]) = B
      BY <2>2, <3>1, Zenon
    <3>4. Cardinality(boxes' \cap Pages(regions'[j])) = Cardinality(B)
      BY <3>3, Zenon
    <3> HIDE DEF B, P, v
    <3> QED
      BY <2>1, <2>2, <3>2, <3>3, <3>4
  <2>4. CASE j = k
    <3>1. boxes' \cap P = B \cup {b}
      BY <1>1, <1>3, <2>4
    <3>2. IsFiniteSet(B)
      BY <1>4, FS_Subset
    <3>3. b \notin B
      BY <1>1
    <3>4. Cardinality(B \cup {b}) = Cardinality(B) + 1
      BY <3>2, <3>3, FS_AddElement
    <3>5. boxes' \cap Pages(regions'[j]) = B \cup {b}
      BY <2>2, <3>1, Zenon
    <3>6. Cardinality(boxes' \cap Pages(regions'[j])) = Cardinality(B \cup {b})
      BY <3>5, Zenon
    <3>7. /\ regions'[j].active = regions[j].active + 1
          /\ regions'[j].bits = regions[j].bits \cup {idx}
          /\ (b - v) \div Chunk = idx
      BY <1>1, <1>2, <2>4
    <3> HIDE DEF B, P, v
    <3>8. {(c - v) \div Chunk : c \in B \cup {b}} = {(c - v) \div Chunk : c \in B} \cup {idx}
      BY <3>7
    <3> QED
      BY <2>1, <2>2, <3>4, <3>5, <3>6, <3>7, <3>8
  <2> QED
    BY <2>3, <2>4
<1>7. ASSUME NEW i \in DOMAIN regions', NEW j \in (DOMAIN regions') \ {i}
      PROVE  Pages(regions'[j]) \cap Pages(regions'[i]) = {}
  <2>1. Pages(regions[j]) \cap Pages(regions[i]) = {}
    BY <1>2, <1>4, <1>7 DEF BoxesApart
  <2> QED
    BY <1>2, <1>7, <2>1
<1> QED
  BY <1>5, <1>6, <1>7 DEF BoxesApart, Pages, Span

\* lps_box_new.
LEMMA BoxNewStep ==
  ASSUME BoxInv, lps_box_new
  PROVE  BoxInv'
<1>1. PICK k, idx : Takes(k, idx)
  BY FoundSlot
<1>2. /\ stage = "up" /\ UNCHANGED <<stage, want, rsv, ours, stray, engines>>
      /\ boxes' = boxes \cup {Slot(k, idx)}
  BY <1>1 DEF Takes
<1>3. Slot(k, idx) \in Nat
  BY <1>1, SlotFacts
<1>4. /\ DOMAIN regions' = DOMAIN regions
      /\ regions' \in Seq(Region) /\ Len(regions') = Len(regions)
      /\ \A j \in DOMAIN regions : /\ regions'[j].base = regions[j].base
                                   /\ regions'[j].size = regions[j].size
                                   /\ Pages(regions'[j]) = Pages(regions[j])
      /\ AllPages' = AllPages
  BY <1>1, SlotMap
<1>5. TypeOK'
  BY <1>2, <1>3, <1>4 DEF BoxInv, TypeOK, Region
<1>6. RegionInv'
  <2>1. ASSUME NEW j \in DOMAIN regions'
        PROVE  /\ regions'[j].base % Chunk = 0 /\ regions'[j].size % Chunk = 0
               /\ Pages(regions'[j]) \subseteq ours'
    BY <1>2, <1>4 DEF BoxInv, RegionInv
  <2> QED
    BY <2>1 DEF RegionInv, Pages, Span
<1>7. StageInv' /\ ReserveInv'
  BY <1>2 DEF StageInv, ReserveInv
<1>8. CountInv'
  <2>1. IsFiniteSet(boxes')
    BY <1>2, FS_AddElement DEF BoxInv, CountInv
  <2> QED
    BY <1>4, <2>1 DEF BoxInv, CountInv, Firsts
<1>9. OnlyOwnPages'
  BY <1>2, <1>4 DEF BoxInv, OnlyOwnPages
<1>10. AlignmentCostsOneChunk'
  <2>1. /\ want # 0 => Capacity >= want - 1
        /\ want = 0 => Cardinality(AllPages) + 2 * (Chunk - 1) * Len(regions) >= SIZE
    BY <1>2 DEF BoxInv, AlignmentCostsOneChunk
  <2>2. Capacity' = Capacity /\ Cardinality(AllPages)' = Cardinality(AllPages)
    BY <1>4 DEF Capacity
  <2> QED
    BY <1>2, <1>4, <2>1, <2>2 DEF AlignmentCostsOneChunk
<1> QED
  BY <1>1, <1>5, <1>6, <1>7, <1>8, <1>9, <1>10, SlotPlaces DEF BoxInv

\* Every step keeps the invariant.
LEMMA NextBox ==
  BoxInv /\ [Next]_vars => BoxInv'
<1> SUFFICES ASSUME BoxInv, [Next]_vars PROVE BoxInv'
  OBVIOUS
<1>1. CASE \E n \in Wants : lps_new(n)
  BY <1>1, NewStep
<1>2. CASE reserve_fails
  <2>1. boxes' = {} /\ boxmap_delete({}) /\ UNCHANGED <<want, engines>>
    BY <1>2 DEF reserve_fails, BoxInv, StageInv
  <2> QED
    BY <2>1, DeleteStep
<1>3. CASE \E got \in Halvings(rsv.size, rsv.min), base \in 1 .. Space - 1, up \in BOOLEAN :
             base + got <= Space /\ boxmap_reserve(got, base, up)
  BY <1>3, ReserveStep
<1>4. CASE lps_box_new
  BY <1>4, BoxNewStep
<1>5. CASE /\ stage = "up" /\ isfull /\ stage' = "crashed"
           /\ UNCHANGED <<want, rsv, regions, boxes, ours, stray, engines>>
  <2>1. RegionInv' /\ CountInv' /\ BoxesApart' /\ OnlyOwnPages'
    BY <1>5, SamePlaces
  <2>2. isfull'
    BY <1>5 DEF isfull
  <2>3. TypeOK' /\ StageInv' /\ ReserveInv'
    BY <1>5, <2>2 DEF BoxInv, TypeOK, StageInv, ReserveInv
  <2>4. AlignmentCostsOneChunk'
    BY <1>5 DEF BoxInv, AlignmentCostsOneChunk, Capacity, AllPages
  <2> QED
    BY <2>1, <2>3, <2>4 DEF BoxInv
<1>6. CASE lps_free
  <2>1. boxes' = {} /\ boxmap_delete({}) /\ UNCHANGED <<want, engines>>
    BY <1>6 DEF lps_free
  <2> QED
    BY <2>1, DeleteStep
<1>7. CASE UNCHANGED vars
  <2>1. RegionInv' /\ CountInv' /\ BoxesApart' /\ OnlyOwnPages'
    BY <1>7, SamePlaces DEF vars
  <2>2. TypeOK' /\ StageInv' /\ ReserveInv' /\ AlignmentCostsOneChunk'
    BY <1>7 DEF vars, BoxInv, TypeOK, StageInv, ReserveInv, AlignmentCostsOneChunk, Capacity, AllPages,
                isfull
  <2> QED
    BY <2>1, <2>2 DEF BoxInv
<1> QED
  BY <1>1, <1>2, <1>3, <1>4, <1>5, <1>6, <1>7 DEF Next, lps_proc_new

LEMMA BoxHolds == Spec => []BoxInv
  BY InitBox, NextBox, PTL DEF Spec

-----------------------------------------------------------------------------
(* What the invariant shows *)

\* The state stays within its types.
THEOREM BoxTypesHold == Spec => []TypeOK
<1>1. BoxInv => TypeOK
  BY DEF BoxInv
<1> QED
  BY <1>1, BoxHolds, PTL

\* Boxes are whole chunks of reserved memory and have no page in common, and
\* the counter and the bit vector of every region tell of exactly its boxes.
THEOREM BoxesApartHolds == Spec => []BoxesApart
<1>1. BoxInv => BoxesApart
  BY DEF BoxInv
<1> QED
  BY <1>1, BoxHolds, PTL

\* No MAP_FIXED mapping and no munmap of the engine touches a page that was not
\* reserved for it, whatever the host answers and however often an engine is
\* made and freed.
THEOREM OnlyOwnPagesHolds == Spec => []OnlyOwnPages
<1>1. BoxInv => OnlyOwnPages
  BY DEF BoxInv
<1> QED
  BY <1>1, BoxHolds, PTL

\* An engine that is up falls short of the room it was made for by what the
\* alignment of its regions costs, and by no more.
THEOREM AlignmentCostsOneChunkHolds == Spec => []AlignmentCostsOneChunk
<1>1. BoxInv => AlignmentCostsOneChunk
  BY DEF BoxInv
<1> QED
  BY <1>1, BoxHolds, PTL

\* Every box begins a chunk of a region.
LEMMA BoxIsChunk ==
  ASSUME BoxInv, NEW b \in boxes
  PROVE  /\ b \in Nat /\ b % Chunk = 0
         /\ \E k \in DOMAIN regions : b \in Pages(regions[k]) /\ Span(b, Chunk) \subseteq Pages(regions[k])
<1>1. b \in Nat
  BY DEF BoxInv, TypeOK
<1>2. b % Chunk = 0 /\ \E k \in DOMAIN regions : Span(b, Chunk) \subseteq Pages(regions[k])
  BY DEF BoxInv, BoxesApart
<1>3. b \in Span(b, Chunk)
  BY <1>1, SizesAssumption DEF Span
<1> QED
  BY <1>1, <1>2, <1>3

\* Two multiples of the chunk size with the same quotient after an aligned base
\* are the same.
LEMMA SameChunk ==
  ASSUME NEW u \in Nat, NEW x \in Nat, NEW y \in Nat,
         u % Chunk = 0, x % Chunk = 0, y % Chunk = 0,
         (x - u) \div Chunk = (y - u) \div Chunk
  PROVE  x = y
<1>1. PICK p \in Int : u = Chunk * p
  BY IsMultiple
<1>2. PICK q \in Int : x = Chunk * q
  BY IsMultiple
<1>3. PICK t \in Int : y = Chunk * t
  BY IsMultiple
<1>4. x - u = Chunk * (q - p) /\ y - u = Chunk * (t - p)
  BY <1>1, <1>2, <1>3, SizesAssumption
<1>5. (x - u) \div Chunk = q - p /\ (y - u) \div Chunk = t - p
  BY <1>4, Multiple
<1>6. q = t
  BY <1>5
<1> QED
  BY <1>2, <1>3, <1>6

\* The bit vectors are full exactly when every chunk is a box.
LEMMA FullMeansUsed ==
  ASSUME BoxInv
  PROVE  isfull <=> boxes = Firsts(AllPages)
<1>1. boxes \subseteq Firsts(AllPages)
  BY BoxIsChunk DEF Firsts, AllPages
<1>2. ASSUME isfull, NEW x \in Firsts(AllPages) PROVE x \in boxes
  <2>1. PICK k \in DOMAIN regions : x \in Pages(regions[k])
    BY <1>2 DEF Firsts, AllPages
  <2> DEFINE r == regions[k]
             i == (x - r.base) \div Chunk
  <2>2. /\ r.base \in Nat /\ r.size \in Nat /\ r.base % Chunk = 0 /\ r.size % Chunk = 0
    BY PlacedRegion
  <2>3. x \in Nat /\ r.base <= x /\ x < r.base + r.size /\ x % Chunk = 0
    BY <1>2, <2>1, <2>2 DEF Pages, Span, Firsts
  <2>4. i \in 0 .. Chunks(r) - 1
    <3>1. PICK n \in Int : r.size = Chunk * n /\ n = Chunks(r)
      BY <2>2, IsMultiple DEF Chunks
    <3>2. PICK p \in Int : r.base = Chunk * p
      BY <2>2, IsMultiple
    <3>3. PICK q \in Int : x = Chunk * q
      BY <2>3, IsMultiple
    <3>4. x - r.base = Chunk * (q - p)
      BY <3>2, <3>3, SizesAssumption
    <3>5. i = q - p
      BY <3>4, Multiple
    <3>6. Chunk * q < Chunk * (p + n)
      <4>1. Chunk * (p + n) = Chunk * p + Chunk * n
        BY <3>1, <3>2, SizesAssumption
      <4> QED
        BY <2>3, <3>1, <3>2, <3>3, <4>1
    <3>7. q + 1 <= p + n
      BY <3>6, MultipleOrder
    <3>8. Chunk * p < Chunk * (q + 1)
      <4>1. Chunk * (q + 1) = Chunk * q + Chunk /\ Chunk >= 1
        BY SizesAssumption
      <4> QED
        BY <2>2, <2>3, <3>2, <3>3, <4>1, SizesAssumption
    <3>9. p + 1 <= q + 1
      BY <3>8, MultipleOrder
    <3> HIDE DEF i
    <3> QED
      BY <3>1, <3>5, <3>7, <3>9
  <2>5. i \in r.bits
    BY <1>2, <2>4 DEF isfull, extalloc_is_full
  <2>6. PICK b \in boxes \cap Pages(r) : i = (b - r.base) \div Chunk
    <3>1. r.bits = {(b - r.base) \div Chunk : b \in boxes \cap Pages(r)}
      BY DEF BoxInv, BoxesApart
    <3> HIDE DEF r, i
    <3> QED
      BY <2>5, <3>1
  <2>7. b \in Nat /\ b % Chunk = 0
    BY <2>6, BoxIsChunk
  <2>8. x = b
    BY <2>2, <2>3, <2>6, <2>7, SameChunk
  <2> QED
    BY <2>6, <2>8
<1>3. ASSUME boxes = Firsts(AllPages) PROVE isfull
  <2>1. SUFFICES ASSUME NEW k \in DOMAIN regions, NEW i \in 0 .. Chunks(regions[k]) - 1
                 PROVE  i \in regions[k].bits
    BY DEF isfull, extalloc_is_full
  <2>2. PICK b : b = Slot(k, i)
    OBVIOUS
  <2>3. b % Chunk = 0 /\ (b - regions[k].base) \div Chunk = i /\ b \in Pages(regions[k])
    BY <2>2, ChunkAt
  <2>4. b \in boxes
    BY <1>3, <2>3 DEF Firsts, AllPages
  <2>5. regions[k].bits = {(c - regions[k].base) \div Chunk : c \in boxes \cap Pages(regions[k])}
    BY DEF BoxInv, BoxesApart
  <2> QED
    BY <2>3, <2>4, <2>5
<1> QED
  BY <1>1, <1>2, <1>3

\* lps_box_new refuses, and lps_proc_new crashes, only when every chunk of every
\* region is a box.
THEOREM FullOnlyWhenUsedHolds == Spec => []FullOnlyWhenUsed
<1>1. ASSUME BoxInv PROVE FullOnlyWhenUsed
  <2> DEFINE F == Firsts(AllPages)
             n == Cardinality(F)
  <2>1. IsFiniteSet(F)
    <3>1. F \subseteq AllPages /\ IsFiniteSet(AllPages)
      BY <1>1 DEF Firsts, BoxInv, CountInv
    <3> QED
      BY <3>1, FS_Subset
  <2>2. n \in Int
    BY <2>1, FS_CardinalityType
  <2>3. Capacity = n
    <3>1. Cardinality(AllPages) = Chunk * n
      BY <1>1 DEF BoxInv, CountInv
    <3> HIDE DEF n
    <3> QED
      BY <2>2, <3>1, Multiple DEF Capacity
  <2>4. boxes \subseteq F
    BY <1>1, BoxIsChunk DEF Firsts, AllPages
  <2>5. Cardinality(boxes) = n <=> boxes = F
    <3> HIDE DEF F
    <3> QED
      BY <2>1, <2>4, FS_Subset
  <2>6. isfull <=> Cardinality(boxes) = Capacity
    BY <1>1, <2>3, <2>5, FullMeansUsed
  <2> QED
    BY <1>1, <2>6 DEF FullOnlyWhenUsed, BoxInv, StageInv
<1> QED
  BY <1>1, BoxHolds, PTL

\* Which buffers bufcheck accepts in the boxes there really are, for every word
\* size and all sizes of a buffer, the empty one and those that wrap included.
THEOREM BuffersAcceptedHolds == Spec => []BuffersAccepted
<1>1. ASSUME BoxInv PROVE BuffersAccepted
  <2>1. SUFFICES ASSUME NEW base \in boxes, NEW p \in Word, NEW size \in Word,
                        NEW b, b = [base |-> base, size |-> Chunk]
                 PROVE  bufcheck(b, p, size, 1) <=>
                          \/ size # 0 /\ Span(p, size) \subseteq Span(base, Chunk)
                          \/ size = 0 /\ p \in Span(base + 1, Chunk - 1)
                          \/ /\ p \in Span(base, Chunk)
                             /\ (p + size - 1) - WordMod \in Span(base, Chunk)
    BY DEF BuffersAccepted
  <2>2. base \in Nat /\ base + Chunk < WordMod /\ Chunk \in Nat \ {0} /\ WordMod \in Nat
    <3>1. PICK k \in DOMAIN regions : Span(base, Chunk) \subseteq Pages(regions[k])
      BY <1>1, BoxIsChunk
    <3>2. Span(base, Chunk) \subseteq 0 .. Space - 1
      BY <1>1, <3>1, PlacedRegion DEF BoxInv, TypeOK
    <3>3. base \in Nat
      BY <1>1, BoxIsChunk
    <3>4. base + Chunk - 1 \in Span(base, Chunk)
      BY <3>3, SizesAssumption DEF Span
    <3>5. base + Chunk - 1 \in 0 .. Space - 1
      BY <3>2, <3>4
    <3> QED
      BY <3>3, <3>5, SizesAssumption, HostAssumption, WordAssumption
  <2>3. b.base = base /\ b.size = Chunk /\ p \in Nat /\ size \in Nat /\ p < WordMod /\ size < WordMod
    BY <2>1, <2>2 DEF Word
  <2>4. bufcheck(b, p, size, 1) <=>
          p \in Span(base, Chunk) /\ Pred(Plus(p, size)) \in Span(base, Chunk)
    <3>1. p % 1 = 0
      BY <2>3
    <3>2. Pred(Plus(p, size)) \in Int
      BY <2>2, <2>3 DEF Pred, Plus
    <3> QED
      BY <2>2, <2>3, <3>1, <3>2 DEF bufcheck, ptrcheck, Span
  <2>5. CASE size = 0
    <3>1. Plus(p, size) = p
      BY <2>2, <2>3, <2>5 DEF Plus
    <3>2. p \in Span(base, Chunk) /\ Pred(p) \in Span(base, Chunk) <=> p \in Span(base + 1, Chunk - 1)
      BY <2>2, <2>3 DEF Pred, Span
    <3>3. (p + size - 1) - WordMod \notin Span(base, Chunk)
      BY <2>2, <2>3, <2>5 DEF Span
    <3> QED
      BY <2>4, <2>5, <3>1, <3>2, <3>3
  <2>6. CASE size # 0 /\ p + size <= WordMod
    <3>1. Pred(Plus(p, size)) = (p + size) - 1
      BY <2>2, <2>3, <2>6 DEF Pred, Plus
    <3>2. (p + size - 1) - WordMod \notin Span(base, Chunk)
      BY <2>2, <2>3, <2>6 DEF Span
    <3>3. p \in Span(p, size) /\ (p + size) - 1 \in Span(p, size)
      BY <2>3, <2>6 DEF Span
    <3>4. p \in Span(base, Chunk) /\ (p + size) - 1 \in Span(base, Chunk)
            => Span(p, size) \subseteq Span(base, Chunk)
      BY <2>2, <2>3, <2>6 DEF Span
    <3> QED
      BY <2>4, <2>6, <3>1, <3>2, <3>3, <3>4
  <2>7. CASE size # 0 /\ p + size > WordMod
    <3>1. Pred(Plus(p, size)) = (p + size - 1) - WordMod
      BY <2>2, <2>3, <2>7 DEF Pred, Plus
    <3>2. ~(Span(p, size) \subseteq Span(base, Chunk))
      <4>1. (p + size) - 1 \in Span(p, size) /\ (p + size) - 1 \notin Span(base, Chunk)
        BY <2>2, <2>3, <2>7 DEF Span
      <4> QED
        BY <4>1
    <3> QED
      BY <2>4, <2>7, <3>1, <3>2
  <2> QED
    BY <2>2, <2>3, <2>5, <2>6, <2>7
<1> QED
  BY <1>1, BoxHolds, PTL
=============================================================================
