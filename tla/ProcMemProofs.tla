---------------------------- MODULE ProcMemProofs ----------------------------
(***************************************************************************)
(* Proofs about modules MMap and ProcMem for every size of the box, of the *)
(* program, of the heap and of the stack, and for every argument of the    *)
(* system calls.                                                           *)
(***************************************************************************)
EXTENDS ProcMem, WellFoundedInduction, TLAPS

-----------------------------------------------------------------------------
(* Numbers *)

\* A set of natural numbers that is not empty has a least one.
LEMMA LeastNatural ==
  ASSUME NEW S, S \subseteq Nat, S # {}
  PROVE  \E x \in S : \A y \in S : x <= y
<1> DEFINE R == {ss \in Nat \X Nat : ss[1] < ss[2]}
<1>1. IsWellFoundedOn(R, Nat)
  <2>1. OpToRel(<, Nat) = R
    BY DEF OpToRel
  <2> QED
    BY <2>1, NatLessThanWellFounded
<1>2. PICK x \in S : \A y \in S : <<y, x>> \notin R
  BY <1>1, WFMin
<1>3. ASSUME NEW y \in S PROVE x <= y
  <2>1. x \in Nat /\ y \in Nat /\ <<y, x>> \notin R
    BY <1>2
  <2>2. ~(y < x)
    BY <2>1
  <2> QED
    BY <2>1, <2>2
<1> QED
  BY <1>3

\* What Min gives.
LEMMA MinOfNaturals ==
  ASSUME NEW S, S \subseteq Nat, S # {}
  PROVE  Min(S) \in S /\ \A y \in S : Min(S) <= y
BY LeastNatural DEF Min

\* A set of natural numbers with a bound has a greatest one: what Max gives.
LEMMA MaxOfNaturals ==
  ASSUME NEW S, S \subseteq Nat, S # {}, NEW b \in Nat, \A y \in S : y <= b
  PROVE  Max(S) \in S /\ \A y \in S : Max(S) >= y
<1> DEFINE T == {b - y : y \in S}
<1>1. T \subseteq Nat /\ T # {}
  <2>1. ASSUME NEW y \in S PROVE b - y \in Nat
    OBVIOUS
  <2> QED
    BY <2>1
<1>2. PICK z \in T : \A y \in T : z <= y
  BY <1>1, LeastNatural
<1>3. PICK x \in S : z = b - x
  BY <1>2
<1>4. ASSUME NEW y \in S PROVE x >= y
  <2>1. b - x <= b - y
    BY <1>2, <1>3
  <2> QED
    BY <2>1, <1>3
<1> QED
  BY <1>4 DEF Max

\* Induction over an interval, as a statement about a set.
LEMMA IntervalInduction ==
  ASSUME NEW a \in Nat, NEW b \in Nat, NEW S, a \in S,
         \A k \in a + 1 .. b : k - 1 \in S => k \in S
  PROVE  a .. b \subseteq S
<1> DEFINE T == {k \in a .. b : k \notin S}
<1> SUFFICES ASSUME T # {} PROVE FALSE
  OBVIOUS
<1>1. T \subseteq Nat
  OBVIOUS
<1>2. PICK x \in T : \A y \in T : x <= y
  BY <1>1, LeastNatural
<1>3. x \in a + 1 .. b /\ x - 1 \in a .. b /\ x - 1 \notin T
  BY <1>2
<1> QED
  BY <1>2, <1>3

-----------------------------------------------------------------------------
(* The loop of mm_unmap_cb as a recursive function *)

\* f has the states of the loop.
IsLoop(f, all, from, addr, length, orig) ==
  /\ f[from - 1] = [out |-> SubSeq(all, 1, from - 1), cursor |-> orig, gone |-> {}, stop |-> FALSE]
  /\ \A k \in from .. Len(all) :
       f[k] = UnmapVisit(f[k - 1], all[k], addr, length, orig, Len(all) + 1)

\* The equation that defines it has a solution.
LEMMA UnmapStepsDef ==
  ASSUME NEW all, NEW from \in Nat \ {0}, NEW addr, NEW length, NEW orig,
         Len(all) \in Nat, from - 1 <= Len(all)
  PROVE  IsLoop(UnmapSteps(all, from, addr, length, orig), all, from, addr, length, orig)
<1> DEFINE V(x, k) == UnmapVisit(x, all[k], addr, length, orig, Len(all) + 1)
           start == [out |-> SubSeq(all, 1, from - 1), cursor |-> orig, gone |-> {}, stop |-> FALSE]
           a == from - 1
           B(k, f) == IF k = a THEN [out |-> SubSeq(all, 1, k), cursor |-> orig, gone |-> {}, stop |-> FALSE]
                      ELSE V(f[k - 1], k)
           Solves(f, j) == f = [k \in a .. j |-> B(k, f)]
           S == {j \in Nat : \E f : Solves(f, j)}
<1>1. a \in S
  <2> DEFINE f == [k \in a .. a |-> start]
  <2>1. Solves(f, a)
    <3>1. \A k \in a .. a : k = a
      OBVIOUS
    <3>2. ASSUME NEW k \in a .. a PROVE f[k] = B(k, f)
      BY <3>1
    <3> HIDE DEF B
    <3> QED
      BY <3>2
  <2>2. a \in Nat
    OBVIOUS
  <2> HIDE DEF f, Solves
  <2> QED
    BY <2>1, <2>2
<1>2. ASSUME NEW k \in a + 1 .. Len(all), k - 1 \in S
      PROVE  k \in S
  <2>1. PICK g : Solves(g, k - 1)
    BY <1>2
  <2> DEFINE f == [j \in a .. k |-> IF j = k THEN V(g[k - 1], k) ELSE g[j]]
  <2>2. ASSUME NEW j \in a .. k PROVE f[j] = B(j, f)
    <3>1. CASE j = k
      <4>1. f[k - 1] = g[k - 1] /\ j # a /\ f[j] = V(g[k - 1], k)
        BY <3>1
      <4> HIDE DEF V, f
      <4> QED
        BY <4>1, <3>1
    <3>2. CASE j # k /\ j # a
      <4>1. j \in a .. k - 1 /\ j - 1 \in a .. k - 1 /\ f[j] = g[j] /\ f[j - 1] = g[j - 1]
        BY <3>2
      <4>2. g[j] = V(g[j - 1], j)
        <5> HIDE DEF V
        <5> QED
          BY <4>1, <2>1, <3>2
      <4> HIDE DEF V, f
      <4> QED
        BY <4>1, <4>2, <3>2
    <3>3. CASE j = a
      <4>1. j \in a .. k - 1 /\ f[j] = g[j]
        BY <3>3
      <4> HIDE DEF V, f
      <4> QED
        BY <4>1, <2>1, <3>3
    <3> QED
      BY <3>1, <3>2, <3>3
  <2>3. f = [j \in a .. k |-> B(j, f)]
    <3>1. DOMAIN f = a .. k /\ f = [j \in a .. k |-> f[j]]
      OBVIOUS
    <3> HIDE DEF f, B
    <3> QED
      BY <2>2, <3>1
  <2>4. Solves(f, k)
    BY <2>3
  <2> HIDE DEF f, Solves
  <2> QED
    BY <2>4
<1>3. a .. Len(all) \subseteq S
  <2>1. a \in Nat
    OBVIOUS
  <2> HIDE DEF S, a
  <2> QED
    BY <1>1, <1>2, <2>1, IntervalInduction
<1>4. \E f : Solves(f, Len(all))
  <2>1. Len(all) \in a .. Len(all)
    OBVIOUS
  <2>2. Len(all) \in S
    BY <1>3, <2>1
  <2> QED
    BY <2>2
<1>5. UnmapSteps(all, from, addr, length, orig) = CHOOSE f : Solves(f, Len(all))
  BY DEF UnmapSteps
<1> DEFINE f == UnmapSteps(all, from, addr, length, orig)
<1>6. Solves(f, Len(all))
  <2> HIDE DEF Solves
  <2> QED
    BY <1>4, <1>5
<1>7. f[a] = start
  <2> HIDE DEF V, f
  <2> QED
    BY <1>6
<1>8. ASSUME NEW k \in from .. Len(all) PROVE f[k] = V(f[k - 1], k)
  <2>1. k \in a .. Len(all) /\ k # a
    OBVIOUS
  <2> HIDE DEF V, f, a
  <2> QED
    BY <1>6, <2>1
<1> HIDE DEF f
<1> QED
  BY <1>7, <1>8 DEF f, IsLoop

-----------------------------------------------------------------------------
(* Lists of mappings *)

\* A node inside an operation.
Piece == [base : Nat, len : Nat, info : Infos, id : Nat]

\* Node x has page p, for i.
At(x, p, i) == x.base <= p /\ p < End(x) /\ x.info = i

\* The nodes of list s are not empty, in order, apart, and end by b.
Listing(s, b) ==
  /\ \A k \in DOMAIN s : s[k].len # 0 /\ End(s[k]) <= b
  /\ \A j, k \in DOMAIN s : j < k => End(s[j]) <= s[k].base

\* A node of list s has page p, for i.
Covers(s, p, i) == \E k \in DOMAIN s : At(s[k], p, i)

\* What a list is when a node goes to its end.
LEMMA Appended ==
  ASSUME NEW X, NEW s \in Seq(X), NEW x \in X
  PROVE  /\ Append(s, x) \in Seq(X) /\ DOMAIN Append(s, x) = DOMAIN s \cup {Len(s) + 1}
         /\ Len(s) + 1 \notin DOMAIN s /\ \A k \in DOMAIN s : k < Len(s) + 1
         /\ Append(s, x)[Len(s) + 1] = x /\ \A k \in DOMAIN s : Append(s, x)[k] = s[k]
OBVIOUS

LEMMA ListingAppend ==
  ASSUME NEW s \in Seq(Piece), NEW x \in Piece, NEW b \in Nat, NEW c \in Nat,
         Listing(s, b), x.len # 0, b <= x.base, End(x) <= c
  PROVE  Append(s, x) \in Seq(Piece) /\ Listing(Append(s, x), c)
<1> DEFINE t == Append(s, x)
<1>1. /\ t \in Seq(Piece) /\ DOMAIN t = DOMAIN s \cup {Len(s) + 1}
      /\ Len(s) + 1 \notin DOMAIN s /\ \A k \in DOMAIN s : k < Len(s) + 1
      /\ t[Len(s) + 1] = x /\ \A k \in DOMAIN s : t[k] = s[k]
  BY Appended
<1>2. \A k \in DOMAIN s : s[k] \in Piece /\ k \in Nat
  OBVIOUS
<1> HIDE DEF t
<1>3. ASSUME NEW k \in DOMAIN t PROVE t[k].len # 0 /\ End(t[k]) <= c
  BY <1>1, <1>2 DEF Listing, End, Piece
<1>4. ASSUME NEW j \in DOMAIN t, NEW k \in DOMAIN t, j < k PROVE End(t[j]) <= t[k].base
  <2>1. j \in DOMAIN s
    BY <1>1, <1>2, <1>4
  <2>2. CASE k \in DOMAIN s
    BY <1>1, <1>4, <2>1, <2>2 DEF Listing
  <2>3. CASE k = Len(s) + 1
    <3>1. End(s[j]) <= b /\ End(s[j]) \in Int
      BY <2>1, <1>2 DEF Listing, End, Piece
    <3>2. t[j] = s[j] /\ t[k] = x /\ x.base \in Int
      BY <1>1, <2>1, <2>3 DEF Piece
    <3> QED
      BY <3>1, <3>2
  <2> QED
    BY <1>1, <2>2, <2>3
<1> QED
  BY <1>1, <1>3, <1>4 DEF Listing, t

LEMMA ListingLater ==
  ASSUME NEW s \in Seq(Piece), NEW b \in Nat, NEW c \in Nat, Listing(s, b), b <= c
  PROVE  Listing(s, c)
<1>1. \A k \in DOMAIN s : s[k] \in Piece
  OBVIOUS
<1>2. \A k \in DOMAIN s : End(s[k]) \in Int
  BY <1>1 DEF End, Piece
<1> QED
  BY <1>2 DEF Listing

LEMMA CoversAppend ==
  ASSUME NEW s \in Seq(Piece), NEW x \in Piece, NEW p, NEW i
  PROVE  Covers(Append(s, x), p, i) <=> Covers(s, p, i) \/ At(x, p, i)
<1>1. /\ DOMAIN Append(s, x) = DOMAIN s \cup {Len(s) + 1}
      /\ Append(s, x)[Len(s) + 1] = x /\ \A k \in DOMAIN s : Append(s, x)[k] = s[k]
  BY Appended
<1> QED
  BY <1>1 DEF Covers

\* What is left of a node on one side: nothing, or a node at the end.
LEMMA RestFacts ==
  ASSUME NEW s \in Seq(Piece), NEW x \in Piece, NEW b \in Nat, NEW c \in Nat,
         Listing(s, b), b <= x.base, End(x) <= c, b <= c
  PROVE  /\ WithRest(s, x) \in Seq(Piece) /\ Listing(WithRest(s, x), c)
         /\ \A p \in Int, i \in Infos : Covers(WithRest(s, x), p, i) <=> Covers(s, p, i) \/ At(x, p, i)
         /\ \A n \in Nat : (\E k \in DOMAIN s : s[k].id = n) =>
                             \E k \in DOMAIN WithRest(s, x) : WithRest(s, x)[k].id = n
<1>1. CASE x.len = 0
  <2>1. WithRest(s, x) = s
    BY <1>1 DEF WithRest
  <2>2. \A p \in Int, i \in Infos : ~At(x, p, i)
    BY <1>1 DEF At, End, Piece
  <2> QED
    BY <2>1, <2>2, ListingLater
<1>2. CASE x.len # 0
  <2>1. WithRest(s, x) = Append(s, x)
    BY <1>2 DEF WithRest
  <2> QED
    BY <1>2, <2>1, ListingAppend, CoversAppend, Appended
<1> QED
  BY <1>1, <1>2

-----------------------------------------------------------------------------
(* The loop of mm_unmap_cb *)

HasId(s, n) == \E k \in DOMAIN s : s[k].id = n
HasPage(x, p) == x.base <= p /\ p < End(x)

\* Where the first k nodes end.
Upto(all, k) == IF k = 0 THEN 0 ELSE End(all[k])

\* The list a call starts from.
Walkable(all) ==
  /\ all \in Seq(Piece) /\ Listing(all, NPages)
  /\ \A k \in DOMAIN all : all[k].id = k

\* The state of the loop when the first k nodes of the list are done: what is
\* left of them, what went, and where the cursor is.
Walked(acc, all, k, addr, length, orig) ==
  /\ acc \in [out : Seq(Piece), cursor : Nat, gone : SUBSET Int, stop : BOOLEAN]
  /\ Listing(acc.out, Upto(all, k))
  /\ \A p \in Int, i \in Infos :
       Covers(acc.out, p, i) <=> (\E j \in 1 .. k : At(all[j], p, i)) /\ p \notin Span(addr, length)
  /\ \A p \in Int :
       p \in acc.gone <=> p \in Span(addr, length) /\ \E j \in 1 .. k : HasPage(all[j], p)
  /\ acc.stop => addr + length <= Upto(all, k)
  /\ acc.cursor = 0 \/ (acc.cursor = orig /\ orig > k) \/ HasId(acc.out, acc.cursor)

\* The parts of the walk put together after one more node.
LEMMA WalkedNode ==
  ASSUME NEW all, Walkable(all), NEW k \in 1 .. Len(all), NEW addr \in Nat, NEW length \in Nat,
         NEW orig \in Nat, NEW acc, NEW new,
         Walked(acc, all, k - 1, addr, length, orig),
         new \in [out : Seq(Piece), cursor : Nat, gone : SUBSET Int, stop : BOOLEAN],
         Listing(new.out, End(all[k])),
         \A p \in Int, i \in Infos :
           Covers(new.out, p, i) <=> \/ Covers(acc.out, p, i)
                                     \/ At(all[k], p, i) /\ p \notin Span(addr, length),
         \A p \in Int : p \in new.gone <=> \/ p \in acc.gone
                                           \/ HasPage(all[k], p) /\ p \in Span(addr, length),
         new.stop => addr + length <= End(all[k]),
         new.cursor = 0 \/ (new.cursor = orig /\ orig > k) \/ HasId(new.out, new.cursor)
  PROVE  Walked(new, all, k, addr, length, orig)
<1>1. Upto(all, k) = End(all[k])
  BY DEF Upto
<1>2. \A j : j \in 1 .. k <=> j \in 1 .. k - 1 \/ j = k
  BY DEF Walkable
<1>3. ASSUME NEW p \in Int, NEW i \in Infos
      PROVE  Covers(new.out, p, i) <=> (\E j \in 1 .. k : At(all[j], p, i)) /\ p \notin Span(addr, length)
  <2>1. Covers(acc.out, p, i) <=> (\E j \in 1 .. k - 1 : At(all[j], p, i)) /\ p \notin Span(addr, length)
    BY DEF Walked
  <2> QED
    BY <2>1, <1>2
<1>4. ASSUME NEW p \in Int
      PROVE  p \in new.gone <=> p \in Span(addr, length) /\ \E j \in 1 .. k : HasPage(all[j], p)
  <2>1. p \in acc.gone <=> p \in Span(addr, length) /\ \E j \in 1 .. k - 1 : HasPage(all[j], p)
    BY DEF Walked
  <2> QED
    BY <2>1, <1>2
<1> QED
  BY <1>1, <1>3, <1>4 DEF Walked

\* What is known of a node when the loop comes to it.
LEMMA NodeFacts ==
  ASSUME NEW all, Walkable(all), NEW k \in 1 .. Len(all)
  PROVE  /\ all[k] \in Piece /\ all[k].len # 0 /\ all[k].id = k /\ End(all[k]) \in Nat
         /\ Upto(all, k - 1) \in Nat /\ Upto(all, k - 1) <= all[k].base
         /\ all[k].base < End(all[k])
<1>1. k \in DOMAIN all /\ (k # 1 => k - 1 \in DOMAIN all)
  BY DEF Walkable
<1>2. all[k] \in Piece /\ (k # 1 => all[k - 1] \in Piece)
  BY <1>1 DEF Walkable
<1>3. all[k].len # 0 /\ all[k].id = k /\ (k # 1 => End(all[k - 1]) <= all[k].base)
  BY <1>1 DEF Walkable, Listing
<1> QED
  BY <1>2, <1>3 DEF Upto, End, Piece

\* The id in hand when a node goes: the one before it that is left, or none.
LEMMA PrevFacts ==
  ASSUME NEW s \in Seq(Piece)
  PROVE  LET prev == IF s = <<>> THEN NoNode ELSE Last(s).id
         IN  prev \in Nat /\ (prev = 0 \/ HasId(s, prev))
<1>1. CASE s = <<>>
  BY <1>1 DEF NoNode
<1>2. CASE s # <<>>
  <2>1. Len(s) \in DOMAIN s /\ s[Len(s)] \in Piece
    BY <1>2
  <2> QED
    BY <1>2, <2>1 DEF Last, HasId, Piece
<1> QED
  BY <1>1, <1>2

\* One iteration of the loop.
LEMMA VisitStep ==
  ASSUME NEW all, Walkable(all), NEW k \in 1 .. Len(all), NEW addr \in Nat, NEW length \in Nat \ {0},
         NEW orig \in Nat, NEW acc,
         Walked(acc, all, k - 1, addr, length, orig)
  PROVE  Walked(UnmapVisit(acc, all[k], addr, length, orig, Len(all) + 1), all, k, addr, length, orig)
<1> DEFINE n == all[k]
           v == UnmapVisit(acc, n, addr, length, orig, Len(all) + 1)
           b == Upto(all, k - 1)
           prev == IF acc.out = <<>> THEN NoNode ELSE Last(acc.out).id
           left == [n EXCEPT !.len = addr - n.base]
           right == [n EXCEPT !.base = addr + length, !.len = End(n) - (addr + length)]
           tail == [right EXCEPT !.id = Len(all) + 1]
           hit == acc.gone \cup (Span(n.base, n.len) \cap Span(addr, length))
<1> SUFFICES Walked(v, all, k, addr, length, orig)
  OBVIOUS
<1>1. /\ n \in Piece /\ n.len # 0 /\ n.id = k /\ End(n) \in Nat
      /\ b \in Nat /\ b <= n.base /\ n.base < End(n)
  BY NodeFacts
<1>2. /\ acc \in [out : Seq(Piece), cursor : Nat, gone : SUBSET Int, stop : BOOLEAN]
      /\ Listing(acc.out, b) /\ (acc.stop => addr + length <= b)
      /\ acc.cursor = 0 \/ (acc.cursor = orig /\ orig > k - 1) \/ HasId(acc.out, acc.cursor)
  BY DEF Walked
<1>3. prev \in Nat /\ (prev = 0 \/ HasId(acc.out, prev))
  BY <1>2, PrevFacts
<1>4. /\ n.base \in Nat /\ n.len \in Nat /\ n.info \in Infos /\ n.id \in Nat /\ End(n) = n.base + n.len
      /\ DOMAIN n = {"base", "len", "info", "id"}
  BY <1>1 DEF Piece, End
<1>5. Len(all) \in Nat /\ k \in Nat
  BY DEF Walkable
<1>6. \A p \in Int : p \in Span(addr, length) <=> addr <= p /\ p < addr + length
  BY DEF Span
<1>7. \A p \in Int : p \in hit <=> p \in acc.gone \/ (HasPage(n, p) /\ p \in Span(addr, length))
  BY <1>4 DEF Span, HasPage
<1>8. hit \in SUBSET Int
  BY <1>2, <1>4 DEF Span
\* The cursor after a node that goes, or is cut on the left.
<1>9. ASSUME NEW new, new \in Nat
      PROVE  /\ Moved(acc.cursor, orig, new) \in Nat
             /\ \/ Moved(acc.cursor, orig, new) = new
                \/ Moved(acc.cursor, orig, new) = 0
                \/ HasId(acc.out, Moved(acc.cursor, orig, new))
  BY <1>2, <1>9 DEF Moved
\* The loop has stopped, or the node is outside: it stays.
<1>10. ASSUME NEW stop \in BOOLEAN, v = [acc EXCEPT !.out = Append(@, n), !.stop = stop],
              stop => addr + length <= End(n),
              \A p \in Int : HasPage(n, p) => p \notin Span(addr, length)
       PROVE  Walked(v, all, k, addr, length, orig)
  <2>1. v = [out |-> Append(acc.out, n), cursor |-> acc.cursor, gone |-> acc.gone, stop |-> stop]
    BY <1>2, <1>10
  <2>2. Append(acc.out, n) \in Seq(Piece) /\ Listing(Append(acc.out, n), End(n))
    BY <1>1, <1>2, <1>4, ListingAppend
  <2>3. \A p \in Int, i \in Infos :
          Covers(Append(acc.out, n), p, i) <=> \/ Covers(acc.out, p, i)
                                               \/ At(n, p, i) /\ p \notin Span(addr, length)
    BY <1>1, <1>2, <1>10, CoversAppend DEF At, HasPage
  <2>4. \A p \in Int : p \in acc.gone <=> p \in acc.gone \/ (HasPage(n, p) /\ p \in Span(addr, length))
    BY <1>10
  <2>5. /\ acc.out \in Seq(Piece) /\ HasId(Append(acc.out, n), k)
        /\ HasId(acc.out, acc.cursor) => HasId(Append(acc.out, n), acc.cursor)
    BY <1>1, <1>2, Appended, SMTT(20) DEF HasId
  <2>6. \/ acc.cursor = 0 \/ (acc.cursor = orig /\ orig > k) \/ HasId(Append(acc.out, n), acc.cursor)
    BY <1>2, <1>5, <2>5
  <2>7. v \in [out : Seq(Piece), cursor : Nat, gone : SUBSET Int, stop : BOOLEAN]
    <3>1. acc.cursor \in Nat /\ acc.gone \in SUBSET Int
      BY <1>2
    <3> HIDE DEF v
    <3> QED
      BY <3>1, <2>1, <2>2
  <2>8. v.out = Append(acc.out, n) /\ v.cursor = acc.cursor /\ v.gone = acc.gone /\ v.stop = stop
    BY <2>1
  <2> HIDE DEF v, n
  <2> QED
    BY <2>2, <2>3, <2>4, <2>6, <2>7, <2>8, <1>10, WalkedNode DEF n
\* The node loses the pages of the range: what is left of it goes to the list.
<1>11. ASSUME NEW out, NEW cursor \in Nat, NEW stop \in BOOLEAN,
              v = [out |-> out, cursor |-> cursor, gone |-> hit, stop |-> stop],
              out \in Seq(Piece), Listing(out, End(n)),
              \A p \in Int, i \in Infos :
                Covers(out, p, i) <=> \/ Covers(acc.out, p, i)
                                      \/ At(n, p, i) /\ p \notin Span(addr, length),
              stop => addr + length <= End(n),
              cursor = 0 \/ (cursor = orig /\ orig > k) \/ HasId(out, cursor)
       PROVE  Walked(v, all, k, addr, length, orig)
  <2>1. v.out = out /\ v.cursor = cursor /\ v.gone = hit /\ v.stop = stop
    <3> HIDE DEF v, hit
    <3> QED
      BY <1>11
  <2>2. v \in [out : Seq(Piece), cursor : Nat, gone : SUBSET Int, stop : BOOLEAN]
    <3> HIDE DEF v, hit
    <3> QED
      BY <1>8, <1>11
  <2> HIDE DEF v, n, hit
  <2> QED
    BY <2>1, <2>2, <1>7, <1>11, WalkedNode DEF n
<1>12. CASE acc.stop
  <2>1. v = [acc EXCEPT !.out = Append(@, n), !.stop = TRUE]
    <3>1. v = [acc EXCEPT !.out = Append(@, n)]
      BY <1>12 DEF UnmapVisit
    <3> HIDE DEF v, n
    <3> QED
      BY <1>2, <1>12, <3>1
  <2>2. addr + length <= n.base
    BY <1>1, <1>2, <1>4, <1>12, SMTT(20)
  <2>3. \A p \in Int : HasPage(n, p) => p \notin Span(addr, length)
    BY <1>4, <1>6, <2>2 DEF HasPage
  <2>4. addr + length <= End(n)
    BY <1>1, <1>4, <2>2
  <2> HIDE DEF v, n
  <2> QED
    BY <1>10, <2>1, <2>3, <2>4
<1>13. CASE ~acc.stop /\ contained(n.base, n.len, addr, length)
  <2> DEFINE cursor == Moved(acc.cursor, orig, prev)
  <2>1. v = [out |-> acc.out, cursor |-> cursor, gone |-> hit, stop |-> acc.stop]
    BY <1>2, <1>13 DEF UnmapVisit
  <2>2. Listing(acc.out, End(n))
    BY <1>1, <1>2, <1>4, ListingLater
  <2>3. \A p \in Int : HasPage(n, p) => p \in Span(addr, length)
    BY <1>4, <1>6, <1>13 DEF HasPage, contained
  <2>4. \A p \in Int, i \in Infos :
          Covers(acc.out, p, i) <=> \/ Covers(acc.out, p, i)
                                    \/ At(n, p, i) /\ p \notin Span(addr, length)
    BY <2>3 DEF At, HasPage
  <2>5. cursor \in Nat /\ (cursor = 0 \/ HasId(acc.out, cursor))
    BY <1>3, <1>9
  <2>6. acc.out \in Seq(Piece) /\ acc.stop \in BOOLEAN
    BY <1>2
  <2> HIDE DEF v, n, hit, cursor
  <2> QED
    BY <1>11, <1>13, <2>1, <2>2, <2>4, <2>5, <2>6
<1>14. CASE /\ ~acc.stop /\ ~contained(n.base, n.len, addr, length)
            /\ contained(addr, length, n.base, n.len)
  <2> DEFINE cursor == Moved(acc.cursor, orig, prev)
             mid == WithRest(acc.out, left)
             out == WithRest(mid, tail)
  <2>1. v = [out |-> out, cursor |-> cursor, gone |-> hit, stop |-> TRUE]
    BY <1>2, <1>14 DEF UnmapVisit
  <2>2. n.base <= addr /\ addr + length <= End(n)
    BY <1>4, <1>14 DEF contained
  <2>3. left = [base |-> n.base, len |-> addr - n.base, info |-> n.info, id |-> n.id]
    BY <1>4, SMTT(20)
  <2>4. /\ tail \in Piece /\ tail.base = addr + length /\ tail.len = End(n) - (addr + length)
        /\ tail.info = n.info
    <3>1. addr + length \in Nat /\ End(n) - (addr + length) \in Nat /\ Len(all) + 1 \in Nat
      BY <1>1, <1>5, <2>2
    <3>2. PICK x \in Nat, y \in Nat, z \in Nat :
            x = addr + length /\ y = End(n) - (addr + length) /\ z = Len(all) + 1
      BY <3>1
    <3>3. tail = [[n EXCEPT !.base = x, !.len = y] EXCEPT !.id = z]
      BY <3>2, Zenon
    <3> HIDE DEF n, tail
    <3>4. tail \in Piece /\ tail.base = x /\ tail.len = y /\ tail.info = n.info
      BY <1>1, <3>3 DEF Piece
    <3> QED
      BY <3>2, <3>4
  <2>5. left \in Piece /\ tail \in Piece
    <3>1. left \in Piece
      BY <1>1, <1>4, <2>2, <2>3, SMTT(20) DEF Piece
    <3> HIDE DEF left, tail
    <3> QED
      BY <3>1, <2>4
  <2>6. left.base = n.base /\ End(left) = addr /\ tail.base = addr + length /\ End(tail) = End(n)
    BY <1>1, <1>4, <2>2, <2>3, <2>4 DEF End
  <2> HIDE DEF left, tail
  <2>7. /\ mid \in Seq(Piece) /\ Listing(mid, addr)
        /\ \A p \in Int, i \in Infos : Covers(mid, p, i) <=> Covers(acc.out, p, i) \/ At(left, p, i)
        /\ \A m \in Nat : HasId(acc.out, m) => HasId(mid, m)
    <3>1. acc.out \in Seq(Piece) /\ b <= left.base /\ End(left) <= addr /\ b <= addr
      BY <1>1, <1>2, <1>4, <2>2, <2>6, SMTT(20)
    <3> QED
      BY <1>1, <1>2, <2>5, <3>1, RestFacts DEF HasId
  <2> HIDE DEF mid
  <2>8. /\ out \in Seq(Piece) /\ Listing(out, End(n))
        /\ \A p \in Int, i \in Infos : Covers(out, p, i) <=> Covers(mid, p, i) \/ At(tail, p, i)
        /\ \A m \in Nat : HasId(mid, m) => HasId(out, m)
    <3>1. addr <= tail.base /\ End(tail) <= End(n) /\ addr <= End(n)
      BY <1>1, <2>2, <2>6
    <3> HIDE DEF n
    <3> QED
      BY <1>1, <2>5, <2>7, <3>1, RestFacts DEF HasId
  <2>9. \A p \in Int, i \in Infos :
          Covers(out, p, i) <=> \/ Covers(acc.out, p, i)
                                \/ At(n, p, i) /\ p \notin Span(addr, length)
    <3>1. left.info = n.info /\ tail.info = n.info
      BY <2>3, <2>4 DEF left, tail
    <3>2. \A p \in Int, i \in Infos :
            At(left, p, i) \/ At(tail, p, i) <=> At(n, p, i) /\ p \notin Span(addr, length)
      BY <1>1, <1>4, <1>6, <2>2, <2>6, <3>1 DEF At
    <3> HIDE DEF out, n
    <3> QED
      BY <2>7, <2>8, <3>2
  <2>10. cursor \in Nat /\ (cursor = 0 \/ HasId(out, cursor))
    <3>1. cursor \in Nat /\ (cursor = 0 \/ HasId(acc.out, cursor))
      BY <1>3, <1>9
    <3> HIDE DEF out, cursor
    <3> QED
      BY <2>7, <2>8, <3>1
  <2> HIDE DEF v, n, hit, cursor, out
  <2> QED
    BY <1>11, <2>1, <2>2, <2>8, <2>9, <2>10
<1>15. CASE /\ ~acc.stop /\ ~contained(n.base, n.len, addr, length)
            /\ ~contained(addr, length, n.base, n.len)
            /\ n.base < addr /\ End(n) > addr
  <2> DEFINE cursor == Moved(acc.cursor, orig, n.id)
             out == Append(acc.out, left)
  <2>1. v = [out |-> out, cursor |-> cursor, gone |-> hit, stop |-> acc.stop]
    BY <1>2, <1>15 DEF UnmapVisit
  <2>2. End(n) < addr + length
    BY <1>4, <1>15 DEF contained
  <2>3. left = [base |-> n.base, len |-> addr - n.base, info |-> n.info, id |-> n.id]
    BY <1>4, SMTT(20)
  <2>4. left \in Piece /\ left.len # 0
    BY <1>1, <1>4, <1>15, <2>3 DEF Piece
  <2>5. left.base = n.base /\ End(left) = addr /\ left.info = n.info /\ left.id = k
    BY <1>1, <1>4, <2>3 DEF End
  <2> HIDE DEF left
  <2>6. out \in Seq(Piece) /\ Listing(out, End(n))
    <3>1. acc.out \in Seq(Piece) /\ b <= left.base /\ End(left) <= End(n)
      BY <1>1, <1>2, <1>4, <1>15, <2>5
    <3> HIDE DEF n
    <3> QED
      BY <1>1, <1>2, <2>4, <3>1, ListingAppend
  <2>7. \A p \in Int, i \in Infos :
          Covers(out, p, i) <=> \/ Covers(acc.out, p, i)
                                \/ At(n, p, i) /\ p \notin Span(addr, length)
    <3>1. \A p \in Int, i \in Infos : At(left, p, i) <=> At(n, p, i) /\ p \notin Span(addr, length)
      BY <1>1, <1>4, <1>6, <1>15, <2>2, <2>5 DEF At
    <3>2. acc.out \in Seq(Piece)
      BY <1>2
    <3> HIDE DEF n
    <3> QED
      BY <2>4, <3>1, <3>2, CoversAppend
  <2>8. cursor \in Nat /\ (cursor = 0 \/ HasId(out, cursor))
    <3>1. cursor \in Nat /\ (cursor = k \/ cursor = 0 \/ HasId(acc.out, cursor))
      BY <1>1, <1>4, <1>9
    <3>2. acc.out \in Seq(Piece) /\ HasId(out, k) /\ (HasId(acc.out, cursor) => HasId(out, cursor))
      BY <1>2, <2>4, <2>5, Appended DEF HasId
    <3> HIDE DEF out, cursor
    <3> QED
      BY <3>1, <3>2
  <2>9. acc.stop \in BOOLEAN /\ ~acc.stop
    BY <1>2, <1>15
  <2> HIDE DEF v, n, hit, cursor, out
  <2> QED
    BY <1>11, <2>1, <2>6, <2>7, <2>8, <2>9
<1>16. CASE /\ ~acc.stop /\ ~contained(n.base, n.len, addr, length)
            /\ ~contained(addr, length, n.base, n.len)
            /\ ~(n.base < addr /\ End(n) > addr)
            /\ n.base < addr + length /\ End(n) > addr
  <2> DEFINE out == Append(acc.out, right)
  <2>1. v = [out |-> out, cursor |-> acc.cursor, gone |-> hit, stop |-> TRUE]
    BY <1>2, <1>16 DEF UnmapVisit
  <2>2. addr <= n.base /\ End(n) > addr + length
    BY <1>4, <1>16 DEF contained
  <2>3. /\ right \in Piece /\ right.base = addr + length /\ right.len = End(n) - (addr + length)
        /\ right.info = n.info /\ right.id = n.id
    <3>1. addr + length \in Nat /\ End(n) - (addr + length) \in Nat
      BY <1>1, <2>2
    <3>2. PICK x \in Nat, y \in Nat : x = addr + length /\ y = End(n) - (addr + length)
      BY <3>1
    <3>3. right = [n EXCEPT !.base = x, !.len = y]
      BY <3>2, Zenon
    <3> HIDE DEF n, right
    <3>4. /\ right \in Piece /\ right.base = x /\ right.len = y
          /\ right.info = n.info /\ right.id = n.id
      BY <1>1, <3>3 DEF Piece
    <3> QED
      BY <3>2, <3>4
  <2>4. right \in Piece /\ right.len # 0
    BY <1>1, <2>2, <2>3
  <2>5. right.base = addr + length /\ End(right) = End(n) /\ right.info = n.info /\ right.id = k
    BY <1>1, <1>4, <2>3 DEF End
  <2> HIDE DEF right
  <2>6. out \in Seq(Piece) /\ Listing(out, End(n))
    <3>1. acc.out \in Seq(Piece) /\ b <= right.base /\ End(right) <= End(n)
      BY <1>1, <1>2, <1>4, <1>16, <2>5
    <3> HIDE DEF n
    <3> QED
      BY <1>1, <1>2, <2>4, <3>1, ListingAppend
  <2>7. \A p \in Int, i \in Infos :
          Covers(out, p, i) <=> \/ Covers(acc.out, p, i)
                                \/ At(n, p, i) /\ p \notin Span(addr, length)
    <3>1. \A p \in Int, i \in Infos : At(right, p, i) <=> At(n, p, i) /\ p \notin Span(addr, length)
      <4> HIDE DEF n
      <4> QED
        BY <1>1, <1>4, <1>6, <1>16, <2>2, <2>5 DEF At
    <3>2. acc.out \in Seq(Piece)
      BY <1>2
    <3> HIDE DEF n
    <3> QED
      BY <2>4, <3>1, <3>2, CoversAppend
  <2>8. /\ acc.cursor \in Nat
        /\ acc.cursor = 0 \/ (acc.cursor = orig /\ orig > k) \/ HasId(out, acc.cursor)
    <3>1. /\ acc.out \in Seq(Piece) /\ HasId(out, k)
          /\ HasId(acc.out, acc.cursor) => HasId(out, acc.cursor)
      BY <1>2, <2>4, <2>5, Appended DEF HasId
    <3>2. acc.cursor \in Nat
      BY <1>2
    <3> HIDE DEF out
    <3> QED
      BY <1>2, <1>5, <3>1, <3>2
  <2>9. addr + length <= End(n)
    BY <1>1, <2>2
  <2> HIDE DEF v, n, hit, out
  <2> QED
    BY <1>11, <2>1, <2>6, <2>7, <2>8, <2>9
<1>17. CASE /\ ~acc.stop /\ ~contained(n.base, n.len, addr, length)
            /\ ~contained(addr, length, n.base, n.len)
            /\ ~(n.base < addr /\ End(n) > addr)
            /\ ~(n.base < addr + length /\ End(n) > addr)
  <2> DEFINE stop == n.base >= addr + length
  <2>1. v = [acc EXCEPT !.out = Append(@, n), !.stop = stop]
    BY <1>17 DEF UnmapVisit
  <2>2. n.base >= addr + length \/ End(n) <= addr
    BY <1>1, <1>4, <1>17
  <2>3. \A p \in Int : HasPage(n, p) => p \notin Span(addr, length)
    BY <1>1, <1>4, <1>6, <2>2 DEF HasPage
  <2>4. stop \in BOOLEAN /\ (stop => addr + length <= End(n))
    BY <1>1, <1>4
  <2> HIDE DEF v, n, stop
  <2> QED
    BY <1>10, <2>1, <2>3, <2>4
<1> QED
  BY <1>12, <1>13, <1>14, <1>15, <1>16, <1>17

\* The nodes of a list without empty nodes.
FullNodes == [base : Pages, len : 1 .. NPages, info : Infos]

\* What an address space is between two operations.
Sound(m) ==
  /\ m.nodes \in Seq(FullNodes) /\ Listing(m.nodes, NPages)
  /\ m.cursor \in 0 .. Len(m.nodes)

LEMMA NodeInSound ==
  ASSUME NEW m, Sound(m), NEW k \in 1 .. Len(m.nodes)
  PROVE  /\ k \in DOMAIN m.nodes /\ m.nodes[k] \in FullNodes /\ m.nodes[k].base \in Pages
         /\ m.nodes[k].len \in 1 .. NPages /\ m.nodes[k].info \in Infos
         /\ m.nodes[k].base \in Nat /\ End(m.nodes[k]) \in Nat /\ m.nodes[k].base < End(m.nodes[k])
         /\ End(m.nodes[k]) <= NPages
<1>1. k \in DOMAIN m.nodes /\ m.nodes[k] \in FullNodes
  BY DEF Sound
<1>2. End(m.nodes[k]) <= NPages
  BY <1>1 DEF Sound, Listing
<1> QED
  BY <1>1, <1>2, NPagesAssumption DEF FullNodes, End, Pages

\* The list with the nodes' identities.
LEMMA TaggedFacts ==
  ASSUME NEW m, Sound(m)
  PROVE  /\ Walkable(Tagged(m.nodes)) /\ Len(Tagged(m.nodes)) = Len(m.nodes) /\ Len(m.nodes) \in Nat
         /\ \A k \in 1 .. Len(m.nodes) :
              /\ Tagged(m.nodes)[k].base = m.nodes[k].base
              /\ End(Tagged(m.nodes)[k]) = End(m.nodes[k])
              /\ Tagged(m.nodes)[k].info = m.nodes[k].info
<1> DEFINE s == m.nodes
           t == Tagged(s)
<1>1. s \in Seq(FullNodes) /\ Len(s) \in Nat /\ DOMAIN s = 1 .. Len(s)
  BY DEF Sound
<1>2. ASSUME NEW k \in 1 .. Len(s)
      PROVE  /\ t[k] = [base |-> s[k].base, len |-> s[k].len, info |-> s[k].info, id |-> k]
             /\ t[k] \in Piece
  <2>1. t[k] = [base |-> s[k].base, len |-> s[k].len, info |-> s[k].info, id |-> k]
    BY <1>1 DEF Tagged
  <2>2. s[k].base \in Nat /\ s[k].len \in Nat /\ s[k].info \in Infos /\ k \in Nat
    BY <1>1, NodeInSound, NPagesAssumption
  <2> QED
    BY <2>1, <2>2 DEF Piece
<1>3. t \in Seq(Piece) /\ DOMAIN t = 1 .. Len(s) /\ Len(t) = Len(s)
  <2>1. t = [k \in 1 .. Len(s) |-> t[k]]
    BY <1>1 DEF Tagged
  <2> HIDE DEF t, s
  <2>2. t \in [1 .. Len(s) -> Piece]
    BY <1>2, <2>1
  <2> QED
    BY <1>1, <2>2
<1> HIDE DEF t
<1>4. ASSUME NEW k \in 1 .. Len(s)
      PROVE  /\ t[k].base = s[k].base /\ End(t[k]) = End(s[k]) /\ t[k].info = s[k].info
             /\ t[k].len = s[k].len /\ t[k].id = k
  <2> HIDE DEF s
  <2>1. t[k] = [base |-> s[k].base, len |-> s[k].len, info |-> s[k].info, id |-> k]
    BY <1>2
  <2> QED
    BY <2>1 DEF End
<1>5. Listing(t, NPages)
  <2>1. Listing(s, NPages)
    BY DEF Sound
  <2> QED
    BY <1>1, <1>3, <1>4, <2>1 DEF Listing
<1> QED
  BY <1>1, <1>3, <1>4, <1>5 DEF Walkable, t

\* Where the loop starts: every node before it ends at or before addr.
LEMMA StartFacts ==
  ASSUME NEW m, Sound(m), NEW addr \in Nat
  PROVE  LET from == UnmapStart(m, addr) IN
         /\ from \in Nat \ {0} /\ from - 1 <= Len(m.nodes)
         /\ \A k \in 1 .. from - 1 : End(m.nodes[k]) <= addr
<1> DEFINE before == {k \in 1 .. m.cursor : m.nodes[k].base <= addr}
<1>1. m.cursor \in Nat /\ m.cursor <= Len(m.nodes) /\ Len(m.nodes) \in Nat
  BY DEF Sound
<1>2. CASE before = {}
  <2>1. UnmapStart(m, addr) = 1
    BY <1>2 DEF UnmapStart
  <2> QED
    BY <1>1, <2>1
<1>3. CASE before # {}
  <2>1. before \subseteq Nat /\ \A y \in before : y <= m.cursor
    BY <1>1
  <2>2. Max(before) \in before
    <3> HIDE DEF before
    <3> QED
      BY <1>1, <1>3, <2>1, MaxOfNaturals
  <2>3. UnmapStart(m, addr) = Max(before)
    BY <1>3 DEF UnmapStart
  <2>4. PICK from \in before : from = UnmapStart(m, addr)
    BY <2>2, <2>3
  <2>5. from \in 1 .. Len(m.nodes) /\ m.nodes[from].base <= addr
    BY <1>1, <2>4
  <2>6. ASSUME NEW k \in 1 .. from - 1 PROVE End(m.nodes[k]) <= addr
    <3>1. k \in 1 .. Len(m.nodes) /\ k < from
      BY <1>1, <2>5
    <3>2. /\ End(m.nodes[k]) \in Nat /\ m.nodes[from].base \in Nat
          /\ k \in DOMAIN m.nodes /\ from \in DOMAIN m.nodes
      BY <2>5, <3>1, NodeInSound
    <3>3. End(m.nodes[k]) <= m.nodes[from].base
      BY <3>1, <3>2 DEF Sound, Listing
    <3> QED
      BY <2>5, <3>2, <3>3
  <2> QED
    BY <1>1, <2>4, <2>5, <2>6
<1> QED
  BY <1>2, <1>3

\* Before the first iteration.
LEMMA WalkBegins ==
  ASSUME NEW m, Sound(m), NEW addr \in Nat, NEW length \in Nat \ {0},
         NEW from \in Nat \ {0}, from = UnmapStart(m, addr)
  PROVE  Walked([out |-> SubSeq(Tagged(m.nodes), 1, from - 1), cursor |-> m.cursor,
                 gone |-> {}, stop |-> FALSE], Tagged(m.nodes), from - 1, addr, length, m.cursor)
<1> DEFINE all == Tagged(m.nodes)
           out == SubSeq(all, 1, from - 1)
<1>1. /\ Walkable(all) /\ Len(all) = Len(m.nodes) /\ Len(m.nodes) \in Nat
      /\ \A k \in 1 .. Len(m.nodes) : End(all[k]) = End(m.nodes[k])
  BY TaggedFacts
<1>2. from - 1 <= Len(m.nodes) /\ \A k \in 1 .. from - 1 : End(m.nodes[k]) <= addr
  BY StartFacts
<1>3. m.cursor \in Nat /\ m.cursor <= Len(m.nodes)
  BY DEF Sound
<1> HIDE DEF all
<1>4. all \in Seq(Piece) /\ from - 1 \in 0 .. Len(all)
  BY <1>1, <1>2 DEF Walkable
<1>5. /\ out \in Seq(Piece) /\ DOMAIN out = 1 .. from - 1
      /\ \A k \in 1 .. from - 1 : out[k] = all[k] /\ k \in 1 .. Len(all)
  BY <1>4
<1> HIDE DEF out
<1>6. \A k \in 1 .. from - 1 :
        /\ all[k] \in Piece /\ all[k].len # 0 /\ all[k].id = k /\ End(all[k]) \in Nat
        /\ End(all[k]) <= addr /\ all[k].base \in Nat /\ all[k].base < End(all[k])
  <2> TAKE k \in 1 .. from - 1
  <2>1. k \in 1 .. Len(all) /\ End(all[k]) <= addr
    BY <1>1, <1>2, <1>5
  <2> QED
    BY <1>1, <2>1, NodeFacts DEF Piece
<1>7. Listing(out, Upto(all, from - 1))
  <2>1. ASSUME NEW k \in 1 .. from - 1 PROVE End(all[k]) <= Upto(all, from - 1)
    <3>1. from - 1 \in 1 .. from - 1 /\ Upto(all, from - 1) = End(all[from - 1])
      BY DEF Upto
    <3>2. CASE k = from - 1
      BY <3>1, <3>2, <1>6
    <3>3. CASE k < from - 1
      <4>1. k \in DOMAIN all /\ from - 1 \in DOMAIN all
        BY <1>4
      <4>2. End(all[k]) <= all[from - 1].base
        BY <1>1, <3>3, <4>1 DEF Walkable, Listing
      <4> QED
        BY <1>6, <3>1, <4>2
    <3> QED
      BY <3>2, <3>3
  <2>2. ASSUME NEW j \in DOMAIN out, NEW k \in DOMAIN out, j < k PROVE End(out[j]) <= out[k].base
    <3>1. j \in DOMAIN all /\ k \in DOMAIN all
      BY <1>4, <1>5
    <3> QED
      BY <1>1, <1>5, <2>2, <3>1 DEF Walkable, Listing
  <2> QED
    BY <1>5, <1>6, <2>1, <2>2 DEF Listing
<1>8. \A p \in Int : p \in Span(addr, length) => ~\E j \in 1 .. from - 1 : HasPage(all[j], p)
  <2> SUFFICES ASSUME NEW p \in Int, p \in Span(addr, length), NEW j \in 1 .. from - 1 PROVE ~HasPage(all[j], p)
    OBVIOUS
  <2>1. addr <= p
    BY DEF Span
  <2> QED
    BY <1>6, <2>1 DEF HasPage
<1>9. \A p \in Int, i \in Infos :
        Covers(out, p, i) <=> (\E j \in 1 .. from - 1 : At(all[j], p, i)) /\ p \notin Span(addr, length)
  <2> TAKE p \in Int, i \in Infos
  <2>1. Covers(out, p, i) <=> \E j \in 1 .. from - 1 : At(all[j], p, i)
    BY <1>5 DEF Covers
  <2>2. \A j : At(all[j], p, i) => HasPage(all[j], p)
    BY DEF At, HasPage
  <2> QED
    BY <1>8, <2>1, <2>2
<1>10. m.cursor = 0 \/ m.cursor > from - 1 \/ HasId(out, m.cursor)
  <2> SUFFICES ASSUME m.cursor \in 1 .. from - 1 PROVE HasId(out, m.cursor)
    BY <1>3
  <2> QED
    BY <1>5, <1>6 DEF HasId
<1> QED
  <2> DEFINE w == [out |-> out, cursor |-> m.cursor, gone |-> {}, stop |-> FALSE]
  <2>1. w.out = out /\ w.cursor = m.cursor /\ w.gone = {} /\ w.stop = FALSE
    OBVIOUS
  <2>2. w \in [out : Seq(Piece), cursor : Nat, gone : SUBSET Int, stop : BOOLEAN]
    BY <1>3, <1>5
  <2> HIDE DEF w
  <2>3. Walked(w, all, from - 1, addr, length, m.cursor)
    BY <2>1, <2>2, <1>7, <1>8, <1>9, <1>10 DEF Walked
  <2> QED
    BY <2>3 DEF w, out, all

\* After the last one.
LEMMA WalkEnds ==
  ASSUME NEW m, Sound(m), NEW addr \in Nat, NEW length \in Nat \ {0}
  PROVE  Walked(UnmapLoop(m, addr, length), Tagged(m.nodes), Len(m.nodes), addr, length, m.cursor)
<1> DEFINE all == Tagged(m.nodes)
<1>1. Walkable(all) /\ Len(all) = Len(m.nodes) /\ Len(m.nodes) \in Nat
  BY TaggedFacts
<1>2. PICK from \in Nat \ {0} : from = UnmapStart(m, addr) /\ from - 1 <= Len(m.nodes)
  BY StartFacts
<1> DEFINE f == UnmapSteps(all, from, addr, length, m.cursor)
           S == {k \in Nat : Walked(f[k], all, k, addr, length, m.cursor)}
<1>3. m.cursor \in Nat
  BY DEF Sound
<1>4. /\ f[from - 1] = [out |-> SubSeq(all, 1, from - 1), cursor |-> m.cursor, gone |-> {}, stop |-> FALSE]
      /\ \A k \in from .. Len(all) :
           f[k] = UnmapVisit(f[k - 1], all[k], addr, length, m.cursor, Len(all) + 1)
  <2>1. Len(all) \in Nat /\ from - 1 <= Len(all)
    BY <1>1, <1>2
  <2> HIDE DEF all
  <2>2. IsLoop(f, all, from, addr, length, m.cursor)
    BY <2>1, UnmapStepsDef
  <2> HIDE DEF f
  <2> QED
    BY <2>2 DEF IsLoop
<1>5. from - 1 \in S
  <2>1. Walked([out |-> SubSeq(all, 1, from - 1), cursor |-> m.cursor, gone |-> {}, stop |-> FALSE],
               all, from - 1, addr, length, m.cursor)
    BY <1>2, WalkBegins
  <2> HIDE DEF f, all
  <2> QED
    BY <1>4, <2>1
<1>6. ASSUME NEW k \in (from - 1) + 1 .. Len(all), k - 1 \in S PROVE k \in S
  <2>1. k \in from .. Len(all) /\ k \in 1 .. Len(all) /\ k \in Nat
    BY <1>1
  <2> HIDE DEF f, all
  <2>2. Walked(f[k - 1], all, k - 1, addr, length, m.cursor)
    BY <1>6
  <2>3. Walked(UnmapVisit(f[k - 1], all[k], addr, length, m.cursor, Len(all) + 1), all, k, addr, length, m.cursor)
    BY <1>1, <1>3, <2>1, <2>2, VisitStep
  <2>4. f[k] = UnmapVisit(f[k - 1], all[k], addr, length, m.cursor, Len(all) + 1)
    BY <1>4, <2>1
  <2> QED
    BY <2>1, <2>3, <2>4
<1>7. Len(all) \in S
  <2>1. from - 1 \in Nat /\ Len(all) \in Nat /\ Len(all) \in from - 1 .. Len(all)
    BY <1>1, <1>2
  <2> HIDE DEF S, all
  <2>2. from - 1 .. Len(all) \subseteq S
    BY <1>5, <1>6, <2>1, IntervalInduction
  <2> QED
    BY <2>1, <2>2
<1>8. UnmapLoop(m, addr, length) = f[Len(all)]
  BY <1>1, <1>2 DEF UnmapLoop
<1> HIDE DEF f, all
<1>9. Walked(f[Len(all)], all, Len(all), addr, length, m.cursor)
  BY <1>7
<1> QED
  BY <1>1, <1>8, <1>9 DEF all

\* The list that the loop leaves is an address space.
LEMMA SettledFacts ==
  ASSUME NEW s \in Seq(Piece), Listing(s, NPages), NEW c \in Nat, c = 0 \/ HasId(s, c)
  PROVE  /\ Sound(Settled(s, c))
         /\ \A p \in Int, i \in Infos : Covers(Settled(s, c).nodes, p, i) <=> Covers(s, p, i)
<1> DEFINE t == Settled(s, c).nodes
<1>1. t = [k \in DOMAIN s |-> [base |-> s[k].base, len |-> s[k].len, info |-> s[k].info]]
  BY DEF Settled
<1>2. Len(s) \in Nat /\ DOMAIN s = 1 .. Len(s) /\ \A k \in 1 .. Len(s) : s[k] \in Piece
  OBVIOUS
<1> HIDE DEF t
<1>3. ASSUME NEW k \in 1 .. Len(s)
      PROVE  /\ t[k].base = s[k].base /\ End(t[k]) = End(s[k]) /\ t[k].info = s[k].info
             /\ t[k].len = s[k].len /\ t[k] \in FullNodes
  <2>1. t[k] = [base |-> s[k].base, len |-> s[k].len, info |-> s[k].info]
    BY <1>1, <1>2
  <2>2. s[k].base \in Nat /\ s[k].len \in Nat /\ s[k].info \in Infos
    BY <1>2 DEF Piece
  <2>3. s[k].len # 0 /\ s[k].base + s[k].len <= NPages
    BY <1>2 DEF Listing, End
  <2>4. s[k].base \in 0 .. NPages - 1 /\ s[k].len \in 1 .. NPages
    BY <2>2, <2>3, NPagesAssumption
  <2>5. t[k].base = s[k].base /\ t[k].len = s[k].len /\ t[k].info = s[k].info
    BY <2>1
  <2>6. t[k] \in FullNodes
    BY <2>1, <2>2, <2>4 DEF FullNodes, Pages
  <2> QED
    BY <2>5, <2>6 DEF End
<1>4. t \in Seq(FullNodes) /\ Len(t) = Len(s) /\ DOMAIN t = DOMAIN s
  <2>1. DOMAIN t = 1 .. Len(s) /\ t = [k \in 1 .. Len(s) |-> t[k]]
    BY <1>1, <1>2
  <2>2. t \in [1 .. Len(s) -> FullNodes]
    BY <1>3, <2>1
  <2> QED
    BY <1>2, <2>1, <2>2
<1>5. Listing(t, NPages)
  BY <1>2, <1>3, <1>4 DEF Listing
<1>6. Settled(s, c).cursor \in 0 .. Len(s)
  <2>1. CASE c = 0
    BY <2>1, <1>2 DEF Settled, NoNode
  <2>2. CASE c # 0
    <3>1. \E k \in DOMAIN s : s[k].id = c
      BY <2>2 DEF HasId
    <3>2. Settled(s, c).cursor = CHOOSE k \in DOMAIN s : s[k].id = c
      BY <2>2, <3>1 DEF Settled, NoNode
    <3>3. Settled(s, c).cursor \in DOMAIN s
      BY <3>1, <3>2
    <3> QED
      BY <1>2, <3>3
  <2> QED
    BY <2>1, <2>2
<1>7. ASSUME NEW p \in Int, NEW i \in Infos
      PROVE  Covers(t, p, i) <=> Covers(s, p, i)
  BY <1>2, <1>3, <1>4 DEF Covers, At
<1> QED
  BY <1>4, <1>5, <1>6, <1>7 DEF Sound, t

\* What mm_unmap_cb promises: the range is free, the rest is as it was, and ufn
\* was called for exactly the pages that had been mapped.
Cleared(u, m, addr, length) ==
  /\ u.ok = TRUE /\ Sound(u.mm) /\ u.gone \subseteq Int
  /\ \A p \in Int, i \in Infos :
       Covers(u.mm.nodes, p, i) <=> Covers(m.nodes, p, i) /\ p \notin Span(addr, length)
  /\ \A p \in Int : p \in u.gone <=> p \in Span(addr, length) /\ \E i \in Infos : Covers(m.nodes, p, i)

LEMMA UnmapFacts ==
  ASSUME NEW m, Sound(m), NEW addr \in Nat, NEW length \in Nat \ {0}, addr + length <= NPages
  PROVE  Cleared(mm_unmap_cb(m, addr, length), m, addr, length)
<1> DEFINE all == Tagged(m.nodes)
           w == UnmapLoop(m, addr, length)
           u == mm_unmap_cb(m, addr, length)
<1>1. /\ Walkable(all) /\ Len(all) = Len(m.nodes) /\ Len(m.nodes) \in Nat
      /\ \A k \in 1 .. Len(m.nodes) :
           all[k].base = m.nodes[k].base /\ End(all[k]) = End(m.nodes[k]) /\ all[k].info = m.nodes[k].info
  BY TaggedFacts
<1>2. Walked(w, all, Len(m.nodes), addr, length, m.cursor)
  BY WalkEnds
<1>3. u = [ok |-> TRUE, mm |-> Settled(w.out, w.cursor), gone |-> w.gone]
  BY NPagesAssumption DEF mm_unmap_cb, mmvalid, Unmapped
<1> HIDE DEF all, w, u
<1>4. /\ w.out \in Seq(Piece) /\ w.cursor \in Nat /\ w.gone \subseteq Int
      /\ Listing(w.out, Upto(all, Len(m.nodes)))
  BY <1>2 DEF Walked
<1>5. Upto(all, Len(m.nodes)) \in Nat /\ Upto(all, Len(m.nodes)) <= NPages /\ NPages \in Nat
  <2>1. CASE Len(m.nodes) = 0
    BY <2>1, NPagesAssumption DEF Upto
  <2>2. CASE Len(m.nodes) # 0
    <3>1. Len(m.nodes) \in 1 .. Len(m.nodes)
      BY <1>1, <2>2
    <3> QED
      BY <1>1, <2>2, <3>1, NodeInSound, NPagesAssumption DEF Upto
  <2> QED
    BY <2>1, <2>2
<1>6. Listing(w.out, NPages)
  BY <1>4, <1>5, ListingLater
<1>7. w.cursor = 0 \/ HasId(w.out, w.cursor)
  <2>1. m.cursor \in Nat /\ ~(m.cursor > Len(m.nodes))
    BY <1>1 DEF Sound
  <2> QED
    BY <1>2, <2>1 DEF Walked
<1>8. /\ Sound(Settled(w.out, w.cursor))
      /\ \A p \in Int, i \in Infos : Covers(Settled(w.out, w.cursor).nodes, p, i) <=> Covers(w.out, p, i)
  BY <1>4, <1>6, <1>7, SettledFacts
<1>9. u.ok = TRUE /\ u.mm = Settled(w.out, w.cursor) /\ u.gone = w.gone
  BY <1>3
<1>10. DOMAIN m.nodes = 1 .. Len(m.nodes)
  BY DEF Sound
<1>11. ASSUME NEW p \in Int, NEW i \in Infos
       PROVE  Covers(u.mm.nodes, p, i) <=> Covers(m.nodes, p, i) /\ p \notin Span(addr, length)
  <2>1. Covers(w.out, p, i) <=> (\E j \in 1 .. Len(m.nodes) : At(all[j], p, i)) /\ p \notin Span(addr, length)
    BY <1>2 DEF Walked
  <2>2. \A j \in 1 .. Len(m.nodes) : At(all[j], p, i) <=> At(m.nodes[j], p, i)
    BY <1>1 DEF At
  <2> QED
    BY <1>8, <1>9, <1>10, <2>1, <2>2 DEF Covers
<1>12. ASSUME NEW p \in Int
       PROVE  p \in u.gone <=> p \in Span(addr, length) /\ \E i \in Infos : Covers(m.nodes, p, i)
  <2>1. p \in w.gone <=> p \in Span(addr, length) /\ \E j \in 1 .. Len(m.nodes) : HasPage(all[j], p)
    BY <1>2 DEF Walked
  <2>2. ASSUME NEW j \in 1 .. Len(m.nodes)
        PROVE  HasPage(all[j], p) <=> \E i \in Infos : At(m.nodes[j], p, i)
    <3>1. m.nodes[j].info \in Infos
      BY NodeInSound
    <3> QED
      BY <1>1, <3>1 DEF HasPage, At
  <2> QED
    BY <1>9, <1>10, <2>1, <2>2 DEF Covers
<1> QED
  BY <1>4, <1>8, <1>9, <1>11, <1>12 DEF Cleared, u

-----------------------------------------------------------------------------
(* A node goes into the list *)

\* Two lists in a row.
LEMMA Joined ==
  ASSUME NEW X, NEW s \in Seq(X), NEW t \in Seq(X)
  PROVE  /\ s \o t \in Seq(X) /\ Len(s \o t) = Len(s) + Len(t)
         /\ \A j \in 1 .. Len(s) : (s \o t)[j] = s[j]
         /\ \A j \in Len(s) + 1 .. Len(s) + Len(t) : (s \o t)[j] = t[j - Len(s)]
OBVIOUS

\* List t is list s with n at position k.
HasInserted(t, s, k, n) ==
  /\ Len(t) = Len(s) + 1
  /\ \A j \in 1 .. Len(s) + 1 : t[j] = IF j < k THEN s[j] ELSE IF j = k THEN n ELSE s[j - 1]

\* What InsertAt gives, position by position.
LEMMA InsertAtFacts ==
  ASSUME NEW X, NEW s \in Seq(X), NEW n \in X, NEW k \in 1 .. Len(s) + 1
  PROVE  InsertAt(s, k, n) \in Seq(X) /\ HasInserted(InsertAt(s, k, n), s, k, n)
<1> DEFINE a == SubSeq(s, 1, k - 1)
           c == SubSeq(s, k, Len(s))
<1>1. Len(s) \in Nat /\ k \in Nat
  OBVIOUS
<1>2. a \in Seq(X) /\ Len(a) = k - 1 /\ \A j \in 1 .. k - 1 : a[j] = s[j]
  OBVIOUS
<1>3. c \in Seq(X) /\ Len(c) = Len(s) - k + 1 /\ \A j \in 1 .. Len(s) - k + 1 : c[j] = s[k + j - 1]
  OBVIOUS
<1>4. InsertAt(s, k, n) = a \o <<n>> \o c
  BY DEF InsertAt
<1> HIDE DEF a, c
<1> DEFINE d == a \o <<n>>
<1>5. d \in Seq(X) /\ Len(d) = k /\ d[k] = n /\ \A j \in 1 .. k - 1 : d[j] = s[j]
  BY <1>1, <1>2
<1> HIDE DEF d
<1> DEFINE t == d \o c
<1>6. /\ t \in Seq(X) /\ Len(t) = Len(d) + Len(c) /\ \A j \in 1 .. Len(d) : t[j] = d[j]
      /\ \A j \in Len(d) + 1 .. Len(d) + Len(c) : t[j] = c[j - Len(d)]
  BY <1>3, <1>5, Joined
<1> HIDE DEF t
<1>7. ASSUME NEW j \in 1 .. Len(s) + 1
      PROVE  t[j] = IF j < k THEN s[j] ELSE IF j = k THEN n ELSE s[j - 1]
  <2>1. CASE j <= k
    BY <1>1, <1>5, <1>6, <2>1
  <2>2. CASE j > k
    <3>1. /\ j - k \in 1 .. Len(s) - k + 1 /\ k + (j - k) - 1 = j - 1
          /\ j \in k + 1 .. k + (Len(s) - k + 1)
      BY <1>1, <2>2
    <3>2. t[j] = c[j - k]
      BY <1>3, <1>5, <1>6, <3>1
    <3>3. c[j - k] = s[j - 1]
      BY <1>3, <3>1
    <3> QED
      BY <1>1, <2>2, <3>2, <3>3
  <2> QED
    BY <1>1, <2>1, <2>2
<1>8. InsertAt(s, k, n) = t
  BY <1>4 DEF d, t
<1>9. Len(t) = Len(s) + 1
  BY <1>1, <1>3, <1>5, <1>6
<1> QED
  BY <1>6, <1>7, <1>8, <1>9 DEF HasInserted

\* List t is list s with node n between its neighbours.
Extended(t, s, n) ==
  /\ t \in Seq(FullNodes) /\ Len(t) = Len(s) + 1 /\ Listing(t, NPages)
  /\ \A p \in Int, i \in Infos : Covers(t, p, i) <=> Covers(s, p, i) \/ At(n, p, i)

LEMMA InsertFacts ==
  ASSUME NEW s \in Seq(FullNodes), Listing(s, NPages), NEW n \in FullNodes, End(n) <= NPages,
         NEW k \in 1 .. Len(s) + 1,
         \A j \in 1 .. k - 1 : End(s[j]) <= n.base,
         \A j \in k .. Len(s) : End(n) <= s[j].base
  PROVE  Extended(InsertAt(s, k, n), s, n)
<1> DEFINE t == InsertAt(s, k, n)
<1>1. /\ t \in Seq(FullNodes) /\ Len(t) = Len(s) + 1
      /\ \A j \in 1 .. Len(s) + 1 : t[j] = IF j < k THEN s[j] ELSE IF j = k THEN n ELSE s[j - 1]
  <2>1. t \in Seq(FullNodes) /\ HasInserted(t, s, k, n)
    BY InsertAtFacts
  <2> HIDE DEF t
  <2> QED
    BY <2>1 DEF HasInserted
<1> HIDE DEF t
<1>2. Len(s) \in Nat /\ k \in Nat /\ DOMAIN s = 1 .. Len(s) /\ DOMAIN t = 1 .. Len(s) + 1
  BY <1>1
<1>3. n.len # 0
  BY DEF FullNodes
<1>4. ASSUME NEW j \in DOMAIN t PROVE t[j].len # 0 /\ End(t[j]) <= NPages
  <2>1. \/ j < k /\ j \in DOMAIN s /\ t[j] = s[j]
        \/ t[j] = n
        \/ j > k /\ j - 1 \in DOMAIN s /\ t[j] = s[j - 1]
    BY <1>1, <1>2
  <2> QED
    BY <2>1, <1>3 DEF Listing
<1>5. ASSUME NEW j \in DOMAIN t, NEW l \in DOMAIN t, j < l PROVE End(t[j]) <= t[l].base
  <2>1. CASE l < k
    <3>1. j \in DOMAIN s /\ l \in DOMAIN s /\ t[j] = s[j] /\ t[l] = s[l]
      BY <1>1, <1>2, <1>5, <2>1
    <3> QED
      BY <1>5, <3>1 DEF Listing
  <2>2. CASE l = k
    <3>1. j \in 1 .. k - 1 /\ t[j] = s[j] /\ t[l] = n
      BY <1>1, <1>2, <1>5, <2>2
    <3> QED
      BY <3>1
  <2>3. CASE l > k /\ j = k
    <3>1. l - 1 \in k .. Len(s) /\ t[l] = s[l - 1] /\ t[j] = n
      BY <1>1, <1>2, <2>3
    <3> QED
      BY <3>1
  <2>4. CASE l > k /\ j < k
    <3>1. j \in DOMAIN s /\ l - 1 \in DOMAIN s /\ j < l - 1 /\ t[j] = s[j] /\ t[l] = s[l - 1]
      BY <1>1, <1>2, <2>4
    <3> QED
      BY <3>1 DEF Listing
  <2>5. CASE l > k /\ j > k
    <3>1. j - 1 \in DOMAIN s /\ l - 1 \in DOMAIN s /\ j - 1 < l - 1 /\ t[j] = s[j - 1] /\ t[l] = s[l - 1]
      BY <1>1, <1>2, <1>5, <2>5
    <3> QED
      BY <3>1 DEF Listing
  <2> QED
    BY <1>2, <1>5, <2>1, <2>2, <2>3, <2>4, <2>5
<1>6. ASSUME NEW p \in Int, NEW i \in Infos
      PROVE  Covers(t, p, i) <=> Covers(s, p, i) \/ At(n, p, i)
  <2>1. ASSUME NEW j \in DOMAIN t, At(t[j], p, i) PROVE Covers(s, p, i) \/ At(n, p, i)
    <3>1. \/ j \in DOMAIN s /\ t[j] = s[j]
          \/ t[j] = n
          \/ j - 1 \in DOMAIN s /\ t[j] = s[j - 1]
      BY <1>1, <1>2
    <3> QED
      BY <2>1, <3>1 DEF Covers
  <2>2. ASSUME NEW j \in DOMAIN s, At(s[j], p, i) PROVE Covers(t, p, i)
    <3>1. CASE j < k
      <4>1. j \in DOMAIN t /\ t[j] = s[j]
        BY <1>1, <1>2, <3>1
      <4> QED
        BY <2>2, <4>1 DEF Covers
    <3>2. CASE j >= k
      <4>1. j + 1 \in DOMAIN t /\ t[j + 1] = s[j]
        BY <1>1, <1>2, <3>2
      <4> QED
        BY <2>2, <4>1 DEF Covers
    <3> QED
      BY <1>2, <3>1, <3>2
  <2>3. ASSUME At(n, p, i) PROVE Covers(t, p, i)
    <3>1. k \in DOMAIN t /\ t[k] = n
      BY <1>1, <1>2
    <3> QED
      BY <2>3, <3>1 DEF Covers
  <2> QED
    BY <2>1, <2>2, <2>3 DEF Covers
<1> QED
  BY <1>1, <1>4, <1>5, <1>6 DEF Extended, Listing, t

\* Node n has no page of list s.
Clear(s, n) == \A p \in Span(n.base, n.len), i \in Infos : ~Covers(s, p, i)

\* The nodes of the list before position k end before n, the others begin after it.
Fits(s, k, n) ==
  /\ k \in 1 .. Len(s) + 1
  /\ \A j \in 1 .. k - 1 : End(s[j]) <= n.base
  /\ \A j \in k .. Len(s) : End(n) <= s[j].base

\* A node that shares no page with the list lies before or behind each of its nodes.
LEMMA Apart ==
  ASSUME NEW m, Sound(m), NEW n \in FullNodes, Clear(m.nodes, n), NEW j \in 1 .. Len(m.nodes)
  PROVE  End(m.nodes[j]) <= n.base \/ End(n) <= m.nodes[j].base
<1> DEFINE x == m.nodes[j]
<1>1. /\ x.info \in Infos /\ x.base \in Nat /\ End(x) \in Nat /\ x.base < End(x) /\ j \in DOMAIN m.nodes
  BY NodeInSound
<1>2. n.base \in Nat /\ n.len \in Nat \ {0} /\ End(n) = n.base + n.len
  BY NPagesAssumption DEF FullNodes, Pages, End
<1> SUFFICES ASSUME End(x) > n.base, End(n) > x.base PROVE FALSE
  BY <1>1, <1>2
<1> DEFINE p == IF n.base < x.base THEN x.base ELSE n.base
<1>3. p \in Span(n.base, n.len) /\ x.base <= p /\ p < End(x)
  BY <1>1, <1>2 DEF Span
<1> HIDE DEF p
<1>4. Covers(m.nodes, p, x.info)
  BY <1>1, <1>3 DEF Covers, At
<1> QED
  BY <1>1, <1>3, <1>4 DEF Clear

\* The order of the list.
LEMMA Ordered ==
  ASSUME NEW m, Sound(m), NEW j \in 1 .. Len(m.nodes), NEW k \in 1 .. Len(m.nodes), j <= k
  PROVE  m.nodes[j].base <= m.nodes[k].base /\ End(m.nodes[j]) <= End(m.nodes[k])
<1>1. /\ m.nodes[j].base \in Nat /\ End(m.nodes[j]) \in Nat /\ m.nodes[j].base < End(m.nodes[j])
      /\ m.nodes[k].base \in Nat /\ End(m.nodes[k]) \in Nat /\ m.nodes[k].base < End(m.nodes[k])
      /\ j \in DOMAIN m.nodes /\ k \in DOMAIN m.nodes
  BY NodeInSound
<1>2. j < k => End(m.nodes[j]) <= m.nodes[k].base
  BY <1>1 DEF Sound, Listing
<1>3. j = k \/ j < k
  OBVIOUS
<1> QED
  BY <1>1, <1>2, <1>3

\* A clear range has a place, and the search finds only such places.
LEMMA PlaceFacts ==
  ASSUME NEW m, Sound(m), NEW n \in FullNodes, End(n) <= NPages, Clear(m.nodes, n)
  PROVE  /\ Places(m, n.base, n.len) # {}
         /\ \A k \in Places(m, n.base, n.len) : Fits(m.nodes, k, n)
<1> DEFINE s == m.nodes
           from == MapAtStart(m, n.base)
           next(k) == IF k < Len(s) THEN s[k + 1].base ELSE NPages
           J == {j \in from .. Len(s) : n.base >= End(s[j]) /\ n.base + n.len <= next(j)}
<1>1. Len(s) \in Nat /\ DOMAIN s = 1 .. Len(s) /\ m.cursor \in Nat /\ NPages \in Nat
  BY NPagesAssumption DEF Sound
<1>2. n.base \in Nat /\ n.len \in Nat \ {0} /\ End(n) = n.base + n.len
  BY NPagesAssumption DEF FullNodes, Pages, End
<1>3. \A j \in 1 .. Len(s) :
        /\ s[j].base \in Nat /\ End(s[j]) \in Nat /\ s[j].base < End(s[j])
        /\ End(s[j]) <= n.base \/ End(n) <= s[j].base
  BY NodeInSound, Apart
<1>4. \A j, k \in 1 .. Len(s) : j <= k => s[j].base <= s[k].base /\ End(s[j]) <= End(s[k])
  BY Ordered
<1>5. from \in Nat \ {0} /\ (from = 1 \/ (from \in 1 .. Len(s) /\ s[from].base <= n.base))
  BY <1>1 DEF MapAtStart
<1> HIDE DEF s, from
<1>6. CASE s = <<>>
  <2>1. Len(s) = 0
    BY <1>6
  <2>2. from = 1
    BY <1>1, <1>5, <2>1
  <2>3. Places(m, n.base, n.len) = {from}
    BY <1>6 DEF Places, s, from
  <2>4. Fits(s, 1, n)
    BY <2>1 DEF Fits
  <2> QED
    BY <2>2, <2>3, <2>4 DEF s
<1>7. CASE s # <<>> /\ n.base + n.len <= s[from].base
  <2>1. Len(s) # 0
    BY <1>7 DEF Sound, s
  <2>2. from = 1
    BY <1>1, <1>2, <1>3, <1>5, <1>7
  <2>3. Places(m, n.base, n.len) = {from}
    BY <1>7 DEF Places, s, from
  <2>4. ASSUME NEW j \in 1 .. Len(s) PROVE End(n) <= s[j].base
    <3>1. 1 \in 1 .. Len(s) /\ 1 <= j
      BY <1>1, <2>1
    <3>2. s[1].base <= s[j].base
      BY <1>4, <3>1
    <3> QED
      BY <1>2, <1>3, <1>7, <2>2, <3>1, <3>2
  <2>5. Fits(s, 1, n)
    BY <1>1, <2>4 DEF Fits
  <2> QED
    BY <2>2, <2>3, <2>5 DEF s
<1>8. CASE s # <<>> /\ ~(n.base + n.len <= s[from].base)
  <2>1. Len(s) # 0
    BY <1>8 DEF Sound, s
  <2>2. from \in 1 .. Len(s)
    BY <1>1, <1>5, <2>1
  <2>3. Places(m, n.base, n.len) = {k + 1 : k \in J}
    BY <1>8 DEF Places, s, from
  <2> DEFINE H == {j \in from .. Len(s) : End(s[j]) <= n.base}
  <2>4. from \in H
    BY <1>1, <1>2, <1>3, <1>8, <2>2
  <2>5. H \subseteq Nat /\ \A j \in H : j <= Len(s)
    BY <1>1, <2>2
  <2>6. Max(H) \in H /\ \A j \in H : Max(H) >= j
    <3> HIDE DEF H
    <3> QED
      BY <1>1, <2>4, <2>5, MaxOfNaturals
  <2>7. PICK x \in H : \A j \in H : x >= j
    BY <2>6
  <2>8. x \in 1 .. Len(s) /\ x \in from .. Len(s) /\ End(s[x]) <= n.base
    BY <1>1, <2>2
  <2>9. n.base + n.len <= next(x)
    <3>1. CASE x < Len(s)
      <4>1. x + 1 \in 1 .. Len(s) /\ x + 1 \in from .. Len(s) /\ ~(x >= x + 1)
        <5>1. from \in Nat /\ x \in Nat
          BY <1>5, <2>8
        <5> HIDE DEF H
        <5> QED
          BY <1>1, <2>8, <3>1, <5>1
      <4>2. x + 1 \notin H
        <5> HIDE DEF H
        <5> QED
          BY <2>7, <4>1
      <4>3. ~(End(s[x + 1]) <= n.base)
        BY <4>1, <4>2
      <4>4. End(n) <= s[x + 1].base
        BY <1>3, <4>1, <4>3
      <4> QED
        BY <1>2, <3>1, <4>4
    <3>2. CASE ~(x < Len(s))
      BY <1>2, <3>2
    <3> QED
      BY <3>1, <3>2
  <2>10. x \in J
    BY <1>1, <1>2, <1>3, <2>8, <2>9
  <2>11. ASSUME NEW y \in J PROVE Fits(s, y + 1, n)
    <3>1. y \in 1 .. Len(s) /\ End(s[y]) <= n.base /\ n.base + n.len <= next(y)
      BY <1>1, <1>2, <1>3, <2>2
    <3>2. ASSUME NEW j \in 1 .. (y + 1) - 1 PROVE End(s[j]) <= n.base
      <4>1. j \in 1 .. Len(s) /\ j <= y
        BY <1>1, <3>1
      <4>2. End(s[j]) <= End(s[y])
        BY <1>4, <3>1, <4>1
      <4> QED
        BY <1>2, <1>3, <3>1, <4>1, <4>2
    <3>3. ASSUME NEW j \in y + 1 .. Len(s) PROVE End(n) <= s[j].base
      <4>1. y < Len(s) /\ y + 1 \in 1 .. Len(s) /\ j \in 1 .. Len(s) /\ y + 1 <= j
        BY <1>1, <3>1
      <4>2. s[y + 1].base <= s[j].base
        BY <1>4, <4>1
      <4>3. End(n) <= s[y + 1].base
        BY <1>2, <3>1, <4>1
      <4> QED
        BY <1>2, <1>3, <4>1, <4>2, <4>3, SMTT(20)
    <3>4. y + 1 \in 1 .. Len(s) + 1
      BY <1>1, <3>1
    <3> QED
      BY <3>2, <3>3, <3>4 DEF Fits
  <2> HIDE DEF J
  <2> QED
    BY <2>3, <2>10, <2>11 DEF s
<1> QED
  BY <1>6, <1>7, <1>8 DEF s

-----------------------------------------------------------------------------
(* mm_mapat_cb *)

\* A node that fits at position k: the list with it is an address space.
LEMMA InsertedFacts ==
  ASSUME NEW m, Sound(m), NEW n \in FullNodes, End(n) <= NPages, NEW k, Fits(m.nodes, k, n)
  PROVE  Extended(InsertAt(m.nodes, k, n), m.nodes, n) /\ Sound(Inserted(m, k, n))
<1>1. /\ m.nodes \in Seq(FullNodes) /\ Listing(m.nodes, NPages) /\ m.cursor \in 0 .. Len(m.nodes)
      /\ Len(m.nodes) \in Nat
  BY DEF Sound
<1>2. Extended(InsertAt(m.nodes, k, n), m.nodes, n)
  BY <1>1, InsertFacts DEF Fits
<1> DEFINE t == InsertAt(m.nodes, k, n)
           c == IF m.cursor >= k THEN m.cursor + 1 ELSE m.cursor
<1>3. k \in Nat /\ c \in 0 .. Len(m.nodes) + 1
  BY <1>1 DEF Fits
<1>4. Inserted(m, k, n) = [nodes |-> t, cursor |-> c]
  BY DEF Inserted
<1>5. t \in Seq(FullNodes) /\ Len(t) = Len(m.nodes) + 1 /\ Listing(t, NPages)
  BY <1>2 DEF Extended
<1> HIDE DEF t, c
<1>6. Inserted(m, k, n).nodes = t /\ Inserted(m, k, n).cursor = c
  BY <1>4
<1> QED
  BY <1>2, <1>3, <1>5, <1>6 DEF Sound

\* What mm_mapat_cb promises: the range is info's, the rest is as it was, and
\* ufn was called for exactly the pages that had been mapped.
Replaced(r, m, addr, length, info) ==
  /\ r.ok = TRUE /\ r.assert = TRUE /\ Sound(r.mm) /\ r.gone \subseteq Int
  /\ \A p \in Int, i \in Infos :
       Covers(r.mm.nodes, p, i) <=> \/ Covers(m.nodes, p, i) /\ p \notin Span(addr, length)
                                    \/ p \in Span(addr, length) /\ i = info
  /\ \A p \in Int : p \in r.gone <=> p \in Span(addr, length) /\ \E i \in Infos : Covers(m.nodes, p, i)

LEMMA MapAtFacts ==
  ASSUME NEW m, Sound(m), NEW addr \in Nat, NEW length \in Nat \ {0}, addr + length <= NPages,
         NEW info \in Infos
  PROVE  Replaced(mm_mapat_cb(m, addr, length, info), m, addr, length, info)
<1> DEFINE u == mm_unmap_cb(m, addr, length)
           n == [base |-> addr, len |-> length, info |-> info]
           places == Places(u.mm, addr, length)
           r == mm_mapat_cb(m, addr, length, info)
<1>1. Cleared(u, m, addr, length)
  BY UnmapFacts
<1>2. n.base = addr /\ n.len = length /\ n.info = info /\ End(n) = addr + length
  BY DEF End
<1>3. n \in FullNodes
  <2>1. addr \in 0 .. NPages - 1 /\ length \in 1 .. NPages
    BY NPagesAssumption
  <2> QED
    BY <2>1 DEF FullNodes, Pages
<1>4. r = MapAtInsert(u, places, n)
  BY <1>2, NPagesAssumption DEF mm_mapat_cb, mmvalid, MapAtAfter
<1> HIDE DEF u, n, r
<1>5. Sound(u.mm) /\ u.ok = TRUE /\ u.gone \subseteq Int
  BY <1>1 DEF Cleared
<1>6. Span(addr, length) \subseteq Int
  BY DEF Span
<1>7. Clear(u.mm.nodes, n)
  BY <1>1, <1>2, <1>6 DEF Clear, Cleared
<1>8. places # {} /\ \A k \in places : Fits(u.mm.nodes, k, n)
  BY <1>2, <1>3, <1>5, <1>7, PlaceFacts
<1> HIDE DEF places
<1>9. Min(places) \in places
  <2>1. places \subseteq Nat
    BY <1>8 DEF Fits
  <2> QED
    BY <1>8, <2>1, MinOfNaturals
<1> DEFINE k == Min(places)
<1>10. Fits(u.mm.nodes, k, n)
  BY <1>8, <1>9
<1>11. r = [ok |-> TRUE, assert |-> TRUE, mm |-> Inserted(u.mm, k, n), gone |-> u.gone]
  BY <1>4, <1>5, <1>8 DEF MapAtInsert
<1> HIDE DEF k
<1>12. Extended(InsertAt(u.mm.nodes, k, n), u.mm.nodes, n) /\ Sound(Inserted(u.mm, k, n))
  BY <1>2, <1>3, <1>5, <1>10, InsertedFacts
<1>13. /\ r.ok = TRUE /\ r.assert = TRUE /\ r.mm = Inserted(u.mm, k, n) /\ r.gone = u.gone
       /\ r.mm.nodes = InsertAt(u.mm.nodes, k, n)
  BY <1>11 DEF Inserted
<1>14. ASSUME NEW p \in Int, NEW i \in Infos
       PROVE  Covers(r.mm.nodes, p, i) <=> \/ Covers(m.nodes, p, i) /\ p \notin Span(addr, length)
                                           \/ p \in Span(addr, length) /\ i = info
  <2>1. Covers(r.mm.nodes, p, i) <=> Covers(u.mm.nodes, p, i) \/ At(n, p, i)
    BY <1>12, <1>13 DEF Extended
  <2>2. Covers(u.mm.nodes, p, i) <=> Covers(m.nodes, p, i) /\ p \notin Span(addr, length)
    BY <1>1 DEF Cleared
  <2>3. At(n, p, i) <=> p \in Span(addr, length) /\ i = info
    BY <1>2 DEF At, Span
  <2> QED
    BY <2>1, <2>2, <2>3
<1>15. \A p \in Int : p \in r.gone <=> p \in Span(addr, length) /\ \E i \in Infos : Covers(m.nodes, p, i)
  BY <1>1, <1>13 DEF Cleared
<1> QED
  BY <1>5, <1>12, <1>13, <1>14, <1>15 DEF Replaced, r

-----------------------------------------------------------------------------
(* mm_mapany *)

\* A node between its neighbours has no page of the list.
LEMMA FitsClear ==
  ASSUME NEW m, Sound(m), NEW n \in FullNodes, NEW k, Fits(m.nodes, k, n)
  PROVE  Clear(m.nodes, n)
<1> SUFFICES ASSUME NEW p \in Span(n.base, n.len), NEW i \in Infos, Covers(m.nodes, p, i) PROVE FALSE
  BY DEF Clear
<1>1. n.base \in Nat /\ n.len \in Nat /\ End(n) = n.base + n.len
  BY NPagesAssumption DEF FullNodes, Pages, End
<1>2. p \in Int /\ n.base <= p /\ p < End(n)
  BY <1>1 DEF Span
<1>3. PICK j \in DOMAIN m.nodes : At(m.nodes[j], p, i)
  BY DEF Covers
<1>4. j \in 1 .. Len(m.nodes) /\ Len(m.nodes) \in Nat /\ k \in Nat
  BY DEF Sound, Fits
<1>5. m.nodes[j].base \in Nat /\ End(m.nodes[j]) \in Nat
  BY <1>4, NodeInSound
<1>6. m.nodes[j].base <= p /\ p < End(m.nodes[j])
  BY <1>3 DEF At
<1>7. End(m.nodes[j]) <= n.base \/ End(n) <= m.nodes[j].base
  <2>1. j \in 1 .. k - 1 \/ j \in k .. Len(m.nodes)
    BY <1>4
  <2> QED
    BY <2>1 DEF Fits
<1> QED
  BY <1>1, <1>2, <1>5, <1>6, <1>7

\* A gap that is long enough: a node at its start fits.
LEMMA GapFacts ==
  ASSUME NEW m, Sound(m), NEW len \in Nat \ {0}, NEW info \in Infos, NEW from \in 0 .. Len(m.nodes),
         NEW k \in Gaps(m, len, from)
  PROVE  /\ k \in from + 1 .. Len(m.nodes) + 1
         /\ GapStart(m, k) \in Nat /\ GapStart(m, k) + len <= NPages
         /\ [base |-> GapStart(m, k), len |-> len, info |-> info] \in FullNodes
         /\ Fits(m.nodes, k, [base |-> GapStart(m, k), len |-> len, info |-> info])
<1> DEFINE s == m.nodes
           last == Len(s) + 1
           stop == IF k = last THEN NPages ELSE s[k].base
           g == GapStart(m, k)
           n == [base |-> g, len |-> len, info |-> info]
<1>1. Len(s) \in Nat /\ NPages \in Nat
  BY NPagesAssumption DEF Sound
<1>2. k \in from + 1 .. last /\ stop - g >= len
  BY DEF Gaps
<1>3. k \in 1 .. Len(s) + 1
  BY <1>1, <1>2
<1>4. \A j \in 1 .. Len(s) : s[j].base \in Nat /\ End(s[j]) \in Nat /\ s[j].base < End(s[j]) /\ End(s[j]) <= NPages
  BY NodeInSound
<1>5. \A j, l \in 1 .. Len(s) : j <= l => s[j].base <= s[l].base /\ End(s[j]) <= End(s[l])
  BY Ordered
<1>6. g = IF k = 1 THEN 0 ELSE End(s[k - 1])
  BY DEF GapStart
<1> HIDE DEF s, g
<1>7. g \in Nat
  <2>1. k # 1 => k - 1 \in 1 .. Len(s)
    BY <1>1, <1>3
  <2> QED
    BY <1>4, <1>6, <2>1
<1>8. stop \in Nat /\ stop <= NPages
  <2>1. k # last => k \in 1 .. Len(s)
    BY <1>1, <1>3
  <2> QED
    BY <1>1, <1>4, <2>1
<1>9. g + len <= stop /\ g + len <= NPages
  <2> HIDE DEF stop
  <2> QED
    BY <1>1, <1>2, <1>7, <1>8
<1>10. n \in FullNodes
  <2>1. g \in 0 .. NPages - 1 /\ len \in 1 .. NPages
    BY <1>1, <1>7, <1>9
  <2> QED
    BY <2>1 DEF FullNodes, Pages
<1>11. n.base = g /\ End(n) = g + len
  BY DEF End
<1>12. ASSUME NEW j \in 1 .. k - 1 PROVE End(s[j]) <= g
  <2>1. j \in 1 .. Len(s) /\ k - 1 \in 1 .. Len(s) /\ j <= k - 1 /\ k # 1
    BY <1>1, <1>3
  <2> QED
    BY <1>5, <1>6, <2>1
<1>13. ASSUME NEW j \in k .. Len(s) PROVE g + len <= s[j].base
  <2>1. j \in 1 .. Len(s) /\ k \in 1 .. Len(s) /\ k <= j /\ k # last
    BY <1>1, <1>3
  <2>2. s[k].base <= s[j].base /\ g + len <= s[k].base
    BY <1>5, <1>9, <2>1
  <2> QED
    BY <1>4, <1>7, <2>1, <2>2
<1>14. Fits(s, k, n)
  <2> HIDE DEF n
  <2> QED
    BY <1>3, <1>11, <1>12, <1>13 DEF Fits
<1> QED
  BY <1>2, <1>7, <1>9, <1>10, <1>14 DEF s, g

\* What a search that finds room promises: the range was free and is info's, the
\* rest is as it was.
Placed(r, m, len, info) ==
  /\ Sound(r.mm) /\ r.addr \in Nat /\ r.addr + len <= NPages
  /\ \A p \in Span(r.addr, len), i \in Infos : ~Covers(m.nodes, p, i)
  /\ \A p \in Int, i \in Infos :
       Covers(r.mm.nodes, p, i) <=> Covers(m.nodes, p, i) \/ (p \in Span(r.addr, len) /\ i = info)

\* The answer of a search from one node, and of both.
Searched(r, m, len, info, from) ==
  /\ r.ok = (Gaps(m, len, from) # {})
  /\ Gaps(m, len, from) = {} => r.mm = m
  /\ Gaps(m, len, from) # {} =>
       /\ Placed(r, m, len, info)
       /\ \E k \in Gaps(m, len, from) : r.addr = GapStart(m, k)

Answered(r, m, len, info) ==
  /\ r.ok \in BOOLEAN
  /\ ~r.ok => r.mm = m
  /\ r.ok => Placed(r, m, len, info) /\ (m.nodes # <<>> => r.addr >= End(m.nodes[1]))
  /\ Gaps(m, len, IF m.nodes = <<>> THEN NoNode ELSE 1) # {} => r.ok

LEMMA FirstFitFacts ==
  ASSUME NEW m, Sound(m), NEW len \in Nat \ {0}, NEW info \in Infos, NEW from \in 0 .. Len(m.nodes)
  PROVE  Searched(mm_mapany_cursor(m, len, info, from), m, len, info, from)
<1> DEFINE fit == Gaps(m, len, from)
           r == mm_mapany_cursor(m, len, info, from)
<1>1. r = FirstFit(m, len, info, fit)
  BY DEF mm_mapany_cursor
<1>2. CASE fit = {}
  <2>1. r = [ok |-> FALSE, mm |-> m, addr |-> 0]
    BY <1>1, <1>2 DEF FirstFit
  <2> HIDE DEF r, fit
  <2>2. r.ok = FALSE /\ r.mm = m
    BY <2>1
  <2> QED
    BY <1>2, <2>2 DEF r, fit, Searched
<1>3. CASE fit # {}
  <2> DEFINE k == Min(fit)
             g == GapStart(m, k)
             n == [base |-> g, len |-> len, info |-> info]
  <2>1. k \in fit
    <3>1. fit \subseteq Nat
      <4>1. from \in Nat /\ Len(m.nodes) \in Nat
        BY DEF Sound
      <4> QED
        BY <4>1 DEF Gaps
    <3> HIDE DEF fit
    <3> QED
      BY <1>3, <3>1, MinOfNaturals
  <2>2. r = [ok |-> TRUE, addr |-> g, mm |-> [nodes |-> InsertAt(m.nodes, k, n), cursor |-> k - 1]]
    BY <1>1, <1>3 DEF FirstFit
  <2> HIDE DEF k
  <2>3. /\ k \in from + 1 .. Len(m.nodes) + 1 /\ g \in Nat /\ g + len <= NPages
        /\ n \in FullNodes /\ Fits(m.nodes, k, n)
    BY <2>1, GapFacts
  <2>4. n.base = g /\ n.len = len /\ n.info = info /\ End(n) = g + len
    BY DEF End
  <2> HIDE DEF r, g, n, fit
  <2>5. /\ r.ok = TRUE /\ r.addr = g /\ r.mm.nodes = InsertAt(m.nodes, k, n)
        /\ r.mm.cursor = k - 1
    BY <2>2
  <2>6. Extended(InsertAt(m.nodes, k, n), m.nodes, n)
    BY <2>3, <2>4, InsertedFacts
  <2>7. Clear(m.nodes, n)
    BY <2>3, FitsClear
  <2>8. Sound(r.mm)
    <3>1. Len(m.nodes) \in Nat /\ from \in Nat
      BY DEF Sound
    <3>2. k - 1 \in 0 .. Len(m.nodes) + 1
      BY <2>3, <3>1
    <3> QED
      BY <2>5, <2>6, <3>2 DEF Extended, Sound
  <2>9. ASSUME NEW p \in Int, NEW i \in Infos
        PROVE  Covers(r.mm.nodes, p, i) <=> Covers(m.nodes, p, i) \/ (p \in Span(g, len) /\ i = info)
    <3>1. At(n, p, i) <=> p \in Span(g, len) /\ i = info
      BY <2>3, <2>4 DEF At, Span
    <3> QED
      BY <2>5, <2>6, <3>1 DEF Extended
  <2>10. Placed(r, m, len, info)
    BY <2>3, <2>4, <2>5, <2>7, <2>8, <2>9 DEF Placed, Clear
  <2> QED
    BY <1>3, <2>1, <2>5, <2>10 DEF r, fit, g, Searched
<1> QED
  BY <1>2, <1>3

\* The two searches of mm_mapany together.
LEMMA MapAnyFacts ==
  ASSUME NEW m, Sound(m), NEW len \in Nat \ {0}, NEW info \in Infos
  PROVE  Answered(mm_mapany(m, len, info), m, len, info)
<1> DEFINE c == IF m.nodes = <<>> THEN NoNode ELSE 1
           head == mm_mapany_cursor(m, len, info, c)
           near == mm_mapany_cursor(m, len, info, m.cursor)
           r == mm_mapany(m, len, info)
<1>1. /\ c \in 0 .. Len(m.nodes) /\ m.cursor \in 0 .. Len(m.nodes) /\ Len(m.nodes) \in Nat
      /\ m.nodes # <<>> => c = 1 /\ 1 \in 1 .. Len(m.nodes)
  BY DEF Sound, NoNode
<1>2. r = IF m.cursor # NoNode /\ near.ok THEN near ELSE head
  BY DEF mm_mapany
<1>3. ASSUME NEW from \in 0 .. Len(m.nodes), from # 0, NEW k \in Gaps(m, len, from), m.nodes # <<>>
      PROVE  GapStart(m, k) >= End(m.nodes[1])
  <2>1. k \in from + 1 .. Len(m.nodes) + 1
    BY GapFacts
  <2>2. k # 1 /\ k - 1 \in 1 .. Len(m.nodes) /\ 1 <= k - 1
    BY <1>1, <1>3, <2>1
  <2>3. GapStart(m, k) = End(m.nodes[k - 1])
    BY <2>2 DEF GapStart
  <2>4. End(m.nodes[1]) <= End(m.nodes[k - 1]) /\ End(m.nodes[1]) \in Nat /\ End(m.nodes[k - 1]) \in Nat
    BY <1>1, <1>3, <2>2, Ordered, NodeInSound
  <2> QED
    BY <2>3, <2>4
<1>4. Searched(head, m, len, info, c) /\ Searched(near, m, len, info, m.cursor)
  <2> HIDE DEF c
  <2> QED
    BY <1>1, FirstFitFacts
<1> HIDE DEF head, near
<1>5. ASSUME m.cursor # NoNode, near.ok PROVE Answered(r, m, len, info)
  <2>1. r = near /\ m.cursor # 0 /\ near.ok = TRUE /\ Gaps(m, len, m.cursor) # {}
    BY <1>2, <1>4, <1>5 DEF NoNode, Searched
  <2> HIDE DEF r
  <2> QED
    BY <1>1, <1>3, <1>4, <2>1 DEF Searched, Answered
<1>6. ASSUME ~(m.cursor # NoNode /\ near.ok) PROVE Answered(r, m, len, info)
  <2>1. r = head
    BY <1>2, <1>6
  <2> HIDE DEF r, c
  <2>2. head.ok \in BOOLEAN /\ (head.ok = TRUE <=> Gaps(m, len, c) # {})
    BY <1>4 DEF Searched
  <2>3. ASSUME head.ok = TRUE, m.nodes # <<>> PROVE head.addr >= End(m.nodes[1])
    <3>1. PICK k \in Gaps(m, len, c) : head.addr = GapStart(m, k)
      BY <1>4, <2>2, <2>3 DEF Searched
    <3>2. c = 1 /\ c \in 0 .. Len(m.nodes)
      BY <1>1, <2>3 DEF c
    <3>3. GapStart(m, k) >= End(m.nodes[1])
      BY <1>3, <2>3, <3>2
    <3> QED
      BY <3>1, <3>3
  <2> QED
    BY <1>4, <2>1, <2>2, <2>3 DEF Searched, Answered, c
<1> QED
  BY <1>5, <1>6

\* A long enough run of free pages behind the first node: the search from the
\* head of the list finds a gap.
LEMMA RoomFound ==
  ASSUME NEW m, Sound(m), NEW len \in 1 .. NPages, NEW first \in 0 .. NPages - len,
         m.nodes # <<>> => first >= End(m.nodes[1]),
         \A p \in Span(first, len), i \in Infos : ~Covers(m.nodes, p, i)
  PROVE  Gaps(m, len, IF m.nodes = <<>> THEN NoNode ELSE 1) # {}
<1> DEFINE s == m.nodes
           last == Len(s) + 1
           n == [base |-> first, len |-> len, info |-> "any"]
           gap(k) == (IF k = last THEN NPages ELSE s[k].base) - GapStart(m, k)
           c == IF s = <<>> THEN NoNode ELSE 1
<1>1. Len(s) \in Nat /\ NPages \in Nat /\ first \in Nat /\ len \in Nat \ {0} /\ first + len <= NPages
  BY NPagesAssumption DEF Sound
<1> SUFFICES ASSUME NEW k \in c + 1 .. last,
                    \A j \in c + 1 .. k : GapStart(m, j) < NPages, gap(k) >= len
             PROVE  k \in Gaps(m, len, c)
  <2>1. CASE s = <<>>
    <3>1. Len(s) = 0 /\ c = 0 /\ GapStart(m, 1) = 0
      BY <2>1 DEF NoNode, GapStart
    <3>2. 1 \in c + 1 .. last /\ gap(1) >= len /\ \A j \in c + 1 .. 1 : GapStart(m, j) < NPages
      BY <1>1, <3>1
    <3> HIDE DEF gap, last, c
    <3> QED
      BY <3>2 DEF c
  <2>2. CASE s # <<>>
    <3>1. Len(s) # 0 /\ c = 1 /\ 1 \in 1 .. Len(s)
      BY <1>1, <2>2 DEF Sound
    <3>2. n \in FullNodes /\ n.base = first /\ n.len = len /\ End(n) = first + len
      <4>1. first \in 0 .. NPages - 1 /\ len \in 1 .. NPages
        BY <1>1
      <4> QED
        BY <4>1 DEF FullNodes, Pages, Infos, End
    <3> HIDE DEF n
    <3>3. Clear(m.nodes, n)
      BY <3>2 DEF Clear
    <3>4. \A j \in 1 .. Len(s) : /\ s[j].base \in Nat /\ End(s[j]) \in Nat
                                 /\ End(s[j]) <= first \/ first + len <= s[j].base
      BY <3>2, <3>3, NodeInSound, Apart
    <3>5. \A j, l \in 1 .. Len(s) : j <= l => End(s[j]) <= End(s[l])
      BY Ordered
    <3> HIDE DEF s
    <3> DEFINE H == {j \in 1 .. Len(s) : End(s[j]) <= first}
    <3>6. 1 \in H
      BY <1>1, <2>2, <3>1, <3>4 DEF s
    <3>7. PICK x \in H : \A j \in H : x >= j
      <4>1. H \subseteq Nat /\ H # {} /\ \A j \in H : j <= Len(s)
        BY <1>1, <3>6
      <4> HIDE DEF H
      <4> QED
        BY <1>1, <4>1, MaxOfNaturals
    <3>8. x \in 1 .. Len(s) /\ x \in Nat /\ End(s[x]) <= first
      BY <1>1
    <3>9. x + 1 \in 1 .. Len(s) => first + len <= s[x + 1].base
      <4> SUFFICES ASSUME x + 1 \in 1 .. Len(s) PROVE first + len <= s[x + 1].base
        OBVIOUS
      <4>1. x + 1 \notin H
        <5>1. ~(x >= x + 1)
          BY <3>8
        <5> HIDE DEF H
        <5> QED
          BY <3>7, <5>1
      <4> QED
        BY <3>4, <4>1
    <3> HIDE DEF H
    <3>10. \A j \in 2 .. x + 1 : GapStart(m, j) = End(s[j - 1]) /\ GapStart(m, j) <= first
      <4> TAKE j \in 2 .. x + 1
      <4>1. j # 1 /\ j - 1 \in 1 .. Len(s) /\ j - 1 <= x
        BY <1>1, <3>8
      <4>2. GapStart(m, j) = End(s[j - 1])
        BY <4>1 DEF GapStart, s
      <4>3. End(s[j - 1]) <= End(s[x])
        BY <3>5, <3>8, <4>1
      <4> QED
        BY <1>1, <3>4, <3>8, <4>1, <4>2, <4>3
    <3>11. x + 1 \in 2 .. x + 1 /\ x + 1 \in c + 1 .. last /\ (x + 1 = last \/ x + 1 \in 1 .. Len(s))
      BY <1>1, <3>1, <3>8
    <3>12. GapStart(m, x + 1) = End(s[x])
      BY <3>8, <3>10, <3>11
    <3>13. gap(x + 1) >= len
      <4>1. CASE x + 1 = last
        BY <1>1, <3>4, <3>8, <3>12, <4>1
      <4>2. CASE x + 1 # last
        BY <1>1, <3>4, <3>8, <3>9, <3>11, <3>12, <4>2
      <4> QED
        BY <4>1, <4>2
    <3>14. \A j \in c + 1 .. x + 1 : GapStart(m, j) < NPages
      <4> TAKE j \in c + 1 .. x + 1
      <4>1. j \in 2 .. x + 1 /\ j - 1 \in 1 .. Len(s)
        BY <1>1, <3>1, <3>8
      <4> QED
        BY <1>1, <3>4, <3>10, <4>1, SMTT(20)
    <3> HIDE DEF gap, last, c
    <3> QED
      BY <3>11, <3>13, <3>14 DEF c, s
  <2> QED
    BY <2>1, <2>2
<1> QED
  BY DEF Gaps

LEMMA FullNodesFacts ==
  /\ FullNodes \subseteq Nodes
  /\ \A s : s \in Seq(FullNodes) => s \in Seq(Nodes)
<1>1. FullNodes \subseteq Nodes
  BY NPagesAssumption DEF FullNodes, Nodes
<1>2. ASSUME NEW s \in Seq(FullNodes) PROVE s \in Seq(Nodes)
  BY <1>1
<1> QED
  BY <1>1, <1>2

\* The tracker's view of a page, from the list.
LEMMA TrackedFacts ==
  ASSUME mm.nodes \in Seq(Nodes), NEW p \in Int
  PROVE  /\ Tracked(p) = Reserved <=> \A i \in Infos : ~Covers(mm.nodes, p, i)
         /\ Tracked(p) # Reserved => Tracked(p) \in Infos /\ Covers(mm.nodes, p, Tracked(p))
<1> DEFINE s == mm.nodes
           at == {k \in DOMAIN s : p \in Span(s[k].base, s[k].len)}
<1>1. \A k \in DOMAIN s : s[k].base \in Nat /\ s[k].len \in Nat /\ s[k].info \in Infos
  <2> TAKE k \in DOMAIN s
  <2>1. s[k] \in Nodes
    OBVIOUS
  <2> QED
    BY <2>1, NPagesAssumption DEF Nodes, Pages
<1> HIDE DEF s
<1>2. \A k \in DOMAIN s : k \in at <=> At(s[k], p, s[k].info)
  BY <1>1 DEF At, Span, End
<1>3. Tracked(p) = IF at = {} THEN Reserved ELSE s[CHOOSE k \in at : TRUE].info
  BY DEF Tracked, s
<1>4. at \subseteq DOMAIN s
  OBVIOUS
<1>5. \A i : i \in Infos => i # Reserved
  BY DEF Infos, Reserved
<1> HIDE DEF at
<1>6. CASE at = {}
  <2>1. \A i \in Infos, k \in DOMAIN s : At(s[k], p, i) => At(s[k], p, s[k].info)
    BY DEF At
  <2> QED
    BY <1>2, <1>3, <1>6, <2>1 DEF Covers, s
<1>7. CASE at # {}
  <2>1. PICK k \in at : Tracked(p) = s[k].info
    BY <1>3, <1>7
  <2>2. k \in DOMAIN s /\ At(s[k], p, s[k].info) /\ s[k].info \in Infos
    BY <1>1, <1>2, <1>4
  <2> QED
    BY <1>5, <2>1, <2>2 DEF Covers, s
<1> QED
  BY <1>6, <1>7

LEMMA FitComplete ==
  ASSUME Sound(mm)
  PROVE  FirstFitComplete
<1> SUFFICES ASSUME NEW len \in 1 .. NPages
             PROVE  mm_mapany(mm, len, "any").ok <=>
                      \E first \in 0 .. NPages - len :
                        /\ mm.nodes # <<>> => first >= End(mm.nodes[1])
                        /\ \A p \in Span(first, len) : Tracked(p) = Reserved
  BY DEF FirstFitComplete
<1> DEFINE r == mm_mapany(mm, len, "any")
<1>1. len \in Nat \ {0} /\ NPages \in Nat /\ "any" \in Infos
  BY NPagesAssumption DEF Infos
<1>2. Answered(r, mm, len, "any")
  BY <1>1, MapAnyFacts
<1> HIDE DEF r
<1>3. ASSUME NEW first \in Int, NEW p \in Span(first, len)
      PROVE  Tracked(p) = Reserved <=> \A i \in Infos : ~Covers(mm.nodes, p, i)
  <2>1. p \in Int
    BY <1>1 DEF Span
  <2>2. mm.nodes \in Seq(Nodes)
    BY FullNodesFacts DEF Sound
  <2> QED
    BY <2>1, <2>2, TrackedFacts
<1>4. ASSUME r.ok
      PROVE  \E first \in 0 .. NPages - len :
               /\ mm.nodes # <<>> => first >= End(mm.nodes[1])
               /\ \A p \in Span(first, len) : Tracked(p) = Reserved
  <2>1. r.addr \in Nat /\ r.addr + len <= NPages /\ (mm.nodes # <<>> => r.addr >= End(mm.nodes[1]))
    BY <1>2, <1>4 DEF Answered, Placed
  <2>2. r.addr \in 0 .. NPages - len /\ r.addr \in Int
    BY <1>1, <2>1
  <2>3. \A p \in Span(r.addr, len), i \in Infos : ~Covers(mm.nodes, p, i)
    BY <1>2, <1>4 DEF Answered, Placed
  <2> QED
    BY <1>3, <2>1, <2>2, <2>3
<1>5. ASSUME NEW first \in 0 .. NPages - len, mm.nodes # <<>> => first >= End(mm.nodes[1]),
             \A p \in Span(first, len) : Tracked(p) = Reserved
      PROVE  r.ok
  <2>1. first \in Int
    BY <1>1
  <2>2. Gaps(mm, len, IF mm.nodes = <<>> THEN NoNode ELSE 1) # {}
    BY <1>3, <1>5, <2>1, RoomFound
  <2> QED
    BY <1>2, <2>2 DEF Answered
<1>6. r.ok \in BOOLEAN
  BY <1>2 DEF Answered
<1> QED
  BY <1>4, <1>5, <1>6 DEF r

-----------------------------------------------------------------------------
(* Bytes and pages *)

LEMMA Division ==
  ASSUME NEW a \in Int
  PROVE  /\ a \div PageSize \in Int /\ a % PageSize \in 0 .. PageSize - 1
         /\ a = PageSize * (a \div PageSize) + (a % PageSize)
BY LayoutAssumption

\* Multiples of the page size.
LEMMA Multiple ==
  ASSUME NEW q \in Int
  PROVE  PageSize * q \in Int /\ q * PageSize = PageSize * q /\ (PageSize * q) \div PageSize = q
BY LayoutAssumption

LEMMA MultipleNat ==
  ASSUME NEW q \in Nat
  PROVE  PageSize * q \in Nat
BY LayoutAssumption

LEMMA MultipleSum ==
  ASSUME NEW p \in Int, NEW q \in Int
  PROVE  PageSize * (p + q) = PageSize * p + PageSize * q /\ PageSize * (p - q) = PageSize * p - PageSize * q
BY LayoutAssumption

LEMMA MultipleOne == PageSize * 1 = PageSize /\ PageSize * 0 = 0
BY LayoutAssumption

LEMMA MultipleMono ==
  ASSUME NEW p \in Int, NEW q \in Int, p <= q
  PROVE  PageSize * p <= PageSize * q
BY LayoutAssumption

\* Multiples are ordered as their quotients.
LEMMA MultipleOrder ==
  ASSUME NEW p \in Int, NEW q \in Int, PageSize * p < PageSize * q
  PROVE  p + 1 <= q
<1> USE LayoutAssumption
<1>1. ASSUME q <= p PROVE FALSE
  <2>1. PageSize * q <= PageSize * p
    BY <1>1
  <2> QED
    BY <2>1
<1> QED
  BY <1>1

\* Rounding n bytes up to pages does not wrap.
NoWrap(n) == n + PageSize <= WordMod

LEMMA WordFacts ==
  /\ PageSize \in Nat \ {0} /\ WordMod \in Nat \ {0} /\ PageSize < WordMod
  /\ \E w \in Int : WordMod = PageSize * w
<1>1. /\ PageSize \in Nat \ {0} /\ WordMod \in Nat /\ WordMod % PageSize = 0
      /\ NPages \in Nat /\ BoxBase \in Nat /\ BoxBase >= PageSize /\ BoxBase + BoxSize < WordMod
  BY LayoutAssumption, NPagesAssumption
<1>2. BoxSize \in Nat
  <2>1. BoxSize = PageSize * NPages /\ PageSize * NPages \in Nat
    BY <1>1, Multiple, MultipleNat DEF BoxSize
  <2> QED
    BY <2>1
<1>3. PageSize < WordMod
  BY <1>1, <1>2
<1>4. WordMod = PageSize * (WordMod \div PageSize) /\ WordMod \div PageSize \in Int
  <2> DEFINE w == WordMod \div PageSize
  <2>1. w \in Int /\ WordMod = PageSize * w + (WordMod % PageSize) /\ PageSize * w \in Int
    BY <1>1, Division, Multiple
  <2> HIDE DEF w
  <2>2. WordMod = PageSize * w
    BY <1>1, <2>1
  <2> QED
    BY <2>1, <2>2 DEF w
<1> QED
  BY <1>1, <1>3, <1>4

\* No size of a part of the box wraps.
LEMMA BoxFits ==
  ASSUME NEW n \in Nat, n <= BoxSize
  PROVE  NoWrap(n)
<1>1. /\ PageSize \in Nat /\ WordMod \in Nat /\ BoxBase \in Nat /\ BoxBase >= PageSize
      /\ BoxBase + BoxSize < WordMod
  BY LayoutAssumption
<1>2. BoxSize \in Nat
  <2>1. BoxSize = PageSize * NPages /\ PageSize * NPages \in Nat
    BY Multiple, MultipleNat, NPagesAssumption DEF BoxSize
  <2> QED
    BY <2>1
<1> QED
  BY <1>1, <1>2 DEF NoWrap

\* A length in the last page of the address space takes no page at all.
LEMMA CeilWraps ==
  ASSUME NEW n \in 0 .. WordMod - 1, ~NoWrap(n)
  PROVE  ceil(n) = 0
<1> DEFINE a == n + PageSize - 1
<1>1. PageSize \in Nat \ {0} /\ WordMod \in Nat \ {0} /\ PageSize < WordMod
  BY WordFacts
<1>2. a \in Nat /\ a >= WordMod /\ a - WordMod < PageSize - 1 /\ a - WordMod \in Nat /\ a < WordMod + WordMod
  BY <1>1 DEF NoWrap
<1>3. ceil(n) = (a % WordMod) \div PageSize
  BY DEF ceil
<1> HIDE DEF a
<1>4. a % WordMod = a - WordMod
  BY <1>1, <1>2
<1>5. (a - WordMod) \div PageSize = 0
  BY <1>1, <1>2
<1> QED
  BY <1>3, <1>4, <1>5

\* The pages that n bytes take.
LEMMA CeilFacts ==
  ASSUME NEW n \in Nat, NoWrap(n)
  PROVE  /\ ceil(n) \in Nat /\ n <= PageSize * ceil(n) /\ PageSize * ceil(n) < n + PageSize
         /\ (n # 0 => ceil(n) # 0) /\ PageSize * ceil(n) \in Nat
<1> DEFINE a == n + PageSize - 1
           q == a \div PageSize
           m == a % PageSize
<1>1. a \in Nat /\ PageSize \in Nat \ {0}
  BY LayoutAssumption
<1>2. q \in Int /\ m \in 0 .. PageSize - 1 /\ a = PageSize * q + m /\ PageSize * q \in Int
  BY <1>1, Division, Multiple
<1>3. ceil(n) = q
  <2>1. WordMod \in Nat \ {0} /\ a < WordMod
    BY <1>1, WordFacts DEF NoWrap
  <2>2. ceil(n) = (a % WordMod) \div PageSize
    BY DEF ceil
  <2> HIDE DEF a
  <2>3. a % WordMod = a
    BY <1>1, <2>1
  <2> QED
    BY <2>2, <2>3
<1> HIDE DEF q, m
<1>4. n <= PageSize * q /\ PageSize * q < n + PageSize
  BY <1>1, <1>2
<1>5. PageSize * (-1) < PageSize * q
  <2>1. PageSize * (-1) = -PageSize
    BY <1>1
  <2> QED
    BY <1>1, <1>2, <1>4, <2>1
<1>6. q \in Nat
  BY <1>2, <1>5, MultipleOrder
<1>7. n # 0 => q # 0
  BY <1>4, MultipleOne
<1> QED
  BY <1>2, <1>3, <1>4, <1>6, <1>7, MultipleNat

\* The least number of pages that hold them.
LEMMA CeilLeast ==
  ASSUME NEW n \in Nat, NoWrap(n), NEW q \in Int, n <= PageSize * q
  PROVE  ceil(n) <= q
<1> DEFINE c == ceil(n)
<1>1. c \in Nat /\ PageSize * c < n + PageSize /\ PageSize * c \in Int /\ PageSize * q \in Int
  BY CeilFacts, Multiple
<1> HIDE DEF c
<1>2. PageSize * (q + 1) = PageSize * q + PageSize /\ PageSize \in Int
  BY MultipleSum, MultipleOne, LayoutAssumption
<1>3. PageSize * c < PageSize * (q + 1)
  BY <1>1, <1>2
<1>4. c + 1 <= q + 1
  BY <1>1, <1>3, MultipleOrder
<1> QED
  BY <1>1, <1>4 DEF c

\* Whole pages.
LEMMA CeilWhole ==
  ASSUME NEW q \in Nat, NoWrap(PageSize * q)
  PROVE  ceil(PageSize * q) = q
<1> DEFINE c == ceil(PageSize * q)
<1>1. PageSize * q \in Nat /\ c \in Nat /\ PageSize * q <= PageSize * c /\ PageSize * c \in Nat
  BY MultipleNat, CeilFacts
<1>2. c <= q
  BY <1>1, CeilLeast
<1>3. q <= c
  <2> HIDE DEF c
  <2>1. PageSize * q < PageSize * (c + 1)
    <3>1. PageSize * (c + 1) = PageSize * c + PageSize
      BY <1>1, MultipleSum, MultipleOne
    <3> QED
      BY <1>1, <3>1, LayoutAssumption
  <2>2. q + 1 <= c + 1
    BY <1>1, <2>1, MultipleOrder
  <2> QED
    BY <1>1, <2>2
<1> HIDE DEF c
<1> QED
  BY <1>1, <1>2, <1>3 DEF c

\* Whole pages before the rest do not change how the rest is rounded.
LEMMA CeilShift ==
  ASSUME NEW q \in Nat, NEW n \in Nat, NoWrap(PageSize * q + n)
  PROVE  ceil(PageSize * q + n) = q + ceil(n)
<1> DEFINE c == ceil(n)
           d == ceil(PageSize * q + n)
<1>0. PageSize * q \in Nat /\ NoWrap(n)
  <2>1. PageSize * q \in Nat /\ PageSize \in Nat /\ WordMod \in Nat
    BY MultipleNat, WordFacts
  <2> QED
    BY <2>1 DEF NoWrap
<1>1. /\ PageSize * q \in Nat /\ PageSize * q + n \in Nat
      /\ c \in Nat /\ n <= PageSize * c /\ PageSize * c < n + PageSize /\ PageSize * c \in Nat
  BY <1>0, MultipleNat, CeilFacts
<1>2. d \in Nat /\ PageSize * q + n <= PageSize * d /\ PageSize * d < (PageSize * q + n) + PageSize /\ PageSize * d \in Nat
  BY <1>1, CeilFacts
<1>3. PageSize * (q + c) = PageSize * q + PageSize * c /\ q + c \in Nat
  <2> HIDE DEF c
  <2> QED
    BY <1>1, MultipleSum
<1>4. d <= q + c
  <2>1. PageSize * q + n <= PageSize * (q + c)
    BY <1>1, <1>3
  <2> HIDE DEF c
  <2> QED
    BY <1>1, <1>3, <2>1, CeilLeast
<1>5. q + c <= d
  <2> HIDE DEF c, d
  <2>1. PageSize * (d + 1) = PageSize * d + PageSize
    BY <1>2, MultipleSum, MultipleOne
  <2>2. PageSize * (q + c) < PageSize * (d + 1)
    <3> DEFINE qs == PageSize * q
               cs == PageSize * c
               ds == PageSize * d
    <3>1. qs \in Nat /\ cs \in Nat /\ ds \in Nat /\ PageSize \in Nat /\ cs < n + PageSize /\ qs + n <= ds
      BY <1>1, <1>2, LayoutAssumption
    <3>2. PageSize * (q + c) = qs + cs /\ PageSize * (d + 1) = ds + PageSize
      BY <1>3, <2>1
    <3> HIDE DEF qs, cs, ds
    <3>3. qs + cs < ds + PageSize
      BY <3>1
    <3> QED
      BY <3>2, <3>3
  <2>3. (q + c) + 1 <= d + 1
    BY <1>2, <1>3, <2>2, MultipleOrder
  <2> QED
    BY <1>2, <1>3, <2>3
<1> HIDE DEF c, d
<1> QED
  BY <1>2, <1>3, <1>4, <1>5 DEF c, d

\* truncp rounds down to a page.
LEMMA TruncFacts ==
  ASSUME NEW n \in Nat
  PROVE  n \div PageSize \in Nat /\ truncp(n) = PageSize * (n \div PageSize)
<1> DEFINE q == n \div PageSize
           m == n % PageSize
<1>1. q \in Int /\ m \in 0 .. PageSize - 1 /\ n = PageSize * q + m /\ PageSize * q \in Int
  BY Division, Multiple
<1>2. truncp(n) = n - m
  BY DEF truncp
<1> HIDE DEF q, m
<1>3. n - m = PageSize * q
  BY <1>1
<1>4. q \in Nat
  <2>1. PageSize * (-1) < PageSize * q
    <3>1. PageSize * (-1) = -PageSize /\ PageSize \in Nat \ {0}
      BY LayoutAssumption
    <3> QED
      BY <1>1, <3>1
  <2> QED
    BY <1>1, <2>1, MultipleOrder
<1> QED
  BY <1>2, <1>3, <1>4 DEF q

\* What sys_mmap makes of a length: no page, or the pages that hold it.
LEMMA CeilTwice ==
  ASSUME NEW n \in 0 .. WordMod - 1, n # 0
  PROVE  /\ ceilp(n) \in Nat /\ NoWrap(ceilp(n)) /\ ceil(ceilp(n)) = ceil(n)
         /\ (ceilp(n) = 0) = (ceil(n) = 0)
<1>1. PageSize \in Nat \ {0} /\ WordMod \in Nat \ {0} /\ PageSize < WordMod /\ n \in Nat
  BY WordFacts
<1>2. CASE NoWrap(n)
  <2> DEFINE c == ceil(n)
  <2>1. c \in Nat /\ n <= PageSize * c /\ PageSize * c < n + PageSize /\ c # 0 /\ PageSize * c \in Nat
    BY <1>1, <1>2, CeilFacts
  <2>2. ceilp(n) = PageSize * c
    BY DEF ceilp
  <2> HIDE DEF c
  <2>3. PageSize * c # 0
    BY <1>1, <2>1
  <2>4. NoWrap(PageSize * c)
    <3>1. PICK w \in Int : WordMod = PageSize * w
      BY WordFacts
    <3>2. PageSize * c < PageSize * w
      BY <1>1, <1>2, <2>1, <3>1 DEF NoWrap
    <3>3. c + 1 <= w
      BY <2>1, <3>2, MultipleOrder
    <3>4. PageSize * (c + 1) <= PageSize * w
      BY <2>1, <3>3, MultipleMono
    <3>5. PageSize * (c + 1) = PageSize * c + PageSize
      BY <2>1, MultipleSum, MultipleOne
    <3> QED
      BY <3>1, <3>4, <3>5 DEF NoWrap
  <2>5. ceil(PageSize * c) = c
    BY <2>1, <2>4, CeilWhole
  <2> QED
    BY <2>1, <2>2, <2>3, <2>4, <2>5 DEF c
<1>3. CASE ~NoWrap(n)
  <2>1. ceil(n) = 0
    BY <1>3, CeilWraps
  <2>2. ceilp(n) = 0
    BY <2>1, MultipleOne DEF ceilp
  <2>3. NoWrap(0)
    BY <1>1 DEF NoWrap
  <2>4. ceil(0) = 0
    <3>1. PageSize * 0 = 0 /\ 0 \in Nat
      BY MultipleOne
    <3> QED
      BY <2>3, <3>1, CeilWhole
  <2> QED
    BY <2>1, <2>2, <2>3, <2>4
<1> QED
  BY <1>2, <1>3

\* A range of pages of the box is accepted as one of bytes.
LEMMA InBoxFacts ==
  ASSUME NEW a \in Nat, NEW size \in Nat, NoWrap(size), a + ceil(size) <= NPages
  PROVE  InBox(PageSize * a, size)
<1> DEFINE c == ceil(size)
<1>1. /\ c \in Nat /\ size <= PageSize * c /\ PageSize * c \in Nat
      /\ PageSize * a \in Nat /\ NPages \in Nat /\ BoxSize = PageSize * NPages /\ PageSize * NPages \in Nat
  BY CeilFacts, MultipleNat, Multiple, NPagesAssumption DEF BoxSize
<1>2. PageSize * (a + c) = PageSize * a + PageSize * c
  <2> HIDE DEF c
  <2> QED
    BY <1>1, MultipleSum
<1>3. a + c <= NPages
  OBVIOUS
<1> HIDE DEF c
<1>4. PageSize * (a + c) <= PageSize * NPages
  BY <1>1, <1>3, MultipleMono
<1> QED
  BY <1>1, <1>2, <1>4 DEF InBox

-----------------------------------------------------------------------------
(* The calls of box.c *)

\* The tracker and the host have the same mapping at every page.
Agree(m, h) ==
  /\ h \in [Pages -> Infos \cup {Reserved}]
  /\ \A p \in Pages, i \in Infos : Covers(m.nodes, p, i) <=> h[p] = i

LEMMA PaintFacts ==
  ASSUME NEW h, NEW pages, NEW i
  PROVE  \A p \in Pages : Paint(h, pages, i)[p] = IF p \in pages THEN i ELSE h[p]
BY DEF Paint

LEMMA PaintType ==
  ASSUME NEW h \in [Pages -> Infos \cup {Reserved}], NEW pages, NEW i \in Infos \cup {Reserved}
  PROVE  Paint(h, pages, i) \in [Pages -> Infos \cup {Reserved}]
BY DEF Paint

\* Two paintings that agree at every page.
LEMMA PaintSame ==
  ASSUME NEW h, NEW g, NEW a, NEW b, NEW i, NEW j,
         \A p \in Pages : (IF p \in a THEN i ELSE h[p]) = (IF p \in b THEN j ELSE g[p])
  PROVE  Paint(h, a, i) = Paint(g, b, j)
BY DEF Paint

\* A page with nothing in the list is reserved, one with something is not.
LEMMA AgreeFree ==
  ASSUME NEW m, NEW h, Agree(m, h), NEW p \in Pages
  PROVE  h[p] = Reserved <=> \A i \in Infos : ~Covers(m.nodes, p, i)
<1>1. h[p] \in Infos \cup {Reserved} /\ \A i \in Infos : i # Reserved
  BY DEF Agree, Infos, Reserved
<1> QED
  BY <1>1 DEF Agree

LEMMA PagesInt == Pages \subseteq Int /\ \A p \in Pages : p >= 0 /\ p < NPages
BY NPagesAssumption DEF Pages

LEMMA SpanPages ==
  ASSUME NEW a \in Nat, NEW len \in Nat \ {0}, a + len <= NPages
  PROVE  Span(a, len) \subseteq Pages /\ Span(a, len) \in PM!Ranges
<1>1. a \in Pages /\ a + len - 1 \in Pages /\ a \in Span(a, len)
  BY NPagesAssumption DEF Pages, Span
<1>2. Span(a, len) \subseteq Pages
  BY NPagesAssumption DEF Pages, Span
<1>3. Span(a, len) = a .. (a + len - 1)
  BY DEF Span
<1> QED
  BY <1>1, <1>2, <1>3 DEF PM!Ranges

\* What a call at a place of the caller's does to the box: it refuses a range
\* that is not in the box (the tracker does, where the sum of lps_box_mapat wraps);
\* else the whole range becomes info's, or free when the host's mmap fails.
MapAtDone(r, m, h, a, len, info, up) ==
  /\ ~(a + len <= NPages) => /\ r.abort \in {"aborted", "no"} /\ r.ok = FALSE /\ r.fresh = {}
                             /\ r.mm = m /\ r.host = h
  /\ a + len <= NPages =>
       /\ r.abort = "no" /\ r.ok = up /\ Sound(r.mm) /\ Agree(r.mm, r.host)
       /\ r.host = Paint(h, Span(a, len), IF up THEN info ELSE Reserved)
       /\ r.fresh \subseteq Span(a, len) /\ (up => r.fresh = Span(a, len))

LEMMA MapAtHostFacts ==
  ASSUME NEW b, Sound(b.mm), Agree(b.mm, b.host), NEW a \in Nat, NEW len \in Nat \ {0},
         a + len <= NPages, NEW info \in Infos, NEW up \in BOOLEAN,
         NEW m, Replaced(m, b.mm, a, len, info)
  PROVE  MapAtDone(MapAtHost(b, m, a, len, info, up), b.mm, b.host, a, len, info, up)
<1> DEFINE cleared == Paint(b.host, m.gone, Reserved)
           range == Span(a, len)
           r == MapAtHost(b, m, a, len, info, up)
<1>1. m.ok = TRUE /\ m.assert = TRUE /\ Sound(m.mm)
  BY DEF Replaced
<1>2. range \subseteq Pages
  BY SpanPages
<1>3. \A p \in Pages : p \in m.gone <=> p \in range /\ b.host[p] # Reserved
  <2> SUFFICES ASSUME NEW p \in Pages
               PROVE  p \in m.gone <=> p \in range /\ b.host[p] # Reserved
    OBVIOUS
  <2>1. p \in m.gone <=> p \in range /\ \E i \in Infos : Covers(b.mm.nodes, p, i)
    BY PagesInt DEF Replaced
  <2>2. b.host[p] = Reserved <=> \A i \in Infos : ~Covers(b.mm.nodes, p, i)
    BY AgreeFree
  <2> QED
    BY <2>1, <2>2
<1>4. m.gone \subseteq range
  BY DEF Replaced
<1>5. Paint(cleared, range, info) = Paint(b.host, range, info)
  <2>1. ASSUME NEW p \in Pages
        PROVE  (IF p \in range THEN info ELSE cleared[p]) = (IF p \in range THEN info ELSE b.host[p])
    <3>1. cleared[p] = IF p \in m.gone THEN Reserved ELSE b.host[p]
      BY PaintFacts
    <3> HIDE DEF cleared, range
    <3> QED
      BY <1>4, <3>1
  <2> HIDE DEF cleared, range
  <2> QED
    BY <2>1, PaintSame
<1>6. cleared = Paint(b.host, range, Reserved)
  <2>1. ASSUME NEW p \in Pages
        PROVE  (IF p \in m.gone THEN Reserved ELSE b.host[p]) = (IF p \in range THEN Reserved ELSE b.host[p])
    <3> HIDE DEF range
    <3> QED
      BY <1>3, <1>4
  <2> HIDE DEF range
  <2> QED
    BY <2>1, PaintSame
<1>7. b.host \in [Pages -> Infos \cup {Reserved}] /\ \A i \in Infos : i # Reserved
  BY DEF Agree, Infos, Reserved
<1> HIDE DEF cleared, r
<1>8. CASE up
  <2>1. r = [mm |-> m.mm, host |-> Paint(cleared, range, info), ok |-> TRUE, abort |-> "no",
             fresh |-> m.gone \cup range]
    BY <1>1, <1>8 DEF MapAtHost, r, cleared
  <2>2. r.mm = m.mm /\ r.host = Paint(b.host, range, info) /\ r.ok = TRUE /\ r.abort = "no" /\ r.fresh = range
    <3> HIDE DEF range
    <3> QED
      BY <1>4, <1>5, <2>1
  <2>3. Agree(r.mm, r.host)
    <3>1. ASSUME NEW p \in Pages, NEW i \in Infos PROVE Covers(m.mm.nodes, p, i) <=> r.host[p] = i
      <4>1. r.host[p] = IF p \in range THEN info ELSE b.host[p]
        BY <2>2, PaintFacts
      <4>2. Covers(b.mm.nodes, p, i) <=> b.host[p] = i
        BY DEF Agree
      <4>3. Covers(m.mm.nodes, p, i) <=> \/ Covers(b.mm.nodes, p, i) /\ p \notin range
                                         \/ p \in range /\ i = info
        BY PagesInt DEF Replaced
      <4> HIDE DEF range
      <4> QED
        BY <4>1, <4>2, <4>3
    <3>2. r.host \in [Pages -> Infos \cup {Reserved}]
      BY <1>7, <2>2, PaintType
    <3> QED
      BY <2>2, <3>1, <3>2 DEF Agree
  <2> QED
    BY <1>1, <1>8, <2>2, <2>3 DEF MapAtDone, r
<1>9. CASE ~up
  <2> DEFINE u == mm_unmap_cb(m.mm, a, len)
  <2>1. r = [mm |-> u.mm, host |-> cleared, ok |-> FALSE, abort |-> "no", fresh |-> m.gone]
    BY <1>1, <1>9 DEF MapAtHost, r, cleared
  <2>2. Cleared(u, m.mm, a, len)
    BY <1>1, UnmapFacts
  <2> HIDE DEF u
  <2>3. r.mm = u.mm /\ r.host = Paint(b.host, range, Reserved) /\ r.ok = FALSE /\ r.abort = "no" /\ r.fresh = m.gone
    <3> HIDE DEF range
    <3> QED
      BY <1>6, <2>1
  <2>4. Agree(r.mm, r.host)
    <3>1. ASSUME NEW p \in Pages, NEW i \in Infos PROVE Covers(u.mm.nodes, p, i) <=> r.host[p] = i
      <4>1. r.host[p] = IF p \in range THEN Reserved ELSE b.host[p]
        BY <2>3, PaintFacts
      <4>2. Covers(b.mm.nodes, p, i) <=> b.host[p] = i
        BY DEF Agree
      <4>3. Covers(m.mm.nodes, p, i) <=> \/ Covers(b.mm.nodes, p, i) /\ p \notin range
                                         \/ p \in range /\ i = info
        BY PagesInt DEF Replaced
      <4>4. Covers(u.mm.nodes, p, i) <=> Covers(m.mm.nodes, p, i) /\ p \notin range
        BY <2>2, PagesInt DEF Cleared
      <4> HIDE DEF range
      <4> QED
        BY <1>7, <4>1, <4>2, <4>3, <4>4
    <3>2. r.host \in [Pages -> Infos \cup {Reserved}]
      BY <1>7, <2>3, PaintType
    <3> QED
      BY <2>3, <3>1, <3>2 DEF Agree
  <2>5. Sound(r.mm)
    BY <2>2, <2>3 DEF Cleared
  <2> QED
    BY <1>4, <1>9, <2>3, <2>4, <2>5 DEF MapAtDone, r
<1> QED
  BY <1>8, <1>9

LEMMA BoxMapAtFacts ==
  ASSUME NEW b, Sound(b.mm), Agree(b.mm, b.host), NEW a \in Nat, NEW size \in Nat \ {0}, NoWrap(size),
         NEW info \in Infos, NEW up \in BOOLEAN
  PROVE  MapAtDone(lps_box_mapat(b, PageSize * a, size, info, up), b.mm, b.host, a, ceil(size), info, up)
<1> DEFINE len == ceil(size)
           r == lps_box_mapat(b, PageSize * a, size, info, up)
<1>1. len \in Nat \ {0} /\ (PageSize * a) \div PageSize = a
  BY CeilFacts, Multiple
<1>2. a + len <= NPages => InBox(PageSize * a, size)
  BY InBoxFacts
<1>3. r = IF ~InBox(PageSize * a, size) THEN Fail(b, "aborted")
          ELSE MapAtHost(b, mm_mapat_cb(b.mm, a, len, info), a, len, info, up)
  BY <1>1 DEF lps_box_mapat
<1> HIDE DEF len, r
<1>4. CASE ~(a + len <= NPages)
  <2>1. PICK x \in {"aborted", "no"} : r = Fail(b, x)
    <3>1. CASE ~InBox(PageSize * a, size)
      BY <1>3, <3>1
    <3>2. CASE InBox(PageSize * a, size)
      <4>1. mm_mapat_cb(b.mm, a, len, info) = [ok |-> FALSE, assert |-> TRUE, mm |-> b.mm, gone |-> {}]
        BY <1>4 DEF mm_mapat_cb, mmvalid
      <4>2. r = Fail(b, "no")
        BY <1>3, <3>2, <4>1 DEF MapAtHost
      <4> QED
        BY <4>2
    <3> QED
      BY <3>1, <3>2
  <2>2. r.mm = b.mm /\ r.host = b.host /\ r.ok = FALSE /\ r.abort = x /\ r.fresh = {}
    BY <2>1 DEF Fail
  <2> QED
    BY <1>4, <2>2 DEF MapAtDone, r, len
<1>5. CASE a + len <= NPages
  <2>1. Replaced(mm_mapat_cb(b.mm, a, len, info), b.mm, a, len, info)
    BY <1>1, <1>5, MapAtFacts
  <2>2. r = MapAtHost(b, mm_mapat_cb(b.mm, a, len, info), a, len, info, up)
    BY <1>2, <1>3, <1>5
  <2>3. MapAtDone(r, b.mm, b.host, a, len, info, up)
    BY <1>1, <1>5, <2>1, <2>2, MapAtHostFacts
  <2> QED
    BY <2>3 DEF r, len
<1> QED
  BY <1>4, <1>5

\* The same with no pages: nothing changes, and the assertion of mm_mapat_cb
\* on its own mm_unmap_cb may fail.
LEMMA BoxMapNothing ==
  ASSUME NEW b, NEW a \in Nat, NEW size, ceil(size) = 0, NEW info, NEW up
  PROVE  \E x \in {"aborted", "mm_aborted", "no"} : lps_box_mapat(b, PageSize * a, size, info, up) = Fail(b, x)
<1> DEFINE m == mm_mapat_cb(b.mm, a, 0, info)
           r == lps_box_mapat(b, PageSize * a, size, info, up)
<1>1. r = IF ~InBox(PageSize * a, size) THEN Fail(b, "aborted") ELSE MapAtHost(b, m, a, 0, info, up)
  <2>1. (PageSize * a) \div PageSize = a
    BY Multiple
  <2> QED
    BY <2>1 DEF lps_box_mapat
<1>2. ~m.ok
  <2>1. mm_unmap_cb(b.mm, a, 0).ok = FALSE
    BY DEF mm_unmap_cb
  <2>2. [base |-> a, len |-> 0, info |-> info].base = a /\ [base |-> a, len |-> 0, info |-> info].len = 0
    OBVIOUS
  <2> QED
    BY <2>1, <2>2 DEF mm_mapat_cb, MapAtAfter, MapAtInsert
<1> HIDE DEF m, r
<1>3. InBox(PageSize * a, size) => r = Fail(b, "mm_aborted") \/ r = Fail(b, "no")
  BY <1>1, <1>2 DEF MapAtHost
<1> QED
  BY <1>1, <1>3 DEF r

\* What a call at a place of the tracker's choice does: it changes nothing, or
\* len pages that were free become info's.
MapAnyDone(r, h, len, info) ==
  /\ r.abort = "no" /\ Sound(r.mm) /\ Agree(r.mm, r.host)
  /\ \/ r.host = h
     \/ \E a \in Nat : /\ a + len <= NPages /\ \A p \in Span(a, len) : h[p] = Reserved
                       /\ r.host = Paint(h, Span(a, len), info)

LEMMA MapAnyHostFacts ==
  ASSUME NEW b, Sound(b.mm), Agree(b.mm, b.host), NEW len \in Nat \ {0}, NEW info \in Infos,
         NEW up \in BOOLEAN, NEW m, Answered(m, b.mm, len, info)
  PROVE  MapAnyDone(MapAnyHost(b, m, len, info, up), b.host, len, info)
<1> DEFINE r == MapAnyHost(b, m, len, info, up)
           range == Span(m.addr, len)
<1>1. m.ok \in BOOLEAN
  BY DEF Answered
<1>2. CASE ~m.ok
  <2>1. r = [mm |-> b.mm, host |-> b.host, ok |-> FALSE, abort |-> "no", fresh |-> {}]
    BY <1>2 DEF MapAnyHost, Fail
  <2> HIDE DEF r
  <2> QED
    BY <2>1 DEF MapAnyDone, r
<1>3. CASE m.ok
  <2>1. /\ Placed(m, b.mm, len, info) /\ Sound(m.mm) /\ m.addr \in Nat /\ m.addr + len <= NPages
        /\ \A p \in range, i \in Infos : ~Covers(b.mm.nodes, p, i)
    BY <1>3 DEF Answered, Placed
  <2>2. range \subseteq Pages
    BY <2>1, SpanPages
  <2>3. \A p \in range : b.host[p] = Reserved
    <3> HIDE DEF range
    <3> QED
      BY <2>1, <2>2, AgreeFree
  <2>4. \A p \in Pages, i \in Infos :
          Covers(m.mm.nodes, p, i) <=> Covers(b.mm.nodes, p, i) \/ (p \in range /\ i = info)
    BY <2>1, PagesInt DEF Placed
  <2>5. b.host \in [Pages -> Infos \cup {Reserved}] /\ (\A i \in Infos : i # Reserved)
        /\ \A p \in Pages, i \in Infos : Covers(b.mm.nodes, p, i) <=> b.host[p] = i
    BY DEF Agree, Infos, Reserved
  <2>6. CASE up
    <3>1. r = [mm |-> m.mm, host |-> Paint(b.host, range, info), ok |-> TRUE, abort |-> "no", fresh |-> range]
      BY <1>3, <2>6 DEF MapAnyHost
    <3> HIDE DEF r, range
    <3>2. r.mm = m.mm /\ r.host = Paint(b.host, range, info) /\ r.abort = "no"
      BY <3>1
    <3>3. ASSUME NEW p \in Pages, NEW i \in Infos PROVE Covers(r.mm.nodes, p, i) <=> r.host[p] = i
      <4>1. r.host[p] = IF p \in range THEN info ELSE b.host[p]
        BY <3>2, PaintFacts
      <4> QED
        BY <2>3, <2>4, <2>5, <3>2, <4>1
    <3>4. Agree(r.mm, r.host)
      <4>1. r.host \in [Pages -> Infos \cup {Reserved}]
        BY <2>5, <3>2, PaintType
      <4> QED
        BY <3>3, <4>1 DEF Agree
    <3> QED
      BY <2>1, <2>3, <3>2, <3>4 DEF MapAnyDone, r, range
  <2>7. CASE ~up
    <3> DEFINE u == mm_unmap_cb(m.mm, m.addr, len)
               f == [mm |-> b.mm, host |-> b.host, ok |-> FALSE, abort |-> "no", fresh |-> {}]
    <3>1. r = [f EXCEPT !.mm = u.mm]
      BY <1>3, <2>7 DEF MapAnyHost, Fail
    <3>2. Cleared(u, m.mm, m.addr, len)
      BY <2>1, UnmapFacts
    <3> HIDE DEF u, r
    <3>3. r.mm = u.mm /\ r.host = b.host /\ r.abort = "no"
      BY <3>1
    <3>4. ASSUME NEW p \in Pages, NEW i \in Infos PROVE Covers(r.mm.nodes, p, i) <=> r.host[p] = i
      <4>1. Covers(u.mm.nodes, p, i) <=> Covers(m.mm.nodes, p, i) /\ p \notin range
        BY <3>2, PagesInt DEF Cleared
      <4> HIDE DEF range
      <4> QED
        BY <2>1, <2>4, <2>5, <3>3, <4>1
    <3>5. Agree(r.mm, r.host)
      BY <2>5, <3>3, <3>4 DEF Agree
    <3>6. Sound(r.mm)
      BY <3>2, <3>3 DEF Cleared
    <3> QED
      BY <3>3, <3>5, <3>6 DEF MapAnyDone, r
  <2> QED
    BY <2>6, <2>7
<1> QED
  BY <1>1, <1>2, <1>3

LEMMA BoxMapAnyFacts ==
  ASSUME NEW b, Sound(b.mm), Agree(b.mm, b.host), NEW size \in Nat \ {0}, NoWrap(size), NEW info \in Infos,
         NEW up \in BOOLEAN
  PROVE  ceil(size) \in Nat \ {0} /\ MapAnyDone(lps_box_mapany(b, size, info, up), b.host, ceil(size), info)
<1> DEFINE len == ceil(size)
           m == mm_mapany(b.mm, len, info)
<1>1. len \in Nat \ {0}
  BY CeilFacts
<1>2. lps_box_mapany(b, size, info, up) = MapAnyHost(b, m, len, info, up)
  BY DEF lps_box_mapany
<1> HIDE DEF len
<1>3. Answered(m, b.mm, len, info)
  BY <1>1, MapAnyFacts
<1> HIDE DEF m
<1>4. MapAnyDone(MapAnyHost(b, m, len, info, up), b.host, len, info)
  BY <1>1, <1>3, MapAnyHostFacts
<1> QED
  BY <1>1, <1>2, <1>4 DEF len

\* What lps_box_munmap does: it changes nothing, or a range of pages is free.
\* cbunmap's assertion fails for a range of no pages.
UnmapDone(r, h) ==
  /\ r.abort \in {"no", "aborted"} /\ Sound(r.mm) /\ Agree(r.mm, r.host)
  /\ \/ r.host = h
     \/ \E a \in Nat, len \in Nat \ {0} : a + len <= NPages /\ r.host = Paint(h, Span(a, len), Reserved)

LEMMA BoxUnmapFacts ==
  ASSUME NEW b, Sound(b.mm), Agree(b.mm, b.host), NEW addr \in Nat, NEW size \in 0 .. WordMod - 1
  PROVE  UnmapDone(lps_box_munmap(b, addr, size), b.host)
<1> DEFINE r == lps_box_munmap(b, addr, size)
           a == addr \div PageSize
           len == ceil(size)
           u == mm_unmap_cb(b.mm, a, len)
<1>1. a \in Nat /\ len \in Nat
  <2>1. size \in Nat
    BY WordFacts
  <2>2. len \in Nat
    BY <2>1, CeilFacts, CeilWraps
  <2> QED
    BY <2>2, TruncFacts
<1>2. ASSUME NEW x \in {"no", "aborted"}, r = Fail(b, x) PROVE UnmapDone(r, b.host)
  <2>1. r.mm = b.mm /\ r.host = b.host /\ r.abort = x
    BY <1>2 DEF Fail
  <2> HIDE DEF r
  <2> QED
    BY <2>1 DEF UnmapDone
<1>3. CASE ~InBox(addr, size) \/ addr % PageSize # 0 \/ size = 0
  <2>1. r = Fail(b, "no")
    BY <1>3 DEF lps_box_munmap
  <2> HIDE DEF r
  <2> QED
    BY <1>2, <2>1 DEF r
<1>4. CASE ~(~InBox(addr, size) \/ addr % PageSize # 0 \/ size = 0)
  <2>1. r = IF len = 0 THEN UnmapNothing(b, a) ELSE UnmapHost(b, u)
    BY <1>4 DEF lps_box_munmap
  <2> HIDE DEF a, len
  <2>2. CASE len = 0
    <3>1. r = Fail(b, "no") \/ r = Fail(b, "aborted")
      BY <2>1, <2>2 DEF UnmapNothing
    <3> HIDE DEF r
    <3> QED
      BY <1>2, <3>1 DEF r
  <2>3. CASE len # 0 /\ ~(a + len <= NPages)
    <3>1. u.ok = FALSE
      BY <2>3 DEF mm_unmap_cb, mmvalid
    <3> HIDE DEF u
    <3>2. r = Fail(b, "no")
      BY <2>1, <2>3, <3>1 DEF UnmapHost
    <3> HIDE DEF r
    <3> QED
      BY <1>2, <3>2 DEF r
  <2>4. CASE len # 0 /\ a + len <= NPages
    <3>1. Cleared(u, b.mm, a, len)
      BY <1>1, <2>4, UnmapFacts
    <3> HIDE DEF u, r
    <3>2. u.ok = TRUE /\ Sound(u.mm)
      BY <3>1 DEF Cleared
    <3>3. r = [mm |-> u.mm, host |-> Paint(b.host, u.gone, Reserved), ok |-> TRUE, abort |-> "no", fresh |-> u.gone]
      BY <2>1, <2>4, <3>2 DEF UnmapHost
    <3>4. \A p \in Pages : p \in u.gone <=> p \in Span(a, len) /\ b.host[p] # Reserved
      <4>1. \A p \in Pages : b.host[p] = Reserved <=> \A i \in Infos : ~Covers(b.mm.nodes, p, i)
        BY AgreeFree
      <4>2. \A p \in Pages : p \in u.gone
                  <=> p \in Span(a, len) /\ \E i \in Infos : Covers(b.mm.nodes, p, i)
        BY <3>1, PagesInt DEF Cleared
      <4> QED
        BY <4>1, <4>2
    <3>5. Paint(b.host, u.gone, Reserved) = Paint(b.host, Span(a, len), Reserved)
      <4>1. \A p \in Pages : (IF p \in u.gone THEN Reserved ELSE b.host[p])
                               = (IF p \in Span(a, len) THEN Reserved ELSE b.host[p])
        BY <3>4
      <4> QED
        BY <4>1, PaintSame
    <3>6. r.mm = u.mm /\ r.host = Paint(b.host, Span(a, len), Reserved) /\ r.abort = "no"
      BY <3>3, <3>5
    <3>7. b.host \in [Pages -> Infos \cup {Reserved}] /\ \A i \in Infos : i # Reserved
      BY DEF Agree, Infos, Reserved
    <3>8. ASSUME NEW p \in Pages, NEW i \in Infos PROVE Covers(r.mm.nodes, p, i) <=> r.host[p] = i
      <4>1. r.host[p] = IF p \in Span(a, len) THEN Reserved ELSE b.host[p]
        BY <3>6, PaintFacts
      <4>2. Covers(u.mm.nodes, p, i) <=> Covers(b.mm.nodes, p, i) /\ p \notin Span(a, len)
        BY <3>1, PagesInt DEF Cleared
      <4>3. Covers(b.mm.nodes, p, i) <=> b.host[p] = i
        BY DEF Agree
      <4> QED
        BY <3>6, <3>7, <4>1, <4>2, <4>3
    <3>9. Agree(r.mm, r.host)
      <4>1. r.host \in [Pages -> Infos \cup {Reserved}]
        BY <3>6, <3>7, PaintType
      <4> QED
        BY <3>8, <4>1 DEF Agree
    <3> QED
      BY <1>1, <2>4, <3>2, <3>6, <3>9 DEF UnmapDone, r
  <2> QED
    BY <2>2, <2>3, <2>4
<1> QED
  BY <1>3, <1>4

-----------------------------------------------------------------------------
(* The layout of the box *)

\* The end of the image is behind every segment.
LEMMA ImageFacts ==
  ImagePages \in Nat /\ \A i \in DOMAIN Segments : Segments[i].start + Segments[i].len <= ImagePages
<1> DEFINE v(i) == Segments[i].start + Segments[i].len
           E == {v(i) : i \in DOMAIN Segments}
           S == {k \in Nat : \E b \in Nat : \A i \in 1 .. k : i \in DOMAIN Segments => v(i) <= b}
<1>1. Len(Segments) \in Nat /\ DOMAIN Segments = 1 .. Len(Segments) /\ Len(Segments) # 0
  BY LayoutAssumption
<1>2. \A i \in DOMAIN Segments : v(i) \in Nat
  <2> TAKE i \in DOMAIN Segments
  <2>1. Segments[i] \in [start : Nat, len : Nat \ {0}, bss : Nat]
    <3> DEFINE Segs == [start : Nat, len : Nat \ {0}, bss : Nat]
    <3>1. Segments \in Seq(Segs)
      BY LayoutAssumption
    <3> HIDE DEF Segs
    <3>2. Segments[i] \in Segs
      BY <3>1
    <3> QED
      BY <3>2 DEF Segs
  <2> QED
    BY <2>1
<1> HIDE DEF v
<1>3. 0 \in S
  OBVIOUS
<1>4. ASSUME NEW k \in 0 + 1 .. Len(Segments), k - 1 \in S PROVE k \in S
  <2>1. PICK b \in Nat : \A i \in 1 .. k - 1 : i \in DOMAIN Segments => v(i) <= b
    BY <1>4
  <2>2. k \in DOMAIN Segments /\ k \in Nat /\ v(k) \in Nat
    BY <1>1, <1>2
  <2> DEFINE c == IF b < v(k) THEN v(k) ELSE b
  <2>3. c \in Nat /\ b <= c /\ v(k) <= c
    BY <2>2
  <2> HIDE DEF c
  <2>4. ASSUME NEW i \in 1 .. k, i \in DOMAIN Segments PROVE v(i) <= c
    <3>1. i = k \/ i \in 1 .. k - 1
      BY <2>2
    <3>2. v(i) \in Nat
      BY <1>2, <2>4
    <3> QED
      BY <2>1, <2>3, <2>4, <3>1, <3>2
  <2> QED
    BY <2>2, <2>3, <2>4
<1>5. Len(Segments) \in S
  <2>1. Len(Segments) \in 0 .. Len(Segments)
    BY <1>1
  <2> HIDE DEF S
  <2>2. 0 .. Len(Segments) \subseteq S
    BY <1>1, <1>3, <1>4, IntervalInduction
  <2> QED
    BY <2>1, <2>2
<1>6. PICK b \in Nat : \A i \in DOMAIN Segments : v(i) <= b
  BY <1>1, <1>5
<1>7. E \subseteq Nat /\ E # {} /\ \A y \in E : y <= b
  <2>1. 1 \in DOMAIN Segments
    BY <1>1
  <2> QED
    BY <1>2, <1>6, <2>1
<1>8. \A i \in DOMAIN Segments : v(i) \in E
  OBVIOUS
<1>9. ImagePages = Max(E)
  BY DEF ImagePages, v
<1> HIDE DEF E
<1>10. Max(E) \in E /\ \A y \in E : Max(E) >= y
  BY <1>7, MaxOfNaturals
<1>11. \A i \in DOMAIN Segments : v(i) <= ImagePages
  BY <1>2, <1>7, <1>8, <1>9, <1>10
<1> QED
  BY <1>7, <1>9, <1>10, <1>11 DEF v

LEMMA SegmentFacts ==
  ASSUME NEW k \in 1 .. Len(Segments)
  PROVE  LET s == Segments[k] IN
         /\ s.start \in Nat /\ s.len \in Nat \ {0} /\ s.bss \in Nat /\ s.bss <= s.len
         /\ s.start + s.len <= ImagePages
<1> DEFINE Segs == [start : Nat, len : Nat \ {0}, bss : Nat]
<1>1. Segments \in Seq(Segs) /\ \A i \in DOMAIN Segments : Segments[i].bss <= Segments[i].len
  BY LayoutAssumption
<1> HIDE DEF Segs
<1>2. k \in DOMAIN Segments /\ Segments[k] \in Segs
  BY <1>1
<1>3. Segments[k].start \in Nat /\ Segments[k].len \in Nat \ {0} /\ Segments[k].bss \in Nat
  BY <1>2 DEF Segs
<1> QED
  BY <1>1, <1>2, <1>3, ImageFacts

LEMMA LayoutFacts ==
  /\ NPages \in Nat \ {0} /\ PageSize \in Nat \ {0} /\ ImagePages \in Nat
  /\ BrkPages \in Nat \ {0} /\ StackPages \in Nat \ {0}
  /\ ImagePages + BrkPages + StackPages <= NPages
  /\ brkbase = PageSize * ImagePages /\ brkbase \in Nat
  /\ brkmaxsize = PageSize * BrkPages /\ brkmaxsize \in Nat
  /\ BoxSize - StackPages * PageSize = PageSize * (NPages - StackPages)
  /\ NPages - StackPages \in Nat
  /\ Len(Segments) \in Nat
<1>1. /\ NPages \in Nat \ {0} /\ PageSize \in Nat \ {0} /\ BrkPages \in Nat \ {0} /\ StackPages \in Nat \ {0}
      /\ ImagePages + BrkPages + StackPages <= NPages /\ Len(Segments) \in Nat
  BY LayoutAssumption, NPagesAssumption
<1>2. ImagePages \in Nat
  BY ImageFacts
<1>3. brkbase = PageSize * ImagePages /\ brkmaxsize = PageSize * BrkPages
  BY <1>1, <1>2, Multiple DEF brkbase, brkmaxsize
<1>4. PageSize * ImagePages \in Nat /\ PageSize * BrkPages \in Nat
  BY <1>1, <1>2, MultipleNat
<1>5. BoxSize = PageSize * NPages /\ StackPages * PageSize = PageSize * StackPages
  BY <1>1, Multiple DEF BoxSize
<1>6. PageSize * (NPages - StackPages) = PageSize * NPages - PageSize * StackPages
  BY <1>1, MultipleSum
<1>7. NPages - StackPages \in Nat
  BY <1>1, <1>2
<1> QED
  BY <1>1, <1>2, <1>3, <1>4, <1>5, <1>6, <1>7

\* No size of the layout wraps.
LEMMA PagesFit ==
  ASSUME NEW q \in Nat, q <= NPages
  PROVE  NoWrap(PageSize * q)
<1>1. BoxSize = PageSize * NPages /\ NPages \in Nat
  BY Multiple, NPagesAssumption DEF BoxSize
<1>2. PageSize * q <= PageSize * NPages /\ PageSize * q \in Nat
  BY <1>1, MultipleMono, MultipleNat
<1> QED
  BY <1>1, <1>2, BoxFits

LEMMA BreakFits ==
  ASSUME NEW n \in Nat, n <= brkmaxsize
  PROVE  NoWrap(n) /\ NoWrap(PageSize * ImagePages + n)
<1>1. /\ ImagePages \in Nat /\ BrkPages \in Nat /\ StackPages \in Nat /\ NPages \in Nat
      /\ ImagePages + BrkPages + StackPages <= NPages /\ brkmaxsize = PageSize * BrkPages
  BY LayoutFacts
<1>2. ImagePages + BrkPages \in Nat /\ ImagePages + BrkPages <= NPages
  BY <1>1
<1> DEFINE i == PageSize * ImagePages
           b == PageSize * BrkPages
<1>3. NoWrap(PageSize * (ImagePages + BrkPages)) /\ PageSize * (ImagePages + BrkPages) = i + b
  <2>1. NoWrap(PageSize * (ImagePages + BrkPages))
    BY <1>2, PagesFit
  <2>2. PageSize * (ImagePages + BrkPages) = i + b
    BY <1>1, MultipleSum
  <2> QED
    BY <2>1, <2>2
<1>4. i \in Nat /\ b \in Nat /\ n <= b /\ PageSize \in Nat /\ WordMod \in Nat
  BY <1>1, MultipleNat, WordFacts
<1> HIDE DEF i, b
<1>5. NoWrap(n) /\ NoWrap(i + n)
  BY <1>3, <1>4 DEF NoWrap
<1> QED
  BY <1>5 DEF i

-----------------------------------------------------------------------------
(* The inductive invariant *)

\* The memory: the list is sound, the host agrees with it, the heap is where it
\* may be.
MemOK == Sound(mm) /\ Agree(mm, host) /\ BrkNearRegion

\* The process: a segment whose bss is still to come is one of the program's.
ProcOK ==
  /\ brksize \in 0 .. brkmaxsize
  /\ nseg \in 0 .. Len(Segments)
  /\ stage \in Stages \ {"spoiled"}
  /\ (stack # NoStack) = (stage = "created")
  /\ zeroed \subseteq Pages
  /\ stage = "bss" => nseg < Len(Segments) /\ Segments[nseg + 1].bss # 0

Live == MemOK /\ ProcOK

\* With an empty node the list is still in order, and the process at its end.
Spoilt ==
  /\ mm.nodes \in Seq(Nodes) /\ mm.cursor \in 0 .. Len(mm.nodes)
  /\ \A k \in DOMAIN mm.nodes :
       End(mm.nodes[k]) <= NPages /\ (k < Len(mm.nodes) => End(mm.nodes[k]) <= mm.nodes[k + 1].base)
  /\ Agree(mm, host) /\ BrkNearRegion
  /\ brksize \in 0 .. brkmaxsize /\ nseg \in 0 .. Len(Segments) /\ zeroed \subseteq Pages
  /\ stage = "spoiled" /\ stack = NoStack

PMInv == Live \/ Spoilt

\* A step of the abstract page map, or none.
PageStep == host' = host \/ PM!Next

LEMMA InitPM == Init => Live
<1> SUFFICES ASSUME Init PROVE Live
  OBVIOUS
<1>1. mm.nodes = <<>> /\ mm.cursor = 0
  BY DEF Init, mm_init, NoNode
<1>2. Sound(mm)
  <2>1. mm.nodes \in Seq(FullNodes) /\ DOMAIN mm.nodes = {} /\ Len(mm.nodes) = 0
    BY <1>1
  <2> QED
    BY <1>1, <2>1 DEF Sound, Listing
<1>3. Agree(mm, host)
  <2>1. DOMAIN mm.nodes = {}
    BY <1>1
  <2>2. host = [p \in Pages |-> Reserved] /\ \A i \in Infos : i # Reserved
    BY DEF Init, Infos, Reserved
  <2> QED
    BY <2>1, <2>2 DEF Agree, Covers
<1>4. BrkNearRegion
  BY DEF Init, BrkNearRegion, Reserved
<1>5. ProcOK
  BY LayoutFacts DEF Init, ProcOK, Stages
<1> QED
  BY <1>2, <1>3, <1>4, <1>5 DEF Live, MemOK

LEMMA SamePM ==
  ASSUME MemOK, UNCHANGED <<mm, host>>
  PROVE  MemOK' /\ PageStep
BY DEF MemOK, PageStep, Sound, Agree, BrkNearRegion

\* The heap after one range of the box has changed.
LEMMA BrkPaint ==
  ASSUME BrkNearRegion, NEW range, NEW info, host' = Paint(host, range, info),
         info = "brk" => range \subseteq Span(ImagePages, BrkPages + 1)
  PROVE  BrkNearRegion'
<1> SUFFICES ASSUME NEW p \in Pages, host'[p] = "brk" PROVE p \in Span(ImagePages, BrkPages + 1)
  BY DEF BrkNearRegion
<1>1. host'[p] = IF p \in range THEN info ELSE host[p]
  BY PaintFacts
<1> QED
  BY <1>1 DEF BrkNearRegion

\* A call at a given place.
LEMMA MapAtStep ==
  ASSUME MemOK, NEW a \in Nat, NEW size \in Nat \ {0}, NoWrap(size), NEW info \in Infos \ {"any"},
         NEW up \in BOOLEAN, NEW next, NEW r,
         r = lps_box_mapat(box, PageSize * a, size, info, up), After(r, next),
         info = "brk" => Span(a, ceil(size)) \subseteq Span(ImagePages, BrkPages + 1)
  PROVE  /\ MemOK' /\ PageStep /\ r.ok \in BOOLEAN /\ r.fresh \subseteq Pages
         /\ stage' = next \/ stage' = "aborted"
         /\ r.ok => stage' = next /\ r.fresh = Span(a, ceil(size))
<1> DEFINE len == ceil(size)
           i == IF up THEN info ELSE Reserved
<1>1. box.mm = mm /\ box.host = host
  BY DEF box
<1>2. MapAtDone(r, mm, host, a, len, info, up)
  BY <1>1, BoxMapAtFacts DEF MemOK
<1>3. len \in Nat \ {0}
  BY CeilFacts
<1> HIDE DEF len
<1>4. mm' = r.mm /\ host' = r.host /\ stage' = IF r.abort = "no" THEN next ELSE r.abort
  BY DEF After
<1>5. CASE ~(a + len <= NPages)
  <2>1. r.abort \in {"aborted", "no"} /\ r.ok = FALSE /\ r.fresh = {} /\ r.mm = mm /\ r.host = host
    BY <1>2, <1>5 DEF MapAtDone
  <2>2. UNCHANGED <<mm, host>> /\ (stage' = next \/ stage' = "aborted")
    BY <1>4, <2>1
  <2> QED
    BY <2>1, <2>2, SamePM
<1>6. CASE a + len <= NPages
  <2>1. /\ r.abort = "no" /\ r.ok = up /\ Sound(r.mm) /\ Agree(r.mm, r.host)
        /\ r.host = Paint(host, Span(a, len), i)
        /\ r.fresh \subseteq Span(a, len) /\ (up => r.fresh = Span(a, len))
    BY <1>2, <1>6 DEF MapAtDone
  <2>2. Span(a, len) \subseteq Pages /\ Span(a, len) \in PM!Ranges
    BY <1>3, <1>6, SpanPages
  <2>3. stage' = next /\ host' = Paint(host, Span(a, len), i) /\ Sound(mm') /\ Agree(mm', host')
    BY <1>4, <2>1
  <2>4. i = "brk" => Span(a, len) \subseteq Span(ImagePages, BrkPages + 1)
    BY DEF Reserved, len
  <2>5. BrkNearRegion'
    <3> HIDE DEF i
    <3> QED
      BY <2>3, <2>4, BrkPaint DEF MemOK
  <2>6. MemOK'
    BY <2>3, <2>5 DEF MemOK
  <2>7. PageStep
    <3>1. CASE up
      <4>1. PM!Put(Span(a, len), info) /\ info \in Infos \ {"any"}
        BY <2>3, <3>1 DEF PM!Put, Paint
      <4> QED
        BY <2>2, <4>1 DEF PageStep, PM!Next, PM!MapAt
    <3>2. CASE ~up
      <4>1. PM!Put(Span(a, len), Reserved)
        BY <2>3, <3>2 DEF PM!Put, Paint
      <4> QED
        BY <2>2, <4>1 DEF PageStep, PM!Next, PM!Unmap
    <3> QED
      BY <3>1, <3>2
  <2> QED
    BY <2>1, <2>2, <2>3, <2>6, <2>7 DEF len
<1> QED
  BY <1>5, <1>6

-----------------------------------------------------------------------------
(* Creating the process *)

LEMMA SegmentStep == Live /\ elf_load_segment => Live' /\ PageStep
<1> SUFFICES ASSUME Live, elf_load_segment PROVE Live' /\ PageStep
  OBVIOUS
<1> DEFINE s == Segments[nseg + 1]
           R(up) == lps_box_mapat(box, s.start * PageSize, s.len * PageSize, "image", up)
           N(r, refused) == IF ~r.ok \/ refused THEN "failed" ELSE IF s.bss # 0 THEN "bss" ELSE Recorded
<1>1. PICK up \in BOOLEAN, refused \in BOOLEAN : After(R(up), N(R(up), refused))
  BY DEF elf_load_segment
<1>2. /\ stage = "new" /\ nseg < Len(Segments) /\ zeroed' = {} /\ UNCHANGED <<brksize, stack>>
      /\ nseg' = IF stage' = "new" THEN nseg + 1 ELSE nseg
  BY DEF elf_load_segment
<1>3. ProcOK /\ MemOK /\ Len(Segments) \in Nat /\ nseg \in 0 .. Len(Segments)
  BY LayoutFacts DEF Live, ProcOK
<1>4. nseg + 1 \in 1 .. Len(Segments) /\ nseg \in Nat
  BY <1>2, <1>3
<1>5. s.start \in Nat /\ s.len \in Nat \ {0} /\ s.start + s.len <= ImagePages
  BY <1>4, SegmentFacts
<1> HIDE DEF s
<1>6. PICK r : r = R(up)
  OBVIOUS
<1>7. /\ s.start * PageSize = PageSize * s.start /\ s.len * PageSize = PageSize * s.len
      /\ PageSize * s.len \in Nat \ {0} /\ NoWrap(PageSize * s.len)
  <2>1. s.len <= NPages
    BY <1>5, LayoutFacts
  <2>2. NoWrap(PageSize * s.len)
    BY <1>5, <2>1, PagesFit
  <2> QED
    BY <1>5, <2>2, Multiple, LayoutFacts
<1>8. r = lps_box_mapat(box, PageSize * s.start, PageSize * s.len, "image", up)
  BY <1>6, <1>7
<1>9. "image" \in Infos \ {"any"} /\ "image" # "brk"
  BY DEF Infos
<1>10. After(r, N(r, refused))
  BY <1>1, <1>6
<1> HIDE DEF N, R
<1>11. MemOK' /\ PageStep /\ r.ok \in BOOLEAN /\ (stage' = N(r, refused) \/ stage' = "aborted")
  BY <1>3, <1>5, <1>7, <1>8, <1>9, <1>10, MapAtStep
<1>12. /\ N(r, refused) \in {"failed", "bss", "new", "aborted"}
       /\ N(r, refused) = "bss" => r.ok /\ s.bss # 0
  BY <1>11 DEF N, Recorded
<1>13. stage' \in {"failed", "bss", "new", "aborted"} /\ (stage' = "bss" => r.ok /\ s.bss # 0)
  BY <1>11, <1>12
<1>14. nseg' \in 0 .. Len(Segments) /\ (stage' = "bss" => nseg' = nseg)
  BY <1>2, <1>3, <1>4, <1>13
<1>15. stack = NoStack
  BY <1>2, <1>3 DEF ProcOK
<1>16. ProcOK'
  BY <1>2, <1>3, <1>13, <1>14, <1>15 DEF ProcOK, Stages, s
<1> QED
  BY <1>11, <1>16 DEF Live

LEMMA BssStep == Live /\ elf_load_bss => Live' /\ PageStep
<1> SUFFICES ASSUME Live, elf_load_bss PROVE Live' /\ PageStep
  OBVIOUS
<1> DEFINE s == Segments[nseg + 1]
           a == s.start + s.len - s.bss
<1>1. PICK up \in BOOLEAN : After(lps_box_mapat(box, a * PageSize, s.bss * PageSize, "image", up), Recorded)
  BY DEF elf_load_bss
<1>2. stage = "bss" /\ nseg' = (IF stage' = "new" THEN nseg + 1 ELSE nseg) /\ zeroed' = {} /\ UNCHANGED <<brksize, stack>>
  BY DEF elf_load_bss
<1>3. /\ ProcOK /\ MemOK /\ Len(Segments) \in Nat /\ nseg \in 0 .. Len(Segments)
      /\ nseg < Len(Segments) /\ s.bss # 0
  BY <1>2, LayoutFacts DEF Live, ProcOK
<1>4. nseg + 1 \in 1 .. Len(Segments)
  BY <1>3
<1>5. /\ s.start \in Nat /\ s.len \in Nat /\ s.bss \in Nat /\ s.bss <= s.len
      /\ s.start + s.len <= ImagePages
  BY <1>4, SegmentFacts
<1> HIDE DEF s
<1>6. a \in Nat
  BY <1>5
<1> HIDE DEF a
<1>7. /\ a * PageSize = PageSize * a /\ s.bss * PageSize = PageSize * s.bss
      /\ PageSize * s.bss \in Nat \ {0} /\ NoWrap(PageSize * s.bss)
  <2>1. s.bss <= NPages
    BY <1>5, LayoutFacts
  <2>2. NoWrap(PageSize * s.bss)
    BY <1>5, <2>1, PagesFit
  <2> QED
    BY <1>3, <1>5, <1>6, <2>2, Multiple, LayoutFacts
<1>8. PICK r : r = lps_box_mapat(box, PageSize * a, PageSize * s.bss, "image", up)
  OBVIOUS
<1>9. After(r, Recorded) /\ Recorded \in {"new", "aborted"}
  BY <1>1, <1>7, <1>8 DEF Recorded
<1>10. "image" \in Infos \ {"any"} /\ "image" # "brk"
  BY DEF Infos
<1>11. MemOK' /\ PageStep /\ (stage' = Recorded \/ stage' = "aborted")
  BY <1>3, <1>6, <1>7, <1>8, <1>9, <1>10, MapAtStep
<1>12. stack = NoStack
  BY <1>2, <1>3 DEF ProcOK
<1>13. ProcOK'
  <2>1. stage' \in {"new", "aborted"} /\ nseg' \in 0 .. Len(Segments)
    BY <1>2, <1>3, <1>4, <1>9, <1>11
  <2> QED
    BY <1>2, <1>3, <1>12, <2>1 DEF ProcOK, Stages
<1> QED
  BY <1>11, <1>13 DEF Live

LEMMA RefusedStep == Live /\ elf_load_refused => Live' /\ PageStep
<1> SUFFICES ASSUME Live, elf_load_refused PROVE Live' /\ PageStep
  OBVIOUS
<1>1. MemOK' /\ PageStep
  BY SamePM DEF Live, elf_load_refused
<1>2. ProcOK'
  BY DEF Live, ProcOK, elf_load_refused, Stages
<1> QED
  BY <1>1, <1>2 DEF Live

LEMMA LoadStep == Live /\ proc_load => Live' /\ PageStep
<1> SUFFICES ASSUME Live, proc_load PROVE Live' /\ PageStep
  OBVIOUS
<1> DEFINE R(up) == lps_box_mapat(box, brkbase, brkmaxsize, "brk", up)
           N(r) == IF r.ok THEN "loaded" ELSE "failed"
<1>1. PICK up \in BOOLEAN : After(R(up), N(R(up)))
  BY DEF proc_load
<1>2. stage = "new" /\ brksize' = 0 /\ zeroed' = {} /\ UNCHANGED <<nseg, stack>>
  BY DEF proc_load
<1>3. ProcOK /\ MemOK
  BY DEF Live
<1>4. PICK r : r = R(up)
  OBVIOUS
<1>5. r = lps_box_mapat(box, PageSize * ImagePages, PageSize * BrkPages, "brk", up)
  BY <1>4, LayoutFacts
<1>6. After(r, N(r))
  BY <1>1, <1>4
<1>7. /\ PageSize * BrkPages \in Nat \ {0} /\ ceil(PageSize * BrkPages) = BrkPages
      /\ ImagePages \in Nat /\ BrkPages \in Nat /\ NoWrap(PageSize * BrkPages)
  BY LayoutFacts, CeilWhole, BreakFits
<1>8. Span(ImagePages, BrkPages) \subseteq Span(ImagePages, BrkPages + 1)
  BY <1>7 DEF Span
<1>9. "brk" \in Infos \ {"any"}
  BY DEF Infos
<1> HIDE DEF R, N
<1>10. MemOK' /\ PageStep /\ r.ok \in BOOLEAN /\ (stage' = N(r) \/ stage' = "aborted")
  BY <1>3, <1>5, <1>6, <1>7, <1>8, <1>9, MapAtStep
<1>11. stage' \in {"loaded", "failed", "aborted"}
  BY <1>10 DEF N
<1>12. stack = NoStack
  BY <1>2, <1>3 DEF ProcOK
<1>13. ProcOK'
  BY <1>2, <1>3, <1>11, <1>12, LayoutFacts DEF ProcOK, Stages
<1> QED
  BY <1>10, <1>13 DEF Live

LEMMA ThreadStep == Live /\ lps_thread_new => Live' /\ PageStep
<1> SUFFICES ASSUME Live, lps_thread_new PROVE Live' /\ PageStep
  OBVIOUS
<1> DEFINE R(up) == lps_box_mapat(box, BoxSize - StackPages * PageSize, StackPages * PageSize, "stack", up)
           N(r, a) == IF r.ok THEN Filled(a, r.host) ELSE "failed"
<1>1. PICK up \in BOOLEAN, a \in Args :
        /\ After(R(up), N(R(up), a))
        /\ stack' = IF stage' = "created" THEN Created(a) ELSE NoStack
  BY DEF lps_thread_new
<1>2. stage = "loaded" /\ zeroed' = {} /\ UNCHANGED <<brksize, nseg>>
  BY DEF lps_thread_new
<1>3. ProcOK /\ MemOK
  BY DEF Live
<1>4. PICK r : r = R(up)
  OBVIOUS
<1>5. /\ StackPages * PageSize = PageSize * StackPages /\ PageSize * StackPages \in Nat \ {0}
      /\ NPages - StackPages \in Nat /\ NoWrap(PageSize * StackPages)
  <2>1. StackPages \in Nat /\ StackPages <= NPages
    BY LayoutFacts
  <2> QED
    BY <2>1, LayoutFacts, Multiple, PagesFit
<1>6. r = lps_box_mapat(box, PageSize * (NPages - StackPages), PageSize * StackPages, "stack", up)
  BY <1>4, <1>5, LayoutFacts
<1>7. After(r, N(r, a))
  BY <1>1, <1>4
<1>8. "stack" \in Infos \ {"any"} /\ "stack" # "brk"
  BY DEF Infos
<1> HIDE DEF R, N
<1>9. MemOK' /\ PageStep /\ r.ok \in BOOLEAN /\ (stage' = N(r, a) \/ stage' = "aborted")
  BY <1>3, <1>5, <1>6, <1>7, <1>8, MapAtStep
<1>10. Filled(a, r.host) \in {"aborted", "crashed", "created"}
  BY DEF Filled
<1>11. stage' \in {"failed", "aborted", "crashed", "created"}
  BY <1>9, <1>10 DEF N
<1>12. Created(a) # NoStack
  <2>1. Created(a).args = a
    BY DEF Created
  <2>2. NoStack.args = <<>>
    BY DEF NoStack
  <2>3. a # <<>>
    <3>1. a \in [argc : Nat, argv : Seq(Nat), envp : Seq(Nat)]
      BY LayoutAssumption
    <3>2. "argc" \in DOMAIN a
      BY <3>1
    <3>3. DOMAIN <<>> = {}
      OBVIOUS
    <3> QED
      BY <3>2, <3>3
  <2> QED
    BY <2>1, <2>2, <2>3
<1>13. (stack' # NoStack) = (stage' = "created")
  BY <1>1, <1>12
<1>14. ProcOK'
  BY <1>2, <1>3, <1>11, <1>13 DEF ProcOK, Stages
<1> QED
  BY <1>9, <1>14 DEF Live

LEMMA RunStep == Live /\ lps_thread_run => Live' /\ PageStep
<1> SUFFICES ASSUME Live, lps_thread_run PROVE Live' /\ PageStep
  OBVIOUS
<1>1. MemOK' /\ PageStep
  BY SamePM DEF Live, lps_thread_run
<1>2. ProcOK'
  BY DEF Live, ProcOK, lps_thread_run, Stages
<1> QED
  BY <1>1, <1>2 DEF Live

-----------------------------------------------------------------------------
(* System calls *)

\* The pages of a heap that grows from old to new bytes: they begin behind the
\* page of the old break, all new pages are among them, and they end at most one
\* page behind the region.
LEMMA GrowFacts ==
  ASSUME NEW old \in Nat, NEW new \in Nat, old < new, new < brkmaxsize
  PROVE  LET a == ImagePages + ceil(old)
             pages == Span(a, ceil(new - old))
         IN  /\ a \in Nat /\ new - old \in Nat \ {0} /\ NoWrap(new - old) /\ brk_next(old) = PageSize * a
             /\ pages \subseteq Span(ImagePages, BrkPages + 1)
             /\ pages \cap HeapPages(old) = {}
             /\ HeapPages(new) \ HeapPages(old) \subseteq pages
<1> DEFINE c == ceil(old)
           d == ceil(new - old)
           e == ceil(new)
           cs == PageSize * c
           ds == PageSize * d
<1>1. /\ new - old \in Nat \ {0} /\ NoWrap(old) /\ NoWrap(new) /\ NoWrap(new - old)
      /\ NoWrap(PageSize * ImagePages + old)
  <2>1. brkmaxsize \in Nat
    BY LayoutFacts
  <2>2. /\ new - old \in Nat \ {0} /\ old <= brkmaxsize /\ new <= brkmaxsize
        /\ new - old <= brkmaxsize
    BY <2>1
  <2> QED
    BY <2>2, BreakFits
<1>2. /\ c \in Nat /\ old <= cs /\ cs < old + PageSize /\ cs \in Nat
      /\ d \in Nat /\ new - old <= ds /\ ds < (new - old) + PageSize /\ ds \in Nat
      /\ e \in Nat
  BY <1>1, CeilFacts
<1>3. /\ ImagePages \in Nat /\ BrkPages \in Nat /\ PageSize \in Nat \ {0}
      /\ brkbase = PageSize * ImagePages /\ brkmaxsize = PageSize * BrkPages /\ PageSize * BrkPages \in Nat
  BY LayoutFacts, MultipleNat
<1>4. brk_next(old) = PageSize * (ImagePages + c)
  <2>1. CASE old = 0
    <3>1. c = 0
      BY <1>1, <2>1, CeilWhole, MultipleOne
    <3> HIDE DEF c
    <3> QED
      BY <1>3, <2>1, <3>1 DEF brk_next
  <2>2. CASE old # 0
    <3>1. ceil(PageSize * ImagePages + old) = ImagePages + c
      BY <1>1, <1>3, CeilShift
    <3> HIDE DEF c
    <3> QED
      BY <1>3, <2>2, <3>1 DEF brk_next, ceilp
  <2> QED
    BY <2>1, <2>2
<1> HIDE DEF c, d, e
<1>5. PageSize * (c + d) = cs + ds /\ c + d \in Nat
  BY <1>2, MultipleSum
<1>6. e <= c + d
  <2>1. new <= PageSize * (c + d)
    <3> HIDE DEF cs, ds
    <3> QED
      BY <1>2, <1>5
  <2> QED
    BY <1>1, <1>5, <2>1, CeilLeast DEF e
<1>7. c + d <= BrkPages + 1
  <2> DEFINE bs == PageSize * BrkPages
  <2>1. PageSize * (BrkPages + 2) = bs + PageSize * 2 /\ PageSize * 2 = PageSize + PageSize
    BY <1>3, MultipleSum
  <2>2. new < bs /\ bs \in Nat /\ PageSize \in Nat
    BY <1>3
  <2> HIDE DEF cs, ds, bs
  <2>3. cs + ds < bs + PageSize + PageSize
    BY <1>2, <2>2
  <2>4. PageSize * (c + d) < PageSize * (BrkPages + 2)
    BY <1>5, <2>1, <2>2, <2>3
  <2>5. (c + d) + 1 <= BrkPages + 2
    BY <1>3, <1>5, <2>4, MultipleOrder
  <2> QED
    BY <1>2, <1>3, <2>5
<1> HIDE DEF cs, ds
<1>8. HeapPages(old) = Span(ImagePages, c) /\ HeapPages(new) = Span(ImagePages, e)
  BY DEF HeapPages, c, e
<1>9. Span(ImagePages + c, d) \subseteq Span(ImagePages, BrkPages + 1)
  BY <1>2, <1>3, <1>7 DEF Span
<1>10. Span(ImagePages + c, d) \cap HeapPages(old) = {}
  BY <1>2, <1>3, <1>8 DEF Span
<1>11. HeapPages(new) \ HeapPages(old) \subseteq Span(ImagePages + c, d)
  BY <1>2, <1>3, <1>6, <1>8 DEF Span
<1> QED
  BY <1>1, <1>2, <1>3, <1>4, <1>9, <1>10, <1>11 DEF c, d

\* What one step may do to the heap.
BrkKept ==
  brksize' > brksize => /\ zeroed' \cap HeapPages(brksize) = {}
                        /\ HeapPages(brksize') \ HeapPages(brksize) \subseteq zeroed'

LEMMA BrkStep ==
  ASSUME Live, NEW addr \in Breaks, NEW up \in BOOLEAN, sys_brk(addr, up)
  PROVE  Live' /\ PageStep /\ BrkKept
<1> DEFINE brkp == IF addr = 0 THEN brkbase + brksize ELSE addr
           newsize == Min2(Max2(brkp, brkbase), brkbase + brkmaxsize) - brkbase
           R == lps_box_mapat(box, brk_next(brksize), brk_len(brksize, newsize), "brk", up)
<1>1. ProcOK /\ MemOK /\ stage = "running" /\ stack = NoStack /\ UNCHANGED <<nseg, stack>>
  BY DEF Live, ProcOK, sys_brk
<1>2. brksize \in Nat /\ brksize <= brkmaxsize /\ brkbase \in Nat /\ brkmaxsize \in Nat /\ addr \in Nat
  BY <1>1, LayoutFacts, LayoutAssumption DEF ProcOK
<1>3. newsize \in Nat /\ newsize <= brkmaxsize
  <2>1. brkp \in Nat
    BY <1>2
  <2> HIDE DEF brkp
  <2> QED
    BY <1>2, <2>1 DEF Min2, Max2
<1>4. \/ stage' = "aborted" /\ zeroed' = {} /\ UNCHANGED <<mm, host, brksize>>
      \/ newsize < brkmaxsize /\ newsize > brksize /\ BrkGrow(R, newsize)
      \/ newsize < brksize /\ brksize' = newsize /\ zeroed' = {} /\ UNCHANGED <<mm, host, stage>>
  BY DEF sys_brk
<1> HIDE DEF newsize, R
<1>5. CASE stage' = "aborted" /\ zeroed' = {} /\ UNCHANGED <<mm, host, brksize>>
  <2>1. MemOK' /\ PageStep
    BY <1>1, <1>5, SamePM
  <2>2. ProcOK' /\ BrkKept
    BY <1>1, <1>2, <1>5 DEF ProcOK, Stages, BrkKept
  <2> QED
    BY <2>1, <2>2 DEF Live
<1>6. CASE newsize < brkmaxsize /\ newsize > brksize /\ BrkGrow(R, newsize)
  <2> DEFINE a == ImagePages + ceil(brksize)
             size == newsize - brksize
  <2>1. /\ a \in Nat /\ size \in Nat \ {0} /\ NoWrap(size) /\ brk_next(brksize) = PageSize * a
        /\ Span(a, ceil(size)) \subseteq Span(ImagePages, BrkPages + 1)
        /\ Span(a, ceil(size)) \cap HeapPages(brksize) = {}
        /\ HeapPages(newsize) \ HeapPages(brksize) \subseteq Span(a, ceil(size))
    BY <1>2, <1>3, <1>6, GrowFacts
  <2> HIDE DEF a
  <2>2. PICK r : r = R
    OBVIOUS
  <2>3. r = lps_box_mapat(box, PageSize * a, size, "brk", up)
    BY <2>1, <2>2 DEF R, brk_len
  <2>4. After(r, "running") /\ zeroed' = r.fresh /\ brksize' = IF r.ok THEN newsize ELSE brksize
    BY <1>6, <2>2 DEF BrkGrow
  <2>5. "brk" \in Infos \ {"any"}
    BY DEF Infos
  <2> HIDE DEF size
  <2>6. /\ MemOK' /\ PageStep /\ r.ok \in BOOLEAN /\ r.fresh \subseteq Pages
        /\ stage' = "running" \/ stage' = "aborted"
        /\ r.ok => r.fresh = Span(a, ceil(size))
    BY <1>1, <2>1, <2>3, <2>4, <2>5, MapAtStep
  <2>7. brksize' \in 0 .. brkmaxsize
    BY <1>2, <1>3, <2>4, <2>6
  <2>8. ProcOK'
    BY <1>1, <2>4, <2>6, <2>7 DEF ProcOK, Stages
  <2>9. BrkKept
    <3>1. CASE r.ok
      BY <2>1, <2>4, <2>6, <3>1 DEF BrkKept
    <3>2. CASE ~r.ok
      BY <1>2, <2>4, <3>2 DEF BrkKept
    <3> QED
      BY <3>1, <3>2
  <2> QED
    BY <2>6, <2>8, <2>9 DEF Live
<1>7. CASE newsize < brksize /\ brksize' = newsize /\ zeroed' = {} /\ UNCHANGED <<mm, host, stage>>
  <2>1. MemOK' /\ PageStep
    BY <1>1, <1>7, SamePM
  <2>2. brksize' \in 0 .. brkmaxsize /\ ~(brksize' > brksize)
    BY <1>2, <1>3, <1>7
  <2>3. ProcOK' /\ BrkKept
    BY <1>1, <1>7, <2>2 DEF ProcOK, Stages, BrkKept
  <2> QED
    BY <2>1, <2>3 DEF Live
<1> QED
  BY <1>4, <1>5, <1>6, <1>7

LEMMA FixedStep ==
  ASSUME Live, NEW addr \in Addrs, NEW length \in Lengths, NEW up \in BOOLEAN,
         sys_mmap_fixed(addr, length, up)
  PROVE  Live' /\ PageStep
<1>1. /\ ProcOK /\ MemOK /\ stage = "running" /\ stack = NoStack /\ length # 0
      /\ zeroed' = {} /\ UNCHANGED <<brksize, nseg, stack>>
      /\ After(lps_box_mapat(box, truncp(addr), ceilp(length), "fixed", up), "running")
  BY DEF Live, ProcOK, sys_mmap_fixed
<1>2. addr \in Nat /\ length \in 0 .. WordMod - 1
  BY LayoutAssumption
<1> DEFINE a == addr \div PageSize
<1>3. a \in Nat /\ truncp(addr) = PageSize * a
  BY <1>2, TruncFacts
<1>4. /\ ceilp(length) \in Nat /\ NoWrap(ceilp(length)) /\ ceil(ceilp(length)) = ceil(length)
      /\ (ceilp(length) = 0) = (ceil(length) = 0)
  BY <1>1, <1>2, CeilTwice
<1> HIDE DEF a
<1>5. PICK r : r = lps_box_mapat(box, PageSize * a, ceilp(length), "fixed", up)
  OBVIOUS
<1>6. After(r, "running") /\ "fixed" \in Infos \ {"any"} /\ "fixed" # "brk"
  BY <1>1, <1>3, <1>5 DEF Infos
<1>7. MemOK' /\ PageStep /\ stage' \in {"running", "aborted", "mm_aborted"}
  <2>1. CASE ceilp(length) # 0
    <3>1. ceilp(length) \in Nat \ {0}
      BY <1>4, <2>1
    <3>2. MemOK' /\ PageStep /\ (stage' = "running" \/ stage' = "aborted")
      BY <1>1, <1>3, <1>4, <1>5, <1>6, <3>1, MapAtStep
    <3> QED
      BY <3>2
  <2>2. CASE ceilp(length) = 0
    <3>1. ceil(ceilp(length)) = 0
      BY <1>4, <2>2
    <3>2. PICK x \in {"aborted", "mm_aborted", "no"} : r = Fail(box, x)
      BY <1>3, <1>5, <3>1, BoxMapNothing
    <3>3. r.mm = mm /\ r.host = host /\ r.abort = x
      BY <3>2 DEF Fail, box
    <3>4. UNCHANGED <<mm, host>> /\ stage' \in {"running", "aborted", "mm_aborted"}
      BY <1>6, <3>3 DEF After
    <3> QED
      BY <1>1, <3>4, SamePM
  <2> QED
    BY <2>1, <2>2
<1>8. ProcOK'
  BY <1>1, <1>7 DEF ProcOK, Stages
<1> QED
  BY <1>7, <1>8 DEF Live

\* A node of no pages before a node of the list, or alone: the order stays and
\* no page is mapped by it.
LEMMA EmptyNode ==
  ASSUME NEW m, Sound(m), NEW info \in Infos, NEW from \in 0 .. Len(m.nodes),
         from = 0 => m.nodes = <<>>
  PROVE  LET e == EmptyFit(m, info, from) IN
         /\ e.ok = TRUE /\ e.mm.nodes \in Seq(Nodes) /\ e.mm.cursor \in 0 .. Len(e.mm.nodes)
         /\ \A k \in DOMAIN e.mm.nodes :
              /\ End(e.mm.nodes[k]) <= NPages
              /\ k < Len(e.mm.nodes) => End(e.mm.nodes[k]) <= e.mm.nodes[k + 1].base
         /\ \A p \in Int, i \in Infos : Covers(e.mm.nodes, p, i) <=> Covers(m.nodes, p, i)
<1> DEFINE s == m.nodes
           q == IF from = NoNode THEN 1 ELSE from
           start == IF from = NoNode THEN 0 ELSE s[from].base
           n == [base |-> start, len |-> 0, info |-> info]
           t == InsertAt(s, q, n)
<1>1. s \in Seq(Nodes) /\ Len(s) \in Nat /\ DOMAIN s = 1 .. Len(s)
  BY FullNodesFacts DEF Sound
<1>2. \A k \in 1 .. Len(s) : /\ s[k].base \in Nat /\ End(s[k]) \in Nat /\ s[k].base < End(s[k])
                             /\ End(s[k]) <= NPages /\ s[k].base \in Pages
  BY NodeInSound
<1>3. \A j, k \in DOMAIN s : j < k => End(s[j]) <= s[k].base
  BY DEF Sound, Listing
<1>4. q \in 1 .. Len(s) + 1 /\ (Len(s) # 0 => q = from /\ from \in 1 .. Len(s))
  BY <1>1 DEF NoNode
<1>5. start \in Pages /\ (Len(s) # 0 => start = s[q].base) /\ start \in Nat /\ start <= NPages
  <2>1. CASE Len(s) = 0
    BY <1>1, <2>1, NPagesAssumption DEF NoNode, Pages
  <2>2. CASE Len(s) # 0
    <3>1. from \in 1 .. Len(s) /\ q = from /\ start = s[q].base
      BY <1>4, <2>2 DEF NoNode
    <3>2. s[from].base \in Pages /\ s[from].base \in Nat /\ s[from].base <= NPages
      BY <1>2, <3>1, NPagesAssumption DEF Pages
    <3> QED
      BY <2>2, <3>1, <3>2
  <2> QED
    BY <2>1, <2>2
<1>6. EmptyFit(m, info, from) = [ok |-> TRUE, addr |-> start, mm |-> [nodes |-> t, cursor |-> q - 1]]
  BY DEF EmptyFit
<1> HIDE DEF s, q, start
<1>7. n \in Nodes /\ n.base = start /\ n.len = 0 /\ End(n) = start
  BY <1>5, NPagesAssumption DEF Nodes, End
<1> HIDE DEF n
<1>8. t \in Seq(Nodes) /\ HasInserted(t, s, q, n)
  BY <1>1, <1>4, <1>7, InsertAtFacts
<1> HIDE DEF t
<1>9. /\ Len(t) = Len(s) + 1 /\ DOMAIN t = 1 .. Len(s) + 1
      /\ \A j \in 1 .. Len(s) + 1 : t[j] = IF j < q THEN s[j] ELSE IF j = q THEN n ELSE s[j - 1]
  BY <1>8 DEF HasInserted
<1>10. ASSUME NEW k \in DOMAIN t PROVE End(t[k]) <= NPages
  <2>1. t[k] = n \/ (k \in 1 .. Len(s) /\ t[k] = s[k]) \/ (k - 1 \in 1 .. Len(s) /\ t[k] = s[k - 1])
    BY <1>1, <1>4, <1>9
  <2> QED
    BY <1>2, <1>5, <1>7, <2>1
<1>11. ASSUME NEW k \in DOMAIN t, k < Len(t) PROVE End(t[k]) <= t[k + 1].base
  <2>1. k \in 1 .. Len(s) /\ k + 1 \in 1 .. Len(s) + 1 /\ Len(s) # 0 /\ q \in 1 .. Len(s)
    BY <1>1, <1>4, <1>9, <1>11
  <2>2. CASE k + 1 < q
    <3>1. t[k] = s[k] /\ t[k + 1] = s[k + 1] /\ k + 1 \in 1 .. Len(s)
      BY <1>1, <1>9, <2>1, <2>2
    <3> QED
      BY <1>1, <1>3, <2>1, <3>1
  <2>3. CASE k + 1 = q
    <3>1. t[k] = s[k] /\ t[k + 1] = n
      BY <1>1, <1>9, <2>1, <2>3
    <3>2. End(s[k]) <= s[q].base
      BY <1>1, <1>3, <2>1, <2>3
    <3> QED
      BY <1>5, <1>7, <2>1, <3>1, <3>2
  <2>4. CASE k = q
    <3>1. t[k] = n /\ t[k + 1] = s[k]
      BY <1>1, <1>9, <2>1, <2>4
    <3> QED
      BY <1>5, <1>7, <2>1, <2>4, <3>1
  <2>5. CASE k > q
    <3>1. t[k] = s[k - 1] /\ t[k + 1] = s[k] /\ k - 1 \in 1 .. Len(s)
      BY <1>1, <1>9, <2>1, <2>5
    <3> QED
      BY <1>1, <1>3, <2>1, <3>1
  <2> QED
    BY <1>1, <2>1, <2>2, <2>3, <2>4, <2>5
<1>12. ASSUME NEW p \in Int, NEW i \in Infos PROVE Covers(t, p, i) <=> Covers(s, p, i)
  <2>1. ~At(n, p, i)
    BY <1>5, <1>7 DEF At
  <2>2. ASSUME NEW k \in DOMAIN t, At(t[k], p, i) PROVE Covers(s, p, i)
    <3>1. t[k] = n \/ (k \in 1 .. Len(s) /\ t[k] = s[k]) \/ (k - 1 \in 1 .. Len(s) /\ t[k] = s[k - 1])
      BY <1>1, <1>4, <1>9
    <3> QED
      BY <1>1, <2>1, <2>2, <3>1 DEF Covers
  <2>3. ASSUME NEW k \in DOMAIN s, At(s[k], p, i) PROVE Covers(t, p, i)
    <3>1. \/ k \in DOMAIN t /\ t[k] = s[k]
          \/ k + 1 \in DOMAIN t /\ t[k + 1] = s[k]
      BY <1>1, <1>4, <1>9
    <3> QED
      BY <2>3, <3>1 DEF Covers
  <2> QED
    BY <2>2, <2>3 DEF Covers
<1>13. q - 1 \in 0 .. Len(t)
  BY <1>1, <1>4, <1>9
<1> DEFINE e == EmptyFit(m, info, from)
<1>14. e.ok = TRUE /\ e.mm.nodes = t /\ e.mm.cursor = q - 1
  BY <1>6
<1> HIDE DEF e
<1>15. /\ e.ok = TRUE /\ e.mm.nodes \in Seq(Nodes) /\ e.mm.cursor \in 0 .. Len(e.mm.nodes)
       /\ \A k \in DOMAIN e.mm.nodes :
            /\ End(e.mm.nodes[k]) <= NPages
            /\ k < Len(e.mm.nodes) => End(e.mm.nodes[k]) <= e.mm.nodes[k + 1].base
       /\ \A p \in Int, i \in Infos : Covers(e.mm.nodes, p, i) <=> Covers(m.nodes, p, i)
  BY <1>8, <1>10, <1>11, <1>12, <1>13, <1>14 DEF s
<1> QED
  BY <1>15 DEF e

\* mm_mapany with a length of no pages spoils the list.
LEMMA AnyNothing ==
  ASSUME Live, NEW size, ceil(size) = 0, NEW up, After(lps_box_mapany(box, size, "any", up), "running"),
         zeroed' = {}, stack = NoStack, UNCHANGED <<brksize, nseg, stack>>
  PROVE  Spoilt' /\ PageStep
<1> DEFINE m == mm_mapany(mm, 0, "any")
           c == IF mm.nodes = <<>> THEN NoNode ELSE 1
           r == lps_box_mapany(box, size, "any", up)
<1>1. MemOK /\ ProcOK /\ Sound(mm) /\ Agree(mm, host) /\ "any" \in Infos
  BY DEF Live, MemOK, Infos
<1>2. PICK from \in 0 .. Len(mm.nodes) : (from = 0 => mm.nodes = <<>>) /\ m = EmptyFit(mm, "any", from)
  <2>1. mm.cursor \in 0 .. Len(mm.nodes) /\ Len(mm.nodes) \in Nat
    BY <1>1 DEF Sound
  <2>2. c \in 0 .. Len(mm.nodes) /\ (c = 0 => mm.nodes = <<>>)
    BY <1>1, <2>1 DEF NoNode, Sound
  <2>3. m = EmptyFit(mm, "any", c) \/ (mm.cursor # NoNode /\ m = EmptyFit(mm, "any", mm.cursor))
    BY DEF mm_mapany, mm_mapany_cursor
  <2> HIDE DEF m, c
  <2> QED
    BY <2>1, <2>2, <2>3 DEF NoNode
<1> HIDE DEF m
<1>3. /\ m.ok = TRUE /\ m.mm.nodes \in Seq(Nodes) /\ m.mm.cursor \in 0 .. Len(m.mm.nodes)
      /\ \A k \in DOMAIN m.mm.nodes :
           /\ End(m.mm.nodes[k]) <= NPages
           /\ k < Len(m.mm.nodes) => End(m.mm.nodes[k]) <= m.mm.nodes[k + 1].base
      /\ \A p \in Int, i \in Infos : Covers(m.mm.nodes, p, i) <=> Covers(mm.nodes, p, i)
  BY <1>1, <1>2, EmptyNode
<1>4. r.mm = m.mm /\ r.host = host /\ r.abort = "spoiled"
  <2>1. box.mm = mm /\ box.host = host
    BY DEF box
  <2>2. r = MapAnyHost(box, m, 0, "any", up)
    BY <2>1 DEF lps_box_mapany, m
  <2>3. r = [[mm |-> mm, host |-> host, ok |-> FALSE, abort |-> "spoiled", fresh |-> {}] EXCEPT !.mm = m.mm]
    BY <1>3, <2>1, <2>2 DEF MapAnyHost, Fail
  <2> HIDE DEF r
  <2> QED
    BY <2>3
<1> HIDE DEF r
<1>5. mm' = m.mm /\ host' = host /\ stage' = "spoiled"
  BY <1>4 DEF After, r
<1>6. Agree(mm', host')
  BY <1>1, <1>3, <1>5, PagesInt DEF Agree
<1>7. BrkNearRegion' /\ PageStep
  BY <1>1, <1>5 DEF MemOK, BrkNearRegion, PageStep
<1>8. brksize' \in 0 .. brkmaxsize /\ nseg' \in 0 .. Len(Segments)
  BY <1>1 DEF ProcOK
<1> QED
  BY <1>3, <1>5, <1>6, <1>7, <1>8 DEF Spoilt

LEMMA AnyStep ==
  ASSUME Live, NEW length \in Lengths, NEW up \in BOOLEAN, sys_mmap_any(length, up)
  PROVE  PMInv' /\ PageStep
<1>1. /\ ProcOK /\ MemOK /\ stage = "running" /\ stack = NoStack /\ length # 0
      /\ zeroed' = {} /\ UNCHANGED <<brksize, nseg, stack>>
      /\ After(lps_box_mapany(box, ceilp(length), "any", up), "running")
  BY DEF Live, ProcOK, sys_mmap_any
<1>2. length \in 0 .. WordMod - 1
  BY LayoutAssumption
<1>3. /\ ceilp(length) \in Nat /\ NoWrap(ceilp(length)) /\ ceil(ceilp(length)) = ceil(length)
      /\ (ceilp(length) = 0) = (ceil(length) = 0)
  BY <1>1, <1>2, CeilTwice
<1>0. CASE ceilp(length) = 0
  <2>1. ceil(ceilp(length)) = 0
    BY <1>3, <1>0
  <2>2. Spoilt' /\ PageStep
    BY <1>1, <2>1, AnyNothing
  <2> QED
    BY <2>2 DEF PMInv
<1> SUFFICES ASSUME ceilp(length) \in Nat \ {0} PROVE Live' /\ PageStep
  BY <1>0, <1>3 DEF PMInv
<1>4. PICK r : r = lps_box_mapany(box, ceilp(length), "any", up)
  OBVIOUS
<1>5. box.mm = mm /\ box.host = host /\ "any" \in Infos
  BY DEF box, Infos
<1>6. PICK len \in Nat \ {0} : MapAnyDone(r, host, len, "any")
  BY <1>1, <1>3, <1>4, <1>5, BoxMapAnyFacts DEF MemOK
<1>7. After(r, "running")
  BY <1>1, <1>4
<1>8. mm' = r.mm /\ host' = r.host /\ stage' = "running"
  BY <1>6, <1>7 DEF After, MapAnyDone
<1>9. Sound(mm') /\ Agree(mm', host')
  BY <1>6, <1>8 DEF MapAnyDone
<1>10. CASE host' = host
  <2>1. BrkNearRegion' /\ PageStep
    BY <1>1, <1>10 DEF MemOK, BrkNearRegion, PageStep
  <2>2. MemOK'
    BY <1>9, <2>1 DEF MemOK
  <2>3. ProcOK'
    BY <1>1, <1>8 DEF ProcOK, Stages
  <2> QED
    BY <2>1, <2>2, <2>3 DEF Live
<1>11. CASE host' # host
  <2>1. PICK a \in Nat : /\ a + len <= NPages /\ \A p \in Span(a, len) : host[p] = Reserved
                         /\ host' = Paint(host, Span(a, len), "any")
    BY <1>6, <1>8, <1>11 DEF MapAnyDone
  <2>2. Span(a, len) \in PM!Ranges
    BY <2>1, SpanPages
  <2>3. PM!Put(Span(a, len), "any")
    BY <2>1 DEF PM!Put, Paint
  <2>4. PageStep
    BY <2>1, <2>2, <2>3 DEF PageStep, PM!Next, PM!MapAny
  <2>5. BrkNearRegion'
    BY <1>1, <2>1, BrkPaint DEF MemOK
  <2>6. MemOK'
    BY <1>9, <2>5 DEF MemOK
  <2>7. ProcOK'
    BY <1>1, <1>8 DEF ProcOK, Stages
  <2> QED
    BY <2>4, <2>6, <2>7 DEF Live
<1> QED
  BY <1>10, <1>11

LEMMA UnmapStep ==
  ASSUME Live, NEW addr \in Addrs, NEW length \in Lengths, sys_munmap(addr, length)
  PROVE  Live' /\ PageStep
<1>1. /\ ProcOK /\ MemOK /\ stage = "running" /\ stack = NoStack
      /\ zeroed' = {} /\ UNCHANGED <<brksize, nseg, stack>>
      /\ After(lps_box_munmap(box, addr, length), "running")
  BY DEF Live, ProcOK, sys_munmap
<1>2. addr \in Nat /\ length \in 0 .. WordMod - 1
  BY LayoutAssumption
<1>3. PICK r : r = lps_box_munmap(box, addr, length)
  OBVIOUS
<1>4. box.mm = mm /\ box.host = host
  BY DEF box
<1>5. UnmapDone(r, host)
  BY <1>1, <1>2, <1>3, <1>4, BoxUnmapFacts DEF MemOK
<1>6. After(r, "running")
  BY <1>1, <1>3
<1>7. mm' = r.mm /\ host' = r.host /\ stage' \in {"running", "aborted"}
  BY <1>5, <1>6 DEF After, UnmapDone
<1>8. Sound(mm') /\ Agree(mm', host')
  BY <1>5, <1>7 DEF UnmapDone
<1>9. ProcOK'
  BY <1>1, <1>7 DEF ProcOK, Stages
<1>10. BrkNearRegion' /\ PageStep
  <2>1. CASE host' = host
    BY <1>1, <2>1 DEF MemOK, BrkNearRegion, PageStep
  <2>2. CASE host' # host
    <3>1. PICK a \in Nat, len \in Nat \ {0} :
            a + len <= NPages /\ host' = Paint(host, Span(a, len), Reserved)
      BY <1>5, <1>7, <2>2 DEF UnmapDone
    <3>2. Span(a, len) \in PM!Ranges
      BY <3>1, SpanPages
    <3>3. PM!Put(Span(a, len), Reserved)
      BY <3>1 DEF PM!Put, Paint
    <3>4. Reserved # "brk"
      BY DEF Reserved
    <3>5. BrkNearRegion'
      BY <1>1, <3>1, <3>4, BrkPaint DEF MemOK
    <3> QED
      BY <3>2, <3>3, <3>5 DEF PageStep, PM!Next, PM!Unmap
  <2> QED
    BY <2>1, <2>2
<1> QED
  BY <1>8, <1>9, <1>10 DEF Live, MemOK

LEMMA ProtectStep ==
  ASSUME Live, NEW addr \in Addrs, NEW length \in Lengths, sys_mprotect(addr, length)
  PROVE  Live' /\ PageStep
<1>1. MemOK' /\ PageStep
  BY SamePM DEF Live, sys_mprotect
<1>2. ProcOK'
  BY DEF Live, ProcOK, sys_mprotect, Stages
<1> QED
  BY <1>1, <1>2 DEF Live

-----------------------------------------------------------------------------
(* Theorems *)

LEMMA NextLive == Live /\ [Next]_vars => PMInv' /\ PageStep
<1> SUFFICES ASSUME Live, [Next]_vars PROVE PMInv' /\ PageStep
  OBVIOUS
<1>1. CASE elf_load_segment
  BY <1>1, SegmentStep DEF PMInv
<1>2. CASE elf_load_bss
  BY <1>2, BssStep DEF PMInv
<1>3. CASE elf_load_refused
  BY <1>3, RefusedStep DEF PMInv
<1>4. CASE proc_load
  BY <1>4, LoadStep DEF PMInv
<1>5. CASE lps_thread_new
  BY <1>5, ThreadStep DEF PMInv
<1>6. CASE lps_thread_run
  BY <1>6, RunStep DEF PMInv
<1>7. ASSUME NEW addr \in Breaks, NEW up \in BOOLEAN, sys_brk(addr, up) PROVE Live' /\ PageStep
  BY <1>7, BrkStep
<1>8. ASSUME NEW addr \in Addrs, NEW length \in Lengths, NEW up \in BOOLEAN,
             sys_mmap_fixed(addr, length, up)
      PROVE  Live' /\ PageStep
  BY <1>8, FixedStep
<1>9. ASSUME NEW length \in Lengths, NEW up \in BOOLEAN, sys_mmap_any(length, up)
      PROVE  PMInv' /\ PageStep
  BY <1>9, AnyStep
<1>10. ASSUME NEW addr \in Addrs, NEW length \in Lengths, sys_munmap(addr, length)
       PROVE  Live' /\ PageStep
  BY <1>10, UnmapStep
<1>11. ASSUME NEW addr \in Addrs, NEW length \in Lengths, sys_mprotect(addr, length)
       PROVE  Live' /\ PageStep
  BY <1>11, ProtectStep
<1>12. CASE UNCHANGED vars
  <2>1. MemOK' /\ PageStep
    BY <1>12, SamePM DEF Live, vars
  <2>2. ProcOK'
    BY <1>12 DEF Live, ProcOK, vars
  <2> QED
    BY <2>1, <2>2 DEF Live, PMInv
<1> QED
  BY <1>1, <1>2, <1>3, <1>4, <1>5, <1>6, <1>7, <1>8, <1>9, <1>10, <1>11, <1>12 DEF Next, PMInv

\* A process with a spoiled list is not followed further.
LEMMA NextSpoilt == Spoilt /\ [Next]_vars => UNCHANGED vars
BY DEF Spoilt, Next, vars, elf_load_segment, elf_load_bss, elf_load_refused, proc_load, lps_thread_new,
       lps_thread_run, sys_brk, sys_mmap_fixed, sys_mmap_any, sys_munmap, sys_mprotect

LEMMA NextPM == PMInv /\ [Next]_vars => PMInv' /\ PageStep
<1> SUFFICES ASSUME PMInv, [Next]_vars PROVE PMInv' /\ PageStep
  OBVIOUS
<1>1. CASE Live
  BY <1>1, NextLive
<1>2. CASE Spoilt
  <2>1. UNCHANGED vars
    BY <1>2, NextSpoilt
  <2>2. PageStep
    BY <2>1 DEF vars, PageStep
  <2>3. Spoilt'
    BY <1>2, <2>1 DEF vars, Spoilt, Agree, BrkNearRegion
  <2> QED
    BY <2>2, <2>3 DEF PMInv
<1> QED
  BY <1>1, <1>2 DEF PMInv

\* Only sys_brk moves the break up.
LEMMA NextBrk == PMInv /\ [Next]_vars => BrkKept
<1> SUFFICES ASSUME PMInv, [Next]_vars PROVE BrkKept
  OBVIOUS
<1>1. brksize \in Nat
  BY LayoutFacts DEF PMInv, Live, ProcOK, Spoilt
<1>2. ASSUME NEW addr \in Breaks, NEW up \in BOOLEAN, sys_brk(addr, up) PROVE BrkKept
  <2>1. Live
    BY <1>2 DEF PMInv, Spoilt, sys_brk
  <2> QED
    BY <1>2, <2>1, BrkStep
<1>3. CASE ~\E addr \in Breaks, up \in BOOLEAN : sys_brk(addr, up)
  <2>1. brksize' = brksize \/ brksize' = 0
    BY <1>3 DEF Next, vars, elf_load_segment, elf_load_bss, elf_load_refused, proc_load, lps_thread_new,
                lps_thread_run, sys_mmap_fixed, sys_mmap_any, sys_munmap, sys_mprotect
  <2>2. ~(brksize' > brksize)
    BY <1>1, <2>1
  <2> QED
    BY <2>2 DEF BrkKept
<1> QED
  BY <1>2, <1>3

\* The inductive invariant of the memory of a process.
THEOREM PMHolds == Spec => []PMInv
<1>1. Init => PMInv
  BY InitPM DEF PMInv
<1>2. PMInv /\ [Next]_vars => PMInv'
  BY NextPM
<1> QED
  BY <1>1, <1>2, PTL DEF Spec

\* The memory is as it should be in every stage but one: the list is then only
\* ordered.
LEMMA PMFacts ==
  ASSUME PMInv
  PROVE  /\ mm.nodes \in Seq(Nodes) /\ mm.cursor \in 0 .. Len(mm.nodes) /\ Len(mm.nodes) \in Nat
         /\ Agree(mm, host) /\ BrkNearRegion /\ (stage # "spoiled" => Sound(mm))
<1>1. CASE Live
  BY <1>1, FullNodesFacts DEF Live, MemOK, Sound
<1>2. CASE Spoilt
  BY <1>2 DEF Spoilt
<1> QED
  BY <1>1, <1>2 DEF PMInv

\* The state has its type, whatever mm_unmap_cb cut and whatever the lengths
\* that the sandbox passed round to.
THEOREM TypeHolds == Spec => []TypeOK
<1>1. PMInv => TypeOK
  <2> SUFFICES ASSUME PMInv PROVE TypeOK
    OBVIOUS
  <2>1. mm.nodes \in Seq(Nodes) /\ mm.cursor \in Int /\ host \in [Pages -> Infos \cup {Reserved}]
    BY PMFacts DEF Agree
  <2>2. /\ brksize \in 0 .. brkmaxsize /\ nseg \in 0 .. Len(Segments) /\ stage \in Stages
        /\ (stack # NoStack) = (stage = "created") /\ zeroed \subseteq Pages
    <3>1. CASE Live
      BY <3>1 DEF Live, ProcOK
    <3>2. CASE Spoilt
      BY <3>2 DEF Spoilt, Stages
    <3> QED
      BY <3>1, <3>2 DEF PMInv
  <2> QED
    BY <2>1, <2>2 DEF TypeOK
<1> QED
  BY <1>1, PMHolds, PTL

\* The list stays sorted, without overlap and inside the box and the cursor never
\* points to a freed node, after any lengths; and unless a length that rounds up
\* to no page has put an empty node in, no node is empty and the assertions of
\* mm_mapat_cb hold for every range of at least one page.
THEOREM ListHolds == Spec => []ListSound
<1>1. PMInv => ListSound
  <2> SUFFICES ASSUME PMInv PROVE ListSound
    OBVIOUS
  <2>1. mm.cursor \in 0 .. Len(mm.nodes)
    BY PMFacts
  <2>2. ASSUME NEW k \in DOMAIN mm.nodes
        PROVE  /\ End(mm.nodes[k]) <= NPages
               /\ k < Len(mm.nodes) => End(mm.nodes[k]) <= mm.nodes[k + 1].base
    <3>1. CASE Live
      <4>1. Sound(mm) /\ DOMAIN mm.nodes = 1 .. Len(mm.nodes) /\ Len(mm.nodes) \in Nat
        BY <3>1 DEF Live, MemOK, Sound
      <4>2. k < Len(mm.nodes) => k + 1 \in DOMAIN mm.nodes /\ k < k + 1
        BY <4>1
      <4> QED
        BY <4>1, <4>2 DEF Sound, Listing
    <3>2. CASE Spoilt
      BY <3>2 DEF Spoilt
    <3> QED
      BY <3>1, <3>2 DEF PMInv
  <2>3. ASSUME stage # "spoiled", NEW k \in DOMAIN mm.nodes PROVE mm.nodes[k].len # 0
    BY <2>3, PMFacts DEF Sound, Listing
  <2>4. ASSUME stage # "spoiled", NEW a \in Pages, NEW len \in 1 .. NPages, a + len <= NPages
        PROVE  mm_mapat_cb(mm, a, len, "fixed").assert
    <3>1. Sound(mm) /\ a \in Nat /\ len \in Nat \ {0} /\ "fixed" \in Infos
      BY <2>4, PMFacts, NPagesAssumption DEF Pages, Infos
    <3>2. Replaced(mm_mapat_cb(mm, a, len, "fixed"), mm, a, len, "fixed")
      BY <2>4, <3>1, MapAtFacts
    <3> QED
      BY <3>2 DEF Replaced
  <2> QED
    BY <2>1, <2>2, <2>3, <2>4 DEF ListSound
<1> QED
  BY <1>1, PMHolds, PTL

\* The tracker and the host kernel agree on every page, also after an mmap that
\* the host refused.
THEOREM TrackerHolds == Spec => []TrackerMatchesHost
<1>1. PMInv => TrackerMatchesHost
  <2> SUFFICES ASSUME PMInv, NEW p \in Pages PROVE Tracked(p) = host[p]
    BY DEF TrackerMatchesHost
  <2>1. mm.nodes \in Seq(Nodes) /\ Agree(mm, host) /\ p \in Int
    BY PMFacts, PagesInt
  <2>2. CASE Tracked(p) = Reserved
    BY <2>1, <2>2, TrackedFacts, AgreeFree
  <2>3. CASE Tracked(p) # Reserved
    <3>1. Tracked(p) \in Infos /\ Covers(mm.nodes, p, Tracked(p))
      BY <2>1, <2>3, TrackedFacts
    <3> QED
      BY <2>1, <3>1 DEF Agree
  <2> QED
    BY <2>2, <2>3
<1> QED
  BY <1>1, PMHolds, PTL

\* mm_mapany finds room for at least one page exactly when a run of free pages
\* behind the first mapping is long enough, wherever the cursor is.
THEOREM FirstFitHolds == Spec => []FirstFitComplete
<1>1. PMInv => FirstFitComplete
  <2> SUFFICES ASSUME PMInv PROVE FirstFitComplete
    OBVIOUS
  <2>1. CASE stage = "spoiled"
    BY <2>1 DEF FirstFitComplete
  <2>2. CASE stage # "spoiled"
    BY <2>2, PMFacts, FitComplete
  <2> QED
    BY <2>1, <2>2
<1> QED
  BY <1>1, PMHolds, PTL

\* The heap leaves the region that proc_load set aside by at most one page.
THEOREM BrkRegionHolds == Spec => []BrkNearRegion
<1>1. PMInv => BrkNearRegion
  BY PMFacts
<1> QED
  BY <1>1, PMHolds, PTL

\* A break that moves up keeps the heap's contents and gives fresh pages for all
\* that is new.
THEOREM BrkHolds == Spec => BrkKeepsHeap
<1>1. PMInv /\ [Next]_vars =>
        [brksize' > brksize => /\ zeroed' \cap HeapPages(brksize) = {}
                               /\ HeapPages(brksize') \ HeapPages(brksize) \subseteq zeroed']_vars
  BY NextBrk DEF BrkKept
<1> QED
  BY <1>1, PMHolds, PTL DEF Spec, BrkKeepsHeap

\* The pages of the box implement the abstract page map.
THEOREM PageMapHolds == Spec => ImplementsPageMap
<1>1. Init => PM!Init
  BY DEF Init, PM!Init
<1>2. PMInv /\ [Next]_vars => [PM!Next]_host
  BY NextPM DEF PageStep
<1> QED
  BY <1>1, <1>2, PMHolds, PTL DEF Spec, ImplementsPageMap, PM!Spec
=============================================================================
