---------------------------- MODULE FilesProofs ----------------------------
(***************************************************************************)
(* Proofs about module Files for any number of sandboxes, of slots and of  *)
(* files, for every path and every limit.                                  *)
(***************************************************************************)
EXTENDS Files, FiniteSetTheorems, WellFoundedInduction, TLAPS

-----------------------------------------------------------------------------
(* Numbers and positions *)

\* A set of natural numbers that is not empty has a least one: what Min gives.
LEMMA LeastOf ==
  ASSUME NEW S, S \subseteq Nat, S # {}
  PROVE  Min(S) \in S /\ \A y \in S : Min(S) <= y
<1> DEFINE R == {ss \in Nat \X Nat : ss[1] < ss[2]}
<1>1. IsWellFoundedOn(R, Nat)
  <2>1. OpToRel(<, Nat) = R
    BY DEF OpToRel
  <2> QED
    BY <2>1, NatLessThanWellFounded
<1>2. PICK x \in S : \A y \in S : <<y, x>> \notin R
  BY <1>1, WFMin
<1>3. ASSUME NEW y \in S PROVE x <= y
  <2>1. x \in Nat /\ y \in Nat /\ <<y, x>> \notin R
    BY <1>2
  <2>2. ~(y < x)
    BY <2>1
  <2> QED
    BY <2>1, <2>2
<1> QED
  BY <1>3 DEF Min

\* The smaller and the larger of two numbers.
LEMMA OfTwo ==
  ASSUME NEW a \in Int, NEW b \in Int
  PROVE  /\ Max({a, b}) = IF a >= b THEN a ELSE b
         /\ Min({a, b}) = IF a <= b THEN a ELSE b
<1>1. CASE a >= b
  <2>1. a \in {a, b} /\ \A y \in {a, b} : a >= y
    BY <1>1
  <2>2. Max({a, b}) \in {a, b} /\ \A y \in {a, b} : Max({a, b}) >= y
    BY <2>1 DEF Max
  <2>3. b \in {a, b} /\ \A y \in {a, b} : b <= y
    BY <1>1
  <2>4. Min({a, b}) \in {a, b} /\ \A y \in {a, b} : Min({a, b}) <= y
    BY <2>3 DEF Min
  <2> QED
    BY <1>1, <2>2, <2>4
<1>2. CASE b >= a
  <2>1. b \in {a, b} /\ \A y \in {a, b} : b >= y
    BY <1>2
  <2>2. Max({a, b}) \in {a, b} /\ \A y \in {a, b} : Max({a, b}) >= y
    BY <2>1 DEF Max
  <2>3. a \in {a, b} /\ \A y \in {a, b} : a <= y
    BY <1>2
  <2>4. Min({a, b}) \in {a, b} /\ \A y \in {a, b} : Min({a, b}) <= y
    BY <2>3 DEF Min
  <2> QED
    BY <1>2, <2>2, <2>4
<1> QED
  BY <1>1, <1>2

\* Every rank from 1 to the number of elements is that of an element: what is
\* kept of a path is a sequence of its segments.
LEMMA NthExists ==
  ASSUME NEW K, K \subseteq Nat, IsFiniteSet(K), NEW i \in 1 .. Cardinality(K)
  PROVE  Nth(K, i) \in K
<1> DEFINE n       == Cardinality(K)
           Upto(k) == {j \in K : j <= k}
           rank    == [k \in K |-> Cardinality(Upto(k))]
<1>1. n \in Nat
  BY FS_CardinalityType
<1>2. ASSUME NEW k \in K PROVE IsFiniteSet(Upto(k)) /\ Cardinality(Upto(k)) \in 1 .. n
  <2>1. Upto(k) \in SUBSET K
    OBVIOUS
  <2>2. IsFiniteSet(Upto(k)) /\ Cardinality(Upto(k)) <= n
    BY <2>1, FS_Subset
  <2>3. k \in Upto(k)
    OBVIOUS
  <2>4. Cardinality(Upto(k)) # 0
    BY <2>2, <2>3, FS_EmptySet
  <2>5. Cardinality(Upto(k)) \in Nat
    BY <2>2, FS_CardinalityType
  <2> HIDE DEF n
  <2> QED
    BY <1>1, <2>2, <2>4, <2>5
<1>3. rank \in [K -> 1 .. n]
  BY <1>2
<1>4. ASSUME NEW k \in K, NEW l \in K, k < l PROVE rank[k] # rank[l]
  <2>1. Upto(k) \in SUBSET Upto(l) /\ Upto(k) # Upto(l)
    <3>1. l \in Upto(l) /\ l \notin Upto(k)
      BY <1>4
    <3>2. \A j \in Upto(k) : j \in Upto(l)
      BY <1>4
    <3> QED
      BY <3>1, <3>2
  <2>2. IsFiniteSet(Upto(l))
    BY <1>2
  <2>3. Cardinality(Upto(k)) # Cardinality(Upto(l))
    BY <2>1, <2>2, FS_Subset
  <2> QED
    BY <2>3
<1>5. rank \in Injection(K, 1 .. n)
  <2>1. ASSUME NEW k \in K, NEW l \in K, rank[k] = rank[l] PROVE k = l
    <3>1. k \in Nat /\ l \in Nat
      OBVIOUS
    <3>2. ~(k < l) /\ ~(l < k)
      <4> HIDE DEF rank
      <4> QED
        BY <1>4, <2>1
    <3> QED
      BY <3>1, <3>2
  <2> HIDE DEF rank
  <2> QED
    BY <1>3, <2>1 DEF Injection, IsInjective
<1>6. IsFiniteSet(1 .. n) /\ Cardinality(1 .. n) = n
  BY <1>1, FS_Interval
<1>7. rank \in Surjection(K, 1 .. n)
  <2> HIDE DEF rank
  <2> QED
    BY <1>5, <1>6, FS_Injection
<1>8. PICK k \in K : rank[k] = i
  <2> HIDE DEF rank
  <2> QED
    BY <1>7 DEF Surjection
<1>9. Cardinality({j \in K : j <= k}) = i
  BY <1>8
<1> QED
  BY <1>9 DEF Nth

\* Joining two paths gives a path.
LEMMA JoinIsPath ==
  ASSUME NEW a \in Path, NEW b \in Path
  PROVE  cwk_path_join(a, b) \in Path
<1> DEFINE T    == Names \union {CWK_CURRENT, CWK_BACK}
           S    == SegmentsJoined(a, b)
           ab   == cwk_path_is_absolute(a)
           kept == {k \in DOMAIN S : ~cwk_path_segment_will_be_removed(S, k, ab)}
           out  == [i \in 1 .. Cardinality(kept) |-> S[Nth(kept, i)]]
<1>1. S \in Seq(T)
  BY DEF Path, SegmentsJoined, Segments, SegmentsWithoutRoot
<1>2. ab \in BOOLEAN
  BY DEF cwk_path_is_absolute, cwk_path_is_root_absolute, cwk_path_get_root, Path
<1>3. kept \subseteq Nat /\ IsFiniteSet(kept) /\ kept \subseteq DOMAIN S
  <2>1. DOMAIN S = 1 .. Len(S) /\ Len(S) \in Nat
    BY <1>1
  <2>2. IsFiniteSet(1 .. Len(S))
    BY <2>1, FS_Interval
  <2> HIDE DEF S
  <2>3. kept \in SUBSET (1 .. Len(S))
    BY <2>1
  <2> HIDE DEF kept
  <2>4. IsFiniteSet(kept)
    BY <2>2, <2>3, FS_Subset
  <2> QED
    BY <2>1, <2>3, <2>4
<1>4. out \in Seq(T)
  <2> HIDE DEF kept, S, T
  <2>1. Cardinality(kept) \in Nat
    BY <1>3, FS_CardinalityType
  <2>2. ASSUME NEW i \in 1 .. Cardinality(kept) PROVE S[Nth(kept, i)] \in T
    <3>1. Nth(kept, i) \in kept
      BY <1>3, NthExists
    <3>2. Nth(kept, i) \in DOMAIN S
      BY <1>3, <3>1
    <3> QED
      BY <1>1, <3>2
  <2> QED
    BY <2>1, <2>2
<1>5. cwk_path_join(a, b) =
        [abs |-> ab, segs |-> IF S # <<>> /\ out = <<>> /\ ~ab THEN <<CWK_CURRENT>> ELSE out]
  BY DEF cwk_path_join, cwk_path_join_and_normalize_multiple
<1>6. <<CWK_CURRENT>> \in Seq(T)
  OBVIOUS
<1>7. Path = [abs : BOOLEAN, segs : Seq(T)]
  BY DEF Path
<1> HIDE DEF S, ab, out, T
<1> QED
  BY <1>2, <1>4, <1>5, <1>6, <1>7

-----------------------------------------------------------------------------
(* The invariant *)

\* The slots of one sandbox that hold f.
In(p, f) == {i \in Slots : table[p][i] = f}

\* What holds of a structure r that is in the slots S of its owner, whose state
\* is st: peak has seen as many slots; refs counts them; as long as the owner
\* is up it is open, and in a slot until sys_close takes it; afterwards it is
\* in none; and freed memory is in a slot only after a dup or a failed pipe.
FileOK(r, st, S) ==
  LET n         == Cardinality(S)
      uncounted == r.kind # "opened"
  IN  /\ n <= r.peak
      /\ r.mem = "live" /\ r.clean /\ n # 0 => r.refs + (IF uncounted THEN 1 ELSE 0) = n
      /\ st = "up" => r.open
      /\ st = "up" /\ ~r.taken /\ ~r.half => S # {}
      /\ st = "exited" => S = {} /\ (r.open => r.taken \/ r.half)
      /\ S # {} => \/ r.mem = "live" /\ r.open
                   \/ r.half
                   \/ r.peak >= IF uncounted THEN 3 ELSE 2

\* A structure is in no table but its owner's.
TableInv ==
  /\ \A p \in Procs, i \in Slots : table[p][i] # NoFile => file[table[p][i]].owner = p
  /\ \A f \in DOMAIN file : FileOK(file[f], state[file[f].owner], In(file[f].owner, f))

\* Before the sandboxes run none has exited; the directories are paths.
StartInv ==
  /\ ~started => \A p \in Procs : state[p] = "up"
  /\ cwd \in [Procs -> Path] /\ DOMAIN where = Procs

\* A call under way on a file of this kind, whose offset is now o: the offset is
\* where the bytes moved so far put it.
CallOK(c, kind, o) ==
  /\ c.pc = "vec" => c.op # "pread" /\ c.n >= 0 /\ c.left >= 1 /\ c.n + c.left <= MaxIov
  /\ c.pc \in {"seek", "read", "back"} => c.op = "pread"
  /\ kind = "opened" =>
       /\ c.pc = "vec" => o = c.start + c.n
       /\ c.pc = "ret" /\ c.op = "pread" => o = c.start
       /\ c.pc = "ret" /\ c.op # "pread" /\ c.n >= 0 => o = c.start + c.n

\* Its sandbox is up, and the slot it began with is still in use.
CallInv ==
  \A p \in Procs :
    LET f == table[p][call[p].fd]
    IN  call[p].pc # "idle" =>
          /\ wrong = "no" /\ started /\ state[p] = "up" /\ f # NoFile
          /\ CallOK(call[p], file[f].kind, off[f])

FilesInv == TypeOK /\ TableInv /\ StartInv /\ CallInv /\ FaultHasCause

-----------------------------------------------------------------------------
(* What the invariant says of one slot and one structure *)

\* The slots of a sandbox, and the ones that hold a structure, are finitely many.
LEMMA SlotsFinite ==
  /\ IsFiniteSet(Slots) /\ Cardinality(Slots) = NOFILE
  /\ \A S : S \subseteq Slots => IsFiniteSet(S) /\ Cardinality(S) \in Nat /\ Cardinality(S) <= NOFILE
<1>1. NOFILE \in Nat /\ 0 \in Int /\ NOFILE - 1 \in Int
  BY FilesAssumption
<1>2. IsFiniteSet(Slots) /\ Cardinality(Slots) = NOFILE
  BY <1>1, FS_Interval DEF Slots
<1>3. ASSUME NEW S, S \subseteq Slots
      PROVE  IsFiniteSet(S) /\ Cardinality(S) \in Nat /\ Cardinality(S) <= NOFILE
  <2>1. S \in SUBSET Slots
    BY <1>3
  <2>2. IsFiniteSet(S) /\ Cardinality(S) <= NOFILE
    BY <1>2, <2>1, FS_Subset
  <2> QED
    BY <2>2, FS_CardinalityType
<1> QED
  BY <1>2, <1>3

\* A slot in use: the structure it holds.
LEMMA SlotFile ==
  ASSUME FilesInv, NEW p \in Procs, NEW i \in Slots, table[p][i] # NoFile
  PROVE  LET f == table[p][i]
         IN  /\ f \in DOMAIN file /\ f \in 1 .. nfiles /\ f \in FileIds
             /\ file[f] \in FileRecord /\ file[f].owner = p
             /\ i \in In(p, f) /\ In(p, f) \subseteq Slots
             /\ FileOK(file[f], state[p], In(p, f))
<1>1. table \in [Procs -> [Slots -> 0 .. nfiles]] /\ nfiles \in 0 .. MaxFiles
      /\ file \in Seq(FileRecord) /\ Len(file) = nfiles
  BY DEF FilesInv, TypeOK
<1> DEFINE f == table[p][i]
<1>2. f \in 0 .. nfiles /\ f # 0
  BY <1>1 DEF NoFile
<1>3. f \in 1 .. nfiles /\ f \in FileIds /\ DOMAIN file = 1 .. nfiles
  BY <1>1, <1>2, FilesAssumption DEF FileIds
<1>4. file[f] \in FileRecord
  <2> HIDE DEF f
  <2> QED
    BY <1>1, <1>3
<1>5. file[f].owner = p
  BY DEF FilesInv, TableInv
<1>6. FileOK(file[f], state[p], In(p, f))
  <2> HIDE DEF f
  <2> QED
    BY <1>3, <1>5 DEF FilesInv, TableInv
<1> QED
  BY <1>3, <1>4, <1>5, <1>6 DEF In

\* A structure.
LEMMA KnownFile ==
  ASSUME FilesInv, NEW f \in DOMAIN file
  PROVE  /\ f \in 1 .. nfiles /\ f \in FileIds /\ f # NoFile
         /\ file[f] \in FileRecord /\ file[f].owner \in Procs
         /\ FileOK(file[f], state[file[f].owner], In(file[f].owner, f))
<1>1. /\ nfiles \in 0 .. MaxFiles /\ file \in Seq(FileRecord) /\ Len(file) = nfiles
  BY DEF FilesInv, TypeOK
<1>2. f \in 1 .. nfiles /\ f \in FileIds /\ f # NoFile
  BY <1>1, FilesAssumption DEF FileIds, NoFile
<1>3. file[f] \in FileRecord
  BY <1>1
<1>4. file[f].owner \in Procs
  BY <1>3 DEF FileRecord
<1> QED
  BY <1>2, <1>3, <1>4 DEF FilesInv, TableInv

\* The pairs that hold a structure are the slots of its owner.
LEMMA SlotsOfOwner ==
  ASSUME FilesInv, NEW f \in DOMAIN file
  PROVE  /\ Cardinality(SlotsOf(f)) = Cardinality(In(file[f].owner, f))
         /\ SlotsOf(f) = {} <=> In(file[f].owner, f) = {}
<1> DEFINE p == file[f].owner
<1>1. p \in Procs /\ f # NoFile
  BY KnownFile
<1>2. \A q \in Procs, i \in Slots : table[q][i] = f => q = p
  BY <1>1 DEF FilesInv, TableInv
<1> HIDE DEF p
<1>3. SlotsOf(f) = {p} \X In(p, f)
  <2>1. ASSUME NEW s \in SlotsOf(f) PROVE s \in {p} \X In(p, f)
    BY <1>2 DEF SlotsOf, In
  <2>2. ASSUME NEW s \in {p} \X In(p, f) PROVE s \in SlotsOf(f)
    BY <1>1 DEF SlotsOf, In
  <2> QED
    BY <2>1, <2>2
<1>4. IsFiniteSet(In(p, f))
  BY SlotsFinite DEF In
<1>5. Cardinality({p} \X In(p, f)) = Cardinality(In(p, f))
  <2>1. IsFiniteSet({p}) /\ Cardinality({p}) = 1
    BY FS_Singleton
  <2>2. Cardinality({p} \X In(p, f)) = Cardinality({p}) * Cardinality(In(p, f))
    BY <1>4, <2>1, FS_Product
  <2>3. Cardinality(In(p, f)) \in Nat
    BY <1>4, FS_CardinalityType
  <2> QED
    BY <2>1, <2>2, <2>3
<1>6. Cardinality(SlotsOf(f)) = Cardinality(In(p, f))
  BY <1>3, <1>5, Zenon
<1>7. SlotsOf(f) = {} <=> In(p, f) = {}
  <2>1. ASSUME NEW i \in In(p, f) PROVE <<p, i>> \in SlotsOf(f)
    BY <1>3
  <2> QED
    BY <1>3, <2>1
<1> QED
  BY <1>6, <1>7 DEF p

-----------------------------------------------------------------------------
(* What the functions do to one structure *)

\* filefree, for a structure that is in the slots S and leaves slot i.  Freed
\* memory stays behind only when there were more slots than one, or more than
\* two for a file that entered uncounted.
LEMMA CloseFile ==
  ASSUME NEW r \in FileRecord, NEW S, S \subseteq Slots, NEW i \in S,
         FileOK(r, "up", S), r.mem = "live", r.clean
  PROVE  /\ filefree(r) \in FileRecord /\ FileOK(filefree(r), "up", S \ {i})
         /\ filefree(r).owner = r.owner /\ filefree(r).kind = r.kind
<1> DEFINE m == (r.refs - 1) % RefMod
           u == IF r.kind # "opened" THEN 1 ELSE 0
           k == Cardinality(S)
           q == filefree(r)
<1>1. /\ r.refs \in 0 .. RefMod - 1 /\ r.peak \in 0 .. NOFILE
      /\ RefMod \in Nat /\ NOFILE \in Nat /\ RefMod > NOFILE /\ NOFILE # 0
  BY FilesAssumption DEF FileRecord
<1>2. /\ m \in 0 .. RefMod - 1 /\ (m = 0 <=> r.refs = 1) /\ (r.refs # 0 => m = r.refs - 1)
  <2>1. CASE r.refs = 0
    <3>1. (0 - 1) % RefMod = RefMod - 1
      BY <1>1
    <3> QED
      BY <1>1, <2>1, <3>1
  <2>2. CASE r.refs # 0
    BY <1>1, <2>2
  <2> QED
    BY <2>1, <2>2
<1>3. IsFiniteSet(S) /\ k \in Nat /\ k # 0
  BY SlotsFinite, FS_EmptySet
<1>4. Cardinality(S \ {i}) = k - 1 /\ (S \ {i} # {} <=> k - 1 # 0)
  <2>1. IsFiniteSet(S \ {i}) /\ Cardinality(S \ {i}) = k - 1
    BY <1>3, FS_RemoveElement
  <2> QED
    BY <2>1, FS_EmptySet
<1>5. k <= r.peak /\ r.refs + u = k /\ r.open /\ u \in {0, 1}
  BY <1>3 DEF FileOK
<1>6. /\ q.kind = r.kind /\ q.owner = r.owner /\ q.open = r.open /\ q.clean = r.clean
      /\ q.peak = r.peak /\ q.half = r.half /\ q.refs = m /\ q.taken
      /\ q.mem = IF m = 0 THEN "live" ELSE "freed"
      /\ q \in FileRecord
  <2>1. q = [r EXCEPT !.refs = m, !.mem = IF m = 0 THEN r.mem ELSE "freed", !.taken = TRUE]
    BY DEF filefree
  <2> HIDE DEF m, q
  <2> QED
    BY <1>2, <2>1 DEF FileRecord
<1>7. FileOK(q, "up", S \ {i})
  <2> HIDE DEF m, q, k
  <2>1. k - 1 <= q.peak
    BY <1>1, <1>3, <1>5, <1>6
  <2>2. q.mem = "live" /\ q.clean /\ k - 1 # 0 => q.refs + u = k - 1
    BY <1>1, <1>2, <1>3, <1>5, <1>6
  <2>3. k - 1 # 0 => (q.mem = "live" /\ q.open) \/ q.half \/ q.peak >= 2 + u
    BY <1>1, <1>2, <1>3, <1>5, <1>6
  <2>4. 2 + u = IF q.kind # "opened" THEN 3 ELSE 2
    BY <1>6
  <2>5. u = IF q.kind # "opened" THEN 1 ELSE 0
    BY <1>6
  <2> HIDE DEF u
  <2> QED
    BY <1>4, <1>5, <1>6, <2>1, <2>2, <2>3, <2>4, <2>5 DEF FileOK
<1> QED
  BY <1>6, <1>7

\* One slot more, counted.
Counted(r, n) == [[r EXCEPT !.peak = Max({@, n + 1})] EXCEPT !.refs = (@ + 1) % RefMod]

\* fdfdup2, for a structure that is in the slots S and enters slot i.  refs does
\* not wrap: it is at most the number of slots.
LEMMA DupFile ==
  ASSUME NEW r \in FileRecord, NEW S, S \subseteq Slots, S # {}, NEW i \in Slots, i \notin S,
         FileOK(r, "up", S), r.mem = "live", r.clean
  PROVE  LET q == Counted(r, Cardinality(S))
         IN  /\ q \in FileRecord /\ FileOK(q, "up", S \cup {i})
             /\ q.owner = r.owner /\ q.kind = r.kind
<1> DEFINE k == Cardinality(S)
           u == IF r.kind # "opened" THEN 1 ELSE 0
           q == Counted(r, k)
           pk == Max({r.peak, k + 1})
           rf == (r.refs + 1) % RefMod
<1>1. /\ r.refs \in 0 .. RefMod - 1 /\ r.peak \in 0 .. NOFILE
      /\ RefMod \in Nat /\ NOFILE \in Nat /\ RefMod > NOFILE
  BY FilesAssumption DEF FileRecord
<1>2. IsFiniteSet(S) /\ k \in Nat /\ k # 0
  BY SlotsFinite, FS_EmptySet
<1>3. Cardinality(S \cup {i}) = k + 1 /\ k + 1 <= NOFILE /\ S \cup {i} # {}
  <2>1. Cardinality(S \cup {i}) = k + 1
    BY <1>2, FS_AddElement
  <2>2. S \cup {i} \subseteq Slots
    OBVIOUS
  <2>3. Cardinality(S \cup {i}) <= NOFILE
    BY <2>2, SlotsFinite
  <2> QED
    BY <2>1, <2>3
<1>4. k <= r.peak /\ r.refs + u = k /\ r.open /\ u \in {0, 1}
  BY <1>2 DEF FileOK
<1>5. pk \in 0 .. NOFILE /\ k + 1 <= pk
  <2>1. pk = IF r.peak >= k + 1 THEN r.peak ELSE k + 1
    BY <1>1, <1>2, OfTwo
  <2> HIDE DEF k, pk
  <2> QED
    BY <1>1, <1>2, <1>3, <2>1
<1>6. rf = r.refs + 1 /\ rf \in 0 .. RefMod - 1
  <2> HIDE DEF k
  <2> QED
    BY <1>1, <1>2, <1>3, <1>4
<1>7. /\ q.kind = r.kind /\ q.owner = r.owner /\ q.open = r.open /\ q.clean = r.clean
      /\ q.peak = pk /\ q.half = r.half /\ q.refs = rf /\ q.taken = r.taken /\ q.mem = r.mem
      /\ q \in FileRecord
  <2>1. q = [[r EXCEPT !.peak = pk] EXCEPT !.refs = rf]
    BY DEF Counted
  <2> HIDE DEF pk, rf, q
  <2> QED
    BY <1>5, <1>6, <2>1 DEF FileRecord
<1>8. FileOK(q, "up", S \cup {i})
  <2> HIDE DEF q, k, pk, rf
  <2>1. k + 1 <= q.peak /\ q.refs + u = k + 1
    BY <1>1, <1>2, <1>4, <1>5, <1>6, <1>7
  <2>2. u = IF q.kind # "opened" THEN 1 ELSE 0
    BY <1>7
  <2> HIDE DEF u
  <2> QED
    BY <1>3, <1>4, <1>7, <2>1, <2>2 DEF FileOK
<1> QED
  BY <1>7, <1>8

\* fdfree, for a structure the sandbox had in its table.
LEMMA ExitFile ==
  ASSUME NEW r \in FileRecord, NEW q, q = [r EXCEPT !.open = FALSE, !.mem = "freed"]
  PROVE  q \in FileRecord /\ q.owner = r.owner /\ q.kind = r.kind /\ FileOK(q, "exited", {})
<1>1. /\ q \in FileRecord /\ q.owner = r.owner /\ q.kind = r.kind /\ q.mem = "freed"
      /\ ~q.open /\ q.peak = r.peak
  BY DEF FileRecord
<1>2. r.peak \in Nat
  BY FilesAssumption DEF FileRecord
<1>3. Cardinality({}) = 0
  BY FS_EmptySet
<1> QED
  BY <1>1, <1>2, <1>3 DEF FileOK

\* And for one it had not: sys_close took it, or it never was in the table.
LEMMA LeftFile ==
  ASSUME NEW r \in FileRecord, FileOK(r, "up", {})
  PROVE  FileOK(r, "exited", {})
BY DEF FileOK, FileRecord

\* A new structure.
LEMMA NewFile ==
  ASSUME NEW kind \in Kinds, NEW path \in OpenPaths \union {NoPath}, NEW p \in Procs
  PROVE  LET r == filenew(kind, path, p)
         IN  /\ r \in FileRecord /\ r.kind = kind /\ r.mem = "live" /\ r.refs = 0 /\ r.open
             /\ r.clean /\ r.owner = p /\ r.peak = 1 /\ ~r.taken /\ ~r.half
<1>1. 0 \in 0 .. RefMod - 1 /\ 1 \in 0 .. NOFILE
  BY FilesAssumption
<1> QED
  BY <1>1 DEF filenew, FileRecord

-----------------------------------------------------------------------------
(* The start *)

\* The standard files are numbered sandbox by sandbox.
LEMMA StdNumber ==
  ASSUME NEW a \in Nat, NEW b \in Nat, NEW i \in 0 .. NStd - 1, NEW j \in 0 .. NStd - 1,
         a * NStd + i = b * NStd + j
  PROVE  a = b /\ i = j
<1>1. NStd \in Nat
  BY FilesAssumption
<1>2. ASSUME NEW x \in Nat, NEW y \in Nat, x < y PROVE x * NStd + NStd <= y * NStd
  <2>1. (x + 1) * NStd <= y * NStd
    BY <1>1, <1>2
  <2>2. (x + 1) * NStd = x * NStd + NStd
    BY <1>1
  <2> QED
    BY <2>1, <2>2
<1>3. a * NStd \in Nat /\ b * NStd \in Nat
  BY <1>1
<1>4. ~(a < b)
  <2> SUFFICES ASSUME a < b PROVE FALSE
    OBVIOUS
  <2>1. a * NStd + NStd <= b * NStd
    BY <1>2
  <2> QED
    BY <1>1, <1>3, <2>1
<1>5. ~(b < a)
  <2> SUFFICES ASSUME b < a PROVE FALSE
    OBVIOUS
  <2>1. b * NStd + NStd <= a * NStd
    BY <1>2
  <2> QED
    BY <1>1, <1>3, <2>1
<1>6. a = b
  BY <1>4, <1>5
<1> QED
  BY <1>1, <1>3, <1>6

LEMMA StdOwner ==
  ASSUME NEW f \in 1 .. NProc * NStd
  PROVE  /\ (f - 1) \div NStd + 1 \in Procs /\ (f - 1) % NStd \in 0 .. NStd - 1
         /\ (f - 1) \div NStd \in Nat
         /\ f = ((f - 1) \div NStd) * NStd + ((f - 1) % NStd) + 1
<1>1. NStd \in Nat /\ NProc \in Nat
  BY FilesAssumption
<1>2. NProc * NStd \in Nat /\ NStd # 0
  BY <1>1
<1> DEFINE q == (f - 1) \div NStd
           m == (f - 1) % NStd
<1>3. q \in Int /\ m \in 0 .. NStd - 1 /\ f - 1 = NStd * q + m
  BY <1>1, <1>2
<1> HIDE DEF q, m
<1>4. q >= 0
  <2> SUFFICES ASSUME q <= -1 PROVE FALSE
    BY <1>3
  <2>1. NStd * q <= NStd * (-1)
    BY <1>1, <1>3
  <2> QED
    BY <1>1, <1>2, <1>3, <2>1
<1>5. q < NProc
  <2> SUFFICES ASSUME NProc <= q PROVE FALSE
    BY <1>1, <1>3
  <2>1. NStd * NProc <= NStd * q
    BY <1>1, <1>3
  <2>2. NStd * NProc = NProc * NStd
    BY <1>1
  <2> QED
    BY <1>1, <1>2, <1>3, <2>1, <2>2
<1>6. NStd * q = q * NStd
  BY <1>1, <1>3
<1>7. f = q * NStd + m + 1
  BY <1>1, <1>3, <1>6
<1> QED
  BY <1>1, <1>3, <1>4, <1>5, <1>7 DEF q, m, Procs

\* Where fdinit puts them.
LEMMA StdSlots ==
  ASSUME NEW p \in Procs, NEW i \in Slots
  PROVE  /\ fdinit(p)[i] \in 0 .. NProc * NStd
         /\ fdinit(p)[i] # NoFile =>
              /\ i \in 0 .. NStd - 1 /\ fdinit(p)[i] = (p - 1) * NStd + i + 1
              /\ fdinit(p)[i] \in 1 .. NProc * NStd
<1>1. NStd \in Nat /\ NProc \in Nat /\ p \in 1 .. NProc /\ i \in Nat /\ NOFILE \in Nat
  BY FilesAssumption DEF Procs, Slots
<1>2. fdinit(p)[i] = IF i < NStd THEN (p - 1) * NStd + i + 1 ELSE 0
  BY DEF fdinit, NoFile
<1>3. (p - 1) * NStd + NStd <= NProc * NStd /\ (p - 1) * NStd \in Nat
  <2>1. p * NStd <= NProc * NStd
    BY <1>1
  <2>2. p * NStd = (p - 1) * NStd + NStd
    BY <1>1
  <2> QED
    BY <1>1, <2>1, <2>2
<1>4. NProc * NStd \in Nat
  BY <1>1
<1> QED
  BY <1>1, <1>2, <1>3, <1>4 DEF NoFile

LEMMA InitFiles == Init => FilesInv
<1> SUFFICES ASSUME Init PROVE FilesInv
  OBVIOUS
<1> DEFINE N    == NProc * NStd
           o(f) == (f - 1) \div NStd + 1
           F    == [f \in 1 .. N |-> filenew("std", NoPath, o(f))]
<1>0. /\ started = FALSE /\ state = [p \in Procs |-> "up"]
      /\ table = [p \in Procs |-> fdinit(p)] /\ nfiles = N /\ file = F
      /\ off = [f \in FileIds |-> 0] /\ call = [p \in Procs |-> Idle]
      /\ cwd = [p \in Procs |-> NoPath] /\ where = [p \in Procs |-> <<>>]
      /\ wrong = "no" /\ blame = NoFile
  BY DEF Init
<1>1. N \in Nat /\ N <= MaxFiles
  BY FilesAssumption
<1>2. ASSUME NEW f \in 1 .. N
      PROVE  /\ file[f] \in FileRecord /\ file[f].kind = "std" /\ file[f].mem = "live"
             /\ file[f].refs = 0 /\ file[f].open /\ file[f].owner = o(f)
             /\ file[f].peak = 1 /\ o(f) \in Procs
  <2>1. o(f) \in Procs
    BY StdOwner
  <2>2. file[f] = filenew("std", NoPath, o(f))
    BY <1>0
  <2> QED
    BY <2>1, <2>2, NewFile DEF Kinds
<1>3. file \in Seq(FileRecord) /\ Len(file) = nfiles /\ DOMAIN file = 1 .. N
  BY <1>0, <1>1, <1>2
<1>4. table \in [Procs -> [Slots -> 0 .. nfiles]]
  <2>1. ASSUME NEW p \in Procs PROVE fdinit(p) \in [Slots -> 0 .. N]
    <3>1. fdinit(p) = [i \in Slots |-> fdinit(p)[i]]
      BY DEF fdinit
    <3> QED
      BY <3>1, StdSlots
  <2> QED
    BY <1>0, <2>1
<1>5. NoPath \in Path /\ Idle \in CallRecord
  <2>1. 0 \in Slots /\ 0 \in 0 .. MaxIov /\ 0 \in -1 .. MaxIov /\ 0 \in 0 .. MaxOff
    BY FilesAssumption DEF Slots
  <2> QED
    BY <2>1 DEF NoPath, Path, Idle, CallRecord
<1>6. TypeOK
  <2>1. off \in [FileIds -> 0 .. MaxOff] /\ call \in [Procs -> CallRecord]
    BY <1>0, <1>5, FilesAssumption
  <2>2. \A p \in Procs : Len(where[p]) <= MaxDepth /\ cwd[p] \in Path
    BY <1>0, <1>5, FilesAssumption
  <2>3. nfiles \in 0 .. MaxFiles /\ blame \in 0 .. nfiles
    BY <1>0, <1>1, FilesAssumption DEF NoFile
  <2> QED
    BY <1>0, <1>3, <1>4, <2>1, <2>2, <2>3 DEF TypeOK
<1>7. ASSUME NEW p \in Procs, NEW i \in Slots, table[p][i] # NoFile
      PROVE  /\ table[p][i] \in 1 .. N /\ o(table[p][i]) = p
             /\ i = (table[p][i] - 1) % NStd
  <2> DEFINE f == table[p][i]
  <2>1. i \in 0 .. NStd - 1 /\ f = (p - 1) * NStd + i + 1 /\ f \in 1 .. N
    BY <1>0, <1>7, StdSlots
  <2>2. /\ o(f) \in Procs /\ (f - 1) % NStd \in 0 .. NStd - 1 /\ (f - 1) \div NStd \in Nat
        /\ f = ((f - 1) \div NStd) * NStd + ((f - 1) % NStd) + 1
    BY <2>1, StdOwner
  <2> DEFINE q == (f - 1) \div NStd
             m == (f - 1) % NStd
             a == p - 1
  <2>3. a \in Nat /\ NStd \in Nat
    BY FilesAssumption DEF Procs
  <2> HIDE DEF q, m, a
  <2>4. a * NStd + i = q * NStd + m
    <3>1. f = a * NStd + i + 1 /\ f = q * NStd + m + 1 /\ q \in Nat /\ m \in 0 .. NStd - 1
      BY <2>1, <2>2 DEF a, q, m
    <3>2. a * NStd \in Nat /\ q * NStd \in Nat
      BY <2>3, <3>1
    <3> HIDE DEF f
    <3> QED
      BY <2>1, <2>3, <3>1, <3>2
  <2>5. a = q /\ i = m
    <3>1. q \in Nat /\ m \in 0 .. NStd - 1
      BY <2>2 DEF q, m
    <3> QED
      BY <2>1, <2>3, <2>4, <3>1, StdNumber
  <2>6. o(f) = p
    <3>1. q + 1 = p
      BY <2>3, <2>5 DEF a, Procs
    <3> QED
      BY <3>1 DEF q
  <2> QED
    BY <2>1, <2>5, <2>6 DEF m
<1>8. TableInv
  <2>1. ASSUME NEW p \in Procs, NEW i \in Slots, table[p][i] # NoFile
        PROVE  file[table[p][i]].owner = p
    BY <1>2, <1>7, <2>1
  <2>2. ASSUME NEW f \in 1 .. N PROVE FileOK(file[f], state[file[f].owner], In(file[f].owner, f))
    <3> DEFINE p == o(f)
               i == (f - 1) % NStd
    <3>1. /\ p \in Procs /\ i \in 0 .. NStd - 1 /\ file[f].owner = p /\ state[p] = "up"
      BY <1>0, <1>2, StdOwner
    <3>2. i \in Slots
      BY <3>1, FilesAssumption DEF Slots
    <3>3. In(p, f) = {i}
      <4>1. table[p][i] = f
        <5>1. f = ((f - 1) \div NStd) * NStd + i + 1 /\ (f - 1) \div NStd \in Nat
          BY StdOwner
        <5>2. p - 1 = (f - 1) \div NStd
          BY <5>1
        <5>3. fdinit(p)[i] = (p - 1) * NStd + i + 1
          <6>1. i < NStd
            BY <3>1, FilesAssumption
          <6> HIDE DEF p, i
          <6> QED
            BY <3>2, <6>1 DEF fdinit
        <5>4. table[p][i] = fdinit(p)[i]
          BY <1>0, <3>1
        <5> QED
          BY <5>1, <5>2, <5>3, <5>4
      <4>2. ASSUME NEW j \in Slots, table[p][j] = f PROVE j = i
        BY <1>7, <3>1, <4>2 DEF NoFile
      <4> QED
        BY <3>2, <4>1, <4>2 DEF In
    <3>4. Cardinality(In(p, f)) = 1 /\ In(p, f) # {}
      BY <3>3, FS_Singleton
    <3> HIDE DEF p
    <3> QED
      BY <1>2, <3>1, <3>4 DEF FileOK
  <2> QED
    BY <1>3, <2>1, <2>2 DEF TableInv
<1>9. StartInv /\ CallInv /\ FaultHasCause
  BY <1>0, <1>5 DEF StartInv, CallInv, FaultHasCause, Idle
<1> QED
  BY <1>6, <1>8, <1>9 DEF FilesInv

-----------------------------------------------------------------------------
(* Faults *)

\* The undefined behaviour has one of the sources FaultHasCause names.
Cause(kind, f) ==
  /\ kind \in {"dangling", "uninit", "null", "unlock"} /\ f \in 0 .. nfiles
  /\ kind = "dangling" => file[f].half \/ file[f].peak >= 2
  /\ kind = "uninit" => f \in Held /\ ~file[f].clean
  /\ kind = "null" => f = NoFile \/ IsPipe(f)
  /\ kind = "unlock" => Cardinality(SlotsOf(f)) # IF Uncounted(f) THEN 2 ELSE 1

\* The tables are as they were.
LEMMA SameTables ==
  ASSUME TableInv, UNCHANGED <<state, table, file>>
  PROVE  TableInv'
BY DEF TableInv, In

\* A step into undefined behaviour.
LEMMA FaultStep ==
  ASSUME FilesInv, NEW kind, NEW f, Fault(kind, f), Cause(kind, f)
  PROVE  FilesInv'
<1>1. /\ wrong' = kind /\ blame' = f /\ off' = [i \in FileIds |-> 0] /\ call' = [p \in Procs |-> Idle]
      /\ cwd' = [p \in Procs |-> NoPath] /\ where' = [p \in Procs |-> <<>>]
      /\ UNCHANGED <<started, state, table, file, nfiles>>
  BY DEF Fault
<1>2. NoPath \in Path /\ Idle \in CallRecord /\ Idle.pc = "idle"
  <2>1. 0 \in Slots /\ 0 \in 0 .. MaxIov /\ 0 \in -1 .. MaxIov /\ 0 \in 0 .. MaxOff
    BY FilesAssumption DEF Slots
  <2> QED
    BY <2>1 DEF NoPath, Path, Idle, CallRecord
<1>3. TypeOK'
  <2>1. off' \in [FileIds -> 0 .. MaxOff] /\ call' \in [Procs -> CallRecord]
    BY <1>1, <1>2, FilesAssumption
  <2>2. \A p \in Procs : Len(where'[p]) <= MaxDepth /\ cwd'[p] \in Path
    BY <1>1, <1>2, FilesAssumption
  <2>3. wrong' \in {"no", "dangling", "uninit", "null", "unlock"} /\ blame' \in 0 .. nfiles'
    BY <1>1 DEF Cause
  <2> QED
    BY <1>1, <2>1, <2>2, <2>3 DEF FilesInv, TypeOK
<1>4. TableInv'
  BY <1>1, SameTables DEF FilesInv
<1>5. StartInv' /\ CallInv'
  BY <1>1, <1>2 DEF FilesInv, StartInv, CallInv
<1>6. FaultHasCause'
  <2>1. SlotsOf(f)' = SlotsOf(f) /\ Held' = Held /\ IsPipe(f)' = IsPipe(f)
        /\ Uncounted(f)' = Uncounted(f)
    BY <1>1 DEF Held, SlotsOf, IsPipe, Uncounted
  <2> QED
    BY <1>1, <2>1 DEF Cause, FaultHasCause, IsPipe, Uncounted, Held, SlotsOf
<1> QED
  BY <1>3, <1>4, <1>5, <1>6 DEF FilesInv

\* The descriptor of a slot in use.
LEMMA Descriptor ==
  ASSUME NEW p, NEW fd, fdfget(p, fd) # NoFile
  PROVE  fd \in Slots /\ fdfget(p, fd) = table[p][fd] /\ table[p][fd] # NoFile
BY DEF fdfget

\* A structure that is in a slot and freed, or whose members are not set, has a
\* cause; any other is live and clean.
LEMMA MisuseCause ==
  ASSUME FilesInv, NEW p \in Procs, NEW i \in Slots, NEW f, f = table[p][i], f # NoFile
  PROVE  /\ Misuse(f) # "no" => Cause(Misuse(f), f)
         /\ Misuse(f) = "no" => file[f].mem = "live" /\ file[f].clean
         /\ file[f].mem = "freed" => Cause("dangling", f)
<1>1. /\ f \in DOMAIN file /\ file[f] \in FileRecord /\ file[f].owner = p
      /\ i \in In(p, f) /\ FileOK(file[f], state[p], In(p, f)) /\ f \in 0 .. nfiles
  BY SlotFile DEF FilesInv, TypeOK
<1>2. file[f].mem \in {"live", "freed"} /\ file[f].clean \in BOOLEAN /\ file[f].peak \in Int
  BY <1>1, FilesAssumption DEF FileRecord
<1>3. file[f].mem = "freed" => Cause("dangling", f)
  <2> SUFFICES ASSUME file[f].mem = "freed" PROVE Cause("dangling", f)
    OBVIOUS
  <2>1. file[f].half \/ file[f].peak >= IF file[f].kind # "opened" THEN 3 ELSE 2
    BY <1>1 DEF FileOK
  <2>2. file[f].half \/ file[f].peak >= 2
    BY <1>2, <2>1
  <2> QED
    BY <1>1, <2>2 DEF Cause
<1>4. file[f].mem = "live" /\ ~file[f].clean => Cause("uninit", f)
  <2> SUFFICES ASSUME file[f].mem = "live", ~file[f].clean PROVE Cause("uninit", f)
    OBVIOUS
  <2>1. SlotsOf(f) # {}
    BY <1>1, SlotsOfOwner
  <2> QED
    BY <1>1, <2>1 DEF Cause, Held
<1>5. Misuse(f) = IF file[f].mem = "freed" THEN "dangling"
                  ELSE IF ~file[f].clean THEN "uninit" ELSE "no"
  BY <1>2 DEF Misuse
<1> QED
  BY <1>2, <1>3, <1>4, <1>5

-----------------------------------------------------------------------------
(* Calls that move an offset *)

\* A step of sandbox p that changes no table: it may move the offset of the file
\* in slot fd, and where its own call stands.
Moves(p, fd) ==
  /\ p \in Procs /\ fd \in Slots /\ table[p][fd] # NoFile
  /\ wrong = "no" /\ started /\ state[p] = "up"
  /\ UNCHANGED <<started, state, table, file, nfiles, cwd, where, wrong, blame>>
  /\ off' \in [FileIds -> 0 .. MaxOff] /\ call' \in [Procs -> CallRecord]
  /\ \A g \in FileIds \ {table[p][fd]} : off'[g] = off[g]
  /\ \A q \in Procs \ {p} : call'[q] = call[q]
  /\ call'[p].pc # "idle" =>
       /\ call'[p].fd = fd
       /\ CallOK(call'[p], file[table[p][fd]].kind, off'[table[p][fd]])

\* Another sandbox does not notice: it has no slot with that file.
LEMMA MoveStep ==
  ASSUME FilesInv, NEW p, NEW fd, Moves(p, fd)
  PROVE  FilesInv'
<1>1. UNCHANGED <<started, state, table, file, nfiles, cwd, where, wrong, blame>>
  BY DEF Moves
<1>2. TypeOK'
  BY <1>1 DEF FilesInv, TypeOK, Moves
<1>3. TableInv' /\ StartInv' /\ FaultHasCause'
  <2>1. TableInv'
    BY <1>1, SameTables DEF FilesInv
  <2> QED
    BY <1>1, <2>1 DEF FilesInv, StartInv, FaultHasCause, Held, SlotsOf, IsPipe, Uncounted
<1>4. CallInv'
  <2> SUFFICES ASSUME NEW q \in Procs, call'[q].pc # "idle"
               PROVE  /\ wrong = "no" /\ started /\ state[q] = "up"
                      /\ table[q][call'[q].fd] # NoFile
                      /\ CallOK(call'[q], file[table[q][call'[q].fd]].kind,
                                off'[table[q][call'[q].fd]])
    BY <1>1 DEF CallInv
  <2>1. CASE q = p
    BY <2>1 DEF Moves
  <2>2. CASE q # p
    <3> DEFINE g == table[q][call[q].fd]
    <3>1. call'[q] = call[q]
      BY <2>2 DEF Moves
    <3>2. /\ wrong = "no" /\ started /\ state[q] = "up" /\ g # NoFile
          /\ CallOK(call[q], file[g].kind, off[g])
      BY <3>1 DEF FilesInv, CallInv
    <3>3. call[q].fd \in Slots
      <4>1. call[q] \in CallRecord
        BY DEF FilesInv, TypeOK
      <4> QED
        BY <4>1 DEF CallRecord
    <3>4. g \in FileIds /\ file[g].owner = q
      BY <3>2, <3>3, SlotFile
    <3>5. g # table[p][fd]
      <4>1. p \in Procs /\ fd \in Slots /\ table[p][fd] # NoFile
        BY DEF Moves
      <4>2. file[table[p][fd]].owner = p
        BY <4>1, SlotFile
      <4> QED
        BY <2>2, <3>4, <4>2
    <3>6. off'[g] = off[g]
      BY <3>4, <3>5 DEF Moves
    <3> QED
      BY <3>1, <3>2, <3>6
  <2> QED
    BY <2>1, <2>2
<1> QED
  BY <1>2, <1>3, <1>4 DEF FilesInv

\* One read or write of at most a unit: the bytes fit the file.
LEMMA OutcomeFacts ==
  ASSUME FilesInv, NEW p \in Procs, NEW fd \in Slots, table[p][fd] # NoFile,
         NEW op, NEW o \in Outcomes(p, fd, op), NEW f, f = table[p][fd]
  PROVE  /\ o.bad # "no" => Cause(o.bad, f)
         /\ o.bad = "no" => /\ o.n \in {-1, 0, 1}
                            /\ file[f].kind = "opened" => off[f] + o.n <= MaxOff
<1>1. f \in FileIds /\ off[f] \in 0 .. MaxOff /\ MaxOff \in Nat
  <2>1. f \in FileIds /\ off \in [FileIds -> 0 .. MaxOff]
    BY SlotFile DEF FilesInv, TypeOK
  <2> QED
    BY <2>1, FilesAssumption
<1>2. CASE o = [n |-> 0, bad |-> "no"]
  BY <1>1, <1>2
<1>3. CASE o # [n |-> 0, bad |-> "no"] /\ file[f].mem = "freed"
  <2>1. o = [n |-> -1, bad |-> "dangling"]
    BY <1>3 DEF Outcomes
  <2>2. Cause("dangling", f)
    BY <1>3, MisuseCause
  <2> QED
    BY <2>1, <2>2
<1>4. CASE o # [n |-> 0, bad |-> "no"] /\ file[f].mem # "freed"
  <2> DEFINE one == IF IsPipe(f)
                    THEN IF (op = "read") = (file[f].kind = "rend") THEN 1 ELSE -1
                    ELSE Min({1, MaxOff - off[f]})
  <2>1. o \in [n : -1 .. one, bad : {"no"}]
    BY <1>4 DEF Outcomes
  <2>2. ~IsPipe(f) => one = IF 1 <= MaxOff - off[f] THEN 1 ELSE MaxOff - off[f]
    <3>1. MaxOff - off[f] \in Int /\ 1 \in Int
      BY <1>1
    <3>2. Min({1, MaxOff - off[f]}) = IF 1 <= MaxOff - off[f] THEN 1 ELSE MaxOff - off[f]
      BY <3>1, OfTwo
    <3> QED
      BY <3>2
  <2>3. IsPipe(f) => one \in {-1, 1}
    OBVIOUS
  <2>4. file[f].kind = "opened" => ~IsPipe(f)
    BY DEF IsPipe
  <2> HIDE DEF one
  <2> QED
    BY <1>1, <2>1, <2>2, <2>3, <2>4
<1> QED
  BY <1>2, <1>3, <1>4

\* The offset after n bytes.
LEMMA AdvanceFacts ==
  ASSUME FilesInv, NEW p \in Procs, NEW fd \in Slots, table[p][fd] # NoFile,
         NEW f, f = table[p][fd], NEW n \in {-1, 0, 1}, Advance(p, fd, n),
         file[f].kind = "opened" => off[f] + n <= MaxOff
  PROVE  /\ off' \in [FileIds -> 0 .. MaxOff]
         /\ \A g \in FileIds \ {f} : off'[g] = off[g]
         /\ file[f].kind = "opened" => off'[f] = off[f] + (IF n > 0 THEN n ELSE 0)
         /\ off[f] \in 0 .. MaxOff
<1>1. f \in FileIds /\ off \in [FileIds -> 0 .. MaxOff]
  BY SlotFile DEF FilesInv, TypeOK
<1>2. off[f] \in 0 .. MaxOff /\ MaxOff \in Nat
  BY <1>1, FilesAssumption
<1>3. CASE n > 0 /\ file[f].kind = "opened"
  <2>1. off' = [off EXCEPT ![f] = off[f] + n]
    BY <1>3 DEF Advance
  <2>2. off[f] + n \in 0 .. MaxOff
    BY <1>2, <1>3
  <2> QED
    BY <1>1, <1>2, <1>3, <2>1, <2>2
<1>4. CASE ~(n > 0 /\ file[f].kind = "opened")
  <2>1. off' = off
    BY <1>4 DEF Advance
  <2> QED
    BY <1>1, <1>2, <1>4, <2>1
<1> QED
  BY <1>3, <1>4

\* The record of a call in the place of the one there was.
LEMMA CallSet ==
  ASSUME FilesInv, NEW p \in Procs, NEW d \in CallRecord, call' = [call EXCEPT ![p] = d]
  PROVE  call' \in [Procs -> CallRecord] /\ call'[p] = d /\ \A q \in Procs \ {p} : call'[q] = call[q]
<1>1. call \in [Procs -> CallRecord]
  BY DEF FilesInv, TypeOK
<1> QED
  BY <1>1

\* What a sandbox that may make a call finds.
LEMMA ReadyFacts ==
  ASSUME FilesInv, NEW p \in Procs, Ready(p)
  PROVE  wrong = "no" /\ started /\ state[p] = "up" /\ call[p].pc = "idle"
BY DEF Ready

\* The types of offsets and calls.
LEMMA OffTypes ==
  ASSUME FilesInv
  PROVE  /\ off \in [FileIds -> 0 .. MaxOff] /\ call \in [Procs -> CallRecord]
         /\ \A p \in Procs : call[p] \in CallRecord
         /\ \A p \in Procs, fd \in Slots : table[p][fd] # NoFile => off[table[p][fd]] \in 0 .. MaxOff
<1>1. off \in [FileIds -> 0 .. MaxOff] /\ call \in [Procs -> CallRecord]
  BY DEF FilesInv, TypeOK
<1>2. \A p \in Procs, fd \in Slots : table[p][fd] # NoFile => table[p][fd] \in FileIds
  BY SlotFile
<1> QED
  BY <1>1, <1>2

\* sys_read and sys_write.
LEMMA RwStep ==
  ASSUME FilesInv, NEW p \in Procs, NEW fd, NEW op, Rw(p, fd, op)
  PROVE  FilesInv'
<1>1. Ready(p) /\ fdfget(p, fd) # NoFile
  BY DEF Rw, Moving
<1>2. fd \in Slots /\ table[p][fd] # NoFile
  BY <1>1, Descriptor
<1>3. wrong = "no" /\ started /\ state[p] = "up" /\ call[p].pc = "idle"
  BY <1>1, ReadyFacts
<1>4. PICK o \in Outcomes(p, fd, op) :
        \/ Fault(o.bad, table[p][fd])
        \/ /\ o.bad = "no" /\ Advance(p, fd, o.n)
           /\ UNCHANGED <<started, state, table, file, nfiles, call, cwd, where, wrong, blame>>
  BY DEF Rw
<1>5. PICK f : f = table[p][fd]
  OBVIOUS
<1>6. CASE Fault(o.bad, table[p][fd])
  <2>1. Cause(o.bad, table[p][fd])
    BY <1>2, <1>4, <1>6, OutcomeFacts DEF Fault
  <2> QED
    BY <1>6, <2>1, FaultStep
<1>7. CASE /\ o.bad = "no" /\ Advance(p, fd, o.n)
           /\ UNCHANGED <<started, state, table, file, nfiles, call, cwd, where, wrong, blame>>
  <2>1. o.n \in {-1, 0, 1} /\ (file[f].kind = "opened" => off[f] + o.n <= MaxOff)
    BY <1>2, <1>5, <1>7, OutcomeFacts
  <2>2. off' \in [FileIds -> 0 .. MaxOff] /\ \A g \in FileIds \ {f} : off'[g] = off[g]
    BY <1>2, <1>5, <1>7, <2>1, AdvanceFacts
  <2>3. Moves(p, fd)
    BY <1>2, <1>3, <1>5, <1>7, <2>2, OffTypes DEF Moves
  <2> QED
    BY <2>3, MoveStep
<1> QED
  BY <1>4, <1>6, <1>7

\* sys_readv and sys_writev begin.
LEMMA VectorsStep ==
  ASSUME FilesInv, NEW p \in Procs, NEW fd, NEW op \in {"read", "write"}, Vectors(p, fd, op)
  PROVE  FilesInv'
<1>1. Ready(p) /\ fdfget(p, fd) # NoFile
  BY DEF Vectors, Moving
<1>2. fd \in Slots /\ table[p][fd] # NoFile
  BY <1>1, Descriptor
<1>3. wrong = "no" /\ started /\ state[p] = "up"
  BY <1>1, ReadyFacts
<1>4. PICK f : f = table[p][fd]
  OBVIOUS
<1> DEFINE d == [Idle EXCEPT !.pc = "vec", !.op = op, !.fd = fd, !.left = MaxIov, !.start = off[f]]
<1>5. off[f] \in 0 .. MaxOff /\ off \in [FileIds -> 0 .. MaxOff] /\ MaxOff \in Nat
  BY <1>2, <1>4, OffTypes, FilesAssumption
<1>6. /\ d \in CallRecord /\ d.pc = "vec" /\ d.op = op /\ d.fd = fd /\ d.left = MaxIov
      /\ d.n = 0 /\ d.start = off[f]
  <2>1. MaxIov \in 0 .. MaxIov /\ 0 \in -1 .. MaxIov
    BY FilesAssumption
  <2> QED
    BY <1>2, <1>5, <2>1 DEF Idle, CallRecord
<1>7. call' = [call EXCEPT ![p] = d]
      /\ UNCHANGED <<started, state, table, file, nfiles, off, cwd, where, wrong, blame>>
  BY <1>4 DEF Vectors, OffsetOf
<1> HIDE DEF d
<1>8. call' \in [Procs -> CallRecord] /\ call'[p] = d /\ \A q \in Procs \ {p} : call'[q] = call[q]
  BY <1>6, <1>7, CallSet
<1>9. CallOK(d, file[f].kind, off[f])
  <2>1. MaxIov >= 1 /\ 0 + MaxIov <= MaxIov /\ off[f] = off[f] + 0
    BY <1>5, FilesAssumption
  <2> QED
    BY <1>6, <2>1 DEF CallOK
<1>10. Moves(p, fd)
  BY <1>2, <1>3, <1>4, <1>5, <1>6, <1>7, <1>8, <1>9 DEF Moves
<1> QED
  BY <1>10, MoveStep

\* A call under way.
LEMMA UnderWay ==
  ASSUME FilesInv, NEW p \in Procs, call[p].pc # "idle", NEW f, f = table[p][call[p].fd]
  PROVE  /\ call[p] \in CallRecord /\ call[p].fd \in Slots /\ f # NoFile
         /\ wrong = "no" /\ started /\ state[p] = "up"
         /\ CallOK(call[p], file[f].kind, off[f])
         /\ off[f] \in 0 .. MaxOff /\ off \in [FileIds -> 0 .. MaxOff] /\ f \in FileIds
<1>1. call[p] \in CallRecord /\ call[p].fd \in Slots
  <2>1. call[p] \in CallRecord
    BY OffTypes
  <2> QED
    BY <2>1 DEF CallRecord
<1>2. /\ wrong = "no" /\ started /\ state[p] = "up" /\ f # NoFile
      /\ CallOK(call[p], file[f].kind, off[f])
  BY DEF FilesInv, CallInv
<1>3. f \in FileIds
  BY <1>1, <1>2, SlotFile
<1> QED
  BY <1>1, <1>2, <1>3, OffTypes

\* One round of readv or writev.
LEMMA VecStep ==
  ASSUME FilesInv, NEW p \in Procs, vec_next(p)
  PROVE  FilesInv'
<1>1. call[p].pc = "vec"
  BY DEF vec_next
<1>2. PICK f, fd, c : f = table[p][fd] /\ fd = c.fd /\ c = call[p]
  OBVIOUS
<1>3. /\ c \in CallRecord /\ fd \in Slots /\ f # NoFile
      /\ wrong = "no" /\ started /\ state[p] = "up"
      /\ CallOK(c, file[f].kind, off[f])
      /\ off[f] \in 0 .. MaxOff
  BY <1>1, <1>2, UnderWay
<1>4. PICK o \in Outcomes(p, fd, c.op) :
        \/ Fault(o.bad, table[p][fd])
        \/ /\ o.bad = "no" /\ Advance(p, fd, o.n)
           /\ IF o.n < 0 \/ c.left = 1 THEN Return(p, c, VecSum(c, o.n))
              ELSE call' = [call EXCEPT ![p].n = VecSum(c, o.n), ![p].left = @ - 1]
           /\ UNCHANGED <<started, state, table, file, nfiles, cwd, where, wrong, blame>>
  BY <1>2 DEF vec_next
<1>5. CASE Fault(o.bad, table[p][fd])
  <2>1. Cause(o.bad, table[p][fd])
    BY <1>2, <1>3, <1>4, <1>5, OutcomeFacts DEF Fault
  <2> QED
    BY <1>5, <2>1, FaultStep
<1>6. CASE /\ o.bad = "no" /\ Advance(p, fd, o.n)
           /\ IF o.n < 0 \/ c.left = 1 THEN Return(p, c, VecSum(c, o.n))
              ELSE call' = [call EXCEPT ![p].n = VecSum(c, o.n), ![p].left = @ - 1]
           /\ UNCHANGED <<started, state, table, file, nfiles, cwd, where, wrong, blame>>
  <2>1. o.n \in {-1, 0, 1} /\ (file[f].kind = "opened" => off[f] + o.n <= MaxOff)
    BY <1>2, <1>3, <1>6, OutcomeFacts
  <2>2. /\ off' \in [FileIds -> 0 .. MaxOff] /\ \A g \in FileIds \ {f} : off'[g] = off[g]
        /\ file[f].kind = "opened" => off'[f] = off[f] + (IF o.n > 0 THEN o.n ELSE 0)
    <3>1. fd \in Slots /\ table[p][fd] # NoFile /\ f = table[p][fd] /\ Advance(p, fd, o.n)
      BY <1>2, <1>3, <1>6
    <3> QED
      BY <2>1, <3>1, AdvanceFacts
  <2>3. /\ c.op # "pread" /\ c.n >= 0 /\ c.left >= 1 /\ c.n + c.left <= MaxIov
        /\ file[f].kind = "opened" => off[f] = c.start + c.n
    BY <1>1, <1>2, <1>3 DEF CallOK
  <2>4. /\ c.n \in Int /\ c.left \in Int /\ c.start \in Int /\ MaxIov \in Nat
        /\ c.start \in 0 .. MaxOff
    BY <1>3, FilesAssumption DEF CallRecord
  <2> DEFINE s == VecSum(c, o.n)
             d == [c EXCEPT !.pc = "ret", !.left = 0, !.n = s]
             e == [c EXCEPT !.n = s, !.left = c.left - 1]
  <2>5. s = IF o.n < 0 THEN o.n ELSE c.n + o.n
    BY DEF VecSum
  <2>6. CASE o.n < 0 \/ c.left = 1
    <3>1. s \in -1 .. MaxIov
      BY <2>1, <2>3, <2>4, <2>5
    <3> HIDE DEF s
    <3>2. /\ d \in CallRecord /\ d.pc = "ret" /\ d.op = c.op /\ d.fd = fd /\ d.n = s
          /\ d.start = c.start
      <4>1. 0 \in 0 .. MaxIov
        BY FilesAssumption
      <4> QED
        BY <1>2, <1>3, <3>1, <4>1 DEF CallRecord
    <3>3. call' = [call EXCEPT ![p] = d]
      BY <1>6, <2>6 DEF Return, s
    <3> HIDE DEF d
    <3>4. call' \in [Procs -> CallRecord] /\ call'[p] = d /\ \A q \in Procs \ {p} : call'[q] = call[q]
      BY <3>2, <3>3, CallSet
    <3>5. file[f].kind = "opened" /\ s >= 0 => off'[f] = c.start + s
      BY <2>1, <2>2, <2>3, <2>4, <2>5
    <3>6. CallOK(d, file[f].kind, off'[f])
      BY <2>3, <3>2, <3>5 DEF CallOK
    <3>7. Moves(p, fd)
      BY <1>2, <1>3, <1>6, <2>2, <3>2, <3>4, <3>6 DEF Moves
    <3> QED
      BY <3>7, MoveStep
  <2>7. CASE ~(o.n < 0 \/ c.left = 1)
    <3>1. /\ s \in -1 .. MaxIov /\ s >= 0 /\ c.left - 1 \in 0 .. MaxIov /\ c.left - 1 >= 1
          /\ s + (c.left - 1) <= MaxIov
      BY <2>1, <2>3, <2>4, <2>5, <2>7
    <3>2. file[f].kind = "opened" => off'[f] = c.start + s
      BY <2>1, <2>2, <2>3, <2>4, <2>5, <2>7
    <3>3. call' = [call EXCEPT ![p] = e]
      BY <1>2, <1>6, <2>7
    <3> HIDE DEF s
    <3>4. /\ e \in CallRecord /\ e.pc = "vec" /\ e.op = c.op /\ e.fd = fd /\ e.n = s
          /\ e.start = c.start /\ e.left = c.left - 1
      BY <1>1, <1>2, <1>3, <3>1 DEF CallRecord
    <3> HIDE DEF e
    <3>5. call' \in [Procs -> CallRecord] /\ call'[p] = e /\ \A q \in Procs \ {p} : call'[q] = call[q]
      BY <3>3, <3>4, CallSet
    <3>6. CallOK(e, file[f].kind, off'[f])
      BY <2>3, <3>1, <3>2, <3>4 DEF CallOK
    <3>7. Moves(p, fd)
      BY <1>2, <1>3, <1>6, <2>2, <3>4, <3>5, <3>6 DEF Moves
    <3> QED
      BY <3>7, MoveStep
  <2> QED
    BY <2>6, <2>7
<1> QED
  BY <1>4, <1>5, <1>6

\* The result is read.
LEMMA ReturnStep ==
  ASSUME FilesInv, NEW p \in Procs, return(p)
  PROVE  FilesInv'
<1>1. /\ call[p].pc = "ret" /\ call' = [call EXCEPT ![p] = Idle]
      /\ UNCHANGED <<started, state, table, file, nfiles, off, cwd, where, wrong, blame>>
  BY DEF return
<1>2. PICK f, fd : f = table[p][fd] /\ fd = call[p].fd
  OBVIOUS
<1>3. /\ fd \in Slots /\ f # NoFile /\ wrong = "no" /\ started /\ state[p] = "up"
      /\ off \in [FileIds -> 0 .. MaxOff]
  BY <1>1, <1>2, UnderWay
<1>4. Idle \in CallRecord /\ Idle.pc = "idle"
  <2>1. 0 \in Slots /\ 0 \in 0 .. MaxIov /\ 0 \in -1 .. MaxIov /\ 0 \in 0 .. MaxOff
    BY FilesAssumption DEF Slots
  <2> QED
    BY <2>1 DEF Idle, CallRecord
<1>5. call' \in [Procs -> CallRecord] /\ call'[p] = Idle /\ \A q \in Procs \ {p} : call'[q] = call[q]
  BY <1>1, <1>4, CallSet
<1>6. Moves(p, fd)
  BY <1>1, <1>2, <1>3, <1>4, <1>5 DEF Moves
<1> QED
  BY <1>6, MoveStep

\* Setting the offset of the file a call works on.
LEMMA SetOffFacts ==
  ASSUME FilesInv, NEW p \in Procs, call[p].pc # "idle", NEW f, f = table[p][call[p].fd],
         NEW o \in 0 .. MaxOff, SetOff(p, o)
  PROVE  /\ off' \in [FileIds -> 0 .. MaxOff] /\ \A g \in FileIds \ {f} : off'[g] = off[g]
         /\ file[f].kind = "opened" => off'[f] = o
<1>1. off \in [FileIds -> 0 .. MaxOff] /\ f \in FileIds
  BY UnderWay
<1>2. off' = IF file[f].kind = "opened" THEN [off EXCEPT ![f] = o] ELSE off
  BY DEF SetOff
<1> QED
  BY <1>1, <1>2

\* The three host calls of pread64.
LEMMA PreadStep ==
  ASSUME FilesInv, NEW p \in Procs, pread_seek(p) \/ pread_read(p) \/ pread_back(p)
  PROVE  FilesInv'
<1>1. /\ call[p].pc \in {"seek", "read", "back"}
      /\ UNCHANGED <<started, state, table, file, nfiles, cwd, where, wrong, blame>>
  BY DEF pread_seek, pread_read, pread_back
<1>2. PICK f, fd, c : f = table[p][fd] /\ fd = c.fd /\ c = call[p]
  OBVIOUS
<1>3. /\ c \in CallRecord /\ fd \in Slots /\ f # NoFile
      /\ wrong = "no" /\ started /\ state[p] = "up"
      /\ CallOK(c, file[f].kind, off[f])
      /\ off[f] \in 0 .. MaxOff
  BY <1>1, <1>2, UnderWay
<1>4. c.op = "pread" /\ c.start \in 0 .. MaxOff /\ MaxOff \in Nat
  BY <1>1, <1>2, <1>3, FilesAssumption DEF CallOK, CallRecord
<1>5. SUFFICES ASSUME NEW d \in CallRecord, d.pc \in {"read", "back", "ret"}, d.fd = fd, d.op = "pread",
                      d.start = c.start, call' = [call EXCEPT ![p] = d],
                      NEW o \in 0 .. MaxOff, SetOff(p, o), d.pc = "ret" => o = d.start
               PROVE  FilesInv'
  <2>1. CASE pread_seek(p)
    <3> DEFINE d == [c EXCEPT !.pc = "read"]
    <3>1. d \in CallRecord /\ d.pc = "read" /\ d.fd = fd /\ d.op = "pread" /\ d.start = c.start
      BY <1>2, <1>3, <1>4 DEF CallRecord
    <3>2. call' = [call EXCEPT ![p] = d] /\ \E o \in 0 .. MaxOff : SetOff(p, o)
      BY <1>2, <2>1 DEF pread_seek
    <3> HIDE DEF d
    <3> QED
      BY <1>5, <3>1, <3>2
  <2>2. CASE pread_read(p)
    <3>1. PICK n \in -1 .. Min({1, MaxOff - off[f]}) :
            /\ SetOff(p, off[f] + Max({n, 0}))
            /\ call' = [call EXCEPT ![p].pc = "back", ![p].n = n]
      BY <1>2, <2>2 DEF pread_read, OffsetOf
    <3>2. off[f] \in Int /\ MaxOff - off[f] \in Int /\ 1 \in Int /\ 0 \in Int
      BY <1>3, <1>4
    <3>3. Min({1, MaxOff - off[f]}) = IF 1 <= MaxOff - off[f] THEN 1 ELSE MaxOff - off[f]
      BY <3>2, OfTwo
    <3>4. n \in Int /\ n >= -1 /\ n <= 1 /\ n <= MaxOff - off[f]
      BY <1>3, <1>4, <3>2, <3>3
    <3>5. Max({n, 0}) = IF n >= 0 THEN n ELSE 0
      BY <3>2, <3>4, OfTwo
    <3>6. off[f] + Max({n, 0}) \in 0 .. MaxOff
      BY <1>3, <1>4, <3>4, <3>5
    <3> DEFINE d == [c EXCEPT !.pc = "back", !.n = n]
    <3>7. n \in -1 .. MaxIov
      BY <3>4, FilesAssumption
    <3>8. d \in CallRecord /\ d.pc = "back" /\ d.fd = fd /\ d.op = "pread" /\ d.start = c.start
      BY <1>2, <1>3, <1>4, <3>7 DEF CallRecord
    <3>9. call' = [call EXCEPT ![p] = d]
      BY <1>2, <3>1
    <3> HIDE DEF d
    <3> QED
      BY <1>5, <3>1, <3>6, <3>8, <3>9
  <2>3. CASE pread_back(p)
    <3> DEFINE d == [c EXCEPT !.pc = "ret", !.left = 0, !.n = c.n]
    <3>1. /\ d \in CallRecord /\ d.pc = "ret" /\ d.fd = fd /\ d.op = "pread" /\ d.start = c.start
      <4>1. 0 \in 0 .. MaxIov
        BY FilesAssumption
      <4> QED
        BY <1>2, <1>3, <1>4, <4>1 DEF CallRecord
    <3>2. call' = [call EXCEPT ![p] = d] /\ SetOff(p, c.start)
      BY <1>2, <2>3 DEF pread_back, Return, BackTo
    <3> HIDE DEF d
    <3> QED
      BY <1>4, <1>5, <3>1, <3>2
  <2> QED
    BY <2>1, <2>2, <2>3
<1>6. call' \in [Procs -> CallRecord] /\ call'[p] = d /\ \A q \in Procs \ {p} : call'[q] = call[q]
  BY <1>5, CallSet
<1>7. /\ off' \in [FileIds -> 0 .. MaxOff] /\ \A g \in FileIds \ {f} : off'[g] = off[g]
      /\ file[f].kind = "opened" => off'[f] = o
  BY <1>1, <1>2, <1>5, SetOffFacts
<1>8. CallOK(d, file[f].kind, off'[f])
  BY <1>5, <1>7 DEF CallOK
<1>9. Moves(p, fd)
  BY <1>1, <1>2, <1>3, <1>5, <1>6, <1>7, <1>8 DEF Moves
<1> QED
  BY <1>9, MoveStep

\* lseek.
LEMMA LseekStep ==
  ASSUME FilesInv, NEW p \in Procs, NEW fd, sys_lseek(p, fd)
  PROVE  FilesInv'
<1>1. Ready(p) /\ fdfget(p, fd) # NoFile
  BY DEF sys_lseek, Moving
<1>2. PICK f : f = table[p][fd]
  OBVIOUS
<1>3. fd \in Slots /\ table[p][fd] # NoFile /\ fdfget(p, fd) = f
  BY <1>1, <1>2, Descriptor
<1>4. wrong = "no" /\ started /\ state[p] = "up" /\ call[p].pc = "idle"
  BY <1>1, ReadyFacts
<1>5. CASE Fault(Misuse(f), f)
  <2>1. Cause(Misuse(f), f)
    BY <1>2, <1>3, <1>5, MisuseCause DEF Fault
  <2> QED
    BY <1>5, <2>1, FaultStep
<1>6. CASE /\ \E o \in 0 .. MaxOff :
                off' = IF file[f].kind = "opened" THEN [off EXCEPT ![f] = o] ELSE off
           /\ UNCHANGED <<started, state, table, file, nfiles, call, cwd, where, wrong, blame>>
  <2>1. off' \in [FileIds -> 0 .. MaxOff] /\ \A g \in FileIds \ {f} : off'[g] = off[g]
    BY <1>6, OffTypes
  <2>2. Moves(p, fd)
    BY <1>2, <1>3, <1>4, <1>6, <2>1, OffTypes DEF Moves
  <2> QED
    BY <2>2, MoveStep
<1> QED
  BY <1>3, <1>5, <1>6 DEF sys_lseek

\* pread64 begins, or is given a pipe.
LEMMA Pread64Step ==
  ASSUME FilesInv, NEW p \in Procs, NEW fd, sys_pread64(p, fd)
  PROVE  FilesInv'
<1>1. Ready(p) /\ fdfget(p, fd) # NoFile
  BY DEF sys_pread64, Moving
<1>2. PICK f : f = table[p][fd]
  OBVIOUS
<1>3. fd \in Slots /\ table[p][fd] # NoFile /\ fdfget(p, fd) = f
  BY <1>1, <1>2, Descriptor
<1>4. wrong = "no" /\ started /\ state[p] = "up" /\ call[p].pc = "idle"
  BY <1>1, ReadyFacts
<1> DEFINE kind == IF Misuse(f) = "no" /\ IsPipe(f) THEN "null" ELSE Misuse(f)
           d    == [Idle EXCEPT !.pc = "seek", !.op = "pread", !.fd = fd, !.start = off[f]]
<1>5. CASE Fault(kind, f)
  <2>1. Cause(kind, f)
    <3>1. Misuse(f) # "no" => Cause(Misuse(f), f)
      BY <1>2, <1>3, MisuseCause
    <3>2. IsPipe(f) => Cause("null", f)
      <4>1. f \in 0 .. nfiles
        BY <1>2, <1>3, SlotFile DEF FilesInv, TypeOK
      <4> QED
        BY <4>1 DEF Cause
    <3>3. kind # "no"
      BY <1>5 DEF Fault
    <3> QED
      BY <3>1, <3>2, <3>3
  <2> HIDE DEF kind
  <2> QED
    BY <1>5, <2>1, FaultStep
<1>6. CASE /\ call' = [call EXCEPT ![p] = d]
           /\ UNCHANGED <<started, state, table, file, nfiles, off, cwd, where, wrong, blame>>
  <2>1. off[f] \in 0 .. MaxOff /\ off \in [FileIds -> 0 .. MaxOff]
    BY <1>2, <1>3, OffTypes
  <2>2. d \in CallRecord /\ d.pc = "seek" /\ d.op = "pread" /\ d.fd = fd
    <3>1. 0 \in 0 .. MaxIov /\ 0 \in -1 .. MaxIov
      BY FilesAssumption
    <3> QED
      BY <1>3, <2>1, <3>1 DEF Idle, CallRecord
  <2> HIDE DEF d
  <2>3. call' \in [Procs -> CallRecord] /\ call'[p] = d /\ \A q \in Procs \ {p} : call'[q] = call[q]
    BY <1>6, <2>2, CallSet
  <2>4. CallOK(d, file[f].kind, off[f])
    BY <2>2 DEF CallOK
  <2>5. Moves(p, fd)
    BY <1>2, <1>3, <1>4, <1>6, <2>1, <2>2, <2>3, <2>4 DEF Moves
  <2> QED
    BY <2>5, MoveStep
<1> QED
  BY <1>3, <1>5, <1>6 DEF sys_pread64

\* A step that changes nothing.
LEMMA NoStep ==
  ASSUME FilesInv, UNCHANGED vars
  PROVE  FilesInv'
<1>1. TableInv'
  BY SameTables DEF FilesInv, vars
<1> QED
  BY <1>1 DEF FilesInv, vars, TypeOK, StartInv, CallInv, FaultHasCause, Held, SlotsOf, IsPipe, Uncounted

\* Calls that pass the descriptor on to the host.
LEMMA PassStep ==
  ASSUME FilesInv, NEW p \in Procs, NEW fd, Pass(p, fd)
  PROVE  FilesInv'
<1>1. PICK f : f = fdfget(p, fd)
  OBVIOUS
<1>2. fd \in Slots /\ f = table[p][fd] /\ f # NoFile
  BY <1>1, Descriptor DEF Pass
<1>3. CASE Fault(Misuse(f), f)
  <2>1. Cause(Misuse(f), f)
    BY <1>2, <1>3, MisuseCause DEF Fault
  <2> QED
    BY <1>3, <2>1, FaultStep
<1>4. CASE UNCHANGED vars
  BY <1>4, NoStep
<1> QED
  BY <1>1, <1>3, <1>4 DEF Pass

LEMMA MmapStep ==
  ASSUME FilesInv, NEW p \in Procs, NEW fd, mmap_kfd(p, fd)
  PROVE  FilesInv'
<1>1. PICK f : f = fdfget(p, fd)
  OBVIOUS
<1>2. CASE f = NoFile /\ Fault("null", NoFile)
  <2>1. Cause("null", NoFile)
    BY FilesAssumption DEF Cause, NoFile, FilesInv, TypeOK
  <2> QED
    BY <1>2, <2>1, FaultStep
<1>3. CASE f # NoFile /\ Fault(Misuse(f), f)
  <2>1. fd \in Slots /\ f = table[p][fd]
    BY <1>1, <1>3, Descriptor
  <2>2. Cause(Misuse(f), f)
    BY <1>3, <2>1, MisuseCause DEF Fault
  <2> QED
    BY <1>3, <2>2, FaultStep
<1>4. CASE UNCHANGED vars
  BY <1>4, NoStep
<1> QED
  BY <1>1, <1>2, <1>3, <1>4 DEF mmap_kfd

\* The sandboxes begin to run.
LEMMA StartStep ==
  ASSUME FilesInv, start
  PROVE  FilesInv'
<1>1. started' = TRUE /\ UNCHANGED <<state, table, file, nfiles, off, call, cwd, where, wrong, blame>>
  BY DEF start
<1>2. TableInv'
  BY <1>1, SameTables DEF FilesInv
<1> QED
  BY <1>1, <1>2 DEF FilesInv, TypeOK, StartInv, CallInv, FaultHasCause, Held, SlotsOf, IsPipe, Uncounted

\* chdir and fchdir store a path.
LEMMA ChdirStep ==
  ASSUME FilesInv, NEW p \in Procs, NEW path \in Path, NEW dir, proc_chdir(p, path), Goes(p, dir),
         UNCHANGED <<started, state, table, file, nfiles, off, call, wrong, blame>>
  PROVE  FilesInv'
<1>1. /\ cwd' = [cwd EXCEPT ![p] = IF cwk_path_is_absolute(path) THEN path
                                   ELSE cwk_path_join(cwd[p], path)]
      /\ where' = [where EXCEPT ![p] = dir]
      /\ dir # Astray => Len(dir) <= MaxDepth
  BY DEF proc_chdir, Goes
<1>2. cwd \in [Procs -> Path] /\ DOMAIN where = Procs
  BY DEF FilesInv, StartInv
<1>3. cwd[p] \in Path /\ cwk_path_join(cwd[p], path) \in Path
  BY <1>2, JoinIsPath
<1>4. cwd' \in [Procs -> Path] /\ DOMAIN where' = Procs
  BY <1>1, <1>2, <1>3
<1>5. \A q \in Procs : (where'[q] # Astray => Len(where'[q]) <= MaxDepth) /\ cwd'[q] \in Path
  <2>1. \A q \in Procs : where[q] # Astray => Len(where[q]) <= MaxDepth
    BY DEF FilesInv, TypeOK
  <2>2. \A q \in Procs : where'[q] = IF q = p THEN dir ELSE where[q]
    BY <1>1, <1>2
  <2> QED
    BY <1>1, <1>4, <2>1, <2>2
<1>6. TypeOK'
  BY <1>5 DEF FilesInv, TypeOK
<1>7. TableInv'
  BY SameTables DEF FilesInv
<1>8. StartInv' /\ CallInv' /\ FaultHasCause'
  BY <1>4 DEF FilesInv, StartInv, CallInv, FaultHasCause, Held, SlotsOf, IsPipe, Uncounted
<1> QED
  BY <1>6, <1>7, <1>8 DEF FilesInv

LEMMA FchdirStep ==
  ASSUME FilesInv, NEW p \in Procs, NEW fd, sys_fchdir(p, fd)
  PROVE  FilesInv'
<1>1. PICK f : f = fdfget(p, fd)
  OBVIOUS
<1>2. fd \in Slots /\ f = table[p][fd] /\ f # NoFile
  BY <1>1, Descriptor DEF sys_fchdir
<1>3. CASE Fault(Misuse(f), f)
  <2>1. Cause(Misuse(f), f)
    BY <1>2, <1>3, MisuseCause DEF Fault
  <2> QED
    BY <1>3, <2>1, FaultStep
<1>4. CASE /\ file[f].path # NoPath /\ proc_chdir(p, file[f].path)
           /\ Goes(p, IF file[f].path.abs THEN Resolve(<<>>, file[f].path) ELSE Astray)
           /\ UNCHANGED <<started, state, table, file, nfiles, off, call, wrong, blame>>
  <2>1. file[f].path \in Path
    <3>1. file[f] \in FileRecord
      BY <1>2, SlotFile
    <3> QED
      BY <1>4, <3>1, FilesAssumption DEF FileRecord
  <2> QED
    BY <1>4, <2>1, ChdirStep
<1> QED
  BY <1>1, <1>3, <1>4 DEF sys_fchdir

-----------------------------------------------------------------------------
(* Calls that change the tables *)

\* A step that changes tables and structures and nothing else: the structures
\* keep their kinds, and the sandboxes with a call under way their tables.
Tabled ==
  /\ wrong = "no" /\ UNCHANGED <<started, off, call, cwd, where, wrong, blame>>
  /\ nfiles' \in 0 .. MaxFiles /\ nfiles <= nfiles'
  /\ table' \in [Procs -> [Slots -> 0 .. nfiles']]
  /\ file' \in Seq(FileRecord) /\ Len(file') = nfiles'
  /\ state' \in [Procs -> {"up", "exited"}] /\ (~started => state' = state)
  /\ \A q \in Procs : call[q].pc # "idle" => table'[q] = table[q] /\ state'[q] = state[q]
  /\ \A g \in DOMAIN file : file'[g].kind = file[g].kind
  /\ TableInv'

LEMMA TableStep ==
  ASSUME FilesInv, Tabled
  PROVE  FilesInv'
<1>1. TypeOK' /\ TableInv'
  BY DEF FilesInv, TypeOK, Tabled
<1>2. StartInv' /\ FaultHasCause'
  <2>1. StartInv'
    BY DEF FilesInv, StartInv, Tabled
  <2>2. wrong' = "no"
    BY DEF Tabled
  <2>3. FaultHasCause'
    BY <2>2 DEF FaultHasCause
  <2> QED
    BY <2>1, <2>3
<1>3. CallInv'
  <2> SUFFICES ASSUME NEW q \in Procs, call'[q].pc # "idle"
               PROVE  /\ wrong' = "no" /\ started' /\ state'[q] = "up"
                      /\ table'[q][call'[q].fd] # NoFile
                      /\ CallOK(call'[q], file'[table'[q][call'[q].fd]].kind,
                                off'[table'[q][call'[q].fd]])
    BY DEF CallInv
  <2>1. call' = call /\ off' = off /\ started' = started /\ wrong' = wrong
    BY DEF Tabled
  <2>2. PICK g : g = table[q][call[q].fd]
    OBVIOUS
  <2>3. /\ wrong = "no" /\ started /\ state[q] = "up" /\ g # NoFile
        /\ CallOK(call[q], file[g].kind, off[g]) /\ call[q].fd \in Slots
    BY <2>1, <2>2, UnderWay
  <2>4. table'[q] = table[q] /\ state'[q] = state[q]
    BY <2>1 DEF Tabled
  <2>5. g \in DOMAIN file
    BY <2>2, <2>3, SlotFile
  <2>6. file'[g].kind = file[g].kind
    BY <2>5 DEF Tabled
  <2> QED
    BY <2>1, <2>2, <2>3, <2>4, <2>6
<1> QED
  BY <1>1, <1>2, <1>3 DEF FilesInv

\* The slots of one sandbox that hold g after the step.
Now(q, g) == {j \in Slots : table'[q][j] = g}

\* Slot i of sandbox p holds h now.
PutIn(p, i, h) == table' = [table EXCEPT ![p][i] = h]

\* One slot of one sandbox is set, to a structure of its own or to none.
LEMMA SetSlot ==
  ASSUME FilesInv, NEW p \in Procs, NEW i \in Slots, NEW h \in 0 .. nfiles',
         nfiles' \in Nat, nfiles <= nfiles', PutIn(p, i, h)
  PROVE  /\ table' \in [Procs -> [Slots -> 0 .. nfiles']]
         /\ \A q \in Procs \ {p} : table'[q] = table[q]
         /\ \A q \in Procs, j \in Slots :
              table'[q][j] = IF q = p /\ j = i THEN h ELSE table[q][j]
         /\ \A q \in Procs : \A g : g # h => Now(q, g) = In(q, g) \ (IF q = p /\ table[p][i] = g THEN {i} ELSE {})
         /\ \A q \in Procs : Now(q, h) = In(q, h) \cup (IF q = p THEN {i} ELSE {})
<1>1. table \in [Procs -> [Slots -> 0 .. nfiles]] /\ nfiles \in Nat
  BY FilesAssumption DEF FilesInv, TypeOK
<1>2. \A q \in Procs, j \in Slots : table'[q][j] = IF q = p /\ j = i THEN h ELSE table[q][j]
  BY <1>1 DEF PutIn
<1>3. \A q \in Procs \ {p} : table'[q] = table[q]
  BY <1>1 DEF PutIn
<1>4. table' \in [Procs -> [Slots -> 0 .. nfiles']]
  <2>1. [table[p] EXCEPT ![i] = h] \in [Slots -> 0 .. nfiles']
    BY <1>1
  <2>2. \A q \in Procs : table[q] \in [Slots -> 0 .. nfiles']
    BY <1>1
  <2>3. table' = [table EXCEPT ![p] = [table[p] EXCEPT ![i] = h]]
    BY DEF PutIn
  <2> QED
    BY <1>1, <2>1, <2>2, <2>3
<1>5. ASSUME NEW q \in Procs, NEW g, g # h
      PROVE  Now(q, g) = In(q, g) \ (IF q = p /\ table[p][i] = g THEN {i} ELSE {})
  BY <1>2, <1>5 DEF In, Now
<1>6. ASSUME NEW q \in Procs PROVE Now(q, h) = In(q, h) \cup (IF q = p THEN {i} ELSE {})
  BY <1>2 DEF In, Now
<1> QED
  BY <1>2, <1>3, <1>4, <1>5, <1>6

\* One structure of p enters or leaves one slot; every other structure keeps its
\* slots.
LEMMA SlotStep ==
  ASSUME FilesInv, NEW p \in Procs, Ready(p), NEW i \in Slots, NEW f \in DOMAIN file,
         file[f].owner = p, NEW h \in {f, NoFile}, table[p][i] \in {f, NoFile},
         PutIn(p, i, h),
         NEW r \in FileRecord, file' = [file EXCEPT ![f] = r], r.owner = p, r.kind = file[f].kind,
         FileOK(r, "up", Now(p, f)),
         UNCHANGED <<started, state, nfiles, off, call, cwd, where, wrong, blame>>
  PROVE  FilesInv'
<1>1. /\ nfiles \in 0 .. MaxFiles /\ MaxFiles \in Nat
      /\ file \in Seq(FileRecord) /\ Len(file) = nfiles /\ DOMAIN file = 1 .. nfiles
      /\ state \in [Procs -> {"up", "exited"}]
  <2>1. nfiles \in 0 .. MaxFiles /\ file \in Seq(FileRecord) /\ Len(file) = nfiles
        /\ state \in [Procs -> {"up", "exited"}]
    BY DEF FilesInv, TypeOK
  <2> QED
    BY <2>1, FilesAssumption
<1>2. wrong = "no" /\ started /\ state[p] = "up" /\ call[p].pc = "idle"
  BY ReadyFacts
<1>3. h \in 0 .. nfiles' /\ nfiles' \in Nat /\ nfiles <= nfiles'
  BY <1>1 DEF NoFile
<1>4. /\ table' \in [Procs -> [Slots -> 0 .. nfiles']]
      /\ \A q \in Procs \ {p} : table'[q] = table[q]
      /\ \A q \in Procs, j \in Slots : table'[q][j] = IF q = p /\ j = i THEN h ELSE table[q][j]
  BY <1>3, SetSlot
<1>5. /\ file' \in Seq(FileRecord) /\ Len(file') = nfiles' /\ DOMAIN file' = DOMAIN file
      /\ file'[f] = r /\ \A g \in DOMAIN file \ {f} : file'[g] = file[g]
  BY <1>1
<1>6. ASSUME NEW g \in DOMAIN file', g # f
      PROVE  /\ file'[g] = file[g] /\ Now(file'[g].owner, g) = In(file[g].owner, g)
  <2>1. file'[g] = file[g] /\ g \in DOMAIN file
    BY <1>5, <1>6
  <2>2. file[g].owner \in Procs /\ g # NoFile
    BY <2>1, KnownFile
  <2>3. \A j \in Slots : table'[file[g].owner][j] = g <=> table[file[g].owner][j] = g
    BY <1>4, <1>6, <2>2
  <2> QED
    BY <2>1, <2>3 DEF In, Now
<1>7. TableInv'
  <2>1. ASSUME NEW q \in Procs, NEW j \in Slots, table'[q][j] # NoFile
        PROVE  file'[table'[q][j]].owner = q
    <3>1. CASE q = p /\ j = i
      <4>1. table'[q][j] = f
        BY <1>4, <2>1, <3>1
      <4> QED
        BY <1>5, <3>1, <4>1
    <3>2. CASE ~(q = p /\ j = i)
      <4>1. table'[q][j] = table[q][j]
        BY <1>4, <3>2
      <4>2. file[table[q][j]].owner = q /\ table[q][j] \in DOMAIN file
        BY <2>1, <4>1, SlotFile
      <4> QED
        BY <1>5, <4>1, <4>2
    <3> QED
      BY <3>1, <3>2
  <2>2. ASSUME NEW g \in DOMAIN file'
        PROVE  FileOK(file'[g], state'[file'[g].owner], Now(file'[g].owner, g))
    <3>1. CASE g = f
      BY <1>2, <1>5, <3>1
    <3>2. CASE g # f
      <4>1. FileOK(file[g], state[file[g].owner], In(file[g].owner, g))
        BY <1>5, KnownFile
      <4> QED
        BY <1>6, <3>2, <4>1
    <3> QED
      BY <3>1, <3>2
  <2> QED
    BY <2>1, <2>2 DEF TableInv, In, Now
<1>8. Tabled
  <2>1. \A g \in DOMAIN file : file'[g].kind = file[g].kind
    BY <1>5
  <2>2. \A q \in Procs : call[q].pc # "idle" => table'[q] = table[q]
    BY <1>2, <1>4
  <2> QED
    BY <1>1, <1>2, <1>4, <1>5, <1>7, <2>1, <2>2 DEF Tabled
<1> QED
  BY <1>8, TableStep

\* A structure that filefree frees is not in the one number of slots for which
\* its count drops to zero.
LEMMA UnlockCause ==
  ASSUME FilesInv, NEW p \in Procs, NEW i \in Slots, NEW f, f = table[p][i], f # NoFile,
         Misuse(f) = "no", filefree(file[f]).mem = "freed"
  PROVE  Cause("unlock", f)
<1>1. /\ f \in DOMAIN file /\ file[f] \in FileRecord /\ file[f].owner = p /\ f \in 0 .. nfiles
      /\ i \in In(p, f) /\ In(p, f) \subseteq Slots /\ FileOK(file[f], state[p], In(p, f))
  BY SlotFile DEF FilesInv, TypeOK
<1>2. file[f].mem = "live" /\ file[f].clean
  BY MisuseCause
<1>3. Cardinality(In(p, f)) # 0
  <2>1. IsFiniteSet(In(p, f))
    BY <1>1, SlotsFinite
  <2> QED
    BY <1>1, <2>1, FS_EmptySet
<1>4. file[f].refs + (IF Uncounted(f) THEN 1 ELSE 0) = Cardinality(In(p, f))
  BY <1>1, <1>2, <1>3 DEF FileOK, Uncounted
<1>5. file[f].refs \in Nat /\ RefMod \in Nat \ {0}
  BY <1>1, FilesAssumption DEF FileRecord
<1>6. file[f].refs # 1
  <2>1. SUFFICES ASSUME file[f].refs = 1 PROVE FALSE
    OBVIOUS
  <2>2. (file[f].refs - 1) % RefMod = 0
    BY <1>5, <2>1
  <2>3. filefree(file[f]).mem = file[f].mem
    BY <1>1, <2>2 DEF filefree, FileRecord
  <2> QED
    BY <1>2, <2>3
<1>7. Cardinality(SlotsOf(f)) = Cardinality(In(p, f))
  BY <1>1, SlotsOfOwner
<1>8. Cardinality(SlotsOf(f)) # IF Uncounted(f) THEN 2 ELSE 1
  BY <1>4, <1>5, <1>6, <1>7
<1> QED
  BY <1>1, <1>8 DEF Cause

\* close.
LEMMA CloseStep ==
  ASSUME FilesInv, NEW p \in Procs, NEW fd, sys_close(p, fd)
  PROVE  FilesInv'
<1>1. PICK f : f = fdfget(p, fd)
  OBVIOUS
<1>2. fd \in Slots /\ f = table[p][fd] /\ f # NoFile /\ Ready(p)
  BY <1>1, Descriptor DEF sys_close
<1>3. CASE Fault(Misuse(f), f)
  <2>1. Cause(Misuse(f), f)
    BY <1>2, <1>3, MisuseCause DEF Fault
  <2> QED
    BY <1>3, <2>1, FaultStep
<1>4. CASE /\ Misuse(f) = "no" /\ table' = [table EXCEPT ![p][fd] = NoFile]
           /\ file' = [file EXCEPT ![f] = filefree(file[f])]
           /\ UNCHANGED <<started, state, nfiles, off, call, cwd, where, wrong, blame>>
  <2>1. /\ f \in DOMAIN file /\ file[f] \in FileRecord /\ file[f].owner = p
        /\ fd \in In(p, f) /\ In(p, f) \subseteq Slots /\ FileOK(file[f], state[p], In(p, f))
        /\ f \in 1 .. nfiles
    BY <1>2, SlotFile
  <2>2. file[f].mem = "live" /\ file[f].clean
    BY <1>2, <1>4, MisuseCause
  <2>3. state[p] = "up"
    BY <1>2, ReadyFacts
  <2>4. PICK r, S : r = filefree(file[f]) /\ S = In(p, f) \ {fd}
    OBVIOUS
  <2>5. r \in FileRecord /\ FileOK(r, "up", S) /\ r.owner = p /\ r.kind = file[f].kind
    BY <2>1, <2>2, <2>3, <2>4, CloseFile
  <2>6. Now(p, f) = S
    <3>1. nfiles' \in Nat /\ nfiles <= nfiles' /\ NoFile \in 0 .. nfiles'
      BY <1>4, FilesAssumption DEF FilesInv, TypeOK, NoFile
    <3>2. PutIn(p, fd, NoFile)
      BY <1>4 DEF PutIn
    <3> QED
      BY <1>2, <2>4, <3>1, <3>2, SetSlot
  <2>7. PutIn(p, fd, NoFile) /\ file' = [file EXCEPT ![f] = r]
    BY <1>4, <2>4 DEF PutIn
  <2>8. FileOK(r, "up", Now(p, f))
    BY <2>5, <2>6
  <2>9. NoFile \in {f, NoFile} /\ table[p][fd] \in {f, NoFile}
    BY <1>2
  <2>10. UNCHANGED <<started, state, nfiles, off, call, cwd, where, wrong, blame>>
    BY <1>4
  <2> QED
    BY <1>2, <2>1, <2>5, <2>7, <2>8, <2>9, <2>10, SlotStep
<1>5. CASE Misuse(f) = "no" /\ filefree(file[f]).mem = "freed" /\ Fault("unlock", f)
  <2>1. Cause("unlock", f)
    BY <1>2, <1>5, UnlockCause
  <2> QED
    BY <1>5, <2>1, FaultStep
<1> QED
  BY <1>1, <1>3, <1>4, <1>5 DEF sys_close

\* dup and dup3.
LEMMA DupStep ==
  ASSUME FilesInv, NEW p \in Procs, NEW oldfd, NEW newfd, fdfdup2(p, oldfd, newfd)
  PROVE  FilesInv'
<1>1. PICK f : f = fdfget(p, oldfd)
  OBVIOUS
<1>2. oldfd \in Slots /\ f = table[p][oldfd] /\ f # NoFile /\ Ready(p)
  BY <1>1, Descriptor DEF fdfdup2
<1>3. PICK fd : fd = IF newfd = -1 THEN Min(Free(p)) ELSE newfd
  OBVIOUS
<1>4. fd \in Slots /\ table[p][fd] = NoFile
  <2>1. Free(p) \subseteq Slots /\ Slots \subseteq Nat
    BY FilesAssumption DEF Free, Slots
  <2>2. Free(p) # {} => Min(Free(p)) \in Free(p)
    BY <2>1, LeastOf
  <2>3. fd \in Free(p)
    BY <1>3, <2>2 DEF fdfdup2
  <2> QED
    BY <2>3 DEF Free
<1>5. CASE Fault(Misuse(f), f)
  <2>1. Cause(Misuse(f), f)
    BY <1>2, <1>5, MisuseCause DEF Fault
  <2> QED
    BY <1>5, <2>1, FaultStep
<1>6. CASE /\ Misuse(f) = "no"
           /\ Assign(p, fd, f, [file[f] EXCEPT !.peak = Max({@, Cardinality(SlotsOf(f)) + 1})])
           /\ UNCHANGED <<started, state, nfiles, off, call, cwd, where, wrong, blame>>
  <2>1. /\ f \in DOMAIN file /\ file[f] \in FileRecord /\ file[f].owner = p
        /\ oldfd \in In(p, f) /\ In(p, f) \subseteq Slots /\ FileOK(file[f], state[p], In(p, f))
        /\ f \in 1 .. nfiles
    BY <1>2, SlotFile
  <2>2. file[f].mem = "live" /\ file[f].clean
    BY <1>2, <1>6, MisuseCause
  <2>3. state[p] = "up"
    BY <1>2, ReadyFacts
  <2>4. PICK r, S : r = Counted(file[f], Cardinality(In(p, f))) /\ S = In(p, f) \cup {fd}
    OBVIOUS
  <2>5. fd \notin In(p, f)
    BY <1>2, <1>4 DEF In
  <2>6. r \in FileRecord /\ FileOK(r, "up", S) /\ r.owner = p /\ r.kind = file[f].kind
    BY <1>4, <2>1, <2>2, <2>3, <2>4, <2>5, DupFile
  <2>7. PutIn(p, fd, f) /\ file' = [file EXCEPT ![f] = r]
    <3>1. Cardinality(SlotsOf(f)) = Cardinality(In(p, f))
      BY <2>1, SlotsOfOwner
    <3> QED
      BY <1>6, <2>4, <3>1 DEF Assign, Counted, PutIn
  <2>8. Now(p, f) = S
    <3>1. nfiles' \in Nat /\ nfiles <= nfiles' /\ f \in 0 .. nfiles'
      BY <1>6, <2>1, FilesAssumption DEF FilesInv, TypeOK
    <3> QED
      BY <1>4, <2>4, <2>7, <3>1, SetSlot
  <2>9. FileOK(r, "up", Now(p, f)) /\ table[p][fd] \in {f, NoFile} /\ f \in {f, NoFile}
    BY <1>4, <2>6, <2>8
  <2> QED
    BY <1>2, <1>4, <1>6, <2>1, <2>6, <2>7, <2>9, SlotStep
<1> QED
  BY <1>1, <1>3, <1>5, <1>6 DEF fdfdup2

\* Structures are added, and the slots that are set were free and get new
\* structures of their sandbox: the old structures keep their slots.
Grows ==
  /\ wrong = "no" /\ UNCHANGED <<started, state, off, call, cwd, where, wrong, blame>>
  /\ nfiles' \in 0 .. MaxFiles /\ nfiles <= nfiles'
  /\ file' \in Seq(FileRecord) /\ Len(file') = nfiles'
  /\ \A g \in DOMAIN file : file'[g] = file[g]
  /\ table' \in [Procs -> [Slots -> 0 .. nfiles']]
  /\ \A q \in Procs : call[q].pc # "idle" => table'[q] = table[q]
  /\ \A q \in Procs, j \in Slots :
       \/ table'[q][j] = table[q][j]
       \/ /\ table[q][j] = NoFile /\ table'[q][j] \in (nfiles + 1) .. nfiles'
          /\ file'[table'[q][j]].owner = q
  /\ \A g \in (nfiles + 1) .. nfiles' : FileOK(file'[g], state[file'[g].owner], Now(file'[g].owner, g))

LEMMA GrowStep ==
  ASSUME FilesInv, Grows
  PROVE  FilesInv'
<1>1. /\ nfiles \in 0 .. MaxFiles /\ nfiles' \in 0 .. MaxFiles /\ nfiles <= nfiles' /\ MaxFiles \in Nat
      /\ DOMAIN file = 1 .. nfiles /\ DOMAIN file' = 1 .. nfiles'
      /\ state \in [Procs -> {"up", "exited"}] /\ state' = state
  <2>1. nfiles \in 0 .. MaxFiles /\ file \in Seq(FileRecord) /\ Len(file) = nfiles
        /\ state \in [Procs -> {"up", "exited"}]
    BY DEF FilesInv, TypeOK
  <2>2. nfiles' \in 0 .. MaxFiles /\ file' \in Seq(FileRecord) /\ Len(file') = nfiles'
        /\ nfiles <= nfiles' /\ state' = state
    BY DEF Grows
  <2> QED
    BY <2>1, <2>2, FilesAssumption
<1>2. \A q \in Procs, j \in Slots :
        \/ table'[q][j] = table[q][j]
        \/ /\ table[q][j] = NoFile /\ table'[q][j] \in (nfiles + 1) .. nfiles'
           /\ file'[table'[q][j]].owner = q
  BY DEF Grows
<1>3. \A g \in DOMAIN file : file'[g] = file[g]
  BY DEF Grows
<1>4. ASSUME NEW q \in Procs, NEW j \in Slots, table'[q][j] # NoFile
      PROVE  file'[table'[q][j]].owner = q
  <2>1. CASE table'[q][j] = table[q][j]
    <3>1. table[q][j] \in DOMAIN file /\ file[table[q][j]].owner = q
      BY <1>4, <2>1, SlotFile
    <3> QED
      BY <1>3, <2>1, <3>1
  <2> QED
    BY <1>2, <2>1
<1>5. ASSUME NEW g \in DOMAIN file'
      PROVE  FileOK(file'[g], state'[file'[g].owner], Now(file'[g].owner, g))
  <2>1. CASE g \in 1 .. nfiles
    <3>1. PICK q : q = file[g].owner
      OBVIOUS
    <3>2. q \in Procs /\ g # NoFile /\ FileOK(file[g], state[q], In(q, g)) /\ file'[g] = file[g]
      BY <1>1, <1>3, <2>1, <3>1, KnownFile
    <3>3. \A j \in Slots : table'[q][j] = g <=> table[q][j] = g
      BY <1>1, <1>2, <2>1, <3>2
    <3>4. Now(q, g) = In(q, g)
      BY <3>3 DEF Now, In
    <3> QED
      BY <1>1, <3>1, <3>2, <3>4
  <2>2. CASE g \in (nfiles + 1) .. nfiles'
    BY <1>1, <2>2 DEF Grows
  <2> QED
    BY <1>1, <2>1, <2>2
<1>6. TableInv'
  BY <1>4, <1>5 DEF TableInv, In, Now
<1>7. Tabled
  BY <1>1, <1>3, <1>6 DEF Tabled, Grows
<1> QED
  BY <1>7, TableStep

\* openat.
LEMMA OpenStep ==
  ASSUME FilesInv, NEW p \in Procs, NEW path \in OpenPaths, sys_openat(p, path)
  PROVE  FilesInv'
<1>1. /\ Ready(p) /\ nfiles < MaxFiles /\ nfiles' = nfiles + 1
      /\ fdfassign(p, nfiles + 1, filenew("opened", path, p))
      /\ UNCHANGED <<started, state, off, call, cwd, where, wrong, blame>>
  BY DEF sys_openat
<1>2. wrong = "no" /\ state[p] = "up" /\ call[p].pc = "idle"
  BY <1>1, ReadyFacts
<1>3. /\ nfiles \in 0 .. MaxFiles /\ MaxFiles \in Nat /\ file \in Seq(FileRecord) /\ Len(file) = nfiles
      /\ table \in [Procs -> [Slots -> 0 .. nfiles]] /\ nfiles \in Nat
  BY FilesAssumption DEF FilesInv, TypeOK
<1>4. nfiles' \in 0 .. MaxFiles /\ nfiles <= nfiles' /\ nfiles' \in Nat
  BY <1>1, <1>3
<1>5. PICK r, f : r = filenew("opened", path, p) /\ f = nfiles + 1
  OBVIOUS
<1>6. /\ r \in FileRecord /\ r.kind = "opened" /\ r.mem = "live" /\ r.refs = 0 /\ r.open
      /\ r.clean /\ r.owner = p /\ r.peak = 1 /\ ~r.taken /\ ~r.half
  BY <1>5, NewFile DEF Kinds
<1>7. \A s \in FileRecord : file' = Append(file, s) =>
        /\ file' \in Seq(FileRecord) /\ Len(file') = nfiles' /\ file'[f] = s
        /\ \A g \in DOMAIN file : file'[g] = file[g]
  BY <1>1, <1>3, <1>5
<1>8. \A g \in (nfiles + 1) .. nfiles' : g = f
  BY <1>1, <1>3, <1>5
<1>9. CASE /\ file' = Append(file, [r EXCEPT !.taken = TRUE, !.peak = 0]) /\ UNCHANGED table
  <2>1. PICK s : s = [r EXCEPT !.taken = TRUE, !.peak = 0]
    OBVIOUS
  <2>2. /\ s \in FileRecord /\ s.kind = "opened" /\ s.mem = "live" /\ s.open /\ s.owner = p
        /\ s.peak = 0 /\ s.taken
    <3>1. 0 \in 0 .. NOFILE
      BY FilesAssumption
    <3> QED
      BY <1>6, <2>1, <3>1 DEF FileRecord
  <2>3. /\ file' \in Seq(FileRecord) /\ Len(file') = nfiles' /\ file'[f] = s
        /\ \A g \in DOMAIN file : file'[g] = file[g]
    BY <1>7, <1>9, <2>1, <2>2
  <2>4. Now(p, f) = {}
    <3>1. \A j \in Slots : table'[p][j] \in 0 .. nfiles
      BY <1>3, <1>9
    <3>2. \A j \in Slots : table'[p][j] # f
      BY <1>3, <1>5, <3>1
    <3> QED
      BY <3>2 DEF Now
  <2>5. FileOK(s, "up", {})
    BY <2>2, FS_EmptySet DEF FileOK
  <2>6. \A g \in (nfiles + 1) .. nfiles' :
          FileOK(file'[g], state[file'[g].owner], Now(file'[g].owner, g))
    BY <1>2, <1>8, <2>2, <2>3, <2>4, <2>5
  <2>7. table' \in [Procs -> [Slots -> 0 .. nfiles']]
    <3>1. 0 .. nfiles \subseteq 0 .. nfiles'
      BY <1>3, <1>4
    <3> QED
      BY <1>3, <1>9, <3>1
  <2>8. Grows
    BY <1>1, <1>2, <1>4, <1>9, <2>3, <2>6, <2>7 DEF Grows
  <2> QED
    BY <2>8, GrowStep
<1>10. CASE /\ Free(p) # {} /\ table' = [table EXCEPT ![p][Min(Free(p))] = f]
            /\ file' = Append(file, [r EXCEPT !.refs = 1])
  <2>1. PICK s, i : s = [r EXCEPT !.refs = 1] /\ i = Min(Free(p))
    OBVIOUS
  <2>2. /\ s \in FileRecord /\ s.kind = "opened" /\ s.mem = "live" /\ s.open /\ s.owner = p
        /\ s.peak = 1 /\ s.refs = 1
    <3>1. 1 \in 0 .. RefMod - 1
      BY FilesAssumption
    <3> QED
      BY <1>6, <2>1, <3>1 DEF FileRecord
  <2>3. /\ file' \in Seq(FileRecord) /\ Len(file') = nfiles' /\ file'[f] = s
        /\ \A g \in DOMAIN file : file'[g] = file[g]
    BY <1>7, <1>10, <2>1, <2>2
  <2>4. i \in Slots /\ table[p][i] = NoFile
    <3>1. Free(p) \subseteq Slots /\ Slots \subseteq Nat
      BY FilesAssumption DEF Free, Slots
    <3>2. i \in Free(p)
      BY <1>10, <2>1, <3>1, LeastOf
    <3> QED
      BY <3>2 DEF Free
  <2>5. PutIn(p, i, f) /\ f \in 0 .. nfiles' /\ f \in (nfiles + 1) .. nfiles'
    BY <1>1, <1>3, <1>5, <1>10, <2>1 DEF PutIn
  <2>6. /\ table' \in [Procs -> [Slots -> 0 .. nfiles']]
        /\ \A q \in Procs \ {p} : table'[q] = table[q]
        /\ \A q \in Procs, j \in Slots : table'[q][j] = IF q = p /\ j = i THEN f ELSE table[q][j]
    BY <1>4, <2>4, <2>5, SetSlot
  <2>7. Now(p, f) = {i}
    <3>1. \A j \in Slots : table[p][j] \in 0 .. nfiles
      BY <1>3
    <3>2. \A j \in Slots : table[p][j] # f
      BY <1>3, <1>5, <3>1
    <3> QED
      BY <2>4, <2>6, <3>2 DEF Now
  <2>8. FileOK(s, "up", {i})
    <3>1. Cardinality({i}) = 1 /\ {i} # {}
      BY FS_Singleton
    <3> QED
      BY <2>2, <3>1 DEF FileOK
  <2>9. \A g \in (nfiles + 1) .. nfiles' :
          FileOK(file'[g], state[file'[g].owner], Now(file'[g].owner, g))
    BY <1>2, <1>8, <2>2, <2>3, <2>7, <2>8
  <2>10. \A q \in Procs, j \in Slots :
           \/ table'[q][j] = table[q][j]
           \/ /\ table[q][j] = NoFile /\ table'[q][j] \in (nfiles + 1) .. nfiles'
              /\ file'[table'[q][j]].owner = q
    BY <2>2, <2>3, <2>4, <2>5, <2>6
  <2>11. \A q \in Procs : call[q].pc # "idle" => table'[q] = table[q]
    BY <1>2, <2>6
  <2>12. Grows
    BY <1>1, <1>2, <1>4, <2>3, <2>6, <2>9, <2>10, <2>11 DEF Grows
  <2> QED
    BY <2>12, GrowStep
<1> QED
  BY <1>1, <1>5, <1>9, <1>10 DEF fdfassign

\* An end of a pipe, in the slots S: one if its lps_pipe_new succeeds, at most
\* one if not.
LEMMA EndFile ==
  ASSUME NEW kind \in {"rend", "wend"}, NEW zeroes \in BOOLEAN, NEW p \in Procs, NEW ok \in BOOLEAN,
         NEW S, S = {} \/ \E i : S = {i}, ok => S # {}
  PROVE  LET r == pipe_end(kind, zeroes, p, ok)
         IN  r \in FileRecord /\ r.owner = p /\ FileOK(r, "up", S)
<1>1. PICK n, r : n = filenew(kind, NoPath, p) /\ r = pipe_end(kind, zeroes, p, ok)
  OBVIOUS
<1>2. /\ n \in FileRecord /\ n.kind = kind /\ n.mem = "live" /\ n.refs = 0 /\ n.open
      /\ n.clean /\ n.owner = p /\ n.peak = 1 /\ ~n.taken /\ ~n.half
  BY <1>1, NewFile DEF Kinds
<1>3. r = [n EXCEPT !.clean = zeroes, !.half = ~ok, !.mem = IF ok THEN n.mem ELSE "freed"]
  BY <1>1 DEF pipe_end
<1>4. /\ r \in FileRecord /\ r.kind = kind /\ r.refs = 0 /\ r.open /\ r.owner = p /\ r.peak = 1
      /\ r.half = ~ok /\ r.mem = IF ok THEN "live" ELSE "freed"
  BY <1>2, <1>3 DEF FileRecord
<1>5. (S = {} /\ Cardinality(S) = 0) \/ (S # {} /\ Cardinality(S) = 1)
  <2>1. CASE S = {}
    BY <2>1, FS_EmptySet
  <2>2. CASE \E i : S = {i}
    BY <2>2, FS_Singleton
  <2> QED
    BY <2>1, <2>2
<1>6. CASE ok
  <2>1. /\ r.kind # "opened" /\ r.refs + 1 = 1 /\ r.open /\ r.peak = 1 /\ r.mem = "live"
        /\ S # {} /\ Cardinality(S) = 1
    BY <1>4, <1>5, <1>6
  <2> QED
    BY <1>1, <1>4, <2>1 DEF FileOK
<1>7. CASE ~ok
  <2>1. /\ r.open /\ r.peak = 1 /\ r.mem = "freed" /\ r.half
        /\ Cardinality(S) \in {0, 1}
    BY <1>4, <1>5, <1>7
  <2> QED
    BY <1>1, <1>4, <2>1 DEF FileOK
<1> QED
  BY <1>6, <1>7

\* lps_pipe_new.
LEMMA PipeNewStep ==
  ASSUME FilesInv, NEW from \in Procs, NEW to \in Procs, NEW i \in PipeFds, NEW j \in PipeFds,
         lps_pipe_new(from, i, to, j)
  PROVE  FilesInv'
<1>1. /\ wrong = "no" /\ ~started /\ nfiles + 2 <= MaxFiles /\ nfiles' = nfiles + 2
      /\ UNCHANGED <<started, state, off, call, cwd, where, wrong, blame>>
  BY DEF lps_pipe_new
<1>2. i \in Slots /\ j \in Slots
  BY FilesAssumption
<1>3. \A q \in Procs : state[q] = "up" /\ call[q].pc = "idle"
  BY <1>1 DEF FilesInv, StartInv, CallInv
<1>4. /\ nfiles \in 0 .. MaxFiles /\ MaxFiles \in Nat /\ file \in Seq(FileRecord) /\ Len(file) = nfiles
      /\ table \in [Procs -> [Slots -> 0 .. nfiles]] /\ nfiles \in Nat
  BY FilesAssumption DEF FilesInv, TypeOK
<1>5. nfiles' \in 0 .. MaxFiles /\ nfiles <= nfiles' /\ nfiles' \in Nat
  BY <1>1, <1>4
<1>6. PICK rend, wend : rend = nfiles + 1 /\ wend = nfiles + 2
  OBVIOUS
<1>7. PICK t1 : t1 = [table EXCEPT ![to][j] = rend]
  OBVIOUS
<1>8. PICK zeroes \in BOOLEAN, ok \in BOOLEAN :
        /\ file' = file \o <<pipe_end("rend", zeroes, to, ok), pipe_end("wend", zeroes, from, ok)>>
        /\ \/ ~ok /\ UNCHANGED table
           \/ ~ok /\ table[to][j] = NoFile /\ table' = t1
           \/ /\ ok /\ table[to][j] = NoFile /\ t1[from][i] = NoFile
              /\ table' = [t1 EXCEPT ![from][i] = wend]
  BY <1>6, <1>7 DEF lps_pipe_new
<1>9. PICK r, w : r = pipe_end("rend", zeroes, to, ok) /\ w = pipe_end("wend", zeroes, from, ok)
  OBVIOUS
<1>10. /\ \A q \in Procs, k \in Slots : table[q][k] \in 0 .. nfiles
       /\ \A q \in Procs, k \in Slots : table[q][k] # rend /\ table[q][k] # wend
       /\ rend # NoFile /\ wend # NoFile /\ rend # wend
       /\ rend \in (nfiles + 1) .. nfiles' /\ wend \in (nfiles + 1) .. nfiles'
       /\ \A g \in (nfiles + 1) .. nfiles' : g = rend \/ g = wend
  <2>1. \A q \in Procs, k \in Slots : table[q][k] \in 0 .. nfiles
    BY <1>4
  <2> QED
    BY <1>1, <1>4, <1>6, <2>1 DEF NoFile
<1>11. \A q \in Procs, k \in Slots : t1[q][k] = IF q = to /\ k = j THEN rend ELSE table[q][k]
  BY <1>2, <1>4, <1>7
<1>12. t1 \in [Procs -> [Slots -> 0 .. nfiles']] /\ table \in [Procs -> [Slots -> 0 .. nfiles']]
  <2>1. 0 .. nfiles \subseteq 0 .. nfiles' /\ rend \in 0 .. nfiles'
    BY <1>1, <1>4, <1>6
  <2>2. table \in [Procs -> [Slots -> 0 .. nfiles']]
    BY <1>4, <2>1
  <2>3. [table[to] EXCEPT ![j] = rend] \in [Slots -> 0 .. nfiles']
    BY <1>2, <2>1, <2>2
  <2>4. t1 = [table EXCEPT ![to] = [table[to] EXCEPT ![j] = rend]]
    BY <1>7
  <2> QED
    BY <2>2, <2>3, <2>4
<1>13. PICK R, W :
         /\ R = {} \/ R = {j}
         /\ W = {} \/ W = {i}
         /\ ok => R = {j} /\ W = {i}
         /\ Now(to, rend) = R /\ Now(from, wend) = W
         /\ table' \in [Procs -> [Slots -> 0 .. nfiles']]
         /\ \A q \in Procs, k \in Slots :
              \/ table'[q][k] = table[q][k]
              \/ table[q][k] = NoFile /\ table'[q][k] = rend /\ q = to
              \/ table[q][k] = NoFile /\ table'[q][k] = wend /\ q = from
  <2>1. CASE ~ok /\ UNCHANGED table
    <3>1. Now(to, rend) = {} /\ Now(from, wend) = {}
      BY <1>10, <2>1 DEF Now
    <3> QED
      BY <1>12, <2>1, <3>1
  <2>2. CASE ~ok /\ table[to][j] = NoFile /\ table' = t1
    <3>1. \A q \in Procs, k \in Slots : table'[q][k] = IF q = to /\ k = j THEN rend ELSE table[q][k]
      BY <1>11, <2>2
    <3>2. Now(to, rend) = {j} /\ Now(from, wend) = {}
      BY <1>2, <1>10, <3>1 DEF Now
    <3> QED
      BY <1>12, <2>2, <3>1, <3>2
  <2>3. CASE /\ ok /\ table[to][j] = NoFile /\ t1[from][i] = NoFile
             /\ table' = [t1 EXCEPT ![from][i] = wend]
    <3>1. \A q \in Procs, k \in Slots :
            table'[q][k] = IF q = from /\ k = i THEN wend
                           ELSE IF q = to /\ k = j THEN rend ELSE table[q][k]
      BY <1>2, <1>11, <1>12, <2>3
    <3>2. ~(from = to /\ i = j) /\ table[from][i] = NoFile
      BY <1>2, <1>10, <1>11, <2>3
    <3>3. Now(to, rend) = {j} /\ Now(from, wend) = {i}
      BY <1>2, <1>10, <3>1, <3>2 DEF Now
    <3>4. table' \in [Procs -> [Slots -> 0 .. nfiles']]
      <4>1. wend \in 0 .. nfiles'
        BY <1>1, <1>4, <1>6
      <4>2. [t1[from] EXCEPT ![i] = wend] \in [Slots -> 0 .. nfiles']
        BY <1>2, <1>12, <4>1
      <4>3. table' = [t1 EXCEPT ![from] = [t1[from] EXCEPT ![i] = wend]]
        BY <2>3
      <4> QED
        BY <1>12, <4>2, <4>3
    <3>5. \A q \in Procs, k \in Slots :
            \/ table'[q][k] = table[q][k]
            \/ table[q][k] = NoFile /\ table'[q][k] = rend /\ q = to
            \/ table[q][k] = NoFile /\ table'[q][k] = wend /\ q = from
      BY <2>3, <3>1, <3>2
    <3> QED
      BY <3>3, <3>4, <3>5
  <2> QED
    BY <1>8, <2>1, <2>2, <2>3
<1>14. /\ r \in FileRecord /\ r.owner = to /\ FileOK(r, "up", R)
       /\ w \in FileRecord /\ w.owner = from /\ FileOK(w, "up", W)
  <2>1. (R = {} \/ \E k : R = {k}) /\ (ok => R # {})
    BY <1>13
  <2>2. (W = {} \/ \E k : W = {k}) /\ (ok => W # {})
    BY <1>13
  <2> QED
    BY <1>9, <2>1, <2>2, EndFile
<1>15. /\ file' \in Seq(FileRecord) /\ Len(file') = nfiles' /\ file'[rend] = r /\ file'[wend] = w
       /\ \A g \in DOMAIN file : file'[g] = file[g]
  <2>1. file' = file \o <<r, w>> /\ <<r, w>> \in Seq(FileRecord) /\ Len(<<r, w>>) = 2
    BY <1>8, <1>9, <1>14
  <2>2. file' \in Seq(FileRecord) /\ Len(file') = nfiles'
    BY <1>1, <1>4, <2>1
  <2>3. Len(file) + 1 = rend /\ Len(file) + 2 = wend
    BY <1>4, <1>6
  <2>4. file'[rend] = <<r, w>>[1] /\ file'[wend] = <<r, w>>[2]
    BY <1>4, <2>1, <2>3
  <2>5. \A g \in DOMAIN file : file'[g] = file[g]
    BY <1>4, <2>1
  <2> QED
    BY <2>2, <2>4, <2>5
<1>16. \A g \in (nfiles + 1) .. nfiles' :
         FileOK(file'[g], state[file'[g].owner], Now(file'[g].owner, g))
  <2>1. FileOK(file'[rend], state[file'[rend].owner], Now(file'[rend].owner, rend))
    BY <1>3, <1>13, <1>14, <1>15
  <2>2. FileOK(file'[wend], state[file'[wend].owner], Now(file'[wend].owner, wend))
    BY <1>3, <1>13, <1>14, <1>15
  <2> QED
    BY <1>10, <2>1, <2>2, Zenon
<1>17. \A q \in Procs, k \in Slots :
         \/ table'[q][k] = table[q][k]
         \/ /\ table[q][k] = NoFile /\ table'[q][k] \in (nfiles + 1) .. nfiles'
            /\ file'[table'[q][k]].owner = q
  BY <1>10, <1>13, <1>14, <1>15
<1>18. Grows
  BY <1>1, <1>3, <1>5, <1>13, <1>15, <1>16, <1>17 DEF Grows
<1> QED
  BY <1>18, GrowStep

\* What fdfree runs into at a slot has a cause: a file in two slots, or what
\* the slot holds.
LEMMA MeetsCause ==
  ASSUME FilesInv, NEW p \in Procs, NEW i \in Slots, table[p][i] # NoFile, Meets(p, i) # "no"
  PROVE  Cause(Meets(p, i), table[p][i])
<1>1. PICK f : f = table[p][i]
  OBVIOUS
<1>2. CASE \E j \in 0 .. i - 1 : table[p][j] = f
  <2>1. PICK j \in 0 .. i - 1 : table[p][j] = f
    BY <1>2
  <2>2. j \in Slots /\ j # i /\ i \in In(p, f) /\ j \in In(p, f)
    <3>1. j \in Slots /\ j # i
      BY FilesAssumption DEF Slots
    <3> QED
      BY <1>1, <2>1, <3>1 DEF In
  <2>3. /\ f \in DOMAIN file /\ file[f] \in FileRecord
        /\ In(p, f) \subseteq Slots /\ FileOK(file[f], state[p], In(p, f))
    BY <1>1, SlotFile
  <2>4. Cardinality(In(p, f)) >= 2
    <3>1. IsFiniteSet(In(p, f)) /\ Cardinality(In(p, f)) \in Nat
      BY <2>3, SlotsFinite
    <3>2. {i, j} \in SUBSET In(p, f)
      BY <2>2
    <3>3. Cardinality({i, j}) <= Cardinality(In(p, f))
      BY <3>1, <3>2, FS_Subset
    <3>4. Cardinality({i, j}) = 2
      <4>1. IsFiniteSet({i}) /\ Cardinality({i}) = 1
        BY FS_Singleton
      <4>2. j \notin {i}
        BY <2>2
      <4>3. Cardinality({i} \cup {j}) = 1 + 1
        BY <4>1, <4>2, FS_AddElement
      <4>4. {i} \cup {j} = {i, j}
        OBVIOUS
      <4> QED
        BY <4>3, <4>4
    <3> QED
      BY <3>1, <3>3, <3>4
  <2>5. file[f].peak >= 2
    <3>1. Cardinality(In(p, f)) <= file[f].peak
      BY <2>3 DEF FileOK
    <3>2. file[f].peak \in Nat /\ Cardinality(In(p, f)) \in Nat
      BY <2>3, SlotsFinite, FilesAssumption DEF FileRecord
    <3> QED
      BY <2>4, <3>1, <3>2
  <2>6. Meets(p, i) = "dangling"
    BY <1>1, <1>2 DEF Meets
  <2> QED
    BY <1>1, <2>3, <2>5, <2>6 DEF Cause, FilesInv, TypeOK
<1>3. CASE ~\E j \in 0 .. i - 1 : table[p][j] = f
  <2>1. Meets(p, i) = Misuse(f)
    BY <1>1, <1>3 DEF Meets
  <2> QED
    BY <1>1, <2>1, MisuseCause
<1> QED
  BY <1>2, <1>3

\* A function on 1 .. n is a sequence.
LEMMA IsSeqOf ==
  ASSUME NEW S, NEW n \in Nat, NEW F, F = [i \in 1 .. n |-> F[i]], \A i \in 1 .. n : F[i] \in S
  PROVE  F \in Seq(S) /\ Len(F) = n
<1>1. F \in [1 .. n -> S]
  OBVIOUS
<1> QED
  BY <1>1

\* exit.
LEMMA ExitStep ==
  ASSUME FilesInv, NEW p \in Procs, sys_exit(p)
  PROVE  FilesInv'
<1>1. PICK bad : bad = {i \in Slots \ Free(p) : Meets(p, i) # "no"}
  OBVIOUS
<1>2. wrong = "no" /\ started /\ state[p] = "up" /\ call[p].pc = "idle"
  BY ReadyFacts DEF sys_exit
<1>3. CASE bad # {} /\ Fault(Meets(p, Min(bad)), table[p][Min(bad)])
  <2>1. bad \subseteq Nat
    BY <1>1, FilesAssumption DEF Slots
  <2>2. PICK i : i = Min(bad)
    OBVIOUS
  <2>3. i \in bad
    BY <1>3, <2>1, <2>2, LeastOf
  <2>4. i \in Slots /\ table[p][i] # NoFile /\ Meets(p, i) # "no"
    BY <1>1, <2>3 DEF Free
  <2>5. Cause(Meets(p, i), table[p][i])
    BY <2>4, MeetsCause
  <2> QED
    BY <1>3, <2>2, <2>5, FaultStep
<1>4. CASE /\ file' = fdfree(p) /\ table' = [table EXCEPT ![p] = [i \in Slots |-> NoFile]]
           /\ state' = [state EXCEPT ![p] = "exited"]
           /\ UNCHANGED <<started, nfiles, off, call, cwd, where, wrong, blame>>
  <2>1. /\ nfiles \in 0 .. MaxFiles /\ MaxFiles \in Nat /\ file \in Seq(FileRecord) /\ Len(file) = nfiles
        /\ DOMAIN file = 1 .. nfiles
        /\ table \in [Procs -> [Slots -> 0 .. nfiles]] /\ nfiles \in Nat
        /\ state \in [Procs -> {"up", "exited"}]
    <3>1. /\ nfiles \in 0 .. MaxFiles /\ file \in Seq(FileRecord) /\ Len(file) = nfiles
          /\ table \in [Procs -> [Slots -> 0 .. nfiles]]
          /\ state \in [Procs -> {"up", "exited"}]
      BY DEF FilesInv, TypeOK
    <3> QED
      BY <3>1, FilesAssumption
  <2>2. /\ state' \in [Procs -> {"up", "exited"}] /\ state'[p] = "exited"
        /\ \A q \in Procs \ {p} : state'[q] = state[q]
    BY <1>4, <2>1
  <2>3. /\ table' \in [Procs -> [Slots -> 0 .. nfiles']] /\ \A i \in Slots : table'[p][i] = NoFile
        /\ \A q \in Procs \ {p} : table'[q] = table[q]
    <3>1. [i \in Slots |-> NoFile] \in [Slots -> 0 .. nfiles]
      BY <2>1 DEF NoFile
    <3> QED
      BY <1>4, <2>1, <3>1
  <2>4. ASSUME NEW f \in DOMAIN file
        PROVE  /\ file'[f] \in FileRecord /\ file'[f].kind = file[f].kind
               /\ file'[f].owner = file[f].owner
               /\ FileOK(file'[f], state'[file[f].owner], Now(file[f].owner, f))
    <3>1. PICK q : q = file[f].owner
      OBVIOUS
    <3>2. file[f] \in FileRecord /\ q \in Procs /\ FileOK(file[f], state[q], In(q, f)) /\ f # NoFile
      BY <3>1, KnownFile
    <3>3. file'[f] = IF \E i \in Slots : table[p][i] = f
                     THEN [file[f] EXCEPT !.open = FALSE, !.mem = "freed"] ELSE file[f]
      BY <1>4 DEF fdfree
    <3>4. CASE \E i \in Slots : table[p][i] = f
      <4>1. q = p
        BY <3>1, <3>2, <3>4 DEF FilesInv, TableInv
      <4>2. Now(p, f) = {}
        BY <2>3, <3>2 DEF Now
      <4>3. file'[f] = [file[f] EXCEPT !.open = FALSE, !.mem = "freed"]
        BY <3>3, <3>4
      <4>4. /\ file'[f] \in FileRecord /\ file'[f].kind = file[f].kind
            /\ file'[f].owner = file[f].owner /\ FileOK(file'[f], "exited", {})
        BY <3>2, <4>3, ExitFile
      <4> QED
        BY <2>2, <3>1, <4>1, <4>2, <4>4
    <3>5. CASE ~\E i \in Slots : table[p][i] = f
      <4>1. file'[f] = file[f]
        BY <3>3, <3>5
      <4>2. CASE q = p
        <5>1. In(p, f) = {} /\ Now(p, f) = {}
          BY <2>3, <3>2, <3>5 DEF In, Now
        <5>2. FileOK(file[f], "exited", {})
          BY <1>2, <3>2, <4>2, <5>1, LeftFile
        <5> QED
          BY <2>2, <3>1, <3>2, <4>1, <4>2, <5>1, <5>2
      <4>3. CASE q # p
        <5>1. Now(q, f) = In(q, f) /\ state'[q] = state[q]
          BY <2>2, <2>3, <3>2, <4>3 DEF In, Now
        <5> QED
          BY <3>1, <3>2, <4>1, <5>1
      <4> QED
        BY <4>2, <4>3
    <3> QED
      BY <3>4, <3>5
  <2>5. file' \in Seq(FileRecord) /\ Len(file') = nfiles' /\ DOMAIN file' = DOMAIN file
    <3>1. DOMAIN file' = 1 .. nfiles /\ \E F : file' = [f \in 1 .. nfiles |-> F[f]]
      <4>1. file' = [f \in 1 .. nfiles |-> fdfree(p)[f]]
        BY <1>4, <2>1 DEF fdfree
      <4> QED
        BY <4>1
    <3>2. file' = [f \in 1 .. nfiles |-> file'[f]]
      BY <3>1
    <3>3. \A f \in 1 .. nfiles : file'[f] \in FileRecord
      BY <2>1, <2>4
    <3>4. file' \in Seq(FileRecord) /\ Len(file') = nfiles
      BY <2>1, <3>2, <3>3, IsSeqOf
    <3> QED
      BY <1>4, <2>1, <3>1, <3>4
  <2>6. TableInv'
    <3>1. ASSUME NEW q \in Procs, NEW i \in Slots, table'[q][i] # NoFile
          PROVE  file'[table'[q][i]].owner = q
      <4>1. table'[q][i] = table[q][i]
        BY <2>3, <3>1
      <4>2. table[q][i] \in DOMAIN file /\ file[table[q][i]].owner = q
        BY <3>1, <4>1, SlotFile
      <4> QED
        BY <2>4, <4>1, <4>2
    <3>2. \A f \in DOMAIN file' : FileOK(file'[f], state'[file'[f].owner], Now(file'[f].owner, f))
      BY <2>4, <2>5
    <3> QED
      BY <3>1, <3>2 DEF TableInv, In, Now
  <2>7. Tabled
    <3>1. nfiles' = nfiles /\ nfiles <= nfiles' /\ UNCHANGED <<started, off, call, cwd, where, wrong, blame>>
      BY <1>4, <2>1
    <3>2. \A q \in Procs : call[q].pc # "idle" => table'[q] = table[q] /\ state'[q] = state[q]
      BY <1>2, <2>2, <2>3
    <3> QED
      BY <1>2, <2>1, <2>2, <2>3, <2>4, <2>5, <2>6, <3>1, <3>2 DEF Tabled
  <2> QED
    BY <2>7, TableStep
<1> QED
  BY <1>1, <1>3, <1>4 DEF sys_exit

-----------------------------------------------------------------------------
(* The theorems *)

\* Every step keeps the invariant.
LEMMA NextFiles ==
  ASSUME FilesInv, [Next]_vars
  PROVE  FilesInv'
<1>1. CASE UNCHANGED vars
  BY <1>1, NoStep
<1>2. CASE start
  BY <1>2, StartStep
<1>3. CASE \E from, to \in Procs, i, j \in PipeFds : lps_pipe_new(from, i, to, j)
  BY <1>3, PipeNewStep
<1>4. CASE \E p \in Procs, path \in OpenPaths : sys_openat(p, path)
  BY <1>4, OpenStep
<1>5. CASE \E p \in Procs, path \in ChdirPaths : sys_chdir(p, path)
  <2>1. PICK p \in Procs, path \in ChdirPaths : sys_chdir(p, path)
    BY <1>5
  <2>2. /\ path \in Path /\ proc_chdir(p, path)
        /\ Goes(p, IF where[p] = Astray /\ ~path.abs THEN Astray ELSE Resolve(where[p], path))
        /\ UNCHANGED <<started, state, table, file, nfiles, off, call, wrong, blame>>
    BY <2>1, FilesAssumption DEF sys_chdir
  <2> QED
    BY <2>2, ChdirStep
<1>6. CASE \E p \in Procs : \/ sys_exit(p) \/ vec_next(p) \/ return(p)
                            \/ pread_seek(p) \/ pread_read(p) \/ pread_back(p)
  BY <1>6, ExitStep, VecStep, ReturnStep, PreadStep
<1>7. ASSUME NEW p \in Procs, NEW fd \in -1 .. NOFILE,
             \/ sys_close(p, fd) \/ sys_dup(p, fd) \/ sys_fchdir(p, fd)
             \/ sys_lseek(p, fd) \/ sys_pread64(p, fd) \/ mmap_kfd(p, fd)
      PROVE  FilesInv'
  BY <1>7, CloseStep, DupStep, FchdirStep, LseekStep, Pread64Step, MmapStep DEF sys_dup
<1>8. ASSUME NEW p \in Procs, NEW fd \in -1 .. NOFILE,
             \/ sys_read(p, fd) \/ sys_write(p, fd) \/ sys_readv(p, fd) \/ sys_writev(p, fd)
      PROVE  FilesInv'
  <2>1. "read" \in {"read", "write"} /\ "write" \in {"read", "write"}
    OBVIOUS
  <2> QED
    BY <1>8, <2>1, RwStep, VectorsStep DEF sys_read, sys_write, sys_readv, sys_writev
<1>9. ASSUME NEW p \in Procs, NEW fd \in -1 .. NOFILE,
             \/ sys_getdents64(p, fd) \/ sys_newfstatat(p, fd) \/ sys_fchmod(p, fd)
             \/ sys_ftruncate(p, fd) \/ sys_fchown(p, fd) \/ sys_fsync(p, fd) \/ sys_ioctl(p, fd)
      PROVE  FilesInv'
  BY <1>9, PassStep DEF sys_getdents64, sys_newfstatat, sys_fchmod, sys_ftruncate, sys_fchown,
                        sys_fsync, sys_ioctl
<1>10. CASE \E p \in Procs, oldfd \in -1 .. NOFILE, newfd \in -1 .. NOFILE : sys_dup3(p, oldfd, newfd)
  BY <1>10, DupStep DEF sys_dup3
<1> QED
  BY <1>1, <1>2, <1>3, <1>4, <1>5, <1>6, <1>7, <1>8, <1>9, <1>10 DEF Next

\* The invariant holds in every state.
THEOREM FilesHold == Spec => []FilesInv
BY InitFiles, NextFiles, PTL DEF Spec

\* Tables, structures, offsets and calls keep their types; in particular refs
\* stays below the width it wraps at and no slot points past the structures
\* there are.
THEOREM FilesTypesHold == Spec => []TypeOK
<1>1. FilesInv => TypeOK
  BY DEF FilesInv
<1> QED
  BY <1>1, FilesHold, PTL

\* refs is the number of slots that hold the file, one less for a file that
\* entered its table uncounted, through every order of open, dup, close and
\* exit of any number of sandboxes.
THEOREM RefsMatchSlotsHolds == Spec => []RefsMatchSlots
<1>1. FilesInv => RefsMatchSlots
  <2> SUFFICES ASSUME FilesInv, NEW f \in Held, file[f].clean
               PROVE  file[f].refs + (IF Uncounted(f) THEN 1 ELSE 0) = Cardinality(SlotsOf(f))
    BY DEF RefsMatchSlots
  <2>1. PICK p : p = file[f].owner
    OBVIOUS
  <2>2. f \in DOMAIN file /\ file[f].mem = "live" /\ SlotsOf(f) # {}
    BY DEF Held
  <2>3. Cardinality(SlotsOf(f)) = Cardinality(In(p, f)) /\ In(p, f) # {}
    BY <2>1, <2>2, SlotsOfOwner
  <2>4. IsFiniteSet(In(p, f))
    BY SlotsFinite DEF In
  <2>5. Cardinality(In(p, f)) # 0
    BY <2>3, <2>4, FS_EmptySet
  <2>6. FileOK(file[f], state[p], In(p, f))
    BY <2>1, <2>2, KnownFile
  <2> QED
    BY <2>2, <2>3, <2>5, <2>6 DEF FileOK, Uncounted
<1> QED
  BY <1>1, FilesHold, PTL

\* Without a dup (two for a file that entered uncounted) and without a failed
\* lps_pipe_new, every slot of every table holds a live structure whose host
\* descriptor is open.
THEOREM SharedBeforeDanglingHolds == Spec => []SharedBeforeDangling
<1>1. FilesInv => SharedBeforeDangling
  <2> SUFFICES ASSUME FilesInv, NEW p \in Procs, NEW i \in Slots, NEW f, f = table[p][i], f # NoFile
               PROVE  \/ file[f].mem = "live" /\ file[f].open
                      \/ file[f].half
                      \/ file[f].peak >= IF Uncounted(f) THEN 3 ELSE 2
    BY DEF SharedBeforeDangling
  <2>1. i \in In(p, f) /\ FileOK(file[f], state[p], In(p, f))
    BY SlotFile
  <2> QED
    BY <2>1 DEF FileOK, Uncounted
<1> QED
  BY <1>1, FilesHold, PTL

\* The undefined behaviour of the file calls has no source but these, each in
\* the history of the structure it happens with: a dup, a failed lps_pipe_new,
\* the members pipe_new leaves unset, a pointer used without a test, and
\* filefree's unlock of a structure it has just freed.
THEOREM FaultHasCauseHolds == Spec => []FaultHasCause
<1>1. FilesInv => FaultHasCause
  BY DEF FilesInv
<1> QED
  BY <1>1, FilesHold, PTL

\* fdfree leaves open only what sys_close or a full table took out of its sight.
THEOREM ExitClosesRestHolds == Spec => []ExitClosesRest
<1>1. FilesInv => ExitClosesRest
  <2> SUFFICES ASSUME FilesInv, NEW f \in DOMAIN file, state[file[f].owner] = "exited", file[f].open
               PROVE  file[f].taken \/ file[f].half
    BY DEF ExitClosesRest
  <2>1. FileOK(file[f], state[file[f].owner], In(file[f].owner, f))
    BY KnownFile
  <2> QED
    BY <2>1 DEF FileOK
<1> QED
  BY <1>1, FilesHold, PTL

\* readv and writev move the file by exactly what they return, and pread64 puts
\* it back, however the calls of other sandboxes come in between.
THEOREM OffsetMovesByResultHolds == Spec => []OffsetMovesByResult
<1>1. FilesInv => OffsetMovesByResult
  <2> SUFFICES ASSUME FilesInv, NEW p \in Procs, NEW f, f = table[p][call[p].fd],
                      call[p].pc = "ret", file[f].kind = "opened"
               PROVE  /\ call[p].op = "pread" => off[f] = call[p].start
                      /\ call[p].op # "pread" /\ call[p].n >= 0 => off[f] = call[p].start + call[p].n
    BY DEF OffsetMovesByResult, OffsetOf
  <2>1. CallOK(call[p], file[f].kind, off[f])
    BY UnderWay
  <2> QED
    BY <2>1 DEF CallOK
<1> QED
  BY <1>1, FilesHold, PTL
=============================================================================
