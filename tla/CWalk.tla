------------------------------- MODULE CWalk -------------------------------
(***************************************************************************)
(* The part of the path library (lps-linux/cwalk.c) that the runtime uses: *)
(* cwk_path_is_absolute and cwk_path_join, in its UNIX style.              *)
(*                                                                         *)
(* A path is its root and the sequence of its segments; the separators     *)
(* between segments, however many, carry nothing else.                     *)
(***************************************************************************)
EXTENDS Integers, Sequences, FiniteSets, SequencesExt

CWK_CURRENT == "."
CWK_BACK == ".."

cwk_path_get_segment_type(s) ==
  IF s \in {CWK_CURRENT, CWK_BACK} THEN s ELSE "CWK_NORMAL"

\* The length of the root, and whether it makes a path absolute.
cwk_path_get_root(path) == IF path.abs THEN 1 ELSE 0
cwk_path_is_root_absolute(length) == length > 0

cwk_path_is_absolute(path) == cwk_path_is_root_absolute(cwk_path_get_root(path))

\* What get_first, get_next, get_last and get_previous_segment walk over, and
\* the same for a path whose root counts as one more separator.
Segments(path) == path.segs
SegmentsWithoutRoot(path) == path.segs

\* The segments of both paths in order; a path without any is passed over.
\* The root of the second path is skipped.
SegmentsJoined(a, b) == Segments(a) \o SegmentsWithoutRoot(b)

\* The counter after the segments in positions I of S.
Counter(S, I) ==
  Cardinality({i \in I : cwk_path_get_segment_type(S[i]) = "CWK_NORMAL"})
  - Cardinality({i \in I : S[i] = CWK_BACK})

\* Walking back from position k the counter goes above zero ...
cwk_path_segment_back_will_be_removed(S, k) ==
  \E j \in 1 .. k - 1 : Counter(S, j .. k - 1) > 0

\* Bug form: the counter is not kept, any ".." behind removes the segment.
normal_will_be_removed_nocount(S, k) ==
  \E j \in k + 1 .. Len(S) : S[j] = CWK_BACK

\* ... or forward from it, below zero.
cwk_path_segment_normal_will_be_removed(S, k) ==
  \E j \in k + 1 .. Len(S) : Counter(S, k + 1 .. j) < 0

cwk_path_segment_will_be_removed(S, k, absolute) ==
  \/ S[k] = CWK_CURRENT
  \/ S[k] = CWK_BACK /\ (absolute \/ cwk_path_segment_back_will_be_removed(S, k))
  \/ /\ cwk_path_get_segment_type(S[k]) = "CWK_NORMAL"
     /\ cwk_path_segment_normal_will_be_removed(S, k)

\* The i-th smallest of a set of positions.
Nth(K, i) == CHOOSE k \in K : Cardinality({j \in K : j <= k}) = i

\* What is left; "." when a relative path loses every segment it had.
cwk_path_join_and_normalize_multiple(a, b) ==
  LET S    == SegmentsJoined(a, b)
      absolute == cwk_path_is_absolute(a)
      kept == {k \in DOMAIN S : ~cwk_path_segment_will_be_removed(S, k, absolute)}
      out  == [i \in 1 .. Cardinality(kept) |-> S[Nth(kept, i)]]
  IN  [abs  |-> absolute,
       segs |-> IF S # <<>> /\ out = <<>> /\ ~absolute THEN <<CWK_CURRENT>> ELSE out]

cwk_path_join(a, b) == cwk_path_join_and_normalize_multiple(a, b)

-----------------------------------------------------------------------------
(* Reference: walk the segments one by one and keep a stack of names.  A   *)
(* relative path cannot be walked above where it starts: it keeps the "..".*)

Walk(dir, absolute, segs) ==
  LET Enter(d, s) ==
        CASE s = CWK_CURRENT -> d
          [] s = CWK_BACK -> IF d # <<>> /\ Last(d) # CWK_BACK THEN Front(d)
                             ELSE IF absolute THEN d ELSE Append(d, s)
          [] OTHER -> Append(d, s)
  IN  FoldLeft(Enter, dir, segs)

\* The directory an absolute path names, and the one reached from dir.
Resolve(dir, path) == Walk(IF path.abs THEN <<>> ELSE dir, TRUE, path.segs)

=============================================================================
