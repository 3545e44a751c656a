----------------------------- MODULE StackInit -----------------------------
(***************************************************************************)
(* What lps-linux/thread.c puts on a new thread's stack (stack_init), as   *)
(* operators on values.  The stack is a list of writes in the order the    *)
(* code makes them: an address, a length and what was written.             *)
(*                                                                         *)
(*   | argc | argv[0] .. 0 | envp[0] .. 0 | auxv | random | strings |      *)
(*   ^ sp                                                                  *)
(*                                                                         *)
(* Arguments are given by the lengths of their strings.  Of the auxiliary  *)
(* vector the entries that point into the stack and the end are kept.      *)
(***************************************************************************)
EXTENDS Integers, SequencesExt

CONSTANTS
  WordSize,    \* bytes of a word, half of what stack_init aligns to
  ARGV_MAX,
  ENVP_MAX,
  ARGV_MAXLEN  \* ENVP_MAXLEN is the same

ASSUME StackAssumption ==
  /\ WordSize \in Nat \ {0}
  /\ {ARGV_MAX, ENVP_MAX, ARGV_MAXLEN} \subseteq Nat

Aligned(n, align) == n - (n % align)

Put(at, len, val) == [at |-> at, len |-> len, val |-> val]
Word(n) == <<"word", n>>

argc_of(a) == Min({a.argc, ARGV_MAX})
nargv(a) == Min({argc_of(a), Len(a.argv)})
nenvp(a) == Min({ENVP_MAX, Len(a.envp)})

\* The strings that are copied, those of argv first.
Strings(a) == SubSeq(a.argv, 1, nargv(a)) \o SubSeq(a.envp, 1, nenvp(a))

\* Bug form: the terminators are not counted.
Before_nonul(s, i) == FoldLeft(+, 0, SubSeq(s, 1, i - 1))

\* Bytes of the strings before the i-th, each with its terminator.
Before(s, i) == FoldLeft(+, 0, SubSeq(s, 1, i - 1)) + (i - 1)

\* A string that is not terminated within the limit fails an assertion.
StringsTerminated(a) == \A i \in DOMAIN Strings(a) : Strings(a)[i] <= ARGV_MAXLEN

strs_len(a) == Before(Strings(a), Len(Strings(a)) + 1)
strs_start(end, a) == Aligned(end - strs_len(a), 2 * WordSize)
rand_start(end, a) == strs_start(end, a) - 2 * WordSize

\* Where the i-th string goes, and the address box_argv or box_envp keeps.
StringAt(end, a, i) == strs_start(end, a) + Before(Strings(a), i)

box_argv(end, a) ==
  [i \in 1 .. nargv(a) |-> Word(StringAt(end, a, i))] \o <<Word(0)>>
box_envp(end, a) ==
  [i \in 1 .. nenvp(a) |-> Word(StringAt(end, a, nargv(a) + i))] \o <<Word(0)>>
auxv(end, a) ==
  << <<"AT_EXECFN">>, box_argv(end, a)[1], <<"AT_RANDOM">>, Word(rand_start(end, a)),
     <<"AT_NULL">>, Word(0) >>

\* The words from sp up: argc as it was given, however many pointers follow.
StackWords(end, a) ==
  <<Word(argc_of(a))>> \o box_argv(end, a) \o box_envp(end, a) \o auxv(end, a)

stack_start(end, a) == rand_start(end, a) - WordSize * Len(StackWords(end, a))

\* The stack that ends at "end", and the stack pointer.
stack_init(end, a) ==
  LET words == StackWords(end, a)
      sp    == stack_start(end, a)
  IN  [sp |-> sp,
       writes |->
         [i \in DOMAIN Strings(a) |->
            Put(StringAt(end, a, i), Strings(a)[i] + 1, <<"string", i>>)]
         \o << Put(rand_start(end, a), 2 * WordSize, <<"random">>) >>
         \o [i \in DOMAIN words |-> Put(sp + (i - 1) * WordSize, WordSize, words[i])]]

-----------------------------------------------------------------------------
(* What a program finds that starts on such a stack. *)

Bytes(w) == w.at .. w.at + w.len - 1

\* val stands at address at, and no later write went over it.
Holds(s, at, val) ==
  \E i \in DOMAIN s.writes :
    /\ s.writes[i].at = at /\ s.writes[i].val = val
    /\ \A j \in i + 1 .. Len(s.writes) : Bytes(s.writes[i]) \cap Bytes(s.writes[j]) = {}

\* The k-th word from sp holds val; it holds the address of val.
WordIs(s, k, val) == Holds(s, s.sp + k * WordSize, val)
PointsTo(s, k, val) ==
  \E w \in ToSet(s.writes) : WordIs(s, k, Word(w.at)) /\ Holds(s, w.at, val)

\* The start-up code of a C library finds argc at sp, the arguments after it,
\* the environment after as many words as argc says, and the auxiliary vector
\* after the end of the environment.
ReadsBack(s, argc, nenv) ==
  /\ s.sp % WordSize = 0
  /\ WordIs(s, 0, Word(argc))
  /\ \A i \in 1 .. argc : PointsTo(s, i, <<"string", i>>)
  /\ WordIs(s, argc + 1, Word(0))
  /\ \A i \in 1 .. nenv : PointsTo(s, argc + 1 + i, <<"string", argc + i>>)
  /\ WordIs(s, argc + nenv + 2, Word(0))
  /\ LET aux == argc + nenv + 3
     IN  /\ WordIs(s, aux, <<"AT_EXECFN">>)
         /\ IF argc > 0 THEN PointsTo(s, aux + 1, <<"string", 1>>)
            ELSE WordIs(s, aux + 1, Word(0))
         /\ WordIs(s, aux + 2, <<"AT_RANDOM">>) /\ PointsTo(s, aux + 3, <<"random">>)
         /\ WordIs(s, aux + 4, <<"AT_NULL">>)

=============================================================================
