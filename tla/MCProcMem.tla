----------------------------- MODULE MCProcMem -----------------------------
(* Model-checking instances of ProcMem: the arguments of the system calls. *)
EXTENDS ProcMem

\* A one-page program in two segments, the second over the first, with bss.
MCSegments == <<[start |-> 0, len |-> 1, bss |-> 0], [start |-> 0, len |-> 1, bss |-> 1]>>

\* Every page boundary and one address that is not.
MCAddrs == {PageSize * p : p \in 0 .. NPages} \cup {PageSize + 1}

\* Nothing, part of a page, more than one page, the longest that does not wrap
\* to zero when it is rounded up, and the longest.
MCLengths == {0, 1, PageSize + 1, WordMod - PageSize, WordMod - 1}

\* The query, below the base, the base, two breaks inside the second page of the
\* heap, the limit and beyond.
MCBreaks == {0, brkbase - 1}
  \cup {brkbase + k : k \in {0, PageSize + 2, PageSize + 3, brkmaxsize, brkmaxsize + 1}}

\* No arguments, as some hosts pass; up to three of up to three bytes, more than
\* ARGV_MAX, a string of the greatest length and one beyond, an environment, and
\* an argv that ends before argc; some fill the stack exactly, some do not fit.
MCArgs ==
  {[argc |-> c, argv |-> v, envp |-> e] :
     c \in {0, 1, 2, 3}, v \in {<<>>, <<0>>, <<2>>, <<3>>, <<1, 0>>, <<1, 2>>, <<1, 0, 0>>},
     e \in {<<>>, <<0>>, <<1, 2>>}}
=============================================================================
