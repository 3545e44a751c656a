------------------------------ MODULE MCBoxMap ------------------------------
(* Model-checking instance of BoxMap. *)
EXTENDS BoxMap

\* One page in the middle of the address space is somebody else's.
MCForeign == {Space \div 2}

\* As much as possible, and one to three sandboxes.
MCWants == 0 .. 3
=============================================================================
