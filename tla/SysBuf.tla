------------------------------- MODULE SysBuf -------------------------------
(***************************************************************************)
(* The checks every system call makes on the pointers a sandbox passes in  *)
(* (lps-linux/sys/sys.h): ptrcheck, bufcheck and what stands on them.      *)
(* Addresses and sizes are unsigned words and wrap.                        *)
(***************************************************************************)
EXTENDS Integers

CONSTANT WordMod       \* 2^64 in the code

ASSUME WordAssumption == WordMod \in Nat \ {0}

Word == 0 .. WordMod - 1

Plus(a, b) == IF a + b >= WordMod THEN a + b - WordMod ELSE a + b
Pred(a) == IF a = 0 THEN WordMod - 1 ELSE a - 1

\* A box of the engine lies inside the address space (lps_box_new).
Boxes == {b \in [base : Word, size : Word] : b.base + b.size < WordMod}

ptrcheck(b, p) == p >= b.base /\ p < b.base + b.size

\* Bug form: only the first byte is looked at.
bufcheck_start(b, p, size, align) == ptrcheck(b, p) /\ p % align = 0

bufcheck(b, p, size, align) ==
  /\ ptrcheck(b, p)
  /\ ptrcheck(b, Pred(Plus(p, size)))
  /\ p % align = 0

\* Every byte of the buffer lies in the box.
Inside(b, p, size) == b.base <= p /\ p + size <= b.base + b.size

\* bufcheck looks at the first and at the last byte, and the address of the
\* last one may wrap: a buffer it accepts lies inside the box, as long as its
\* size is below what is left of the address space beside the box.
BufcheckSound ==
  \A b \in Boxes, p \in Word, align \in Word \ {0} :
    \A size \in 1 .. WordMod - b.size :
      bufcheck(b, p, size, align) => Inside(b, p, size)

\* Every buffer that lies in the box is accepted, down to one byte.
BufcheckComplete ==
  \A b \in Boxes, p \in Word, size \in Word \ {0} :
    Inside(b, p, size) => bufcheck(b, p, size, 1)

=============================================================================
