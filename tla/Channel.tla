------------------------------ MODULE Channel ------------------------------
(***************************************************************************)
(* What one pipe promises: a bounded, lossless, in-order byte channel with *)
(* two ends.  The bytes are numbered by the program that produces them.    *)
(***************************************************************************)
EXTENDS Integers, Sequences

CONSTANT Cap    \* bytes the channel holds

VARIABLES
  buf,          \* accepted and not yet delivered
  out,          \* delivered, in order
  ropen, wopen  \* the ends

chanVars == <<buf, out, ropen, wopen>>

Init == buf = <<>> /\ out = <<>> /\ ropen = FALSE /\ wopen = FALSE

Create ==
  /\ ~ropen /\ ~wopen
  /\ buf' = <<>> /\ out' = <<>>
  /\ ropen' = TRUE /\ wopen' = TRUE

\* The next k bytes of the producer are accepted if they fit.
Send(k) ==
  /\ ropen /\ wopen
  /\ Len(buf) + k <= Cap
  /\ buf' = buf \o [i \in 1 .. k |-> Len(out) + Len(buf) + i - 1]
  /\ UNCHANGED <<out, ropen, wopen>>

\* The oldest k bytes are delivered.
Receive(k) ==
  /\ ropen
  /\ k <= Len(buf)
  /\ out' = out \o SubSeq(buf, 1, k)
  /\ buf' = SubSeq(buf, k + 1, Len(buf))
  /\ UNCHANGED <<ropen, wopen>>

\* An end goes away; with the second one, so does what nobody will read.
Close(r, w) ==
  /\ <<ropen, wopen>> \in {<<TRUE, w>>, <<r, TRUE>>}
  /\ ropen' = r /\ wopen' = w
  /\ buf' = IF r \/ w THEN buf ELSE <<>>
  /\ UNCHANGED out

Next ==
  \/ Create
  \/ \E k \in 1 .. Cap : Send(k) \/ Receive(k)
  \/ Close(FALSE, wopen) \/ Close(ropen, FALSE)

Spec == Init /\ [][Next]_chanVars
=============================================================================
