------------------------------ MODULE MCRing ------------------------------
(* Instances of RingClients: who calls what. *)
EXTENDS RingClients, TLC

CONSTANTS p1, p2, p3

MCItems == Items
MCRings == {Ring}

\* One client pushes, one takes single elements and batches, a third takes batches
\* as the workers take from the global queue.
ClientRole ==
  (p1 :> {"push_one"}) @@ (p2 :> {"pop_one", "pop"}) @@ (p3 :> {"pop"})
=============================================================================
