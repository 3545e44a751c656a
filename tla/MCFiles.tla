------------------------------ MODULE MCFiles ------------------------------
(* Instance of Files for TLC. *)
EXTENDS Files

P(a, s) == [abs |-> a, segs |-> s]

MCOpenPaths == {P(FALSE, <<"a">>), P(TRUE, <<"b">>)}
MCChdirPaths == {P(TRUE, <<"a", "..", "b">>), P(FALSE, <<"..">>), P(FALSE, <<"b", "..">>),
                 P(FALSE, <<"a", ".", "b">>), P(FALSE, <<"a", "..", "..", "b">>)}

=============================================================================
