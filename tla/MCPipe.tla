------------------------------ MODULE MCPipe ------------------------------
(* Model-checking instance of Pipe: wait queues are the pipes' own, threads *)
(* are interchangeable.                                                     *)
EXTENDS Pipe, TLC

MCWaitQueues == PipeQueues

Symmetry == Permutations(Threads)
=============================================================================
