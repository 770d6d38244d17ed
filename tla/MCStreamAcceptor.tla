-------------------------- MODULE MCStreamAcceptor --------------------------
(* Model-checking instance of StreamAcceptor: two SYNs, two AcceptStream *)
(* callers, a backlog of one.                                              *)
EXTENDS StreamAcceptor

CONSTANTS s1, s2, w1, w2
=============================================================================
