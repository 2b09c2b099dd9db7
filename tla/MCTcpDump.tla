----------------------------- MODULE MCTcpDump ------------------------------
(* One subnet with an interface that comes and goes, and two recorders: an *)
(* old one may still be ending when the next one starts.                   *)
EXTENDS TcpDump, TLC

CONSTANTS i1, s1

OneSubnet == i1 :> s1

=============================================================================
