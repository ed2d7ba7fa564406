------------------------------ MODULE MCTCPSender ------------------------------
(* TLC instances of TCPSenderSpec. *)
EXTENDS TCPSenderSpec

MCGarbage == -1
===============================================================================
