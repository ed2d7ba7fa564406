----------------------------- MODULE MCTCPReceiver -----------------------------
(* TLC instance of TCPReceiverSpec. *)
EXTENDS TCPReceiverSpec

MCGarbage == <<-1>>
===============================================================================
