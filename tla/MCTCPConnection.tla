---------------------------- MODULE MCTCPConnection ----------------------------
(* TLC instances of TCPConnectionSpec. *)
EXTENDS TCPConnectionSpec

MCGarbage == -1

MCAnyFault == {"loss", "copy", "delay"}

MCPlan(c, s, f, kinds, aborts) ==
  [len |-> [client |-> c, server |-> s], faults |-> f, kinds |-> kinds, aborts |-> aborts]

\* Either host may vanish, under a network without faults.
MCVanish == {MCPlan(1, 1, 0, {}, TRUE)}

\* Any single fault; a host that may vanish; and losses enough for an end to give up, with its
\* RST lost as well.
MCPlans ==
  {MCPlan(2, 0, 1, MCAnyFault, FALSE), MCPlan(1, 0, 2, {"loss"}, FALSE),
   MCPlan(0, 0, 4, {"loss"}, FALSE)} \cup MCVanish
MCUpload == {MCPlan(2, 0, 3, MCAnyFault, FALSE)}
MCSilent == {MCPlan(0, 0, 2, MCAnyFault, FALSE)}
===============================================================================
