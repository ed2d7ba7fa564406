-------------------------- MODULE MCStreamReassembler --------------------------
(* TLC instances of StreamReassemblerSpec. *)
EXTENDS StreamReassemblerSpec

MCGarbage == <<-1, -1>>
===============================================================================
