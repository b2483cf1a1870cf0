-------------------------- MODULE MCE131Benchmark --------------------------
(***************************************************************************)
(* Two runs of one cell with one packet each, on a host with three ports.  *)
(* The board has been running before: its lines are those of another boot. *)
(***************************************************************************)
EXTENDS E131Benchmark

MCScore == [p \in Ports |-> CASE p = BoardPort -> 100 [] p = "modem" -> 20 [] OTHER -> 0]
=============================================================================
