-------------------------- MODULE MCIngestPipeline --------------------------
(***************************************************************************)
(* Instance of IngestPipeline for TLC: a command is given one of two       *)
(* trading days with the 0dte strategy.  z1 and z2 are the days' chains,   *)
(* d1 and d2 the definitions they are enumerated from, e1 and e2 their     *)
(* futures bars; z2 has no contract.  The ceiling lets the second day      *)
(* through and blocks the first one until one of its batches has been      *)
(* landed or is a gap.                                                     *)
(***************************************************************************)
EXTENDS IngestPipeline

MCPrice == [z1 |-> 2, z2 |-> 2, e1 |-> 2, e2 |-> 1, d1 |-> 1, d2 |-> 1]
MCDefinitionsOf == [z1 |-> "d1", z2 |-> "d2"]
MCDayOf == [z1 |-> 1, z2 |-> 2, e1 |-> 1, e2 |-> 2, d1 |-> 1, d2 |-> 2]
MCWindows == {<<"z1", "e1">>, <<"z2", "e2">>}

=============================================================================
