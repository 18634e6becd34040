----------------------------- MODULE MCBuffers ------------------------------
(***************************************************************************)
(* Model-checking instance of Buffers: buffers of both kinds for the       *)
(* kernel and in run_scoped; a 2 x 2 buffer, ranges that lie inside it, go *)
(* past its end in either dimension or start at its end.                   *)
(***************************************************************************)
EXTENDS Buffers

MCSpaces == <<"hbm", "vmem", "hbm", "vmem">>
MCShape == <<2, 2>>
MCStarts == {<<0, 0>>, <<0, 1>>, <<1, 0>>, <<2, 1>>}
=============================================================================
