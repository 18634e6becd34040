-------------------------- MODULE MCBufferContent ---------------------------
(***************************************************************************)
(* Model-checking instances of BufferContent: a 2 x 2 buffer, ranges that  *)
(* lie inside it, go past its end in either dimension or start at its end. *)
(***************************************************************************)
EXTENDS BufferContent

MCShape == <<2, 2>>
MCStarts == {<<0, 0>>, <<0, 1>>, <<1, 0>>, <<2, 1>>}
=============================================================================
