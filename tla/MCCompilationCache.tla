------------------------- MODULE MCCompilationCache -------------------------
(***************************************************************************)
(* Model-checking instance of CompileAndShare.                             *)
(***************************************************************************)
EXTENDS CompileAndShare
=============================================================================
