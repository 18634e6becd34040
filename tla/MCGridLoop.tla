----------------------------- MODULE MCGridLoop -----------------------------
(***************************************************************************)
(* Model-checking instances of GridLoop: all index maps to three blocks and *)
(* all permutations, for grids with no, some and only parallel dimensions  *)
(* that the cores divide evenly or not.                                    *)
(***************************************************************************)
EXTENDS GridLoop, TLC

MCGrids == { << <<2, 2>>, <<FALSE, FALSE>> >>,
             << <<3>>, <<TRUE>> >>,
             << <<3, 2>>, <<TRUE, FALSE>> >>,
             << <<2, 2>>, <<TRUE, TRUE>> >> }

Symmetry == Permutations(Blocks)
=============================================================================
