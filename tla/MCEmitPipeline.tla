-------------------------- MODULE MCEmitPipeline ---------------------------
(***************************************************************************)
(* Model-checking instance of EmitPipeline: grids that the cores divide    *)
(* evenly or not, with static and dynamic sizes, more cores than steps;    *)
(* all buffer counts from one buffer to more buffers than steps.           *)
(***************************************************************************)
EXTENDS EmitPipeline

Dim(n, par, stat) == [size |-> n, parallel |-> par, static |-> stat]
MCCalls == {
    [grid |-> <<Dim(2, FALSE, TRUE), Dim(2, FALSE, TRUE)>>, num_cores |-> 1],
    [grid |-> <<Dim(1, TRUE, TRUE), Dim(5, TRUE, TRUE)>>, num_cores |-> 2],
    [grid |-> <<Dim(3, TRUE, TRUE), Dim(2, TRUE, TRUE)>>, num_cores |-> 2],
    [grid |-> <<Dim(2, TRUE, FALSE), Dim(1, TRUE, TRUE)>>, num_cores |-> 2],
    [grid |-> <<Dim(3, TRUE, FALSE)>>, num_cores |-> 4]}
MCInputModes == {<<1, FALSE>>, <<2, FALSE>>, <<3, FALSE>>, <<4, FALSE>>, <<2, TRUE>>, <<3, TRUE>>}
=============================================================================
