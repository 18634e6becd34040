--------------------------- MODULE MCGpuPipeline ---------------------------
(***************************************************************************)
(* Model-checking instance of GpuPipeline: every accepted call with two    *)
(* inputs, up to two compute threads, three buffers and three pipelines in *)
(* sequence.  There are fewer and more steps than buffers.                 *)
(***************************************************************************)
EXTENDS GpuPipeline

MCKernels ==
    {k \in [num_compute_wgs : 0 .. 2, num_steps : {1, 2, 4, 5}, static_grid : BOOLEAN,
            max_steps : 1 .. 3, delay_release : [Inputs -> 0 .. 2], num_pipelines : {1, 3}] :
        /\ Accepted(k) /\ EnoughBuffers(k)
        /\ k.num_pipelines > 1 => k.num_steps <= 4}
=============================================================================
