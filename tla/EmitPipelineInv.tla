--------------------------- MODULE EmitPipelineInv --------------------------
(***************************************************************************)
(* The inductive invariant of EmitPipeline.                                *)
(*                                                                         *)
(* Blocks are numbered by the copies that bring them: the number of        *)
(* changes up to a step, counted beyond the end of the grid as well, where *)
(* the prologue may go.  The cumulative slots are such counts, which tell  *)
(* the copies that may be in flight, the slots they use and what is in     *)
(* the others.                                                             *)
(***************************************************************************)
EXTENDS EmitPipeline

\* What the pipeline needs, and emit_pipeline does not insist on: a second
\* buffer of the output, and a second one of the input for a lookahead.
TwoBuffers ==
    /\ OutputCounts \subseteq {2}
    /\ \A m \in InputModes : m[2] => m[1] >= 2

\* Block i of a sequence of n blocks that begins again at its end.
Cyclic(f, n, i) == f[i % n]

\* A block is copied if it is not the one before it.
Starts(f, n, i) == i = 0 \/ Cyclic(f, n, i) # Cyclic(f, n, i - 1)

\* How many copies the first k blocks take.
Count(f, n, k) == Cardinality({j \in 0 .. (k - 1) : Starts(f, n, j)})

-----------------------------------------------------------------------------
(* The input.                                                              *)

InAt(i) == Cyclic(in_block, num_steps, i)
InStarts(i) == Starts(in_block, num_steps, i)
InCount(k) == Count(in_block, num_steps, k)

\* Without lookahead: how many blocks have been looked at for fetching when
\* copy_in of step s begins.
Frontier(s) ==
    IF in_count - 1 >= num_steps THEN in_count - 1
    ELSE IF s + in_count - 1 <= num_steps THEN s + in_count - 1
    ELSE num_steps

\* How many blocks have been looked at for fetching.
fetched ==
    IF pc = "initialize" THEN 0
    ELSE IF use_lookahead THEN next_fetch + 1
    ELSE IF pc = "copy_in" THEN Frontier(step)
    ELSE Frontier(step + 1)

AtEnd == pc \in {"finalize", "done"}
BeforeWait == pc \in {"initialize", "lookahead", "copy_in", "wait_in"}

\* How many copies have been waited for: besides the earlier ones the one of the
\* current step.
waited ==
    IF AtEnd \/ (BeforeWait /\ InStarts(step)) THEN wait_in_slot ELSE wait_in_slot + 1

ConfigInv ==
    /\ num_steps \in Nat \ {0} /\ in_count \in Nat \ {0} /\ out_count = 2
    /\ use_lookahead \in BOOLEAN /\ (use_lookahead => in_count >= 2)
    /\ in_block \in [0 .. (num_steps - 1) -> InBlocks]
    /\ out_block \in [0 .. (num_steps - 1) -> OutBlocks]

ProgramInv ==
    /\ pc \in {"initialize", "lookahead", "copy_in", "wait_in", "body", "copy_out",
               "wait_out", "finalize", "done"}
    /\ step \in 0 .. (num_steps - 1)
    /\ pc \in {"initialize", "lookahead"} => step = 0
    /\ pc = "lookahead" => use_lookahead
    /\ AtEnd => step = num_steps - 1
    /\ pc = "initialize" => dmas = {} /\ next_fetch = 0
    /\ next_fetch \in 0 .. (num_steps - 1)
    /\ \A d \in dmas : d.dir \in {"in", "out"}

\* What the bodies have read.
SeenInv ==
    /\ seen \in Seq(InBlocks)
    /\ Len(seen) = step + (IF pc \in {"copy_out", "wait_out", "finalize", "done"} THEN 1 ELSE 0)
    /\ \A i \in 1 .. Len(seen) : seen[i] = in_block[i - 1]

\* The counters of the input.
InCounts ==
    /\ wait_in_slot = IF AtEnd THEN InCount(num_steps) ELSE InCount(step + 1) - 1
    /\ copy_in_slot = InCount(fetched)
    /\ waited <= copy_in_slot /\ copy_in_slot <= wait_in_slot + in_count

\* Copy i has been started and not been waited for.
Due(i) == InStarts(i) /\ InCount(i) >= waited

\* The copies to the input slots: those in flight; those that have signalled;
\* the one of the current step, once it has been waited for.
UnderWay ==
    \A d \in dmas : d.dir = "in" =>
        \E i \in 0 .. (fetched - 1) :
          /\ Due(i) /\ d = InCopy(InCount(i), InAt(i))
          /\ sem_recvs[InCount(i) % in_count] = 0

InLanded ==
    \A s \in 0 .. (in_count - 1) :
        \/ sem_recvs[s] = 0
        \/ /\ sem_recvs[s] = 1
           /\ \E i \in 0 .. (fetched - 1) :
                Due(i) /\ s = InCount(i) % in_count /\ window_in[s] = InAt(i)

InCurrent == waited = wait_in_slot + 1 => window_in[wait_in_slot % in_count] = InAt(step)

InTypes ==
    /\ window_in \in [0 .. (in_count - 1) -> InBlocks \cup {NoBlock}]
    /\ sem_recvs \in [0 .. (in_count - 1) -> Nat]

InputInv == InTypes /\ InCounts /\ UnderWay /\ InLanded /\ InCurrent

-----------------------------------------------------------------------------
(* The output.                                                             *)

OutStarts(i) == Starts(out_block, num_steps, i)
OutCount(k) == Count(out_block, num_steps, k)

\* The visit of a block that step e belongs to, and the steps of visit m.
Visit(e) == OutCount(e + 1) - 1
VisitSteps(m) == {t \in 0 .. (num_steps - 1) : Visit(t) = m}
OutCopy(e) == [dir |-> "out", n |-> Visit(e), block |-> out_block[e], slot |-> Visit(e) % 2]

OutTypes ==
    /\ window_out \in [0 .. 1 -> SUBSET Nat]
    /\ sem_sends \in [0 .. 1 -> Nat]
    /\ hbm_out \in [OutBlocks -> SUBSET Nat]

\* The counters of the output.
OutCounts ==
    /\ copy_out_slot = IF AtEnd \/ (pc = "wait_out" /\ step = num_steps - 1) THEN OutCount(num_steps)
                       ELSE IF pc = "wait_out" THEN Visit(step + 1) ELSE Visit(step)
    /\ wait_out_slot = IF AtEnd THEN OutCount(num_steps) - 1
                       ELSE IF step = 0 THEN 0 ELSE Visit(step - 1)

\* How many copies to HBM have been waited for.
released == IF pc = "done" THEN wait_out_slot + 1 ELSE wait_out_slot

\* The copies from the output slots: those in flight; those that have signalled;
\* the visit that the body works on.
OutFlight ==
    \A d \in dmas : d.dir = "out" =>
        \E e \in 0 .. (num_steps - 1) :
          /\ d = OutCopy(e) /\ Visit(e) \in released .. (copy_out_slot - 1)
          /\ sem_sends[Visit(e) % 2] = 0
          /\ window_out[Visit(e) % 2] = VisitSteps(Visit(e))

OutLanded ==
    \A s \in 0 .. 1 :
        \/ sem_sends[s] = 0
        \/ sem_sends[s] = 1 /\ \E m \in released .. (copy_out_slot - 1) : s = m % 2

OutCurrent ==
    /\ pc \in {"copy_in", "wait_in", "body"} /\ ~OutStarts(step) =>
          window_out[Visit(step) % 2] = {t \in 0 .. (step - 1) : Visit(t) = Visit(step)}
    /\ pc \in {"copy_out", "wait_out"} =>
          window_out[Visit(step) % 2] = {t \in 0 .. step : Visit(t) = Visit(step)}

\* The visits of b that have arrived in HBM; HBM holds the last of them.
Written(m) == m < copy_out_slot /\ \A d \in dmas : d.dir = "out" => d.n # m
ArrivedSteps(b) == {e \in 0 .. (num_steps - 1) : out_block[e] = b /\ Written(Visit(e))}

HbmInv ==
    \A b \in OutBlocks :
        /\ ArrivedSteps(b) = {} => hbm_out[b] = {}
        /\ \A e \in ArrivedSteps(b) :
              (\A o \in ArrivedSteps(b) : Visit(o) <= Visit(e)) =>
                  hbm_out[b] = VisitSteps(Visit(e))

OutputInv == OutTypes /\ OutCounts /\ OutFlight /\ OutLanded /\ OutCurrent /\ HbmInv

-----------------------------------------------------------------------------

\* A core without steps does nothing.
NoSteps ==
    /\ num_steps = 0 /\ pc = "done" /\ step = 0 /\ dmas = {} /\ seen = << >>
    /\ in_count \in Nat \ {0} /\ out_count = 2
    /\ hbm_out = [b \in OutBlocks |-> {}]
    /\ sem_recvs = [s \in 0 .. (in_count - 1) |-> 0]
    /\ sem_sends = [s \in 0 .. (out_count - 1) |-> 0]
    /\ window_in = [s \in 0 .. (in_count - 1) |-> NoBlock]
    /\ copy_in_slot = 0 /\ wait_in_slot = 0 /\ copy_out_slot = 0

Working == ConfigInv /\ ProgramInv /\ SeenInv /\ InputInv /\ OutputInv

PipelineInv == NoSteps \/ Working
=============================================================================
