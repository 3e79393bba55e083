----------------------------- MODULE MCPipeline -----------------------------
(***************************************************************************)
(* An instance of the pipeline for TLC: three stages, so that there is a   *)
(* middle one, and files that agree in n_micro.                            *)
(***************************************************************************)
EXTENDS PipelineProperties

\* Two batches that split evenly in two, and one that does not.
EvenThenShort == <<4, 2, 1>>

\* One batch.
OneBatch == <<4>>

\* What the head's file says, the workers' files say.
FilesAgree == [s \in Worker |-> NMicro]
=============================================================================
