------------------------------ MODULE MCPipeline ------------------------------
(***************************************************************************)
(* The two pipelines of background jobs: bundles to the index, and         *)
(* metadata of blocks and transactions.  They share no variable, so a      *)
(* behaviour moves one of them, the focus, and their states add up.        *)
(***************************************************************************)
EXTENDS BundlePipeline, TxPipeline, TLC

\* The middle block is larger than a selection or a batch, the last is empty.
MCTxs == 1 :> 1 @@ 2 :> 3 @@ 3 :> 1 @@ 4 :> 0

VARIABLE focus
OfBundles(A) == focus = "bundles" /\ A /\ UNCHANGED <<focus, importing>>
OfMetadata(A) == focus = "metadata" /\ A /\ UNCHANGED <<focus, vars>>

PipelinesInit == focus \in {"bundles", "metadata"} /\ Init /\ ImportInit
PipelinesNext == OfBundles(Next) \/ OfMetadata(ImportNext)

\* The fairness of each pipeline, while it is the one that moves.
PipelinesFairness ==
    /\ \A r \in Root :
         /\ WF_vars(OfBundles(Enqueue(r))) /\ WF_vars(OfBundles(Finish(r)))
         /\ WF_vars(OfBundles(DropJob(r))) /\ WF_vars(OfBundles(Downloaded(r)))
    /\ WF_vars(OfBundles(Stop)) /\ WF_vars(OfBundles(Tick))
    /\ SF_vars(OfBundles(TakeRequest)) /\ SF_vars(OfBundles(TakeReady))
    /\ WF_importing(OfMetadata(Work))

PipelinesSpec == PipelinesInit /\ [][PipelinesNext]_<<focus, vars, importing>> /\ PipelinesFairness

\* An import of metadata that keeps running ends, and not before its range is
\* described (import_metadata).
ImportCompletes == focus = "metadata" => Completes
===============================================================================
