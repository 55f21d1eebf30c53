---------------------------- MODULE BundlePipeline ----------------------------
(***************************************************************************)
(* The bundle worker (background.rs): roots found by the scan are          *)
(* downloaded, roots served over HTTP are submitted, and both pass through *)
(* bounded queues to a pool of database writers.  Every job owns one       *)
(* reservation of Admission from before its content exists until after it  *)
(* is gone.                                                                *)
(*                                                                         *)
(* The threads: HTTP handlers (Submit, Enqueue), download_pending          *)
(* (Schedule, Downloaded), run (TakeRequest, TakeReady, Tick, Finish), the       *)
(* follow_chain loop (Pause) and the owner of the worker (Cancel).         *)
(* Which roots the scan proposes, and when, is left open here: BundleScan  *)
(* models it.  A refusal by the spool budget or by a contended try_lock is *)
(* a root that is not scheduled or submitted now.                          *)
(***************************************************************************)
EXTENDS Admission, Sequences, FiniteSetsExt

CONSTANTS
    Downloads,   \* index_downloads
    Writers,     \* INDEX_WORKERS, 6 in the code
    MaxRounds    \* bound: jobs started

ASSUME PipelineAssumption ==
    /\ Downloads \in Nat \ {0} /\ Writers \in Nat \ {0} /\ MaxRounds \in Nat
    /\ Headroom /\ MaxJobs = Downloads + RequestSlots /\ RequestSlots # 0

VARIABLES
    stage,      \* where the job of each root is
    requests,   \* the channel from BundleSubmitter, RequestSlots long
    ready,      \* the channel from download_pending, Downloads long
    stores,     \* idle database writers
    armed,      \* the select of run waits for a job
    running,    \* the worker thread is running
    rounds      \* jobs started, at most MaxRounds

pvars == <<stage, requests, ready, stores, armed, running, rounds>>
vars == <<avars, pvars>>

Stages == {"none", "submitting", "requested", "downloading", "ready", "writing"}
At(s) == {r \in Root : stage[r] = s}
Move(r, s) == stage' = [stage EXCEPT ![r] = s]

-----------------------------------------------------------------------------
(* HTTP handlers: submit and submit_partial.                               *)

Submit(r, b) ==
    /\ rounds < MaxRounds /\ rounds' = rounds + 1
    /\ Reserve(r, b, FALSE)
    /\ Move(r, "submitting")
    /\ UNCHANGED <<requests, ready, stores, armed, running>>

\* try_reserve on the channel: full or without receiver drops the job.
Room == Len(requests) < RequestSlots

Enqueue(r) ==
    /\ stage[r] = "submitting"
    /\ \/ /\ running /\ Room
          /\ requests' = Append(requests, r)
          /\ Move(r, "requested")
          /\ UNCHANGED avars
       \/ /\ ~(running /\ Room)
          /\ Move(r, "none")
          /\ Release(r)
          /\ UNCHANGED requests
    /\ UNCHANGED <<ready, stores, armed, running, rounds>>

-----------------------------------------------------------------------------
(* download_pending.                                                       *)

Schedule(r, b) ==
    /\ running /\ ~paused
    /\ rounds < MaxRounds /\ rounds' = rounds + 1
    /\ Cardinality(At("downloading")) < Downloads
    /\ Reserve(r, b, TRUE)
    /\ Move(r, "downloading")
    /\ UNCHANGED <<requests, ready, stores, armed, running>>

\* A download that ends with a job shrinks its reservation to what the job
\* retains and sends it to the writers; one that fails, that finds the root
\* complete or larger than its reservation drops it.
Forget(r) == Release(r)

Downloaded(r) ==
    /\ running /\ stage[r] = "downloading"
    /\ \/ /\ Len(ready) < Downloads
          /\ \E b \in Size : Shrink(r, b)
          /\ ready' = Append(ready, r)
          /\ Move(r, "ready")
       \/ /\ Forget(r)
          /\ Move(r, "none")
          /\ UNCHANGED ready
    /\ UNCHANGED <<requests, stores, armed, running, rounds>>

-----------------------------------------------------------------------------
(* run: the consumer.                                                      *)

\* The conditions of the two receiving branches are evaluated when the loop
\* comes round, not when a job arrives: a pause in between comes too late.
MayWrite == stores > 0 /\ ~paused
Look == armed' = (stores' > 0 /\ ~paused)

\* The snapshot timer, or the poll while paused, brings the loop round.
Tick ==
    /\ running /\ armed # MayWrite
    /\ armed' = MayWrite
    /\ UNCHANGED <<avars, stage, requests, ready, stores, running, rounds>>

TakeRequest ==
    /\ running /\ armed /\ requests # << >>
    /\ Move(Head(requests), "writing")
    /\ requests' = Tail(requests)
    /\ stores' = stores - 1 /\ Look
    /\ UNCHANGED <<avars, ready, running, rounds>>

TakeReady ==
    /\ running /\ armed /\ ready # << >>
    /\ Move(Head(ready), "writing")
    /\ ready' = Tail(ready)
    /\ stores' = stores - 1 /\ Look
    /\ UNCHANGED <<avars, requests, running, rounds>>

\* process_job returns, with a count or an error: the reservation drops with
\* the job and join_next gives the writer back.
StoreLost == stores                              \* mutant: only Ok returns the store
StoreBack == stores + 1

Finish(r) ==
    /\ running /\ stage[r] = "writing"
    /\ Release(r)
    /\ Move(r, "none")
    /\ stores' = StoreBack /\ Look
    /\ UNCHANGED <<requests, ready, running, rounds>>

-----------------------------------------------------------------------------
(* The chain follower and the owner.                                       *)

Pause(p) ==
    /\ running /\ SetPaused(p)
    /\ UNCHANGED pvars

Cancel == Close /\ UNCHANGED pvars

\* The worker thread ends, by cancellation or because run returns an error:
\* its runtime and both receivers are dropped.
Ends ==
    /\ running /\ running' = FALSE /\ armed' = FALSE
    /\ requests' = << >> /\ ready' = << >>
    /\ UNCHANGED <<avars, stage, stores, rounds>>

Stop == closed /\ Ends
WorkerFails == Ends

\* The jobs it held are dropped one by one.
DropJob(r) ==
    /\ ~running /\ stage[r] \notin {"none", "submitting"}
    /\ Release(r)
    /\ Move(r, "none")
    /\ stores' = IF stage[r] = "writing" THEN stores + 1 ELSE stores
    /\ UNCHANGED <<requests, ready, armed, running, rounds>>

-----------------------------------------------------------------------------
Init ==
    /\ AdmissionInit
    /\ stage = [r \in Root |-> "none"]
    /\ requests = << >> /\ ready = << >>
    /\ stores = Writers /\ armed = FALSE /\ running = TRUE /\ rounds = 0

Next ==
    \/ \E r \in Root, b \in Size : Submit(r, b) \/ Schedule(r, b)
    \/ \E r \in Root : Enqueue(r) \/ Downloaded(r) \/ Finish(r) \/ DropJob(r)
    \/ TakeRequest \/ TakeReady \/ Tick
    \/ \E p \in BOOLEAN : Pause(p)
    \/ Cancel \/ Stop \/ WorkerFails

Spec == Init /\ [][Next]_vars

\* Every thread keeps running: downloads and writes end by their deadlines,
\* a handler goes on to enqueue, and the consumer, whose select is random
\* and polls every second, takes from each queue whenever it may do so often
\* enough.
FairSpec ==
    /\ Spec
    /\ \A r \in Root : /\ WF_vars(Enqueue(r)) /\ WF_vars(Finish(r)) /\ WF_vars(DropJob(r))
                      /\ WF_vars(Downloaded(r))
    /\ WF_vars(Stop) /\ WF_vars(Tick)
    /\ SF_vars(TakeRequest) /\ SF_vars(TakeReady)

-----------------------------------------------------------------------------
PipelineTypeOK ==
    /\ AdmissionTypeOK
    /\ stage \in [Root -> Stages]
    /\ requests \in Seq(Root) /\ Len(requests) <= RequestSlots
    /\ ready \in Seq(Root) /\ Len(ready) <= Downloads
    /\ stores \in 0 .. Writers /\ armed \in BOOLEAN /\ running \in BOOLEAN /\ rounds \in 0 .. MaxRounds

\* A root has a reservation exactly while it has a job: no path leaks one
\* (its root could never be indexed again) or frees it under a live job.
JobOwnsReservation ==
    \A r \in Root : stage[r] # "none" <=> held[r] # NoJob

\* download_pending never waits to hand over a finished download: admission
\* keeps the jobs it has below the capacity of the channel.  Waiting there it
\* would serve neither its other downloads nor the scan cursor.
RoomForDownloads ==
    At("downloading") # {} => Len(ready) + Cardinality(At("downloading")) <= Downloads

\* The scan alone can never shut requests out: while only it holds jobs, a
\* request for half the bytes is admitted and its channel has room.
RequestsAdmitted ==
    /\ \A r \in Held : held[r].scheduled
    /\ running /\ ~closed /\ ~paused
    => /\ Room
       /\ \A r \in Root \ Held, b \in Size :
            b <= MaxBytes - MaxScheduledBytes => Admissible(r, b, FALSE)

\* A job that was admitted ends, by success, by every failure and by a
\* cancellation, unless the chain never catches up again.
EveryJobEnds ==
    \A r \in Root : stage[r] # "none" ~> (stage[r] = "none" \/ (running /\ paused))
=============================================================================
