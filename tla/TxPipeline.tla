------------------------------ MODULE TxPipeline ------------------------------
(***************************************************************************)
(* import_metadata (indexer.rs): the metadata of one range of stored       *)
(* blocks.  One task records blocks, which makes their transactions        *)
(* pending; another selects pending transactions block by block, fetches   *)
(* up to Window blocks at once and records them in batches.  A watch       *)
(* channel wakes the second task, a Notify its selection.                  *)
(*                                                                         *)
(* The canonical chain of the range does not change during the call: a     *)
(* reorg leaves the new blocks pending for the next call.  The verified    *)
(* block kept between two selections only saves a fetch and is left out.   *)
(***************************************************************************)
EXTENDS Integers, FiniteSets, Sequences

CONSTANTS
    Height,      \* the blocks of the range
    Txs,         \* transactions of a block, a number
    Window,      \* blocks selected and not recorded, 32 in the code
    SelectLimit, \* transactions a selection returns, 256 in the code
    BatchSize,   \* transactions recorded at once, 256 in the code
    Batches,     \* TRANSACTION_READY_BATCHES, 32 in the code
    MaxFails     \* bound: calls that fail

ASSUME TxAssumption ==
    /\ Height \subseteq Nat /\ IsFiniteSet(Height) /\ Txs \in [Height -> Nat]
    /\ {Window, SelectLimit, BatchSize, Batches} \subseteq Nat \ {0} /\ MaxFails \in Nat

Tx(h) == {<<h, i>> : i \in 1 .. Txs[h]}

VARIABLES
    described,   \* blocks with metadata, in the database
    recorded     \* transactions with metadata, in the database

VARIABLES
    status,      \* of the call: "running" or "ok"
    changed,     \* the watch channel holds an update not yet seen
    hungUp,      \* its sender was dropped: every block is described
    loop,        \* the transactions task: "look", "import" or "wait"
    stream,      \* pending_transaction_jobs: "step", "query", "sleep" or "end"
    excluded,    \* blocks the running query leaves out
    queued,      \* jobs selected and not started, the lowest block first
    active,      \* blocks selected and not wholly recorded
    permit,      \* the stored permit of the Notify
    fetching,    \* jobs whose transactions are fetched
    fetched,     \* jobs not sent yet
    batches,     \* the channel of batches
    batch,       \* persist_transaction_metadata: jobs left of its batch
    objects,     \* transactions not recorded yet
    completed,   \* blocks whose transactions are all in objects
    busy,        \* it holds a batch
    fails

db == <<described, recorded>>
select == <<stream, excluded, queued>>
persist == <<batch, objects, completed, busy>>
pipe == <<fetching, fetched, batches>>
importing == <<db, status, changed, hungUp, loop, select, active, permit, pipe, persist, fails>>

Job == [height : Height, ids : SUBSET UNION {Tx(h) : h \in Height}]
Running == status = "running"
Importing == Running /\ loop = "import"

-----------------------------------------------------------------------------
(* The blocks task.                                                        *)

RecordBlock(h) ==
    /\ Running /\ h \notin described
    /\ described' = described \cup {h}
    /\ changed' = TRUE
    /\ UNCHANGED <<recorded, status, hungUp, loop, select, active, permit, pipe, persist, fails>>

BlocksDone ==
    /\ Running /\ ~hungUp /\ described = Height
    /\ hungUp' = TRUE
    /\ UNCHANGED <<db, status, changed, loop, select, active, permit, pipe, persist, fails>>

-----------------------------------------------------------------------------
(* The transactions task.                                                  *)

\* borrow_and_update comes before the import, so an update during it is seen.
LookForTx ==
    /\ Running /\ loop = "look" /\ loop' = "import"
    /\ changed' = FALSE
    /\ stream' = "step"
    /\ UNCHANGED <<db, status, hungUp, excluded, queued, active, permit, pipe, persist, fails>>

Drained == fetching = {} /\ fetched = << >> /\ batches = << >> /\ ~busy

MarkedSeen == FALSE                              \* mutant: updates during the import lost
StillUnseen == changed

ImportEnds ==
    /\ Importing /\ stream = "end" /\ Drained
    /\ loop' = "wait"
    /\ changed' = StillUnseen
    /\ UNCHANGED <<db, status, hungUp, select, active, permit, pipe, persist, fails>>

\* updates.changed: an update not seen comes before the dropped sender.
Again ==
    /\ Running /\ loop = "wait" /\ changed
    /\ loop' = "look"
    /\ UNCHANGED <<db, status, changed, hungUp, select, active, permit, pipe, persist, fails>>

ImportOk ==
    /\ Running /\ loop = "wait" /\ ~changed /\ hungUp
    /\ status' = "ok"
    /\ UNCHANGED <<db, changed, hungUp, loop, select, active, permit, pipe, persist, fails>>

-----------------------------------------------------------------------------
(* pending_transaction_jobs.                                               *)

Full == Cardinality(active) = Window

Sleep ==
    /\ Importing /\ stream = "step" /\ Full
    /\ stream' = "sleep"
    /\ UNCHANGED <<db, status, changed, hungUp, loop, excluded, queued, active, permit, pipe,
                   persist, fails>>

Start ==
    /\ Importing /\ stream = "step" /\ ~Full
    /\ \E j \in queued :
          /\ \A k \in queued : j.height <= k.height
          /\ active' = active \cup {j.height}
          /\ fetching' = fetching \cup {j}
          /\ queued' = queued \ {j}
    /\ UNCHANGED <<db, status, changed, hungUp, loop, stream, excluded, permit, fetched, batches,
                   persist, fails>>

Query ==
    /\ Importing /\ stream = "step" /\ ~Full /\ queued = {}
    /\ stream' = "query" /\ excluded' = active
    /\ UNCHANGED <<db, status, changed, hungUp, loop, queued, active, permit, pipe, persist, fails>>

\* pending_transactions: the first transactions in chain order, of described
\* blocks that are not excluded.
PendingTx == (UNION {Tx(h) : h \in described \ excluded}) \ recorded
Before(a, b) == a[1] < b[1] \/ (a[1] = b[1] /\ a[2] < b[2])
Selected ==
    {t \in PendingTx : Cardinality({u \in PendingTx : Before(u, t)}) < SelectLimit}
Jobs == {[height |-> h, ids |-> {t \in Selected : t[1] = h}] : h \in {t[1] : t \in Selected}}

QueryReturns ==
    /\ Importing /\ stream = "query"
    /\ \/ /\ Jobs # {}
          /\ queued' = Jobs /\ stream' = "step"
       \/ /\ Jobs = {} /\ active # excluded
          /\ stream' = "step" /\ UNCHANGED queued
       \/ /\ Jobs = {} /\ active = excluded
          /\ stream' = IF excluded = {} THEN "end" ELSE "sleep"
          /\ UNCHANGED queued
    /\ excluded' = {}
    /\ UNCHANGED <<db, status, changed, hungUp, loop, active, permit, pipe, persist, fails>>

Wake ==
    /\ Importing /\ stream = "sleep" /\ permit
    /\ stream' = "step" /\ permit' = FALSE
    /\ UNCHANGED <<db, status, changed, hungUp, loop, excluded, queued, active, pipe, persist, fails>>

-----------------------------------------------------------------------------
(* Fetching and queue_metadata.                                            *)

Fetched(j) ==
    /\ Importing /\ j \in fetching
    /\ fetching' = fetching \ {j} /\ fetched' = Append(fetched, j)
    /\ UNCHANGED <<db, status, changed, hungUp, loop, select, active, permit, batches, persist, fails>>

Send ==
    /\ Importing /\ fetched # << >> /\ Len(batches) < Batches
    /\ batches' = Append(batches, fetched) /\ fetched' = << >>
    /\ UNCHANGED <<db, status, changed, hungUp, loop, select, active, permit, fetching, persist,
                   fails>>

-----------------------------------------------------------------------------
(* persist_transaction_metadata.                                           *)

\* Blocks leave the window when their last transaction is recorded.
Notified == TRUE

Receive ==
    /\ Importing /\ ~busy /\ batches # << >>
    /\ busy' = TRUE /\ batch' = Head(batches) /\ batches' = Tail(batches)
    /\ UNCHANGED <<db, status, changed, hungUp, loop, select, active, permit, fetching, fetched,
                   objects, completed, fails>>

HeadIds == Head(batch).ids

Collect ==
    /\ Importing /\ batch # << >> /\ HeadIds # {} /\ Cardinality(objects) < BatchSize
    /\ LET t == CHOOSE t \in HeadIds : \A u \in HeadIds : ~Before(u, t) IN
         /\ objects' = objects \cup {t}
         /\ batch' = <<[Head(batch) EXCEPT !.ids = @ \ {t}]>> \o Tail(batch)
    /\ UNCHANGED <<db, status, changed, hungUp, loop, select, active, permit, pipe, completed,
                   busy, fails>>

\* A full batch is recorded; blocks completed before it leave the window.
WithHead == completed \cup {Head(batch).height}  \* mutant: the block still being filled too
InFullBatch == completed

RecordFull ==
    /\ Importing /\ Cardinality(objects) = BatchSize
    /\ recorded' = recorded \cup objects /\ objects' = {}
    /\ active' = active \ InFullBatch /\ completed' = {}
    /\ permit' = Notified
    /\ UNCHANGED <<described, status, changed, hungUp, loop, select, pipe, batch, busy, fails>>

JobCollected ==
    /\ Importing /\ batch # << >> /\ HeadIds = {} /\ Cardinality(objects) < BatchSize
    /\ IF objects = {}
       THEN /\ active' = active \ {Head(batch).height}
            /\ permit' = Notified
            /\ UNCHANGED completed
       ELSE /\ completed' = completed \cup {Head(batch).height}
            /\ UNCHANGED <<active, permit>>
    /\ batch' = Tail(batch)
    /\ UNCHANGED <<db, status, changed, hungUp, loop, select, pipe, objects, busy, fails>>

\* A partial batch is recorded without waiting for more.
Flush ==
    /\ Importing /\ busy /\ batch = << >> /\ Cardinality(objects) < BatchSize
    /\ recorded' = recorded \cup objects /\ objects' = {}
    /\ active' = active \ completed /\ completed' = {}
    /\ permit' = Notified
    /\ busy' = FALSE
    /\ UNCHANGED <<described, status, changed, hungUp, loop, select, pipe, batch, fails>>

-----------------------------------------------------------------------------
(* Any step of either task fails and the call with it; the next call       *)
(* starts from the database.                                               *)

Fail ==
    /\ Running /\ fails < MaxFails /\ fails' = fails + 1
    /\ status' = "running" /\ changed' = FALSE /\ hungUp' = FALSE /\ loop' = "look"
    /\ stream' = "step" /\ excluded' = {} /\ queued' = {} /\ active' = {} /\ permit' = FALSE
    /\ fetching' = {} /\ fetched' = << >> /\ batches' = << >>
    /\ batch' = << >> /\ objects' = {} /\ completed' = {} /\ busy' = FALSE
    /\ UNCHANGED db

ImportInit ==
    /\ described = {} /\ recorded = {} /\ fails = 0
    /\ status = "running" /\ changed = FALSE /\ hungUp = FALSE /\ loop = "look"
    /\ stream = "step" /\ excluded = {} /\ queued = {} /\ active = {} /\ permit = FALSE
    /\ fetching = {} /\ fetched = << >> /\ batches = << >>
    /\ batch = << >> /\ objects = {} /\ completed = {} /\ busy = FALSE


Work ==
    \/ \E h \in Height : RecordBlock(h)
    \/ BlocksDone \/ LookForTx \/ ImportEnds \/ Again \/ ImportOk
    \/ Sleep \/ Start \/ Query \/ QueryReturns \/ Wake
    \/ \E j \in fetching : Fetched(j)
    \/ Send \/ Receive \/ Collect \/ RecordFull \/ JobCollected \/ Flush

ImportNext == Work \/ Fail

ImportSpec == ImportInit /\ [][ImportNext]_importing

\* Both tasks run on: every request and transaction ends by its timeout.
ImportFairSpec == ImportSpec /\ WF_importing(Work)

-----------------------------------------------------------------------------
TxTypeOK ==
    /\ described \subseteq Height /\ recorded \subseteq UNION {Tx(h) : h \in Height}
    /\ status \in {"running", "ok"} /\ loop \in {"look", "import", "wait"}
    /\ stream \in {"step", "query", "sleep", "end"}
    /\ {changed, hungUp, permit, busy} \subseteq BOOLEAN
    /\ {excluded, completed, active} \subseteq SUBSET Height /\ Cardinality(active) <= Window
    /\ {fetching, queued} \subseteq SUBSET Job /\ {fetched, batch} \subseteq Seq(Job)
    /\ batches \in Seq(Seq(Job)) /\ Len(batches) <= Batches
    /\ objects \subseteq UNION {Tx(h) : h \in Height} /\ Cardinality(objects) <= BatchSize
    /\ fails \in 0 .. MaxFails

\* Where a job is that was started.
PlacesFetching == {<<"fetching", j, 0>> : j \in fetching}
PlacesFetched == {<<"fetched", i, 0>> : i \in DOMAIN fetched}
PlacesSent(b) == {<<"batches", b, i>> : i \in DOMAIN batches[b]}
PlacesBatch == {<<"batch", i, 0>> : i \in DOMAIN batch}
Places ==
    PlacesFetching \cup PlacesFetched \cup PlacesBatch
    \cup UNION {PlacesSent(b) : b \in DOMAIN batches}
JobAt(p) ==
    IF p[1] = "fetching" THEN p[2] ELSE IF p[1] = "fetched" THEN fetched[p[2]]
    ELSE IF p[1] = "batches" THEN batches[p[2]][p[3]] ELSE batch[p[2]]
Heights == {JobAt(p).height : p \in Places}

\* A block is in the window exactly while one job of it is on its way to the
\* database, its transactions still to be recorded: no block is fetched by
\* two jobs at once, and none leaves the window early and is fetched again.
OneJobPerBlock ==
    /\ \A p, q \in Places : JobAt(p).height = JobAt(q).height => p = q
    /\ Heights \cap completed = {} /\ active = Heights \cup completed
    /\ \A j \in queued : j.height \notin active
    /\ \A p \in Places : JobAt(p).ids \cap (recorded \cup objects) = {}
    /\ objects \cap recorded = {}

\* The call ends, and not before every block of its range is described and
\* every transaction recorded, whatever blocks were recorded while some were
\* selected, fetched or written: neither the selection nor the task sleeps
\* through its last wake-up, and the queues never wait on each other.
Completes ==
    <>(status = "ok" /\ described = Height /\ recorded = UNION {Tx(h) : h \in Height})
=============================================================================
