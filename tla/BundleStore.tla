------------------------------ MODULE BundleStore ------------------------------
(***************************************************************************)
(* The tables that say where an object is on the canonical chain           *)
(* (database.rs): the described blocks, the items of bundles, one          *)
(* placement per object, and the totals that triggers keep of placements   *)
(* (migration 010).  Writers change them in READ COMMITTED transactions    *)
(* while the chain follower rewinds and extends the chain.                 *)
(*                                                                         *)
(* A statement sees what was committed when it began and what its own      *)
(* transaction wrote; it then waits for the rows it changes.  Objects are  *)
(* numbers in the order of their ids.  The height start_height is 0.       *)
(***************************************************************************)
EXTENDS BundleTraversal, FiniteSets

CONSTANTS
    Writer,      \* connections, each with one transaction at a time
    Root,        \* bundle transactions
    Forks,       \* the chains the follower stores in turn: blocks by height from 1
    Txs,         \* the roots in each block, in order
    Depth,       \* CONSENSUS_DEPTH
    Replays,     \* bound: how often blocks described before are described again
    MaxAborts    \* bound: transactions that fail

ASSUME StoreAssumption ==
    /\ Root \subseteq Nat \ {0} /\ Item \subseteq Nat /\ Root \cap Item = {} /\ Nested \subseteq Item
    /\ Root \cup Nested \subseteq DOMAIN Contents
    /\ Forks # << >> /\ Forks \in Seq(Seq(DOMAIN Txs)) /\ \A f \in DOMAIN Forks : Len(Forks[f]) = Len(Forks[1])
    /\ \A b \in DOMAIN Txs : Txs[b] \in Seq(Root)
    /\ \A b \in Root \cup Nested : Contents[b] \in Seq(Nat)
    /\ {Depth, Replays, MaxAborts, Fuel} \subseteq Nat /\ {BatchSize, MaxDepth} \subseteq Nat \ {0}

Object == Root \cup Item
Nobody == 0
Height == 1 .. Len(Forks[1])

VARIABLES
    fork, tip,   \* canonical_blocks: the fork stored and imported_through
    stable,      \* checkpoint_height
    complete,    \* heights whose canonical row has metadata_complete
    described,   \* blocks with a timestamp, and so their rows of block_transactions
    known,       \* objects with metadata_complete
    located,     \* item_locations: [root, id, parent, path]
    done,        \* roots with a complete bundle_progress
    placement,   \* canonical_placements: of each object placed
    totals       \* bundle_totals: [roots, completed, nested] of each height

VARIABLES
    job,         \* the root and the traversal of the job of each writer
    tx,          \* the transaction of each writer
    replays, aborts

chain == <<fork, tip, stable, complete>>
tables == <<described, known, located, done, placement, totals>>
bounds == <<replays, aborts>>
vars == <<chain, tables, job, tx, bounds>>

Zero == [h \in Height |-> [roots |-> 0, completed |-> 0, nested |-> 0]]

\* The rows, locks and effects of a transaction.  todo are the rows that the
\* statement at hand computed, touched those it has locked.
Fresh == [at |-> "none", height |-> 0, object |-> Nobody, first |-> FALSE, guard |-> FALSE, roots |-> {}, ids |-> {},
          wrote |-> << >>, touched |-> {}, todo |-> << >>, known |-> {}, located |-> {},
          delta |-> Zero]

NoJob == [root |-> Nobody, walk |-> [stack |-> << >>, out |-> << >>, failed |-> FALSE]]

To(w, t) == tx' = [tx EXCEPT ![w] = t]
At(w, pc) == tx[w].at = pc

-----------------------------------------------------------------------------
(* Places, and what the chain says about them.                             *)

BlockAt(h) == Forks[fork][h]

\* ROW(block_height, position, path) in order.
PathBefore(p, q) ==
    \/ IsStrictPrefix(p, q)
    \/ \E n \in DOMAIN p \cap DOMAIN q :
          SubSeq(p, 1, n - 1) = SubSeq(q, 1, n - 1) /\ p[n] < q[n]
Before(a, b) ==
    \/ a.height < b.height
    \/ a.height = b.height /\ a.position < b.position
    \/ a.height = b.height /\ a.position = b.position /\ PathBefore(a.path, b.path)
Least(S) == CHOOSE a \in S : \A b \in S \ {a} : Before(a, b)

\* The places of a transaction in the given heights.
Members(r, heights) ==
    UNION {{[height |-> h, position |-> k, path |-> << >>] :
              k \in {x \in DOMAIN Txs[BlockAt(h)] : Txs[BlockAt(h)][x] = r}} :
           h \in heights}
Through(l, place) == [place EXCEPT !.path = l.path]
Places(o, heights, locations) ==
    IF o \in Root THEN Members(o, heights)
    ELSE UNION {{Through(l, m) : m \in Members(l.root, heights)} : l \in {x \in locations : x.id = o}}

\* Canonical blocks with a timestamp, for a transaction that wrote those of H.
Described(H) == {h \in 1 .. tip : BlockAt(h) \in described \/ h \in H}

-----------------------------------------------------------------------------
(* FOR KEY SHARE of block_index_state, for what a rewind could still       *)
(* change.                                                                 *)
Unguarded(h) == FALSE                                   \* mutant: no guard against a rewind
Guard(h) == h > stable

-----------------------------------------------------------------------------
(* Triggers: what an object adds to the totals at its height.              *)

Counted(finished) == [roots |-> Root, completed |-> Root \cap finished, nested |-> Nested]

\* The totals of objects at their places.
Count(objects, places, finished) ==
    [h \in Height |-> [column \in {"roots", "completed", "nested"} |->
        Cardinality({o \in objects : places[o].height = h} \cap Counted(finished)[column])]]
Add(a, b, sign) == [h \in Height |-> [c \in DOMAIN a[h] |-> a[h][c] + sign * b[h][c]]]

\* Rows as a transaction sees them.
Overlay(new, old) == [o \in DOMAIN new \cup DOMAIN old |-> IF o \in DOMAIN new THEN new[o] ELSE old[o]]
PlacesSeen(t) == Overlay(t.wrote, placement)
KnownSeen(t) == known \cup t.known

\* A statement that turns the places of some rows from old into new.
OnlyNew(t, old, new, rows) ==                           \* mutant: old rows not taken off
    Add(t.delta, Count(rows \cap KnownSeen(t), new, done), 1)
Moved(t, old, new, rows) ==
    LET counted == rows \cap KnownSeen(t)
    IN Add(Add(t.delta, Count(counted, new, done), 1),
           Count(counted \cap DOMAIN old, old, done), -1)

-----------------------------------------------------------------------------
(* Waiting.  A statement takes its locks in the order of ids; two          *)
(* transactions that wait for each other are left to the database, which   *)
(* aborts one.                                                             *)

RootsIn(h) == ToSet(Txs[BlockAt(h)])

\* Roots and ids are locked when the membership is new.
ToLock(t) == IF t.first THEN RootsIn(t.height) ELSE {}

\* The rows of a batch.
Batch(w) == {[root |-> job[w].root, id |-> l.id, parent |-> l.parent, path |-> l.path] :
               l \in ToSet(job[w].walk.out)}
Ids(locations) == {l.id : l \in locations}

Lacking(R, I, O) == [roots |-> R, ids |-> I, rows |-> O]
Needs(w) ==
    LET t == tx[w]
    IN CASE t.at = "lock" -> Lacking(ToLock(t), ToLock(t) \ known, {})
         [] t.at \in {"upsert members", "upsert items", "upsert batch"} ->
                Lacking({}, {}, DOMAIN t.todo)
         [] t.at = "described" -> Lacking({}, {t.object} \ known, {t.object} \ known)
         [] t.at = "object" -> Lacking({}, {}, t.ids)
         [] t.at = "root" -> Lacking({job[w].root}, {}, {})
         [] t.at = "batch" -> Lacking({}, Ids(Batch(w)) \ known, Ids(Batch(w)) \ known)
         [] OTHER -> Lacking({}, {}, {})

\* An objects row is locked by who places the object or writes its metadata.
Blocks(v, w) ==
    LET n == Needs(w)
    IN v # w /\ (n.roots \cap tx[v].roots) \cup (n.ids \cap tx[v].ids)
                    \cup (n.rows \cap (tx[v].touched \cup tx[v].known)) # {}
Free(w) == \A v \in Writer : ~Blocks(v, w)

-----------------------------------------------------------------------------
(* Statements that write placements: todo is computed from the snapshot,   *)
(* then the rows are waited for and the smaller place stays.               *)

Improves(t, o) == o \notin DOMAIN PlacesSeen(t) \/ Before(t.todo[o], PlacesSeen(t)[o])

Compute(w, t, todo, next) == To(w, [t EXCEPT !.todo = todo, !.at = next])

Upsert(w, next) ==
    LET t == tx[w]
        rows == {o \in DOMAIN t.todo : Improves(t, o)}
        better == [o \in rows |-> t.todo[o]]
    IN /\ Free(w)
       /\ To(w, [t EXCEPT !.wrote = Overlay(better, @),
                          !.touched = @ \cup DOMAIN t.todo,
                          !.delta = Moved(t, PlacesSeen(t), Overlay(better, PlacesSeen(t)), rows),
                          !.todo = << >>, !.at = next])

-----------------------------------------------------------------------------
(* write_block_metadata, by record_block_metadata or record_bundle_root.   *)

\* The row of the block is locked too.  Describing it again changes what a
\* reorg took away.
BeginMetadata(w, h, o) ==
    /\ At(w, "none") /\ job[w] = NoJob /\ h <= tip
    /\ o = Nobody \/ o \in RootsIn(h)
    /\ \A v \in Writer : tx[v].height # h
    /\ LET first == BlockAt(h) \notin described
       IN /\ h \notin complete \/ replays < Replays
          /\ replays' = IF h \in complete THEN replays + 1 ELSE replays
          /\ To(w, [Fresh EXCEPT !.at = "lock", !.height = h, !.object = o, !.first = first,
                                 !.guard = Guard(h)])
    /\ UNCHANGED <<chain, tables, job, aborts>>

LockMembers(w) ==
    /\ At(w, "lock")
    /\ Free(w)
    /\ To(w, [tx[w] EXCEPT !.at = "members", !.roots = ToLock(tx[w]),
                           !.ids = ToLock(tx[w]) \ known])
    /\ UNCHANGED <<chain, tables, job, bounds>>

PlaceMembers(w) ==
    /\ At(w, "members")
    /\ Compute(w, tx[w], [r \in RootsIn(tx[w].height) |-> Least(Members(r, {tx[w].height}))],
               "upsert members")
    /\ UNCHANGED <<chain, tables, job, bounds>>

UpsertMembers(w) ==
    /\ At(w, "upsert members") /\ Upsert(w, "items")
    /\ UNCHANGED <<chain, tables, job, bounds>>

\* refresh_item_placements: all places of the items of the block's roots.
Refreshed(h) == {l.id : l \in {x \in located : x.root \in RootsIn(h)}}
PlaceItems(w) ==
    /\ At(w, "items")
    /\ LET h == tx[w].height
       IN Compute(w, tx[w], [o \in Refreshed(h) |-> Least(Places(o, Described({h}), located))],
                  "upsert items")
    /\ UNCHANGED <<chain, tables, job, bounds>>

UpsertItems(w) ==
    /\ At(w, "upsert items") /\ Upsert(w, "described")
    /\ UNCHANGED <<chain, tables, job, bounds>>

\* write_objects for objects without metadata, under the locks of their ids.
WithMetadata(t, new) ==
    [t EXCEPT !.known = @ \cup new,
              !.delta = Add(@, Count(new \cap DOMAIN PlacesSeen(t), PlacesSeen(t), done), 1)]

\* record_bundle_root adds the metadata of one root of the block.
WriteRoot(w) ==
    /\ At(w, "described") /\ tx[w].object # Nobody /\ Free(w)
    /\ LET new == {tx[w].object} \ known
       IN To(w, [WithMetadata(tx[w], new) EXCEPT !.ids = @ \cup new, !.at = "commit"])
    /\ UNCHANGED <<chain, tables, job, bounds>>

-----------------------------------------------------------------------------
(* record_objects, for the roots of described blocks.                      *)

Unstable(r) == r \notin DOMAIN placement \/ Guard(placement[r].height)

BeginObject(w, r) ==
    /\ At(w, "none") /\ job[w] = NoJob /\ r \notin known
    /\ \E b \in described : r \in ToSet(Txs[b])
    /\ \A v \in Writer : r \notin tx[v].ids
    /\ To(w, [Fresh EXCEPT !.at = "object", !.guard = Unstable(r), !.ids = {r}])
    /\ UNCHANGED <<chain, tables, job, bounds>>

WriteObject(w) ==
    /\ At(w, "object") /\ Free(w)
    /\ To(w, [WithMetadata(tx[w], tx[w].ids \ known) EXCEPT !.at = "commit"])
    /\ UNCHANGED <<chain, tables, job, bounds>>

-----------------------------------------------------------------------------
(* The batches of a bundle: persist_bundle and commit_bundle_batch.        *)

\* bundle_lookup_sql: metadata, and a placement in a described block.
Looked(r) ==
    /\ r \in known \cap DOMAIN placement
    /\ placement[r] \in Members(r, Described({}))

\* index_bundle_source: a complete root is left alone; the metadata of others
\* was recorded before (BeginMetadata, WriteObject).
StartJob(w, r) ==
    /\ At(w, "none") /\ job[w] = NoJob
    /\ Looked(r) /\ r \notin done
    /\ LET walk == NextBatch(NewTraversal(r))
       IN ~walk.failed /\ job' = [job EXCEPT ![w] = [root |-> r, walk |-> walk]]
    /\ UNCHANGED <<chain, tables, tx, bounds>>

\* An error of the transaction ends the job.
EndJob(w) ==
    /\ To(w, Fresh) /\ job' = [job EXCEPT ![w] = NoJob]
    /\ UNCHANGED <<chain, tables, bounds>>

BeginBatch(w) ==
    /\ At(w, "none") /\ job[w] # NoJob
    /\ LET r == job[w].root
       IN \/ Looked(r)
             /\ To(w, [Fresh EXCEPT !.at = "root", !.guard = Guard(placement[r].height)])
             /\ UNCHANGED <<chain, tables, job, bounds>>
          \/ ~Looked(r) /\ EndJob(w)

\* A reorg may have completed while we waited for the chain guard.
LockRoot(w) ==
    /\ At(w, "root") /\ Free(w)
    /\ \/ Looked(job[w].root)
          /\ To(w, [tx[w] EXCEPT !.at = "batch", !.roots = {job[w].root}])
          /\ UNCHANGED <<chain, tables, job, bounds>>
       \/ ~Looked(job[w].root) /\ EndJob(w)

\* Every parent is stored where the path says, by this batch or before.
ParentStored(l, stored) ==
    IF Len(l.path) = 1 THEN l.parent = l.root
    ELSE \E p \in stored : p.root = l.root /\ p.path = Front(l.path) /\ p.id = l.parent
BatchHolds(w) ==
    /\ job[w].root \in done => Batch(w) \subseteq located
    /\ \A l \in Batch(w) : ParentStored(l, located \cup Batch(w))

WriteBatch(w) ==
    LET new == Ids(Batch(w)) \ known
    IN /\ At(w, "batch") /\ Free(w)
       /\ IF BatchHolds(w)
          THEN /\ To(w, [WithMetadata(tx[w], new) EXCEPT !.ids = new, !.at = "place",
                                                        !.located = Batch(w) \ located])
               /\ UNCHANGED <<chain, tables, job, bounds>>
          ELSE EndJob(w)

\* refresh_bundle_placements: an item without a place takes the best of all
\* its locations, any other the best of the new ones, at their root's place.
NewPlaces(o, locations) ==
    {Through(l, placement[l.root]) : l \in {x \in locations : x.id = o /\ x.root \in DOMAIN placement}}
Candidates(o, t) ==
    IF o \in DOMAIN placement THEN NewPlaces(o, t.located)
    ELSE Places(o, Described({}), located \cup t.located)

PlaceBatch(w) ==
    /\ At(w, "place")
    /\ LET t == tx[w]
           targets == {o \in Ids(Batch(w)) : Candidates(o, t) # {}}
       IN Compute(w, t, [o \in targets |-> Least(Candidates(o, t))], "upsert batch")
    /\ UNCHANGED <<chain, tables, job, bounds>>

UpsertBatch(w) ==
    /\ At(w, "upsert batch") /\ Upsert(w, "commit")
    /\ UNCHANGED <<chain, tables, job, bounds>>

-----------------------------------------------------------------------------
(* The end of a transaction.                                               *)

InBatch(w) == job[w] # NoJob /\ tx[w].at # "none"

\* The last batch completes the root, and so counts it as completed.
Finishing(w) == InBatch(w) /\ LastBatch(job[w].walk)
NewlyDone(w) == IF Finishing(w) THEN {job[w].root} \ done ELSE {}
WithDone(w) ==
    LET rows == NewlyDone(w) \cap DOMAIN placement
    IN Add(Add(tx[w].delta, Count(rows, placement, NewlyDone(w)), 1), Count(rows, placement, {}), -1)

\* The next batch was read while this one was committed.
AfterBatch(w) ==
    IF ~InBatch(w) THEN job[w]
    ELSE IF Finishing(w) \/ NextBatch(job[w].walk).failed THEN NoJob
    ELSE [job[w] EXCEPT !.walk = NextBatch(@)]

Commit(w) ==
    LET t == tx[w] IN
    /\ t.at = "commit" \/ (t.at = "described" /\ t.object = Nobody)
    /\ known' = known \cup t.known
    /\ located' = located \cup t.located
    /\ placement' = PlacesSeen(t)
    /\ done' = done \cup NewlyDone(w)
    /\ totals' = Add(totals, WithDone(w), 1)
    /\ described' = IF t.height = 0 THEN described ELSE described \cup {BlockAt(t.height)}
    /\ complete' = IF t.height = 0 THEN complete ELSE complete \cup {t.height}
    /\ job' = [job EXCEPT ![w] = AfterBatch(w)]
    /\ To(w, Fresh)
    /\ UNCHANGED <<fork, tip, stable, bounds>>

\* An error in the next batch drops the commit under way.
Cancelled(w) == InBatch(w) /\ ~Finishing(w) /\ NextBatch(job[w].walk).failed /\ EndJob(w)

\* The database ends a deadlock: metadata that a replay of the block writes
\* under no lock of its id meets the same metadata written by record_objects.
Victim(w) ==
    /\ \E v \in Writer : Blocks(v, w) /\ Blocks(w, v)
    /\ EndJob(w)

\* A timeout, or the death of the process.
Abort(w) ==
    /\ ~At(w, "none") /\ aborts < MaxAborts /\ aborts' = aborts + 1
    /\ To(w, Fresh) /\ job' = [job EXCEPT ![w] = NoJob]
    /\ UNCHANGED <<chain, tables, replays>>

-----------------------------------------------------------------------------
(* The chain follower (see ChainIndex).                                    *)

Extend ==
    /\ tip + 1 \in Height /\ tip' = tip + 1
    /\ UNCHANGED <<fork, stable, complete, tables, job, tx, bounds>>

Advance ==
    /\ stable + 1 <= tip - Depth /\ stable' = stable + 1
    /\ UNCHANGED <<fork, tip, complete, tables, job, tx, bounds>>

\* rewind: canonical rows above the ancestor go, and with them (ON DELETE
\* CASCADE) the placements there.  It waits for guards and for locked rows.
Ancestor == CHOOSE h \in 0 .. tip :
    /\ \A k \in 1 .. h : Forks[fork][k] = Forks[fork + 1][k]
    /\ h = tip \/ Forks[fork][h + 1] # Forks[fork + 1][h + 1]
Surviving(h) == {o \in DOMAIN placement : placement[o].height <= h}

Rewind ==
    /\ fork < Len(Forks) /\ Ancestor >= stable
    /\ \A w \in Writer : ~tx[w].guard
    /\ \A w \in Writer : \A o \in tx[w].touched :
          PlacesSeen(tx[w])[o].height <= Ancestor /\ (o \in DOMAIN placement => o \in Surviving(Ancestor))
    /\ fork' = fork + 1 /\ tip' = Ancestor
    /\ complete' = complete \cap 1 .. Ancestor
    /\ placement' = [o \in Surviving(Ancestor) |-> placement[o]]
    /\ totals' = Add(totals, Count((DOMAIN placement \ Surviving(Ancestor)) \cap known, placement, done), -1)
    /\ UNCHANGED <<stable, described, known, located, done, job, tx, bounds>>

-----------------------------------------------------------------------------
Init ==
    /\ fork = 1 /\ tip = 0 /\ stable = 0 /\ complete = {}
    /\ described = {} /\ known = {} /\ located = {} /\ done = {} /\ placement = << >>
    /\ totals = Zero
    /\ job = [w \in Writer |-> NoJob] /\ tx = [w \in Writer |-> Fresh]
    /\ replays = 0 /\ aborts = 0

Next ==
    \/ \E w \in Writer :
         \/ \E h \in Height, o \in Root \cup {Nobody} : BeginMetadata(w, h, o)
         \/ LockMembers(w) \/ PlaceMembers(w) \/ UpsertMembers(w)
         \/ PlaceItems(w) \/ UpsertItems(w) \/ WriteRoot(w)
         \/ \E r \in Root : BeginObject(w, r) \/ StartJob(w, r)
         \/ WriteObject(w)
         \/ BeginBatch(w) \/ LockRoot(w) \/ WriteBatch(w) \/ PlaceBatch(w) \/ UpsertBatch(w)
         \/ Commit(w) \/ Cancelled(w) \/ Victim(w) \/ Abort(w)
    \/ Extend \/ Advance \/ Rewind

Spec == Init /\ [][Next]_vars

-----------------------------------------------------------------------------
\* Types, and the locks of each transaction.
StoreTypeOK ==
    /\ fork \in DOMAIN Forks /\ tip \in 0 .. Len(Forks[1]) /\ stable \in 0 .. tip
    /\ complete \subseteq 1 .. tip /\ known \subseteq Object /\ done \subseteq Root
    /\ DOMAIN placement \subseteq Object
    /\ \A w, v \in Writer : w # v => tx[w].roots \cap tx[v].roots = {} /\ tx[w].ids \cap tx[v].ids = {}

\* Whatever the chain did, a placement is a place that the canonical chain
\* gives, and no place in blocks whose metadata is complete comes before it.
PlacementsCanonical ==
    \A o \in Object :
        LET sure == Places(o, complete, located)
        IN /\ o \in DOMAIN placement => placement[o] \in Places(o, Described({}), located)
           /\ sure # {} => /\ o \in DOMAIN placement
                           /\ ~Before(Least(sure), placement[o])

\* The totals that triggers kept by differences are what they count.
TotalsExact == totals = Count(DOMAIN placement \cap known, placement, done)

\* A root is complete when exactly what its traversal has to find is stored.
CompleteMeansAll ==
    \A r \in done : {[id |-> l.id, parent |-> l.parent, path |-> l.path] :
                        l \in {x \in located : x.root = r}} = Expected(r)

\* What the index says of itself is so: its totals count the rows that are there
\* (the triggers of migration 010), and a root that it calls complete has every
\* item, at whatever batch its traversal was resumed (persist_bundle).
IndexExact == TotalsExact /\ CompleteMeansAll

=============================================================================
