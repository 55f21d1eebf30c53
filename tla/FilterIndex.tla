----------------------------- MODULE FilterIndex -----------------------------
(***************************************************************************)
(* The fingerprints of owner and recipient that migration 022 adds to      *)
(* canonical_placements, so that GraphQL can walk the placements of one    *)
(* owner in order.  Triggers keep them, prepare_graphql_indexes enables    *)
(* the triggers and fills in what was written before, and                  *)
(* pause_graphql_index_maintenance disables them again; all of it beside   *)
(* the writers of objects and placements.                                  *)
(*                                                                         *)
(* A fingerprint is a function of metadata that never changes once it is   *)
(* complete: a placement has the right one or none.  A transaction is      *)
(* about one object here.  The index itself only makes the walk fast and   *)
(* is left out.                                                            *)
(***************************************************************************)
EXTENDS Integers, Sequences, FiniteSetsExt

CONSTANTS
    Key,            \* objects, by their keys
    Bundled,        \* those that are data items
    Connection,     \* writers, each with one transaction at a time
    Backfill,       \* placements filled in at once, 256 in the code
    Replay,         \* bound: TRUE if reorgs come back to described blocks
    MaxBreaks       \* bound: transactions and preparations that fail

ASSUME FilterAssumption ==
    /\ Key \subseteq Nat \ {0} /\ IsFiniteSet(Key) /\ Bundled \subseteq Key
    /\ Backfill \in Nat \ {0} /\ Replay \in BOOLEAN /\ MaxBreaks \in Nat

VARIABLES
    mentioned,   \* transactions of described blocks
    complete,    \* objects with metadata_complete
    placed,      \* objects with a row in canonical_placements
    filtered,    \* those whose row has fingerprints
    ready,       \* graphql_index_state
    maintained,  \* the triggers are enabled
    writer,      \* the transaction of each connection
    prepare,     \* prepare_graphql_indexes
    breaks

filters == <<mentioned, complete, placed, filtered, ready, maintained, writer, prepare, breaks>>
tables == <<mentioned, complete, placed, filtered>>

\* What a transaction has left to do, and what it wrote: its own placement,
\* the fingerprints of that one and of a stored one, the metadata.
Idle == [todo |-> << >>, key |-> 0, at |-> "none", own |-> FALSE, print |-> FALSE,
         reprint |-> FALSE, metadata |-> FALSE, lock |-> FALSE]

NoPrepare == [at |-> "none", after |-> 0, high |-> 0, keys |-> {}]

Becomes(c, t) == writer' = [writer EXCEPT ![c] = t]
Others(c) == {d \in Connection \ {c} : writer[d].key = writer[c].key}
IsAt(c, pc) == writer[c].at = pc

\* ROW EXCLUSIVE on canonical_placements or on objects, until the end.
Wrote(t) == t.own \/ t.metadata \/ t.at \in {"insert", "completed"}
TablesFree == \A c \in Connection : ~Wrote(writer[c])

-----------------------------------------------------------------------------
(* The writers.                                                            *)

\* record_block_metadata, record_bundle_root, record_objects and
\* commit_bundle_batch.
Work(k) ==
    IF k \in Bundled THEN {<<"metadata", "place">>}
    ELSE {<<"place">>, <<"place", "metadata">>} \cup
         (IF k \in mentioned THEN {<<"metadata">>} ELSE {})

Places(todo) == \E i \in DOMAIN todo : todo[i] = "place"

\* The row of the block, or the lock of the root, is held by who places.  A
\* placement that exists keeps its fingerprints.
StartWrite(c, k, todo) ==
    /\ IsAt(c, "none") /\ todo \in Work(k)
    /\ IF Places(todo)
       THEN /\ k \notin placed /\ (k \in mentioned => Replay)
            /\ \A d \in Connection : writer[d].key = k => ~Places(writer[d].todo) /\ ~writer[d].own
       ELSE k \notin complete
    /\ Becomes(c, [Idle EXCEPT !.todo = todo, !.key = k, !.at = "lock"])
    /\ UNCHANGED <<tables, ready, maintained, prepare, breaks>>

\* lock_object_ids: of objects without metadata; with a placement only when
\* the block is described for the first time.
Locks(c) ==
    LET t == writer[c]
    IN /\ t.key \notin complete /\ ~t.metadata /\ ~t.lock
       /\ Head(t.todo) = "place" => t.key \notin mentioned
LockId(c) ==
    /\ IsAt(c, "lock")
    /\ Locks(c) => \A d \in Others(c) : ~writer[d].lock
    /\ Becomes(c, [writer[c] EXCEPT !.lock = @ \/ Locks(c), !.at = Head(writer[c].todo)])
    /\ UNCHANGED <<tables, ready, maintained, prepare, breaks>>

Done(t) ==
    [t EXCEPT !.todo = Tail(@), !.at = IF Len(t.todo) = 1 THEN "commit" ELSE "lock"]

\* The row triggers before an INSERT run in the order of their names:
\* placement_filters reads the object, then placement_metadata_lock waits for
\* who completes it.
Fingerprint(c) ==
    LET t == writer[c]
    IN /\ IsAt(c, "place")
       /\ Becomes(c, [t EXCEPT !.print = maintained /\ (t.metadata \/ t.key \in complete),
                               !.at = "insert"])
       /\ UNCHANGED <<tables, ready, maintained, prepare, breaks>>

Insert(c) ==
    /\ IsAt(c, "insert") /\ \A d \in Others(c) : ~writer[d].metadata
    /\ Becomes(c, Done([writer[c] EXCEPT !.own = TRUE]))
    /\ UNCHANGED <<tables, ready, maintained, prepare, breaks>>

\* write_objects: the objects without metadata, when nobody has locked them.
WriteMetadata(c) ==
    LET t == writer[c]
    IN /\ IsAt(c, "metadata")
       /\ \/ t.key \in complete /\ Becomes(c, Done(t))
          \/ /\ t.key \notin complete /\ \A d \in Others(c) : ~writer[d].own /\ ~writer[d].metadata
             /\ Becomes(c, [t EXCEPT !.metadata = TRUE, !.at = "completed"])
       /\ UNCHANGED <<tables, ready, maintained, prepare, breaks>>

\* complete_placement_filters, at the end of that statement.
CompleteRow(c) ==
    LET t == writer[c]
    IN /\ IsAt(c, "completed")
       /\ Becomes(c, Done([t EXCEPT !.print = maintained /\ t.own,
                                    !.reprint = maintained /\ t.key \in placed]))
       /\ UNCHANGED <<tables, ready, maintained, prepare, breaks>>

Commit(c) ==
    LET t == writer[c]
        Also(S, b) == IF b THEN S \cup {t.key} ELSE S
    IN /\ IsAt(c, "commit")
       /\ mentioned' = Also(mentioned, t.own /\ t.key \notin Bundled)
       /\ complete' = Also(complete, t.metadata)
       /\ placed' = Also(placed, t.own)
       /\ filtered' = Also(filtered, t.print \/ t.reprint)
       /\ Becomes(c, Idle)
       /\ UNCHANGED <<ready, maintained, prepare, breaks>>

Abort(c) ==
    /\ ~IsAt(c, "none") /\ breaks < MaxBreaks /\ breaks' = breaks + 1
    /\ Becomes(c, Idle)
    /\ UNCHANGED <<tables, ready, maintained, prepare>>

\* rewind waits for every transaction about an unstable placement.
Rewind(k) ==
    /\ k \in placed /\ \A c \in Connection : IsAt(c, "none")
    /\ placed' = placed \ {k} /\ filtered' = filtered \ {k}
    /\ UNCHANGED <<mentioned, complete, ready, maintained, writer, prepare, breaks>>

-----------------------------------------------------------------------------
(* prepare_graphql_indexes and pause_graphql_index_maintenance, which keep *)
(* each other out by an advisory lock.                                     *)

Preparing(pc) == prepare.at = pc
Steps(p) == prepare' = p /\ UNCHANGED <<mentioned, complete, placed, writer, breaks>>

\* ALTER TABLE waits for all who wrote a table.
AtOnce == TRUE                                   \* mutant: it waits for nobody
Settled == TablesFree

Enable ==
    /\ Preparing("none") /\ Settled
    /\ ready' = FALSE /\ maintained' = TRUE
    /\ Steps([prepare EXCEPT !.at = "high"]) /\ UNCHANGED filtered

FindHigh ==
    /\ Preparing("high")
    /\ Steps([NoPrepare EXCEPT !.at = "keys", !.high = Max(placed \cup {0})])
    /\ UNCHANGED <<filtered, ready, maintained>>

Left == {k \in placed : k > prepare.after /\ k <= prepare.high}
NextKeys == {k \in Left : Cardinality({j \in Left : j < k}) < Backfill}

FindKeys ==
    /\ Preparing("keys")
    /\ Steps([prepare EXCEPT !.keys = NextKeys, !.at = IF NextKeys = {} THEN "publish" ELSE "fill"])
    /\ UNCHANGED <<filtered, ready, maintained>>

\* The rows that are still there are locked, then read and set by a
\* statement of its own.
Fill ==
    /\ Preparing("fill")
    /\ \A c \in Connection : writer[c].reprint => writer[c].key \notin prepare.keys
    /\ filtered' = (filtered \ prepare.keys) \cup (prepare.keys \cap placed \cap complete)
    /\ Steps([prepare EXCEPT !.after = Max(prepare.keys), !.keys = {}, !.at = "keys"])
    /\ UNCHANGED <<ready, maintained>>

PublishReady ==
    /\ Preparing("publish") /\ maintained
    /\ ready' = TRUE
    /\ Steps(NoPrepare) /\ UNCHANGED <<filtered, maintained>>

PrepareFails ==
    /\ ~Preparing("none") /\ breaks < MaxBreaks /\ breaks' = breaks + 1
    /\ prepare' = NoPrepare
    /\ UNCHANGED <<tables, ready, maintained, writer>>

Pause ==
    /\ Preparing("none") /\ TablesFree
    /\ ready' = FALSE /\ maintained' = FALSE
    /\ Steps(prepare) /\ UNCHANGED filtered

-----------------------------------------------------------------------------
FilterInit ==
    /\ mentioned = {} /\ complete = {} /\ placed = {} /\ filtered = {}
    /\ ready = FALSE /\ maintained = FALSE
    /\ writer = [c \in Connection |-> Idle] /\ prepare = NoPrepare /\ breaks = 0

FilterNext ==
    \/ \E c \in Connection :
         \/ \E k \in Key : \E todo \in Work(k) : StartWrite(c, k, todo)
         \/ LockId(c) \/ Fingerprint(c) \/ Insert(c) \/ WriteMetadata(c) \/ CompleteRow(c)
         \/ Commit(c) \/ Abort(c)
    \/ \E k \in Key : Rewind(k)
    \/ Enable \/ FindHigh \/ FindKeys \/ Fill \/ PublishReady \/ PrepareFails \/ Pause

FilterSpec == FilterInit /\ [][FilterNext]_filters

-----------------------------------------------------------------------------
\* require_graphql_indexes, read in the snapshot of the request.
Usable == ready /\ maintained

\* While requests may use the fingerprints, every placement with metadata
\* has its own: whatever was written before, during or between preparations,
\* by transactions that began before the triggers were enabled or beside the
\* one that completes the object (set_placement_filters,
\* complete_placement_filters, prepare_graphql_indexes).
FingerprintsKept == Usable => placed \cap complete \subseteq filtered
=============================================================================
