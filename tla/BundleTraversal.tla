---------------------------- MODULE BundleTraversal ----------------------------
(***************************************************************************)
(* The traversal of a bundle (BundleTraversal, next_bundle_batch and       *)
(* filter_keeps of indexer.rs): depth first through the items of a root    *)
(* and of the bundles nested in it, cut into batches that resume where the *)
(* last one ended.                                                         *)
(*                                                                         *)
(* Bytes, headers and signatures are left out: what a bundle contains is a *)
(* function of its id.  A path is the sequence of the places taken in each *)
(* bundle on the way, for the offsets of the code; both grow in a bundle.  *)
(***************************************************************************)
EXTENDS Integers, SequencesExt

CONSTANTS
    Item,       \* ids of data items
    Nested,     \* items with the tags of a bundle
    Matched,    \* items that the index filter accepts
    Contents,   \* the entries of each bundle, in order; some are not items
    MaxDepth,   \* MAX_BUNDLE_DEPTH
    BatchSize,  \* bundle_batch_size
    Fuel        \* bound: entries and ends of bundles that one batch passes

\* BundleFrame: a bundle being read, and its next entry.
Late(id, path) == [id |-> id, path |-> path,            \* mutant: the pending entry is lost
                   at |-> IF path = << >> THEN 1 ELSE 2]
Frame(id, path) == [id |-> id, path |-> path, at |-> 1]

\* A traversal; out is the batch under way.
NewTraversal(r) == [stack |-> <<Frame(r, << >>)>>, out |-> << >>, failed |-> FALSE]

\* Nested bundles stay indexed so their descendants keep a stored parent.
Kept(i) == i \in Item /\ (i \in Nested \/ i \in Matched)

\* Only a bundle with an entry takes a frame; one too many ends the job.
Pop(stack) == Front(stack)
Opened(t, i, path) ==
    IF ~(i \in Nested /\ Contents[i] # << >>) THEN t
    ELSE IF Len(t.stack) < MaxDepth THEN [t EXCEPT !.stack = Append(@, Frame(i, path))]
    ELSE [t EXCEPT !.failed = TRUE]

\* One turn of the loop of next_matching.
NextEntry(t) ==
    LET top == Last(t.stack)
        rest == [t EXCEPT !.stack[Len(t.stack)].at = @ + 1]
        i == Contents[top.id][top.at]
        path == Append(top.path, top.at)
    IN IF top.at > Len(Contents[top.id]) THEN [t EXCEPT !.stack = Pop(@)]
       ELSE IF ~Kept(i) THEN rest
       ELSE Opened([rest EXCEPT !.out = Append(@, [id |-> i, parent |-> top.id, path |-> path])],
                   i, path)

\* next_bundle_batch: complete when the stack ran out before the batch was full.
\* A batch that passes more than Fuel fails like a bundle that is too deep.
Ended(t) == Len(t.out) = BatchSize \/ t.stack = << >> \/ t.failed
Passing(t) == IF Ended(t) THEN t ELSE NextEntry(t)
Bounded(t) == IF Ended(t) THEN t ELSE [t EXCEPT !.failed = TRUE]
NextBatch(t) ==
    LET after[n \in 0 .. Fuel] ==
            IF n = 0 THEN [t EXCEPT !.out = << >>] ELSE Passing(after[n - 1])
    IN Bounded(after[Fuel])
LastBatch(t) == Len(t.out) < BatchSize

-----------------------------------------------------------------------------
(* What a traversal has to find, level by level.                           *)

Level(r) ==
    LET level[n \in 0 .. MaxDepth] ==
            IF n = 0 THEN {[id |-> r, parent |-> r, path |-> << >>]}
            ELSE UNION {{[id |-> Contents[p.id][k], parent |-> p.id, path |-> Append(p.path, k)] :
                            k \in {x \in DOMAIN Contents[p.id] : Kept(Contents[p.id][x])}} :
                        p \in {x \in level[n - 1] : n = 1 \/ x.id \in Nested}}
    IN level

Expected(r) == UNION {Level(r)[n] : n \in 1 .. MaxDepth}
=============================================================================
