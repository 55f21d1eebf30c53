----------------------------- MODULE ChainIndex -----------------------------
(***************************************************************************)
(* The block index: a contiguous copy of the trusted node's chain kept in  *)
(* PostgreSQL by import_range.  An import makes a dozen separate requests  *)
(* to a node whose chain moves in between, and then changes the database   *)
(* in one of four transactions (rewind, advance_checkpoint, initialize,    *)
(* commit_batch).  Several importers may run against one database: the     *)
(* service's follow_chain loop and any number of ar-io-index processes.    *)
(*                                                                         *)
(* A block stands for its 48-byte hash.  The trusted node is external: its *)
(* answers are those of a node with one chain at a time that never         *)
(* replaces a block ConsensusDepth below the highest block it ever showed. *)
(* Weave sizes, transaction roots and encodings are functions of the block *)
(* and are left out; so is the table public.blocks, which only collects    *)
(* what canonical_blocks has pointed to.                                   *)
(***************************************************************************)
EXTENDS Integers

CONSTANTS
    Importer,        \* processes that may call import_range
    Follower,        \* the importers that run follow_chain_step
    Starts, Ends,    \* bounds: the arguments the others are called with
    Block,           \* every block the trusted node may ever show
    Genesis,         \* its block of height 0
    NoBlock,         \* "no such row", "not yet read"
    At(_, _),        \* At(b, h): the ancestor of b at height h, b included
    HeightOf(_),     \* the height of a block
    MaxHeight,       \* bound: the height of the tallest block in Block
    ConsensusDepth,  \* CONSENSUS_DEPTH, 50 in the code
    BatchSize,       \* 256 in the code: entries of one block-index request
    MaxFails         \* bound: failed requests and crashes

Height == 0 .. MaxHeight
NoHeight == -1       \* Option::None of imported_through

ASSUME ChainAssumption ==
    /\ MaxHeight \in Nat /\ ConsensusDepth \in Nat /\ MaxFails \in Nat
    /\ BatchSize \in Nat /\ BatchSize >= 2
    /\ Follower \subseteq Importer
    /\ Starts \subseteq Height /\ Ends \subseteq Height
    /\ Genesis \in Block /\ NoBlock \notin Block

ASSUME TreeAssumption ==
    /\ \A b \in Block : HeightOf(b) \in Height
    /\ \A b \in Block : At(b, HeightOf(b)) = b
    /\ \A b \in Block : \A h \in 0 .. HeightOf(b) :
         At(b, h) \in Block /\ HeightOf(At(b, h)) = h
    /\ \A b \in Block : \A h \in 0 .. HeightOf(b) : \A g \in 0 .. h :
         At(At(b, h), g) = At(b, g)

VARIABLES
    node,      \* the tip of the trusted node's chain
    peak,      \* the greatest height the node has shown
    db,        \* the row of block_index_state, or uninitialised
    canon,     \* canonical_blocks: height -> block
    imp,       \* the locals of each import_range in progress
    fails      \* failures so far, at most MaxFails

vars == <<node, peak, db, canon, imp, fails>>

-----------------------------------------------------------------------------
(* The trusted node (external).                                            *)

NodeTip == HeightOf(node)
FinalHeight == peak - ConsensusDepth

\* Does the node, asked now, put block b on its chain?
OnNode(b) == HeightOf(b) <= NodeTip /\ At(node, HeightOf(b)) = b

\* No block of the node's chain at or below FinalHeight is ever replaced.
Final(b) == HeightOf(b) <= FinalHeight /\ OnNode(b)

\* The node's chain grows, or is replaced above FinalHeight.
NodeMoves(b) ==
    /\ b # node
    /\ HeightOf(b) >= FinalHeight
    /\ FinalHeight >= 0 => At(b, FinalHeight) = At(node, FinalHeight)
    /\ node' = b
    /\ peak' = IF HeightOf(b) > peak THEN HeightOf(b) ELSE peak
    /\ UNCHANGED <<db, canon, imp, fails>>

-----------------------------------------------------------------------------
(* The importers.                                                          *)

Lesser(a, b) == IF a < b THEN a ELSE b

Uninitialised == [start |-> NoHeight, through |-> NoHeight, pin |-> NoBlock]

Known == db.pin # NoBlock

\* The locals of an importer that is not in a call.
Idle == [pc |-> "idle", start |-> 0, end |-> 0, info |-> 0,
         through |-> NoHeight, pin |-> NoBlock, tip |-> NoBlock,
         anc |-> NoHeight, seen |-> NoBlock, next |-> NoBlock,
         batch |-> NoBlock]

Is(p, pc) == imp[p].pc = pc

Becomes(p, local) == imp' = [imp EXCEPT ![p] = local]

\* An ensure! or a request that fails ends the call; the caller retries.
Abort(p) == Becomes(p, Idle)

ReadOnly == UNCHANGED <<node, peak, db, canon, fails>>

StableOffByOne(l) == l.info - ConsensusDepth + 1      \* mutant
Stable(l) == l.info - ConsensusDepth

\* follow_chain_step reads the state, then the node's height, and asks for
\* one more batch.  (With metadata pending it asks for a different end; the
\* ends of ImportRange stand for those.)
FollowChainStep(p) ==
    /\ p \in Follower /\ Is(p, "idle")
    /\ Known => db.start = 0
    /\ Becomes(p, [Idle EXCEPT !.pc = "follow", !.through = db.through])
    /\ ReadOnly

OneMoreBatch(l) ==
    IF l.through = NoHeight THEN BatchSize - 1 ELSE l.through + BatchSize

EndOfStep(l) == Lesser(OneMoreBatch(l), NodeTip)

FollowEnd(p) ==
    /\ Is(p, "follow")
    /\ Becomes(p, [Idle EXCEPT !.pc = "state", !.end = EndOfStep(imp[p])])
    /\ ReadOnly

\* ar-io-index blocks <start> <end>.  The first block stored is start's
\* predecessor.
ImportRange(p, start, end) ==
    /\ p \notin Follower /\ Is(p, "idle")
    /\ start <= end
    /\ Becomes(p, [Idle EXCEPT !.pc = "state", !.end = end,
                               !.start = IF start = 0 THEN 0 ELSE start - 1])
    /\ ReadOnly

ReadState(p) ==
    /\ Is(p, "state")
    /\ IF Known /\ db.start # imp[p].start THEN Abort(p) ELSE
       Becomes(p, [imp[p] EXCEPT !.pc = "info", !.pin = db.pin,
                                 !.through = db.through])
    /\ ReadOnly

ReadInfo(p) ==
    /\ Is(p, "info")
    /\ IF NodeTip < ConsensusDepth \/ imp[p].end > NodeTip THEN Abort(p) ELSE
       Becomes(p, [imp[p] EXCEPT !.pc = "tip", !.info = NodeTip])
    /\ ReadOnly

\* read_checkpoint(info.height), and for a known database the check that its
\* checkpoint is still stable.
ReadTip(p) ==
    LET l == imp[p]
        fresh == l.pin = NoBlock
    IN  /\ Is(p, "tip")
        /\ IF \/ NodeTip < l.info
              \/ ~fresh /\ HeightOf(l.pin) > Stable(l)
           THEN Abort(p)
           ELSE Becomes(p, [l EXCEPT !.pc = IF fresh THEN "seed" ELSE "pin",
                                     !.tip = At(node, l.info)])
        /\ ReadOnly

\* Where the call goes once a reorg has been handled.
Settled(l) ==
    [l EXCEPT !.pc = IF Stable(l) > HeightOf(l.pin) THEN "next" ELSE "init",
              !.anc = NoHeight,
              !.info = IF Stable(l) > HeightOf(l.pin) THEN @ ELSE 0]

\* Only blocks above the checkpoint can have been replaced.
MayBeReplaced(l) == l.through > HeightOf(l.pin)

VerifyPin(p) ==
    LET l == imp[p]
    IN  /\ Is(p, "pin")
        /\ IF ~OnNode(l.pin) THEN Abort(p) ELSE
           Becomes(p, IF MayBeReplaced(l)
                      THEN [l EXCEPT !.pc = "walk", !.anc = Lesser(l.through, l.info)]
                      ELSE Settled(l))
        /\ ReadOnly

\* The search for the highest stored block the node still has: one request
\* and one query per height.
WalkRemote(p) ==
    LET l == imp[p]
    IN  /\ Is(p, "walk")
        /\ IF NodeTip < l.anc THEN Abort(p) ELSE
           Becomes(p, [l EXCEPT !.pc = "match", !.seen = At(node, l.anc)])
        /\ ReadOnly

GivesUpEarly(l) == l.anc <= HeightOf(l.pin) + 1         \* mutant: off by one
CrossesPin(l) == l.anc <= HeightOf(l.pin)

WalkStored(p) ==
    LET l == imp[p]
    IN  /\ Is(p, "match")
        /\ \/ /\ canon[l.anc] = l.seen
              /\ Becomes(p, [l EXCEPT !.pc = "reorg", !.seen = NoBlock])
           \/ /\ canon[l.anc] # l.seen
              /\ IF CrossesPin(l) THEN Abort(p) ELSE
                 Becomes(p, [l EXCEPT !.pc = "walk", !.anc = @ - 1, !.seen = NoBlock])
        /\ ReadOnly

KeepsFork(l) == l.anc + 1 < l.through                   \* mutant: off by one
MustRewind(l) == l.anc < l.through

VerifyTip(p) ==
    LET l == imp[p]
    IN  /\ Is(p, "reorg")
        /\ IF ~OnNode(l.tip) THEN Abort(p) ELSE
           Becomes(p, IF MustRewind(l) THEN [l EXCEPT !.pc = "rewind"] ELSE Settled(l))
        /\ ReadOnly

\* DELETE FROM canonical_blocks WHERE height > $1.
DroppedToo(l) == {h \in Height : h >= l.anc}            \* mutant: >=
Dropped(l) == {h \in Height : h > l.anc}

\* BlockStore::rewind, one transaction.
Rewind(p) ==
    LET l == imp[p]
    IN  /\ Is(p, "rewind")
        /\ \/ /\ db.pin = l.pin /\ l.anc >= HeightOf(l.pin) /\ l.anc <= db.through
              /\ db' = [db EXCEPT !.through = l.anc]
              /\ canon' = [h \in Height |-> IF h \in Dropped(l) THEN NoBlock ELSE canon[h]]
              /\ Becomes(p, Settled(l))
           \/ /\ db.pin # l.pin \/ l.anc < HeightOf(l.pin) \/ l.anc > db.through
              /\ Abort(p) /\ UNCHANGED <<db, canon>>
        /\ UNCHANGED <<node, peak, fails>>

ReadNext(p) ==
    LET l == imp[p]
    IN  /\ Is(p, "next")
        /\ IF NodeTip < Stable(l) THEN Abort(p) ELSE
           Becomes(p, [l EXCEPT !.pc = "nextPin", !.next = At(node, Stable(l))])
        /\ ReadOnly

VerifyNext(p) ==
    LET l == imp[p]
    IN  \/ /\ Is(p, "nextPin")
           /\ IF OnNode(l.pin) THEN Becomes(p, [l EXCEPT !.pc = "nextNext"]) ELSE Abort(p)
           /\ ReadOnly
        \/ /\ Is(p, "nextNext")
           /\ IF OnNode(l.next) THEN Becomes(p, [l EXCEPT !.pc = "advance"]) ELSE Abort(p)
           /\ ReadOnly

AnyPin(l) == TRUE                                      \* mutant: UPDATE without WHERE
SamePin(l) == db.pin = l.pin

\* BlockStore::advance_checkpoint: one UPDATE that compares the old pin.
AdvanceCheckpoint(p) ==
    LET l == imp[p]
    IN  /\ Is(p, "advance")
        /\ \/ /\ SamePin(l)
              /\ db' = [db EXCEPT !.pin = l.next]
              /\ Becomes(p, [l EXCEPT !.pc = "init", !.pin = l.next, !.next = NoBlock,
                                     !.info = 0])
           \/ /\ ~SamePin(l)
              /\ Abort(p) /\ UNCHANGED db
        /\ UNCHANGED <<node, peak, canon, fails>>

\* No stored state: the first checkpoint is the node's stable block.
ReadSeed(p) ==
    LET l == imp[p]
    IN  /\ Is(p, "seed")
        /\ IF NodeTip < Stable(l) THEN Abort(p) ELSE
           Becomes(p, [l EXCEPT !.pc = "init", !.info = 0,
                                     !.pin = At(node, Stable(l))])
        /\ ReadOnly

\* The loop of import_range: another batch, or the end of the call.
Continue(l) ==
    LET first == IF l.through = NoHeight THEN l.start ELSE l.through + 1
    IN  IF first <= l.end
        THEN [l EXCEPT !.pc = "batch", !.batch = NoBlock]
        ELSE Idle

\* BlockStore::initialize: INSERT .. ON CONFLICT DO NOTHING, then validate.
Initialize(p) ==
    LET l == imp[p]
        row == IF Known THEN db
               ELSE [start |-> l.start, through |-> NoHeight, pin |-> l.pin]
    IN  /\ Is(p, "init")
        /\ \/ /\ l.start <= HeightOf(l.pin)
              /\ row.start = l.start /\ row.pin = l.pin
              /\ db' = row
              /\ Becomes(p, Continue([l EXCEPT !.through = row.through]))
           \/ /\ l.start > HeightOf(l.pin) \/ row.start # l.start \/ row.pin # l.pin
              /\ Abort(p) /\ UNCHANGED db
        /\ UNCHANGED <<node, peak, canon, fails>>

FetchStart(l) == IF l.through = NoHeight THEN l.start ELSE l.through
FetchEnd(l) == Lesser(l.end, FetchStart(l) + BatchSize - 1)

VerifyBatchPin(p) ==
    LET l == imp[p]
    IN  /\ Is(p, "batch")
        /\ IF OnNode(l.pin) THEN Becomes(p, [l EXCEPT !.pc = "fetch"]) ELSE Abort(p)
        /\ ReadOnly

\* One response holds entries FetchStart .. FetchEnd of one chain; the last
\* of them names the others.
FetchBatch(p) ==
    LET l == imp[p]
        last == At(node, FetchEnd(l))
        pinned == HeightOf(l.pin) \in FetchStart(l) .. FetchEnd(l)
    IN  /\ Is(p, "fetch")
        /\ IF \/ NodeTip < FetchEnd(l)
              \/ pinned /\ At(last, HeightOf(l.pin)) # l.pin
           THEN Abort(p)
           ELSE Becomes(p, [l EXCEPT !.pc = "batchPin", !.batch = last])
        /\ ReadOnly

VerifyBatch(p) ==
    LET l == imp[p]
    IN  \/ /\ Is(p, "batchPin")
           /\ IF OnNode(l.pin) THEN Becomes(p, [l EXCEPT !.pc = "batchTip"]) ELSE Abort(p)
           /\ ReadOnly
        \/ /\ Is(p, "batchTip")
           /\ IF OnNode(l.tip) THEN Becomes(p, [l EXCEPT !.pc = "commit"]) ELSE Abort(p)
           /\ ReadOnly

\* The heights a batch adds: the overlapping entry is skipped.
NewHeights(l) ==
    (IF l.through = NoHeight THEN l.start ELSE l.through + 1) .. HeightOf(l.batch)

\* The overlapping entry is the stored predecessor.
AnyPredecessor(l) == TRUE                              \* mutant: link not checked
Linked(l) == db.through # NoHeight => canon[db.through] = At(l.batch, db.through)

\* validate_batch against the row read in the same transaction.
BatchValid(l) ==
    /\ db.pin = l.pin
    /\ l.through = db.through
    /\ Linked(l)
    /\ HeightOf(l.batch) <= HeightOf(db.pin) + ConsensusDepth
    /\ HeightOf(db.pin) \in NewHeights(l) => At(l.batch, HeightOf(db.pin)) = db.pin

\* BlockStore::commit_batch, one transaction.
CommitBatch(p) ==
    LET l == imp[p]
        last == HeightOf(l.batch)
    IN  /\ Is(p, "commit")
        /\ \/ /\ Known /\ BatchValid(l)
              /\ canon' = [h \in Height |->
                             IF h \in NewHeights(l) THEN At(l.batch, h) ELSE canon[h]]
              /\ db' = [db EXCEPT !.through = last]
              /\ Becomes(p, Continue([l EXCEPT !.through = last]))
           \/ /\ ~(Known /\ BatchValid(l))
              /\ Abort(p) /\ UNCHANGED <<db, canon>>
        /\ UNCHANGED <<node, peak, fails>>

\* A request fails, a deadline passes or the process stops between two of
\* its steps: the locals are lost, the database keeps what was committed.
Fail(p) ==
    /\ ~Is(p, "idle") /\ fails < MaxFails
    /\ fails' = fails + 1
    /\ Abort(p)
    /\ UNCHANGED <<node, peak, db, canon>>

-----------------------------------------------------------------------------
Init ==
    /\ node \in {b \in Block : HeightOf(b) <= ConsensusDepth}
    /\ peak = HeightOf(node)
    /\ db = Uninitialised
    /\ canon = [h \in Height |-> NoBlock]
    /\ imp = [p \in Importer |-> Idle]
    /\ fails = 0

\* The steps import_range takes by itself once it has been called.
Work(p) ==
    \/ FollowEnd(p) \/ ReadState(p) \/ ReadInfo(p) \/ ReadTip(p) \/ VerifyPin(p)
    \/ WalkRemote(p) \/ WalkStored(p) \/ VerifyTip(p) \/ Rewind(p)
    \/ ReadNext(p) \/ VerifyNext(p) \/ AdvanceCheckpoint(p)
    \/ ReadSeed(p) \/ Initialize(p)
    \/ VerifyBatchPin(p) \/ FetchBatch(p) \/ VerifyBatch(p) \/ CommitBatch(p)

Next ==
    \/ \E b \in Block : NodeMoves(b)
    \/ \E p \in Importer \ Follower, s \in Starts, e \in Ends : ImportRange(p, s, e)
    \/ \E p \in Importer : FollowChainStep(p) \/ Work(p) \/ Fail(p)

Spec == Init /\ [][Next]_vars

\* follow_chain calls follow_chain_step again after every return and every
\* error, and each request ends by its deadline; nothing else is fair.
FairSpec ==
    /\ Spec
    /\ \A p \in Follower : WF_vars(FollowChainStep(p)) /\ WF_vars(Work(p))
-----------------------------------------------------------------------------
(* Correctness.                                                            *)

Local == [pc : {"idle", "follow", "state", "info", "tip", "pin", "walk", "match",
                "reorg", "rewind", "next", "nextPin", "nextNext", "advance",
                "seed", "init", "batch", "fetch", "batchPin", "batchTip", "commit"},
          start : Height, end : Height, info : Height,
          through : Height \cup {NoHeight}, pin : Block \cup {NoBlock},
          tip : Block \cup {NoBlock}, anc : Height \cup {NoHeight},
          seen : Block \cup {NoBlock}, next : Block \cup {NoBlock},
          batch : Block \cup {NoBlock}]

\* The state of the index, of the node and of every call keeps its shape.
TypeOK ==
    /\ node \in Block
    /\ peak \in Height /\ HeightOf(node) <= peak
    /\ db \in [start : Height \cup {NoHeight}, through : Height \cup {NoHeight},
               pin : Block \cup {NoBlock}]
    /\ canon \in [Height -> Block \cup {NoBlock}]
    /\ imp \in [Importer -> Local]
    /\ fails \in 0 .. MaxFails

Stored == IF db.through = NoHeight THEN {} ELSE db.start .. db.through

\* canonical_blocks holds exactly the heights start .. imported_through, and
\* they are one chain: every stored block is the ancestor of every higher one.
\* Rewinds, batches cut at arbitrary ends and importers that overlap must not
\* splice two forks or leave a gap (import_range, rewind, commit_batch).
ChainLinked ==
    /\ \A h \in Height : canon[h] # NoBlock <=> h \in Stored
    /\ \A h \in Stored : HeightOf(canon[h]) = h /\ canon[h] = At(canon[db.through], h)

\* The row of block_index_state: it is created with its pin, starts no later
\* than the pin, and its cursor is never below its start.
RowOK ==
    /\ Known => db.start \in Height /\ db.start <= HeightOf(db.pin)
    /\ db.through # NoHeight => Known /\ db.start <= db.through

\* The pinned checkpoint is a block the trusted node can no longer replace,
\* however the node moved between the requests that chose it
\* (read_checkpoint, verify_checkpoint, advance_checkpoint, initialize).
PinFinal == Known => Final(db.pin)

\* Once the index reaches its checkpoint, it holds the checkpoint itself.
\* validate_batch asserts it of every block it admits; here it is asked of
\* the stored rows at every moment.
PinStored ==
    Known /\ HeightOf(db.pin) \in Stored => canon[HeightOf(db.pin)] = db.pin

\* stable_canonical_hash answers for the heights up to the checkpoint; such
\* an answer is the block the node has, now and for ever.
StableAnswersFinal ==
    \A h \in Stored : Known /\ h <= HeightOf(db.pin) => Final(canon[h])

\* No step rewrites or drops a row at or below the checkpoint, and the
\* checkpoint never goes back (rewind stops at it, advance_checkpoint
\* compares it).
ProtectedPrefix ==
    [][Known => /\ db'.pin # NoBlock /\ HeightOf(db'.pin) >= HeightOf(db.pin)
                /\ \A h \in Stored : h <= HeightOf(db.pin) => canon'[h] = canon[h]]_vars

\* When the node stays at its best chain, the service's index ends up equal
\* to it: no interleaving of reorg, advance and batch leaves follow_chain
\* failing for ever.
Synced == Known /\ db.through = NodeTip /\ canon[db.through] = node
CatchesUp ==
    (/\ <>[][FALSE]_node
     /\ <>[](NodeTip = peak /\ peak >= ConsensusDepth)) => <>[]Synced

\* What a call's locals mean at each of its program counters; with TypeOK,
\* RowOK, ChainLinked and PinFinal it is inductive.
Searching == {"walk", "match", "reorg", "rewind"}
Advancing == {"nextPin", "nextNext", "advance"}
Batching == {"batch", "fetch", "batchPin", "batchTip", "commit"}
Fetched == {"batchPin", "batchTip", "commit"}
LocalOK(l) ==
    /\ l.pin # NoBlock => Final(l.pin)
    /\ l.pc \in {"pin", "next", "init"} \cup Searching \cup Advancing \cup Batching
         => l.pin # NoBlock
    /\ l.pc \in {"tip", "pin", "seed", "next"} \cup Searching \cup Advancing
         => ConsensusDepth <= l.info /\ l.info <= peak
    /\ l.pc \in Searching => l.anc \in Height
    /\ l.pc \in {"next"} \cup Advancing => HeightOf(l.pin) < Stable(l)
    /\ l.pc \in Advancing => l.next # NoBlock /\ Final(l.next) /\ HeightOf(l.next) = Stable(l)
    /\ l.pc \in Batching => /\ Known /\ l.start = db.start
                           /\ IF l.through = NoHeight THEN l.start <= l.end
                                                       ELSE l.through < l.end
    /\ l.pc \in Fetched => l.batch # NoBlock /\ HeightOf(l.batch) = FetchEnd(l)

\* The node never falls below what it made final.
NodeOK == FinalHeight <= NodeTip

IInv ==
    /\ TypeOK /\ NodeOK /\ RowOK /\ ChainLinked /\ PinFinal
    /\ \A p \in Importer : LocalOK(imp[p])

\* What a call's locals mean besides when it is the only one: nobody else moves
\* the row it has read, so whatever it stores up to the checkpoint it checked
\* or is about to set was on the node's chain when that height was final.
SoleOK(l) ==
    /\ l.pc \in {"info", "tip", "pin", "next"} \cup Searching \cup Advancing => db.pin = l.pin
    /\ l.pc \in {"info", "tip", "pin"} \cup Searching => db.through = l.through
    /\ l.pc \in Searching => l.anc <= l.through
    /\ l.pc = "match" => /\ l.seen \in Block /\ HeightOf(l.seen) = l.anc
                         /\ \A h \in 0 .. l.anc : h <= Stable(l) => Final(At(l.seen, h))
    /\ l.pc \in {"reorg", "rewind"} =>
         \A h \in Stored : h <= l.anc /\ h <= Stable(l) => Final(canon[h])
    /\ l.pc \in {"next"} \cup Advancing => \A h \in Stored : h <= Stable(l) => Final(canon[h])
    /\ l.pc \in Fetched =>
         \A h \in 0 .. HeightOf(l.batch) : h <= HeightOf(l.pin) => Final(At(l.batch, h))
SoleInv == StableAnswersFinal /\ \A p \in Importer : SoleOK(imp[p])

\* What the readers of the index rely on, without its requests and
\* transactions.
Log == INSTANCE PinnedLog WITH
         log <- [h \in Stored |-> canon[h]],
         pinned <- IF Known THEN HeightOf(db.pin) ELSE NoHeight
LogSpec == Log!Spec
=============================================================================
