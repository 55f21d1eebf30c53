----------------------------- MODULE ChunkAnchors -----------------------------
(***************************************************************************)
(* Chunks by their offset in the weave (lib.rs: retrieve_chunk).  A chunk  *)
(* is proven against the geometry of a block: its root and where it begins *)
(* and ends.  The block comes from the chunks in memory, from the block    *)
(* index or from a search on the trusted node; the chain may change at any *)
(* moment, so every block is compared with the chain again before its      *)
(* chunk is handed out.                                                    *)
(***************************************************************************)
EXTENDS ChainIndex, Sequences, SequencesExt

CONSTANTS
    Asker,         \* requests for chunks
    Offset,        \* offsets they ask for
    RootOf(_),     \* the root of the transactions of a block
    WeaveOf(_),    \* the size of the weave with a block
    MaxEntries     \* cache_max_entries

ASSUME AnchorsAssumption ==
    /\ Offset \subseteq Nat /\ MaxEntries \in Nat
    /\ \A b \in Block : WeaveOf(b) \in Nat

VARIABLES
    work,     \* chunk_cache.inflight: the shared retrieval of each offset
    asking,   \* what each request waits for or was told
    memory    \* chunk_cache.entries, the least recently used first

anchoring == <<work, asking, memory>>

Quiet == [at |-> "quiet"]

Before(b) == IF HeightOf(b) = 0 THEN 0 ELSE WeaveOf(At(b, HeightOf(b) - 1))
Geometry(b) == [root |-> RootOf(b), weave |-> WeaveOf(b), before |-> Before(b)]
Covers(g, offset) == g.before < offset /\ offset <= g.weave

\* block_pair: a block of the index with its predecessor.
Pair(h) ==
    /\ h > 0 /\ h > db.start /\ h <= db.through
    /\ NoBlock \notin {canon[h], canon[h - 1]} /\ At(canon[h], h - 1) = canon[h - 1]

\* block_for_offset.
Holding(offset) == {h \in Height : Pair(h) /\ Covers(Geometry(canon[h]), offset)}

-----------------------------------------------------------------------------
(* Callers and the shared retrieval.                                       *)

Tell(o, answer) ==
    /\ work' = [work EXCEPT ![o] = Quiet]
    /\ asking' = [c \in Asker |->
          IF asking[c].at = "waiting" /\ asking[c].offset = o
          THEN [at |-> "told", offset |-> o, answer |-> answer] ELSE asking[c]]

Missing == [at |-> "missing"]
Error == [at |-> "error"]
Inconsistent == [at |-> "inconsistent"]
Chunk(o) == [at |-> "chunk", geometry |-> work[o].geometry, height |-> work[o].height]

Goes(o, w) == work' = [work EXCEPT ![o] = w] /\ UNCHANGED asking

AskChunk(c, o) ==
    /\ asking[c].at # "waiting"
    /\ asking' = [asking EXCEPT ![c] = [at |-> "waiting", offset |-> o]]
    /\ work' = IF work[o].at = "quiet" THEN [work EXCEPT ![o] = [at |-> "look"]] ELSE work
    /\ UNCHANGED memory

\* The retrieval ends with its last caller.
LeaveChunk(c) ==
    /\ asking[c].at = "waiting" /\ asking' = [asking EXCEPT ![c] = Quiet]
    /\ work' = IF \E d \in Asker \ {c} : asking[d].at = "waiting" /\ asking[d].offset = asking[c].offset
               THEN work ELSE [work EXCEPT ![asking[c].offset] = Quiet]
    /\ UNCHANGED memory

-----------------------------------------------------------------------------
(* retrieve_cached_chunk.                                                  *)

With(o, at, geometry, height) ==
    Goes(o, [at |-> at, ask |-> "index", geometry |-> geometry, height |-> height])

\* The entries are a map: an offset has one at most.
InMemory(o) == \E i \in DOMAIN memory : memory[i].offset = o
PlaceOf(o) == CHOOSE i \in DOMAIN memory : memory[i].offset = o
Others(o) == IF InMemory(o) THEN RemoveAt(memory, PlaceOf(o)) ELSE memory

Look(o) ==
    /\ work[o].at = "look"
    /\ \/ /\ InMemory(o)
          /\ memory' = Append(Others(o), memory[PlaceOf(o)])
          /\ With(o, "hit", memory[PlaceOf(o)].geometry, memory[PlaceOf(o)].height)
       \/ ~InMemory(o) /\ Goes(o, [at |-> "nearby"]) /\ UNCHANGED memory

\* Any chunk of the same block knows its geometry.
FindNearby(o) ==
    LET Near == {i \in DOMAIN memory : Covers(memory[i].geometry, o)} IN
    /\ work[o].at = "nearby"
    /\ IF Near = {} THEN Goes(o, [at |-> "anchor"])
       ELSE \E i \in Near : With(o, "near", memory[i].geometry, memory[i].height)
    /\ UNCHANGED memory

\* chunk_anchor_matches: the index is asked, and the node where it has none.
Trusted(o, b) == TRUE                              \* mutant: not compared
Same(o, b) == Geometry(b) = work[o].geometry

Settle(o, b) ==
    LET kept == Append(Others(o), [offset |-> o, geometry |-> work[o].geometry,
                                   height |-> work[o].height]) IN
    \/ work[o].at = "hit" /\ Same(o, b) /\ Tell(o, Chunk(o)) /\ UNCHANGED memory
    \/ work[o].at = "hit" /\ ~Same(o, b) /\ Goes(o, [at |-> "nearby"]) /\ memory' = Others(o)
    \/ work[o].at = "near" /\ Same(o, b) /\ Goes(o, [work[o] EXCEPT !.at = "fetch"]) /\ UNCHANGED memory
    \/ work[o].at = "near" /\ ~Same(o, b) /\ Goes(o, [at |-> "anchor"]) /\ UNCHANGED memory
    \/ /\ work[o].at = "fetched" /\ Same(o, b) /\ Tell(o, Chunk(o))
       /\ memory' = IF Len(kept) > MaxEntries THEN Tail(kept) ELSE kept
    \/ work[o].at = "fetched" /\ ~Same(o, b) /\ Tell(o, Error) /\ UNCHANGED memory  \* changed meanwhile

Compare(o) ==
    LET h == work[o].height IN
    /\ work[o].at \in {"hit", "near", "fetched"}
    /\ \/ work[o].ask = "index" /\ Pair(h) /\ Settle(o, canon[h])
       \/ work[o].ask = "index" /\ ~Pair(h) /\ Goes(o, [work[o] EXCEPT !.ask = "node"]) /\ UNCHANGED memory
       \/ work[o].ask = "node" /\ NodeTip < h /\ Tell(o, Error) /\ UNCHANGED memory
       \/ work[o].ask = "node" /\ NodeTip >= h /\ Settle(o, At(node, h))

\* fetch_verified_chunk: against the geometry, from a cache or a peer.
Fetch(o) ==
    /\ work[o].at = "fetch"
    /\ \/ Goes(o, [work[o] EXCEPT !.at = "fetched", !.ask = "index"])
       \/ Tell(o, Missing)
    /\ UNCHANGED memory

-----------------------------------------------------------------------------
(* trusted_chunk_anchor.                                                   *)

FindStored(o) ==
    /\ work[o].at = "anchor"
    /\ \/ o = 0 /\ Tell(o, Missing)
       \/ o # 0 /\ Holding(o) = {} /\ Goes(o, [at |-> "info"])
       \/ o # 0 /\ \E h \in Holding(o) : With(o, "fetch", Geometry(canon[h]), h)
    /\ UNCHANGED memory

\* The search stays where the chain of the node is final.
ReadStable(o) ==
    /\ work[o].at = "info"
    /\ IF NodeTip < ConsensusDepth THEN Tell(o, Missing)
       ELSE Goes(o, [at |-> "top", stable |-> NodeTip - ConsensusDepth])
    /\ UNCHANGED memory

ReadTop(o) ==
    LET stable == work[o].stable IN
    /\ work[o].at = "top"
    /\ IF NodeTip < stable THEN Tell(o, Error)
       ELSE IF o > WeaveOf(At(node, stable)) THEN Tell(o, Missing)
       ELSE Goes(o, [at |-> "search", low |-> 0, high |-> stable])
    /\ UNCHANGED memory

Search(o) ==
    LET w == work[o]
        mid == w.low + (w.high - w.low) \div 2 IN
    /\ w.at = "search" /\ w.low < w.high
    /\ IF NodeTip < mid THEN Tell(o, Error)
       ELSE Goes(o, IF o <= WeaveOf(At(node, mid)) THEN [w EXCEPT !.high = mid]
                    ELSE [w EXCEPT !.low = mid + 1])
    /\ UNCHANGED memory

\* The block and its predecessor come in one answer.
ReadAnchor(o) ==
    LET w == work[o] IN
    /\ w.at = "search" /\ w.low = w.high
    /\ IF NodeTip < w.low THEN Tell(o, Error)
       ELSE IF Covers(Geometry(At(node, w.low)), o) THEN With(o, "fetch", Geometry(At(node, w.low)), w.low)
       ELSE Tell(o, Inconsistent)
    /\ UNCHANGED memory

\* A request to the database, the node or the peers fails.
RetrievalFails(o) ==
    work[o].at \notin {"quiet", "look", "nearby"} /\ Tell(o, Error) /\ UNCHANGED memory

AnchorsInit ==
    /\ work = [o \in Offset |-> Quiet] /\ asking = [c \in Asker |-> Quiet] /\ memory = << >>

Retrieving(o) ==
    \/ Look(o) \/ FindNearby(o) \/ Compare(o) \/ Fetch(o) \/ FindStored(o)
    \/ ReadStable(o) \/ ReadTop(o) \/ Search(o) \/ ReadAnchor(o) \/ RetrievalFails(o)

AnchorsNext ==
    \/ \E c \in Asker : LeaveChunk(c) \/ \E o \in Offset : AskChunk(c, o)
    \/ \E o \in Offset : Retrieving(o)

\* Chunks are asked for while importers write the index and the node goes on.
AnchorsStep == \/ Next /\ UNCHANGED anchoring
               \/ AnchorsNext /\ UNCHANGED vars
AnchorsSpec == Init /\ AnchorsInit /\ [][AnchorsStep]_<<vars, anchoring>>

-----------------------------------------------------------------------------
(* Invariants.                                                             *)

\* A geometry is that of a block which holds the offset it is used for; the
\* chain it is from may be gone.
Lent(o, e) ==
    /\ e.geometry \in {Geometry(b) : b \in Block} /\ e.height \in Height
    /\ Covers(e.geometry, o)
Entry ==
    {e \in [offset : Offset, geometry : {Geometry(b) : b \in Block}, height : Height] :
        Covers(e.geometry, e.offset)}

\* The search runs on blocks the node no longer replaces, with the block it
\* looks for between its ends.
Bracketed(o, w) ==
    /\ o > 0 /\ w.low \in Nat /\ w.high \in Nat
    /\ w.low <= w.high /\ w.high <= FinalHeight
    /\ w.low > 0 => WeaveOf(At(node, w.low - 1)) < o
    /\ o <= WeaveOf(At(node, w.high))

WorkOK(o, w) ==
    /\ w.at \in {"quiet", "look", "nearby", "hit", "near", "fetch", "fetched", "anchor", "info",
                 "top", "search"}
    /\ w.at \in {"hit", "near", "fetch", "fetched"} =>
          /\ w = [at |-> w.at, ask |-> w.ask, geometry |-> w.geometry, height |-> w.height]
          /\ w.ask \in {"index", "node"} /\ Lent(o, w)
    /\ w.at \in {"info", "top", "search"} => o > 0
    /\ w.at = "top" => w.stable \in Nat /\ w.stable <= FinalHeight
    /\ w.at = "search" => w = [at |-> "search", low |-> w.low, high |-> w.high] /\ Bracketed(o, w)

AnchorsInv ==
    /\ work = [o \in Offset |-> work[o]] /\ \A o \in Offset : WorkOK(o, work[o])
    /\ asking = [c \in Asker |-> asking[c]] /\ memory \in Seq(Entry)

OnChain(o, g) ==
    \/ \E h \in Holding(o) : Geometry(canon[h]) = g
    \/ \E h \in 0 .. NodeTip : Covers(Geometry(At(node, h)), o) /\ Geometry(At(node, h)) = g

\* A chunk is told only from the block that holds its offset at that moment,
\* on the chain of the index or on that of the node: not from one that was
\* replaced while it was found, fetched or kept, and not by a geometry that
\* another block lent (chunk_anchor_matches).  The search on the node never
\* ends beside the block it looks for (trusted_chunk_anchor).
ChunkCurrent ==
    [][\A c \in Asker : asking'[c].at = "told" /\ asking'[c] # asking[c] =>
         /\ asking'[c].answer # Inconsistent
         /\ asking'[c].answer.at = "chunk" =>
              OnChain(asking'[c].offset, asking'[c].answer.geometry)]_anchoring
=============================================================================
