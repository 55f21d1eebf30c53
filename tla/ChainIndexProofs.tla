--------------------------- MODULE ChainIndexProofs ---------------------------
(***************************************************************************)
(* For every tree of blocks, every number of importers and every depth and *)
(* batch size: the stored index is linked, its checkpoint is final, its    *)
(* protected prefix never changes, and it implements PinnedLog.  The       *)
(* argument is the inductive invariant IInv of ChainIndex: what each local *)
(* means at each program counter, kept by every step of one call and       *)
(* undisturbed by the steps of the others and of the node.                 *)
(*                                                                         *)
(* With one importer the invariant is stronger (SoleInv): what a call has  *)
(* read of the index stays true, as nobody else writes it, and so all rows *)
(* at or below the checkpoint are final.                                   *)
(*                                                                         *)
(* Of the chunks looked up meanwhile, AnchorsInv says that a geometry is   *)
(* that of a block which holds the offset, and that the search keeps the   *)
(* block it looks for between its ends, on heights the node has settled.   *)
(***************************************************************************)
EXTENDS ChunkAnchors, TLAPS

\* Facts about the locals of one call: the record a step stores is a Local.
LEMMA IdleLocal == Idle \in Local /\ (TypeOK => LocalOK(Idle))
BY ChainAssumption, TreeAssumption
   DEF Idle, Local, LocalOK, Height, NoHeight, Searching, Advancing, Batching, Fetched, TypeOK

\* The ancestors of a final block's descendants: what the node may still do
\* leaves every final block on its chain.
LEMMA FinalKept ==
    ASSUME TypeOK, NodeOK, NEW b \in Block, NodeMoves(b), NEW c \in Block, Final(c)
    PROVE  Final(c)'
<1> DEFINE h == HeightOf(c)
           f == FinalHeight
<1>1. /\ h \in Height /\ h <= f /\ h <= HeightOf(node) /\ At(node, h) = c
      /\ node \in Block /\ peak \in Int /\ HeightOf(node) \in Height /\ HeightOf(b) \in Height
      /\ HeightOf(node) <= peak
  BY TreeAssumption DEF Final, OnNode, NodeTip, TypeOK, Height
<1>2. f \in Int /\ f >= 0 /\ f <= HeightOf(b) /\ At(b, f) = At(node, f)
  BY <1>1, ChainAssumption DEF NodeMoves, FinalHeight, Height
<1>3. peak' >= peak /\ peak' \in Int /\ node' = b
  BY <1>1, ChainAssumption DEF NodeMoves, Height
<1>4. f \in 0 .. HeightOf(b) /\ h \in 0 .. f /\ h \in 0 .. HeightOf(b)
  BY <1>1, <1>2, ChainAssumption DEF Height
<1>5. f \in 0 .. HeightOf(node)
  BY <1>1, <1>2 DEF NodeOK, NodeTip, Height
<1>6. At(b, h) = At(At(b, f), h) /\ At(At(node, f), h) = At(node, h)
  BY <1>5, <1>4, <1>1, TreeAssumption
<1>7. At(b, h) = c
  BY <1>6, <1>1, <1>2
<1> QED
  BY <1>7, <1>1, <1>2, <1>3, <1>4, ChainAssumption
     DEF Final, OnNode, NodeTip, FinalHeight, Height

\* A step that changes nothing but the locals of one call keeps the invariant
\* when the new locals do.
LEMMA LocalStep ==
    ASSUME IInv, ReadOnly, NEW p \in Importer, NEW l \in Local, LocalOK(l), Becomes(p, l)
    PROVE  IInv'
<1>1. /\ imp \in [Importer -> Local] /\ imp' = [imp EXCEPT ![p] = l]
      /\ \A q \in Importer : LocalOK(imp[q])
  BY DEF IInv, TypeOK, Becomes
<1>2. \A q \in Importer : imp'[q] = IF q = p THEN l ELSE imp[q]
  BY <1>1
<1>3. ASSUME NEW q \in Importer PROVE LocalOK(imp[q])'
  <2>1. LocalOK(imp'[q])
    BY <1>1, <1>2
  <2>2. LocalOK(imp'[q]) => LocalOK(imp[q])'
    BY DEF LocalOK, ReadOnly, Final, OnNode, NodeTip, FinalHeight, Known, Stable,
           FetchEnd, FetchStart
  <2> QED
    BY <2>1, <2>2
<1>4. imp' \in [Importer -> Local]
  BY <1>1
<1> QED
  BY <1>3, <1>4 DEF IInv, ReadOnly, TypeOK, NodeOK, RowOK, ChainLinked, PinFinal, Stored,
     Known, Final, OnNode, NodeTip, FinalHeight

\* A call that ends, by returning or by an error, keeps the invariant.
LEMMA AbortStep ==
    ASSUME IInv, ReadOnly, NEW p \in Importer, Abort(p)
    PROVE  IInv'
BY IdleLocal, LocalStep DEF Abort, IInv

\* What IInv says of the locals of one call.
LEMMA LocalFacts ==
    ASSUME IInv, NEW p \in Importer
    PROVE  /\ imp[p] \in Local /\ LocalOK(imp[p]) /\ TypeOK
           /\ node \in Block /\ NodeTip \in Height /\ peak \in Height /\ NodeTip <= peak
BY TreeAssumption DEF IInv, TypeOK, NodeTip

\* A block the node shows at height h is on its chain, and final when h is
\* ConsensusDepth below some height the node has shown.
LEMMA Shown ==
    ASSUME TypeOK, NEW h \in Height, h <= NodeTip
    PROVE  /\ At(node, h) \in Block /\ HeightOf(At(node, h)) = h
           /\ OnNode(At(node, h))
           /\ h <= FinalHeight => Final(At(node, h))
<1>1. node \in Block /\ HeightOf(node) \in Height /\ h \in 0 .. HeightOf(node)
  BY TreeAssumption DEF TypeOK, NodeTip, Height
<1> QED
  BY <1>1, TreeAssumption DEF OnNode, Final, NodeTip

\* After the reorg search a call either advances the checkpoint or goes on
\* with the one it has.
LEMMA SettledOK ==
    ASSUME NEW l \in Local, LocalOK(l), l.pin # NoBlock,
           l.pc \in {"pin"} \cup Searching
    PROVE  Settled(l) \in Local /\ LocalOK(Settled(l))
<1> DEFINE goes == Stable(l) > HeightOf(l.pin)
           x == Settled(l)
<1>1. /\ l.pin \in Block /\ HeightOf(l.pin) \in Int /\ l.info \in Height
      /\ 0 \in Height /\ ConsensusDepth \in Int /\ l.info \in Int
  BY TreeAssumption, ChainAssumption DEF Local, Height
<1>2. x = [l EXCEPT !.pc = IF goes THEN "next" ELSE "init", !.anc = NoHeight,
                    !.info = IF goes THEN l.info ELSE 0]
  BY DEF Settled
<1>3. x \in Local
  BY <1>1, <1>2 DEF Local
<1>4. /\ x.pc = (IF goes THEN "next" ELSE "init") /\ x.pin = l.pin
      /\ goes => x.info = l.info
  BY <1>2 DEF Local
<1>5. Final(l.pin) /\ ConsensusDepth <= l.info /\ l.info <= peak
  BY DEF LocalOK
<1>6. LocalOK(x)
  BY <1>1, <1>4, <1>5 DEF LocalOK, Stable, Searching, Advancing, Batching, Fetched
<1> QED
  BY <1>3, <1>6

\* The reads before the reorg search.
LEMMA ReadsKeep ==
    ASSUME IInv, NEW p \in Importer,
           \/ FollowChainStep(p) \/ FollowEnd(p) \/ ReadState(p) \/ ReadInfo(p)
           \/ ReadTip(p) \/ VerifyPin(p)
           \/ \E s \in Starts, e \in Ends : ImportRange(p, s, e)
    PROVE  IInv'
<1> DEFINE l == imp[p]
<1>0. /\ l \in Local /\ LocalOK(l) /\ TypeOK
      /\ node \in Block /\ NodeTip \in Height /\ peak \in Height /\ NodeTip <= peak
  BY LocalFacts
<1>1. ASSUME FollowChainStep(p) PROVE IInv'
  <2> DEFINE x == [Idle EXCEPT !.pc = "follow", !.through = db.through]
  <2>1. x \in Local
    BY <1>0, IdleLocal DEF Local, TypeOK, Idle
  <2>2. LocalOK(x)
    BY DEF LocalOK, Idle, Searching, Advancing, Batching, Fetched
  <2> QED
    BY <1>1, <2>1, <2>2, LocalStep DEF FollowChainStep
<1>2. ASSUME FollowEnd(p) PROVE IInv'
  <2> DEFINE x == [Idle EXCEPT !.pc = "state", !.end = EndOfStep(l)]
  <2>1. EndOfStep(l) \in Height
    BY <1>0, ChainAssumption
       DEF EndOfStep, OneMoreBatch, Lesser, Height, Local, NoHeight
  <2>2. x \in Local
    BY <2>1, IdleLocal DEF Local, Idle
  <2>3. LocalOK(x)
    BY DEF LocalOK, Idle, Searching, Advancing, Batching, Fetched
  <2> QED
    BY <1>2, <2>2, <2>3, LocalStep DEF FollowEnd
<1>3. ASSUME ReadState(p) PROVE IInv'
  <2> DEFINE x == [l EXCEPT !.pc = "info", !.pin = db.pin, !.through = db.through]
  <2>1. x \in Local
    BY <1>0 DEF Local, TypeOK
  <2>2. LocalOK(x)
    BY <1>0 DEF LocalOK, Local, Searching, Advancing, Batching, Fetched, IInv, PinFinal, Known
  <2> QED
    BY <1>3, <2>1, <2>2, LocalStep, AbortStep DEF ReadState
<1>4. ASSUME ReadInfo(p) PROVE IInv'
  <2> DEFINE x == [l EXCEPT !.pc = "tip", !.info = NodeTip]
  <2>1. x \in Local
    BY <1>0 DEF Local
  <2>2. NodeTip >= ConsensusDepth => LocalOK(x)
    BY <1>0 DEF LocalOK, Local, Searching, Advancing, Batching, Fetched
  <2> QED
    BY <1>4, <1>0, <2>1, <2>2, LocalStep, AbortStep, ChainAssumption DEF ReadInfo, Height
<1>5. ASSUME ReadTip(p) PROVE IInv'
  <2> DEFINE x == [l EXCEPT !.pc = IF l.pin = NoBlock THEN "seed" ELSE "pin",
                            !.tip = At(node, l.info)]
  <2>0. l.info \in Height /\ l.info \in Int /\ NodeTip \in Int
    BY <1>0 DEF Local, Height
  <2>1. ASSUME l.info <= NodeTip PROVE x \in Local
    <3>1. At(node, l.info) \in Block
      BY <2>0, <2>1, <1>0, Shown
    <3>2. CASE l.pin = NoBlock
      <4>1. x = [l EXCEPT !.pc = "seed", !.tip = At(node, l.info)]
        BY <3>2
      <4> HIDE DEF x
      <4> QED
        BY <3>1, <4>1, <1>0 DEF Local
    <3>3. CASE l.pin # NoBlock
      BY <3>1, <3>3, <1>0 DEF Local
    <3> QED
      BY <3>2, <3>3
  <2>2. l.pc = "tip" => LocalOK(x)
    BY <1>0 DEF LocalOK, Local, Searching, Advancing, Batching, Fetched, Stable
  <2> QED
    BY <1>5, <2>0, <2>1, <2>2, LocalStep, AbortStep DEF ReadTip, Is
<1>6. ASSUME VerifyPin(p) PROVE IInv'
  <2> DEFINE x == [l EXCEPT !.pc = "walk", !.anc = Lesser(l.through, l.info)]
  <2>1. l.pc = "pin" /\ l.pin \in Block /\ HeightOf(l.pin) \in Height
    BY <1>0, <1>6, TreeAssumption DEF VerifyPin, Is, LocalOK, Local
  <2>2. ASSUME MayBeReplaced(l) PROVE x \in Local /\ LocalOK(x)
    <3>1. Lesser(l.through, l.info) \in Height
      BY <1>0, <2>1, <2>2 DEF Lesser, MayBeReplaced, Local, Height, NoHeight
    <3> QED
      BY <3>1, <1>0, <2>1 DEF Local, LocalOK, Searching, Advancing, Batching, Fetched, Stable
  <2>3. Settled(l) \in Local /\ LocalOK(Settled(l))
    BY <1>0, <2>1, SettledOK, ChainAssumption DEF Searching
  <2> QED
    BY <1>6, <2>2, <2>3, LocalStep, AbortStep DEF VerifyPin
<1>7. ASSUME NEW s \in Starts, NEW e \in Ends, ImportRange(p, s, e) PROVE IInv'
  <2> DEFINE x == [Idle EXCEPT !.pc = "state", !.end = e,
                               !.start = IF s = 0 THEN 0 ELSE s - 1]
  <2>1. (IF s = 0 THEN 0 ELSE s - 1) \in Height
    BY ChainAssumption DEF Height
  <2>3. x \in Local
    BY <2>1, IdleLocal, ChainAssumption DEF Local, Idle
  <2>2. LocalOK(x)
    BY DEF LocalOK, Idle, Searching, Advancing, Batching, Fetched
  <2> QED
    BY <1>7, <2>3, <2>2, LocalStep DEF ImportRange
<1> QED
  BY <1>1, <1>2, <1>3, <1>4, <1>5, <1>6, <1>7

\* The reads of the reorg search and of the next checkpoint.
LEMMA SearchKeeps ==
    ASSUME IInv, NEW p \in Importer,
           \/ WalkRemote(p) \/ WalkStored(p) \/ VerifyTip(p) \/ ReadNext(p)
           \/ VerifyNext(p) \/ ReadSeed(p)
    PROVE  IInv'
<1> DEFINE l == imp[p]
<1>0. /\ l \in Local /\ LocalOK(l) /\ TypeOK
      /\ node \in Block /\ NodeTip \in Height /\ peak \in Height /\ NodeTip <= peak
  BY LocalFacts
<1>a. NodeTip \in Int /\ peak \in Int /\ ConsensusDepth \in Int /\ l.info \in Int
      /\ MaxHeight \in Int /\ ConsensusDepth >= 0
  BY <1>0, ChainAssumption DEF Height, Local
<1>1. ASSUME WalkRemote(p) PROVE IInv'
  <2> DEFINE x == [l EXCEPT !.pc = "match", !.seen = At(node, l.anc)]
  <2>1. l.pc = "walk" /\ l.anc \in Height /\ l.anc \in Int
    BY <1>0, <1>1 DEF WalkRemote, Is, LocalOK, Searching, Height
  <2>2. ASSUME l.anc <= NodeTip PROVE x \in Local /\ LocalOK(x)
    <3>1. At(node, l.anc) \in Block
      BY <1>0, <2>1, <2>2, Shown
    <3> QED
      BY <3>1, <2>1, <1>0 DEF Local, LocalOK, Searching, Advancing, Batching, Fetched, Stable
  <2> QED
    BY <1>1, <1>a, <2>1, <2>2, LocalStep, AbortStep DEF WalkRemote
<1>2. ASSUME WalkStored(p) PROVE IInv'
  <2> DEFINE x == [l EXCEPT !.pc = "reorg", !.seen = NoBlock]
             y == [l EXCEPT !.pc = "walk", !.anc = l.anc - 1, !.seen = NoBlock]
  <2>1. /\ l.pc = "match" /\ l.anc \in Height /\ l.pin \in Block
        /\ HeightOf(l.pin) \in Height
    BY <1>0, <1>2, TreeAssumption DEF WalkStored, Is, LocalOK, Searching, Local
  <2>2. x \in Local /\ LocalOK(x)
    BY <2>1, <1>0 DEF Local, LocalOK, Searching, Advancing, Batching, Fetched, Stable
  <2>3. ASSUME ~CrossesPin(l) PROVE y \in Local /\ LocalOK(y)
    <3>1. l.anc - 1 \in Height
      BY <2>1, <2>3, ChainAssumption DEF CrossesPin, Height
    <3> QED
      BY <3>1, <2>1, <1>0 DEF Local, LocalOK, Searching, Advancing, Batching, Fetched, Stable
  <2> QED
    BY <1>2, <2>2, <2>3, LocalStep, AbortStep DEF WalkStored
<1>3. ASSUME VerifyTip(p) PROVE IInv'
  <2> DEFINE x == [l EXCEPT !.pc = "rewind"]
  <2>1. l.pc = "reorg" /\ l.pin # NoBlock
    BY <1>0, <1>3 DEF VerifyTip, Is, LocalOK, Searching
  <2>2. x \in Local /\ LocalOK(x)
    BY <2>1, <1>0 DEF Local, LocalOK, Searching, Advancing, Batching, Fetched, Stable
  <2>3. Settled(l) \in Local /\ LocalOK(Settled(l))
    BY <2>1, <1>0, SettledOK DEF Searching
  <2> QED
    BY <1>3, <2>2, <2>3, LocalStep, AbortStep DEF VerifyTip
<1>4. ASSUME ReadNext(p) PROVE IInv'
  <2> DEFINE x == [l EXCEPT !.pc = "nextPin", !.next = At(node, Stable(l))]
  <2>1. /\ l.pc = "next" /\ l.pin # NoBlock
        /\ Stable(l) \in Height /\ Stable(l) \in Int /\ Stable(l) <= FinalHeight
    BY <1>0, <1>a, <1>4 DEF ReadNext, Is, LocalOK, Stable, FinalHeight, Height, Local
  <2>2. ASSUME Stable(l) <= NodeTip PROVE x \in Local /\ LocalOK(x)
    <3> DEFINE n == At(node, Stable(l))
    <3>1. n \in Block /\ HeightOf(n) = Stable(l) /\ Final(n) /\ n # NoBlock
      BY <1>0, <2>1, <2>2, Shown, ChainAssumption
    <3> HIDE DEF n
    <3>2. x = [l EXCEPT !.pc = "nextPin", !.next = n]
      BY DEF n
    <3>3. x \in Local
      BY <3>1, <3>2, <1>0 DEF Local
    <3>4. /\ x.pc = "nextPin" /\ x.next = n /\ x.info = l.info /\ x.pin = l.pin
      BY <3>2, <1>0 DEF Local
    <3> QED
      BY <3>1, <3>3, <3>4, <2>1, <1>0
         DEF LocalOK, Searching, Advancing, Batching, Fetched, Stable
  <2> QED
    BY <1>4, <1>a, <2>1, <2>2, LocalStep, AbortStep DEF ReadNext
<1>5. ASSUME VerifyNext(p) PROVE IInv'
  <2> DEFINE x == [l EXCEPT !.pc = "nextNext"]
             y == [l EXCEPT !.pc = "advance"]
  <2>1. l.pc = "nextPin" => x \in Local /\ LocalOK(x)
    BY <1>0 DEF Local, LocalOK, Searching, Advancing, Batching, Fetched, Stable
  <2>2. l.pc = "nextNext" => y \in Local /\ LocalOK(y)
    BY <1>0 DEF Local, LocalOK, Searching, Advancing, Batching, Fetched, Stable
  <2> QED
    BY <1>5, <2>1, <2>2, LocalStep, AbortStep DEF VerifyNext, Is
<1>6. ASSUME ReadSeed(p) PROVE IInv'
  <2> DEFINE n == At(node, Stable(l))
             x == [l EXCEPT !.pc = "init", !.info = 0, !.pin = n]
  <2>1. /\ l.pc = "seed"
        /\ Stable(l) \in Height /\ Stable(l) \in Int /\ Stable(l) <= FinalHeight
    BY <1>0, <1>a, <1>6 DEF ReadSeed, Is, LocalOK, Stable, FinalHeight, Height, Local
  <2>2. ASSUME Stable(l) <= NodeTip PROVE x \in Local /\ LocalOK(x)
    <3>1. n \in Block /\ Final(n) /\ n # NoBlock
      BY <1>0, <2>1, <2>2, Shown, ChainAssumption
    <3>a. 0 \in Height
      BY ChainAssumption DEF Height
    <3> HIDE DEF n
    <3>3. x \in Local
      BY <3>1, <3>a, <1>0 DEF Local
    <3>4. x.pc = "init" /\ x.pin = n
      BY <1>0 DEF Local
    <3> QED
      BY <3>1, <3>3, <3>4 DEF LocalOK, Searching, Advancing, Batching, Fetched
  <2>3. NodeTip < Stable(l) \/ Stable(l) <= NodeTip
    BY <2>1, <1>a
  <2>4. CASE NodeTip < Stable(l)
    BY <1>6, <2>4, AbortStep DEF ReadSeed
  <2>5. CASE ~(NodeTip < Stable(l))
    <3>1. ReadOnly /\ Becomes(p, x)
      BY <1>6, <2>5 DEF ReadSeed
    <3> HIDE DEF x
    <3> QED
      BY <3>1, <2>2, <2>3, <2>5, LocalStep
  <2> QED
    BY <2>4, <2>5
<1> QED
  BY <1>1, <1>2, <1>3, <1>4, <1>5, <1>6

\* The reads of one batch.
LEMMA BatchReadsKeep ==
    ASSUME IInv, NEW p \in Importer,
           VerifyBatchPin(p) \/ FetchBatch(p) \/ VerifyBatch(p)
    PROVE  IInv'
<1> DEFINE l == imp[p]
<1>0. /\ l \in Local /\ LocalOK(l) /\ TypeOK
      /\ node \in Block /\ NodeTip \in Height /\ peak \in Height /\ NodeTip <= peak
  BY LocalFacts
<1>1. ASSUME VerifyBatchPin(p) PROVE IInv'
  <2> DEFINE x == [l EXCEPT !.pc = "fetch"]
  <2>1. l.pc = "batch" => x \in Local /\ LocalOK(x)
    BY <1>0 DEF Local, LocalOK, Searching, Advancing, Batching, Fetched, Stable
  <2> QED
    BY <1>1, <2>1, LocalStep, AbortStep DEF VerifyBatchPin, Is
<1>2. ASSUME FetchBatch(p) PROVE IInv'
  <2> DEFINE n == At(node, FetchEnd(l))
             x == [l EXCEPT !.pc = "batchPin", !.batch = n]
  <2>1. /\ l.pc = "fetch" /\ l.start \in Int /\ l.end \in Int /\ l.start \in Height
        /\ l.end \in Height /\ l.through \in Height \cup {NoHeight}
        /\ IF l.through = NoHeight THEN l.start <= l.end ELSE l.through < l.end
        /\ l.pin # NoBlock
    BY <1>0, <1>2 DEF FetchBatch, Is, LocalOK, Batching, Local, Height
  <2>2. FetchEnd(l) \in Height /\ FetchEnd(l) \in Int /\ NodeTip \in Int
    BY <2>1, <1>0, ChainAssumption DEF FetchEnd, FetchStart, Lesser, Height, NoHeight
  <2>3. ASSUME FetchEnd(l) <= NodeTip PROVE x \in Local /\ LocalOK(x)
    <3>1. n \in Block /\ HeightOf(n) = FetchEnd(l) /\ n # NoBlock
      BY <1>0, <2>2, <2>3, Shown, ChainAssumption
    <3> HIDE DEF n
    <3>2. x \in Local
      BY <3>1, <1>0 DEF Local
    <3>3. /\ x.pc = "batchPin" /\ x.batch = n /\ x.pin = l.pin /\ x.start = l.start
          /\ x.through = l.through /\ x.end = l.end
      BY <1>0 DEF Local
    <3>4. FetchEnd(x) = FetchEnd(l)
      BY <3>3 DEF FetchEnd, FetchStart
    <3> QED
      BY <3>1, <3>2, <3>3, <3>4, <2>1, <1>0
         DEF LocalOK, Searching, Advancing, Batching, Fetched
  <2> QED
    BY <1>2, <2>2, <2>3, LocalStep, AbortStep DEF FetchBatch
<1>3. ASSUME VerifyBatch(p) PROVE IInv'
  <2> DEFINE x == [l EXCEPT !.pc = "batchTip"]
             y == [l EXCEPT !.pc = "commit"]
  <2>1. l.pc = "batchPin" => x \in Local /\ LocalOK(x)
    BY <1>0 DEF Local, LocalOK, Searching, Advancing, Batching, Fetched, Stable, FetchEnd,
       FetchStart
  <2>2. l.pc = "batchTip" => y \in Local /\ LocalOK(y)
    BY <1>0 DEF Local, LocalOK, Searching, Advancing, Batching, Fetched, Stable, FetchEnd,
       FetchStart
  <2> QED
    BY <1>3, <2>1, <2>2, LocalStep, AbortStep DEF VerifyBatch, Is
<1> QED
  BY <1>1, <1>2, <1>3

\* A transaction keeps the invariant when it keeps the row, the links and the
\* checkpoint, never moves the start, and leaves its own call's locals right.
LEMMA StoreStep ==
    ASSUME IInv, NEW p \in Importer, NEW l \in Local, Becomes(p, l),
           UNCHANGED <<node, peak, fails>>, LocalOK(l)',
           db' \in [start : Height \cup {NoHeight}, through : Height \cup {NoHeight},
                   pin : Block \cup {NoBlock}],
           canon' \in [Height -> Block \cup {NoBlock}],
           Known => db'.start = db.start /\ db'.pin # NoBlock,
           RowOK', ChainLinked', PinFinal'
    PROVE  IInv'
<1>1. /\ imp \in [Importer -> Local] /\ imp' = [imp EXCEPT ![p] = l]
      /\ \A q \in Importer : LocalOK(imp[q])
  BY DEF IInv, TypeOK, Becomes
<1>2. \A q \in Importer : imp'[q] = IF q = p THEN l ELSE imp[q]
  BY <1>1
<1>3. ASSUME NEW q \in Importer PROVE LocalOK(imp[q])'
  <2>1. CASE q = p
    BY <2>1, <1>2 DEF LocalOK, Final, OnNode, NodeTip, FinalHeight, Known, Stable,
           FetchEnd, FetchStart
  <2>2. CASE q # p
    <3>1. imp'[q] = imp[q] /\ LocalOK(imp[q])
      BY <1>1, <1>2, <2>2
    <3> QED
      BY <3>1 DEF LocalOK, Final, OnNode, NodeTip, FinalHeight, Known, Stable,
           FetchEnd, FetchStart
  <2> QED
    BY <2>1, <2>2
<1>4. imp' \in [Importer -> Local]
  BY <1>1
<1> QED
  BY <1>3, <1>4 DEF IInv, TypeOK, NodeOK, NodeTip, FinalHeight

\* The ancestors of one block agree below a common height.
LEMMA Ancestors ==
    ASSUME NEW b \in Block, NEW h \in 0 .. HeightOf(b), NEW g \in 0 .. h
    PROVE  At(b, h) \in Block /\ HeightOf(At(b, h)) = h /\ At(At(b, h), g) = At(b, g)
BY TreeAssumption

LEMMA RewindKeeps ==
    ASSUME IInv, NEW p \in Importer, Rewind(p)
    PROVE  IInv'
<1> DEFINE l == imp[p]
<1>0. /\ l \in Local /\ LocalOK(l) /\ TypeOK /\ l.pc = "rewind"
  BY LocalFacts DEF Rewind, Is
<1>1. CASE Abort(p) /\ UNCHANGED <<db, canon>>
  BY <1>1, AbortStep DEF Rewind, ReadOnly
<1>2. ASSUME db.pin = l.pin, l.anc >= HeightOf(l.pin), l.anc <= db.through,
             db' = [db EXCEPT !.through = l.anc],
             canon' = [h \in Height |-> IF h \in Dropped(l) THEN NoBlock ELSE canon[h]],
             Becomes(p, Settled(l))
      PROVE  IInv'
  <2>1. PICK x : x = Settled(l)
    OBVIOUS
  <2>2. l.pin # NoBlock /\ l.pin \in Block /\ HeightOf(l.pin) \in Int
    BY <1>0, TreeAssumption DEF LocalOK, Searching, Local, Height
  <2>3. x \in Local /\ LocalOK(x) /\ x.pc \in {"next", "init"}
    <3>1. x \in Local /\ LocalOK(x)
      BY <2>1, <2>2, <1>0, SettledOK DEF Searching
    <3> QED
      BY <3>1, <2>1, <1>0 DEF Settled, Local
  <2>4. /\ Known /\ db.start \in Int /\ db.start \in Height /\ db.start >= 0
        /\ db.start <= HeightOf(db.pin)
        /\ l.anc \in Height /\ l.anc \in Int
        /\ db.through # NoHeight /\ db.through \in Height /\ db.through \in Int
    BY <1>0, <1>2, <2>2 DEF IInv, RowOK, Known, TypeOK, Height, NoHeight, LocalOK, Searching, Local
  <2>5. /\ db'.start = db.start /\ db'.pin = db.pin /\ db'.through = l.anc
        /\ db' \in [start : Height \cup {NoHeight}, through : Height \cup {NoHeight},
                   pin : Block \cup {NoBlock}]
    BY <1>0, <1>2, <2>4 DEF TypeOK
  <2>6. canon' \in [Height -> Block \cup {NoBlock}]
    BY <1>0, <1>2 DEF TypeOK
  <2>7. RowOK'
    BY <1>2, <2>2, <2>4, <2>5 DEF RowOK, Known
  <2>8. Stored = db.start .. db.through /\ Stored' = db.start .. l.anc
    BY <2>4, <2>5 DEF Stored, NoHeight, Height
  <2>9. ChainLinked'
    <3>1. ASSUME NEW h \in Height PROVE canon'[h] # NoBlock <=> h \in Stored'
      <4>1. h \in Int /\ (h \in Dropped(l) <=> h > l.anc)
        BY DEF Height, Dropped
      <4>2. canon[h] # NoBlock <=> h \in Stored
        BY DEF IInv, ChainLinked
      <4> QED
        BY <4>1, <4>2, <1>2, <2>4, <2>8
    <3>2. ASSUME NEW h \in Stored'
          PROVE  HeightOf(canon'[h]) = h /\ canon'[h] = At(canon'[l.anc], h)
      <4>1. /\ h \in Int /\ h <= l.anc /\ h \in Stored /\ l.anc \in Stored /\ h \in Height
            /\ db.through \in Stored /\ h >= 0
        BY <1>2, <2>2, <2>4, <2>8, ChainAssumption DEF Height
      <4>2. canon'[h] = canon[h] /\ canon'[l.anc] = canon[l.anc]
        BY <4>1, <1>2, <2>4 DEF Dropped
      <4>3. /\ HeightOf(canon[h]) = h /\ canon[h] = At(canon[db.through], h)
            /\ canon[l.anc] = At(canon[db.through], l.anc)
            /\ HeightOf(canon[db.through]) = db.through /\ canon[db.through] \in Block
        BY <4>1, <2>4, <1>0 DEF IInv, ChainLinked, TypeOK
      <4>4. At(At(canon[db.through], l.anc), h) = At(canon[db.through], h)
        BY <4>1, <4>3, <2>4, <1>2, Ancestors
      <4> QED
        BY <4>2, <4>3, <4>4
    <3> QED
      BY <3>1, <3>2, <2>5 DEF ChainLinked
  <2>10. PinFinal'
    BY <1>2, <2>5 DEF IInv, PinFinal, Known, Rewind, Final, OnNode, NodeTip, FinalHeight
  <2>11. LocalOK(x)'
    BY <2>3, <1>2 DEF LocalOK, Rewind, Final, OnNode, NodeTip, FinalHeight, Searching,
       Advancing, Batching, Fetched, Stable
  <2> QED
    BY <1>2, <2>1, <2>3, <2>4, <2>5, <2>6, <2>7, <2>9, <2>10, <2>11, StoreStep
       DEF Rewind, Known
<1> QED
  BY <1>1, <1>2 DEF Rewind

LEMMA AdvanceKeeps ==
    ASSUME IInv, NEW p \in Importer, AdvanceCheckpoint(p)
    PROVE  IInv'
<1> DEFINE l == imp[p]
<1>0. /\ l \in Local /\ LocalOK(l) /\ TypeOK /\ l.pc = "advance"
  BY LocalFacts DEF AdvanceCheckpoint, Is
<1>1. CASE Abort(p) /\ UNCHANGED db
  BY <1>1, AbortStep DEF AdvanceCheckpoint, ReadOnly
<1>2. ASSUME SamePin(l), db' = [db EXCEPT !.pin = l.next],
             Becomes(p, [l EXCEPT !.pc = "init", !.pin = l.next, !.next = NoBlock, !.info = 0])
      PROVE  IInv'
  <2>1. PICK x : x = [l EXCEPT !.pc = "init", !.pin = l.next, !.next = NoBlock, !.info = 0]
    OBVIOUS
  <2>2. /\ l.pin # NoBlock /\ l.pin \in Block /\ l.next \in Block /\ l.next # NoBlock
        /\ Final(l.next) /\ HeightOf(l.pin) < HeightOf(l.next)
        /\ HeightOf(l.pin) \in Int /\ HeightOf(l.next) \in Int
    BY <1>0, TreeAssumption DEF LocalOK, Advancing, Local, Height
  <2>3. x \in Local /\ x.pc = "init" /\ x.pin = l.next
    <3>1. 0 \in Height
      BY ChainAssumption DEF Height
    <3>2. x \in Local
      BY <2>1, <2>2, <3>1, <1>0 DEF Local
    <3> QED
      BY <2>1, <3>2, <1>0 DEF Local
  <2>4. /\ Known /\ db.start \in Height /\ db.start \in Int /\ db.start <= HeightOf(db.pin)
    BY <1>2, <2>2 DEF SamePin, IInv, RowOK, Known, Height
  <2>5. /\ db'.start = db.start /\ db'.pin = l.next /\ db'.through = db.through
        /\ db' \in [start : Height \cup {NoHeight}, through : Height \cup {NoHeight},
                   pin : Block \cup {NoBlock}]
    BY <1>0, <1>2, <2>2 DEF TypeOK
  <2>6. canon' = canon /\ UNCHANGED <<node, peak, fails>>
    BY DEF AdvanceCheckpoint
  <2>7. RowOK'
    BY <1>2, <2>2, <2>4, <2>5 DEF IInv, RowOK, Known, SamePin
  <2>8. ChainLinked'
    BY <2>5, <2>6 DEF IInv, ChainLinked, Stored
  <2>9. PinFinal'
    BY <2>2, <2>5, <2>6 DEF PinFinal, Known, Final, OnNode, NodeTip, FinalHeight
  <2>10. LocalOK(x)'
    BY <2>2, <2>3, <2>6 DEF LocalOK, Final, OnNode, NodeTip, FinalHeight, Searching,
       Advancing, Batching, Fetched
  <2> QED
    BY <1>0, <1>2, <2>1, <2>2, <2>3, <2>5, <2>6, <2>7, <2>8, <2>9, <2>10, StoreStep
       DEF TypeOK
<1> QED
  BY <1>1, <1>2 DEF AdvanceCheckpoint

\* What a call does after a batch or after initialize: its locals are right
\* for the row it just wrote.
LEMMA ContinueOK ==
    ASSUME NEW l \in Local, l.pin # NoBlock, Final(l.pin)',
           Known', l.start = db'.start
    PROVE  Continue(l) \in Local /\ LocalOK(Continue(l))'
<1> DEFINE x == [l EXCEPT !.pc = "batch", !.batch = NoBlock]
           first == IF l.through = NoHeight THEN l.start ELSE l.through + 1
<1>1. CASE first <= l.end
  <2>1. Continue(l) = x
    BY <1>1 DEF Continue
  <2>2. x \in Local
    BY DEF Local
  <2>3. /\ x.pc = "batch" /\ x.pin = l.pin /\ x.start = l.start
        /\ x.through = l.through /\ x.end = l.end
    BY DEF Local
  <2>4. IF l.through = NoHeight THEN l.start <= l.end ELSE l.through < l.end
    BY <1>1 DEF Local, Height, NoHeight
  <2>5. LocalOK(x)'
    BY <2>3, <2>4 DEF LocalOK, Searching, Advancing, Batching, Fetched
  <2> QED
    BY <2>1, <2>2, <2>5
<1>2. CASE ~(first <= l.end)
  <2>1. Continue(l) = Idle
    BY <1>2 DEF Continue
  <2>2. LocalOK(Idle)'
    BY DEF LocalOK, Idle, Searching, Advancing, Batching, Fetched
  <2> QED
    BY <2>1, <2>2, IdleLocal
<1> QED
  BY <1>1, <1>2

LEMMA InitializeKeeps ==
    ASSUME IInv, NEW p \in Importer, Initialize(p)
    PROVE  IInv'
<1> DEFINE l == imp[p]
           row == IF Known THEN db ELSE [start |-> l.start, through |-> NoHeight, pin |-> l.pin]
<1>0. /\ l \in Local /\ LocalOK(l) /\ TypeOK /\ l.pc = "init"
  BY LocalFacts DEF Initialize, Is
<1>1. CASE Abort(p) /\ UNCHANGED db
  BY <1>1, AbortStep DEF Initialize, ReadOnly
<1>2. ASSUME l.start <= HeightOf(l.pin), row.start = l.start, row.pin = l.pin, db' = row,
             Becomes(p, Continue([l EXCEPT !.through = row.through]))
      PROVE  IInv'
  <2>1. PICK y : y = [l EXCEPT !.through = row.through]
    OBVIOUS
  <2>2. PICK x : x = Continue(y)
    OBVIOUS
  <2>3. canon' = canon /\ UNCHANGED <<node, peak, fails>>
    BY DEF Initialize
  <2>4. /\ l.pin \in Block /\ l.pin # NoBlock /\ Final(l.pin) /\ l.start \in Height
    BY <1>0 DEF LocalOK, Local
  <2>5. /\ db'.start = l.start /\ db'.pin = l.pin /\ db'.through = db.through
        /\ db' \in [start : Height \cup {NoHeight}, through : Height \cup {NoHeight},
                   pin : Block \cup {NoBlock}]
    <3>1. CASE Known
      BY <3>1, <1>0, <1>2 DEF TypeOK
    <3>2. CASE ~Known
      BY <3>2, <1>0, <1>2, <2>4 DEF TypeOK, IInv, RowOK
    <3> QED
      BY <3>1, <3>2
  <2>6. y \in Local /\ y.pin = l.pin /\ y.start = l.start
    BY <2>1, <1>0, <1>2, <2>5 DEF Local
  <2>7. x \in Local /\ LocalOK(x)'
    <3>1. Final(y.pin)' /\ Known' /\ y.start = db'.start /\ y.pin # NoBlock
      BY <2>3, <2>4, <2>5, <2>6 DEF Final, OnNode, NodeTip, FinalHeight, Known
    <3>2. Continue(y) \in Local /\ LocalOK(Continue(y))'
      BY <3>1, <2>6, ContinueOK
    <3> QED
      BY <3>2, <2>2
  <2>8. RowOK'
    BY <1>2, <2>4, <2>5, <1>0 DEF RowOK, Known, IInv
  <2>9. ChainLinked'
    BY <1>2, <2>3, <2>5 DEF IInv, ChainLinked, Stored, RowOK, Known
  <2>10. PinFinal'
    BY <2>3, <2>4, <2>5 DEF PinFinal, Known, Final, OnNode, NodeTip, FinalHeight
  <2>11. Known => db'.start = db.start /\ db'.pin # NoBlock
    BY <1>2, <2>4, <2>5
  <2>12. canon' \in [Height -> Block \cup {NoBlock}]
    BY <1>0, <2>3 DEF TypeOK
  <2>13. Becomes(p, x)
    BY <1>2, <2>1, <2>2
  <2> QED
    BY <2>3, <2>5, <2>7, <2>8, <2>9, <2>10, <2>11, <2>12, <2>13, StoreStep
<1> QED
  BY <1>1, <1>2 DEF Initialize

\* The transaction that extends the index: the overlapping entry makes the
\* new blocks and the stored ones ancestors of the same block.
LEMMA CommitKeeps ==
    ASSUME IInv, NEW p \in Importer, CommitBatch(p)
    PROVE  IInv'
<1> DEFINE l == imp[p]
           last == HeightOf(l.batch)
<1>0. /\ l \in Local /\ LocalOK(l) /\ TypeOK /\ l.pc = "commit"
  BY LocalFacts DEF CommitBatch, Is
<1>1. CASE Abort(p) /\ UNCHANGED <<db, canon>>
  BY <1>1, AbortStep DEF CommitBatch, ReadOnly
<1>2. ASSUME Known, BatchValid(l),
             canon' = [h \in Height |-> IF h \in NewHeights(l) THEN At(l.batch, h) ELSE canon[h]],
             db' = [db EXCEPT !.through = last],
             Becomes(p, Continue([l EXCEPT !.through = last]))
      PROVE  IInv'
  <2>1. PICK y : y = [l EXCEPT !.through = last]
    OBVIOUS
  <2>2. PICK x : x = Continue(y)
    OBVIOUS
  <2>3. UNCHANGED <<node, peak, fails>>
    BY DEF CommitBatch
  <2>4. /\ l.pin # NoBlock /\ Final(l.pin) /\ l.start = db.start /\ l.batch \in Block
        /\ last = FetchEnd(l) /\ last \in Height /\ last \in Int /\ last >= 0
        /\ l.start \in Int /\ l.start >= 0 /\ l.end \in Int
        /\ l.through \in Height \cup {NoHeight}
        /\ IF l.through = NoHeight THEN l.start <= l.end ELSE l.through < l.end
    BY <1>0, TreeAssumption DEF LocalOK, Batching, Fetched, Local, Height
  <2>5. /\ l.through = db.through /\ db.pin = l.pin
        /\ db.through # NoHeight => canon[db.through] = At(l.batch, db.through)
    BY <1>2 DEF BatchValid, Linked
  <2>6. /\ db.start <= last
        /\ db.through # NoHeight => db.through \in Int /\ db.through < last /\ db.start <= db.through
    BY <2>4, <2>5, ChainAssumption DEF FetchEnd, FetchStart, Lesser, Height, NoHeight, IInv, RowOK
  <2>7. /\ db'.start = db.start /\ db'.pin = db.pin /\ db'.through = last
        /\ db' \in [start : Height \cup {NoHeight}, through : Height \cup {NoHeight},
                   pin : Block \cup {NoBlock}]
    BY <1>0, <1>2, <2>4 DEF TypeOK
  <2>8. /\ Stored' = db.start .. last
        /\ NewHeights(l) = (IF db.through = NoHeight THEN db.start ELSE db.through + 1) .. last
        /\ Stored = IF db.through = NoHeight THEN {} ELSE db.start .. db.through
    BY <2>4, <2>5, <2>7 DEF Stored, NewHeights, NoHeight, Height
  <2>9. \A h \in Stored' : h \in Height /\ h \in 0 .. last /\ (h \in NewHeights(l) \/ h \in Stored)
    BY <2>4, <2>6, <2>8, ChainAssumption DEF Height
  <2>10. ASSUME NEW h \in Stored' PROVE canon'[h] = At(l.batch, h)
    <3>1. CASE h \in NewHeights(l)
      BY <3>1, <2>9, <1>2
    <3>2. CASE h \notin NewHeights(l)
      <4>1. /\ h \in Stored /\ h \in Height /\ db.through # NoHeight /\ h \in 0 .. db.through
            /\ db.through \in 0 .. last
        BY <3>2, <2>9, <2>8, <2>6, <2>4
      <4>2. canon'[h] = canon[h] /\ canon[h] = At(canon[db.through], h)
        BY <4>1, <3>2, <1>2 DEF IInv, ChainLinked
      <4>3. At(At(l.batch, db.through), h) = At(l.batch, h)
        BY <4>1, <2>4, Ancestors
      <4> QED
        BY <4>1, <4>2, <4>3, <2>5
    <3> QED
      BY <3>1, <3>2
  <2>11. \A h \in Stored' : canon'[h] \in Block /\ HeightOf(canon'[h]) = h
    BY <2>10, <2>9, <2>4, TreeAssumption
  <2>12. last \in Stored' /\ canon'[last] = l.batch
    BY <2>4, <2>6, <2>8, <2>10, TreeAssumption
  <2>13. \A h \in Height : h \notin Stored' => canon'[h] = NoBlock
    <3> SUFFICES ASSUME NEW h \in Height, h \notin Stored' PROVE canon'[h] = NoBlock
      OBVIOUS
    <3>1. h \notin NewHeights(l) /\ h \notin Stored
      BY <2>4, <2>6, <2>8 DEF Height
    <3> QED
      BY <3>1, <1>2 DEF IInv, ChainLinked
  <2>14. canon' \in [Height -> Block \cup {NoBlock}]
    BY <1>2, <2>11, <2>13
  <2>15. ChainLinked'
    BY <2>7, <2>10, <2>11, <2>12, <2>13, ChainAssumption DEF ChainLinked
  <2>16. RowOK'
    BY <1>2, <2>6, <2>7 DEF IInv, RowOK, Known
  <2>17. PinFinal'
    BY <1>2, <2>3, <2>7 DEF IInv, PinFinal, Known, Final, OnNode, NodeTip, FinalHeight
  <2>18. y \in Local /\ y.pin = l.pin /\ y.start = l.start
    BY <2>1, <2>4, <1>0 DEF Local
  <2>19. x \in Local /\ LocalOK(x)'
    <3>1. Final(y.pin)' /\ Known' /\ y.start = db'.start /\ y.pin # NoBlock
      BY <1>2, <2>3, <2>4, <2>7, <2>18 DEF Final, OnNode, NodeTip, FinalHeight, Known
    <3>2. Continue(y) \in Local /\ LocalOK(Continue(y))'
      BY <3>1, <2>18, ContinueOK
    <3> QED
      BY <3>2, <2>2
  <2>20. Becomes(p, x) /\ (Known => db'.start = db.start /\ db'.pin # NoBlock)
    BY <1>2, <2>1, <2>2, <2>7 DEF Known
  <2> QED
    BY <2>3, <2>7, <2>14, <2>15, <2>16, <2>17, <2>19, <2>20, StoreStep
<1> QED
  BY <1>1, <1>2 DEF CommitBatch

\* The node's own moves leave every final block, and so every checkpoint that
\* is stored or held by a call, on its chain.
LEMMA NodeKeeps ==
    ASSUME IInv, NEW b \in Block, NodeMoves(b)
    PROVE  IInv'
<1>0. /\ TypeOK /\ NodeOK /\ HeightOf(b) \in Height /\ HeightOf(b) \in Int
      /\ peak \in Int /\ ConsensusDepth \in Int /\ HeightOf(node) \in Int
      /\ ConsensusDepth >= 0
  BY TreeAssumption, ChainAssumption DEF IInv, TypeOK, Height
<1>1. UNCHANGED <<db, canon, imp, fails>> /\ node' = b /\ peak' >= peak
  BY <1>0 DEF NodeMoves
<1>2. TypeOK' /\ NodeOK'
  BY <1>0, <1>1 DEF NodeMoves, TypeOK, NodeOK, NodeTip, FinalHeight
<1>3. RowOK' /\ ChainLinked'
  BY <1>1 DEF IInv, RowOK, ChainLinked, Stored, Known
<1>4. PinFinal'
  <2>1. CASE Known
    <3>1. PICK c \in Block : c = db.pin
      BY <2>1, <1>0 DEF Known, TypeOK
    <3>2. Final(c)'
      BY <3>1, <2>1, <1>0, FinalKept DEF IInv, PinFinal
    <3> QED
      BY <3>1, <3>2, <1>1 DEF PinFinal, Known, Final, OnNode, NodeTip, FinalHeight
  <2>2. CASE ~Known
    BY <2>2, <1>1 DEF PinFinal, Known
  <2> QED
    BY <2>1, <2>2
<1>5. ASSUME NEW q \in Importer PROVE LocalOK(imp[q])'
  <2>1. PICK l \in Local : l = imp[q]
    BY <1>0 DEF TypeOK
  <2>2. LocalOK(l)
    BY <2>1 DEF IInv
  <2>3. l.pin # NoBlock => Final(l.pin)'
    <3>1. CASE l.pin # NoBlock
      BY <3>1, <2>2, <1>0, FinalKept DEF LocalOK, Local
    <3> QED
      BY <3>1
  <2>4. l.pc \in Advancing => Final(l.next)'
    <3>1. CASE l.pc \in Advancing
      BY <3>1, <2>2, <1>0, FinalKept DEF LocalOK, Local
    <3> QED
      BY <3>1
  <2>5. l.info \in Int /\ peak' \in Int
    BY <1>0, <1>2 DEF Local, Height, TypeOK
  <2>6. LocalOK(l)'
    BY <2>2, <2>3, <2>4, <2>5, <1>0, <1>1 DEF LocalOK, Known, Stable, FetchEnd, FetchStart
  <2> QED
    BY <2>1, <2>6, <1>1 DEF LocalOK, Known, Stable, FetchEnd, FetchStart,
       Final, OnNode, NodeTip, FinalHeight
<1> QED
  BY <1>2, <1>3, <1>4, <1>5 DEF IInv

\* The invariant holds of an empty database and any node.
LEMMA InitKeeps == Init => IInv
<1> SUFFICES ASSUME Init PROVE IInv
  OBVIOUS
<1>1. TypeOK
  <2>1. HeightOf(node) \in Height /\ node \in Block
    BY TreeAssumption DEF Init
  <2>2. imp \in [Importer -> Local]
    BY IdleLocal DEF Init
  <2> QED
    BY <2>1, <2>2, ChainAssumption DEF Init, TypeOK, Uninitialised, Height, NoHeight
<1>2. NodeOK
  BY <1>1, ChainAssumption DEF Init, TypeOK, NodeOK, NodeTip, FinalHeight, Height
<1>3. RowOK /\ ChainLinked /\ PinFinal
  BY DEF Init, RowOK, ChainLinked, PinFinal, Known, Uninitialised, Stored
<1>4. \A p \in Importer : LocalOK(imp[p])
  BY <1>1, IdleLocal DEF Init
<1> QED
  BY <1>1, <1>2, <1>3, <1>4 DEF IInv

\* A failure in the middle of a call loses its locals and nothing else.
LEMMA FailKeeps ==
    ASSUME IInv, NEW p \in Importer, Fail(p)
    PROVE  IInv'
<1>1. PICK l : l = Idle
  OBVIOUS
<1>2. l \in Local /\ Becomes(p, l)
  BY <1>1, IdleLocal DEF Fail, Abort
<1>3. LocalOK(l)'
  BY <1>1 DEF LocalOK, Idle, Searching, Advancing, Batching, Fetched
<1>4. imp' \in [Importer -> Local] /\ \A q \in Importer : LocalOK(imp[q])'
  <2>1. \A q \in Importer : imp'[q] = IF q = p THEN l ELSE imp[q]
    BY <1>2 DEF Becomes, IInv, TypeOK
  <2>2. ASSUME NEW q \in Importer PROVE LocalOK(imp[q])'
    <3>1. PICK k \in Local : k = imp[q] /\ LocalOK(k)
      BY DEF IInv, TypeOK
    <3>2. LocalOK(k)'
      BY <3>1 DEF Fail, LocalOK, Known, Stable, FetchEnd, FetchStart, Final, OnNode, NodeTip,
         FinalHeight
    <3>3. imp'[q] = IF q = p THEN l ELSE k
      BY <2>1, <3>1
    <3> QED
      BY <3>2, <3>3, <1>3 DEF LocalOK, Known, Stable, FetchEnd, FetchStart, Final, OnNode,
         NodeTip, FinalHeight
  <2> QED
    BY <1>2, <2>2 DEF Becomes, IInv, TypeOK
<1>5. fails' \in 0 .. MaxFails
  BY ChainAssumption DEF Fail, IInv, TypeOK
<1> QED
  BY <1>4, <1>5 DEF Fail, IInv, TypeOK, NodeOK, RowOK, ChainLinked, PinFinal, Stored,
     Known, Final, OnNode, NodeTip, FinalHeight

\* IInv is inductive: no step of the node, of a call or of a failure breaks it.
LEMMA NextKeeps == IInv /\ [Next]_vars => IInv'
<1> SUFFICES ASSUME IInv, [Next]_vars PROVE IInv'
  OBVIOUS
<1>1. CASE UNCHANGED vars
  BY <1>1 DEF vars, IInv, TypeOK, NodeOK, RowOK, ChainLinked, PinFinal, Stored, LocalOK,
     Known, Final, OnNode, NodeTip, FinalHeight, Stable, FetchEnd, FetchStart
<1>2. ASSUME NEW b \in Block, NodeMoves(b) PROVE IInv'
  BY <1>2, NodeKeeps
<1>3. ASSUME NEW p \in Importer,
             \/ FollowChainStep(p)
             \/ \E s \in Starts, e \in Ends : ImportRange(p, s, e)
             \/ Work(p) \/ Fail(p)
      PROVE  IInv'
  BY <1>3, ReadsKeep, SearchKeeps, BatchReadsKeep, RewindKeeps, AdvanceKeeps,
     InitializeKeeps, CommitKeeps, FailKeeps DEF Work
<1> QED
  BY <1>1, <1>2, <1>3 DEF Next

\* The invariant of every reachable state.
THEOREM ChainInvariant == Spec => []IInv
BY InitKeeps, NextKeeps, PTL DEF Spec

\* The state of the index, of the node and of every call keeps its shape.
THEOREM ChainTypes == Spec => []TypeOK
<1>1. IInv => TypeOK
  BY DEF IInv
<1> QED
  BY <1>1, ChainInvariant, PTL

\* canonical_blocks is always one gapless chain from start to
\* imported_through, however imports, reorgs and failures interleave.
THEOREM ChainAlwaysLinked == Spec => []ChainLinked
<1>1. IInv => ChainLinked
  BY DEF IInv
<1> QED
  BY <1>1, ChainInvariant, PTL

\* The pinned checkpoint is always a block the node can no longer replace.
THEOREM PinAlwaysFinal == Spec => []PinFinal
<1>1. IInv => PinFinal
  BY DEF IInv
<1> QED
  BY <1>1, ChainInvariant, PTL

\* What one step may do to the rows at or below the checkpoint: nothing; and
\* to the checkpoint: raise it (rewind, advance_checkpoint, commit_batch).
Protected ==
    Known => /\ db'.pin # NoBlock /\ HeightOf(db'.pin) >= HeightOf(db.pin)
             /\ \A h \in Stored : h <= HeightOf(db.pin) => canon'[h] = canon[h]

LEMMA StepProtects == IInv /\ [Next]_vars => [Protected]_vars
<1> SUFFICES ASSUME IInv, Next, Known PROVE Protected
  BY DEF Protected
<1>0. TypeOK /\ db.pin \in Block /\ HeightOf(db.pin) \in Int
  BY TreeAssumption DEF IInv, TypeOK, Known, Height
<1>1. CASE UNCHANGED <<db, canon>>
  BY <1>0, <1>1 DEF Protected, Known
<1>2. ASSUME NEW p \in Importer, Rewind(p) PROVE Protected
  <2>1. CASE UNCHANGED <<db, canon>>
    BY <2>1, <1>1
  <2>2. CASE ~UNCHANGED <<db, canon>>
    <3>1. /\ db.pin = imp[p].pin /\ imp[p].anc >= HeightOf(imp[p].pin)
          /\ db' = [db EXCEPT !.through = imp[p].anc]
          /\ canon' = [h \in Height |-> IF h \in Dropped(imp[p]) THEN NoBlock ELSE canon[h]]
      BY <1>2, <2>2 DEF Rewind
    <3>2. db'.pin = db.pin /\ imp[p].anc \in Int
      BY <3>1, <1>0, <1>2, LocalFacts
         DEF TypeOK, Rewind, Is, LocalOK, Searching, Height
    <3>3. ASSUME NEW h \in Stored, h <= HeightOf(db.pin) PROVE canon'[h] = canon[h]
      <4>1. h \in Height /\ h \in Int
        BY <1>0, ChainAssumption DEF Stored, IInv, RowOK, TypeOK, Height
      <4> QED
        BY <4>1, <3>1, <3>2, <3>3, <1>0 DEF Dropped
    <3> QED
      BY <3>2, <3>3, <1>0 DEF Protected, Known
  <2> QED
    BY <2>1, <2>2
<1>3. ASSUME NEW p \in Importer, AdvanceCheckpoint(p) PROVE Protected
  <2>1. CASE UNCHANGED db
    BY <2>1, <1>1, <1>3 DEF AdvanceCheckpoint
  <2>2. CASE ~UNCHANGED db
    <3>1. /\ db.pin = imp[p].pin /\ db' = [db EXCEPT !.pin = imp[p].next] /\ canon' = canon
      BY <1>3, <2>2 DEF AdvanceCheckpoint, SamePin
    <3>2. /\ imp[p].next \in Block /\ imp[p].next # NoBlock /\ HeightOf(imp[p].next) \in Int
          /\ HeightOf(imp[p].pin) < HeightOf(imp[p].next)
      BY <1>3, LocalFacts, TreeAssumption
         DEF AdvanceCheckpoint, Is, LocalOK, Advancing, Local, Height
    <3> QED
      BY <3>1, <3>2, <1>0 DEF Protected, TypeOK
  <2> QED
    BY <2>1, <2>2
<1>4. ASSUME NEW p \in Importer, Initialize(p) PROVE Protected
  BY <1>4, <1>1 DEF Initialize
<1>5. ASSUME NEW p \in Importer, CommitBatch(p) PROVE Protected
  <2>1. CASE UNCHANGED <<db, canon>>
    BY <2>1, <1>1
  <2>2. CASE ~UNCHANGED <<db, canon>>
    <3>1. /\ BatchValid(imp[p])
          /\ canon' = [h \in Height |-> IF h \in NewHeights(imp[p]) THEN At(imp[p].batch, h)
                                                                   ELSE canon[h]]
          /\ db' = [db EXCEPT !.through = HeightOf(imp[p].batch)]
      BY <1>5, <2>2 DEF CommitBatch
    <3>2. db'.pin = db.pin
      BY <3>1, <1>0 DEF TypeOK
    <3>3. ASSUME NEW h \in Stored PROVE canon'[h] = canon[h]
      <4>1. h \in Height /\ h <= db.through /\ db.through # NoHeight /\ h \in Int
            /\ db.through \in Int
        BY <1>0, ChainAssumption DEF Stored, IInv, RowOK, TypeOK, Height
      <4>2. h \notin NewHeights(imp[p])
        BY <3>1, <4>1 DEF NewHeights, BatchValid
      <4> QED
        BY <4>1, <4>2, <3>1
    <3> QED
      BY <3>2, <3>3, <1>0 DEF Protected, Known
  <2> QED
    BY <2>1, <2>2
<1>6. ASSUME NEW p \in Importer,
             \/ FollowChainStep(p)
             \/ \E s \in Starts, e \in Ends : ImportRange(p, s, e)
             \/ FollowEnd(p) \/ ReadState(p) \/ ReadInfo(p) \/ ReadTip(p) \/ VerifyPin(p)
             \/ WalkRemote(p) \/ WalkStored(p) \/ VerifyTip(p) \/ ReadNext(p)
             \/ VerifyNext(p) \/ ReadSeed(p) \/ VerifyBatchPin(p) \/ FetchBatch(p)
             \/ VerifyBatch(p) \/ Fail(p)
      PROVE  UNCHANGED <<db, canon>>
  BY <1>6 DEF FollowChainStep, ImportRange, FollowEnd, ReadState, ReadInfo, ReadTip, VerifyPin,
     WalkRemote, WalkStored, VerifyTip, ReadNext, VerifyNext, ReadSeed, VerifyBatchPin,
     FetchBatch, VerifyBatch, Fail, ReadOnly
<1>7. ASSUME NEW b \in Block, NodeMoves(b) PROVE UNCHANGED <<db, canon>>
  BY <1>7 DEF NodeMoves
<1> QED
  BY <1>1, <1>2, <1>3, <1>4, <1>5, <1>6, <1>7 DEF Next, Work

\* No step rewrites or drops a row at or below the checkpoint, and the
\* checkpoint never goes back.
THEOREM PrefixAlwaysProtected == Spec => ProtectedPrefix
<1>1. IInv /\ [Next]_vars => [Protected]_vars
  BY StepProtects
<1> QED
  BY <1>1, ChainInvariant, PTL DEF Spec, ProtectedPrefix, Protected
-----------------------------------------------------------------------------
(* The index implements the log that its readers rely on.                  *)

\* Every other step leaves the tables alone.
LEMMA OnlyTransactionsWrite ==
    ASSUME Next
    PROVE  \/ UNCHANGED <<db, canon>>
           \/ \E p \in Importer : \/ Rewind(p) \/ AdvanceCheckpoint(p)
                                  \/ Initialize(p) \/ CommitBatch(p)
BY DEF Next, Work, NodeMoves, FollowChainStep, ImportRange, FollowEnd, ReadState, ReadInfo,
   ReadTip, VerifyPin, WalkRemote, WalkStored, VerifyTip, ReadNext, VerifyNext, ReadSeed,
   VerifyBatchPin, FetchBatch, VerifyBatch, Fail, ReadOnly

\* The stored rows are an interval of heights, each with a block.
LEMMA StoredRows ==
    ASSUME IInv
    PROVE  /\ Stored \subseteq Height /\ \A h \in Stored : canon[h] \in Block
           /\ db.through # NoHeight => /\ Known /\ Stored = db.start .. db.through
                                       /\ db.start \in Int /\ db.through \in Int
                                       /\ 0 <= db.start /\ db.start <= db.through
           /\ Known => /\ db.pin \in Block /\ HeightOf(db.pin) \in Height
                       /\ db.start \in Int /\ db.start <= HeightOf(db.pin)
<1>1. TypeOK /\ RowOK /\ ChainLinked
  BY DEF IInv
<1>2. Known => db.pin \in Block /\ HeightOf(db.pin) \in Height /\ HeightOf(db.pin) \in Int
  BY <1>1, TreeAssumption DEF TypeOK, Known, Height
<1>3. db.through # NoHeight => /\ Known /\ Stored = db.start .. db.through
                               /\ db.start \in Int /\ db.through \in Int
                               /\ 0 <= db.start /\ db.start <= db.through
                               /\ db.through <= MaxHeight
  BY <1>1 DEF RowOK, Stored, TypeOK, Height, NoHeight
<1>4. Stored \subseteq Height
  BY <1>3, ChainAssumption DEF Stored, Height
<1>5. \A h \in Stored : canon[h] \in Block
  BY <1>1, <1>4 DEF ChainLinked, TypeOK
<1>6. Known => db.start \in Int /\ db.start <= HeightOf(db.pin)
  BY <1>1 DEF RowOK, Height
<1> QED
  BY <1>2, <1>3, <1>4, <1>5, <1>6

\* rewind drops a suffix above the checkpoint, or nothing.
LEMMA RewindRefines ==
    ASSUME IInv, IInv', NEW p \in Importer, Rewind(p), ~UNCHANGED <<db, canon>>
    PROVE  [Log!Next]_(Log!vars)
<1> DEFINE a == imp[p].anc
<1>1. /\ db.pin = imp[p].pin /\ a >= HeightOf(imp[p].pin) /\ a <= db.through
      /\ db' = [db EXCEPT !.through = a]
      /\ canon' = [h \in Height |-> IF h \in Dropped(imp[p]) THEN NoBlock ELSE canon[h]]
  BY DEF Rewind
<1>2. a \in Height /\ a \in Int /\ imp[p].pin # NoBlock
  BY LocalFacts DEF Rewind, Is, LocalOK, Searching, Height
<1>3. /\ Known /\ db.through # NoHeight /\ db.pin \in Block /\ HeightOf(db.pin) \in Int
      /\ Stored = db.start .. db.through /\ db.start \in Int /\ db.through \in Int
      /\ db.start <= a /\ Stored \subseteq Height
  BY <1>1, <1>2, StoredRows DEF Known, Height, NoHeight
<1>4. db'.start = db.start /\ db'.through = a /\ db'.pin = db.pin
  BY <1>1 DEF IInv, TypeOK
<1>5. Stored' = db.start .. a /\ Stored' = {h \in Stored : h <= a} /\ a \in Stored
  BY <1>1, <1>2, <1>3, <1>4 DEF Stored, NoHeight, Height
<1>6. \A h \in Stored' : canon'[h] = canon[h]
  BY <1>1, <1>2, <1>3, <1>5 DEF Dropped
<1>7. Log!Agrees
  BY <1>5, <1>6 DEF Log!Agrees
<1>8. DOMAIN [h \in Stored |-> canon[h]]' = {h \in DOMAIN [h \in Stored |-> canon[h]] : h <= a}
  BY <1>5
<1>9. /\ HeightOf(db.pin) # NoHeight /\ Known'
      /\ HeightOf(db'.pin) = HeightOf(db.pin) /\ a \in DOMAIN [h \in Stored |-> canon[h]]
  BY <1>1, <1>3, <1>4, <1>5, StoredRows DEF Known, NoHeight, Height
<1>10. Log!DropSuffix
  BY <1>1, <1>3, <1>4, <1>7, <1>8, <1>9 DEF Log!DropSuffix
<1> QED
  BY <1>10 DEF Log!Next

\* advance_checkpoint and initialize move the pin up, the latter from nowhere.
LEMMA PinRefines ==
    ASSUME IInv, IInv', NEW p \in Importer, AdvanceCheckpoint(p) \/ Initialize(p),
           ~UNCHANGED <<db, canon>>
    PROVE  [Log!Next]_(Log!vars)
<1>1. canon' = canon /\ Stored' = Stored
  <2>1. CASE AdvanceCheckpoint(p)
    BY <2>1 DEF AdvanceCheckpoint, IInv, TypeOK, Stored
  <2>2. CASE Initialize(p)
    BY <2>2 DEF Initialize, IInv, TypeOK, RowOK, Stored, Known
  <2> QED
    BY <2>1, <2>2
<1>2. /\ Known' /\ db'.pin \in Block
      /\ HeightOf(db'.pin) > (IF Known THEN HeightOf(db.pin) ELSE NoHeight)
  <2>1. TypeOK /\ TypeOK'
    BY DEF IInv
  <2>2. CASE AdvanceCheckpoint(p)
    <3>1. /\ db.pin = imp[p].pin /\ db'.pin = imp[p].next /\ imp[p].pin # NoBlock
          /\ imp[p].next \in Block /\ imp[p].next # NoBlock
          /\ HeightOf(imp[p].pin) < HeightOf(imp[p].next)
      BY <2>2, <2>1, LocalFacts, TreeAssumption
         DEF AdvanceCheckpoint, SamePin, TypeOK, Is, LocalOK, Advancing, Local, Height
    <3> QED
      BY <3>1, StoredRows, TreeAssumption DEF Known, Height
  <2>3. CASE Initialize(p)
    <3>1. ~Known /\ db'.pin = imp[p].pin
      BY <2>3 DEF Initialize
    <3>2. imp[p].pin \in Block /\ imp[p].pin # NoBlock
      BY <2>3, LocalFacts DEF Initialize, Is, LocalOK, Local
    <3> QED
      BY <3>1, <3>2, TreeAssumption DEF Known, Height, NoHeight
  <2> QED
    BY <2>2, <2>3
<1>3. Log!Pin
  BY <1>1, <1>2, TreeAssumption DEF Log!Pin
<1> QED
  BY <1>3 DEF Log!Next

\* commit_batch appends the blocks right above everything stored.
LEMMA CommitRefines ==
    ASSUME IInv, IInv', NEW p \in Importer, CommitBatch(p), ~UNCHANGED <<db, canon>>
    PROVE  [Log!Next]_(Log!vars)
<1> DEFINE l == imp[p]
           last == HeightOf(l.batch)
           log == [h \in Stored |-> canon[h]]
<1>1. /\ Known /\ BatchValid(l)
      /\ canon' = [h \in Height |-> IF h \in NewHeights(l) THEN At(l.batch, h) ELSE canon[h]]
      /\ db' = [db EXCEPT !.through = last]
  BY DEF CommitBatch
<1>2. db'.start = db.start /\ db'.through = last /\ db'.pin = db.pin
  BY <1>1 DEF IInv, TypeOK
<1>3. /\ last = FetchEnd(l) /\ last \in Height /\ l.start = db.start /\ l.through = db.through
      /\ l.start \in Height /\ l.end \in Height /\ l.through \in Height \cup {NoHeight}
      /\ IF l.through = NoHeight THEN l.start <= l.end ELSE l.through < l.end
  BY <1>1, LocalFacts, TreeAssumption
     DEF CommitBatch, Is, LocalOK, Batching, Fetched, Local, BatchValid
<1>4. /\ last \in Int /\ last >= db.start /\ last # NoHeight /\ db.start \in Int
      /\ db.through # NoHeight => db.through < last /\ db.through \in Int
  BY <1>3, ChainAssumption, StoredRows DEF FetchEnd, FetchStart, Lesser, Height, NoHeight
<1>5. /\ Stored' = db.start .. last /\ last \in Stored'
      /\ NewHeights(l) = Stored' \ Stored /\ Stored \subseteq Stored'
      /\ \A h \in Stored, g \in Stored' \ Stored : h < g
      /\ last \notin Stored
  BY <1>2, <1>3, <1>4, StoredRows DEF Stored, NewHeights, NoHeight
<1>6. \A h \in Stored : canon'[h] = canon[h]
  BY <1>1, <1>5, StoredRows
<1>7. \A h \in Stored' : canon'[h] \in Block
  <2>1. l.batch \in Block
    BY LocalFacts DEF CommitBatch, Is, LocalOK, Fetched, Local
  <2>2. \A h \in Stored' : h \in 0 .. last /\ h \in Height
    BY <1>3, <1>4, <1>5, ChainAssumption DEF Height
  <2> QED
    BY <2>1, <2>2, <1>1, <1>5, <1>6, StoredRows, TreeAssumption
<1>8. \A a, b \in Stored' : a .. b \subseteq Stored'
  BY <1>4, <1>5
<1>9. Log!Agrees
  BY <1>6, <1>5 DEF Log!Agrees
<1>10. DOMAIN log = Stored /\ DOMAIN log' = Stored' /\ log' \in [Stored' -> Block] /\ log' # log
  BY <1>5, <1>7
<1>11. (IF Known THEN HeightOf(db.pin) ELSE NoHeight)' = IF Known THEN HeightOf(db.pin) ELSE NoHeight
  BY <1>2 DEF Known
<1>12. Log!Append
  BY <1>5, <1>8, <1>9, <1>10, <1>11 DEF Log!Append
<1> QED
  BY <1>12 DEF Log!Next

LEMMA StepRefines == IInv /\ IInv' /\ [Next]_vars => [Log!Next]_(Log!vars)
<1> SUFFICES ASSUME IInv, IInv', [Next]_vars PROVE [Log!Next]_(Log!vars)
  OBVIOUS
<1>1. CASE UNCHANGED <<db, canon>>
  <2>1. UNCHANGED Stored /\ UNCHANGED Known
    BY <1>1 DEF Stored, Known
  <2> QED
    BY <1>1, <2>1 DEF Log!vars
<1>2. ASSUME ~UNCHANGED <<db, canon>>, Next PROVE [Log!Next]_(Log!vars)
  BY <1>2, OnlyTransactionsWrite, RewindRefines, PinRefines, CommitRefines
<1> QED
  BY <1>1, <1>2 DEF vars

\* The block index is a log whose entries up to a pinned height never change,
\* however imports, reorgs and failures interleave (import_range): every
\* transaction of ChainIndex is a step of PinnedLog or changes nothing of it.
THEOREM IndexIsPinnedLog == Spec => LogSpec
<1>1. Init => Log!Init
  BY DEF Init, Log!Init, Uninitialised, Stored, Known
<1> QED
  BY <1>1, StepRefines, ChainInvariant, PTL DEF Spec, LogSpec, Log!Spec
-----------------------------------------------------------------------------
(* One importer alone: its stable answers are final.  With two of them the *)
(* checkpoint may pass rows that it was never compared with (PinStored).   *)

Alone == \A p, q \in Importer : p = q

\* What a step may look at of the shared state to keep what is known of it.
LEMMA SoleLocalStep ==
    ASSUME Alone, IInv, SoleInv, ReadOnly, NEW p \in Importer, NEW l, SoleOK(l),
           Becomes(p, l)
    PROVE  SoleInv'
<1>1. \A q \in Importer : imp'[q] = l
  BY DEF IInv, TypeOK, Becomes, Alone
<1>2. SoleOK(l)'
  BY DEF SoleOK, ReadOnly, Final, OnNode, NodeTip, FinalHeight, Stored, Stable
<1>3. \A q \in Importer : SoleOK(imp[q])'
  BY <1>1, <1>2 DEF SoleOK, Final, OnNode, NodeTip, FinalHeight, Stored, Stable
<1>4. StableAnswersFinal'
  BY DEF SoleInv, StableAnswersFinal, ReadOnly, Final, OnNode, NodeTip, FinalHeight, Stored, Known
<1> QED
  BY <1>3, <1>4 DEF SoleInv

LEMMA IdleSole == SoleOK(Idle)
BY DEF SoleOK, Idle, Searching, Advancing, Fetched

LEMMA AbortSole ==
    ASSUME Alone, IInv, SoleInv, ReadOnly, NEW p \in Importer, Abort(p)
    PROVE  SoleInv'
BY IdleSole, SoleLocalStep DEF Abort

LEMMA SoleFacts ==
    ASSUME IInv, SoleInv, NEW p \in Importer
    PROVE  /\ imp[p] \in Local /\ LocalOK(imp[p]) /\ SoleOK(imp[p]) /\ TypeOK
           /\ node \in Block /\ NodeTip \in Int /\ peak \in Int /\ NodeTip <= peak
           /\ ConsensusDepth \in Int /\ ConsensusDepth >= 0 /\ imp[p].info \in Int
           /\ imp[p].through \in Int /\ imp[p].anc \in Int /\ Stable(imp[p]) \in Int
BY LocalFacts, ChainAssumption DEF SoleInv, Height, NoHeight, Local, Stable

\* Once the reorg is handled, the rows up to the height of the next checkpoint
\* are final; if there is no next one, nothing has to be.
LEMMA SettledSole ==
    ASSUME NEW l \in Local, db.pin = l.pin,
           \A h \in Stored : h <= Stable(l) => Final(canon[h])
    PROVE  SoleOK(Settled(l))
<1> DEFINE goes == Stable(l) > HeightOf(l.pin)
           x == Settled(l)
<1>1. /\ x.pc = (IF goes THEN "next" ELSE "init") /\ x.pin = l.pin
      /\ goes => x.info = l.info
  BY DEF Settled, Local
<1> QED
  BY <1>1 DEF SoleOK, Stable, Searching, Advancing, Fetched

\* The reads before the reorg search.
LEMMA ReadsSole ==
    ASSUME Alone, IInv, SoleInv, NEW p \in Importer,
           \/ FollowChainStep(p) \/ FollowEnd(p) \/ ReadState(p) \/ ReadInfo(p)
           \/ ReadTip(p) \/ VerifyPin(p)
           \/ \E s \in Starts, e \in Ends : ImportRange(p, s, e)
    PROVE  SoleInv'
<1> DEFINE l == imp[p]
<1>0. SoleOK(l) /\ LocalOK(l) /\ l \in Local /\ TypeOK
  BY SoleFacts
<1>1. ASSUME FollowChainStep(p) PROVE SoleInv'
  <2> DEFINE x == [Idle EXCEPT !.pc = "follow", !.through = db.through]
  <2>1. SoleOK(x)
    BY DEF SoleOK, Idle, Searching, Advancing, Fetched
  <2> QED
    BY <1>1, <2>1, SoleLocalStep DEF FollowChainStep
<1>2. ASSUME FollowEnd(p) PROVE SoleInv'
  <2> DEFINE x == [Idle EXCEPT !.pc = "state", !.end = EndOfStep(l)]
  <2>1. SoleOK(x)
    BY DEF SoleOK, Idle, Searching, Advancing, Fetched
  <2> QED
    BY <1>2, <2>1, SoleLocalStep DEF FollowEnd
<1>3. ASSUME ReadState(p) PROVE SoleInv'
  <2> DEFINE x == [l EXCEPT !.pc = "info", !.pin = db.pin, !.through = db.through]
  <2>1. SoleOK(x)
    BY <1>0 DEF SoleOK, Local, Searching, Advancing, Fetched
  <2> QED
    BY <1>3, <2>1, SoleLocalStep, AbortSole DEF ReadState
<1>4. ASSUME ReadInfo(p) PROVE SoleInv'
  <2> DEFINE x == [l EXCEPT !.pc = "tip", !.info = NodeTip]
  <2>1. l.pc = "info" => SoleOK(x)
    BY <1>0 DEF SoleOK, Local, Searching, Advancing, Fetched
  <2> QED
    BY <1>4, <2>1, SoleLocalStep, AbortSole DEF ReadInfo, Is
<1>5. ASSUME ReadTip(p) PROVE SoleInv'
  <2> DEFINE x == [l EXCEPT !.pc = IF l.pin = NoBlock THEN "seed" ELSE "pin",
                            !.tip = At(node, l.info)]
  <2>1. /\ x.pc = (IF l.pin = NoBlock THEN "seed" ELSE "pin")
        /\ x.pin = l.pin /\ x.through = l.through
    BY <1>0 DEF Local
  <2>2. l.pc = "tip" => SoleOK(x)
    <3> HIDE DEF x
    <3> QED
      BY <2>1, <1>0 DEF SoleOK, Searching, Advancing, Fetched
  <2> QED
    BY <1>5, <2>2, SoleLocalStep, AbortSole DEF ReadTip, Is
<1>6. ASSUME VerifyPin(p) PROVE SoleInv'
  <2> DEFINE x == [l EXCEPT !.pc = "walk", !.anc = Lesser(l.through, l.info)]
  <2>1. l.pc = "pin" /\ l.pin # NoBlock /\ db.pin = l.pin /\ db.through = l.through /\ Known
    BY <1>0, <1>6 DEF VerifyPin, Is, LocalOK, SoleOK, Known
  <2>2. SoleOK(x)
    <3>1. Lesser(l.through, l.info) <= l.through
      BY SoleFacts DEF Lesser
    <3> QED
      BY <3>1, <2>1, <1>0 DEF SoleOK, Local, Searching, Advancing, Fetched
  <2>3. ASSUME ~MayBeReplaced(l) PROVE SoleOK(Settled(l))
    <3>1. \A h \in Stored : h <= HeightOf(db.pin)
      BY <2>1, <2>3, StoredRows DEF MayBeReplaced, Height, Stored
    <3>2. \A h \in Stored : Final(canon[h])
      BY <2>1, <3>1 DEF SoleInv, StableAnswersFinal
    <3> QED
      BY <2>1, <3>2, <1>0, SettledSole
  <2> QED
    BY <1>6, <2>2, <2>3, SoleLocalStep, AbortSole DEF VerifyPin
<1>7. ASSUME NEW s \in Starts, NEW e \in Ends, ImportRange(p, s, e) PROVE SoleInv'
  <2> DEFINE x == [Idle EXCEPT !.pc = "state", !.end = e,
                               !.start = IF s = 0 THEN 0 ELSE s - 1]
  <2>1. SoleOK(x)
    BY DEF SoleOK, Idle, Searching, Advancing, Fetched
  <2> QED
    BY <1>7, <2>1, SoleLocalStep DEF ImportRange
<1> QED
  BY <1>1, <1>2, <1>3, <1>4, <1>5, <1>6, <1>7

\* The search: what the node shows at a height is final up to the height of
\* the next checkpoint, and stored rows are its ancestors if the two agree.
LEMMA SearchSole ==
    ASSUME Alone, IInv, SoleInv, NEW p \in Importer,
           \/ WalkRemote(p) \/ WalkStored(p) \/ VerifyTip(p) \/ ReadNext(p)
           \/ VerifyNext(p) \/ ReadSeed(p)
    PROVE  SoleInv'
<1> DEFINE l == imp[p]
<1>0. /\ SoleOK(l) /\ LocalOK(l) /\ l \in Local /\ TypeOK
      /\ NodeTip \in Int /\ peak \in Int /\ NodeTip <= peak /\ Stable(l) \in Int /\ l.anc \in Int
  BY SoleFacts
<1>1. ASSUME WalkRemote(p) PROVE SoleInv'
  <2> DEFINE s == At(node, l.anc)
             x == [l EXCEPT !.pc = "match", !.seen = s]
  <2>1. /\ l.pc = "walk" /\ l.anc \in Height /\ db.pin = l.pin /\ db.through = l.through
        /\ l.anc <= l.through /\ l.info <= peak
    BY <1>0, <1>1 DEF WalkRemote, Is, LocalOK, SoleOK, Searching
  <2>2. ASSUME l.anc <= NodeTip PROVE SoleOK(x)
    <3>1. s \in Block /\ HeightOf(s) = l.anc
      BY <1>0, <2>1, <2>2, Shown
    <3>2. ASSUME NEW h \in 0 .. l.anc, h <= Stable(l) PROVE Final(At(s, h))
      <4>1. h \in Height /\ h <= NodeTip /\ h <= FinalHeight
        BY <1>0, <2>1, <2>2, <3>2, SoleFacts, ChainAssumption DEF Height, Stable, FinalHeight
      <4>2. At(s, h) = At(node, h)
        BY <2>1, <2>2, <1>0, TreeAssumption DEF TypeOK, NodeTip, Height
      <4> QED
        BY <4>1, <4>2, <1>0, Shown
    <3> HIDE DEF s
    <3>3. /\ x.pc = "match" /\ x.seen = s /\ x.anc = l.anc /\ x.pin = l.pin /\ x.info = l.info
          /\ x.through = l.through
      BY <1>0 DEF Local
    <3> HIDE DEF x
    <3> QED
      BY <2>1, <3>1, <3>2, <3>3 DEF SoleOK, Stable, Searching, Advancing, Fetched
  <2> QED
    BY <1>1, <1>0, <2>2, SoleLocalStep, AbortSole DEF WalkRemote
<1>2. ASSUME WalkStored(p) PROVE SoleInv'
  <2> DEFINE x == [l EXCEPT !.pc = "reorg", !.seen = NoBlock]
             y == [l EXCEPT !.pc = "walk", !.anc = l.anc - 1, !.seen = NoBlock]
  <2>1. /\ l.pc = "match" /\ l.anc \in Height /\ db.pin = l.pin /\ db.through = l.through
        /\ l.anc <= l.through
        /\ \A h \in 0 .. l.anc : h <= Stable(l) => Final(At(l.seen, h))
    BY <1>0, <1>2 DEF WalkStored, Is, LocalOK, SoleOK, Searching
  <2>2. ASSUME canon[l.anc] = l.seen PROVE SoleOK(x)
    <3>1. ASSUME NEW h \in Stored, h <= l.anc, h <= Stable(l) PROVE Final(canon[h])
      <4>1. /\ h \in 0 .. l.anc /\ l.anc \in Stored /\ db.through \in Stored
            /\ l.anc \in 0 .. db.through /\ canon[db.through] \in Block
        BY <2>1, <3>1, <1>0, StoredRows DEF Stored, Height
      <4>2. /\ canon[h] = At(canon[db.through], h) /\ canon[l.anc] = At(canon[db.through], l.anc)
            /\ HeightOf(canon[db.through]) = db.through
        BY <4>1 DEF IInv, ChainLinked
      <4>3. canon[h] = At(canon[l.anc], h)
        BY <4>1, <4>2, Ancestors
      <4> QED
        BY <4>1, <4>3, <2>1, <2>2, <3>1
    <3>2. x.pc = "reorg" /\ x.anc = l.anc /\ x.pin = l.pin /\ x.info = l.info /\ x.through = l.through
      BY <1>0 DEF Local
    <3> HIDE DEF x
    <3> QED
      BY <2>1, <3>1, <3>2 DEF SoleOK, Stable, Searching, Advancing, Fetched
  <2>3. SoleOK(y)
    <3>1. y.pc = "walk" /\ y.anc <= y.through /\ y.pin = l.pin /\ y.through = l.through
      BY <1>0, <2>1, SoleFacts DEF Local
    <3> HIDE DEF y
    <3> QED
      BY <2>1, <3>1 DEF SoleOK, Searching, Advancing, Fetched
  <2> QED
    BY <1>2, <2>2, <2>3, SoleLocalStep, AbortSole DEF WalkStored
<1>3. ASSUME VerifyTip(p) PROVE SoleInv'
  <2> DEFINE x == [l EXCEPT !.pc = "rewind"]
  <2>1. /\ l.pc = "reorg" /\ db.pin = l.pin /\ db.through = l.through /\ l.anc <= l.through
        /\ \A h \in Stored : h <= l.anc /\ h <= Stable(l) => Final(canon[h])
    BY <1>0, <1>3 DEF VerifyTip, Is, SoleOK, Searching
  <2>2. SoleOK(x)
    BY <2>1, <1>0 DEF SoleOK, Local, Stable, Searching, Advancing, Fetched
  <2>3. ASSUME ~MustRewind(l) PROVE SoleOK(Settled(l))
    <3>1. \A h \in Stored : h <= l.anc
      BY <2>1, <2>3, <1>0, SoleFacts, StoredRows DEF MustRewind, Stored
    <3> QED
      BY <2>1, <3>1, <1>0, SettledSole
  <2> QED
    BY <1>3, <2>2, <2>3, SoleLocalStep, AbortSole DEF VerifyTip
<1>4. ASSUME ReadNext(p) PROVE SoleInv'
  <2> DEFINE x == [l EXCEPT !.pc = "nextPin", !.next = At(node, Stable(l))]
  <2>1. x.pc = "nextPin" /\ x.pin = l.pin /\ x.info = l.info
    BY <1>0 DEF Local
  <2>2. l.pc = "next" => SoleOK(x)
    <3> HIDE DEF x
    <3> QED
      BY <2>1, <1>0 DEF SoleOK, Stable, Searching, Advancing, Fetched
  <2> QED
    BY <1>4, <2>2, SoleLocalStep, AbortSole DEF ReadNext, Is
<1>5. ASSUME VerifyNext(p) PROVE SoleInv'
  <2> DEFINE x == [l EXCEPT !.pc = "nextNext"]
             y == [l EXCEPT !.pc = "advance"]
  <2>1. l.pc \in Advancing => SoleOK(x) /\ SoleOK(y)
    BY <1>0 DEF SoleOK, Local, Stable, Searching, Advancing, Fetched
  <2> QED
    BY <1>5, <2>1, SoleLocalStep, AbortSole DEF VerifyNext, Is, Advancing
<1>6. ASSUME ReadSeed(p) PROVE SoleInv'
  <2> DEFINE x == [l EXCEPT !.pc = "init", !.info = 0, !.pin = At(node, Stable(l))]
  <2>1. x.pc = "init"
    BY <1>0 DEF Local
  <2>2. SoleOK(x)
    BY <2>1 DEF SoleOK, Searching, Advancing, Fetched
  <2> QED
    BY <1>6, <2>2, SoleLocalStep, AbortSole DEF ReadSeed
<1> QED
  BY <1>1, <1>2, <1>3, <1>4, <1>5, <1>6
LEMMA BatchSole ==
    ASSUME Alone, IInv, SoleInv, NEW p \in Importer,
           VerifyBatchPin(p) \/ FetchBatch(p) \/ VerifyBatch(p)
    PROVE  SoleInv'
<1> DEFINE l == imp[p]
<1>0. SoleOK(l) /\ LocalOK(l) /\ l \in Local /\ TypeOK
  BY SoleFacts
<1>1. ASSUME VerifyBatchPin(p) PROVE SoleInv'
  <2> DEFINE x == [l EXCEPT !.pc = "fetch"]
  <2>1. SoleOK(x)
    BY <1>0 DEF SoleOK, Local, Searching, Advancing, Fetched
  <2> QED
    BY <1>1, <2>1, SoleLocalStep, AbortSole DEF VerifyBatchPin
<1>2. ASSUME FetchBatch(p) PROVE SoleInv'
  <2> DEFINE n == At(node, FetchEnd(l))
             x == [l EXCEPT !.pc = "batchPin", !.batch = n]
  <2>1. /\ l.pc = "fetch" /\ l.pin \in Block /\ Final(l.pin)
        /\ FetchEnd(l) \in Height
    BY <1>0, <1>2, ChainAssumption
       DEF FetchBatch, Is, LocalOK, Batching, Local, FetchEnd, FetchStart, Lesser, Height, NoHeight
  <2>2. ASSUME FetchEnd(l) <= NodeTip PROVE SoleOK(x)
    <3>1. n \in Block /\ HeightOf(n) = FetchEnd(l)
      BY <1>0, <2>1, <2>2, Shown
    <3>2. ASSUME NEW h \in 0 .. FetchEnd(l), h <= HeightOf(l.pin) PROVE Final(At(n, h))
      <4>1. h \in Height /\ h <= NodeTip /\ h <= FinalHeight
        BY <2>1, <2>2, <3>2, SoleFacts, ChainAssumption, TreeAssumption DEF Height, Final, FinalHeight
      <4>2. At(n, h) = At(node, h)
        BY <2>1, <2>2, <1>0, TreeAssumption DEF TypeOK, NodeTip, Height
      <4> QED
        BY <4>1, <4>2, <1>0, Shown
    <3> HIDE DEF n
    <3>3. x.pc = "batchPin" /\ x.batch = n /\ x.pin = l.pin
      BY <1>0 DEF Local
    <3> HIDE DEF x
    <3> QED
      BY <3>1, <3>2, <3>3 DEF SoleOK, Searching, Advancing, Fetched
  <2>3. NodeTip < FetchEnd(l) \/ FetchEnd(l) <= NodeTip
    BY <2>1, SoleFacts DEF Height
  <2> QED
    BY <1>2, <2>2, <2>3, SoleLocalStep, AbortSole DEF FetchBatch
<1>3. ASSUME VerifyBatch(p) PROVE SoleInv'
  <2> DEFINE x == [l EXCEPT !.pc = "batchTip"]
             y == [l EXCEPT !.pc = "commit"]
  <2>1. l.pc \in Fetched => SoleOK(x) /\ SoleOK(y)
    BY <1>0 DEF SoleOK, Local, Searching, Advancing, Fetched
  <2> QED
    BY <1>3, <2>1, SoleLocalStep, AbortSole DEF VerifyBatch, Is, Fetched
<1> QED
  BY <1>1, <1>2, <1>3

\* A transaction keeps it when the rows it leaves up to the checkpoint are
\* final and its own locals go on rightly.
LEMMA SoleStoreStep ==
    ASSUME Alone, IInv, NEW p \in Importer, NEW l, Becomes(p, l),
           StableAnswersFinal', SoleOK(l)'
    PROVE  SoleInv'
<1>1. \A q \in Importer : imp'[q] = l
  BY DEF IInv, TypeOK, Becomes, Alone
<1>2. \A q \in Importer : SoleOK(imp[q])'
  BY <1>1 DEF SoleOK, Final, OnNode, NodeTip, FinalHeight, Stored, Stable
<1> QED
  BY <1>2 DEF SoleInv

LEMMA RewindSole ==
    ASSUME Alone, IInv, SoleInv, NEW p \in Importer, Rewind(p)
    PROVE  SoleInv'
<1> DEFINE l == imp[p]
<1>0. /\ SoleOK(l) /\ LocalOK(l) /\ l \in Local /\ TypeOK /\ l.pc = "rewind" /\ l.anc \in Int
  BY SoleFacts DEF Rewind, Is
<1>1. CASE Abort(p) /\ UNCHANGED <<db, canon>>
  BY <1>1, AbortSole DEF Rewind, ReadOnly
<1>2. ASSUME db.pin = l.pin, l.anc >= HeightOf(l.pin), l.anc <= db.through,
             db' = [db EXCEPT !.through = l.anc],
             canon' = [h \in Height |-> IF h \in Dropped(l) THEN NoBlock ELSE canon[h]],
             Becomes(p, Settled(l))
      PROVE  SoleInv'
  <2>1. PICK x : x = Settled(l)
    OBVIOUS
  <2>2. /\ l.anc \in Height /\ l.pin \in Block
        /\ \A h \in Stored : h <= l.anc /\ h <= Stable(l) => Final(canon[h])
    BY <1>0 DEF SoleOK, LocalOK, Searching, Local
  <2>3. db'.start = db.start /\ db'.pin = db.pin /\ db'.through = l.anc
        /\ UNCHANGED <<node, peak>>
    BY <1>0, <1>2 DEF TypeOK, Rewind
  <2>4. \A h \in Stored' : h \in Stored /\ h <= l.anc /\ canon'[h] = canon[h]
    <3>1. Stored' = db.start .. l.anc /\ Stored = db.start .. db.through /\ Stored \subseteq Height
      BY <1>2, <2>2, <2>3, StoredRows DEF Stored, Height, NoHeight
    <3>2. db.start \in Int /\ db.through \in Int
      BY <1>0, <1>2, <2>2, StoredRows DEF Height, NoHeight
    <3> QED
      BY <3>1, <3>2, <1>0, <1>2 DEF Dropped
  <2>5. \A b : Final(b)' <=> Final(b)
    BY <2>3 DEF Final, OnNode, NodeTip, FinalHeight
  <2>6. StableAnswersFinal'
    BY <2>3, <2>4, <2>5 DEF SoleInv, StableAnswersFinal, Known, Final, OnNode, NodeTip, FinalHeight
  <2>7. \A h \in Stored' : h <= Stable(l) => Final(canon'[h])
    BY <2>2, <2>4
  <2>8. /\ x.pc = (IF Stable(l) > HeightOf(l.pin) THEN "next" ELSE "init") /\ x.pin = l.pin
        /\ Stable(l) > HeightOf(l.pin) => x.info = l.info
    BY <2>1, <1>0 DEF Settled, Local
  <2>9. SoleOK(x)'
    BY <2>3, <2>5, <2>7, <2>8, <1>2
       DEF SoleOK, Stable, Searching, Advancing, Fetched, Final, OnNode, NodeTip, FinalHeight
  <2> QED
    BY <1>2, <2>1, <2>6, <2>9, SoleStoreStep
<1> QED
  BY <1>1, <1>2 DEF Rewind

\* The next checkpoint was compared with the rows when it was chosen.
LEMMA AdvanceSole ==
    ASSUME Alone, IInv, SoleInv, NEW p \in Importer, AdvanceCheckpoint(p)
    PROVE  SoleInv'
<1> DEFINE l == imp[p]
<1>0. /\ SoleOK(l) /\ LocalOK(l) /\ l \in Local /\ TypeOK /\ l.pc = "advance"
  BY SoleFacts DEF AdvanceCheckpoint, Is
<1>1. CASE Abort(p) /\ UNCHANGED db
  BY <1>1, AbortSole DEF AdvanceCheckpoint, ReadOnly
<1>2. ASSUME SamePin(l), db' = [db EXCEPT !.pin = l.next],
             Becomes(p, [l EXCEPT !.pc = "init", !.pin = l.next, !.next = NoBlock, !.info = 0])
      PROVE  SoleInv'
  <2>1. PICK x : x = [l EXCEPT !.pc = "init", !.pin = l.next, !.next = NoBlock, !.info = 0]
    OBVIOUS
  <2>2. /\ HeightOf(l.next) = Stable(l)
        /\ \A h \in Stored : h <= Stable(l) => Final(canon[h])
    BY <1>0 DEF SoleOK, LocalOK, Advancing
  <2>3. /\ db'.pin = l.next /\ UNCHANGED <<node, peak, canon>> /\ Stored' = Stored
    BY <1>0, <1>2 DEF TypeOK, AdvanceCheckpoint, Stored
  <2>4. StableAnswersFinal'
    BY <2>2, <2>3 DEF StableAnswersFinal, Final, OnNode, NodeTip, FinalHeight
  <2>5. x.pc = "init"
    BY <2>1, <1>0 DEF Local
  <2>6. SoleOK(x)'
    BY <2>5 DEF SoleOK, Searching, Advancing, Fetched
  <2> QED
    BY <1>2, <2>1, <2>4, <2>6, SoleStoreStep
<1> QED
  BY <1>1, <1>2 DEF AdvanceCheckpoint

\* A call that goes on has nothing fetched yet.
LEMMA ContinueSole ==
    ASSUME NEW l \in Local
    PROVE  SoleOK(Continue(l))'
<1>1. Continue(l).pc \in {"batch", "idle"}
  BY DEF Continue, Local, Idle
<1> QED
  BY <1>1 DEF SoleOK, Searching, Advancing, Fetched

LEMMA InitializeSole ==
    ASSUME Alone, IInv, SoleInv, NEW p \in Importer, Initialize(p)
    PROVE  SoleInv'
<1> DEFINE l == imp[p]
           row == IF Known THEN db ELSE [start |-> l.start, through |-> NoHeight, pin |-> l.pin]
<1>0. l \in Local /\ TypeOK
  BY SoleFacts
<1>1. CASE Abort(p) /\ UNCHANGED db
  BY <1>1, AbortSole DEF Initialize, ReadOnly
<1>2. ASSUME db' = row, Becomes(p, Continue([l EXCEPT !.through = row.through]))
      PROVE  SoleInv'
  <2>1. PICK y : y = [l EXCEPT !.through = row.through]
    OBVIOUS
  <2>2. y \in Local
    BY <1>0, <2>1 DEF Local, TypeOK
  <2>3. UNCHANGED <<node, peak, canon>>
    BY DEF Initialize
  <2>4. StableAnswersFinal'
    <3>1. CASE Known
      BY <3>1, <1>2, <2>3
         DEF SoleInv, StableAnswersFinal, Known, Stored, Final, OnNode, NodeTip, FinalHeight
    <3>2. CASE ~Known
      <4>1. Stored' = {}
        BY <3>2, <1>2 DEF Stored
      <4> QED
        BY <4>1 DEF StableAnswersFinal
    <3> QED
      BY <3>1, <3>2
  <2>5. SoleOK(Continue(y))'
    BY <2>2, ContinueSole
  <2>6. PICK x : x = Continue(y)
    OBVIOUS
  <2> QED
    BY <1>2, <2>1, <2>4, <2>5, <2>6, SoleStoreStep
<1> QED
  BY <1>1, <1>2 DEF Initialize

\* The blocks of a batch up to the checkpoint are final.
LEMMA CommitSole ==
    ASSUME Alone, IInv, SoleInv, NEW p \in Importer, CommitBatch(p)
    PROVE  SoleInv'
<1> DEFINE l == imp[p]
           last == HeightOf(l.batch)
<1>0. l \in Local /\ TypeOK /\ l.pc = "commit" /\ LocalOK(l) /\ SoleOK(l)
  BY SoleFacts DEF CommitBatch, Is
<1>1. CASE Abort(p) /\ UNCHANGED <<db, canon>>
  BY <1>1, AbortSole DEF CommitBatch, ReadOnly
<1>2. ASSUME Known, BatchValid(l),
             canon' = [h \in Height |-> IF h \in NewHeights(l) THEN At(l.batch, h) ELSE canon[h]],
             db' = [db EXCEPT !.through = last],
             Becomes(p, Continue([l EXCEPT !.through = last]))
      PROVE  SoleInv'
  <2>1. PICK y : y = [l EXCEPT !.through = last]
    OBVIOUS
  <2>2. UNCHANGED <<node, peak>> /\ db'.start = db.start /\ db'.pin = db.pin /\ db'.through = last
    BY <1>0, <1>2 DEF CommitBatch, TypeOK
  <2>3. /\ last \in Height /\ db.pin = l.pin /\ db.through = l.through /\ db.start = l.start
        /\ l.start \in Height /\ l.through \in Height \cup {NoHeight}
        /\ \A h \in 0 .. last : h <= HeightOf(l.pin) => Final(At(l.batch, h))
    BY <1>0, <1>2, TreeAssumption
       DEF BatchValid, LocalOK, SoleOK, Batching, Fetched, Local
  <2>4. y \in Local
    BY <1>0, <2>1, <2>3 DEF Local
  <2>5. ASSUME NEW h \in Stored', h <= HeightOf(db.pin) PROVE Final(canon'[h])
    <3>1. h \in 0 .. last /\ h \in Height /\ (h \in NewHeights(l) \/ h \in Stored)
      BY <2>2, <2>3, ChainAssumption DEF Stored, NewHeights, Height, NoHeight
    <3>2. CASE h \in NewHeights(l)
      BY <3>1, <3>2, <2>3, <2>5, <1>2
    <3>3. CASE h \notin NewHeights(l)
      BY <3>1, <3>3, <2>5, <1>2 DEF SoleInv, StableAnswersFinal
    <3> QED
      BY <3>2, <3>3
  <2>6. StableAnswersFinal'
    BY <2>2, <2>5 DEF StableAnswersFinal, Known, Final, OnNode, NodeTip, FinalHeight
  <2>7. SoleOK(Continue(y))'
    BY <2>4, ContinueSole
  <2>8. PICK x : x = Continue(y)
    OBVIOUS
  <2> QED
    BY <1>2, <2>1, <2>6, <2>7, <2>8, SoleStoreStep
<1> QED
  BY <1>1, <1>2 DEF CommitBatch

LEMMA NodeSole ==
    ASSUME IInv, SoleInv, NEW b \in Block, NodeMoves(b)
    PROVE  SoleInv'
<1>0. TypeOK /\ NodeOK /\ UNCHANGED <<db, canon, imp>>
  BY DEF IInv, NodeMoves
<1>1. \A c \in Block : Final(c) => Final(c)'
  BY <1>0, FinalKept
<1>2. Stored' = Stored /\ \A h \in Stored : canon[h] \in Block /\ canon'[h] = canon[h]
  BY <1>0, StoredRows DEF Stored
<1>3. StableAnswersFinal'
  BY <1>0, <1>1, <1>2
     DEF SoleInv, StableAnswersFinal, Known, Final, OnNode, NodeTip, FinalHeight
<1>4. ASSUME NEW q \in Importer PROVE SoleOK(imp[q])'
  <2>1. PICK l \in Local : l = imp[q] /\ SoleOK(l) /\ LocalOK(l)
    BY <1>0 DEF SoleInv, IInv, TypeOK
  <2>2. l.pc = "match" => \A h \in 0 .. l.anc : h <= Stable(l) => Final(At(l.seen, h))'
    BY <2>1, <1>1, Ancestors DEF SoleOK, Final, OnNode, NodeTip, FinalHeight
  <2>3. l.pc \in Fetched =>
          \A h \in 0 .. HeightOf(l.batch) : h <= HeightOf(l.pin) => Final(At(l.batch, h))'
    BY <2>1, <1>1, Ancestors
       DEF SoleOK, LocalOK, Local, Final, OnNode, NodeTip, FinalHeight
  <2>4. \A h \in Stored : Final(canon[h]) => Final(canon[h])'
    BY <1>1, <1>2 DEF Final, OnNode, NodeTip, FinalHeight
  <2>5. SoleOK(l)'
    BY <2>1, <2>2, <2>3, <2>4, <1>0, <1>2
       DEF SoleOK, Stable, Final, OnNode, NodeTip, FinalHeight
  <2> QED
    BY <2>1, <2>5, <1>0, <1>2
       DEF SoleOK, Stable, Final, OnNode, NodeTip, FinalHeight
<1> QED
  BY <1>3, <1>4 DEF SoleInv

LEMMA SoleKeeps == Alone /\ IInv /\ SoleInv /\ [Next]_vars => SoleInv'
<1> SUFFICES ASSUME Alone, IInv, SoleInv, [Next]_vars PROVE SoleInv'
  OBVIOUS
<1>1. CASE UNCHANGED vars
  BY <1>1 DEF vars, SoleInv, StableAnswersFinal, SoleOK, Stored, Known, Final, OnNode, NodeTip,
     FinalHeight, Stable
<1>2. ASSUME NEW b \in Block, NodeMoves(b) PROVE SoleInv'
  BY <1>2, NodeSole
<1>3. ASSUME NEW p \in Importer, Fail(p) PROVE SoleInv'
  <2>1. SoleOK(Idle)'
    BY DEF SoleOK, Idle, Searching, Advancing, Fetched
  <2>2. StableAnswersFinal'
    BY <1>3 DEF Fail, SoleInv, StableAnswersFinal, Stored, Known, Final, OnNode, NodeTip, FinalHeight
  <2>3. Becomes(p, Idle)
    BY <1>3 DEF Fail, Abort
  <2> HIDE DEF Idle
  <2> QED
    BY <2>1, <2>2, <2>3, SoleStoreStep
<1>4. ASSUME NEW p \in Importer,
             \/ FollowChainStep(p) \/ Work(p)
             \/ \E s \in Starts, e \in Ends : ImportRange(p, s, e)
      PROVE  SoleInv'
  BY <1>4, ReadsSole, SearchSole, BatchSole, RewindSole, AdvanceSole, InitializeSole,
     CommitSole DEF Work
<1> QED
  BY <1>1, <1>2, <1>3, <1>4 DEF Next

\* While one importer runs alone, whatever the index answers at or below its
\* checkpoint is the block that the node has now and for ever
\* (stable_canonical_hash).
THEOREM StableAnswersAlwaysFinal == ASSUME Alone PROVE Spec => []StableAnswersFinal
<1>1. Init => SoleInv
  BY IdleSole DEF Init, SoleInv, StableAnswersFinal, Stored, Uninitialised
<1>2. IInv /\ SoleInv /\ [Next]_vars => SoleInv'
  BY SoleKeeps
<1>3. SoleInv => StableAnswersFinal
  BY DEF SoleInv
<1> QED
  BY <1>1, <1>2, <1>3, ChainInvariant, PTL DEF Spec

-----------------------------------------------------------------------------
(* Chunks looked up beside the importers: what ChunkAnchors tells is on    *)
(* the chain at that moment.                                               *)

\* What the chain of the node shows at a height it has settled.
LEMMA FinalShown ==
    ASSUME IInv, NEW h \in Nat, h <= FinalHeight
    PROVE  /\ h \in Height /\ h <= NodeTip /\ At(node, h) \in Block /\ HeightOf(At(node, h)) = h
           /\ Final(At(node, h))
<1>1. TypeOK /\ NodeOK /\ NodeTip \in Height /\ peak \in Int
  BY TreeAssumption, ChainAssumption DEF IInv, TypeOK, NodeTip, Height
<1>2. h <= NodeTip /\ h \in Height
  BY <1>1, ChainAssumption DEF NodeOK, FinalHeight, Height
<1> QED
  BY <1>1, <1>2, Shown

\* It is settled for good.
LEMMA StillShown ==
    ASSUME IInv, [Next]_vars, NEW h \in Nat, h <= FinalHeight
    PROVE  h <= FinalHeight' /\ At(node', h) = At(node, h)
<1>1. CASE UNCHANGED <<node, peak>>
  BY <1>1 DEF FinalHeight
<1>2. ASSUME NEW b \in Block, NodeMoves(b) PROVE h <= FinalHeight' /\ At(node', h) = At(node, h)
  <2>1. PICK c \in Block : c = At(node, h) /\ HeightOf(c) = h /\ Final(c)
    BY FinalShown
  <2>2. Final(c)'
    BY SMTT(45), <1>2, <2>1, FinalKept DEF IInv
  <2> QED
    BY <2>1, <2>2 DEF Final, OnNode
<1>3. UNCHANGED <<node, peak>> \/ \E b \in Block : NodeMoves(b)
  BY ZenonT(60) DEF Next, Work, FollowChainStep, ImportRange, FollowEnd, ReadState, ReadInfo,
     ReadTip, VerifyPin, WalkRemote, WalkStored, VerifyTip, ReadNext, VerifyNext, ReadSeed,
     VerifyBatchPin, FetchBatch, VerifyBatch, Fail, ReadOnly, Rewind, AdvanceCheckpoint,
     Initialize, CommitBatch, vars
<1> QED
  BY <1>1, <1>2, <1>3

\* What a retrieval knows is not undone by the chain.
LEMMA WorkStays ==
    ASSUME IInv, [Next]_vars, NEW o \in Offset, NEW w, WorkOK(o, w)
    PROVE  WorkOK(o, w)'
<1>1. FinalHeight \in Int /\ FinalHeight' \in Int /\ FinalHeight <= FinalHeight'
  <2>1. IInv'
    BY NextKeeps
  <2>2. peak \in Int /\ peak' \in Int /\ ConsensusDepth \in Int
    BY <2>1, ChainAssumption DEF IInv, TypeOK, Height
  <2>3. \A a, b \in Int : a - b \in Int
    OBVIOUS
  <2>4. peak' >= peak
    <3>1. CASE \E b \in Block : NodeMoves(b)
      BY <2>2, <3>1, TreeAssumption, ChainAssumption DEF NodeMoves, Height
    <3>2. CASE UNCHANGED peak
      BY <2>2, <3>2
    <3>3. UNCHANGED peak \/ \E b \in Block : NodeMoves(b)
      BY DEF Next, Work, FollowChainStep, ImportRange, FollowEnd, ReadState, ReadInfo,
         ReadTip, VerifyPin, WalkRemote, WalkStored, VerifyTip, ReadNext, VerifyNext, ReadSeed,
         VerifyBatchPin, FetchBatch, VerifyBatch, Fail, ReadOnly, Rewind, AdvanceCheckpoint,
         Initialize, CommitBatch, vars
    <3> QED
      BY <3>1, <3>2, <3>3
  <2>5. \A a, b, c \in Int : b >= a => a - c <= b - c
    OBVIOUS
  <2>6. FinalHeight = peak - ConsensusDepth /\ FinalHeight' = peak' - ConsensusDepth
    BY DEF FinalHeight
  <2> QED
    BY <2>2, <2>3, <2>4, <2>5, <2>6
<1>2. ASSUME w.at = "top" PROVE w.stable \in Nat /\ w.stable <= FinalHeight'
  <2>1. FinalHeight \in Int /\ FinalHeight' \in Int /\ FinalHeight <= FinalHeight'
    BY <1>1
  <2>2. w.stable \in Nat /\ w.stable <= FinalHeight
    BY <1>2 DEF WorkOK
  <2> QED
    BY <2>1, <2>2
<1>3. ASSUME w.at = "search" PROVE Bracketed(o, w)'
  <2>1. Bracketed(o, w)
    BY <1>3 DEF WorkOK
  <2>2. w.low \in Nat /\ w.high \in Nat /\ w.low <= w.high /\ w.high <= FinalHeight
    BY <2>1 DEF Bracketed
  <2>3. w.high <= FinalHeight' /\ At(node', w.high) = At(node, w.high)
    BY <2>2, StillShown
  <2>4. w.low > 0 => At(node', w.low - 1) = At(node, w.low - 1)
    <3>1. w.low > 0 => w.low - 1 \in Nat /\ w.low - 1 <= FinalHeight
      BY <2>2, <1>1
    <3> QED
      BY <3>1, StillShown
  <2> QED
    BY <2>1, <2>3, <2>4 DEF Bracketed
<1> QED
  BY <1>2, <1>3 DEF WorkOK, Lent

LEMMA StepsOfTheIndex ==
    ASSUME IInv, AnchorsInv, [Next]_vars, UNCHANGED anchoring
    PROVE  AnchorsInv'
<1>1. ASSUME NEW o \in Offset PROVE WorkOK(o, work[o])'
  <2>1. PICK w : w = work[o]
    OBVIOUS
  <2>2. WorkOK(o, w)'
    BY <2>1, WorkStays DEF AnchorsInv
  <2> QED
    BY <2>1, <2>2 DEF anchoring
<1> QED
  BY <1>1 DEF AnchorsInv, anchoring, Entry

-----------------------------------------------------------------------------
(* The memory.                                                             *)

LEMMA OthersKept ==
    ASSUME AnchorsInv, NEW o
    PROVE  Others(o) \in Seq(Entry) /\ (InMemory(o) => memory[PlaceOf(o)] \in Entry
                                                       /\ memory[PlaceOf(o)].offset = o)
<1>1. memory \in Seq(Entry)
  BY DEF AnchorsInv
<1>2. ASSUME InMemory(o) PROVE PlaceOf(o) \in 1 .. Len(memory) /\ memory[PlaceOf(o)].offset = o
  BY <1>1, <1>2 DEF InMemory, PlaceOf
<1>3. ASSUME NEW i \in 1 .. Len(memory) PROVE RemoveAt(memory, i) \in Seq(Entry) /\ memory[i] \in Entry
  BY <1>1, <1>3 DEF RemoveAt
<1> QED
  BY <1>1, <1>2, <1>3 DEF Others

LEMMA EntryAdded ==
    ASSUME AnchorsInv, NEW o, NEW e \in Entry
    PROVE  LET all == Append(Others(o), e)
           IN  all \in Seq(Entry) /\ Tail(all) \in Seq(Entry)
<1>1. PICK s \in Seq(Entry) : s = Others(o)
  BY OthersKept
<1>2. Append(s, e) \in Seq(Entry) /\ Append(s, e) # << >>
  BY <1>1
<1>3. Tail(Append(s, e)) \in Seq(Entry)
  BY <1>2
<1> QED
  BY <1>1, <1>2, <1>3

\* Geometries.
LEMMA Geometries ==
    ASSUME NEW b \in Block
    PROVE  /\ Geometry(b).weave = WeaveOf(b) /\ Geometry(b).before = Before(b)
           /\ Geometry(b).weave \in Nat /\ Geometry(b).before \in Nat
           /\ HeightOf(b) # 0 => At(b, HeightOf(b) - 1) \in Block
<1>1. HeightOf(b) # 0 => At(b, HeightOf(b) - 1) \in Block
  BY TreeAssumption, ChainAssumption DEF Height
<1> QED
  BY <1>1, AnchorsAssumption DEF Geometry, Before

-----------------------------------------------------------------------------
(* Steps of one retrieval.                                                 *)

Truly ==
    \A c \in Asker : asking'[c].at = "told" /\ asking'[c] # asking[c] =>
         /\ asking'[c].answer # Inconsistent
         /\ asking'[c].answer.at = "chunk" => OnChain(asking'[c].offset, asking'[c].answer.geometry)

LEMMA WorkFrame ==
    ASSUME UNCHANGED vars, NEW o, NEW w, WorkOK(o, w)
    PROVE  WorkOK(o, w)'
BY DEF vars, WorkOK, Bracketed, FinalHeight, Lent

LEMMA WorkMoves ==
    ASSUME AnchorsInv, UNCHANGED vars, NEW o \in Offset, NEW w, WorkOK(o, w),
           work' = [work EXCEPT ![o] = w], memory' \in Seq(Entry),
           asking' = [c \in Asker |-> asking'[c]]
    PROVE  AnchorsInv'
<1>1. ASSUME NEW x \in Offset PROVE WorkOK(x, work[x])'
  <2>1. PICK v : v = work'[x]
    OBVIOUS
  <2>2. WorkOK(x, v)
    BY <2>1 DEF AnchorsInv
  <2> QED
    BY <2>1, <2>2, WorkFrame
<1>2. work' = [x \in Offset |-> work'[x]]
  BY DEF AnchorsInv
<1> QED
  BY <1>1, <1>2 DEF AnchorsInv, Entry

LEMMA GoesStep ==
    ASSUME AnchorsInv, UNCHANGED vars, NEW o \in Offset, NEW w, WorkOK(o, w), Goes(o, w),
           memory' \in Seq(Entry)
    PROVE  AnchorsInv' /\ Truly
<1>1. asking' = [c \in Asker |-> asking'[c]] /\ work' = [work EXCEPT ![o] = w] /\ asking' = asking
  BY DEF Goes, AnchorsInv
<1> QED
  BY <1>1, WorkMoves DEF Truly

LEMMA TellStep ==
    ASSUME AnchorsInv, UNCHANGED vars, NEW o \in Offset, NEW a, a # Inconsistent,
           a.at = "chunk" => OnChain(o, a.geometry), Tell(o, a), memory' \in Seq(Entry)
    PROVE  AnchorsInv' /\ Truly
<1>1. work' = [work EXCEPT ![o] = Quiet] /\ WorkOK(o, Quiet)
  BY DEF Tell, WorkOK, Quiet
<1>2. AnchorsInv'
  <2>1. asking' = [c \in Asker |-> asking'[c]]
    BY DEF Tell
  <2> QED
    BY <1>1, <2>1, WorkMoves
<1>3. Truly
  BY DEF Truly, Tell
<1> QED
  BY <1>2, <1>3

\* What is compared with the chain is told only when it is on it.
LEMMA SettleStep ==
    ASSUME IInv, AnchorsInv, UNCHANGED vars, NEW o \in Offset, NEW b \in Block, Settle(o, b),
           work[o].at \in {"hit", "near", "fetched"},
           Same(o, b) => OnChain(o, work[o].geometry)
    PROVE  AnchorsInv' /\ Truly
<1>0. WorkOK(o, work[o]) /\ Lent(o, work[o]) /\ memory \in Seq(Entry)
  BY DEF AnchorsInv, WorkOK
<1>1. PICK w : w = work[o]
  OBVIOUS
<1>2. PICK e : e = [offset |-> o, geometry |-> w.geometry, height |-> w.height]
  OBVIOUS
<1>3. e \in Entry
  BY <1>0, <1>1, <1>2 DEF Lent, Entry
<1>4. Chunk(o) # Inconsistent /\ Chunk(o).geometry = w.geometry /\ Error # Inconsistent
      /\ Error.at # "chunk"
  BY <1>1 DEF Chunk, Inconsistent, Error
<1>5. WorkOK(o, [at |-> "nearby"]) /\ WorkOK(o, [at |-> "anchor"])
  BY DEF WorkOK
<1>6. CASE w.at = "hit" /\ Same(o, b)
  BY <1>0, <1>1, <1>4, <1>6, TellStep DEF Settle
<1>7. CASE w.at = "hit" /\ ~Same(o, b)
  BY <1>1, <1>5, <1>7, GoesStep, OthersKept DEF Settle
<1>8. CASE w.at = "near"
  <2>1. CASE Same(o, b)
    <3>1. PICK v : v = [w EXCEPT !.at = "fetch"]
      OBVIOUS
    <3>2. Goes(o, v) /\ UNCHANGED memory
      BY <1>1, <1>8, <2>1, <3>1 DEF Settle
    <3>3. v = [at |-> "fetch", ask |-> w.ask, geometry |-> w.geometry, height |-> w.height]
      BY <1>0, <1>1, <1>8, <3>1 DEF WorkOK
    <3>4. WorkOK(o, v)
      BY <1>0, <1>1, <1>8, <3>3 DEF WorkOK, Lent
    <3> QED
      BY <1>0, <3>2, <3>4, GoesStep
  <2>2. CASE ~Same(o, b)
    BY <1>0, <1>1, <1>5, <1>8, <2>2, GoesStep DEF Settle
  <2> QED
    BY <2>1, <2>2
<1>9. CASE w.at = "fetched"
  <2>1. CASE Same(o, b)
    <3>1. Tell(o, Chunk(o))
      BY <1>1, <1>9, <2>1 DEF Settle
    <3>2. memory' = LET all == Append(Others(o), e)
                    IN  IF Len(all) > MaxEntries THEN Tail(all) ELSE all
      BY <1>1, <1>2, <1>9, <2>1 DEF Settle
    <3>3. memory' \in Seq(Entry)
      BY <1>3, <3>2, EntryAdded
    <3> QED
      BY <1>1, <1>4, <2>1, <3>1, <3>3, TellStep
  <2>2. CASE ~Same(o, b)
    BY <1>0, <1>1, <1>4, <1>9, <2>2, TellStep DEF Settle
  <2> QED
    BY <2>1, <2>2
<1> QED
  BY <1>1, <1>6, <1>7, <1>8, <1>9

LEMMA CompareStep ==
    ASSUME IInv, AnchorsInv, UNCHANGED vars, NEW o \in Offset, Compare(o)
    PROVE  AnchorsInv' /\ Truly
<1>0. PICK h : h = work[o].height
  OBVIOUS
<1>1. /\ work[o].at \in {"hit", "near", "fetched"} /\ h \in Height /\ h \in Nat
      /\ Lent(o, work[o]) /\ WorkOK(o, work[o]) /\ memory \in Seq(Entry) /\ TypeOK
  BY <1>0 DEF Compare, AnchorsInv, WorkOK, Lent, Height, IInv
<1>2. CASE work[o].ask = "index" /\ Pair(h)
  <2>1. PICK b \in Block : b = canon[h]
    BY <1>1, <1>2 DEF TypeOK, Pair
  <2>2. Same(o, b) => OnChain(o, work[o].geometry)
    BY <1>1, <1>2, <2>1 DEF Same, OnChain, Holding, Lent
  <2> QED
    BY <1>0, <1>1, <1>2, <2>1, <2>2, SettleStep DEF Compare
<1>3. CASE work[o].ask = "index" /\ ~Pair(h)
  <2>1. PICK v : v = [work[o] EXCEPT !.ask = "node"]
    OBVIOUS
  <2>2. WorkOK(o, v)
    BY <1>1, <2>1 DEF WorkOK, Lent
  <2>3. Goes(o, v) /\ UNCHANGED memory
    BY <1>0, <1>3, <2>1 DEF Compare
  <2> QED
    BY <1>1, <2>2, <2>3, GoesStep
<1>4. CASE work[o].ask = "node" /\ NodeTip < h
  <2>1. NodeTip \in Int /\ h \in Int
    BY <1>1, TreeAssumption DEF TypeOK, NodeTip, Height
  <2>2. ~(NodeTip >= h)
    BY <1>4, <2>1
  <2>3. Tell(o, Error) /\ UNCHANGED memory
    BY <1>0, <1>4, <2>2 DEF Compare
  <2> QED
    BY <1>1, <2>3, TellStep DEF Error, Inconsistent
<1>5. CASE work[o].ask = "node" /\ ~(NodeTip < h)
  <2>1. NodeTip \in Nat /\ h \in 0 .. NodeTip
    BY <1>1, <1>5, TreeAssumption DEF TypeOK, NodeTip, Height
  <2>2. PICK b \in Block : b = At(node, h)
    BY <2>1, TreeAssumption DEF TypeOK, NodeTip, IInv
  <2>3. Same(o, b) => OnChain(o, work[o].geometry)
    BY <1>1, <2>1, <2>2 DEF Same, OnChain, Lent
  <2>4. Settle(o, b)
    BY <1>0, <1>5, <2>2 DEF Compare
  <2> QED
    BY <1>1, <2>3, <2>4, SettleStep
<1> QED
  BY <1>1, <1>2, <1>3, <1>4, <1>5 DEF WorkOK

\* From the memory.
LEMMA MemoryStep ==
    ASSUME AnchorsInv, UNCHANGED vars, NEW o \in Offset, Look(o) \/ FindNearby(o)
    PROVE  AnchorsInv' /\ Truly
<1>0. memory \in Seq(Entry)
  BY DEF AnchorsInv
<1>1. ASSUME NEW at \in {"hit", "near", "fetch"}, NEW e \in Entry, Covers(e.geometry, o), NEW w,
             w = [at |-> at, ask |-> "index", geometry |-> e.geometry, height |-> e.height]
      PROVE  WorkOK(o, w)
  BY <1>1 DEF WorkOK, Lent, Entry
<1>2. CASE Look(o) /\ InMemory(o)
  <2>1. PICK e \in Entry : e = memory[PlaceOf(o)] /\ e.offset = o
    BY <1>2, OthersKept
  <2>2. PICK w : w = [at |-> "hit", ask |-> "index", geometry |-> e.geometry, height |-> e.height]
    OBVIOUS
  <2>3. WorkOK(o, w)
    BY <1>1, <2>1, <2>2 DEF Entry
  <2>4. Goes(o, w) /\ memory' = Append(Others(o), e)
    BY <1>2, <2>1, <2>2 DEF Look, With
  <2> QED
    BY <2>3, <2>4, GoesStep, EntryAdded
<1>3. WorkOK(o, [at |-> "nearby"]) /\ WorkOK(o, [at |-> "anchor"])
  BY DEF WorkOK
<1>4. CASE Look(o) /\ ~InMemory(o)
  BY <1>0, <1>3, <1>4, GoesStep DEF Look
<1>5. CASE FindNearby(o) /\ \A i \in DOMAIN memory : ~Covers(memory[i].geometry, o)
  BY <1>0, <1>3, <1>5, GoesStep DEF FindNearby
<1>6. CASE FindNearby(o) /\ \E i \in DOMAIN memory : Covers(memory[i].geometry, o)
  <2>1. PICK i \in DOMAIN memory : /\ Covers(memory[i].geometry, o)
                                   /\ With(o, "near", memory[i].geometry, memory[i].height)
    BY <1>6 DEF FindNearby
  <2>2. PICK e \in Entry : e = memory[i]
    BY <1>0, <2>1
  <2>3. PICK w : w = [at |-> "near", ask |-> "index", geometry |-> e.geometry, height |-> e.height]
    OBVIOUS
  <2>4. WorkOK(o, w)
    BY <1>1, <2>1, <2>2, <2>3
  <2>5. Goes(o, w) /\ UNCHANGED memory
    BY <1>6, <2>1, <2>2, <2>3 DEF FindNearby, With
  <2> QED
    BY <1>0, <2>4, <2>5, GoesStep
<1> QED
  BY <1>2, <1>4, <1>5, <1>6

\* From the sources and from what fails.
LEMMA FetchStep ==
    ASSUME AnchorsInv, UNCHANGED vars, NEW o \in Offset, Fetch(o) \/ RetrievalFails(o)
    PROVE  AnchorsInv' /\ Truly
<1>0. memory \in Seq(Entry) /\ WorkOK(o, work[o])
  BY DEF AnchorsInv
<1>1. CASE Tell(o, Missing) \/ Tell(o, Error)
  <2>1. UNCHANGED memory
    BY DEF Fetch, RetrievalFails
  <2> QED
    BY <1>0, <1>1, <2>1, TellStep DEF Missing, Error, Inconsistent
<1>2. CASE Fetch(o) /\ ~Tell(o, Missing)
  <2>1. PICK v : v = [work[o] EXCEPT !.at = "fetched", !.ask = "index"]
    OBVIOUS
  <2>2. WorkOK(o, v)
    BY <1>0, <1>2, <2>1 DEF WorkOK, Lent, Fetch
  <2>3. Goes(o, v) /\ UNCHANGED memory
    BY <1>2, <2>1 DEF Fetch
  <2> QED
    BY <1>0, <2>2, <2>3, GoesStep
<1> QED
  BY <1>1, <1>2 DEF RetrievalFails

-----------------------------------------------------------------------------
(* The search.                                                             *)

LEMMA StoredStep ==
    ASSUME IInv, AnchorsInv, UNCHANGED vars, NEW o \in Offset, FindStored(o)
    PROVE  AnchorsInv' /\ Truly
<1>0. memory \in Seq(Entry) /\ UNCHANGED memory /\ o \in Nat
  BY AnchorsAssumption DEF AnchorsInv, FindStored
<1>1. CASE o = 0
  BY <1>0, <1>1, TellStep DEF FindStored, Missing, Inconsistent
<1>2. CASE o # 0 /\ Holding(o) # {}
  <2>1. PICK h \in Holding(o) : With(o, "fetch", Geometry(canon[h]), h)
    BY <1>2 DEF FindStored
  <2>2. h \in Height /\ canon[h] \in Block /\ Covers(Geometry(canon[h]), o)
    BY <2>1 DEF Holding, Pair, IInv, TypeOK
  <2>3. PICK w : w = [at |-> "fetch", ask |-> "index", geometry |-> Geometry(canon[h]), height |-> h]
    OBVIOUS
  <2>4. WorkOK(o, w)
    BY <2>2, <2>3 DEF WorkOK, Lent
  <2> QED
    BY <1>0, <2>1, <2>3, <2>4, GoesStep DEF With
<1>3. CASE o # 0 /\ Holding(o) = {}
  <2>1. WorkOK(o, [at |-> "info"])
    BY <1>0, <1>3 DEF WorkOK
  <2> QED
    BY <1>0, <1>3, <2>1, GoesStep DEF FindStored
<1> QED
  BY <1>1, <1>2, <1>3

\* The greatest height the node has shown is settled but for its last blocks.
LEMMA TopSettled ==
    ASSUME IInv, NEW stable, NodeTip >= ConsensusDepth, stable = NodeTip - ConsensusDepth
    PROVE  stable \in Nat /\ stable <= FinalHeight
<1>1. NodeTip \in Int /\ peak \in Int /\ ConsensusDepth \in Nat /\ NodeTip <= peak
  BY TreeAssumption, ChainAssumption DEF IInv, TypeOK, NodeTip, Height
<1> QED
  BY <1>1 DEF FinalHeight

LEMMA StableStep ==
    ASSUME IInv, AnchorsInv, UNCHANGED vars, NEW o \in Offset, ReadStable(o)
    PROVE  AnchorsInv' /\ Truly
<1>0. memory \in Seq(Entry) /\ UNCHANGED memory /\ work[o].at = "info" /\ o > 0
  BY DEF AnchorsInv, WorkOK, ReadStable
<1>1. NodeTip \in Int /\ ConsensusDepth \in Int
  BY TreeAssumption, ChainAssumption DEF IInv, TypeOK, NodeTip, Height
<1>2. CASE NodeTip < ConsensusDepth
  BY <1>0, <1>2, TellStep DEF ReadStable, Missing, Inconsistent
<1>3. CASE ~(NodeTip < ConsensusDepth)
  <2>1. PICK stable : stable = NodeTip - ConsensusDepth
    OBVIOUS
  <2>2. stable \in Nat /\ stable <= FinalHeight
    BY <1>1, <1>3, <2>1, TopSettled
  <2>3. WorkOK(o, [at |-> "top", stable |-> stable])
    BY <1>0, <2>2 DEF WorkOK
  <2> QED
    BY <1>0, <1>3, <2>1, <2>3, GoesStep DEF ReadStable
<1> QED
  BY <1>2, <1>3

LEMMA TopStep ==
    ASSUME IInv, AnchorsInv, UNCHANGED vars, NEW o \in Offset, ReadTop(o)
    PROVE  AnchorsInv' /\ Truly
<1>0. memory \in Seq(Entry) /\ UNCHANGED memory /\ work[o].at = "top" /\ o > 0
  BY DEF AnchorsInv, WorkOK, ReadTop
<1>1. PICK stable \in Nat : stable = work[o].stable /\ stable <= FinalHeight
  BY <1>0 DEF AnchorsInv, WorkOK
<1>2. CASE NodeTip < stable
  BY <1>0, <1>1, <1>2, TellStep DEF ReadTop, Error, Inconsistent
<1>3. CASE ~(NodeTip < stable) /\ o > WeaveOf(At(node, stable))
  BY <1>0, <1>1, <1>3, TellStep DEF ReadTop, Missing, Inconsistent
<1>4. CASE ~(NodeTip < stable) /\ ~(o > WeaveOf(At(node, stable)))
  <2>1. At(node, stable) \in Block
    BY <1>1, FinalShown
  <2>2. o <= WeaveOf(At(node, stable))
    BY <1>4, <2>1, AnchorsAssumption
  <2>3. PICK w : w = [at |-> "search", low |-> 0, high |-> stable]
    OBVIOUS
  <2>4. WorkOK(o, w)
    BY <1>0, <1>1, <2>2, <2>3 DEF WorkOK, Bracketed
  <2> QED
    BY <1>0, <1>1, <1>4, <2>3, <2>4, GoesStep DEF ReadTop
<1> QED
  BY <1>2, <1>3, <1>4

\* What a search knows, and that the node shows what it asks for.
LEMMA SearchFacts ==
    ASSUME AnchorsInv, NEW o \in Offset, NEW w, w = work[o], w.at = "search"
    PROVE  /\ w = [at |-> "search", low |-> w.low, high |-> w.high] /\ Bracketed(o, w)
           /\ w.low \in Nat /\ w.high \in Nat /\ w.low <= w.high /\ o > 0
BY DEF AnchorsInv, WorkOK, Bracketed

LEMMA SearchShown ==
    ASSUME IInv, NEW o \in Offset, NEW w, Bracketed(o, w), NEW h \in Nat, h <= w.high
    PROVE  /\ h <= FinalHeight /\ h \in Height /\ ~(NodeTip < h)
           /\ At(node, h) \in Block /\ HeightOf(At(node, h)) = h /\ WeaveOf(At(node, h)) \in Nat
<1>1. FinalHeight \in Int /\ NodeTip \in Int
  BY TreeAssumption, ChainAssumption DEF IInv, TypeOK, NodeTip, FinalHeight, Height
<1>2. h <= FinalHeight
  BY <1>1 DEF Bracketed
<1> QED
  BY <1>1, <1>2, FinalShown, AnchorsAssumption

LEMMA SearchStep ==
    ASSUME IInv, AnchorsInv, UNCHANGED vars, NEW o \in Offset, Search(o)
    PROVE  AnchorsInv' /\ Truly
<1>0. memory \in Seq(Entry) /\ UNCHANGED memory /\ work[o].at = "search" /\ o \in Nat
  BY AnchorsAssumption DEF AnchorsInv, Search
<1>1. PICK w : w = work[o]
  OBVIOUS
<1>2. /\ w = [at |-> "search", low |-> w.low, high |-> w.high] /\ Bracketed(o, w)
      /\ w.low \in Nat /\ w.high \in Nat /\ w.low < w.high /\ o > 0
  BY <1>0, <1>1, SearchFacts DEF Search
<1>3. PICK mid : mid = w.low + (w.high - w.low) \div 2
  OBVIOUS
<1>4. mid \in Nat /\ w.low <= mid /\ mid < w.high
  BY <1>2, <1>3
<1>5. /\ mid <= FinalHeight /\ ~(NodeTip < mid) /\ At(node, mid) \in Block /\ WeaveOf(At(node, mid)) \in Nat
  BY <1>2, <1>4, SearchShown
<1>6. CASE o <= WeaveOf(At(node, mid))
  <2>1. PICK v : v = [at |-> "search", low |-> w.low, high |-> mid]
    OBVIOUS
  <2>2. v = [w EXCEPT !.high = mid]
    BY <1>2, <2>1
  <2>3. WorkOK(o, v)
    BY <1>2, <1>4, <1>5, <1>6, <2>1 DEF WorkOK, Bracketed
  <2> QED
    BY <1>0, <1>1, <1>3, <1>5, <1>6, <2>2, <2>3, GoesStep DEF Search
<1>7. CASE ~(o <= WeaveOf(At(node, mid)))
  <2>1. PICK v : v = [at |-> "search", low |-> mid + 1, high |-> w.high]
    OBVIOUS
  <2>2. v = [w EXCEPT !.low = mid + 1]
    BY <1>2, <2>1
  <2>3. v.low - 1 = mid /\ v.low \in Nat /\ v.low <= v.high /\ v.high = w.high /\ WeaveOf(At(node, mid)) < o
    BY <1>0, <1>2, <1>4, <1>5, <1>7, <2>1
  <2>4. WorkOK(o, v)
    BY <1>2, <2>1, <2>3 DEF WorkOK, Bracketed
  <2> QED
    BY <1>0, <1>1, <1>3, <1>5, <1>7, <2>2, <2>4, GoesStep DEF Search
<1> QED
  BY <1>6, <1>7

\* The search ends at the block that holds the offset.
LEMMA AnchorStep ==
    ASSUME IInv, AnchorsInv, UNCHANGED vars, NEW o \in Offset, ReadAnchor(o)
    PROVE  AnchorsInv' /\ Truly
<1>0. memory \in Seq(Entry) /\ UNCHANGED memory /\ work[o].at = "search" /\ o \in Nat
  BY AnchorsAssumption DEF AnchorsInv, ReadAnchor
<1>1. PICK w : w = work[o]
  OBVIOUS
<1>2. /\ w.low = w.high /\ w.low \in Nat /\ Bracketed(o, w) /\ w.low \in Height /\ ~(NodeTip < w.low)
      /\ At(node, w.low) \in Block /\ HeightOf(At(node, w.low)) = w.low /\ o > 0
  <2>1. w.low = w.high
    BY <1>0, <1>1 DEF ReadAnchor
  <2>2. Bracketed(o, w) /\ w.low \in Nat /\ o > 0 /\ w.low <= w.high
    BY <1>0, <1>1, SearchFacts
  <2>3. w.low \in Height /\ ~(NodeTip < w.low) /\ At(node, w.low) \in Block /\ HeightOf(At(node, w.low)) = w.low
    BY <2>1, <2>2, SearchShown
  <2> QED
    BY <2>1, <2>2, <2>3
<1>3. PICK b \in Block : b = At(node, w.low)
  BY <1>2
<1>4. Before(b) < o
  <2>1. CASE w.low = 0
    BY <1>2, <1>3, <2>1 DEF Before
  <2>2. CASE w.low # 0
    <3>1. /\ node \in Block /\ HeightOf(node) \in Nat /\ w.low \in 0 .. HeightOf(node)
          /\ w.low - 1 \in 0 .. w.low
      BY <1>2, <2>2, TreeAssumption DEF IInv, TypeOK, NodeTip, Height
    <3>2. At(b, w.low - 1) = At(node, w.low - 1)
      BY <1>3, <3>1, TreeAssumption
    <3> QED
      BY <1>2, <1>3, <2>2, <3>2 DEF Bracketed, Before
  <2> QED
    BY <2>1, <2>2
<1>5. Covers(Geometry(b), o)
  BY <1>2, <1>3, <1>4, Geometries DEF Covers, Bracketed
<1>6. PICK v : v = [at |-> "fetch", ask |-> "index", geometry |-> Geometry(b), height |-> w.low]
  OBVIOUS
<1>7. WorkOK(o, v)
  BY <1>2, <1>5, <1>6 DEF WorkOK, Lent
<1>8. Goes(o, v)
  BY <1>1, <1>2, <1>3, <1>5, <1>6 DEF ReadAnchor, With
<1> QED
  BY <1>0, <1>7, <1>8, GoesStep

-----------------------------------------------------------------------------
(* Callers, and all together.                                              *)

LEMMA CallerStep ==
    ASSUME AnchorsInv, UNCHANGED vars, NEW c \in Asker,
           LeaveChunk(c) \/ \E o \in Offset : AskChunk(c, o)
    PROVE  AnchorsInv' /\ Truly
<1>1. memory' \in Seq(Entry) /\ asking' = [d \in Asker |-> asking'[d]]
  BY DEF AnchorsInv, LeaveChunk, AskChunk
<1>2. Truly
  BY DEF Truly, LeaveChunk, AskChunk, Quiet, AnchorsInv
<1>3. \A o \in Offset : WorkOK(o, Quiet) /\ WorkOK(o, [at |-> "look"])
  BY DEF WorkOK, Quiet
<1>4. \E o : \E w \in {Quiet, [at |-> "look"]} : work' \in {work, [work EXCEPT ![o] = w]}
  BY DEF LeaveChunk, AskChunk
<1>5. work' = [o \in Offset |-> work'[o]] /\ \A o \in Offset : work'[o] \in {work[o], Quiet, [at |-> "look"]}
  BY <1>4 DEF AnchorsInv
<1>6. ASSUME NEW o \in Offset PROVE WorkOK(o, work[o])'
  <2>1. PICK w : w = work'[o]
    OBVIOUS
  <2>2. WorkOK(o, w)
    BY <1>3, <1>5, <2>1 DEF AnchorsInv
  <2> QED
    BY <2>1, <2>2, WorkFrame
<1> QED
  BY <1>1, <1>2, <1>5, <1>6 DEF AnchorsInv, Entry

LEMMA AnchorsKeep ==
    ASSUME IInv, AnchorsInv, AnchorsNext, UNCHANGED vars
    PROVE  AnchorsInv' /\ Truly
BY CallerStep, MemoryStep, CompareStep, FetchStep, StoredStep, StableStep, TopStep, SearchStep,
   AnchorStep DEF AnchorsNext, Retrieving

LEMMA AnchorsStart == AnchorsInit => AnchorsInv
BY DEF AnchorsInit, AnchorsInv, WorkOK, Quiet

\* A chunk is told only from the block that holds its offset at that moment,
\* and the search on the node never ends beside it.
THEOREM ChunksAlwaysCurrent == AnchorsSpec => ChunkCurrent
<1>1. Init /\ AnchorsInit => IInv /\ AnchorsInv
  BY InitKeeps, AnchorsStart
<1>2. ASSUME IInv, AnchorsInv, [AnchorsStep]_<<vars, anchoring>>
      PROVE  IInv' /\ AnchorsInv' /\ [Truly]_anchoring
  <2>1. CASE [Next]_vars /\ UNCHANGED anchoring
    BY <1>2, <2>1, NextKeeps, StepsOfTheIndex
  <2>2. CASE AnchorsNext /\ UNCHANGED vars
    BY <1>2, <2>2, NextKeeps, AnchorsKeep
  <2> QED
    BY <1>2, <2>1, <2>2 DEF AnchorsStep
<1> QED
  BY <1>1, <1>2, PTL DEF AnchorsSpec, ChunkCurrent, Truly
=============================================================================
