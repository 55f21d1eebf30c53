------------------------------- MODULE MCReads -------------------------------
(***************************************************************************)
(* What is read from the gateway's own stores: content from the cache on   *)
(* disk, chunks by the proofs kept with them, objects from the index       *)
(* through GraphQL, and the fingerprints that its queries rely on.  The    *)
(* parts share no variable, so a behaviour moves one of them, the focus,   *)
(* and their states add up.                                                *)
(***************************************************************************)
EXTENDS DiskCache, ChunkProof, FilterIndex, GraphqlPages, TLC

\* One blob of one byte, two publishers and one reader.
MCBytes == [b \in Blob |-> 1]

\* A bundle and its two items, which a reorg may move together and which
\* differ in nothing but their ids, and a transaction.
At(h, p) == [height |-> h, position |-> p, kind |-> 0, parent |-> 0]
ItemAt(h) == [height |-> h, position |-> 0, kind |-> 1, parent |-> 1]
MCSpots ==
    1 :> {At(1, 0), At(2, 0)} @@ 2 :> {ItemAt(1), ItemAt(2)} @@ 3 :> {ItemAt(1), ItemAt(2)}
    @@ 4 :> {At(2, 1)}
MCOf ==
    1 :> [owner |-> "o1", recipient |-> "", tags |-> {}]
    @@ 2 :> [owner |-> "o2", recipient |-> "t1", tags |-> {<<"n", "v">>, <<"m", "v">>}]
    @@ 3 :> [owner |-> "o2", recipient |-> "t1", tags |-> {<<"n", "v">>}]
    @@ 4 :> [owner |-> "o1", recipient |-> "t2", tags |-> {<<"n", "w">>, <<"m", "v">>}]
MCPublicKey == "o1" :> "k1" @@ "o2" :> "k2"

\* One listing for each shape of the query and each filter.
All == [of |-> "transactions", ids |-> {}, owners |-> {}, recipients |-> << >>,
        bundledIn |-> "any", bundles |-> {}, tags |-> << >>, min |-> -1, max |-> -1,
        first |-> 1, sort |-> "desc"]
Tag(n, V) == [name |-> n, values |-> V]
MCListings == {
    All,
    [All EXCEPT !.sort = "asc", !.first = 2],
    [All EXCEPT !.owners = {"o1", "k1", "k2"}, !.sort = "asc"],
    [All EXCEPT !.owners = {"k2"}, !.recipients = <<"t1">>],
    [All EXCEPT !.recipients = <<"t1", "", "t1">>],
    [All EXCEPT !.bundledIn = "these", !.bundles = {1}, !.min = 2],
    [All EXCEPT !.bundledIn = "null", !.max = 1],
    [All EXCEPT !.tags = <<Tag("n", {"v", "w"}), Tag("m", {"v"})>>],
    [All EXCEPT !.tags = <<Tag("n", {"v"})>>],
    [All EXCEPT !.ids = {2, 3}, !.recipients = <<"t1", "t1">>],
    [All EXCEPT !.of = "blocks"]}

\* Paths of up to two branches, and of a rebase and a branch; transactions
\* that begin with the block, end with it, or do neither.
Branch == [note : 0 .. BlockSize - 1, sides : {{"left"}, {"right"}, {"left", "right"}}]
UpTo(n) == UNION {[1 .. k -> Branch] : k \in 0 .. n}
MCDataPath ==
    [rebases : UpTo(0), branches : UpTo(2), leaf : 0 .. BlockSize]
    \cup [rebases : UpTo(1), branches : UpTo(1), leaf : 0 .. BlockSize]
MCTxPath ==
    [branches : {<< >>}, leaf : {3, BlockSize}]
    \cup [branches : {<<[note |-> 1, sides |-> s]>> : s \in {{"left"}, {"right"}}},
          leaf : {1, BlockSize}]

VARIABLE focus
reads == <<focus, diskVars, chunk, filters, pages>>

OfCache(A) == focus = "cache" /\ A /\ UNCHANGED <<chunk, filters, pages>>
OfProofs(A) == focus = "proofs" /\ A /\ UNCHANGED <<diskVars, filters, pages>>
OfFingerprints(A) == focus = "fingerprints" /\ A /\ UNCHANGED <<diskVars, chunk, pages>>
OfPages(A) == focus = "pages" /\ A /\ UNCHANGED <<diskVars, chunk, filters>>

\* Listings begin anywhere; the other parts do not look at that.
ReadsInit ==
    /\ Init /\ ProofInit /\ FilterInit
    /\ \/ focus = "pages" /\ PagesInit
       \/ /\ focus \in {"cache", "proofs", "fingerprints"} /\ known = {} /\ stamped = {}
          /\ spot = [k \in Thing |-> Nowhere]
          /\ listing = None /\ shown = {} /\ steady = {} /\ changes = 0

ReadsNext ==
    /\ UNCHANGED focus
    /\ OfCache(Next) \/ OfProofs(ProofNext) \/ OfFingerprints(FilterNext) \/ OfPages(PagesNext)

\* The fairness of the cache, while it is the part that moves.
ReadsFairness ==
    /\ \A p \in Writer : WF_diskVars(OfCache(Publisher(p)))
    /\ \A r \in Reader : WF_diskVars(OfCache(Hit(r) \/ Stale(r) \/ Forget(r) \/ Miss(r)))
    /\ WF_diskVars(OfCache(Evictor))

ReadsSpec == ReadsInit /\ [][ReadsNext]_reads /\ ReadsFairness
==============================================================================
