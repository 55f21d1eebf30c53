------------------------------- MODULE MCBundles -------------------------------
(***************************************************************************)
(* Bundles as they are stored and as they are read: the tables shared by   *)
(* roots and chains (BundleStore), documents with what is read of them     *)
(* (BundleReads), the content that is handed from one reader to the next   *)
(* (ContentReads), their tags (TagStore), and what a block or transaction  *)
(* has to show before it is believed (Authenticity).  They share no        *)
(* variable: a behaviour moves one focus.                                  *)
(***************************************************************************)
EXTENDS MCBundleStore, BundleReads, ContentReads, TagStore, MCAuthenticity

\* Items of one document or another: a signed item, a forgery of it, an
\* unsigned one, an early one that the filter leaves out, and bundles.
Thing(layout, sig, content, head, data) ==
    [layout |-> layout, sig |-> sig, content |-> content, genuine |-> TRUE, head |-> head,
     data |-> data, nested |-> NoBundle, matched |-> TRUE]
Bundle(id, holds, name) ==
    [Thing("typed", id, id + 10, 1, holds.length) EXCEPT !.nested = name, !.matched = FALSE]
Signed == Thing("typed", 1, 11, 2, 1)
Forged == [Thing("typed", 1, 12, 2, 1) EXCEPT !.genuine = FALSE]
Unsigned == Thing("unsigned", 90, 3, 1, 1)
Early == [Thing("legacy", 4, 14, 1, 2) EXCEPT !.matched = FALSE]
InText == Thing("json", 7, 17, 1, 1)

Entry(id, item) == [id |-> id, size |-> item.head + item.data, item |-> item]
Misplaced(e) == [e EXCEPT !.size = @ + 1, !.item = Junk]
Document(json, entries) ==
    [json |-> json, entries |-> entries,
     length |-> FoldLeft(LAMBDA n, e : n + e.size, Prefix + Width * Len(entries), entries)]
Of(entry) == Document(FALSE, <<entry>>)

\* What the bundle in the root holds, one of them cut short.
Inner ==
    {Document(FALSE, <<Entry(11, Signed), Entry(3, Unsigned)>>), Document(FALSE, << >>),
     Document(TRUE, <<Entry(7, [InText EXCEPT !.genuine = FALSE]), Entry(7, [InText EXCEPT !.data = 0])>>),
     [Of(Entry(1, Signed)) EXCEPT !.length = 5]}
InRoot(inner) ==
    {Entry(1, Signed), Entry(11, Signed), Entry(1, Forged), Entry(3, Unsigned), Entry(4, Early),
     Misplaced(Entry(4, Early)), Entry(5, Bundle(5, inner, "a")), Entry(15, Bundle(5, inner, "a"))}

\* One inner bundle is enough for roots that hold none.
Roots(inner, n) ==
    {entries \in [1 .. n -> InRoot(inner)] :
       \/ inner = CHOOSE i \in Inner : TRUE
       \/ \E k \in 1 .. n : entries[k].item # Junk /\ entries[k].item.nested = "a"}

\* Bundles in bundles, as deep as the limit and one deeper.
Lowest == Of(Entry(3, Unsigned))
Lower == Of(Entry(8, Bundle(8, Lowest, "c")))
Low == Of(Entry(6, Bundle(6, Lower, "b")))
Deep(c) == "root" :> Document(FALSE, <<Entry(3, Unsigned), Entry(5, Bundle(5, Low, "a"))>>)
           @@ "a" :> Low @@ "b" :> c @@ "c" :> Lowest

MCWorlds ==
    UNION {{"root" :> Document(FALSE, entries) @@ "a" :> inner :
               entries \in UNION {Roots(inner, n) : n \in 0 .. 2}} : inner \in Inner}
    \cup {Deep(Lower),
          "root" :> Document(FALSE, <<Entry(1, Signed), Entry(5, Bundle(5, Of(Entry(6, Bundle(6, Lowest, "b"))), "a"))>>)
          @@ "a" :> Of(Entry(6, Bundle(6, Lowest, "b"))) @@ "b" :> Lowest}

\* One source tells the truth, the other adds parents that are none.
MCLies ==
    "x" :> [id \in 0 .. 90 |-> << >>]
    @@ "y" :> [id \in 0 .. 90 |->
                 CASE id = 1 -> <<[parent |-> 5, size |-> 1], [parent |-> 80, size |-> 1]>>
                   [] id = 5 -> <<[parent |-> 1, size |-> 3]>>
                   [] id = 3 -> <<[parent |-> 0, size |-> 2], [parent |-> 5, size |-> 1]>>
                   [] OTHER -> << >>]
\* A string with one escape, of which three checkpoints are kept.  A header and
\* a trailer of one byte are around it.
MCTexts == {<<1, 1, 2, 1, 1, 1, 1, 1, 1>>}
MCChunkings == {{0, 3, 6, 9}, {0, 1, 4, 5, 8, 11}, {0, 2, 5, 7, 10}}
MCCopies == <<"root", "a", "root">>

\* Two batches that disagree about an object, and use the same bytes as names
\* and as values.  The locks have another order than the bytes.
MCBatches == {1 :> <<<<1, 2>>>>, 1 :> <<<<2, 2>>>> @@ 2 :> <<<<1, 2>>>>}
MCLockOf == <<2, 1>>
MCOldRows == {<< >>, <<1>>}

VARIABLE focus
bundles == <<focus, vars, bundleReads, contents, tagging, packing, authentic>>

Nothing == block = Absent /\ belief = [at |-> "none"]
BundlesInit ==
    /\ focus \in {"stored", "read", "opened", "tagged", "packed", "proven"}
    /\ Init /\ ReadsBundleInit /\ ContentsInit /\ TagsInit /\ PackingInit
    /\ focus # "read" => docs = CHOOSE w \in Worlds : TRUE
    /\ focus # "opened" => cuts = CHOOSE c \in Chunkings : TRUE
    /\ IF focus = "proven" THEN AuthenticInit ELSE Nothing
BundlesNext ==
    /\ UNCHANGED focus
    /\ \/ focus = "stored" /\ Next /\ UNCHANGED <<bundleReads, contents, tagging, packing, authentic>>
       \/ focus = "read" /\ ReadsBundleNext /\ UNCHANGED <<vars, contents, tagging, packing, authentic>>
       \/ focus = "opened" /\ ContentsNext /\ UNCHANGED <<vars, bundleReads, tagging, packing, authentic>>
       \/ focus = "tagged" /\ TagsNext /\ UNCHANGED <<vars, bundleReads, contents, packing, authentic>>
       \/ focus = "packed" /\ PackingNext /\ UNCHANGED <<vars, bundleReads, contents, tagging, authentic>>
       \/ focus = "proven" /\ AuthenticNext /\ UNCHANGED <<vars, bundleReads, contents, tagging, packing>>
BundlesSpec == BundlesInit /\ [][BundlesNext]_bundles
================================================================================
