------------------------------ MODULE BundleReads ------------------------------
(***************************************************************************)
(* Bundles as they are read back: the framing and the items of a document  *)
(* (lib.rs, json_bundle.rs), the rows that a job stores of them (indexer.rs)*)
(* and the three readers of bundles: retrieval by the rows and by the      *)
(* hints of other indexes (lib.rs, database.rs), and the inspection of the *)
(* index or of a remote copy (bundle_inspection.rs, server.rs).            *)
(*                                                                         *)
(* An item is what its bytes amount to: its layout, the hash of its        *)
(* signature (sig), the ID of its content, whether its signature is        *)
(* genuine, the lengths of its header and payload, what the index filter   *)
(* says of it, and the document that it holds.  An entry of a table has an *)
(* ID, a size, and the item in the bytes it points at, or Junk.            *)
(***************************************************************************)
EXTENDS Integers, SequencesExt

CONSTANTS
    Worlds,     \* the documents there may be, by name; "root" is the transaction
    Junk,       \* bytes that are no item
    NoBundle,     \* no document
    RootId,     \* the ID of the transaction
    Plain,      \* transactions that are not bundles
    Telling,    \* sources of GraphQL
    Lies,       \* what each adds to the parents of an ID: [parent, size]
    Copies,     \* the documents that the sources of ranges hold, in order
    Hidden,     \* blocked IDs
    MaxNesting, \* MAX_BUNDLE_DEPTH
    MaxPaths,   \* MAX_DISCOVERY_PATHS
    RowBatch,   \* bundle_batch_size
    PageSize    \* of an inspection

VARIABLES
    docs,       \* the documents
    written,    \* how many rows of the root are committed
    progress,   \* bundle_progress.complete
    reading     \* what is being read, or its answer
bundleReads == <<docs, written, progress, reading>>

Anywhere == -1
Untold == -1
Prefix == 1     \* the count of items
Width == 2      \* a table entry: an ID and a size

-----------------------------------------------------------------------------
(* Framing: a table of sizes that end with the document.                   *)

TableEnd(d) == Prefix + Width * Len(d.entries)
Start(d, k) == FoldLeft(LAMBDA n, e : n + e.size, TableEnd(d), SubSeq(d.entries, 1, k - 1))
Framed(d) ==
    /\ \A k \in DOMAIN d.entries : d.entries[k].size > 0
    /\ Start(d, Len(d.entries) + 1) = d.length

-----------------------------------------------------------------------------
(* Items: an ID is the hash of the signature, or of the content.           *)

\* The bytes of an early item are read as such only under its own ID.
HeaderReads(i, id) == i # Junk /\ (i.layout = "legacy" => i.sig = id)
ByContent(i, id) == i.layout = "unsigned" \/ (i.layout = "typed" /\ i.sig # id)
BinaryProven(i, id) ==
    /\ HeaderReads(i, id) /\ i.layout # "json"
    /\ ByContent(i, id) => i.content = id
    /\ i.layout # "unsigned" => i.genuine
JsonProven(i, id) == i # Junk /\ i.layout = "json" /\ i.sig = id /\ i.genuine
Proven(d, e) == IF d.json THEN JsonProven(e.item, e.id) ELSE BinaryProven(e.item, e.id)

\* The ID an item goes by, found under the given ID of a table.
IdOf(i, id) == IF i.layout = "unsigned" THEN id ELSE i.sig

SignedAs(e, id) == e.item # Junk /\ e.item.layout \in {"typed", "unsigned"} /\ e.item.sig = id

\* The entries that a lookup stops at.  One that does not verify is passed
\* over in JSON and ends the lookup in a binary bundle.
ByTable(d, id, offset) ==
    {k \in DOMAIN d.entries :
        /\ IF offset = Anywhere THEN d.entries[k].id = id ELSE Start(d, k) = offset
        /\ d.json => Proven(d, d.entries[k])}
BySignature(d, id, offset) ==
    {k \in DOMAIN d.entries : ~d.json /\ offset = Anywhere /\ SignedAs(d.entries[k], id)}

\* verify_bundle_item: the entry that proves an ID, or 0.
Proves(d, e, id) == Proven(d, e) /\ IdOf(e.item, e.id) = id
FirstOf(K) == IF K = {} THEN 0 ELSE Min(K)
Either(listed, signed) == IF listed # {} THEN listed ELSE signed
Proving(d, id, k) == IF Framed(d) /\ k # 0 /\ Proves(d, d.entries[k], id) THEN k ELSE 0
FindItem(d, id, offset) ==
    Proving(d, id, FirstOf(Either(ByTable(d, id, offset), BySignature(d, id, offset))))

-----------------------------------------------------------------------------
(* The rows of a root, in the order in which its job stores them.          *)

Failure == [id |-> NoBundle]

RowOf(d, k) ==
    LET e == d.entries[k]
    IN [id |-> IdOf(e.item, e.id), path |-> <<Start(d, k)>>, size |-> e.size,
        head |-> e.item.head, data |-> e.item.data, json |-> d.json, holds |-> e.item.nested]
Below(row, sub) ==
    [j \in DOMAIN sub |-> IF sub[j] = Failure THEN Failure
                          ELSE [sub[j] EXCEPT !.path = row.path \o @]]

WithNested(row, sub) == <<row>> \o Below(row, sub)

\* next_matching on one entry, with what is nested below it.
RowsOfEntry(d, k, below) ==
    LET e == d.entries[k]
        i == e.item
    IN IF d.json /\ ~Proven(d, e) THEN << >>
       ELSE IF ~d.json /\ ~HeaderReads(i, e.id) THEN <<Failure>>
       ELSE IF i.nested = NoBundle /\ ~i.matched THEN << >>
       ELSE IF ~Proven(d, e) THEN <<Failure>>
       ELSE IF i.nested = NoBundle THEN <<RowOf(d, k)>>
       ELSE IF ~Framed(docs[i.nested]) \/ below[i.nested] = <<Failure>> THEN <<Failure>>
       ELSE WithNested(RowOf(d, k), below[i.nested])

Rows ==
    LET walk[n \in 0 .. MaxNesting] ==
            IF n = 0 THEN [x \in DOMAIN docs |-> IF docs[x].entries = << >> THEN << >> ELSE <<Failure>>]
            ELSE LET below == walk[n - 1]
                 IN [x \in DOMAIN docs |->
                       IF ~Framed(docs[x]) THEN <<Failure>>
                       ELSE FlattenSeq([k \in DOMAIN docs[x].entries |->
                                          RowsOfEntry(docs[x], k, below)])]
    IN walk[MaxNesting]["root"]

Clean(rows) == \A j \in DOMAIN rows : rows[j] # Failure
Good(rows) == IF Clean(rows) THEN rows
              ELSE SubSeq(rows, 1, Min({j \in DOMAIN rows : rows[j] = Failure}) - 1)
Stored == SubSeq(Rows, 1, written)

\* A batch of rows is committed; a failure drops the batch it falls into.
CommitRows ==
    LET rows == Rows
    IN /\ ~progress
       /\ Clean(rows) \/ written + RowBatch <= Len(Good(rows))
       /\ written' = Min({written + RowBatch, Len(Good(rows))})
       /\ progress' = (Clean(rows) /\ written + RowBatch > Len(rows))
       /\ UNCHANGED <<docs, reading>>

-----------------------------------------------------------------------------
(* Retrieval by the rows.                                                  *)

PathLess(p, q) ==
    \/ IsStrictPrefix(p, q)
    \/ \E n \in DOMAIN p \cap DOMAIN q : SubSeq(p, 1, n - 1) = SubSeq(q, 1, n - 1) /\ p[n] < q[n]
Occurrences(id) == {l \in ToSet(Stored) : l.id = id}
LeastPath(id) == CHOOSE l \in Occurrences(id) : \A m \in Occurrences(id) \ {l} : PathLess(l.path, m.path)

\* bundle_location: the rows on the way to the least path of an item.
WayTo(path) == [n \in DOMAIN path |-> CHOOSE l \in ToSet(Stored) : l.path = SubSeq(path, 1, n)]
Located(id) == WayTo(LeastPath(id).path)

\* Its checks: each item lies in the payload of the one before.
WellNested(chain) ==
    \A n \in DOMAIN chain :
        LET l == chain[n]
            room == IF n = 1 THEN docs["root"].length ELSE chain[n - 1].data
        IN /\ l.head > 0
           /\ IF l.json THEN l.data <= l.size - l.head ELSE l.data = l.size - l.head
           /\ Last(l.path) + l.size <= room

\* verify_indexed_bundle: the document and entry that the rows lead to.
Agrees(l, d, e, last) ==
    /\ l.json = d.json /\ l.head = e.item.head /\ l.size = e.size
    /\ last \/ e.item.nested # NoBundle
VerifyRow(at, l, last, k) ==
    LET d == docs[at.doc]
    IN IF at.entry # 0 /\ k # 0 /\ Agrees(l, d, d.entries[k], last)
       THEN [doc |-> d.entries[k].item.nested, in |-> at.doc, entry |-> k]
       ELSE [at EXCEPT !.entry = 0]
VerifyIndexed(chain) ==
    FoldLeft(LAMBDA at, l : VerifyRow(at, l, l = Last(chain),
                                      FindItem(docs[at.doc], l.id, Last(l.path))),
             [doc |-> "root", in |-> "root", entry |-> 1], chain)

-----------------------------------------------------------------------------
(* Retrieval by hints: parents are looked for until one is a transaction.  *)

\* What is true of the parents of an ID, at any depth.
Holding ==
    LET reach[n \in 0 .. MaxNesting] ==
            IF n = 0 THEN {[doc |-> "root", id |-> RootId]}
            ELSE reach[n - 1] \cup
                 UNION {{[doc |-> e.item.nested, id |-> IdOf(e.item, e.id)] :
                            e \in {x \in ToSet(docs[p.doc].entries) :
                                     Proven(docs[p.doc], x) /\ x.item.nested # NoBundle}} :
                        p \in reach[n - 1]}
    IN reach[MaxNesting]
TrueParents(id) ==
    UNION {{[parent |-> p.id, size |-> e.item.data] :
               e \in {x \in ToSet(docs[p.doc].entries) :
                        Proven(docs[p.doc], x) /\ IdOf(x.item, x.id) = id}} :
           p \in Holding}
Honest(told, id) == IF \E h \in ToSet(told) : h.parent = id THEN << >> ELSE told
Hints(s, id) == Honest(Lies[s][id] \o SetToSeq(TrueParents(id) \ ToSet(Lies[s][id])), id)

\* The way down from the root through the ancestors, the last of them first,
\* to the entry that proves the item, or 0.
Sized(at, k, size) == IF k = 0 THEN 0 ELSE IF docs[at].entries[k].item.data = size THEN k ELSE 0
ItemAt(at, id, size) ==
    IF at = NoBundle THEN 0 ELSE Sized(at, FindItem(docs[at], id, Anywhere), size)
Nesting(at, k) == IF k = 0 THEN NoBundle ELSE docs[at].entries[k].item.nested
Onward(at, ancestor) == Nesting(at, ItemAt(at, ancestor.id, ancestor.size))
Inward(ancestors) == ancestors                          \* mutant: from the item outwards
Downward(ancestors) == Reverse(ancestors)
FoundIn(at, id, size) == [in |-> at, entry |-> ItemAt(at, id, size)]
Descend(ancestors, id, size) == FoundIn(FoldLeft(Onward, "root", Downward(ancestors)), id, size)

Search(id, s, hint) ==
    /\ reading.at = "idle"
    /\ reading' = [at |-> "search", id |-> id, source |-> s, size |-> hint.size, hint |-> hint,
                   pending |-> <<[parent |-> hint.parent, ancestors |-> << >>]>>, scheduled |-> 1,
                   found |-> [in |-> NoBundle, entry |-> 0]]
    /\ UNCHANGED <<docs, written, progress>>

\* The paths through the parents of a parent, as far as the limits allow.
Deeper(more, ancestors) == IF Len(ancestors) + 1 < MaxNesting THEN more ELSE << >>
WaysBy(way, hints) ==
    [j \in 1 .. Min({MaxPaths - reading.scheduled, Len(hints)}) |->
       [parent |-> hints[j].parent,
        ancestors |-> Append(way.ancestors, [id |-> way.parent, size |-> hints[j].size])]]
Longer(way) == Deeper(WaysBy(way, Hints(reading.source, way.parent)), way.ancestors)

Cyclic(way) == way.parent \in {reading.id} \cup {a.id : a \in ToSet(way.ancestors)}
Tried(way, found, more) ==
    IF ~Cyclic(way) /\ way.parent = RootId /\ found.entry # 0
    THEN [reading EXCEPT !.at = "found", !.found = found]
    ELSE [reading EXCEPT !.pending = Tail(@) \o more, !.scheduled = @ + Len(more)]
Attempt ==
    LET way == Head(reading.pending)
    IN /\ reading.at = "search" /\ reading.pending # << >>
       /\ reading' =
            Tried(way, Descend(way.ancestors, reading.id, reading.size),
                  IF Cyclic(way) \/ way.parent \in Plain \cup {RootId} THEN << >> ELSE Longer(way))
       /\ UNCHANGED <<docs, written, progress>>
NoPath ==
    /\ reading.at = "search" /\ reading.pending = << >>
    /\ reading' = [reading EXCEPT !.at = "absent"]
    /\ UNCHANGED <<docs, written, progress>>

-----------------------------------------------------------------------------
(* Inspection of the index: statements of their own, while rows are added. *)

Visible(items) == SelectSeq(items, LAMBDA i : i.id \notin Hidden)

\* The children of the root or of a row, by offset.
ChildrenOf(path, rows) ==
    SortSeq(SelectSeq(rows, LAMBDA l : Front(l.path) = path),
            LAMBDA a, b : Last(a.path) < Last(b.path))

Locate(path, start) ==
    [at |-> "located", path |-> path, start |-> start, complete |-> FALSE, count |-> 0]
Show(row, start) ==
    IF row.holds = NoBundle THEN [at |-> "item", id |-> row.id, row |-> row]
    ELSE Locate(row.path, start)
Inspect(id, start) ==
    /\ reading.at = "idle"
    /\ id = RootId \/ Occurrences(id) # {}
    /\ reading' = IF id = RootId THEN Locate(<< >>, start) ELSE Show(LeastPath(id), start)
    /\ UNCHANGED <<docs, written, progress>>
ReadProgress ==
    /\ reading.at = "located"
    /\ reading' = [reading EXCEPT !.at = "progress", !.complete = progress]
    /\ UNCHANGED <<docs, written, progress>>
CountChildren ==
    /\ reading.at = "progress"
    /\ reading' = [reading EXCEPT !.at = "counted", !.count = Len(ChildrenOf(reading.path, Stored))]
    /\ UNCHANGED <<docs, written, progress>>

\* The total is told only of a bundle that was complete before it was counted.
ToldLate(r) == IF progress THEN r.count ELSE Untold      \* mutant: complete by now
Told(r) == IF r.complete THEN r.count ELSE Untold
Page(children, start) == SubSeq(children, start + 1, Min({start + PageSize, Len(children)}))
ReadChildren ==
    LET children == ChildrenOf(reading.path, Stored)
    IN /\ reading.at = "counted"
       /\ reading' = [at |-> "listed", path |-> reading.path, start |-> reading.start,
                      total |-> Told(reading), items |-> Visible(Page(children, reading.start)),
                      more |-> reading.start + PageSize < Len(children)]
       /\ UNCHANGED <<docs, written, progress>>

-----------------------------------------------------------------------------
(* Inspection of a remote copy, by ranges: each is asked of the sources in *)
(* turn from the last that answered, and their sizes have to agree.        *)

\* discover_item: the first index that calls it a bundle or an item decides.
KindOf(words) ==
    LET decided == SelectSeq(words, LAMBDA w : w \in {"bundle", "item"})
    IN IF decided # << >> THEN Head(decided)
       ELSE IF "loose" \in ToSet(words) THEN "item" ELSE "unknown"

Refused == [at |-> "refused"]
InspectRemote(words, start, wanted) ==
    /\ reading.at = "idle"
    /\ \/ /\ KindOf(words) = "item" /\ reading' = [at |-> "external"]
       \/ /\ KindOf(words) = "unknown" /\ reading' = Refused
       \/ /\ KindOf(words) \in {"bundle", "unknown"}
          /\ reading' = [at |-> "count", start |-> start, wanted |-> wanted, selected |-> 1]
    /\ UNCHANGED <<docs, written, progress>>

Copy(j) == docs[Copies[j]]
Onwards(s) == s \in DOMAIN Copies /\ s >= reading.selected

EndOfPage(count) ==
    IF reading.wanted # Untold THEN reading.wanted
    ELSE Min({reading.start + PageSize, count})
ReadCount(s) ==
    LET count == Len(Copy(s).entries)
        ok == ~Copy(s).json /\ reading.start <= count /\ EndOfPage(count) <= count
              /\ TableEnd(Copy(s)) <= Copy(s).length
    IN /\ reading.at = "count" /\ Onwards(s)
       /\ reading' = IF ok THEN [reading EXCEPT !.at = "table", !.selected = s]
                           @@ [count |-> count, total |-> Copy(s).length, end |-> EndOfPage(count)]
                     ELSE Refused
       /\ UNCHANGED <<docs, written, progress>>

Asked(index) == IF reading.wanted # Untold THEN index = reading.wanted ELSE index > reading.start
\* Entries add up from the end of the table that was announced.
ReadTable(s) ==
    LET table == SubSeq(Copy(s).entries, 1, reading.end)
        from(k) == FoldLeft(LAMBDA n, e : n + e.size, Prefix + Width * reading.count,
                            SubSeq(table, 1, k - 1))
        bounded == /\ \A k \in DOMAIN table : table[k].size > 0 /\ from(k) + table[k].size <= reading.total
                   /\ reading.end = reading.count => from(reading.end + 1) = reading.total
        items == [k \in DOMAIN table |-> [index |-> k, id |-> table[k].id, offset |-> from(k),
                                          size |-> table[k].size]]
    IN /\ reading.at = "table" /\ Onwards(s) /\ Copy(s).length = reading.total
       /\ Len(Copy(s).entries) >= reading.end
       /\ reading' = IF ~bounded THEN Refused
                     ELSE [at |-> IF reading.wanted = Untold THEN "shown" ELSE "header",
                           start |-> reading.start, count |-> reading.count, total |-> reading.total,
                           wanted |-> reading.wanted, selected |-> s,
                           more |-> reading.end < reading.count,
                           items |-> SelectSeq(items, LAMBDA i : Asked(i.index))]
       /\ UNCHANGED <<docs, written, progress>>

\* read_header: its fields, from the item that starts at that offset.
ReadHeader(s) ==
    LET item == reading.items[1]
        K == {k \in DOMAIN Copy(s).entries : Start(Copy(s), k) = item.offset}
        i == Copy(s).entries[Min(K)].item
        ok == K # {} /\ i # Junk /\ i.layout \in {"typed", "unsigned"} /\ i.head <= item.size
    IN /\ reading.at = "header" /\ Onwards(s) /\ Copy(s).length = reading.total
       /\ reading' = IF ok THEN [reading EXCEPT !.at = "shown",
                                   !.items = <<item @@ [head |-> i.head, data |-> item.size - i.head]>>]
                     ELSE Refused
       /\ UNCHANGED <<docs, written, progress>>
\* No source answers any more.
RangesFail ==
    /\ reading.at \in {"count", "table", "header"} /\ reading' = Refused
    /\ UNCHANGED <<docs, written, progress>>

-----------------------------------------------------------------------------
Idle == [at |-> "idle"]
ReadsBundleInit ==
    /\ docs \in Worlds /\ written = 0 /\ progress = FALSE /\ reading = Idle

Mentioned == UNION {{e.id : e \in ToSet(docs[x].entries)} : x \in DOMAIN docs}
       \cup {l.id : l \in ToSet(Stored)}
ReadsBundleNext ==
    \/ CommitRows
    \/ \E id \in Mentioned, s \in Telling : \E hint \in ToSet(Hints(s, id)) : Search(id, s, hint)
    \/ Attempt \/ NoPath
    \/ \E id \in Mentioned \cup {RootId}, start \in 0 .. PageSize : Inspect(id, start)
    \/ ReadProgress \/ CountChildren \/ ReadChildren
    \/ \E words \in {<<"loose", "bundle">>, <<"silent">>, <<"loose">>}, start \in 0 .. PageSize,
          wanted \in {Untold, 1, 2} : InspectRemote(words, start, wanted)
    \/ \E s \in DOMAIN Copies : ReadCount(s) \/ ReadTable(s) \/ ReadHeader(s)
    \/ RangesFail

-----------------------------------------------------------------------------
(* What the readers rely on.                                               *)

Accepted(at, id, size) ==
    /\ at.entry # 0
    /\ Proves(docs[at.in], docs[at.in].entries[at.entry], id)
    /\ docs[at.in].entries[at.entry].item.data = size
Served(id, chain) ==
    WellNested(chain) /\ Accepted(VerifyIndexed(chain), id, Last(chain).data)

\* Whatever the rows of a bundle say, half written or whole, leads to an item
\* that proves its ID and has the size stored with it: what a job stores, a
\* retrieval by those rows accepts (verify_indexed_bundle).
LocatedServed ==
    \A id \in {l.id : l \in ToSet(Stored)} : Served(id, Located(id))

\* A copy that claims the ID and does not prove it hides the others.
Clear(id) ==
    \A p \in Holding : \A e \in ToSet(docs[p.doc].entries) :
        (e.id = id \/ SignedAs(e, id)) => Proven(docs[p.doc], e) /\ IdOf(e.item, e.id) = id
\* A retrieval by hints answers with an item that is where they say, below the
\* root; and in bundles that the index stores whole, a true hint leads to its
\* item, whatever lies come with it, while they leave it room (retrieve_bundled_with_hint).
SearchProven ==
    /\ reading.at = "found" =>
          LET e == docs[reading.found.in].entries[reading.found.entry]
          IN /\ \E p \in Holding : p.doc = reading.found.in
             /\ Proven(docs[reading.found.in], e) /\ IdOf(e.item, e.id) = reading.id
             /\ e.item.data = reading.size
    /\ /\ reading.at = "absent" /\ reading.scheduled < MaxPaths
       /\ Clean(Rows) /\ \A a \in Mentioned : Clear(a)
       => reading.hint \notin TrueParents(reading.id)

\* What is stored is found again, by the rows or by hints.
BundlesServed == LocatedServed /\ SearchProven

\* A page of the index is the page of the children as they will be in the end,
\* as far as it goes; a total is the final one, and then the page is all there
\* is (inspect_bundle).
PageOfIndex ==
    reading.at = "listed" =>
        LET all == ChildrenOf(reading.path, Good(Rows))
            whole == Visible(Page(all, reading.start))
        IN /\ IsPrefix(reading.items, whole)
           /\ reading.total # Untold =>
                 /\ reading.total = Len(all) /\ reading.items = whole
                 /\ reading.more <=> reading.start + PageSize < Len(all)
\* A remote page shows each entry where it is in the bundle, and all of them
\* over the pages, when the sources hold the same bundle; whatever they hold,
\* its items lie one behind the other inside it (inspect).
PageOfRemote ==
    reading.at = "shown" =>
        LET d == docs["root"]
            items == reading.items
        IN /\ \A j \in DOMAIN items :
                 /\ items[j].offset + items[j].size <= reading.total
                 /\ j > 1 => items[j].offset = items[j - 1].offset + items[j - 1].size
           /\ (\A s \in DOMAIN Copies : Copy(s) = d) =>
                 /\ \A j \in DOMAIN items :
                       /\ items[j].index = (IF reading.wanted = Untold THEN reading.start + j ELSE reading.wanted)
                       /\ items[j].offset = Start(d, items[j].index)
                       /\ items[j].id = d.entries[items[j].index].id
                 /\ ~reading.more /\ reading.wanted = Untold => reading.start + Len(items) = Len(d.entries)
BundlePages == PageOfIndex /\ PageOfRemote
================================================================================
