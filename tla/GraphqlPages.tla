----------------------------- MODULE GraphqlPages -----------------------------
(***************************************************************************)
(* The listings of GraphQL (database/graphql.rs): a client asks for page   *)
(* after page of transactions or blocks, each from the cursor of the last  *)
(* edge it has, while the chain and the index of bundles move on.  A page  *)
(* is one query in a snapshot of its own, built from the filters in one    *)
(* of several shapes.                                                      *)
(*                                                                         *)
(* A row is the tuple that orders it: <<height, position, kind, id>> for a *)
(* transaction, <<height>> for a block.  A page is the set of its rows,    *)
(* each with the branch of the query that found it: what it contains is    *)
(* decided by their order and a limit.  That the fingerprints of the index *)
(* are those of the objects is FilterIndex; amounts, sizes and the tags of *)
(* the answer are left out.                                                *)
(***************************************************************************)
EXTENDS Integers, FiniteSets, SequencesExt

CONSTANTS
    Thing,       \* objects, by the order of their ids
    Spots,       \* [Thing -> places in the chain it may be found at]
    Of,          \* [Thing -> its owner, recipient ("" for none) and tags]
    PublicKey,   \* [owner -> the other name a client may use]
    Listings,    \* what clients ask for
    MaxChanges   \* bound: changes of the index during a listing

ASSUME PagesAssumption ==
    /\ Thing \subseteq Nat /\ IsFiniteSet(Thing) /\ MaxChanges \in Nat
    /\ \A k \in Thing : IsFiniteSet(Spots[k])
    /\ \A k \in Thing : \A s \in Spots[k] :
          /\ s.height \in Nat /\ s.position \in Nat
          /\ s.kind \in {0, 1} /\ s.parent \in Thing \cup {0}
    /\ \A q \in Listings : q.first \in Nat \ {0} /\ q.recipients \in Seq(ToSet(q.recipients))

VARIABLES
    spot,        \* canonical_placements: where each object is, or Nowhere
    known,       \* objects with metadata_complete
    stamped,     \* heights of the canonical blocks that are described
    listing,     \* the query of the client, its cursor, whether it is done
    shown,       \* the edges it has received, with the cursors they were asked from
    steady,      \* rows that have answered the query since it began
    changes

stored == <<spot, known, stamped>>
pages == <<stored, listing, shown, steady, changes>>

Nowhere == [height |-> 0, position |-> 0, kind |-> 0, parent |-> 0]
Row(k) == <<spot[k].height, spot[k].position, spot[k].kind, k>>

Before(a, b) ==
    \E i \in DOMAIN a : a[i] < b[i] /\ \A j \in 1 .. i - 1 : a[j] = b[j]
Ordered(q, a, b) == IF q.sort = "asc" THEN Before(a, b) ELSE Before(b, a)

\* A cursor is a row.  That of a pending transaction, which other gateways
\* list, has no place and sorts above every row.
Start == << >>
Pending == <<-1>>
Beyond(q, cursor, row) ==
    CASE cursor = Start -> TRUE
      [] cursor = Pending -> q.sort = "desc"
      [] OTHER -> Ordered(q, cursor, row)

-----------------------------------------------------------------------------
(* The query of a page.                                                    *)

\* A bound that is negative counts as none.
Heights(q, h) == (q.min >= 0 => h >= q.min) /\ (q.max >= 0 => h <= q.max)

HasTag(k, tag) == \E v \in tag.values : <<tag.name, v>> \in Of[k].tags
Dictionary == UNION {Of[k].tags : k \in known}
NotInDictionary(tag) ==
    ~\E t \in Dictionary, u \in Dictionary : t[1] = tag.name /\ u[2] \in tag.values

\* Owners are addresses or public keys, resolved by the table of owners.
Resolved(q) == {o \in {Of[k].owner : k \in known} : {o, PublicKey[o]} \cap q.owners # {}}

Within(q, k) ==
    CASE q.bundledIn = "any" -> TRUE
      [] q.bundledIn = "null" -> spot[k].kind = 0
      [] OTHER -> spot[k].kind = 1 /\ spot[k].parent \in q.bundles

\* The conditions every shape shares.
Base(q, cursor) ==
    {k \in known :
        /\ spot[k] # Nowhere /\ spot[k].height \in stamped
        /\ q.ids # {} => k \in q.ids
        /\ q.recipients # << >> => Of[k].recipient \in ToSet(q.recipients)
        /\ Within(q, k)
        /\ Heights(q, spot[k].height)
        /\ Beyond(q, cursor, Row(k))
        /\ q.owners # {} => Of[k].owner \in Resolved(q)
        /\ \A i \in DOMAIN q.tags : HasTag(k, q.tags[i])}

\* ORDER BY ... LIMIT n, and one row more than a page shows.
Preceding(q, found, e) == {f \in found : Ordered(q, f.row, e.row)}
Lowest(n, q, found) == {e \in found : Cardinality(Preceding(q, found, e)) < n}
Limited(q, found) == Lowest(q.first + 1, q, found)

Found(branch, rows) == {[branch |-> branch, row |-> r] : r \in rows}
RowsOf(K) == {Row(k) : k \in K}
Select(q, branch, rows) == Limited(q, Found(branch, rows))

Repeated(values) == DOMAIN values                \* mutant: duplicates stay
Deduped(values) == {i \in DOMAIN values : \A j \in 1 .. i - 1 : values[j] # values[i]}

\* With the fingerprints of one column each value has a branch of its own.
\* An empty recipient has no fingerprint.
Branches(q, K) ==
    IF q.owners # {}
    THEN {Select(q, o, RowsOf({k \in K : Of[k].owner = o})) : o \in Resolved(q)}
    ELSE {Select(q, i, RowsOf({k \in K : Of[k].recipient = q.recipients[i]})) :
             i \in Deduped(q.recipients)}

\* UNION ALL keeps what two branches share.
Merged(q, branches) == Limited(q, UNION branches)

Indexed(q) == q.ids = {} /\ (q.owners # {} \/ q.recipients # << >>)

\* Two or more tags and nothing else are looked up in the dictionary first.
TagFirst(q) ==
    /\ q.ids = {} /\ q.owners = {} /\ q.recipients = << >> /\ q.bundledIn = "any"
    /\ q.min < 0 /\ q.max < 0 /\ Len(q.tags) > 1

TransactionRows(q, cursor) ==
    LET K == Base(q, cursor)
        unresolved == q.owners # {} /\ Resolved(q) = {}
        unlisted == TagFirst(q) /\ \E i \in DOMAIN q.tags : NotInDictionary(q.tags[i])
    IN IF unresolved \/ unlisted THEN {}
       ELSE IF Indexed(q) THEN Merged(q, Branches(q, K))
       ELSE Select(q, 0, RowsOf(K))

BlockRows(q, cursor) ==
    Select(q, 0, {<<h>> : h \in {g \in stamped : Heights(q, g) /\ Beyond(q, cursor, <<g>>)}})

Rows(q, cursor) ==
    IF q.of = "blocks" THEN BlockRows(q, cursor) ELSE TransactionRows(q, cursor)

-----------------------------------------------------------------------------
(* What the filters mean.                                                  *)

Means(q, k) ==
    /\ k \in known /\ spot[k] # Nowhere
    /\ q.ids = {} \/ k \in q.ids
    /\ q.owners = {} \/ {Of[k].owner, PublicKey[Of[k].owner]} \cap q.owners # {}
    /\ q.recipients = << >> \/ \E i \in DOMAIN q.recipients : q.recipients[i] = Of[k].recipient
    /\ Within(q, k) /\ Heights(q, spot[k].height)
    /\ \A i \in DOMAIN q.tags : HasTag(k, q.tags[i])

Meant(q) ==
    IF q.of = "blocks" THEN {<<h>> : h \in {g \in stamped : Heights(q, g)}}
    ELSE RowsOf({k \in Thing : Means(q, k)})
ToShow(q, cursor) == {r \in Meant(q) : Beyond(q, cursor, r)}

-----------------------------------------------------------------------------
(* The client, and what changes beside it.                                 *)

None == [query |-> "none", cursor |-> Start, at |-> "idle"]

Ask(q, cursor) ==
    /\ listing.at = "idle"
    /\ listing' = [query |-> q, cursor |-> cursor, at |-> "paging"]
    /\ steady' = ToShow(q, cursor)
    /\ UNCHANGED <<stored, shown, changes>>

LastRow(q, edges) == (CHOOSE e \in edges : \A f \in edges : ~Ordered(q, e.row, f.row)).row

NextPage ==
    LET q == listing.query
        rows == Rows(q, listing.cursor)
        edges == Lowest(q.first, q, rows)
        more == Cardinality(rows) > q.first
    IN /\ listing.at = "paging"
       /\ shown' = shown \cup {[from |-> listing.cursor, edge |-> e] : e \in edges}
       /\ listing' = [listing EXCEPT !.cursor = IF edges = {} THEN @ ELSE LastRow(q, edges),
                                     !.at = IF more THEN "paging" ELSE "done"]
       /\ UNCHANGED <<stored, steady, changes>>

Change ==
    /\ listing.at = "paging" /\ changes < MaxChanges /\ changes' = changes + 1
    /\ UNCHANGED <<listing, shown>>
    /\ steady' = steady \cap Meant(listing.query)'

\* An item is placed with its bundle, in a block that is described.
Place(k, s) ==
    /\ s # spot[k] /\ s.height \in stamped
    /\ s.parent # 0 => spot[s.parent].height = s.height
    /\ spot' = [spot EXCEPT ![k] = s]
    /\ UNCHANGED <<known, stamped>> /\ Change

Learn(k) ==
    /\ k \notin known /\ known' = known \cup {k}
    /\ UNCHANGED <<spot, stamped>> /\ Change

Stamp(h) ==
    /\ h \notin stamped /\ stamped' = stamped \cup {h}
    /\ UNCHANGED <<spot, known>> /\ Change

RewindTo(h) ==
    /\ \E g \in stamped : g >= h
    /\ stamped' = {g \in stamped : g < h}
    /\ spot' = [k \in Thing |-> IF spot[k].height >= h THEN Nowhere ELSE spot[k]]
    /\ UNCHANGED known /\ Change

HeightsOf == {s.height : s \in UNION {Spots[k] : k \in Thing}}

PagesInit ==
    /\ known \in SUBSET Thing /\ stamped \in SUBSET HeightsOf
    /\ spot \in {p \in [Thing -> (UNION {Spots[k] : k \in Thing}) \cup {Nowhere}] :
                    \A k \in Thing : p[k] = Nowhere \/
                        /\ p[k] \in Spots[k] /\ p[k].height \in stamped
                        /\ p[k].parent # 0 => p[p[k].parent].height = p[k].height}
    /\ listing = None /\ shown = {} /\ steady = {} /\ changes = 0

PagesNext ==
    \/ \E q \in Listings, cursor \in {Start, Pending} : (q.of = "blocks" => cursor = Start) /\ Ask(q, cursor)
    \/ NextPage
    \/ \E k \in Thing : Learn(k) \/ \E s \in Spots[k] : Place(k, s)
    \/ \E h \in HeightsOf : Stamp(h) \/ RewindTo(h)

PagesSpec == PagesInit /\ [][PagesNext]_pages

-----------------------------------------------------------------------------
Times(row) == Cardinality({e \in shown : e.edge.row = row})
Passed(row) == listing.at = "done" \/ ~Beyond(listing.query, listing.cursor, row)

\* Whatever is placed, moved or removed while a client pages through a
\* listing, what answers the query all the time is shown once, at its turn
\* (transaction_cursor, the order of transactions and blocks).
ShownOnce ==
    listing.at # "idle" => \A r \in steady : Times(r) = IF Passed(r) THEN 1 ELSE 0

\* Each shape of the query gives the page its filters mean: the branches of
\* the index without duplicates and with enough rows of each, the dictionary
\* before the tags, aliases of owners (transactions in graphql.rs).
PageExact ==
    listing.at = "paging" =>
        LET q == listing.query
            rows == Rows(q, listing.cursor)
        IN /\ {e.row : e \in rows} = {e.row : e \in Select(q, 0, ToShow(q, listing.cursor))}
           /\ \A e \in rows, f \in rows : e.row = f.row => e = f

\* Pages are what their query means, one by one and all together.
ListingExact == ShownOnce /\ PageExact
=============================================================================
