------------------------------ MODULE BundleScan ------------------------------
(***************************************************************************)
(* The scan of download_pending (background.rs): one thread walks the      *)
(* canonical chain for bundle roots that are not indexed yet.  A live      *)
(* cursor goes up from the boundary, a backfill cursor goes down from it,  *)
(* and the position is saved for the next start.  The queries are          *)
(* pending_bundle_scan and pending_bundles_after (database.rs).            *)
(*                                                                         *)
(* The chain follower changes the chain under the scan; every query reads  *)
(* the chain of its own instant.  A slot is one place of a block, Width of *)
(* them per height, and a cursor is a slot: a row's own, or the last or    *)
(* first of a height for the positions MAX and 0.  The totals that let a   *)
(* query skip a height count its pending roots.  Pauses only delay steps.  *)
(***************************************************************************)
EXTENDS Integers, FiniteSets, SequencesExt

CONSTANTS
    Root,       \* bundle roots
    Empty,      \* no root in this slot
    Forks,      \* chains, as functions from slots to roots; a reorg goes to the next
    Width,      \* slots per height
    Start,      \* index_bundle_start_height
    Span,       \* SPAN: heights a query covers, 1000 in the code; 1 would not advance
    PageSize,   \* roots in a page, 64 in the code
    Downloads,  \* index_downloads
    Depth,      \* CONSENSUS_DEPTH
    Bad,        \* roots that never index
    Unset,      \* no cursor
    MaxFails    \* bound: transient failures and restarts

ASSUME ScanAssumption ==
    /\ Width \in Nat \ {0} /\ Span \in Nat /\ Span > 1 /\ PageSize \in Nat \ {0}
    /\ Start \in Nat /\ Downloads \in Nat \ {0} /\ Depth \in Nat /\ MaxFails \in Nat
    /\ Bad \subseteq Root
    /\ Unset \notin Nat \cup [boundary : Nat, live : Nat \cup {Unset}, backfill : Nat \cup {Unset}]
    /\ Forks # << >> /\ Forks \in Seq(Seq(Root \cup {Empty})) /\ Empty \notin Root
    /\ \A i \in DOMAIN Forks : DOMAIN Forks[i] = DOMAIN Forks[1]

Slot == DOMAIN Forks[1]
HeightOf(s) == (s - 1) \div Width + 1
LastSlot(h) == h * Width
FirstSlot(h) == (h - 1) * Width + 1
Height == {HeightOf(s) : s \in Slot}

Low(a, b) == IF a < b THEN a ELSE b
High(a, b) == IF a > b THEN a ELSE b

VARIABLES
    fork,       \* the fork the stored chain follows
    tip,        \* imported_through
    stable,     \* checkpoint.height
    metadata,   \* metadata_height: transactions known up to here
    complete,   \* roots with a complete bundle_progress
    stored      \* the saved scan cursor, or Unset

VARIABLES
    dirty,       \* the chain changed since live_pending was set
    rewindLive,  \* live_pending or rewind_live
    cursor,      \* boundary, live and backfill, or Unset
    pageStart,   \* page_start: the cursor before the last page
    candidates,  \* roots of the page still to schedule
    discovery,   \* the statement the query is at, or "none"
    described,   \* the metadata height it read
    held,        \* roots with a reservation, by "scan" or "request"
    tracked,     \* scan_cursors in order of their sequence
    fails,       \* failures, requests and restarts so far
    unseen       \* history: roots this pass has to propose

chain == <<fork, tip, stable, metadata>>
query == <<discovery, described>>
scan == <<rewindLive, cursor, pageStart, candidates, query>>
jobs == <<held, tracked>>
scanVars == <<chain, complete, stored, dirty, scan, jobs, fails, unseen>>

RootAt(s) == IF HeightOf(s) <= tip THEN Forks[fork][s] ELSE Empty
Pending(s) == RootAt(s) \in Root \ complete
OnChain(r) == \E s \in Slot : RootAt(s) = r

\* What a pass that starts now has to find.
ToFind == {RootAt(s) : s \in {x \in Slot : Pending(x) /\ HeightOf(x) \in Start .. metadata}}

-----------------------------------------------------------------------------
(* The chain follower, its transactions and its signals.                   *)

Extend ==
    /\ tip + 1 \in Height /\ tip' = tip + 1
    /\ UNCHANGED <<fork, stable, metadata>>

\* A rewind keeps what both forks share, the checkpoint included.
Reorg ==
    /\ fork < Len(Forks) /\ fork' = fork + 1
    /\ tip' \in stable .. tip
    /\ \A s \in Slot : HeightOf(s) <= tip' => Forks[fork][s] = Forks[fork'][s]
    /\ metadata' = Low(metadata, tip')
    /\ UNCHANGED stable

Describe ==
    /\ metadata < tip /\ metadata' = metadata + 1
    /\ UNCHANGED <<fork, tip, stable>>

ChainStep ==
    /\ Extend \/ Reorg \/ Describe
    /\ dirty' = TRUE
    /\ UNCHANGED <<complete, stored, scan, jobs, fails>>
    /\ unseen' = unseen \cap ToFind'

Pin ==
    /\ stable + 1 <= tip - Depth /\ stable' = stable + 1
    /\ UNCHANGED <<fork, tip, metadata, complete, stored, dirty, scan, jobs,
                   fails, unseen>>

\* The follower's step ends, or fails and later catches up.  The loop moves
\* live_pending to rewind_live when it next comes round, before a page starts.
Signal ==
    /\ dirty /\ dirty' = FALSE /\ rewindLive' = TRUE
    /\ UNCHANGED <<chain, complete, stored, cursor, pageStart, candidates, query, jobs, fails,
                   unseen>>

-----------------------------------------------------------------------------
(* download_pending: signals, the boundary and the saved position.         *)

SetBoundary ==
    /\ cursor = Unset /\ tip > 0
    /\ cursor' = [boundary |-> Low(tip, stable), live |-> Unset, backfill |-> Unset]
    /\ unseen' = ToFind
    /\ UNCHANGED <<chain, complete, stored, dirty, rewindLive, pageStart,
                   candidates, query, jobs, fails>>

\* An Option is ordered with None first.
EarlierLive(a, b) == IF a = Unset \/ b = Unset THEN Unset ELSE Low(a, b)

\* scan_checkpoint: the page of the oldest tracked root, or the position.
PastPage == cursor                               \* mutant: a page is not replayed
Position == IF candidates # << >> THEN pageStart ELSE cursor
Checkpoint ==
    IF tracked = << >> THEN Position
    ELSE LET oldest == Head(tracked).after IN
         [oldest EXCEPT !.live = EarlierLive(oldest.live, Position.live)]

\* Compared with saved_cursor, which is what is stored unless a save that
\* timed out was committed.  Bound: without restarts nothing reads it again.
Save ==
    /\ MaxFails > 0
    /\ cursor # Unset /\ Checkpoint # stored
    /\ stored' = Checkpoint
    /\ UNCHANGED <<chain, complete, dirty, rewindLive, cursor, pageStart, candidates, query,
                   jobs, fails, unseen>>

-----------------------------------------------------------------------------
(* download_pending: candidates.                                           *)

Tracked == {tracked[i].root : i \in DOMAIN tracked}
Downloading == {r \in Root : held[r] = "scan"}

\* A candidate with a reservation is only tracked; another waits for a slot.
\* track_scan keeps the smallest sequence of a root: its first page.
Schedule ==
    /\ candidates # << >>
    /\ LET c == Head(candidates) IN
         /\ held[c.root] # "no" \/ Cardinality(Downloading) < Downloads
         /\ held' = IF held[c.root] = "no" THEN [held EXCEPT ![c.root] = "scan"] ELSE held
         /\ tracked' = IF c.root \in Tracked THEN tracked
                       ELSE Append(tracked, [root |-> c.root, slot |-> c.slot, after |-> pageStart])
    /\ candidates' = Tail(candidates)
    /\ UNCHANGED <<chain, complete, stored, dirty, rewindLive, cursor,
                   pageStart, query, fails, unseen>>

-----------------------------------------------------------------------------
(* download_pending: pages.                                                *)

\* BundleScan::rewind_live
RewindLive(live) ==
    IF live # Unset /\ HeightOf(live) > stable THEN LastSlot(stable) ELSE live

\* A page may start while downloads run; one that is full up only waits.
StartPage ==
    /\ cursor # Unset /\ discovery = "none" /\ candidates = << >>
    /\ cursor' = IF rewindLive THEN [cursor EXCEPT !.live = RewindLive(@)] ELSE cursor
    /\ rewindLive' = FALSE
    /\ discovery' = "metadata"
    /\ UNCHANGED <<chain, complete, stored, dirty, pageStart, candidates,
                   described, jobs, fails, unseen>>

ReadMetadata ==
    /\ discovery = "metadata" /\ discovery' = "live" /\ described' = metadata
    /\ UNCHANGED <<chain, complete, stored, dirty, rewindLive, cursor,
                   pageStart, candidates, jobs, fails, unseen>>

\* pending_bundles_after: of the pending slots between two heights, those
\* that come next in either direction, and the order they are returned in.
Between(low, high) == {s \in Slot : Pending(s) /\ HeightOf(s) \in low .. high}
Lowest(S) == {s \in S : Cardinality({x \in S : x < s}) < PageSize}
Highest(S) == {s \in S : Cardinality({x \in S : x > s}) < PageSize}
Ascending(S) == CHOOSE q \in [1 .. Cardinality(S) -> S] : \A i, j \in DOMAIN q : i < j => q[i] < q[j]

AboveFirst == High(Start, cursor.boundary + 2)   \* mutant: a height between the cursors
LiveLow == High(Start, cursor.boundary + 1)
LiveHigh ==
    LET from == IF cursor.live = Unset THEN LiveLow ELSE High(HeightOf(cursor.live), LiveLow)
    IN  Low(described, from + Span - 1)
LiveRows == Lowest({s \in Between(LiveLow, LiveHigh) : cursor.live = Unset \/ s > cursor.live})
HasLive == cursor.boundary < described /\ Start <= described

BackEnd == Low(cursor.boundary, described)
BackLow ==
    LET top == IF cursor.backfill = Unset THEN BackEnd
               ELSE Low(HeightOf(cursor.backfill), BackEnd)
    IN  High(Start, High(0, top - (Span - 1)))
BackRows == Highest({s \in Between(BackLow, BackEnd) : cursor.backfill = Unset \/ s < cursor.backfill})

\* The page arrives: the cursor moves past it.
Arrive(rows, order) ==
    /\ candidates' = [i \in DOMAIN order |-> [root |-> RootAt(order[i]), slot |-> order[i]]]
    /\ unseen' = unseen \ {RootAt(s) : s \in rows}
    /\ pageStart' = cursor
    /\ discovery' = "none" /\ described' = 0

ReadLive ==
    /\ discovery = "live"
    /\ LET rows == IF HasLive THEN LiveRows ELSE {} IN
       \/ /\ rows # {}
          /\ Arrive(rows, Ascending(rows))
          /\ cursor' = [cursor EXCEPT !.live = Max(rows)]
       \/ /\ HasLive /\ rows = {} /\ LiveHigh < described
          /\ Arrive({}, << >>)
          /\ cursor' = [cursor EXCEPT !.live = LastSlot(LiveHigh)]
       \/ /\ rows = {} /\ (HasLive => LiveHigh = described)
          /\ discovery' = "backfill"
          /\ UNCHANGED <<candidates, unseen, pageStart, cursor, described>>
    /\ UNCHANGED <<chain, complete, stored, dirty, rewindLive, jobs, fails>>

ReadBackfill ==
    /\ discovery = "backfill" /\ Start <= BackEnd
    /\ LET rows == BackRows IN
       \/ /\ rows # {}
          /\ Arrive(rows, Reverse(Ascending(rows)))
          /\ cursor' = [cursor EXCEPT !.backfill = Min(rows)]
       \/ /\ rows = {} /\ BackLow > Start
          /\ Arrive({}, << >>)
          /\ cursor' = [cursor EXCEPT !.backfill = FirstSlot(BackLow)]
    /\ UNCHANGED <<chain, complete, stored, dirty, rewindLive, jobs, fails>>

\* Nothing is left: the pass starts over.
KeptCursor(c) == c                               \* mutant: it never starts over
FreshCursor(c) == [c EXCEPT !.live = Unset, !.backfill = Unset]

Exhausted ==
    /\ discovery = "backfill"
    /\ Start > BackEnd \/ (BackRows = {} /\ BackLow <= Start)
    /\ cursor' = FreshCursor(cursor)
    /\ discovery' = "none" /\ described' = 0
    /\ unseen' = ToFind
    /\ UNCHANGED <<chain, complete, stored, dirty, rewindLive, pageStart,
                   candidates, jobs, fails>>

QueryFails ==
    /\ discovery # "none" /\ discovery' = "none" /\ described' = 0
    /\ fails < MaxFails /\ fails' = fails + 1
    /\ UNCHANGED <<chain, complete, stored, dirty, rewindLive, cursor, pageStart,
                   candidates, jobs, unseen>>

-----------------------------------------------------------------------------
(* Jobs, requests and restarts.                                            *)

EndJob(r) ==
    /\ held' = [held EXCEPT ![r] = "no"]
    /\ tracked' = IF r \in Tracked
                  THEN RemoveAt(tracked, CHOOSE i \in DOMAIN tracked : tracked[i].root = r)
                  ELSE tracked

\* A job that ends well has committed the root; a bad root, one that left
\* the chain, or a transient failure ends without.
Indexed(r) ==
    /\ held[r] # "no" /\ r \notin Bad /\ OnChain(r)
    /\ EndJob(r)
    /\ complete' = complete \cup {r}
    /\ unseen' = unseen \ {r}
    /\ UNCHANGED <<chain, stored, dirty, scan, fails>>

Failed(r) ==
    /\ held[r] # "no"
    /\ \/ (r \in Bad \/ ~OnChain(r)) /\ UNCHANGED fails
       \/ fails < MaxFails /\ fails' = fails + 1
    /\ EndJob(r)
    /\ UNCHANGED <<chain, complete, stored, dirty, scan, unseen>>

Request(r) ==
    /\ held[r] = "no" /\ held' = [held EXCEPT ![r] = "request"]
    /\ fails < MaxFails /\ fails' = fails + 1
    /\ UNCHANGED <<chain, complete, stored, dirty, scan, tracked, unseen>>

\* The next process reads the saved position, with was_paused set.
Restart ==
    /\ fails < MaxFails /\ fails' = fails + 1
    /\ cursor' = stored /\ pageStart' = stored
    /\ candidates' = << >> /\ discovery' = "none" /\ described' = 0 /\ rewindLive' = TRUE
    /\ held' = [r \in Root |-> "no"] /\ tracked' = << >>
    /\ dirty' = FALSE
    /\ unseen' = {}
    /\ UNCHANGED <<chain, complete, stored>>

ScanInit ==
    /\ fork = 1 /\ tip = 0 /\ stable = 0 /\ metadata = 0
    /\ complete = {} /\ stored = Unset
    /\ dirty = FALSE /\ rewindLive = TRUE
    /\ cursor = Unset /\ pageStart = Unset
    /\ candidates = << >> /\ discovery = "none" /\ described = 0
    /\ held = [r \in Root |-> "no"] /\ tracked = << >>
    /\ fails = 0 /\ unseen = {}

Scanner ==
    \/ SetBoundary \/ Schedule \/ StartPage \/ ReadMetadata
    \/ ReadLive \/ ReadBackfill \/ Exhausted

ScanNext ==
    \/ ChainStep \/ Pin \/ Signal \/ Scanner \/ Save \/ QueryFails \/ Restart
    \/ \E r \in Root : Indexed(r) \/ Failed(r) \/ Request(r)

ScanSpec == ScanInit /\ [][ScanNext]_scanVars

\* Metadata is imported for every stored block, the follower's step ends,
\* the loop never blocks for good, and a job of a good root ends well
\* unless it fails, at most MaxFails times.
FairScan ==
    /\ ScanSpec
    /\ WF_scanVars(ChainStep /\ Describe) /\ WF_scanVars(Signal) /\ WF_scanVars(Scanner)
    /\ \A r \in Root : WF_scanVars(Indexed(r) \/ (Failed(r) /\ UNCHANGED fails))

-----------------------------------------------------------------------------
Cursor == [boundary : 0 .. Cardinality(Height), live : Slot \cup {0, Unset}, backfill : Slot \cup {Unset}]

ScanTypeOK ==
    /\ fork \in DOMAIN Forks /\ {tip, stable, metadata, described} \subseteq Height \cup {0}
    /\ complete \subseteq Root /\ unseen \subseteq Root
    /\ {stored, cursor, pageStart} \subseteq Cursor \cup {Unset}
    /\ {dirty, rewindLive} \subseteq BOOLEAN
    /\ candidates \in Seq([root : Root, slot : Slot])
    /\ discovery \in {"none", "metadata", "live", "backfill"}
    /\ held \in [Root -> {"no", "scan", "request"}]
    /\ tracked \in Seq([root : Root, slot : Slot, after : Cursor])
    /\ fails \in 0 .. MaxFails

\* The scan never starts over with a root unproposed that was on the chain,
\* described and pending all through the pass, whatever reorgs, failures and
\* rewinds happened to its neighbours.
PassComplete == [][Exhausted => unseen = {}]_scanVars

Ahead(c, s) ==
    \/ c = Unset
    \/ HeightOf(s) > c.boundary /\ (c.live = Unset \/ s > c.live)
    \/ HeightOf(s) <= c.boundary /\ (c.backfill = Unset \/ s < c.backfill)

\* A saved position replays the oldest outstanding root, or what is left of
\* the page when no job is outstanding, across passes and rewinds.
OldestReplayed ==
    [][stored' # stored =>
         IF tracked # << >> THEN Ahead(stored', Head(tracked).slot)
         ELSE \A i \in DOMAIN candidates : Ahead(stored', candidates[i].slot)]_scanVars

\* A root that stays on the chain is indexed in the end, however many other
\* roots never are.
RootsIndexed ==
    \A r \in Root \ Bad : <>[]OnChain(r) => <>(r \in complete)
====
