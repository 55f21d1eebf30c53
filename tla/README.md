# TLA+ specifications of ar-io-gateway-rs

ar-io-gateway-rs is an Arweave gateway in one Rust process, with PostgreSQL
beside it. It keeps a verified index of the chain and of the ANS-104 bundles on
it, and serves data that it has verified itself: from memory, from a cache on
disk, from nodes and peers. This directory holds TLA+ modules of the parts whose
correctness depends on order, sharing and failure, the TLC models that check
them on small instances, and proofs checked by TLAPS for instances of any size.

Paths below are relative to the repository: `src/indexer.rs` stands for the file
`src/indexer.rs` of the crate. The block at the head of each module says what it
leaves out; `PROJECT.json` maps every definition to the lines it models.

Contents

1. [Inventory](#1-inventory): components, state, operations, hazards
2. [Modules](#2-modules): what models what, and how
3. [Runs](#3-runs): what each model checks, bounds and fairness
4. [Proofs](#4-proofs): what holds for every value of the constants
5. [Findings](#5-findings)
6. [Limits](#6-limits): only model-checked, not modelled
7. [Plan](#7-plan)

---------------------------------------------------------------------------

## 1. Inventory

### How the parts interact

```
 trusted node ──requests──> follow_chain loop ────┐
                            (import_range,        │ transactions
 other nodes, peers          import_metadata)     v
      │                          │ paused     PostgreSQL: block_index_state,
      │                          │ changed     canonical_blocks, blocks, objects,
      │                          v             bundle tables, cache tables
      │                     bundle worker <───────┤ pending roots
      │                     scan, downloads,      │
      │                     writers ──────────────┘ bundle commits
      │                        ^        │
      │                 submit │        │ retrieve (background)
      v                        │        v
 chunk fetches <── flights <── retrieval ──> memory cache, disk cache, spool
 (hedging,                     ^
  permits)                     │ retrieve (foreground)
                          HTTP server: routes, ArNS, manifests, streams
```

The service serves HTTP on one Tokio runtime, whose tasks also refresh the peers
and maintain the disk cache. The bundle worker is a thread with a runtime of its
own: one `select` drives the loop that follows the chain and the loop that
indexes bundles, with downloads and writers as tasks around it. Another thread
publishes the index. `ar-io-index` is a second program that imports a range into
the same database, at the same time if somebody starts it.

### Components

| component | state | operations | depends on |
| --- | --- | --- | --- |
| Chain index: `indexer.rs`, `database.rs` | `block_index_state` (start, imported_through, checkpoint), `canonical_blocks` | `follow_chain_step`, `import_range`, `initialize`, `rewind`, `advance_checkpoint`, `commit_batch` | trusted node, other importers |
| Metadata import: `indexer.rs` | the window of blocks, a queue of batches, a watch channel, a `Notify` | `import_metadata`, `pending_transaction_jobs`, `queue_metadata`, `persist_transaction_metadata` | nodes, block store |
| Block and transaction store: `database.rs` | `blocks`, `block_membership`, `objects` | `write_block_metadata`, `record_transactions` | chain index |
| Bundle store: `database.rs`, migration 010 | bundle progress, items, canonical placements, totals | `commit_bundle_batch`, `refresh_bundle_placements`, `refresh_item_placements`, triggers | block store |
| Bundle worker: `background.rs` | admission counters, two queues, the writers | `submit`, `download_pending`, `run`, `cancel` | scan, retrieval, bundle store |
| Bundle scan: `background.rs`, `database.rs` | cursors, the page, tracked roots, the saved position | `pending_bundle_scan`, `pending_bundles_after`, `scan_checkpoint` | chain index |
| Bundle traversal: `indexer.rs` | a stack of open bundles, a batch | `index_bundle_source`, `persist_bundle` | streaming, filter |
| Bundle reading and inspection: `lib.rs`, `bundle_inspection.rs`, `database.rs` | rows and progress of a bundle | `verify_bundle_item`, `retrieve_bundled_with_hint`, `bundle_location`, `inspect_bundle`, `inspect` | bundle store, retrieval |
| Index filter: `index_filter.rs` | none | a predicate on tags | |
| Shared work: `shared.rs` | a weak map of futures, demand counters | `run`, `retain_content` | |
| Chunk requests: `peers.rs`, `lib.rs` | permits of two pools, slots per origin, `CHUNK_CAPACITY` | `hedged_requests`, `admit_chunk`, `ChunkPermit::drop` | peer registry |
| Peer registry: `peers.rs` | nodes, gateways, chunk statistics | `refresh_nodes`, `fetch_gateways`, `chunk_candidates`, `candidates`, `record_result` | trusted node, other nodes |
| Chunk retrieval: `lib.rs` | chunks in memory, their blocks, shared retrievals | `retrieve_chunk`, `chunk_context`, proofs | chunk requests, chain index |
| Disk cache: `disk_cache.rs`, `lib.rs`, `database.rs` | files by hash, `cache_blobs`, mappings, `pending_bytes`, touches, the publication lock | `store`, `publish_chunk`, `load_content_cache`, `reclaim`, `cleanup` | file system, PostgreSQL |
| Content and spool: `content.rs`, `streaming.rs`, `json_bundle.rs` | spool budget, spool files, chunk streams, views | `reserve`, writers and readers, `slice`, `read_ahead`, `decoded_base64` | retrieval |
| Verified retrieval: `lib.rs` | memory cache, not-found cache, flights | `retrieve`, its sources and their order | everything above |
| HTTP gateway and ArNS: `server.rs` | request permits, response streams, ArNS and manifest caches | handlers, `resolve_arns`, `response_body` and its watchdog | retrieval |
| GraphQL: `database/graphql.rs` | none | one SQL query per request, page cursors | stores |
| Index publication: `index_publication.rs` | `state.json`, `publication.json`, the published view | `publish_once` every minute | bundle store files |
| Verification: `transactions.rs`, `json_bundle.rs`, `historical.rs`, `lib.rs` | none | `authenticate_block`, `verify_block_header`, `verify_transaction`, `verify_block_data_root` | nodes, peers |
| Packing: `packing.rs`, `native/replica.cpp` | none | unpacking of a chunk | RandomX |
| Tag storage: `database.rs`, `database/packed_tags.rs`, migrations 021 to 025 | `tag_names`, `tag_values`, `object_tags`, the preparation of the packed table | `resolve_tags`, `intern_tags`, `record_objects`, `prepare_packed_tags`, triggers | block store |
| Migrations, start-up, diagnostics, profiling | versions; configuration; reports | | |

### What is hard, and what makes each part correct

**Chain index.** An import asks the trusted node a dozen questions one after the
other, and the node's chain may change between any two of them. The answers then
decide one of four database transactions, and a second importer may have changed
the rows meanwhile. A crash leaves whatever was committed. Correct means: the
stored rows are always one gapless linked chain; the checkpoint is never a block
the node can still replace; nothing at or below it ever changes; and when the
node settles, the index reaches its tip, whatever forks it had stored.

**Metadata import.** Selection, fetches, a bounded queue and the writer share one
task and wait for each other; blocks arrive while their predecessors are
selected. The selection query sees a snapshot, its window moves while it runs,
and it is woken by a `Notify`. Correct means: the call ends, it leaves nothing
of its range pending, and no block has two jobs at a time.

**Bundle worker.** Jobs of two kinds compete for slots and bytes and end in many
ways: with a job, with nothing, with an error, a timeout, a full queue, a
cancelled runtime. Correct means: what was reserved comes back exactly once on
each path, requests always keep their share, the thread that also drives the
scan never blocks on a full queue, and every job ends.

**Bundle scan.** Two cursors walk a chain that grows, is rewound and is
described by other threads, with three queries that each see another instant.
Correct means: a pass skips no root that was pending all along, a saved
position replays everything that was outstanding, and every good root of the
final chain is indexed even if others never are.

**Shared work.** Callers join and leave at any time, and only they keep the work
alive. Whether its content is cached depends on who is waiting at that moment.
Correct means: work is not done twice while somebody holds it, a caller's
departure does not hurt the others, and the demand is exact for the work and for
the work inside it.

**Chunk requests.** Every poll is a `select` whose losing branches are dropped in
whatever state they are, two kinds of permits are taken one after the other, and
free capacity is announced by a notification that is not remembered. Correct
means: no permit or slot is lost, nobody sleeps beside a free slot, a chunk is
only reported missing after every source was asked.

**Disk cache.** A publisher makes a file, then a row, then a mapping; the
evictor removes them in the reverse order; readers open files without the lock;
the process may die between any two of these. Space is measured in two steps
without a lock. Correct means: a row leads to a file, a file without a row can be
found again, a file in use stays, the space that must stay free stays free, and
the fair lock that is taken twice cannot block for ever.

**Bundle store.** Three kinds of transactions (blocks, objects, batches of a
bundle) run in READ COMMITTED beside rewinds that cascade into their rows. Each
statement sees another instant, and only some of them take the locks of roots and
ids. Correct means: placements are places on the canonical chain and the earliest
ones known, totals that triggers keep equal what they count, and a root is
complete only when every item is there, whatever batch the traversal resumed at.

**Bundle reading.** What a job stores of a document, another part of the program reads
again by those rows, by hints of other indexes, or page by page while rows are still added.
Correct means: every row leads back to an item that proves its ID, a hint is followed only to
such an item and lies cannot hide a true one within the limits, pages show each child once and
a total is told only when it is final.

**Verification.** Headers come from any source and are believed for their hash, which is
taken of other fields in other ways in seven ages of the chain. The signature of an early
transaction binds its fields without their boundaries; the data root of the whole block fixes the
boundary of its data, and nothing those between its other fields. Correct means, on any of the
three paths that verify: a header and a transaction that pass are the ones that were mined, an early
transaction in its payload and its owner, data are sought where the block has them, and the truth is
not refused.

**Content and responses.** A request holds a permit until its body ends, a large
body lies in a spool within a budget, and the scan waits for the same budget. A
client that stops reading is cut by a watchdog whose deadline the reader moves.
Correct means: a body is cut only when it stalled or ran out of time, every body
ends and gives back what it holds, and the scan is not starved.

**Content.** One view of bytes is cut, described in a cache, restored, read ahead and decoded by
others, and the chunks below it come in any order, of any size, or not at all. Correct means:
whoever reads gets the bytes that the view stands for, in order and each once, or an error.

**Peers.** Nodes are asked what they store while requests report how they did, and what comes
back is merged into what was known. Correct means: no result is undone and nothing that a
silent node said before is lost, no cost and no URL keeps a source from its turn, and the
gateways shown are accounts that the registry named.

**Tags.** The dictionaries are looked up without a lock, locked, added to and referred to in
several statements, while other connections add the same bytes and somebody removes a key.
Correct means: a byte string has one key, no reference dangles, and what was recorded is read back
as it was for ever, also after the rows were packed beside their writers.

**Retrieval.** Callers of one ID share an attempt; sources are parked and come
back; the root is authenticated against the index, the archive or the node; the
chain may change between each two. Correct means: an answer was right at some
moment of the retrieval it came from, and only what no source knows is remembered
as missing.

**Index publication.** A pass reads a directory, hashes what is new, signs a
document and shows a view, while an operator replaces files and a request opens
one by the view it took. Correct means: no file is served under the digest of
another, no pass shows a document that was halfway through its time to live when
it began, whatever file was written last before a crash, and in the end what is
published is what the operator left.

**Index filter and GraphQL.** Pages are separate snapshots of an index that
objects enter, leave and move in. The fingerprints that make a query by owner
fast are kept by triggers that somebody pauses and prepares again. Correct
means: a listing shows no row twice, misses none that was there all along, and no
placement is left without fingerprints while they are said to be ready.

**Chunks.** One proof answers for every offset of the chunk, and its rules depend
on where in the weave it is. The block that it was proven against may be replaced
at any moment. Correct means: what is kept proves each offset it answers for, and
a chunk is told only with a block of the chain of that moment.

**Names and routes.** A name is resolved from accounts that are read one after
the other while they change; its answer is kept for its time to live and its
lease; requests share resolutions. A manifest leads to other content, and an
operator may block any of it meanwhile. Correct means: a name is answered as it
stood within its time to live, never after its lease, and nothing that was
blocked before the last lookup is served by any way that leads to it.

`PROJECT.json` lists the hazards one by one, each at its line, with the
properties that would be violated if it went wrong.

---------------------------------------------------------------------------

## 2. Modules

| module | models | composed with |
| --- | --- | --- |
| `ChainIndex` | import and reorg of the block index | refines `PinnedLog` |
| `PinnedLog` | what readers rely on: a log whose prefix is fixed | |
| `Admission` | the counters of `background.rs`, one action per critical section | |
| `BundlePipeline` | requests, downloads, queues, writers, pause, shutdown | extends `Admission` and implements it |
| `BundleScan` | the scan for pending roots | |
| `TxPipeline` | the import of transaction metadata | |
| `Flights` | shared work and its demand | |
| `CacheBudget` | space for writes of the disk cache | |
| `DiskCache` | files, rows, readers, eviction, crashes | extends `CacheBudget` |
| `HedgedFetch` | requests for a chunk under permits | |
| `Peers` | nodes, their shares and weights, the order of sources, the registry of gateways | |
| `BundleTraversal` | nested bundles, filter, batches, as operators | used by `BundleStore` |
| `BundleStore` | placements, totals and completeness beside rewinds | extends `BundleTraversal` |
| `BundleReads` | bundles as they are stored and read back: framing, rows, retrieval, inspection | |
| `ContentReads` | views of bytes: streams with read-ahead, base64 in JSON, cuts, the cache's description | |
| `TagStore` | dictionaries of names and values, packed references, the packing of old rows | |
| `Authenticity` | headers and transactions: hashes, signatures, data roots, sources | |
| `Serving` | permits, bodies, watchdog, spool and the scan's share of it | |
| `Retrieval` | one ID: caches, flight, sources, authentication | |
| `IndexPublication` | publisher, operator and routes of the index | |
| `FilterIndex` | fingerprints of placements, their triggers and preparation | |
| `GraphqlPages` | listings page by page | |
| `ChunkProof` | Merkle paths of chunks | |
| `ChunkAnchors` | chunks by offset, with the block that proves them | extends `ChainIndex` |
| `ArnsNames` | resolution of names, cache and shared resolution | |
| `Routes` | names, manifests and the blocklist on the way to content | |
| `MC...` | values for the model checker | extends the module named |
| `...Proofs` | theorems and proofs | extends the module named |

`MCPipeline`, `MCGateway`, `MCReads`, `MCParallel` and `MCBundles` check several modules
in one run. Where two of them share no variable, a behaviour moves one of them, the
`focus`: every behaviour of each part is there, and their states add up instead of
multiplying. Where they do share state (`ChunkAnchors` and `ChainIndex`), one focus
moves both.

### ChainIndex

State: `node` and `peak` are the trusted node (external: a tree of blocks given
by the constants `Block`, `At` and `HeightOf`; it moves freely, but never
replaces a block `ConsensusDepth` below the highest block it has shown); `db` is
the row of `block_index_state`, `canon` the table `canonical_blocks`, `imp` the
local variables and the program counter of each call to `import_range`.

One action is one request to the node or one transaction, in the order of the
code: `ReadState`, `ReadInfo`, `ReadTip`; `VerifyPin`, the search `WalkRemote` /
`WalkStored`, `VerifyTip` and `Rewind`; `ReadNext`, `VerifyNext`,
`AdvanceCheckpoint`; `ReadSeed` and `Initialize` for an empty database; then per
batch `VerifyBatchPin`, `FetchBatch`, `VerifyBatch`, `CommitBatch`. Every
`ensure!` that fails is a branch that ends the call. `FollowChainStep` and
`FollowEnd` are the service's loop, `ImportRange` is the command-line program,
`Fail` is a failed request, a timeout or the death of the process.

A block stands for its hash, so weave sizes and encodings, which are functions
of it, are left out. While metadata is pending the follower asks for another
range end; the ends of `ImportRange` stand for those.

`PinnedLog` knows nothing of requests: a log may grow at its end, lose a suffix
above the pinned height, or pin a greater height. `LogSpec` maps the rows of
`canonical_blocks` and the height of the checkpoint to it.

### Admission and BundlePipeline

`Admission` is the mutex: `Reserve` is `reserve_inner`, `Shrink` and `Release` are
the methods of `Reservation`, `SetPaused` and `Close` the two flags. It is also the
abstract specification of the pipeline, which uses these actions as conjuncts of
its own and may touch the counters in no other way (theorem `PipelineAdmits`).

`BundlePipeline` adds where each job is (`stage`), the two channels, the idle
writers and `armed`, the outcome of the guard of the receiving branches. The guard
is evaluated when the loop comes round, not when a job arrives, so a pause may
come too late; the model has that window. `WorkerFails` is `run` returning an
error, which drops the runtime exactly as a cancellation does. The reason for a
refusal beyond the counters (a contended lock, an exhausted spool budget) is
left open: refusing is always possible.

### BundleScan

A slot is one place in a block, `Width` of them per height; `Forks` gives the root
in each slot on successive chains, and a reorg moves to the next one. `cursor`
holds `boundary`, `live` and `backfill` of `BundleScan`; `discovery` says which of
the three statements of the query in progress comes next, and each reads the chain
of its own instant. `dirty`, `rewindLive` are the flags through which the follower
tells the scan about new blocks; `tracked` is `scan_cursors`; `stored` the saved
position. `unseen` is a history variable: the roots that were pending and
described when the pass began and have been so ever since.

### TxPipeline

One call of `import_metadata`, with both of its tasks. `changed` and `closed` are
the watch channel, `permit` the stored permit of the `Notify`, `stream` the state of
`pending_transaction_jobs`, `active` the window, `ready` the channel of batches,
and `batch`, `objects`, `completed`, `busy` the locals of the writer. `Fail` ends the
call anywhere; the next starts from the database. The canonical chain of the
range does not change during the call.

### Flights

A flight is one run of some work; `entry` is the weak map. The number of strong
references is never stored: `Holders` are the callers and the outer works that
hold a flight, and the weak reference upgrades while there is one. A call takes
three steps (join or start under the mutex, count the interest outside it, be
answered or leave), so does a nested call (`CallInner`, `AddParent`, `Finish`), and the
future is dropped a moment after its last holder (`Drop`).

### CacheBudget and DiskCache

`CacheBudget` is one write from its reservation to its end, with the two
measurements of `admit` as two actions. `DiskCache` joins it with the steps of a
publisher (`Begin` .. `Map`), of lookups with the publication lock (`Lookup`, `Hit`,
`Stale`, `Forget`) and without it (`Find`, `OpenFile`, `LockFile`, `Serve`), and of
`reclaim` (`Choose` .. `Unlink`). `inside` holds the read side of the fair lock; while
the evictor waits or works (`evict # "idle"`) nobody can take it. `file` is what a
reader has open: a file that was unlinked or replaced stays readable ("gone").
`Damage`, `Fail`, `EvictFails` and `Crash` are the faults; `Cleanup` is the command that
removes files without rows.

Two details of the code are visible here. `store` tries for the lock its caller
already holds and gives up instead of waiting, because a waiting evictor would
stand between the two. And on the path of a duplicate the reservation goes before
the temporary file (`Duplicate`, `DropDuplicate`), the other way round than the
comment at `src/disk_cache.rs:63` describes; the bytes are on the disk then, so the
measurement of another write counts them and `FreeKept` holds.

### HedgedFetch

Per fetch: `attempted`, `active`, `exhausted` and `outcome` are the locals of
`hedged_requests`; `admission`, `untried`, `full`, `notified` those of `admit_chunk`;
`dropping` and `silent` the drop of permits and the notification that follows it.
`queue` is the fair semaphore of each pool. `Found`, `Rejected`, `TimeOut`, `Cancel` are
the branches that drop an admission under way; `admit_chunk` does not await
between its permit and the end of its search, so they wait for the state
"trying" to pass.

### Peers

`nodes` and `stats` are the state under the lock. `ListNodes` takes the list of the trusted node,
`Observe` and `Silent` are one request each, `MergeNodes` the critical section that joins what they
said with what was known; `RecordResult` and `RecordChunkResult` come from requests at any time.
`ChunkList` and `NodeList` are the orders in which sources are asked, with the rotation among equals
and the probe of a cost that would never get a turn; `InOrder` lists a set by how many of it come before each. `ReadRegistry` .. `ShowGateways` read the
registry of the network account by account; `Ledger` is the network, slot by slot, which moves
between the batches.

### BundleTraversal and BundleStore

`BundleTraversal` walks what a bundle contains (`Contents`) with the stack of the
code: `NextBatch` goes on where the last batch ended, `Kept` is the filter, and
a bundle nested deeper than `MaxDepth` fails the job, as does a batch that passes more than `Fuel` entries. A path of places stands for
the offsets of the code; `Expected` is the reference, the items of a root by definition.

`BundleStore` has the rows as committed (`described`, `known`, `located`, `done`,
`placement`, `totals`) and one transaction per connection in `tx`. Statements that
read take a snapshot of that moment; what they then write waits for locks and is
applied to the rows as they are by then: `BeginMetadata` .. `UpsertItems` for a block,
`BeginObject`, `WriteObject` for an object, `BeginBatch` .. `UpsertBatch` for a batch, each
up to `Commit` or `Abort`. `Extend`, `Advance` and `Rewind` are the transactions of the
chain follower, with what cascades. Triggers are part of the statement that fires
them.

### BundleReads

`docs` are the documents of one root, each a table of sizes with an item at each entry, or
bytes that are none (`Junk`). `Framed` is the table that ends with the document, `Proven` the
rules that tie an item to an ID: by its signature, by its content, by its ID as an early item
or in JSON. `CommitRows` is the job that stores them batch by batch; `Rows` is what it would
store in all. The readers work beside it: `Located` and `VerifyIndexed` are retrieval by the
stored rows, `Search` .. `NoPath` the search for a way from an item up to a transaction by what
other indexes say (`Hints`, true ones with lies among them), `Inspect` .. `ReadChildren` the
three statements of a page of the index, `InspectRemote` .. `RangesFail` the ranges of a page
of a remote copy, each asked of any source that still answers. One reading per behaviour.

### ContentReads

`view` is a `Content`: bytes in memory or in a file, a range of a transaction whose chunks are
fetched (`Streamed`), or base64 inside such a range (`Base64`). `meaning` is a ghost, the bytes it stands
for. `CutView`, `Restore`, `Materialize` and `Open` make one view of another, `ReadAt` and `Deliver` read it.
Below a reader `pass` is the window of requests of `read_ahead`: `Issue` asks for chunks at the
largest size, `Answer` comes in any order, `TakeAhead`, `AskGap` and `GiveGap` hand out what is next and ask
for what lay between. `DecodeNext` decodes a block from the checkpoint before it. `Missing` and
`FileLost` are the faults.

### TagStore

One transaction per connection in `recording`: `Lookup` in both dictionaries, `Take` the advisory locks
of what is missing, `Intern` what is missing still, then the objects (`LockObjects`, `WriteObjects`), their
references (`WriteTags`) and the commit; `apart` says whether the tags have a transaction of their own, as
in `record_objects`. `held` are locks until the end, `fresh` what the transaction added and only it
sees. `removing` is a deletion of a key with its trigger. Beside it, `rowsOf`, `packed`, `prep`, `oldWrite` and
`copying` are the preparation of the packed table: writers of rows with their trigger (`ChangeRows`,
`Mirror`, `CommitOldRows`), batches of the copy (`SelectKeys` .. `CommitBatch`) and the `Cutover`.

### Authenticity

`block` is the block in question, with its entry in the trusted index and its transactions as they
were signed; `belief` is what one of the three callers (`block_metadata`,
`transaction_metadata`, `authenticate_root`) has gathered: objects, a header, who was asked for
it. `AskHeader` is a turn of `authenticate_block`, `Fetch` is `fetch_transaction` with any answer
that `TxVerified`, `Conclude` the data root, `Place` the offset of the data. `Metadata` keeps the
fields that `verify_transaction` returns, with the boundaries the source gave them; `Fixed` are those that
`Authentic` promises, of an early transaction without target, quantity, reward, anchor and tags. A string is a
sequence of digits below `Radix`, so that lengths of one to three digits are as short beside it
as those of the code; the table of fields (`Since26` ..) is the order in which
`post_2_6_signed_hash` appends them, `Before26` and `Before25` are the trees. A hash is the thing it is
taken of and a signature the message.

### Serving

`phase` is where each request is, `clock` its deadlines and the watchdog's next
wake-up, counted down by `Tick`; `quiet` is a ghost that counts since the client
last read. `work` is the one shared retrieval that fills a spool file, `orphans` the
blocking tasks that go on after their future was dropped, `slot` the reservation
that the scan hands to its download through a task local. `used` is the budget.

### Retrieval

`asker` is where each caller is; `flight` the shared attempt with the locals of
`retrieve_shared`: the sources it parked, the root it is authenticating, the block it
took as anchor. `node` and `local` are the chain of the trusted node and of the index,
as numbers of the block at the height of the data. `cached`, `saved` and `missing` are
the three caches; entries of the persistent one belong to a block.

### IndexPublication

`disk` holds a version for each file, which stands for bytes and time of
modification. A pass goes file by file: `ReadManifest`, `Stat`, `HashFile`, then the
writes `WriteTorrent`, `Sign` (publication.json) and `SaveState`, each with a crash or a
failure before it, and `Show`, before which the view may fail to be built. `pass.now` is the time the pass
took when it began; `now` goes on meanwhile. `reader` is a request that takes an entry of the view
(`TakeEntry`) and then opens its file, comparing length and time (`OpenFile`).

### FilterIndex and GraphqlPages

`FilterIndex` has one writer per connection, who records objects and places them,
and the steps of `prepare_graphql_indexes` and of the pause. A fingerprint is a
function of metadata that is complete, so a placement has the right one or none.

`GraphqlPages` builds each page as the query does: candidates by the shape that
the filters select, the cursor as a bound on the tuple that orders the rows, the
limit. A page is the set of its rows with the branches that found them; the order inside it is
that of the tuples. `Meant` is the reference: what answers the filters, by definition. `shown` is
what the client has, `steady` a ghost, the rows that answered ever since it began.

### ChunkProof and ChunkAnchors

`ChunkProof` narrows bounds branch by branch (`Narrow`), with the rebased trees and
the three rules of a split, by the position in the weave. A chunk that was proven
is kept with its interval.

`ChunkAnchors` is `retrieve_chunk`: `asking` and `work` are the callers and the shared
retrieval of each offset, `memory` the cache. A search on the node is one request
per step, and the index may be read before or after it, while `ChainIndex` moves
both chains.

### ArnsNames and Routes

`ArnsNames` reads the accounts one after the other; `log` is a ghost of what the
registry said when, `cache` and `config` the entries with the time they expire.
`Tick` moves time. `Routes` follows one request from a name or an ID through
manifests to bytes, with each lookup of the blocklist as a step of its own, and
answers with the hash of what it serves; the operator edits the blocklist between
any two of them.

---------------------------------------------------------------------------

## 3. Runs

Run one with `tlc -config <cfg> <module>`. Every property of a passing run also has
a mutant in `PROJECT.json`: a definition of the model changed the way a plausible
bug would change the code, under which the property is violated. The mutated
forms stand beside the definitions they replace, marked `mutant`.

| run | module, cfg | properties | what it shows |
| --- | --- | --- | --- |
| chain_follow | `MCChainIndex`, `MCChainFollow` | StableAnswersFinal, LogSpec, CatchesUp | the service alone, through reorgs, a failure and restarts: the answers below its checkpoint are final, the index implements `PinnedLog`, and it reaches the node's best chain whatever it had stored |
| parallel | `MCParallel`, `MCParallel` | ChainLinked, ProtectedPrefix, NameCurrent, BlockedHidden, ChunkCurrent, PeersKept | service and `ar-io-index` at once splice no forks and never touch the prefix; a chunk is told only with a block of the chain; names keep to their time to live and lease; nothing blocked is served; a refresh of the peers loses nothing that requests reported, and every cost comes first in some list |
| chain_two_pin | `MCChainIndex`, `MCChainTwoPin` | PinStored (violated) | the first finding below |
| pipeline | `MCPipeline`, `MCPipeline` | RoomForDownloads, RequestsAdmitted, OneJobPerBlock, EveryJobEnds, ImportCompletes | bundles: requests and downloads keep their share, every job ends, also in a worker that is cancelled; metadata: one job per block, and the call ends with nothing of its range pending |
| scan | `MCBundleScan`, `MCScan` | PassComplete, OldestReplayed, RootsIndexed | a pass skips nothing and a saved position loses nothing, with reorgs that move roots up and down, failing queries and jobs, requests and restarts; every good root of the final chain is indexed while a bad one is retried for ever |
| flights | `Flights`, `MCFlights` | DemandSeen, CallersAnswered | callers join and leave in any order; work knows its demand exactly, and answers who stays |
| reads | `MCReads`, `MCReads` | RowsAndFiles, InUseKept, FreeKept, ReclaimEnds, IntervalProven, FingerprintsKept, ListingExact | two publishers, a reader and the evictor on one blob, with one fault of any kind; every proof of two paths; fingerprints under writers, preparation and pauses; listings of every shape over an index that changes |
| hedge | `MCHedgedFetch`, `MCHedge` | AllAsked, FetchEnds | two background fetches and a request compete for two origins of one slot |
| store | `MCBundles`, `MCBundles` | PlacementsCanonical, IndexExact, BundlesServed, BundlePages, ContentExact, TagsExact, Authentic | two connections describe, record and index two roots that share a nested bundle, while the chain forks and forks back; what a job stores of any document is what retrieval by those rows accepts, a search along hints ends at a proven item and is not led away by lies, and pages of a bundle fit together while it is stored; a view of bytes gives these bytes however it was cut, restored, read ahead or decoded; tags are read back as they were recorded beside other writers, removals of keys and the packing of old rows; what passes of a header, a transaction or the payload of an early transaction is what was mined, whatever its sources answer |
| store_twice | `MCBundleStore`, `MCStoreTwice` | PlacementsCanonical (violated) | the second finding |
| gateway | `MCGateway`, `MCGateway` | RetrievalSound, StallOnly, ServingEnds, PublicationSound, IndexSettles | bodies and the scan on one spool file and one permit; a publisher overtaken by its operator, with a crash or a failed write; two callers of one item, parked sources, three caches and a reorg |
| filters_replayed | `FilterIndex`, `MCFiltersReplayed` | FingerprintsKept (violated) | the third finding |

### Bounds, and why they suffice

- **chain_follow, parallel (importers).** Heights 0..4 with depth 2, or 0..3 with
  depth 1; batches of two entries, so that every batch overlaps its predecessor by
  one entry and adds one; trees with one fork. Depth 2 leaves two heights that can
  be replaced, which makes the search for the ancestor walk, fail and stop at the
  checkpoint; batches of two are cut at every height. One failure may strike at
  any step and stands for a crash as well. Two importers need no failures: their
  transactions already refuse each other. The chain of the node forks at any
  height beside them and does not get shorter; beside the one importer of
  chain_follow it does.
- **parallel (chunks, names, routes).** One request for one of two offsets that
  lie in different blocks on different forks, beside an importer that follows the
  chain; a memory of one entry. A name with one undername, two callers, one change
  of owner in three ticks: times to live of one to three and a lease of two expire
  on either side of each other. Two requests with the same ID, by name, through
  two manifests and directly; one edit of the blocklist. Peers: two public nodes and a
  configured source, one bucket, a probe every third list (eighth in the code), one
  slot per origin, three events in any order; a registry of four that changes twice
  while it is read in batches of two.
- **pipeline.** Two downloads, one request slot (8 in the code) and two writers
  (6) give three jobs and four roots, one more than fit. Sizes 1 and 3 of 6 bytes
  make bytes and slots run out separately, and let a job shrink. `MaxRounds` = 5
  jobs fill, drain and refill every queue. A block of three transactions does not
  fit a selection or a batch of two, one block is empty, four blocks do not fit a
  window of two.
- **scan.** Two roots that exchange their heights are the smallest reorg that
  moves one root below a cursor and the other above it. A page of one root is full
  each time, a span of two heights (1000 in the code) is the smallest that advances.
- **flights.** Two outer keys share one inner; two foreground callers and a
  background one; four flights allow one to be started anew after it was dropped.
- **reads.** One blob of one byte: the races are between actors on the same blob.
  Two reservations fit, the disk has room for three bytes and one must stay free.
  Proofs: blocks of five bytes at each of three positions of the weave, one per
  band of rules, chunks of at most two bytes, paths of up to two branches or a
  rebase and a branch, every note and side. Fingerprints: two keys, one of them in a
  bundle, two connections, a backfill of one row per step, one failure. Listings:
  a bundle, its two items, which tie in everything but their ids, and a
  transaction, under eleven queries that cover each shape; two changes of the
  index during a listing.
- **hedge.** Two sources, one slot each, one permit per pool: every resource can
  run out alone, and two pools meet at the origins.
- **store.** Two connections, exchanged by a symmetry (the run checks invariants
  only). Two roots share a nested bundle; one item comes twice, one is nested too deep, one is filtered out; batches of two are cut inside the nested bundle. Two
  heights and the forks A, B, A bring blocks back that were described before. Documents
  of up to two entries out of eight kinds (proven by signature, listed under another ID,
  forged, unsigned, early, cut short, two bundles), with four contents of the bundle, and
  bundles as deep as the limit of three and one deeper; `MaxPaths` = 4 (64 in the code) is
  reached by the lies of one source, batches and pages of one row are cut everywhere.
  Headers of six heights, one in each age whose encoding differs; of each pair of neighbouring
  fields all values of a few lengths, so that bytes could move between them. Four
  blocks with transactions: early ones, both formats together, an early one with
  a denomination beside it, one without a key; of each early one every way to cut the signed
  string. A string of nine characters with an escape under three chunkings, none of which is
  aligned to it; a window of two requests (63 in the background, 7 else), decoding by
  two characters, four operations on a view and one fault. Tags: two connections, two
  batches that disagree about an object and use the same bytes as a name and a value, two
  keys per dictionary, so that a failed transaction leaves a gap; three objects with or
  without rows, packed one at a time.
- **gateway.** Two requests and the scan compete for one permit and one file. Bodies
  of two reads, idle deadline two, total deadline three: both strike, and the
  watchdog wakes before and after a read moved it. Three writes of the operator and
  four ticks let a document reach half of its life, before a pass and during one, and be overtaken; one fault.
  Two callers and two sources, one of which may know the item; one reorganisation.

`CHECK_DEADLOCK FALSE` stands where a run may stop: a worker that was cancelled
or has started its last job, a call that has returned, callers for which no flight
is left, fetches that have ended, changes that are used up. The importer of
chain_follow and the scan can always go on, and TLC checks it.

### Fairness

Fairness is assumed only of what the code does by itself:

- `ChainIndex`: `follow_chain` calls `follow_chain_step` again after every return
  and error, and each request has a deadline. The node, the command-line importer
  and failures are not fair. `CatchesUp` asks for the node to stay at its best
  chain in the end, and for nothing else.
- `BundlePipeline`: downloads and writes end by their timeouts, handlers go on to
  enqueue. The consumer is weakly fair in coming round (it polls every second)
  and strongly fair in each of its queues, because Tokio's `select!` picks a ready
  branch at random. Pauses and cancellation are not fair; `EveryJobEnds` therefore
  excepts a worker that stays paused.
- `BundleScan`: the loop, metadata of stored blocks, the follower's signal, and
  jobs of good roots. New blocks and reorgs are not fair.
- `TxPipeline`: weak fairness of the whole call. All of its steps run in two
  tasks of finite work, so no step can be passed over for ever.
- `Flights`: every caller is polled and every work with a caller runs on.
- `DiskCache`: publishers, lookups and the evictor. Responses are not: a client
  may read one as slowly as it likes, and `ReclaimEnds` holds all the same.
- `HedgedFetch`: local steps of a fetch, and a request under way, which answers or
  meets its deadline.
- `Serving`: the shared retrieval, the tasks of a response, its watchdog and the
  clock. A client is not fair: it may stop reading or leave. `ServingEnds` holds
  all the same.
- `IndexPublication`: the loop of the publisher, which starts a pass every minute,
  and the clock. The operator is not fair; `Settles` speaks of files that stay.
- `BundleStore`, `BundleReads`, `ContentReads`, `TagStore`, `Peers`, `Authenticity`, `FilterIndex`, `GraphqlPages`, `ChunkProof`, `ArnsNames`, `Routes`,
  `ChunkAnchors` and `Retrieval` assume no fairness and state safety only.

---------------------------------------------------------------------------

## 4. Proofs

Checked with `tlapm` (SMT, Zenon, LS4). Each theorem holds for every value of the
constants that satisfies the module's assumptions; TLC evaluates the same
assumptions on the instances of the runs. All follow one scheme: an inductive
invariant holds initially, each action keeps it (one lemma per action or per
kind of action), and the property follows from it.

| module | theorems | inductive invariant |
| --- | --- | --- |
| `ChainIndexProofs` | ChainInvariant, ChainTypes, ChainAlwaysLinked, PinAlwaysFinal, PrefixAlwaysProtected, IndexIsPinnedLog | `IInv` |
| | StableAnswersAlwaysFinal | `IInv /\ SoleInv` |
| | ChunksAlwaysCurrent | `IInv /\ AnchorsInv` |
| `PipelineProofs` | SlotsAlwaysCounted (and SlotsAlwaysBounded), BytesAlwaysCounted | `SlotsInv`, `BytesCounted` |
| | PipelineAdmits, PipelineSlotsBounded, JobsAlwaysOwn, RoomAlwaysLeft, RequestsAlwaysAdmitted | `JobsInv /\ SlotsInv`, `RequestsOwn` |
| | OneJobAlways | `TxInv` |
| `WorkProofs` | AlwaysOneFlight, AlwaysSeen, DemandAlwaysEnds | `FlightsInv` |
| | PassAlwaysComplete | `ScanInv` |
| | OldestAlwaysReplayed | `ScanInv /\ PageInv` |
| `ReadsProofs` | RowsAndFilesAgree, InUseAlwaysKept | `DiskInv` |
| | PendingAlwaysCounted, FreeAlwaysKept | `DiskInv /\ BudgetInv` |
| | FingerprintsAlwaysKept | `FilterInv` |
| | ListingAlwaysExact | `PagesInv` |
| `GatewayProofs` | ServedAlwaysAsHashed, PassAlwaysRenews, PublicationAlwaysSound | `PublicationInv` |
| | AnswersAlwaysCurrent, MissingAlwaysHonest, RetrievalAlwaysSound | `RetrievalInv` |
| | OnlyStallsCut | `StallInv` |
| | PeersAlwaysKept | `PeersInv` |
| `StoreProofs` | TagsAlwaysExact | `DictInv /\ PackInv` |
| | PlacementsAlwaysCanonical | `PlacesInv` |
| | TotalsAlwaysExact, IndexAlwaysExact | `TotalsInv`, `FoundInv` |
| `RequestProofs` | NeverOversleeps, MissMeansAllAsked | `FetchInv` |
| | BlockedAlwaysHidden | `RoutesInv` |
| | NamesAlwaysCurrent | `NamesInv` |
| | IntervalAlwaysProven | `ProvenInv` |
| `Tallies` | lemmas about sums, least and greatest numbers, and induction | |

**ChainIndex.** `ChainLinked` is not inductive: whether a batch links depends on
what the importer learnt several requests ago. `LocalOK` says what each local means at
each program counter: a pin that was read is final, a `next` that was verified is
final and at the stable height, a batch that was fetched ends where it should. The
heart of it is `FinalKept`, that whatever the node does a final block stays on
its chain; it makes a local true once verified stay true while others move. Then
`Rewind` and `CommitBatch` need only what they compare in their own transaction.
`PrefixAlwaysProtected` follows from the invariant at each step. Assumed of the
tree: ancestors are blocks of the right height, and the ancestor of an ancestor
is the ancestor (`TreeAssumption`). `IInv` is an invariant for any number of
importers, so the finding below is no contradiction: `PinStored` is not part of it.
`StableAnswersFinal` is, in part, what the finding breaks, so its theorem assumes that
one caller imports (`Alone`). `SoleInv` then adds what a second importer would undo
between two requests: the checkpoint and the end of the index that the call read are still
the stored ones, and at each step of the search, of the advance and of the fetch the rows
that the next checkpoint will cover are final. `IndexIsPinnedLog` is the refinement of
`PinnedLog` under the mapping of `Log`: each transaction is one append, one replacement above
the pin or one raise of it, and every other action, crashes included, leaves the log alone.

**ChunkAnchors** is composed with the index: importers write and the node moves between any two
requests of a retrieval. `AnchorsInv` says that a geometry, in memory or in hand, is that of some block
which holds the offset, whether or not that block is still on the chain, so the comparison before a
chunk is told is enough. `Bracketed` says of the search that the block it looks for is between its
ends, all at heights the node has settled (`StillShown`), so the answers of different requests belong to one
chain and the search does not end beside it.

**Admission and BundlePipeline.** `SlotsInv` joins the types, the count and the
bound: the bound is a comparison of the counter, and needs the count to speak of
reservations. `PipelineAdmits` shows that every step of the threads is a critical
section of `Admission` or leaves the counters alone, so the bound is inherited.
`JobsInv` adds that each channel holds distinct roots of the right stage and that
what is downloaded or ready was reserved by the scan; the roots downloading and
the roots in the queue are then disjoint sets of scheduled reservations, at most
`MaxJobs - RequestSlots` = `Downloads` together, which is `RoomForDownloads`. It
needs `MaxJobs = Downloads + RequestSlots` and the headroom, as the service starts it
(`PipelineAssumption`).

The byte counters are sums over reservations. A sum is stated in `Tallies` as the number
of pairs of a reservation and one of its bytes, and a step then adds or removes a
set of pairs, whose size the library's theorems give; no induction over the set is
needed. With the counters exact (`BytesCounted`), `RequestsAlwaysAdmitted` is the inequality
the code's headroom is for, and needs only that requests own what is in their channel
(`RequestsOwn`) and that some slots are kept for them (`RequestSlots # 0`; it is `MAX_JOBS` less the
slots of the scan).

**BundleScan.** `unseen` alone says nothing of why a root will still be found. `PassInv` does: for each root in it there
is a height up to which the root was described when the pass began, and every place of the root below that height is
still to come (`ToCome`): above the boundary and beyond the live cursor, unless the query is at the backfill, or not above the boundary
and before the backfill cursor. While a query runs, the metadata height it has read covers this height; a
reorg lowers the metadata height and takes with it the roots whose places it removes (`ChainMoves`), and a root that it moves
keeps its places below. A page is the lowest or the highest of what is pending, so what it leaves
is behind it (`LowestTells`, `HighestTells`), and the cursor over an empty span stops at the end of a height. At the end of
a pass nothing is to come, so nothing is unseen (`ExhaustedFinds`). `PageInv` says of every tracked root and every candidate that
its slot is ahead of the cursor taken before its page; a checkpoint only lowers the live part of one of these. The theorems need that
a saved position cannot be taken for none (`ScanAssumption`) and nothing of the forks: a reorg in the model is one that keeps what both
forks share up to the tip it leaves.

**TxPipeline.** A job moves through five places, two of them sequences and one a sequence of sequences. `TxInv` says
of each place which blocks are in it, that no two of these sets meet and that what a job still
has to record is neither recorded nor collected; the window is then their union with the blocks that
wait for their batch. The selection needs one fact more: while it runs, every block in the window is among
those it leaves out, because blocks leave the window meanwhile and none enters.

**Flights.** `OneFlight` needs `Listed`: the map finds every flight that somebody
holds. `Tallied` says that the foreground counter of a flight is the number of
counted foreground callers at it, `Linked` that work which waits for inner work is
among its parents. The two `Demand` theorems follow from these.

**DiskCache.** `Evicting` says that the write side of the lock excludes publishers and
that victims lost their rows before their files; `Publishing` says that a
publisher past the file system has its file. Neither row nor file property is
inductive without the other's actor. Neither uses the sizes. `FreeKept` does: it is about
writes that measure the file system and the counter of reserved bytes one after the other
while others do the same. `Snapshots` orders the writers that hold a measurement by the time
they took it: each one's bytes and those of all that measured before it still fit below
what it saw. A write that completes moves its bytes from the counter to the disk, and is in
the measurement of everyone who comes later once or twice, never in neither.

**FilterIndex.** Two transactions about one object exclude each other by three locks, none of which suffices
alone (`Apart`). `Printed` says of each transaction past its first statement that, while the
triggers are enabled, it brings the fingerprints of what it places or completes; enabling them waits for
all who wrote a table, so nobody has read that they are disabled. `Filling` says that what a preparation
has passed is filled, and needs that a batch of keys is the lowest that are left. The theorem assumes that
reorgs bring no described block back (`~Replay`); with that, the third finding breaks it.

**GraphqlPages.** A page is cut from a set in which every row that is still to be shown is found once (`PageCut`): the set of
`Base` itself, or that of the branches, which are apart because a row has one owner, and one first position of its recipient in the
list (`OwnersCover`, `RecipientsCover`). That limiting each branch loses nothing is `LowestMerged`: take the first row
that a branch dropped; everything before it in that branch was kept, and that is as many rows as a page has. `PagesInv`
says that what was shown is not beyond the cursor and that what answers all the time and is not beyond it was shown
once. A page moves the cursor to its last row, and what it leaves out is after that row and announced by the one row more that the query asks
for (`LowestFirst`, `LowestAll`). The client may start anywhere, and a row that moves is no longer the row it was. Counts of rows come
from cardinalities; the first and the last row of a set from the least and the greatest count.

**TagStore.** Lookups take no lock, so what a transaction knows of a dictionary may be old.
`OwnKeys` says what survives: a key that was looked up is the key of these bytes or of none any more.
`FreshKeys` says of what a transaction added that it holds the lock of the bytes, that nobody has them
and that the keys are above all others, because a lock was noted for whatever was missing (`Locked`)
and is held by the time something is added. Two transactions cannot hold one lock (`Distinct`), so
what they add differs in bytes and keys and a commit keeps the dictionaries one to one. References
are compared with the dictionaries as the transaction sees them, and no key is removed between that and
the commit (`Removal`). An object is described by one of them, who holds its lock (`Progress`).
The packing is the other half, `PackInv`: of a staged table every object is packed as it stands or is still
ahead of the copy, and what a batch has copied stays as it is while it holds the locks, because a writer
whose trigger has run holds the lock of its object.

**BundleStore.** A placement is written from a snapshot and checked again only against the row it meets,
so what is right of it has to be said of transactions that have not committed. `PlacesInv` says of each
one: what it has computed or written is a place on the chain that it may see, no higher than the block or
the root it works for (`SoundIn`); that block or root is stable or guarded, so a rewind leaves it (`Holding`);
and its rows are no worse than the places its commit makes certain, of its roots (`MembersCovered`), of the items
stored before it (`ItemsCovered`) and of the items it adds (`BatchCovered`). `AllCovered` is the same of the committed
rows. A commit passes the last three on to it; `OwnGrows` says that it disturbs nobody else, because locked rows are
apart (`Apart`) and a block whose roots are locked gets no items meanwhile. The theorem assumes that a transaction is in
one block of a chain (`RootsOnce`), which `store_twice` shows to be needed.

The totals are kept by differences: each transaction adds to them, when it commits, what its triggers noted row
by row (`delta`). `TotalsInv` gives every transaction the rows that it alone can change, those it has locked or
described (`Claimed`, and `ClaimsApart`), and says that its difference is the number of these rows as it leaves them less their number as they
are committed (`Balanced`). A commit then moves the totals by the sizes of two sets of rows, and the triggers of completed
roots by a third (`CommitTotals`); a rewind takes rows that are in no balance, because it waits for the guards of those who hold others
(`KnownSafe`).

`IndexAlwaysExact` adds that a complete root has the items of its tree and no others. The levels of
`Expected` and the loop of the traversal are computed in different ways, one across the tree and the other down and along it;
what joins them is the order of the paths. A stack of frames in which each is at the entry after the one it opened
(`StackOn`) stands for a place in that order, and the items before it (`Over`, `Passed`) are those that the traversal has
passed: a turn of the loop adds exactly the item it takes, the end of a bundle adds none. So what a job has passed
is stored or in its batch (`FoundInv`), whatever the others do, and when the stack is empty it has
passed everything. The lemmas take the existence of the two recursive functions from the natural numbers that their definitions reach
(`LevelRuns`, `NextBatchRuns`).

The proof found a fault of an earlier version of the model: its `Rewind` did not wait for a row
that a transaction had locked and whose committed place the cascade would delete. It waits now, as the database does.

**HedgedFetch.** `Alert` extends `NoLostWakeup` from waiting fetches to all that
listen: it is true from the moment a fetch enters the queue, because
`admit_chunk` listens before it looks. `Asked` keeps `exhausted` honest.

**IndexPublication.** A digest that is right when it is taken may belong to a file
that was replaced since. `Faithful` says of a time and a digest: the digest is that of
the bytes of this time, or no file has this time any more and none will have it
again. All that a pass, `state.json`, the published document and the view hold is
faithful, and opening a file compares its time, so what is served has its digest.
`Issuing` bounds the age that the document had when the pass began, at each step of it, also when the state
lags behind the document after a crash. It assumes that no time of modification is used twice.

**Retrieval.** `SettledAnswer` says that an answer marked stable is the block the node
has for good; `AttemptSound` carries it through the steps of an authentication, whose
requests see the node at different moments. `FlightAsked` says who has been asked at
each stage, so that a flight which ends with nothing has asked every source that is
not parked.

**Serving.** A body has one deadline that its reads move and a watchdog that may look too late
or too early. `StallInv` relates the clock to the last read: the deadline that is set is never
earlier than the idle time after it, or is the end of the total time.

**Peers.** A merge is one critical section, so what was recorded meanwhile is there to be kept (`MergeKept`). Lists
are the harder half. Costs are compared as fractions, and the order of the lists is one because these are ordered (`FractionsOrdered`,
`CostOrders`); equals stand together in a list (`EqualsTogether`), so whoever takes the turn of one is one of them
(`TurnTaken`), and the places with a free slot come first (`FreeFirst`), among which there is a list whose probe falls on any
(`ProbeFalls`). An earlier version of `Explored` said that each *source* with a free slot comes first in some list. It held in the run
and not in the proof; what is wrong with it is under Limits. `SurveyInv` says of the accounts that were read that they are of the
slot of the registry or later, and that every entry that is no longer to be read was answered.

**Routes.** `Clear` says of each request, at each stage of its way, that what it has passed
by was not on the list when it came: its name once it is past the name, every ID on its
way, and every hash but the one it is about to compare. What an edit takes off the list no
longer counts. It needs that a name is never the empty string (`RoutesAssumption`), which stands
for a request by ID.

**ArnsNames.** An entry of the cache is a promise about the past, `Kept`: it is witnessed by two
moments of the log, one of the record and a later one of the account, no older than the time
to live allows until the entry expires. Resolutions under way keep the first moment (`Running`).
As the log only grows, a promise lasts until its entry expires, and the cache answers
from live entries only.

**ChunkProof.** A proof is a fold over a path, and what a recursive definition computes is out of reach of an induction over data.
The lemmas go another way: a fold is the last of a run of steps that the definition itself gives (`NarrowSteps`,
`RebaseSteps`), and a fact about each step of the run is one about a set of numbers. Of two runs for two bytes, the second has taken the
same side of each branch as the first if its byte lies within the bounds of the first (`Together`, `OneTree`); a byte of the interval does.
`ProvenInv` says that the chunk in the cache was proved by some paths for some byte, and the rest is arithmetic
on the offsets.

Not proved, with the reason: liveness (outside the prover), and the properties
named in the next section.

---------------------------------------------------------------------------

## 5. Findings

`chain_two_pin` (code_bug, `src/database.rs:1495`). `advance_checkpoint` compares the
stored checkpoint, not the canonical row of the new height. With two importers on one
database, a batch of the second can be committed between the first one's reorg
search and its UPDATE. If it holds a block of a fork that the node then left, that
block stays stored at the pinned height. `validate_batch` asserts the contrary of
each block it admits, "block conflicts with pinned checkpoint" (`src/database.rs:3542`).
From then on every import ends with "reorg crosses protected checkpoint"
(`src/indexer.rs:176`), because the search may not go below the checkpoint and finds
no common block above it. It takes a node whose chain moves by `CONSENSUS_DEPTH`
blocks between two requests, as one that was cut off and rejoins does. One importer
alone cannot do it: `chain_follow` shows `StableAnswersFinal` and `CatchesUp`.

`store_twice` (code_bug, `src/database.rs:1808`). `write_block_metadata` locks the bundle
roots and the IDs of a block only when the block has no timestamp yet. When a reorg
returns to a block that was described before, a root in it gains an earlier place
without the lock, beside a `commit_bundle_batch` of that root: the batch reads the
older place for its new items, and the refresh of items does not see them yet. The
items stay at the later block. The comments say otherwise: "Serialize root membership
changes with indexing, including roots with no progress row yet."
(`src/database.rs:2711`), "A root can first be observed in a later block, then gain an
earlier placement." (`src/database.rs:1898`). With the locks taken in both cases the
property holds in this run. The run has a root in two blocks of one fork;
`store` is the same without that.

`filters_replayed` (code_bug, `src/database.rs:1808`). By the same early return a
placement is inserted without the object-ID locks, beside a `record_objects` that
completes the same object. The trigger of the insert runs before
`placement_metadata_lock` (`src/migrations/010_bundle_totals.sql:119`) and reads the
object as incomplete; the insert then waits for the other transaction, whose own
trigger does not see the placement. It keeps no fingerprints although the index is
ready, and queries by owner or recipient miss it.
`src/migrations/022_graphql_filters.sql:12` says "Admission writers serialize metadata
and placements with the object-ID locks."

---------------------------------------------------------------------------

## 6. Limits

**Only model-checked.** Liveness: CatchesUp, EveryJobEnds, ImportCompletes,
RootsIndexed, CallersAnswered, ReclaimEnds, FetchEnds, ServingEnds, IndexSettles. What is computed by folds and selections over
sequences and trees: BundlesServed, BundlePages, ContentExact, Authentic. BundleReads, ContentReads and Authenticity
have no proofs.

**Abstracted.** Hashes, signatures, tags and encodings, except in `Authenticity`: blocks,
roots and contents are values. Profiles, logs and status counters. Time: deadlines may
strike at any moment at which the code waits; delays only choose among steps.
The order in which sources are ranked and rows are old. Power loss: a crash is the
death of the process, not of the file system. The sources of a chunk are one fixed
list per fetch; peers found while it runs are left out. In `Peers` addresses are ordered as their URLs,
shares have no floor of one hundredth, and what nothing reads (heights, times, the weights of
gateways) is left out; `record_chunk_result` takes the lock twice, which is one action. In `ContentReads` the
two chunks that a source remembers, which save requests. In `TagStore` the chunks of a statement,
gaps of ordinals, the truncation of values and the columns beside tags; locks are granted in any order.

Assumptions of single modules. `GraphqlPages` takes FingerprintsKept for granted
and leaves out what only refuses a request. In `Routes` a lookup of the policy that
fails refuses the request, like everything else that fails, and ArNS may answer any
of the targets of a name. `ChunkAnchors` leaves the rows on disk to `DiskCache` and
tells an answer when the retrieval ends; who joins a shared future that has finished
is the subject of `Flights`. `Retrieval` authenticates a root; what lies
below it, through bundles in bundles, is the subject of `BundleReads`. `IndexPublication` assumes that an operator replaces files by renames
and that no file gets a time twice.

**Seen in the code, and not checked by a run.** A publisher of the disk cache that
finds its blob already there may register the row before the first publisher has
synced the directory entry; a loss of power then leaves a row without a file
(`src/disk_cache.rs:318`), which the next lookup repairs. The spool reservation is
handed on by a task local (`src/content.rs:26`): a flight that another caller started
does not see it, and reserves its own. `refresh_item_placements` locks in the order of
keys and other writers in the order of IDs; a deadlock aborts one of them, which the
model has as `Victim` and `Abort`. Scheduled downloads have no deadline of their own in the
background (`src/lib.rs:397`); those of their requests end them. The probe and the rotation in
`chunk_candidates` are turned by one counter (`src/peers.rs:600`, `src/peers.rs:605`), so among sources of equal
cost some may never come first while the costs stay: with seven sources of different costs and seven that are untried, which cost
the same, a probe falls on the last of these each time, because eight is one more than seven. That every cost is probed
holds, and is what `Explored` says; that every source is does not, and is not asserted anywhere.
A pass of the index publisher takes the time once, when it begins (`src/index_publication.rs:485`). A document
that was just under half its time to live then, and is not replaced, appears older by as long as the pass took to hash,
with less than half of its time left; the next pass renews it. `PublicationSound` speaks of the start of the pass.
Two readings of an early transaction with the same data and other boundaries, of tags for instance, both pass
`verify_transaction` and `verify_block_data_root`, as the test
`legacy_field_interpretation_cannot_change_authenticated_payload` asserts (`src/transactions.rs:991`), and the
index keeps the one it was given. `Authentic` promises the payload, the owner and the kind of such a transaction. Only
of the genesis block are all fields fixed, by a digest (`src/transactions.rs:350`).

**Not modelled**, with the reason in `PROJECT.json`: RandomX and the codecs are functions of one document
that a model can only assume; so are the primitives under `Authenticity`, which also leaves out the
genesis block and the byte limits of a fetch;
migrations other than those of the tags, start-up, diagnostics and profiling do not take part in
the protocols.

---------------------------------------------------------------------------

## 7. Plan

Modelled, in this order: `ChainIndex` with `PinnedLog`; `Admission` and
`BundlePipeline`; `BundleScan`; `TxPipeline`; `Flights`; `CacheBudget` and `DiskCache`;
`HedgedFetch`; `BundleTraversal` and `BundleStore`; `BundleReads`; `Authenticity`; `Serving`; `IndexPublication`;
`Retrieval`; `FilterIndex` and `GraphqlPages`; `ChunkProof`; `ChunkAnchors`; `ArnsNames`;
`Routes`; `Peers`; `ContentReads`; `TagStore`. Proved: all but the ones named under Limits.

What would come next: theorems, the entries of `BundleReads` first.
