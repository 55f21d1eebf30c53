------------------------------ MODULE Authenticity ------------------------------
(***************************************************************************)
(* What a block or a transaction has to show before it is believed         *)
(* (lib.rs, historical.rs, transactions.rs, indexer.rs): headers by their  *)
(* hash in every age of the chain, transactions by what their signatures   *)
(* bind, and the payload of early ones, whose signatures bind no           *)
(* boundaries, by the data root of their block.                            *)
(*                                                                         *)
(* A string is a sequence of bytes below Radix, 256 in the code.  A hash   *)
(* stands for what it is taken of, and a signature for the message that    *)
(* was signed: both are equal only when that is.  The genesis block, whose *)
(* records are compared with a digest in the code, is left out, and so are *)
(* the limits on bytes fetched per block: a fetch may always fail.         *)
(***************************************************************************)
EXTENDS Integers, SequencesExt

CONSTANTS
    Provable,       \* names of blocks
    ProvableOf(_),  \* the header of one with its entry, and its transactions by ID
    HeadersFor(_),  \* what sources answer with when asked for it
    TxsFor(_, _),   \* and when asked for one of its transactions
    Radix,
    HashSize,   \* bytes of a transaction ID or root
    ChunkSize,
    Fork20, Fork24, Fork25, Fork26, Fork27, Fork28, Fork29,
    Sources,    \* of headers beside the node: the archive and the configured ones
    Discovered, \* and peers
    MaxAttempts,\* max_peer_attempts
    Absent

VARIABLES
    block,      \* the one it is about
    belief      \* what is being proven: a root to serve, or the transactions of a job
authentic == <<block, belief>>

Widest == 8     \* more than any length that occurs here

-----------------------------------------------------------------------------
(* What the hash of a header is taken of.                                  *)

\* Since 2.6: strings behind their lengths, in this order.
Bytes(n) == <<"bytes", n>>
Number(n) == <<"number", n>>
Optional(n) == <<"optional", n>>    \* a number that may be missing
Digits(n) == <<"digits", n>>        \* a number of fixed width
Raw(n) == <<"raw", n>>              \* a string of fixed width
Strings == <<"strings", 1>>
Tags == <<"strings", 2>>
Hashes == <<"hashes", 2>>
Proof == <<"proof", 0>>

Since26 == <<
    <<"previous_block", Bytes(1)>>, <<"timestamp", Number(1)>>, <<"nonce", Bytes(2)>>,
    <<"height", Number(1)>>, <<"diff", Number(2)>>, <<"cumulative_diff", Number(2)>>,
    <<"last_retarget", Number(1)>>, <<"hash", Bytes(1)>>, <<"block_size", Number(2)>>,
    <<"weave_size", Number(2)>>, <<"reward_addr", Bytes(1)>>, <<"tx_root", Bytes(1)>>,
    <<"wallet_list", Bytes(1)>>, <<"hash_list_merkle", Bytes(1)>>, <<"reward_pool", Number(1)>>,
    <<"packing_2_5_threshold", Number(1)>>, <<"strict_data_split_threshold", Number(1)>>,
    <<"usd_dividend", Number(1)>>, <<"usd_divisor", Number(1)>>,
    <<"scheduled_usd_dividend", Number(1)>>, <<"scheduled_usd_divisor", Number(1)>>,
    <<"tags", Tags>>, <<"txs", Strings>>, <<"reward", Number(1)>>, <<"recall_byte", Number(2)>>,
    <<"hash_preimage", Bytes(1)>>, <<"recall_byte2", Optional(2)>>, <<"reward_key", Bytes(2)>>,
    <<"partition_number", Number(1)>>, <<"output", Raw(32)>>, <<"global_step_number", Digits(8)>>,
    <<"seed", Raw(48)>>, <<"next_seed", Raw(48)>>, <<"zone_upper_bound", Digits(32)>>,
    <<"next_zone_upper_bound", Digits(32)>>, <<"prev_output", Bytes(1)>>, <<"checkpoints", Hashes>>,
    <<"last_step_checkpoints", Hashes>>, <<"previous_solution_hash", Bytes(1)>>,
    <<"price_per_gib_minute", Number(1)>>, <<"scheduled_price_per_gib_minute", Number(1)>>,
    <<"reward_history_hash", Raw(32)>>, <<"debt_supply", Number(1)>>,
    <<"kryder_plus_rate_multiplier", Digits(3)>>, <<"kryder_plus_rate_multiplier_latch", Digits(1)>>,
    <<"denomination", Digits(3)>>, <<"redenomination_height", Number(1)>>,
    <<"double_signing_proof", Proof>>, <<"previous_cumulative_diff", Number(2)>> >>
Since27 == <<
    <<"merkle_rebase_support_threshold", Number(2)>>, <<"data_path", Bytes(3)>>,
    <<"tx_path", Bytes(3)>>, <<"data_path2", Bytes(3)>>, <<"tx_path2", Bytes(3)>>,
    <<"chunk_hash", Raw(32)>>, <<"chunk2_hash", Bytes(1)>>, <<"block_time_history_hash", Raw(32)>>,
    <<"vdf_difficulty", Number(1)>>, <<"next_vdf_difficulty", Number(1)>> >>
Since28 == <<
    <<"packing_difficulty", Digits(1)>>, <<"unpacked_chunk_hash", Bytes(1)>>,
    <<"unpacked_chunk2_hash", Bytes(1)>> >>
Since29 == << <<"replica_format", Digits(1)>> >>

Segment(height) ==
    Since26 \o (IF height >= Fork27 THEN Since27 ELSE << >>)
            \o (IF height >= Fork28 THEN Since28 ELSE << >>)
            \o (IF height >= Fork29 THEN Since29 ELSE << >>)

\* A number in bytes, none for zero; and padded to a width.
Digit(n, k) == (n \div Radix ^ k) % Radix
BytesOf(n) ==
    LET length == Min({k \in 0 .. Widest : n < Radix ^ k})
    IN [k \in 1 .. length |-> Digit(n, length - k)]
Padded(bytes, n) == [k \in 1 .. n - Len(bytes) |-> 0] \o bytes

\* A value behind its length, if that fits: append_size, append_bytes.
NoLength(bytes, n) == bytes                             \* mutant: no lengths
Prefixed(bytes, n) == Padded(BytesOf(Len(bytes)), n) \o bytes
Fits(value, n) == Len(value) < Radix ^ n
Minimal(n) == IF n = 0 THEN <<0>> ELSE BytesOf(n)
LeadingZeros(bytes) == \* a nonce loses them, up to its last byte
    Min({k \in 0 .. Len(bytes) : k = Len(bytes) \/ bytes[k + 1] # 0})

\* The proof of a double signature: nothing, or a key and what it signed twice.
SignedTwice(p, prefixed) ==
    LET put(bytes) == IF prefixed THEN Prefixed(bytes, 2) ELSE bytes
        one(s) == put(s.signature) \o Prefixed(Minimal(s.diff), 2)
                  \o Prefixed(Minimal(s.previous), 2) \o s.preimage
    IN put(p.key) \o one(p.first) \o one(p.second)

Encodes(value, how) ==
    LET n == how[2] IN
    CASE how[1] = "bytes" -> Fits(value, n)
      [] how[1] \in {"number", "optional"} -> value = Absent \/ Fits(Minimal(value), n)
      [] how[1] = "digits" -> Len(BytesOf(value)) <= n
      [] how[1] = "raw" -> Len(value) = n
      [] how[1] = "strings" -> Fits(value, 2) /\ \A k \in DOMAIN value : Fits(value[k], n)
      [] how[1] = "hashes" -> Fits(value, 2) /\ \A k \in DOMAIN value : Len(value[k]) = HashSize
      [] OTHER -> TRUE
Encoded(value, how, height) ==
    LET n == how[2] IN
    CASE how[1] = "bytes" -> Prefixed(value, n)
      [] how[1] = "number" -> Prefixed(Minimal(value), n)
      [] how[1] = "optional" -> Prefixed(IF value = Absent THEN << >> ELSE Minimal(value), n)
      [] how[1] = "digits" -> Padded(BytesOf(value), n)
      [] how[1] = "raw" -> value
      [] how[1] = "strings" ->
            Padded(BytesOf(Len(value)), 2)
            \o FlattenSeq([k \in DOMAIN value |-> Prefixed(Reverse(value)[k], n)])
      [] how[1] = "hashes" -> Padded(BytesOf(Len(value)), 2) \o FlattenSeq(value)
      [] OTHER -> IF value = Absent THEN <<0>> ELSE <<1>> \o SignedTwice(value, height >= Fork29)

\* Before: trees of hashes.
Blob(x) == <<"blob", x>>
List(s) == <<"list", s>>
BlobsOf(s) == List([k \in DOMAIN s |-> Blob(s[k])])

PoaOf(h) == List(<<Blob(h.option), Blob(h.tx_path), Blob(h.data_path), Blob(h.chunk)>>)
Core(h, txs, tags) ==
    <<Blob(h.height), Blob(h.previous_block), Blob(h.tx_root), txs, Blob(h.block_size),
      Blob(h.weave_size), Blob(h.reward_addr), tags>>
Data(h, base) ==
    List(<<Blob(base), Blob(h.timestamp), Blob(h.last_retarget), Blob(h.diff),
           Blob(h.cumulative_diff), Blob(h.reward_pool), Blob(h.wallet_list),
           Blob(h.hash_list_merkle)>>)
Before26(h) ==
    LET rates == <<Blob(h.usd_dividend), Blob(h.usd_divisor),
                   Blob(h.scheduled_usd_dividend), Blob(h.scheduled_usd_divisor),
                   Blob(h.packing_2_5_threshold), Blob(h.strict_data_split_threshold)>>
        base == List(rates \o Core(h, BlobsOf(h.txs), BlobsOf(h.tags)))
    IN List(<<Blob(Data(h, base)), Blob(h.hash), Blob(h.nonce), PoaOf(h)>>)
\* The proof of access moves from the base to the top at 2.4.
Before25(h, txs) ==
    LET core == Core(h, txs, List(<< >>))
        early == h.height < Fork24
        base == List(IF early THEN Append(core, PoaOf(h)) ELSE core)
        top == <<Blob(Data(h, base)), Blob(h.hash), Blob(h.nonce)>>
    IN List(IF early THEN top ELSE Append(top, PoaOf(h)))
\* Before 2.0 the table of such hashes was made with sorted transactions.
Less(a, b) ==
    \E k \in DOMAIN a \cap DOMAIN b : a[k] < b[k] /\ SubSeq(a, 1, k - 1) = SubSeq(b, 1, k - 1)
Sorted(txs) == SortSeq(txs, Less)

Sound(h) == h.height >= Fork26 =>
    /\ h.nonce # << >>
    /\ \A f \in ToSet(Segment(h.height)) : Encodes(h[f[1]], f[2])
Nonce(h) == SubSeq(h.nonce, Min({LeadingZeros(h.nonce), Len(h.nonce) - 1}) + 1, Len(h.nonce))
HashOf(h) ==
    CASE h.height >= Fork26 ->
            <<"signed", FlattenSeq([k \in DOMAIN Segment(h.height) |->
                 LET f == Segment(h.height)[k]
                 IN Encoded(IF f[1] = "nonce" THEN Nonce(h) ELSE h[f[1]], f[2], h.height)]),
              h.signature>>
      [] h.height < Fork26 /\ h.height >= Fork25 -> Before26(h)
      [] h.height < Fork25 /\ h.height >= Fork20 -> Before25(h, BlobsOf(h.txs))
      [] OTHER -> Before25(h, BlobsOf(Sorted(h.txs)))

\* verify_block_header and verify_legacy_header, by the entry of the index.
EntryOf(h) == [hash |-> HashOf(h), tx_root |-> h.tx_root, weave_size |-> h.weave_size]
Taken(h, entry) == IF h.height < Fork20 THEN [h EXCEPT !.tx_root = entry.tx_root] ELSE h
HeaderVerified(h, entry, height) ==
    /\ h.height = height /\ Sound(h)
    /\ Len(entry.tx_root) \in {0, HashSize}
    /\ HashOf(Taken(h, entry)) = entry.hash
    /\ Taken(h, entry).tx_root = entry.tx_root
    /\ h.weave_size = entry.weave_size

-----------------------------------------------------------------------------
(* Transactions, and the data root of a block.                             *)

Leaf(root, end) == <<"leaf", root, end>>
\* merkle_root: neighbours are joined row by row, an odd one moves up.
Joined(row) ==
    [k \in 1 .. (Len(row) + 1) \div 2 |->
        IF 2 * k > Len(row) THEN row[2 * k - 1]
        ELSE [hash |-> <<"branch", row[2 * k - 1].hash, row[2 * k].hash, row[2 * k - 1].end>>,
              end |-> row[2 * k].end]]
MerkleRoot(row) ==
    LET rows[n \in 0 .. Len(row)] == IF n = 0 THEN row ELSE Joined(rows[n - 1])
    IN IF row = << >> THEN << >> ELSE <<rows[Len(row)][1].hash>>

\* Inline data is cut into chunks, of which the last is shorter than the others.
InlineRoot(data) ==
    MerkleRoot([k \in 1 .. Len(data) \div ChunkSize + 1 |->
        LET end == Min({k * ChunkSize, Len(data)})
        IN [hash |-> Leaf(SubSeq(data, (k - 1) * ChunkSize + 1, end), end), end |-> end]])

\* The first format binds its fields as one string, without their boundaries.
Legacy(t) == t.format = 1 /\ t.denomination = 0
Message(t) ==
    IF Legacy(t)
    THEN <<"joined", t.owner \o t.target \o t.data \o t.quantity \o t.reward \o t.anchor
         \o FlattenSeq([k \in DOMAIN t.tags |-> t.tags[k].name \o t.tags[k].value])>>
    ELSE <<"fields", [t EXCEPT !.data = IF t.format = 1 THEN t.data ELSE << >>,
                               !.size = IF t.format = 1 THEN 0 ELSE t.size,
                               !.root = IF t.format = 1 THEN << >> ELSE t.root]>>

\* verify_transaction, by the transaction that was signed, found in a block of
\* that height.  The key of an ECDSA signature is whichever fits the message.
TxVerified(t, signed, height) ==
    /\ t.format = 2 => height - 1 >= Fork20
    /\ t.denomination > 0 => height >= Fork26
    /\ t.ecdsa => t.format = 2 /\ height - 1 >= Fork29
    /\ t.format = 2 => (t.size = 0 <=> t.root = << >>) /\ (t.size = 0 => t.data = << >>)
    /\ t.ecdsa = signed.ecdsa
    /\ ~t.ecdsa => t.owner = signed.owner /\ Message(t) = Message(signed)

\* What is kept of it: size and root of the first format are computed, and the
\* key of ECDSA is recovered; a signature is its ID, a content type its tag.
Metadata(id, t) ==
    [id |-> id, format |-> t.format, denomination |-> t.denomination, ecdsa |-> t.ecdsa,
     owner |-> IF t.ecdsa THEN Message(t) ELSE t.owner,
     target |-> t.target, quantity |-> t.quantity, reward |-> t.reward,
     anchor |-> t.anchor, tags |-> t.tags,
     size |-> IF t.format = 1 THEN Len(t.data) ELSE t.size,
     root |-> IF t.format = 1 THEN InlineRoot(t.data) ELSE t.root]
Inline(t) == IF t.format = 1 \/ t.size = 0 THEN t.data ELSE Absent

\* Transactions lie in the block by format and ID, padded to chunks since 2.5.
ByFormat(objects) ==
    SortSeq(SetToSeq(objects), LAMBDA a, b : a.format < b.format \/ (a.format = b.format /\ Less(a.id, b.id)))
Padding(size, height) == IF height >= Fork25 THEN (-size) % ChunkSize ELSE 0
EndBefore(row, k, height) ==
    FoldLeft(LAMBDA n, o : n + o.size + Padding(o.size, height), 0, SubSeq(row, 1, k - 1))
LeavesOf(objects, height) ==
    LET row == ByFormat(objects)
        end(k) == EndBefore(row, k, height) + row[k].size
        pad(k) == Padding(row[k].size, height)
    IN FlattenSeq([k \in DOMAIN row |->
          <<[hash |-> Leaf(row[k].root, end(k)), end |-> end(k)]>>
          \o (IF pad(k) = 0 THEN << >>
              ELSE <<[hash |-> Leaf(<< >>, end(k) + pad(k)), end |-> end(k) + pad(k)]>>)])
BlockSize(objects, height) ==
    LET row == ByFormat(objects) IN EndBefore(row, Len(row) + 1, height)

\* verify_block_data_root
DataRootVerified(h, objects) ==
    /\ {o.id : o \in objects} = ToSet(h.txs)
    /\ Cardinality(objects) = Len(h.txs)
    /\ BlockSize(objects, h.height) = h.block_size
    /\ MerkleRoot(LeavesOf(objects, h.height)) = h.tx_root
\* transaction_end_offset
EndOffset(objects, height, id) ==
    LET row == ByFormat(objects)
        k == CHOOSE k \in DOMAIN row : row[k].id = id
    IN EndBefore(row, k, height) + row[k].size

-----------------------------------------------------------------------------
(* The three callers: the metadata of a block (block_metadata), that of    *)
(* some of its transactions (transaction_metadata), and a root that is to  *)
(* be served (authenticate_root).  The index of the node is trusted.       *)

AtHeight == block.header.height
SignedTx(id) == block.txs[id]
TrueOf(id) == Metadata(id, SignedTx(id))
InBlock == {TrueOf(id) : id \in ToSet(block.header.txs)}

Prove(job, ids) ==
    /\ belief.at = "idle"
    /\ belief' = [at |-> "open", job |-> job, ids |-> ids, objects |-> {}, data |-> Absent,
                 header |-> Absent, asked |-> << >>, end |-> 0]
    /\ UNCHANGED block

\* authenticate_block: the node, then the sources in turn, of which one try is
\* left for the peers.
Turns == <<"node">> \o Sources \o Discovered
Tries == Len(belief.asked) - 1       \* beside the node
Left(k) ==
    \/ belief.asked = << >> /\ k = 1
    \/ /\ belief.asked # << >> /\ Tries < MaxAttempts
       /\ k > Max({j \in DOMAIN Turns : Turns[j] \in ToSet(belief.asked)})
       /\ Tries >= MaxAttempts - (IF Discovered = << >> THEN 0 ELSE 1) => Turns[k] \in ToSet(Discovered)
Turn == {k \in DOMAIN Turns : Left(k)}

Got == {o.id : o \in belief.objects}
FirstLegacy == \E o \in belief.objects : o.id = belief.ids[1] /\ Legacy(o)
AnyLegacy == \E o \in belief.objects : Legacy(o)
GotAll == ToSet(belief.ids) \subseteq Got
WantsHeader ==
    /\ belief.at = "open" /\ belief.header = Absent
    /\ belief.job = "metadata" => AnyLegacy /\ (FirstLegacy \/ GotAll)

\* fetch_and_authenticate_block, and what its callers compare.
HeaderFits(h) ==
    /\ HeaderVerified(h, block.entry, AtHeight)
    /\ belief.ids # << >> => belief.ids[1] \in ToSet(h.txs)
    /\ belief.job = "block" => h.previous_block = block.header.previous_block
AskHeader(h) ==
    /\ WantsHeader /\ Turn # {}
    /\ belief' = IF h # Absent /\ HeaderFits(h) THEN [belief EXCEPT !.header = Taken(h, block.entry)]
                ELSE [belief EXCEPT !.asked = Append(@, Turns[Min(Turn)])]
    /\ UNCHANGED block
NoHeader ==
    /\ WantsHeader /\ Turn = {}
    /\ belief' = [belief EXCEPT !.at = "unanswered"]
    /\ UNCHANGED block

\* A block of early transactions is only believed with its data root.
NeedsBlock == AnyLegacy
GeometryFits ==
    /\ belief.header.weave_size - block.previous_size = belief.header.block_size
    /\ belief.job = "root" => belief.header.previous_block = block.header.previous_block
Wanted ==
    IF belief.job = "block" THEN {}
    ELSE IF belief.objects = {} THEN {belief.ids[1]}
    ELSE IF NeedsBlock /\ belief.header # Absent
         THEN ToSet(belief.header.txs) \ Got
    ELSE IF FirstLegacy THEN {} ELSE ToSet(belief.ids) \ Got

\* fetch_transaction: the keys of ECDSA are taken from the node alone, which
\* tells the truth.
Believed(t, source) == source = "archive" => ~t.ecdsa
Fetch(id, t, source) ==
    /\ belief.at = "open" /\ id \in Wanted
    /\ source = "node" => t = SignedTx(id)
    /\ Believed(t, source) /\ TxVerified(t, SignedTx(id), AtHeight)
    /\ belief' = [belief EXCEPT !.objects = @ \cup {Metadata(id, t)},
                              !.data = IF id = belief.ids[1] THEN Inline(t) ELSE @]
    /\ UNCHANGED block

Gathered ==
    /\ belief.at = "open" /\ Wanted = {}
    /\ belief.job = "metadata" /\ ~AnyLegacy => GotAll
    /\ belief.job # "metadata" \/ AnyLegacy => belief.header # Absent
Conclude ==
    LET ok == NeedsBlock => GeometryFits /\ DataRootVerified(belief.header, belief.objects)
    IN /\ Gathered
       /\ belief' = [belief EXCEPT !.at = IF ~ok THEN "refused"
                                        ELSE IF belief.job = "root" /\ belief.data = Absent THEN "place"
                                        ELSE "done"]
       /\ UNCHANGED block

\* Data in chunks: where it is, by the index of the block or by the archive.
Claimed(end) ==
    LET object == CHOOSE o \in belief.objects : o.id = belief.ids[1]
    IN /\ end - object.size >= block.previous_size /\ end <= block.entry.weave_size
Place(indexed, end) ==
    /\ belief.at = "place"
    /\ indexed => end = block.previous_size + EndOffset(InBlock, AtHeight, belief.ids[1])
    /\ belief' = [belief EXCEPT !.at = IF Claimed(end) THEN "done" ELSE IF indexed THEN "refused" ELSE "failed",
                              !.end = end, !.job = IF indexed THEN "indexed" ELSE "claimed"]
    /\ UNCHANGED block
GiveUp ==
    /\ belief.at \in {"open", "place"} /\ belief' = [belief EXCEPT !.at = "failed"]
    /\ UNCHANGED block

AuthenticInit == \E name \in Provable : block = ProvableOf(name) /\ belief = [at |-> "idle"]
AuthenticNext ==
    \/ Prove("block", << >>)
    \/ \E ids \in block.jobs : Prove("metadata", ids)
    \/ \E id \in DOMAIN block.txs : Prove("root", <<id>>)
    \/ \E h \in HeadersFor(block.name) \cup {Absent} : AskHeader(h)
    \/ NoHeader
    \/ \E id \in DOMAIN block.txs : \E t \in TxsFor(block.name, id), s \in {"node", "archive"} : Fetch(id, t, s)
    \/ Conclude
    \/ \E indexed \in BOOLEAN, end \in block.previous_size .. block.entry.weave_size + 1 : Place(indexed, end)
    \/ GiveUp

-----------------------------------------------------------------------------
(* What is believed is true, and the truth is believed.                    *)

\* What the program uses of a header.
Used(h) ==
    [previous |-> h.previous_block, timestamp |-> h.timestamp, weave |-> h.weave_size,
     size |-> h.block_size, root |-> h.tx_root,
     txs |-> IF h.height < Fork20 THEN Sorted(h.txs) ELSE h.txs]

\* What is fixed of a transaction: all of it, and of an early one its payload,
\* its owner and its kind.
Fixed(o) ==
    IF Legacy(o) THEN [id |-> o.id, format |-> o.format, denomination |-> o.denomination,
                       ecdsa |-> o.ecdsa, owner |-> o.owner, size |-> o.size, root |-> o.root]
    ELSE o

\* Whatever a source answers: a header that passes has what the block with that
\* hash has (block_indep_hash); metadata that pass are those of the transaction,
\* and so are inline data, and data in chunks are looked for where the block has
\* them (verify_block_data_root).  Of an early transaction that is its payload:
\* target, quantity, reward, anchor and tags are a reading of the string that was
\* signed, and two of one payload both pass, as the test
\* legacy_field_interpretation_cannot_change_authenticated_payload has it.  What
\* is refused was not the truth, and every turn was taken, a peer's as well.
Authentic ==
    /\ belief.at \in {"done", "place"} =>
          /\ belief.header # Absent => Used(belief.header) = Used(block.header)
          /\ \A o \in belief.objects : Fixed(o) = Fixed(TrueOf(o.id))
          /\ belief.data # Absent => belief.data = SignedTx(belief.ids[1]).data
    /\ belief.at = "done" /\ belief.job = "indexed" =>
          LET row == LeavesOf(InBlock, AtHeight)
              end == belief.end - block.previous_size
          IN \E k \in DOMAIN row : row[k].end = end /\ row[k].hash = Leaf(TrueOf(belief.ids[1]).root, end)
    /\ belief.at = "refused" =>
          \/ belief.header # Absent /\ belief.header # block.header
          \/ \E o \in belief.objects : Fixed(o) # Fixed(TrueOf(o.id))
    /\ belief.at = "unanswered" =>
          /\ Tries >= Min({MaxAttempts, Len(Turns) - 1})
          /\ Discovered # << >> => ToSet(belief.asked) \cap ToSet(Discovered) # {}
    \* The header of the block itself passes.
    /\ belief.at = "idle" => HeaderVerified(block.header, block.entry, AtHeight)
===============================================================================
