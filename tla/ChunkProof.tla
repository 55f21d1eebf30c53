------------------------------ MODULE ChunkProof ------------------------------
(***************************************************************************)
(* The proofs of chunks (lib.rs): a tx_path leads from the root of a block *)
(* to a transaction, a data_path from its data root to a chunk.  A chunk   *)
(* that was proven is kept with the bytes it covers, and answers for every *)
(* offset among them.                                                      *)
(*                                                                         *)
(* A path is its branches, a note and the sides on which the hash of the   *)
(* rest stands (both when they are equal), and the note of its leaf.  What *)
(* hashes differently is rejected.  Unpacking and the hash of the bytes    *)
(* are left out: the length is what counts here.                           *)
(***************************************************************************)
EXTENDS Integers, Sequences, SequencesExt, FiniteSetsExt

CONSTANTS
    MaxChunk,      \* MAX_CHUNK_SIZE
    StrictFrom,    \* STRICT_DATA_SPLIT_THRESHOLD
    RebaseFrom,    \* MERKLE_REBASE_SUPPORT_THRESHOLD
    Weave,         \* sizes of the weave before the block
    BlockSize,
    TxPath,        \* tx_paths that come with a chunk
    DataPath       \* data_paths that come with a chunk

AnyBranch == [note : Nat, sides : SUBSET {"left", "right"}]
ASSUME ProofAssumption ==
    /\ {MaxChunk, BlockSize} \subseteq Nat \ {0} /\ Weave \subseteq Nat
    /\ 0 <= StrictFrom /\ StrictFrom <= RebaseFrom
    /\ \A p \in TxPath : p.branches \in Seq(AnyBranch) /\ p.leaf \in Nat
    /\ \A p \in DataPath : {p.rebases, p.branches} \subseteq Seq(AnyBranch) /\ p.leaf \in Nat

VARIABLE chunk   \* the chunk last proven

NoProof == [offset |-> 0]
Hashes(b, side) == side \in b.sides

\* A branch narrows the bounds towards the offset it is followed for.
Narrow(s, b) ==
    IF s.target < b.note
    THEN [s EXCEPT !.right = Min({@, b.note}), !.ok = @ /\ Hashes(b, "left"), !.rightmost = "no"]
    ELSE [s EXCEPT !.left = Max({@, b.note}), !.ok = @ /\ Hashes(b, "right"),
                   !.rightmost = IF @ = "unknown" THEN "yes" ELSE @]

Bounds(target, size) ==
    [target |-> target, left |-> 0, right |-> size, ok |-> TRUE, rightmost |-> "unknown"]

-----------------------------------------------------------------------------
(* validate_tx_path: first and size of the transaction at an offset.       *)

Transaction(path, weave, offset) ==
    LET s == FoldLeft(Narrow, Bounds(offset - weave - 1, BlockSize), path.branches)
    IN [ok |-> s.ok /\ path.leaf > s.left /\ path.leaf <= s.right,
        first |-> weave + s.left + 1, size |-> path.leaf - s.left]

-----------------------------------------------------------------------------
(* validate_data_path.                                                     *)

Band(offset) ==
    CASE offset >= RebaseFrom -> "relaxed"
      [] offset >= StrictFrom -> "strict"
      [] OTHER -> "none"

\* A rebase branch begins a tree of its own behind its note.
Rebase(s, b) ==
    IF s.target < b.note
    THEN [s EXCEPT !.right = Min({@, b.note}), !.ok = @ /\ Hashes(b, "left")]
    ELSE [s EXCEPT !.target = @ - b.note, !.right = @ - b.note, !.shift = @ + b.note,
                   !.ok = @ /\ Hashes(b, "right") /\ s.right >= b.note]

Multiple(n) == n % MaxChunk = 0

Split(band, size, shift, s, end) ==
    CASE band = "none" -> TRUE
      [] band = "strict" ->
            /\ end >= s.left
            /\ IF end - s.left = MaxChunk THEN Multiple(s.left)
               ELSE IF end = size THEN ~Multiple(s.right) /\ s.left <= (s.right \div MaxChunk) * MaxChunk
               ELSE Multiple(s.left) /\ size - s.left > MaxChunk /\ size - s.left < 2 * MaxChunk
      [] OTHER ->
            \/ Multiple(shift + s.left)
            \/ /\ s.rightmost = "yes" /\ ~Multiple(shift + end)
               /\ (shift + s.left) \div MaxChunk + 1 = (shift + end) \div MaxChunk

Borders(band, s, end) == band = "none" \/ (end - s.left <= MaxChunk /\ s.right - s.left <= MaxChunk)

Unbounded(s, end) == Max({end, s.left + 1})      \* mutant: past the right bound
EndOf(s, end) == Max({Min({s.right, end}), s.left + 1})

\* The bytes of the transaction that a data_path proves for one of them.
Data(path, size, offset, target) ==
    LET r == FoldLeft(Rebase, [target |-> target, right |-> size, shift |-> 0, ok |-> TRUE],
                      path.rebases)
        s == FoldLeft(Narrow, Bounds(r.target, r.right), path.branches)
        band == Band(offset)
    IN [ok |-> /\ r.ok /\ s.ok /\ r.right > 0
               /\ path.rebases # << >> => band = "relaxed"
               /\ Borders(band, s, path.leaf) /\ Split(band, size, r.shift, s, path.leaf),
        start |-> r.shift + s.left, end |-> r.shift + EndOf(s, path.leaf)]

-----------------------------------------------------------------------------
(* verify_chunk_proof.                                                     *)

\* The chunk that both paths prove for an offset of the weave.
Proof(tx, data, weave, offset) ==
    LET t == Transaction(tx, weave, offset)
        target == offset - t.first
        d == Data(data, t.size, offset, target)
    IN IF /\ offset > weave /\ offset <= weave + BlockSize
          /\ t.ok /\ target >= 0 /\ target < t.size
          /\ d.ok /\ d.start <= target /\ target < d.end /\ d.end <= t.size
          /\ d.end - d.start <= MaxChunk
       THEN [tx |-> tx, data |-> data, weave |-> weave, first |-> t.first, size |-> t.size,
             start |-> d.start, end |-> d.end, band |-> Band(offset)]
       ELSE NoProof

VerifyChunk(tx, data, weave, offset) ==
    /\ chunk' = Proof(tx, data, weave, offset)
    /\ chunk' # NoProof

Released == chunk # NoProof /\ chunk' = NoProof

ProofInit == chunk = NoProof
ProofNext ==
    \/ /\ chunk = NoProof
       /\ \E tx \in TxPath, data \in DataPath, weave \in Weave :
             \E offset \in weave + 1 .. weave + BlockSize : VerifyChunk(tx, data, weave, offset)
    \/ Released
ProofSpec == ProofInit /\ [][ProofNext]_chunk

-----------------------------------------------------------------------------
\* What a proof gives for one offset it gives for every offset of the chunk:
\* a chunk found by the bytes it covers passes the verification that follows
\* with the same bounds (verify_chunk_proof, fetch_verified_chunk_inner).
IntervalProven ==
    chunk # NoProof =>
        \A i \in chunk.start .. chunk.end - 1 :
            Band(chunk.first + i) = chunk.band =>
                Proof(chunk.tx, chunk.data, chunk.weave, chunk.first + i) = chunk
=============================================================================
