----------------------------- MODULE ContentReads -----------------------------
(***************************************************************************)
(* Content and how it is read: bytes in memory, a view of a file, a view   *)
(* of a transaction whose chunks are fetched as they are needed and ahead  *)
(* of that (streaming.rs), and base64 inside a string of JSON that is      *)
(* decoded from the nearest of some checkpoints (json_bundle.rs).  Views   *)
(* of views are cut, described in the cache and restored, read, hashed,    *)
(* decoded and brought to memory or disk (content.rs).                     *)
(*                                                                         *)
(* A byte of the transaction is a part of a character of the string, which *)
(* stands for four of base64 and for what they decode to; an escape has    *)
(* several parts.  A hash is what was hashed.  The two chunks that a       *)
(* source remembers only save requests: left out, as are the bytes of the  *)
(* spool, which Serving counts.                                            *)
(***************************************************************************)
EXTENDS Integers, FiniteSets, Sequences, SequencesExt

CONSTANTS
    Texts,          \* strings: how many parts their characters have
    Chunkings,      \* where the chunks of the transaction may start
    MaxChunk,       \* MAX_CHUNK_SIZE
    Window,         \* requests ahead of the reader
    DecodeBlock, MaxPoints,     \* characters at once, checkpoints
    IoChunk,
    MemoryLimit, SpoolLimit,
    MaxOps, MaxFaults           \* bounds

VARIABLES
    raw,        \* the transaction
    cuts,
    view, meaning,  \* a Content and, ghost, the bytes it stands for
    reader,     \* who reads it: what for, what came out so far, the decoder
    pass,       \* ReadState: the bytes below the decoder
    ops, faults

contents == <<raw, cuts, view, meaning, reader, pass, ops, faults>>
world == <<raw, cuts>>

Quote == [char |-> 0, part |-> 1, of |-> 1]
InJson(text) ==
    <<Quote>> \o
    FlattenSeq([c \in DOMAIN text |-> [k \in 1 .. text[c] |-> [char |-> c, part |-> k, of |-> text[c]]]])
    \o <<Quote>>
JsonString == SubSeq(raw, 2, Len(raw) - 1)
Chars(bytes) == SelectSeq(bytes, LAMBDA b : b.part = b.of)
Nil == << >>
Unread == [at |-> "idle"]
Lesser(a, b) == IF a < b THEN a ELSE b

-----------------------------------------------------------------------------
(* Content.                                                                *)

InMemory(bytes) == [kind |-> "memory", data |-> bytes, offset |-> 0, len |-> Len(bytes)]
InFile(bytes) == [kind |-> "file", data |-> bytes, offset |-> 0, len |-> Len(bytes)]
Streamed(offset, len) == [kind |-> "stream", offset |-> offset, len |-> len]
Base64(encoded, points, size) ==
    [kind |-> "base64", encoded |-> encoded, points |-> points, size |-> size,
     offset |-> 0, len |-> size]
FromStart(c, start, end) == [c EXCEPT !.offset = start, !.len = end - start]  \* mutant: forgets the first cut
Slice(c, start, end) ==
    IF c.kind = "memory" THEN InMemory(SubSeq(c.data, start + 1, end))
    ELSE [c EXCEPT !.offset = @ + start, !.len = end - start]
Materialized(c) == c.kind \in {"memory", "file"}

\* What the cache keeps instead of bytes, and what it makes of it again.
Describable(c) == IF c.kind = "base64" THEN c.encoded.kind = "stream" ELSE c.kind = "stream"
Coherent(c) ==
    LET p == c.points IN
    /\ p[1] = <<0, 0>> /\ Len(p) <= MaxPoints + 1
    /\ \A k \in 1 .. Len(p) - 1 : p[k][1] < p[k + 1][1] /\ p[k][2] < p[k + 1][2]
    /\ \A k \in DOMAIN p : p[k][1] <= c.encoded.len /\ p[k][2] <= c.size
    /\ c.offset + c.len <= c.size
RestoredRange(c) == Slice(Streamed(0, Len(raw)), c.offset, c.offset + c.len)
Restored(c) ==
    IF c.kind = "stream" THEN RestoredRange(c)
    ELSE Slice(Base64(RestoredRange(c.encoded), c.points, c.size), c.offset, c.offset + c.len)
Broken == [kind |-> "broken"]

-----------------------------------------------------------------------------
(* Jobs.                                                                   *)

StreamPass(c, ahead) ==
    [kind |-> "stream", position |-> c.offset, end |-> c.offset + c.len,
     step |-> IF ahead THEN c.offset ELSE c.offset + c.len,
     queue |-> << >>, next |-> Nil, gap |-> FALSE, asked |-> << >>]
BytesPass(c) ==
    [kind |-> c.kind, data |-> c.data, position |-> c.offset, end |-> c.offset + c.len,
     buffer |-> << >>, taking |-> 0]
PassOver(c, ahead) == IF c.kind = "stream" THEN StreamPass(c, ahead) ELSE BytesPass(c)

Decoder(skip, left, points) ==
    [buffer |-> << >>, skip |-> skip, left |-> left, raw |-> 0, points |-> points]
\* Base64Data::stream: from the last checkpoint before the view.
Nearest(c) == Max({k \in DOMAIN c.points : k = 1 \/ c.points[k][2] <= c.offset})
Open(purpose, c, want, ahead) ==
    LET base == [at |-> "open", purpose |-> purpose, of |-> c, want |-> want, out |-> << >>,
                 decoder |-> Nil]
        point == c.points[Nearest(c)]
    IN IF c.kind = "base64"
       THEN /\ reader' = [base EXCEPT !.decoder = Decoder(c.offset - point[2], c.len, Nil)]
            /\ pass' = PassOver(Slice(c.encoded, point[1], c.encoded.len), TRUE)
       ELSE reader' = base /\ pass' = PassOver(c, ahead)

Starts == reader = Unread /\ ops < MaxOps /\ ops' = ops + 1 /\ UNCHANGED <<world, faults>>
Ranges == {r \in (0 .. view.len) \X (0 .. view.len) : r[1] <= r[2]}
CutView(r) ==
    /\ Starts
    /\ view' = Slice(view, r[1], r[2]) /\ meaning' = SubSeq(meaning, r[1] + 1, r[2])
    /\ UNCHANGED <<reader, pass>>
Restore ==
    /\ Starts /\ Describable(view)
    /\ view' = IF view.kind = "stream" \/ Coherent(view) THEN Restored(view) ELSE Broken
    /\ UNCHANGED <<meaning, reader, pass>>
ReadAt(r) ==
    /\ Starts /\ Open("read", Slice(view, r[1], r[2]), SubSeq(meaning, r[1] + 1, r[2]), FALSE)
    /\ UNCHANGED <<view, meaning>>
\* A reader, and the hashes and the copy that are made with one.
Copyable(c) == IF Materialized(c) THEN {"read", "hash", "copy"} ELSE {"read", "hash"}
ReadAll ==
    /\ Starts /\ \E p \in Copyable(view) : Open(p, view, meaning, TRUE)
    /\ UNCHANGED <<view, meaning>>
\* It stays a view if it has no place in the spool, or the caller wants its
\* chunks in their cache.
MaterializedBy(c) ==
    IF c.len > MemoryLimit /\ c.len > SpoolLimit THEN {"hash"} ELSE {"hash", "write"}
Materialize ==
    /\ Starts /\ ~Materialized(view)
    /\ \E p \in MaterializedBy(view) : Open(p, view, meaning, TRUE)
    /\ UNCHANGED <<view, meaning>>
\* Base64Data::scan, of what the parser found to be a string.
Scan ==
    /\ Starts /\ view.kind # "base64" /\ meaning = JsonString
    /\ reader' = [at |-> "open", purpose |-> "scan", of |-> view, want |-> Chars(meaning),
               out |-> << >>, decoder |-> Decoder(0, 0, <<<<0, 0>>>>)]
    /\ pass' = PassOver(view, TRUE)
    /\ UNCHANGED <<view, meaning>>

-----------------------------------------------------------------------------
(* Bytes below the decoder.                                                *)

Reading == reader.at = "open"
Scanning == reader.purpose = "scan"
Enough(buffer) == Len(Chars(buffer)) >= DecodeBlock
Drained == pass.position = pass.end
Direct == reader.decoder = Nil
Satisfied == ~Scanning /\ reader.decoder.left = 0
\* Somebody polls for more.
Pulled ==
    /\ Reading /\ ~Drained
    /\ IF Direct THEN TRUE ELSE ~Enough(reader.decoder.buffer) /\ ~Satisfied
Fetching == Reading /\ pass.kind = "stream"
RawBytes(from, to) == SubSeq(raw, from + 1, to)
Deliver(bytes) ==
    reader' = IF Direct THEN [reader EXCEPT !.out = @ \o bytes]
           ELSE [reader EXCEPT !.decoder.buffer = @ \o bytes]
Frozen == UNCHANGED <<world, view, meaning, ops>>
Unharmed == Frozen /\ UNCHANGED faults
Failed == reader' = [reader EXCEPT !.at = "failed"]
Fault == faults < MaxFaults /\ faults' = faults + 1

\* Memory at once; a file by a blocking task that owns it and its buffer.
GiveBytes ==
    /\ Pulled /\ pass.kind = "memory"
    /\ \E n \in 1 .. pass.end - pass.position :
          /\ Deliver(SubSeq(pass.data, pass.position + 1, pass.position + n))
          /\ pass' = [pass EXCEPT !.position = @ + n]
    /\ Unharmed
ReadFile ==
    /\ Pulled /\ pass.kind = "file" /\ pass.buffer = << >> /\ pass.taking = 0
    /\ \E n \in 1 .. Lesser(IoChunk, pass.end - pass.position) : pass' = [pass EXCEPT !.taking = n]
    /\ UNCHANGED reader /\ Unharmed
FileRead ==
    /\ Reading /\ pass.kind = "file" /\ pass.taking > 0
    /\ pass' = [pass EXCEPT !.taking = 0,
                   !.buffer = SubSeq(pass.data, pass.position + 1, pass.position + pass.taking)]
    /\ UNCHANGED reader /\ Unharmed
FileLost ==
    /\ Reading /\ pass.kind = "file" /\ pass.taking > 0
    /\ Failed /\ Fault /\ Frozen /\ UNCHANGED pass
GiveBuffer ==
    /\ Pulled /\ pass.kind = "file" /\ pass.buffer # << >>
    /\ \E n \in DOMAIN pass.buffer :
          /\ Deliver(SubSeq(pass.buffer, 1, n))
          /\ pass' = [pass EXCEPT !.position = @ + n, !.buffer = SubSeq(@, n + 1, Len(@))]
    /\ Unharmed

-----------------------------------------------------------------------------
(* Chunks: requests ahead, a chunk apart, answered in any order and taken  *)
(* in theirs, and one request more for what lies between two of them.      *)

ChunkAt(position) ==
    LET later == {c \in cuts : c > position} IN
    [start |-> Max({c \in cuts : c <= position}),
     end |-> IF later = {} THEN Len(raw) ELSE Min(later)]
Ask(p, position) == [p EXCEPT !.asked = Append(@, ChunkAt(position).start)]
Waiting == Pulled /\ pass.kind = "stream" /\ ~pass.gap /\ pass.next = Nil
Issue ==
    /\ Waiting /\ Len(pass.queue) < Window /\ pass.step < pass.end
    /\ pass' = [Ask(pass, pass.step) EXCEPT
                   !.queue = Append(@, [position |-> pass.step, got |-> FALSE]),
                   !.step = @ + MaxChunk]
    /\ UNCHANGED reader /\ Unharmed
Answer(k) ==
    /\ Fetching /\ k \in DOMAIN pass.queue /\ ~pass.queue[k].got
    /\ pass' = [pass EXCEPT !.queue[k].got = TRUE]
    /\ UNCHANGED reader /\ Unharmed
\* A chunk that cannot be had ends the stream when its turn comes.
Missing(k) ==
    /\ Fetching /\ k \in DOMAIN pass.queue /\ ~pass.queue[k].got
    /\ Failed /\ Fault /\ Frozen /\ UNCHANGED pass
TakeAhead ==
    /\ Waiting /\ pass.queue # << >> /\ Head(pass.queue).got
    /\ pass' = [pass EXCEPT !.next = ChunkAt(Head(pass.queue).position), !.queue = Tail(@)]
    /\ UNCHANGED reader /\ Unharmed
Reached == pass.next.start <= pass.position
GiveChunk(chunk, rest) ==
    LET end == Lesser(pass.end, chunk.end) IN
    IF chunk.end <= pass.position THEN Failed /\ UNCHANGED pass   \* no progress
    ELSE Deliver(RawBytes(pass.position, end)) /\ pass' = [rest EXCEPT !.position = end]
GiveAhead ==
    /\ Pulled /\ pass.kind = "stream" /\ pass.next # Nil /\ Reached
    /\ GiveChunk(pass.next, [pass EXCEPT !.next = Nil]) /\ Unharmed
AskGap ==
    /\ Pulled /\ pass.kind = "stream" /\ ~pass.gap
    /\ IF pass.next = Nil THEN pass.queue = << >> /\ pass.step >= pass.end ELSE ~Reached
    /\ pass' = [Ask(pass, pass.position) EXCEPT !.gap = TRUE]
    /\ UNCHANGED reader /\ Unharmed
GiveGap ==
    /\ Fetching /\ pass.gap
    /\ GiveChunk(ChunkAt(pass.position), [pass EXCEPT !.gap = FALSE]) /\ Unharmed
GapMissing ==
    /\ Fetching /\ pass.gap /\ Failed /\ Fault /\ Frozen /\ UNCHANGED pass

-----------------------------------------------------------------------------
(* The decoder, and the ends of jobs.                                      *)

Stride == Max({(reader.of.len + MaxPoints - 1) \div MaxPoints, DecodeBlock})
\* A block of characters and the bytes it takes.
CharBlock(buffer) ==
    LET ends == SetToSortSeq({k \in DOMAIN buffer : buffer[k].part = buffer[k].of}, <)
    IN SubSeq(buffer, 1, ends[Lesser(DecodeBlock, Len(ends))])
WellFormed(buffer) == Chars(buffer) # << >> /\ Head(buffer).part = 1 /\ Last(buffer).part = Last(buffer).of
Checkpoint(d, n, size) ==
    LET past == d.raw + n IN
    IF past >= Last(d.points)[1] + Stride THEN Append(d.points, <<past, size>>) ELSE d.points
DecodeNext ==
    LET d == reader.decoder
        block == CharBlock(d.buffer)
        chars == Chars(block)
        kept == IF Scanning THEN chars ELSE SubSeq(chars, d.skip + 1, Lesser(Len(chars), d.skip + d.left))
        out == reader.out \o kept
    IN /\ Reading /\ ~Direct
       /\ Enough(d.buffer) \/ (Drained /\ d.buffer # << >>)
       /\ ~Satisfied
       /\ IF ~Enough(d.buffer) /\ ~WellFormed(d.buffer) THEN Failed
          ELSE reader' = [reader EXCEPT
                  !.out = out,
                  !.decoder = [buffer |-> SubSeq(d.buffer, Len(block) + 1, Len(d.buffer)),
                               skip |-> Max({d.skip - Len(chars), 0}),
                               left |-> d.left - (IF Scanning THEN 0 ELSE Len(kept)),
                               raw |-> d.raw + Len(block),
                               points |-> IF Scanning THEN Checkpoint(d, Len(block), Len(out)) ELSE Nil]]
       /\ UNCHANGED pass /\ Unharmed

Exhausted == Drained /\ (IF Direct THEN TRUE ELSE reader.decoder.buffer = << >>)
Over == IF Direct THEN Exhausted ELSE Satisfied \/ Exhausted
Truncated == IF Direct \/ Scanning THEN FALSE ELSE reader.decoder.left > 0
End ==
    /\ Reading /\ Over
    /\ IF Truncated THEN Failed ELSE reader' = [reader EXCEPT !.at = "ended"]
    /\ UNCHANGED pass /\ Unharmed
Written(bytes) == IF Len(bytes) <= MemoryLimit THEN InMemory(bytes) ELSE InFile(bytes)
Close ==
    /\ reader.at \in {"ended", "failed"}
    /\ reader' = Unread /\ pass' = Unread
    /\ view' = CASE reader.at = "ended" /\ reader.purpose = "write" -> Written(reader.out)
                    [] reader.at = "ended" /\ reader.purpose = "scan" ->
                          Base64(view, reader.decoder.points, Len(reader.out))
                    [] OTHER -> view
    /\ meaning' = IF reader.at = "ended" /\ reader.purpose = "scan" THEN reader.want ELSE meaning
    /\ UNCHANGED <<world, ops, faults>>
\* Whoever reads goes away.
Leave ==
    /\ Reading /\ reader' = Unread /\ pass' = Unread /\ Unharmed

-----------------------------------------------------------------------------
ContentsInit ==
    /\ raw \in {InJson(t) : t \in Texts} /\ cuts \in Chunkings
    /\ view = Streamed(0, Len(raw)) /\ meaning = raw
    /\ reader = Unread /\ pass = Unread /\ ops = 0 /\ faults = 0
ContentsNext ==
    \/ reader = Unread /\ \E r \in Ranges : CutView(r) \/ ReadAt(r)
    \/ Restore \/ ReadAll \/ Materialize \/ Scan
    \/ GiveBytes \/ ReadFile \/ FileRead \/ FileLost \/ GiveBuffer
    \/ Issue \/ TakeAhead \/ GiveAhead \/ AskGap \/ GiveGap \/ GapMissing
    \/ \E k \in 1 .. Window : Answer(k) \/ Missing(k)
    \/ DecodeNext \/ End \/ Close \/ Leave

-----------------------------------------------------------------------------
\* Whatever way a Content was cut, stored, restored and decoded, a reader gets
\* its bytes, in order, all of them when it ends well, and fails only if a
\* fetch or a file did (Content::reader, ChunkSource::read_ahead,
\* Base64Data::stream).  One pass asks for no chunk twice, as the comment in
\* read_ahead says, and keeps to the requests it has slots for.
ContentExact ==
    /\ view # Broken
    /\ reader.at # "idle" =>
          /\ IsPrefix(reader.out, reader.want)
          /\ reader.at = "ended" => reader.out = reader.want
          /\ reader.at = "failed" => faults > 0
    /\ Reading /\ pass.kind = "stream" =>
          /\ IsInjective(pass.asked)
          /\ Cardinality({k \in DOMAIN pass.queue : ~pass.queue[k].got}) + (IF pass.gap THEN 1 ELSE 0)
                <= Window + 1
===============================================================================
