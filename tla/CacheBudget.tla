----------------------------- MODULE CacheBudget -----------------------------
(***************************************************************************)
(* The disk space the content cache may use (disk_cache.rs).  A write      *)
(* first reserves its bytes (CacheDirectory::reserve), then compares the   *)
(* free space with what must stay free and all reservations (admit), and   *)
(* only then creates its temporary file.  Nothing is locked in between:    *)
(* the counter is atomic and the two measurements are taken one after the  *)
(* other while other writes go on.                                         *)
(***************************************************************************)
EXTENDS Integers, FiniteSets, FiniteSetsExt

CONSTANTS
    Writer,      \* writes under way at one time
    Sizes,       \* content lengths
    MaxPending,  \* max_pending_bytes
    MinFree,     \* min_free_bytes
    DiskSize     \* capacity of the file system

ASSUME BudgetAssumption ==
    /\ Sizes \subseteq Nat /\ {MaxPending, MinFree, DiskSize} \subseteq Nat

VARIABLES
    free,     \* available_space
    pending,  \* pending_bytes
    stage,    \* progress of each write
    size,     \* its content length
    seen,     \* its snapshot of pending_bytes
    temp      \* bytes in its temporary file

budgetVars == <<free, pending, stage, size, seen, temp>>

\* Empty blobs are charged too.
Charge(n) == IF n = 0 THEN 1 ELSE n

TempBytes == MapThenSumSet(LAMBDA w : temp[w], Writer)

BudgetInit ==
    /\ free \in 0 .. DiskSize /\ pending = 0
    /\ stage = [w \in Writer |-> "idle"]
    /\ size = [w \in Writer |-> 0] /\ seen = size /\ temp = size

-----------------------------------------------------------------------------
NotFull(n) == pending + Charge(n) <= MaxPending

Reserve(w, n) ==
    /\ stage[w] = "idle" /\ NotFull(n)
    /\ pending' = pending + Charge(n)
    /\ stage' = [stage EXCEPT ![w] = "reserved"]
    /\ size' = [size EXCEPT ![w] = n]
    /\ UNCHANGED <<free, seen, temp>>

\* admit: the snapshot of the reservations comes first, then the free space.
OwnBytes(w) == seen' = [seen EXCEPT ![w] = Charge(size[w])]  \* mutant: others not counted
Snapshot(w) == seen' = [seen EXCEPT ![w] = pending]

Count(w) ==
    /\ stage[w] = "reserved"
    /\ Snapshot(w)
    /\ stage' = [stage EXCEPT ![w] = "counted"]
    /\ UNCHANGED <<free, pending, size, temp>>

Enough(w) == free >= MinFree + seen[w]

Admit(w) ==
    /\ stage[w] = "counted" /\ Enough(w)
    /\ stage' = [stage EXCEPT ![w] = "writing"]
    /\ UNCHANGED <<free, pending, size, seen, temp>>

Release(w) ==
    /\ pending' = pending - Charge(size[w])
    /\ stage' = [stage EXCEPT ![w] = "idle"]
    /\ size' = [size EXCEPT ![w] = 0] /\ seen' = [seen EXCEPT ![w] = 0]

Refuse(w) ==
    /\ stage[w] = "counted" /\ ~Enough(w)
    /\ Release(w) /\ UNCHANGED <<free, temp>>

WriteByte(w) ==
    /\ stage[w] = "writing" /\ temp[w] < size[w] /\ free > 0
    /\ temp' = [temp EXCEPT ![w] = @ + 1] /\ free' = free - 1
    /\ UNCHANGED <<pending, stage, size, seen>>

\* The temporary file becomes the blob; its reservation goes a moment later.
Publish(w) ==
    /\ stage[w] = "writing" /\ temp[w] = size[w]
    /\ temp' = [temp EXCEPT ![w] = 0] /\ stage' = [stage EXCEPT ![w] = "published"]
    /\ UNCHANGED <<free, pending, size, seen>>

Published(w) ==
    /\ stage[w] = "published"
    /\ Release(w) /\ UNCHANGED <<free, temp>>

\* A write that fails removes its bytes, then gives its reservation back.
Discard(w) ==
    /\ stage[w] \in {"reserved", "counted", "writing"}
    /\ stage' = [stage EXCEPT ![w] = "discarded"]
    /\ temp' = [temp EXCEPT ![w] = 0] /\ free' = free + temp[w]
    /\ UNCHANGED <<pending, size, seen>>

Discarded(w) ==
    /\ stage[w] = "discarded"
    /\ Release(w) /\ UNCHANGED <<free, temp>>

\* The blob is there already: store drops the reservation and returns; the
\* error that holds the temporary file is dropped after it.
Duplicate(w) ==
    /\ stage[w] = "writing" /\ temp[w] = size[w]
    /\ pending' = pending - Charge(size[w])
    /\ stage' = [stage EXCEPT ![w] = "duplicate"]
    /\ UNCHANGED <<free, size, seen, temp>>

DropDuplicate(w) ==
    /\ stage[w] = "duplicate"
    /\ temp' = [temp EXCEPT ![w] = 0] /\ free' = free + temp[w]
    /\ stage' = [stage EXCEPT ![w] = "idle"]
    /\ size' = [size EXCEPT ![w] = 0] /\ seen' = [seen EXCEPT ![w] = 0]
    /\ UNCHANGED pending

\* Blobs that were unlinked give their bytes back once nobody has them open.
Reclaimed ==
    /\ free + TempBytes < DiskSize
    /\ free' = free + 1
    /\ UNCHANGED <<pending, stage, size, seen, temp>>

-----------------------------------------------------------------------------
BudgetTypeOK ==
    /\ free \in 0 .. DiskSize /\ pending \in 0 .. MaxPending
    /\ stage \in [Writer -> {"idle", "reserved", "counted", "writing", "published",
                             "discarded", "duplicate"}]
    /\ size \in [Writer -> Sizes \cup {0}]
    /\ seen \in [Writer -> 0 .. MaxPending] /\ temp \in [Writer -> Nat]
    /\ free + TempBytes <= DiskSize

\* Reserved bytes are in the counter exactly as long as their write holds them.
PendingExact ==
    pending = MapThenSumSet(LAMBDA w : Charge(size[w]),
                            {w \in Writer : stage[w] \notin {"idle", "duplicate"}})

\* The cache never writes into the space that must stay free, though writes
\* measure it without a lock: a write that completes between another's two
\* measurements is counted twice, never in neither (the comment in admit).
FreeKept == [][free' < free => free' >= MinFree]_budgetVars
=============================================================================
