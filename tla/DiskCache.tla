------------------------------ MODULE DiskCache ------------------------------
(***************************************************************************)
(* The content cache on disk (disk_cache.rs): files named by the hash of   *)
(* their content, and rows of cache_blobs and cache_chunks that lead to    *)
(* them (database.rs).  Publishers write the file first, then the row,     *)
(* then the mapping; the evictor removes them the other way round.         *)
(* Publishers and chunk lookups hold the read side of one lock, the        *)
(* evictor its write side; objects are read without it, under a shared     *)
(* lock of the file.                                                       *)
(*                                                                         *)
(* The space of the writes is CacheBudget, whose steps are part of these.  *)
(* A row and its mapping are one blob: a chunk, or an object kept whole.   *)
(***************************************************************************)
EXTENDS CacheBudget

CONSTANTS
    Blob,       \* content hashes
    Bytes,      \* [Blob -> Sizes]
    Reader,     \* requests that look content up
    Nothing,    \* no blob
    MaxFaults   \* bound: damaged files, failed steps and crashes

ASSUME DiskAssumption ==
    /\ Bytes \in [Blob -> Sizes] /\ Nothing \notin Blob /\ MaxFaults \in Nat
    /\ Writer \cap Reader = {}

VARIABLES
    disk,      \* the file of each blob: "none", "good", or "bad" after damage
    rows,      \* cache_blobs
    mapped,    \* blobs that cache_chunks or cache_objects lead to
    at,        \* progress of each publisher (Writer)
    blob,      \* what each publisher publishes
    read,      \* progress of each reader
    target,    \* the blob a reader is at
    file,      \* the file it has open: "none", "gone" once unlinked, or its content
    inside,    \* holders of the publication lock's read side
    touches,   \* blobs used since the last flush
    evict,     \* progress of reclaim
    victims,   \* the oldest rows, or those pinned among them
    faults,    \* faults so far
    faulty     \* a step failed or the process died since the last cleanup

files == <<disk, rows, mapped>>
publishers == <<at, blob>>
readers == <<read, target, file>>
evictor == <<evict, victims>>
faultVars == <<faults, faulty>>
diskVars == <<budgetVars, files, publishers, readers, inside, touches, evictor, faultVars>>

Fault == /\ faults < MaxFaults /\ faults' = faults + 1

\* The lock is fair: a writer that waits keeps new readers out.
NoLock == TRUE                                   \* mutant: nothing keeps them out
Open == evict = "idle"
TryRead(x) == Open /\ inside' = inside \cup {x}
Unlock(x) == inside' = inside \ {x}

Leave(p) ==
    /\ Unlock(p)
    /\ at' = [at EXCEPT ![p] = "idle"] /\ blob' = [blob EXCEPT ![p] = Nothing]
Goto(p, s) == at' = [at EXCEPT ![p] = s] /\ UNCHANGED <<blob, inside>>

\* Handles to a file whose path is removed or replaced keep its content.
Unlinked(b) == file' = [r \in Reader |-> IF target[r] = b /\ file[r] # "none" THEN "gone" ELSE file[r]]

-----------------------------------------------------------------------------
(* publish_chunk and save_content_cache: tasks of their own, which no      *)
(* caller cancels.                                                         *)

Begin(p, b) ==
    /\ at[p] = "idle" /\ TryRead(p)
    /\ at' = [at EXCEPT ![p] = "begun"] /\ blob' = [blob EXCEPT ![p] = b]
    /\ UNCHANGED <<budgetVars, files, readers, touches, evictor, faultVars>>

\* store takes the lock again without waiting for it: behind a writer that
\* waits for the first one it would wait forever.
StoreBegin(p) ==
    /\ at[p] = "begun" /\ Open
    /\ Reserve(p, Bytes[blob[p]])
    /\ Goto(p, "storing")
    /\ UNCHANGED <<files, readers, touches, evictor, faultVars>>

\* The anchor is not stored, the lock is asked for, or no bytes are left.
Skip(p) ==
    /\ at[p] = "begun"
    /\ Leave(p)
    /\ UNCHANGED <<budgetVars, files, readers, touches, evictor, faultVars>>

Prepare(p) ==
    /\ at[p] = "storing"
    /\ \/ (Count(p) \/ Admit(p) \/ WriteByte(p)) /\ UNCHANGED <<publishers, inside>>
       \/ Refuse(p) /\ Leave(p)
    /\ UNCHANGED <<files, readers, touches, evictor, faultVars>>

Complete(p) == stage[p] = "writing" /\ temp[p] = size[p]

\* persist_noclobber
Link(p) ==
    /\ at[p] = "storing" /\ Complete(p)
    /\ \/ /\ disk[blob[p]] = "none" /\ Publish(p)
          /\ disk' = [disk EXCEPT ![blob[p]] = "good"]
          /\ Goto(p, "linked")
       \/ /\ disk[blob[p]] # "none" /\ Goto(p, "exists")
          /\ UNCHANGED <<disk, budgetVars>>
    /\ UNCHANGED <<rows, mapped, readers, touches, evictor, faultVars>>

Verify(p) ==
    /\ at[p] = "exists"
    /\ \/ disk[blob[p]] = "good" /\ Duplicate(p) /\ Goto(p, "duplicate")
       \/ disk[blob[p]] = "bad" /\ Goto(p, "repair") /\ UNCHANGED budgetVars
    /\ UNCHANGED <<files, readers, touches, evictor, faultVars>>

Repair(p) ==
    /\ at[p] = "repair" /\ Publish(p)
    /\ disk' = [disk EXCEPT ![blob[p]] = "good"] /\ Unlinked(blob[p])
    /\ Goto(p, "linked")
    /\ UNCHANGED <<rows, mapped, read, target, touches, evictor, faultVars>>

StoreEnd(p) ==
    /\ \/ at[p] = "linked" /\ Published(p)
       \/ at[p] = "duplicate" /\ DropDuplicate(p)
    /\ Goto(p, "stored")
    /\ UNCHANGED <<files, readers, touches, evictor, faultVars>>

\* register_cache_blob
Register(p) ==
    /\ at[p] = "stored"
    /\ rows' = rows \cup {blob[p]}
    /\ Goto(p, "registered")
    /\ UNCHANGED <<budgetVars, disk, mapped, readers, touches, evictor, faultVars>>

\* cache_chunk, cache_content: nothing is mapped once the block has gone.
Map(p) ==
    /\ at[p] = "registered" /\ blob[p] \in rows
    /\ mapped' \in {mapped, mapped \cup {blob[p]}}
    /\ Leave(p)
    /\ UNCHANGED <<budgetVars, disk, rows, readers, touches, evictor, faultVars>>

\* A step fails; unfinished bytes go before their reservation.
Fail(p) ==
    /\ Fault /\ faulty' = TRUE /\ at[p] \notin {"idle", "duplicate", "failing"}
    /\ \/ stage[p] = "idle" /\ Leave(p) /\ UNCHANGED budgetVars
       \/ Discard(p) /\ Goto(p, "failing")
       \/ Published(p) /\ Leave(p)
    /\ UNCHANGED <<files, readers, touches, evictor>>

Failed(p) ==
    /\ at[p] = "failing" /\ Discarded(p) /\ Leave(p)
    /\ UNCHANGED <<files, readers, touches, evictor, faultVars>>

Publisher(p) ==
    \/ StoreBegin(p) \/ Skip(p) \/ Prepare(p) \/ Link(p) \/ Verify(p) \/ Repair(p)
    \/ StoreEnd(p) \/ Register(p) \/ Map(p) \/ Failed(p)

-----------------------------------------------------------------------------
(* Readers.                                                                *)

Reading(r, s, b, f) ==
    /\ read' = [read EXCEPT ![r] = s]
    /\ target' = [target EXCEPT ![r] = b] /\ file' = [file EXCEPT ![r] = f]
EndRead(r) == Reading(r, "idle", Nothing, "none")

\* fetch_verified_chunk_inner: mapping and file under the lock.
Lookup(r) ==
    /\ read[r] = "idle" /\ TryRead(r)
    /\ Reading(r, "lookup", Nothing, "none")
    /\ UNCHANGED <<budgetVars, files, publishers, touches, evictor, faultVars>>

Hit(r) ==
    /\ read[r] = "lookup"
    /\ \E b \in mapped : disk[b] = "good" /\ touches' = touches \cup {b}
    /\ EndRead(r) /\ Unlock(r)
    /\ UNCHANGED <<budgetVars, files, publishers, evictor, faultVars>>

Stale(r) ==
    /\ read[r] = "lookup"
    /\ \E b \in mapped : disk[b] # "good" /\ Reading(r, "stale", b, "none")
    /\ UNCHANGED <<budgetVars, files, publishers, inside, touches, evictor, faultVars>>

\* forget_cached_chunk, then the next candidate
Forget(r) ==
    /\ read[r] = "stale"
    /\ mapped' = mapped \ {target[r]}
    /\ Reading(r, "lookup", Nothing, "none")
    /\ UNCHANGED <<budgetVars, disk, rows, publishers, inside, touches, evictor, faultVars>>

\* No mapping for this chunk, or the timeout.
Miss(r) ==
    /\ read[r] \in {"lookup", "stale"}
    /\ EndRead(r) /\ Unlock(r)
    /\ UNCHANGED <<budgetVars, files, publishers, touches, evictor, faultVars>>

\* load_content_cache: the row, then the file, without the lock.
Find(r, b) ==
    /\ read[r] = "idle" /\ b \in mapped
    /\ Reading(r, "found", b, "none")
    /\ UNCHANGED <<budgetVars, files, publishers, inside, touches, evictor, faultVars>>

OpenFile(r) ==
    /\ read[r] = "found" /\ disk[target[r]] # "none"
    /\ Reading(r, "opened", target[r], disk[target[r]])
    /\ UNCHANGED <<budgetVars, files, publishers, inside, touches, evictor, faultVars>>

Exclusive(b) == evict \in {"pinned", "unmapped", "unlinking"} /\ b \in victims

\* try_lock_shared
LockFile(r) ==
    /\ read[r] = "opened" /\ (file[r] = "gone" \/ ~Exclusive(target[r]))
    /\ Reading(r, "locked", target[r], file[r])
    /\ UNCHANGED <<budgetVars, files, publishers, inside, touches, evictor, faultVars>>

\* The content is hashed; while it is served the lock stays.
Serve(r) ==
    /\ read[r] = "locked" /\ file[r] # "bad"
    /\ Reading(r, "serving", target[r], file[r])
    /\ touches' = touches \cup {target[r]}
    /\ UNCHANGED <<budgetVars, files, publishers, inside, evictor, faultVars>>

\* No file, no lock, another content, the end of the response.
Close(r) ==
    /\ read[r] \in {"found", "opened", "locked", "serving"}
    /\ EndRead(r)
    /\ UNCHANGED <<budgetVars, files, publishers, inside, touches, evictor, faultVars>>

Request(r) ==
    \/ Hit(r) \/ Stale(r) \/ Forget(r) \/ Miss(r)
    \/ OpenFile(r) \/ LockFile(r) \/ Serve(r) \/ Close(r)

-----------------------------------------------------------------------------
(* reclaim: one batch of the oldest rows.  That space is short, and which  *)
(* rows are the oldest, is not decided here.                               *)

Choose ==
    /\ evict = "idle" /\ rows # {}
    /\ touches' = {}
    /\ evict' = "waiting" /\ victims' \in SUBSET rows \ {{}}
    /\ UNCHANGED <<budgetVars, files, publishers, readers, inside, faultVars>>

Enter ==
    /\ evict = "waiting" /\ inside = {}
    /\ evict' = "exclusive"
    /\ UNCHANGED <<budgetVars, files, publishers, readers, inside, touches, victims, faultVars>>

\* A shared lock on the file that the path leads to now.
Locked(b) == \E r \in Reader : read[r] \in {"locked", "serving"} /\ target[r] = b /\ file[r] # "gone"

\* Touched and open files are spared, the others locked one by one.
AllVictims == victims                            \* mutant: files in use are taken too
Pinned == {b \in victims : b \notin touches /\ ~Locked(b)}

Pin ==
    /\ evict = "exclusive"
    /\ victims' = Pinned
    /\ evict' = IF Pinned = {} THEN "idle" ELSE "pinned"
    /\ UNCHANGED <<budgetVars, files, publishers, readers, inside, touches, faultVars>>

\* remove_cache_mappings: first the placements that lose all their chunks,
\* then the rows, which take the other mappings with them.
Unmap ==
    /\ evict = "pinned" /\ evict' = "unmapped"
    /\ \E gone \in SUBSET victims : mapped' = mapped \ gone
    /\ UNCHANGED <<budgetVars, disk, rows, publishers, readers, inside, touches, victims, faultVars>>

RemoveRows ==
    /\ evict = "unmapped" /\ evict' = "unlinking"
    /\ rows' = rows \ victims /\ mapped' = mapped \ victims
    /\ UNCHANGED <<budgetVars, disk, publishers, readers, inside, touches, victims, faultVars>>

Unlink(b) ==
    /\ evict = "unlinking" /\ b \in victims
    /\ disk' = [disk EXCEPT ![b] = "none"] /\ Unlinked(b)
    /\ victims' = victims \ {b}
    /\ evict' = IF victims = {b} THEN "idle" ELSE evict
    /\ UNCHANGED <<budgetVars, rows, mapped, publishers, read, target, inside, touches, faultVars>>

EvictFails ==
    /\ Fault /\ faulty' = TRUE
    /\ evict # "idle" /\ evict' = "idle" /\ victims' = {}
    /\ UNCHANGED <<budgetVars, files, publishers, readers, inside, touches>>

-----------------------------------------------------------------------------
Damage(b) ==
    /\ Fault /\ disk[b] = "good"
    /\ disk' = [disk EXCEPT ![b] = "bad"]
    /\ file' = [r \in Reader |-> IF target[r] = b /\ read[r] = "opened" /\ file[r] = "good" THEN "bad" ELSE file[r]]
    /\ UNCHANGED <<budgetVars, rows, mapped, publishers, read, target, inside, touches, evictor, faulty>>

\* The process dies; temporary files stay until the cleanup.
Crash ==
    /\ Fault /\ faulty' = TRUE
    /\ pending' = 0 /\ stage' = [w \in Writer |-> "idle"]
    /\ size' = [w \in Writer |-> 0] /\ seen' = size' /\ temp' = size'
    /\ at' = [p \in Writer |-> "idle"] /\ blob' = [p \in Writer |-> Nothing]
    /\ read' = [r \in Reader |-> "idle"] /\ target' = [r \in Reader |-> Nothing]
    /\ file' = [r \in Reader |-> "none"]
    /\ inside' = {} /\ touches' = {} /\ evict' = "idle" /\ victims' = {}
    /\ UNCHANGED <<free, files>>

\* cleanup, a run of its own with nobody else in the directory.
AllKept == Blob                                  \* mutant: files without a row are kept
Kept == {b \in Blob : b \in rows}
Cleanup ==
    /\ faulty /\ faulty' = FALSE
    /\ \A p \in Writer : at[p] = "idle"
    /\ \A r \in Reader : read[r] = "idle"
    /\ evict = "idle"
    /\ disk' = [b \in Blob |-> IF b \in Kept THEN disk[b] ELSE "none"]
    /\ UNCHANGED <<budgetVars, rows, mapped, publishers, readers, inside, touches, evictor, faults>>

Init ==
    /\ BudgetInit
    /\ disk = [b \in Blob |-> "none"] /\ rows = {} /\ mapped = {}
    /\ at = [p \in Writer |-> "idle"] /\ blob = [p \in Writer |-> Nothing]
    /\ read = [r \in Reader |-> "idle"] /\ target = [r \in Reader |-> Nothing]
    /\ file = [r \in Reader |-> "none"]
    /\ inside = {} /\ touches = {} /\ evict = "idle" /\ victims = {}
    /\ faults = 0 /\ faulty = FALSE

Evictor == Enter \/ Pin \/ Unmap \/ RemoveRows \/ \E b \in Blob : Unlink(b)

Next ==
    \/ \E p \in Writer : Publisher(p) \/ Fail(p) \/ \E b \in Blob : Begin(p, b)
    \/ \E r \in Reader : Request(r) \/ Lookup(r) \/ \E b \in Blob : Find(r, b)
    \/ Choose \/ Evictor \/ EvictFails \/ Crash \/ Cleanup
    \/ \E b \in Blob : Damage(b)
    \/ Reclaimed /\ UNCHANGED <<files, publishers, readers, inside, touches, evictor, faultVars>>

Spec == Init /\ [][Next]_diskVars

\* Tasks run on and lookups end; a response may be read as slowly as the
\* client likes.
FairSpec ==
    /\ Spec
    /\ \A p \in Writer : WF_diskVars(Publisher(p))
    /\ \A r \in Reader : WF_diskVars(Hit(r) \/ Stale(r) \/ Forget(r) \/ Miss(r))
    /\ WF_diskVars(Evictor)

-----------------------------------------------------------------------------
DiskTypeOK ==
    /\ BudgetTypeOK
    /\ disk \in [Blob -> {"none", "good", "bad"}] /\ rows \subseteq Blob /\ mapped \subseteq rows
    /\ blob \in [Writer -> Blob \cup {Nothing}]
    /\ \A p \in Writer : at[p] = "idle" <=> p \notin inside
    /\ target \in [Reader -> Blob \cup {Nothing}]
    /\ file \in [Reader -> {"none", "good", "bad", "gone"}]
    /\ inside \subseteq Writer \cup Reader /\ touches \subseteq Blob /\ victims \subseteq Blob
    /\ evict \in {"idle", "waiting", "exclusive", "pinned", "unmapped", "unlinking"}

\* A row always leads to a file: the evictor never removes one that a
\* publisher has just found there and is about to register.
RowsHaveFiles == \A b \in rows : disk[b] # "none"

Owned(b) ==
    \/ b \in rows
    \/ \E p \in Writer : blob[p] = b /\ at[p] \in {"linked", "duplicate", "stored"}
    \/ Exclusive(b)

\* Without faults every file has a row, or a publisher or the evictor that
\* is about to change that: reclaim can reach all the space.  After faults
\* one cleanup restores it.
FilesOwned == faulty \/ \A b \in Blob : disk[b] # "none" => Owned(b)

\* Rows and files belong together, whatever publishers, the evictor and
\* crashes have left undone.
RowsAndFiles == RowsHaveFiles /\ FilesOwned

\* A file that a response is being read from is never removed.
InUseKept ==
    [][\A b \in Blob : Locked(b) /\ disk'[b] = "none" => disk[b] = "none"]_diskVars

\* reclaim gets its lock and ends, whoever publishes: it can never wait for
\* a publisher that waits for it.
ReclaimEnds == evict # "idle" ~> evict = "idle"
=============================================================================
