----------------------------- MODULE ReadsProofs -----------------------------
(***************************************************************************)
(* For any blobs, publishers, readers and faults: rows lead to files, a    *)
(* file without a row has somebody who is about to change that, a file     *)
(* that is being served is never removed, and writes that measure the disk *)
(* without a lock never write into the space that must stay free.          *)
(*                                                                         *)
(* For any objects, writers and preparations: while the fingerprints may   *)
(* be used, every placement with metadata has its own.                     *)
(*                                                                         *)
(* For any objects, queries and changes: every page of a listing is what   *)
(* its query means, and what answers the query all the time is shown once. *)
(***************************************************************************)
EXTENDS DiskCache, FilterIndex, GraphqlPages, Tallies

Stages == {"idle", "begun", "storing", "exists", "repair", "linked", "duplicate",
           "stored", "registered", "failing"}
Reads == {"idle", "lookup", "stale", "found", "opened", "locked", "serving"}
Evicts == {"idle", "waiting", "exclusive", "pinned", "unmapped", "unlinking"}

Shape ==
    /\ disk \in [Blob -> {"none", "good", "bad"}]
    /\ rows \subseteq Blob /\ mapped \subseteq Blob
    /\ at \in [Writer -> Stages] /\ blob \in [Writer -> Blob \cup {Nothing}]
    /\ read \in [Reader -> Reads] /\ target \in [Reader -> Blob \cup {Nothing}]
    /\ file \in [Reader -> {"none", "good", "bad", "gone"}]
    /\ \A r \in Reader : read[r] \notin {"idle", "lookup"} => target[r] \in Blob
    /\ inside \subseteq Writer \cup Reader /\ touches \subseteq Blob /\ victims \subseteq Blob
    /\ evict \in Evicts /\ faulty \in BOOLEAN

\* A publisher that is past the file system has its file.
Filed == {"exists", "repair", "linked", "duplicate", "stored", "registered"}
Owning == {"linked", "duplicate", "stored"}
Publishing ==
    \A p \in Writer :
        /\ at[p] = "idle" <=> p \notin inside
        /\ at[p] # "idle" => blob[p] \in Blob
        /\ at[p] \in Filed => disk[blob[p]] # "none"

\* The write side of the lock excludes the read side; the victims have lost
\* their rows before their files, and nobody reads them.
Evicting ==
    /\ evict \in Evicts \ {"idle", "waiting"} => inside = {}
    /\ evict = "unlinking" => victims \cap rows = {}
    /\ evict \in {"pinned", "unmapped", "unlinking"} => \A b \in victims : ~Locked(b)

DiskInv == Shape /\ Publishing /\ Evicting /\ RowsHaveFiles /\ FilesOwned

LEMMA DiskInit == Init => DiskInv
BY DEF Init, DiskInv, Shape, Publishing, Evicting, RowsHaveFiles, FilesOwned,
       Stages, Reads, Evicts, Filed

-----------------------------------------------------------------------------
(* Publishers.                                                             *)

\* One publisher moves on, the files and rows stay.
LEMMA PublisherMoves ==
    ASSUME DiskInv, NEW p \in Writer, NEW s \in Stages, NEW b \in Blob \cup {Nothing},
           UNCHANGED <<disk, rows, readers, touches, evictor>>, mapped' \subseteq Blob,
           faulty' = faulty \/ faulty' = TRUE,
           at' = [at EXCEPT ![p] = s], blob' = [blob EXCEPT ![p] = b],
           inside' = IF s = "idle" THEN inside \ {p} ELSE inside \cup {p},
           s # "idle" => b \in Blob /\ (at[p] # "idle" \/ evict = "idle"),
           s \in Filed => disk[b] # "none",
           at[p] \in Owning => (s \in Owning /\ b = blob[p]) \/ blob[p] \in rows \/ faulty'
    PROVE  DiskInv'
<1>1. /\ Shape /\ Publishing /\ Evicting /\ RowsHaveFiles /\ FilesOwned
      /\ UNCHANGED <<disk, rows, read, target, file, evict, victims>>
  BY DEF DiskInv, readers, evictor
<1>2. Shape'
  BY <1>1 DEF Shape
<1>3. Publishing'
  <2> SUFFICES ASSUME NEW q \in Writer
               PROVE  /\ at'[q] = "idle" <=> q \notin inside'
                      /\ at'[q] # "idle" => blob'[q] \in Blob
                      /\ at'[q] \in Filed => disk'[blob'[q]] # "none"
    BY DEF Publishing
  <2>1. CASE q = p
    BY <1>1, <2>1 DEF Shape
  <2>2. CASE q # p
    BY <1>1, <2>2 DEF Shape, Publishing
  <2> QED
    BY <2>1, <2>2
<1>4. Evicting'
  <2>1. inside = {} => at[p] = "idle"
    BY <1>1 DEF Publishing
  <2>2. evict \in Evicts \ {"idle", "waiting"} => inside' = {}
    BY <1>1, <2>1 DEF Evicting
  <2>3. \A c \in Blob : Locked(c)' = Locked(c)
    BY <1>1 DEF Locked
  <2> QED
    BY <1>1, <2>2, <2>3 DEF Evicting, Shape
<1>5. FilesOwned'
  <2> SUFFICES ASSUME ~faulty', NEW c \in Blob, disk[c] # "none" PROVE Owned(c)'
    BY <1>1 DEF FilesOwned
  <2>1. Owned(c) /\ Exclusive(c)' = Exclusive(c)
    BY <1>1 DEF FilesOwned, Exclusive
  <2>2. CASE c \in rows \/ Exclusive(c)
    BY <1>1, <2>1, <2>2 DEF Owned
  <2>3. ASSUME NEW q \in Writer, blob[q] = c, at[q] \in Owning PROVE Owned(c)'
    <3>1. CASE q = p
      BY <1>1, <2>3, <3>1 DEF Owned, Owning, Shape
    <3>2. CASE q # p
      BY <1>1, <2>3, <3>2 DEF Owned, Owning, Shape
    <3> QED
      BY <3>1, <3>2
  <2> QED
    BY <2>1, <2>2, <2>3 DEF Owned, Owning
<1>6. RowsHaveFiles'
  BY <1>1 DEF RowsHaveFiles
<1> QED
  BY <1>2, <1>3, <1>4, <1>5, <1>6 DEF DiskInv

LEMMA PublisherGoes ==
    ASSUME DiskInv, NEW p \in Writer, NEW s \in Stages \ {"idle"}, at[p] # "idle", Goto(p, s),
           UNCHANGED <<files, readers, touches, evictor>>,
           faulty' = faulty \/ faulty' = TRUE,
           s \in Filed => disk[blob[p]] # "none",
           at[p] \in Owning => s \in Owning \/ blob[p] \in rows \/ faulty'
    PROVE  DiskInv'
<1>1. /\ blob \in [Writer -> Blob \cup {Nothing}] /\ blob[p] \in Blob /\ p \in inside
      /\ mapped' \subseteq Blob /\ UNCHANGED <<disk, rows>>
  BY DEF DiskInv, Shape, Publishing, files
<1>2. at' = [at EXCEPT ![p] = s] /\ blob' = [blob EXCEPT ![p] = blob[p]] /\ inside' = inside \cup {p}
  BY <1>1 DEF Goto
<1> QED
  BY <1>1, <1>2, PublisherMoves

LEMMA PublisherLeaves ==
    ASSUME DiskInv, NEW p \in Writer, Leave(p),
           UNCHANGED <<disk, rows, readers, touches, evictor>>, mapped' \subseteq Blob,
           faulty' = faulty \/ faulty' = TRUE,
           at[p] \in Owning => blob[p] \in rows \/ faulty'
    PROVE  DiskInv'
<1>1. /\ at' = [at EXCEPT ![p] = "idle"] /\ blob' = [blob EXCEPT ![p] = Nothing]
      /\ inside' = inside \ {p} /\ "idle" \in Stages
  BY DEF Leave, Unlock, Stages
<1> QED
  BY <1>1, PublisherMoves DEF Filed, Owning

\* What only reads, writes or compares bytes concerns one publisher.
LEMMA PublisherLocal ==
    ASSUME DiskInv, NEW p \in Writer,
           \/ \E b \in Blob : Begin(p, b)
           \/ StoreBegin(p) \/ Skip(p) \/ Prepare(p) \/ Verify(p) \/ StoreEnd(p) \/ Map(p)
           \/ Fail(p) \/ Failed(p)
    PROVE  DiskInv'
<1>0. Shape /\ Publishing
  BY DEF DiskInv
<1>1. ASSUME NEW b \in Blob, Begin(p, b) PROVE DiskInv'
  BY <1>0, <1>1, PublisherMoves
     DEF Begin, TryRead, Open, files, Filed, Owning, Stages, Shape, faultVars
<1>2. CASE StoreBegin(p)
  BY <1>2, PublisherGoes DEF StoreBegin, Stages, Filed, Owning, faultVars
<1>3. CASE Skip(p)
  BY <1>0, <1>3, PublisherLeaves DEF Skip, Owning, files, faultVars, Shape
<1>4. CASE Prepare(p)
  <2>1. CASE Leave(p)
    BY <1>0, <1>4, <2>1, PublisherLeaves DEF Prepare, Owning, files, faultVars, Shape
  <2>2. CASE UNCHANGED <<publishers, inside>>
    BY <1>4, <2>2 DEF Prepare, DiskInv, Shape, Publishing, Evicting, RowsHaveFiles, FilesOwned,
       Owned, Exclusive, Locked, files, publishers, readers, evictor, faultVars
  <2> QED
    BY <1>4, <2>1, <2>2 DEF Prepare
<1>5. CASE Verify(p)
  <2>1. disk[blob[p]] # "none" /\ at[p] = "exists"
    BY <1>0, <1>5 DEF Verify, Publishing, Filed
  <2> QED
    BY <1>5, <2>1, PublisherGoes DEF Verify, Stages, Filed, Owning, faultVars
<1>6. CASE StoreEnd(p)
  <2>1. disk[blob[p]] # "none" /\ at[p] \in {"linked", "duplicate"}
    BY <1>0, <1>6 DEF StoreEnd, Publishing, Filed
  <2> QED
    BY <1>6, <2>1, PublisherGoes DEF StoreEnd, Stages, Filed, Owning, faultVars
<1>7. CASE Map(p)
  <2>1. blob[p] \in Blob /\ mapped' \subseteq Blob
    BY <1>0, <1>7 DEF Map, Publishing, Shape
  <2> QED
    BY <1>7, <2>1, PublisherLeaves DEF Map, Owning, faultVars
<1>8. CASE Fail(p)
  <2>1. CASE Leave(p)
    BY <1>0, <1>8, <2>1, PublisherLeaves DEF Fail, files, Shape
  <2>2. CASE Goto(p, "failing")
    BY <1>8, <2>2, PublisherGoes DEF Fail, Stages, Filed
  <2> QED
    BY <1>8, <2>1, <2>2 DEF Fail
<1>9. CASE Failed(p)
  BY <1>0, <1>9, PublisherLeaves DEF Failed, Owning, files, faultVars, Shape
<1> QED
  BY <1>1, <1>2, <1>3, <1>4, <1>5, <1>6, <1>7, <1>8, <1>9

\* A file appears under its name: linked, or put in the place of a damaged one.
LEMMA PublisherWrites ==
    ASSUME DiskInv, NEW p \in Writer, Link(p) \/ Repair(p)
    PROVE  DiskInv'
<1>0. Shape /\ Publishing /\ Evicting /\ RowsHaveFiles /\ FilesOwned
  BY DEF DiskInv
<1>1. at[p] \in {"storing", "repair"} /\ blob[p] \in Blob /\ p \in inside
  BY <1>0 DEF Link, Repair, Publishing
<1>2. CASE Link(p) /\ disk[blob[p]] # "none" /\ Goto(p, "exists") /\ UNCHANGED disk
  <2>1. at[p] = "storing" /\ UNCHANGED <<files, readers, touches, evictor>> /\ faulty' = faulty
    BY <1>2 DEF Link, files, faultVars
  <2> QED
    BY <1>2, <2>1, PublisherGoes DEF Stages, Filed, Owning
<1>3. CASE /\ disk' = [disk EXCEPT ![blob[p]] = "good"] /\ Goto(p, "linked")
           /\ file' = file \/ Unlinked(blob[p])
           /\ UNCHANGED <<rows, mapped, read, target, touches, evictor, faultVars>>
  <2>0. /\ at' = [at EXCEPT ![p] = "linked"] /\ UNCHANGED <<blob, inside, evict, victims, faulty>>
        /\ \A r \in Reader : file'[r] = file[r] \/ file'[r] = "gone"
        /\ file' \in [Reader -> {"none", "good", "bad", "gone"}]
    BY <1>0, <1>3 DEF Goto, evictor, faultVars, Unlinked, Shape
  <2>1. Shape'
    BY <1>0, <1>3, <2>0 DEF Shape, Stages
  <2>2. Publishing'
    BY <1>0, <1>1, <1>3, <2>0 DEF Shape, Publishing, Filed
  <2>3. Evicting'
    <3>1. \A c \in Blob : Locked(c)' => Locked(c)
      BY <1>3, <2>0 DEF Locked
    <3> QED
      BY <1>0, <1>3, <2>0, <3>1 DEF Evicting, Shape
  <2>4. RowsHaveFiles'
    BY <1>0, <1>3 DEF Shape, RowsHaveFiles
  <2>5. FilesOwned'
    <3> SUFFICES ASSUME ~faulty', NEW c \in Blob, disk'[c] # "none" PROVE Owned(c)'
      BY DEF FilesOwned
    <3>1. CASE c = blob[p]
      BY <1>0, <2>0, <3>1 DEF Owned, Shape
    <3>2. CASE c # blob[p]
      <4>1. Owned(c) /\ Exclusive(c)' = Exclusive(c)
        BY <1>0, <1>3, <2>0, <3>2 DEF FilesOwned, Exclusive, Shape
      <4> QED
        BY <1>0, <1>1, <1>3, <2>0, <4>1 DEF Owned, Shape
    <3> QED
      BY <3>1, <3>2
  <2> QED
    BY <2>1, <2>2, <2>3, <2>4, <2>5 DEF DiskInv
<1> QED
  BY <1>2, <1>3 DEF Link, Repair, readers

\* The row is written while the publisher holds the lock: its file is there.
LEMMA PublisherRegisters ==
    ASSUME DiskInv, NEW p \in Writer, Register(p)
    PROVE  DiskInv'
<1>0. Shape /\ Publishing /\ Evicting /\ RowsHaveFiles /\ FilesOwned
  BY DEF DiskInv
<1>1. /\ at[p] = "stored" /\ blob[p] \in Blob /\ disk[blob[p]] # "none" /\ inside # {}
      /\ evict \in {"idle", "waiting"}
  BY <1>0 DEF Register, Publishing, Filed, Evicting, Shape
<1>2. /\ rows' = rows \cup {blob[p]} /\ at' = [at EXCEPT ![p] = "registered"]
      /\ UNCHANGED <<disk, mapped, blob, inside, read, target, file, touches, evict, victims, faulty>>
  BY DEF Register, Goto, readers, evictor, faultVars
<1>3. Shape'
  BY <1>0, <1>1, <1>2 DEF Shape, Stages
<1>4. Publishing' /\ RowsHaveFiles'
  BY <1>0, <1>1, <1>2 DEF Shape, Publishing, Filed, RowsHaveFiles
<1>5. Evicting'
  BY <1>1, <1>2 DEF Evicting
<1>6. FilesOwned'
  BY <1>0, <1>2 DEF FilesOwned, Owned, Exclusive, Shape
<1> QED
  BY <1>3, <1>4, <1>5, <1>6 DEF DiskInv

-----------------------------------------------------------------------------
(* Readers.                                                                *)

\* One reader moves on: it may enter the lock while nobody waits to write,
\* and locks no file that the evictor has taken.
LEMMA ReaderMoves ==
    ASSUME DiskInv, NEW r \in Reader, NEW s \in Reads, NEW b \in Blob \cup {Nothing},
           NEW f \in {"none", "good", "bad", "gone"}, Reading(r, s, b, f),
           UNCHANGED <<disk, rows, publishers, evictor, faulty>>,
           mapped' \subseteq Blob, touches' \subseteq Blob, s \notin {"idle", "lookup"} => b \in Blob,
           inside' \in {inside, inside \ {r}} \/ (evict = "idle" /\ inside' = inside \cup {r}),
           s \in {"locked", "serving"} =>
              f = "gone" \/ ~Exclusive(b) \/ (read[r] \in {"locked", "serving"} /\ b = target[r] /\ f = file[r])
    PROVE  DiskInv'
<1>0. /\ Shape /\ Publishing /\ Evicting /\ RowsHaveFiles /\ FilesOwned
      /\ UNCHANGED <<disk, rows, at, blob, evict, victims, faulty>>
  BY DEF DiskInv, publishers, evictor
<1>1. /\ read' = [read EXCEPT ![r] = s] /\ target' = [target EXCEPT ![r] = b]
      /\ file' = [file EXCEPT ![r] = f]
  BY DEF Reading
<1>2. Shape'
  BY <1>0, <1>1 DEF Shape
<1>3. Publishing'
  BY <1>0, DiskAssumption DEF Publishing
<1>4. RowsHaveFiles' /\ FilesOwned'
  BY <1>0 DEF RowsHaveFiles, FilesOwned, Owned, Exclusive
<1>5. Evicting'
  <2>1. ASSUME NEW c \in victims, Locked(c)', evict \in {"pinned", "unmapped", "unlinking"}
        PROVE  FALSE
    <3>1. PICK q \in Reader : read'[q] \in {"locked", "serving"} /\ target'[q] = c /\ file'[q] # "gone"
      BY <2>1 DEF Locked
    <3>2. ~Locked(c) /\ Exclusive(c)
      BY <1>0, <2>1 DEF Evicting, Exclusive
    <3>3. CASE q = r
      <4>1. s \in {"locked", "serving"} /\ b = c /\ f # "gone"
        BY <1>0, <1>1, <3>1, <3>3 DEF Shape
      <4> QED
        BY <3>2, <4>1 DEF Locked
    <3>4. CASE q # r
      BY <1>0, <1>1, <3>1, <3>2, <3>4 DEF Locked, Shape
    <3> QED
      BY <3>3, <3>4
  <2>2. evict \in Evicts \ {"idle", "waiting"} => inside' = {}
    BY <1>0 DEF Evicting
  <2> QED
    BY <1>0, <2>1, <2>2 DEF Evicting, Shape
<1> QED
  BY <1>2, <1>3, <1>4, <1>5 DEF DiskInv

LEMMA ReaderKeeps ==
    ASSUME DiskInv, NEW r \in Reader,
           Request(r) \/ Lookup(r) \/ \E b \in Blob : Find(r, b)
    PROVE  DiskInv'
<1>0. /\ Shape /\ mapped \subseteq Blob /\ touches \subseteq Blob
      /\ target[r] \in Blob \cup {Nothing} /\ file[r] \in {"none", "good", "bad", "gone"}
      /\ read[r] \notin {"idle", "lookup"} => target[r] \in Blob
  BY DEF DiskInv, Shape
<1>1. ASSUME NEW b \in Blob, Find(r, b) PROVE DiskInv'
  BY <1>0, <1>1, ReaderMoves DEF Find, Reads, files, faultVars
<1>2. CASE Lookup(r)
  BY <1>0, <1>2, ReaderMoves DEF Lookup, TryRead, Open, Reads, files, faultVars
<1>3. CASE Hit(r)
  <2>1. touches' \subseteq Blob
    BY <1>0, <1>3 DEF Hit
  <2> QED
    BY <1>0, <1>3, <2>1, ReaderMoves DEF Hit, EndRead, Unlock, Reads, files, faultVars
<1>4. CASE Stale(r)
  <2>1. PICK b \in mapped : Reading(r, "stale", b, "none")
    BY <1>4 DEF Stale
  <2> QED
    BY <1>0, <1>4, <2>1, ReaderMoves DEF Stale, Reads, files, faultVars
<1>5. CASE Forget(r)
  BY <1>0, <1>5, ReaderMoves DEF Forget, Reads, faultVars
<1>6. CASE Miss(r)
  BY <1>0, <1>6, ReaderMoves DEF Miss, EndRead, Unlock, Reads, files, faultVars
<1>7. CASE OpenFile(r)
  <2>1. disk[target[r]] \in {"none", "good", "bad", "gone"} /\ target[r] \in Blob
    BY <1>0, <1>7 DEF OpenFile, Shape
  <2> QED
    BY <1>0, <1>7, <2>1, ReaderMoves DEF OpenFile, Reads, files, faultVars
<1>8. CASE LockFile(r)
  BY <1>0, <1>8, ReaderMoves DEF LockFile, Reads, files, faultVars
<1>9. CASE Serve(r)
  <2>1. touches' \subseteq Blob
    BY <1>0, <1>9 DEF Serve
  <2> QED
    BY <1>0, <1>9, <2>1, ReaderMoves DEF Serve, Reads, files, faultVars
<1>10. CASE Close(r)
  BY <1>0, <1>10, ReaderMoves DEF Close, EndRead, Reads, files, faultVars
<1> QED
  BY <1>1, <1>2, <1>3, <1>4, <1>5, <1>6, <1>7, <1>8, <1>9, <1>10 DEF Request

-----------------------------------------------------------------------------
(* The evictor.                                                            *)

LEMMA EvictorKeeps ==
    ASSUME DiskInv, Choose \/ Evictor
    PROVE  DiskInv'
<1>0. Shape /\ Publishing /\ Evicting /\ RowsHaveFiles /\ FilesOwned
  BY DEF DiskInv
<1>1. CASE Choose
  <2>1. /\ evict = "idle" /\ evict' = "waiting" /\ victims' \subseteq Blob /\ touches' = {}
        /\ UNCHANGED <<disk, rows, mapped, at, blob, read, target, file, inside, faulty>>
    BY <1>0, <1>1 DEF Choose, files, publishers, readers, faultVars, Shape
  <2> QED
    BY <1>0, <2>1 DEF DiskInv, Shape, Evicts, Publishing, Evicting, RowsHaveFiles, FilesOwned,
       Owned, Exclusive
<1>2. CASE Enter
  <2>1. /\ evict = "waiting" /\ inside = {} /\ evict' = "exclusive"
        /\ UNCHANGED <<disk, rows, mapped, at, blob, read, target, file, inside, touches, victims, faulty>>
    BY <1>2 DEF Enter, files, publishers, readers, faultVars
  <2> QED
    BY <1>0, <2>1 DEF DiskInv, Shape, Evicts, Publishing, Evicting, RowsHaveFiles, FilesOwned,
       Owned, Exclusive
<1>3. CASE Pin
  <2>1. /\ evict = "exclusive" /\ victims' = Pinned /\ evict' \in {"idle", "pinned"}
        /\ UNCHANGED <<disk, rows, mapped, at, blob, read, target, file, inside, touches, faulty>>
    BY <1>3 DEF Pin, files, publishers, readers, faultVars
  <2>2. victims' \subseteq Blob /\ \A b \in victims' : ~Locked(b)
    BY <1>0, <2>1 DEF Pinned, Shape
  <2>3. Evicting'
    BY <1>0, <2>1, <2>2 DEF Evicting, Evicts, Locked
  <2> QED
    BY <1>0, <2>1, <2>2, <2>3 DEF DiskInv, Shape, Evicts, Publishing, RowsHaveFiles, FilesOwned,
       Owned, Exclusive
<1>4. CASE Unmap
  <2>1. /\ evict = "pinned" /\ evict' = "unmapped" /\ mapped' \subseteq Blob
        /\ UNCHANGED <<disk, rows, at, blob, read, target, file, inside, touches, victims, faulty>>
    BY <1>0, <1>4 DEF Unmap, publishers, readers, faultVars, Shape
  <2>2. Evicting'
    BY <1>0, <2>1 DEF Evicting, Evicts, Locked
  <2> QED
    BY <1>0, <2>1, <2>2 DEF DiskInv, Shape, Evicts, Publishing, RowsHaveFiles, FilesOwned,
       Owned, Exclusive
<1>5. CASE RemoveRows
  <2>1. /\ evict = "unmapped" /\ evict' = "unlinking" /\ rows' = rows \ victims /\ mapped' \subseteq Blob
        /\ UNCHANGED <<disk, at, blob, read, target, file, inside, touches, victims, faulty>>
    BY <1>0, <1>5 DEF RemoveRows, publishers, readers, faultVars, Shape
  <2>2. Evicting'
    BY <1>0, <2>1 DEF Evicting, Evicts, Locked
  <2>3. Shape' /\ Publishing' /\ RowsHaveFiles'
    BY <1>0, <2>1 DEF Shape, Evicts, Publishing, RowsHaveFiles
  <2>4. FilesOwned'
    BY <1>0, <2>1 DEF FilesOwned, Owned, Exclusive
  <2> QED
    BY <2>2, <2>3, <2>4 DEF DiskInv
<1>6. ASSUME NEW b \in Blob, Unlink(b) PROVE DiskInv'
  <2>1. /\ evict = "unlinking" /\ b \in victims /\ victims' = victims \ {b}
        /\ disk' = [disk EXCEPT ![b] = "none"]
        /\ evict' = IF victims = {b} THEN "idle" ELSE evict
        /\ UNCHANGED <<rows, mapped, at, blob, read, target, inside, touches, faulty>>
    BY <1>6 DEF Unlink, publishers, faultVars
  <2>2. /\ file' \in [Reader -> {"none", "good", "bad", "gone"}]
        /\ \A r \in Reader : file'[r] = file[r] \/ file'[r] = "gone"
    BY <1>0, <1>6 DEF Unlink, Unlinked, Shape
  <2>3. inside = {} /\ b \notin rows
    BY <1>0, <2>1 DEF Evicting, Evicts
  <2>4. Shape'
    BY <1>0, <2>1, <2>2 DEF Shape, Evicts
  <2>5. Publishing'
    BY <1>0, <2>1, <2>3 DEF Publishing, Filed
  <2>6. RowsHaveFiles'
    BY <1>0, <2>1, <2>3 DEF RowsHaveFiles, Shape
  <2>7. Evicting'
    <3>1. \A c \in Blob : Locked(c)' => Locked(c)
      BY <2>1, <2>2 DEF Locked
    <3> QED
      BY <1>0, <2>1, <3>1 DEF Evicting, Shape
  <2>8. FilesOwned'
    <3> SUFFICES ASSUME ~faulty', NEW c \in Blob, disk'[c] # "none" PROVE Owned(c)'
      BY DEF FilesOwned
    <3>1. c # b /\ disk[c] # "none" /\ Owned(c)
      BY <1>0, <2>1 DEF Shape, FilesOwned
    <3> QED
      BY <2>1, <3>1 DEF Owned, Exclusive
  <2> QED
    BY <2>4, <2>5, <2>6, <2>7, <2>8 DEF DiskInv
<1> QED
  BY <1>1, <1>2, <1>3, <1>4, <1>5, <1>6 DEF Evictor

-----------------------------------------------------------------------------
(* Faults and the cleanup.                                                 *)

LEMMA FaultKeeps ==
    ASSUME DiskInv, EvictFails \/ Crash \/ Cleanup \/ \E b \in Blob : Damage(b)
    PROVE  DiskInv'
<1>0. Shape /\ Publishing /\ Evicting /\ RowsHaveFiles /\ FilesOwned
  BY DEF DiskInv
<1>1. CASE EvictFails
  <2>1. /\ evict' = "idle" /\ victims' = {} /\ faulty' = TRUE
        /\ UNCHANGED <<disk, rows, mapped, at, blob, read, target, file, inside, touches>>
    BY <1>1 DEF EvictFails, files, publishers, readers
  <2> QED
    BY <1>0, <2>1 DEF DiskInv, Shape, Evicts, Publishing, Evicting, RowsHaveFiles, FilesOwned
<1>2. CASE Crash
  <2>1. /\ at' = [p \in Writer |-> "idle"] /\ blob' = [p \in Writer |-> Nothing]
        /\ read' = [r \in Reader |-> "idle"] /\ target' = [r \in Reader |-> Nothing]
        /\ file' = [r \in Reader |-> "none"]
        /\ inside' = {} /\ touches' = {} /\ evict' = "idle" /\ victims' = {} /\ faulty' = TRUE
        /\ UNCHANGED <<disk, rows, mapped>>
    BY <1>2 DEF Crash, files
  <2> QED
    BY <1>0, <2>1 DEF DiskInv, Shape, Stages, Reads, Evicts, Publishing, Filed, Evicting,
       RowsHaveFiles, FilesOwned
<1>3. CASE Cleanup
  <2>1. /\ \A p \in Writer : at[p] = "idle"
        /\ evict = "idle" /\ faulty' = FALSE
        /\ disk' = [b \in Blob |-> IF b \in rows THEN disk[b] ELSE "none"]
        /\ UNCHANGED <<rows, mapped, at, blob, read, target, file, inside, touches, evict, victims>>
    BY <1>3 DEF Cleanup, Kept, publishers, readers, evictor
  <2>2. Shape' /\ Publishing' /\ Evicting'
    BY <1>0, <2>1 DEF Shape, Publishing, Filed, Evicting
  <2>3. RowsHaveFiles' /\ FilesOwned'
    BY <1>0, <2>1 DEF Shape, RowsHaveFiles, FilesOwned, Owned
  <2> QED
    BY <2>2, <2>3 DEF DiskInv
<1>4. ASSUME NEW b \in Blob, Damage(b) PROVE DiskInv'
  <2>1. /\ disk[b] = "good" /\ disk' = [disk EXCEPT ![b] = "bad"]
        /\ UNCHANGED <<rows, mapped, at, blob, read, target, inside, touches, evict, victims, faulty>>
    BY <1>4 DEF Damage, publishers, evictor
  <2>2. /\ file' \in [Reader -> {"none", "good", "bad", "gone"}]
        /\ \A r \in Reader : file'[r] = file[r] \/ (read[r] = "opened" /\ file'[r] = "bad")
    BY <1>0, <1>4 DEF Damage, Shape
  <2>3. Shape' /\ Publishing'
    BY <1>0, <2>1, <2>2 DEF Shape, Publishing
  <2>4. RowsHaveFiles' /\ FilesOwned'
    BY <1>0, <2>1 DEF Shape, RowsHaveFiles, FilesOwned, Owned, Exclusive
  <2>5. Evicting'
    <3>1. \A c \in Blob : Locked(c)' => Locked(c)
      BY <2>1, <2>2 DEF Locked
    <3> QED
      BY <1>0, <2>1, <3>1 DEF Evicting, Shape
  <2> QED
    BY <2>3, <2>4, <2>5 DEF DiskInv
<1> QED
  BY <1>1, <1>2, <1>3, <1>4

LEMMA QuietKeeps ==
    ASSUME DiskInv, UNCHANGED <<files, publishers, readers, inside, touches, evictor, faultVars>>
    PROVE  DiskInv'
BY DEF files, publishers, readers, evictor, faultVars, DiskInv, Shape, Publishing, Evicting,
       RowsHaveFiles, FilesOwned, Owned, Exclusive, Locked

\* The invariant of every reachable state.
THEOREM DiskInvariant == Spec => []DiskInv
<1>1. DiskInv /\ Next => DiskInv'
  BY PublisherLocal, PublisherWrites, PublisherRegisters, ReaderKeeps, EvictorKeeps, FaultKeeps,
     QuietKeeps DEF Next, Publisher
<1>2. DiskInv /\ UNCHANGED diskVars => DiskInv'
  BY QuietKeeps DEF diskVars
<1> QED
  BY <1>1, <1>2, DiskInit, PTL DEF Spec

\* A row always leads to a file, whoever publishes, evicts, fails or dies.
\* Without faults no file is left behind, and after faults one cleanup is
\* enough.
THEOREM RowsAndFilesAgree == Spec => []RowsAndFiles
<1>1. DiskInv => RowsAndFiles
  BY DEF DiskInv, RowsAndFiles
<1> QED
  BY <1>1, DiskInvariant, PTL

\* What one step may do to a file that a response is read from.
Spared == \A b \in Blob : Locked(b) /\ disk'[b] = "none" => disk[b] = "none"

LEMMA StepSpares == DiskInv /\ Next => Spared
<1> SUFFICES ASSUME DiskInv, Next PROVE Spared
  OBVIOUS
<1>0. Shape /\ Evicting
  BY DEF DiskInv
<1>1. CASE disk' = disk
  BY <1>1 DEF Spared
<1>2. ASSUME NEW p \in Writer, Link(p) \/ Repair(p) PROVE Spared
  BY <1>0, <1>2, <1>1 DEF Link, Repair, Spared, Shape
<1>3. ASSUME NEW b \in Blob, Unlink(b) PROVE Spared
  <2>1. ~Locked(b) /\ disk' = [disk EXCEPT ![b] = "none"]
    BY <1>0, <1>3 DEF Unlink, Evicting
  <2> QED
    BY <1>0, <2>1 DEF Spared, Shape
<1>4. CASE Cleanup
  BY <1>4 DEF Cleanup, Spared, Locked
<1>5. ASSUME NEW b \in Blob, Damage(b) PROVE Spared
  BY <1>0, <1>5 DEF Damage, Spared, Shape
<1>6. ASSUME NEW p \in Writer,
             \/ \E b \in Blob : Begin(p, b)
             \/ StoreBegin(p) \/ Skip(p) \/ Prepare(p) \/ Verify(p) \/ StoreEnd(p)
             \/ Register(p) \/ Map(p) \/ Fail(p) \/ Failed(p)
      PROVE  disk' = disk
  BY <1>6 DEF Begin, StoreBegin, Skip, Prepare, Verify, StoreEnd, Register, Map, Fail, Failed, files
<1>7. ASSUME NEW r \in Reader, Request(r) \/ Lookup(r) \/ \E b \in Blob : Find(r, b)
      PROVE  disk' = disk
  BY <1>7 DEF Request, Lookup, Find, Hit, Stale, Forget, Miss, OpenFile, LockFile, Serve, Close, files
<1>8. ASSUME Choose \/ Enter \/ Pin \/ Unmap \/ RemoveRows \/ EvictFails \/ Crash
      PROVE  disk' = disk
  BY <1>8 DEF Choose, Enter, Pin, Unmap, RemoveRows, EvictFails, Crash, files
<1>9. ASSUME UNCHANGED files PROVE disk' = disk
  BY <1>9 DEF files
<1> QED
  BY <1>1, <1>2, <1>3, <1>4, <1>5, <1>6, <1>7, <1>8, <1>9 DEF Next, Publisher, Evictor

\* A file that a response is being read from is never removed.
THEOREM InUseAlwaysKept == Spec => InUseKept
<1>1. DiskInv /\ [Next]_diskVars => [Spared]_diskVars
  BY StepSpares
<1> QED
  BY <1>1, DiskInvariant, PTL DEF Spec, InUseKept, Spared

-----------------------------------------------------------------------------
(* The space that must stay free.                                          *)

Phases == {"idle", "reserved", "counted", "writing", "published", "discarded", "duplicate"}
Charges == [w \in Writer |-> Charge(size[w])]

\* Writes whose reservation is in the counter, whose snapshot is taken, which
\* may write, and which may still come to write.
Holders == {w \in Writer : stage[w] \notin {"idle", "duplicate"}}
Counted == {w \in Writer : stage[w] \in {"counted", "writing"}}
Admitted == {w \in Writer : stage[w] = "writing"}
Live(w) == stage[w] \in {"reserved", "counted", "writing"}

\* The bytes that the writes of S have reserved and not yet written.
LeftOf(S) == {u \in Tally(S, Charges) : Live(u[1]) /\ u[2] > temp[u[1]]}

BudgetShape ==
    /\ free \in Int /\ pending \in Int
    /\ stage \in [Writer -> Phases] /\ size \in [Writer -> Nat]
    /\ seen \in [Writer -> Int] /\ temp \in [Writer -> Nat]

PendingCounted ==
    /\ IsFiniteSet(Tally(Holders, Charges))
    /\ pending = Cardinality(Tally(Holders, Charges))

\* H[w] are the writes that held a reservation when w took its snapshot and
\* still do.  Snapshots are taken one after the other, so these sets form a
\* chain.  What w saw covers them; once w was admitted, the free space covers
\* what they and all admitted writes may still write.
Snapshots(H) ==
    /\ H \in [Writer -> SUBSET Holders]
    /\ \A w \in Counted : w \in H[w]
    /\ \A v, w \in Counted : H[v] \subseteq H[w] \/ H[w] \subseteq H[v]
    /\ \A w \in Counted \ Admitted : seen[w] >= Cardinality(Tally(H[w], Charges))
    /\ \A w \in Admitted : free >= MinFree + Cardinality(LeftOf(H[w] \cup Admitted))

BudgetInv == BudgetShape /\ PendingCounted /\ \E H : Snapshots(H)

\* Charges are numbers; what is left is part of what was reserved.
LEMMA ChargesAreNumbers == ASSUME BudgetShape PROVE \A w \in Writer : Charges[w] \in Nat /\ Charges[w] >= size[w] /\ Charges[w] = Charge(size[w])
BY DEF BudgetShape, Charges, Charge

LEMMA LeftFinite ==
    ASSUME PendingCounted, NEW S, S \subseteq Holders
    PROVE  /\ IsFiniteSet(LeftOf(S)) /\ Cardinality(LeftOf(S)) \in Nat
           /\ IsFiniteSet(Tally(S, Charges)) /\ Cardinality(Tally(S, Charges)) \in Nat
           /\ Cardinality(LeftOf(S)) <= Cardinality(Tally(S, Charges))
<1>1. IsFiniteSet(Tally(S, Charges))
  BY TallyWithin DEF PendingCounted
<1>2. LeftOf(S) \subseteq Tally(S, Charges)
  BY DEF LeftOf
<1>3. IsFiniteSet(LeftOf(S)) /\ Cardinality(LeftOf(S)) <= Cardinality(Tally(S, Charges))
  BY <1>1, <1>2, FS_Subset
<1> QED
  BY <1>1, <1>3, FS_CardinalityType

LEMMA LeftWithin ==
    ASSUME PendingCounted, NEW S, S \subseteq Holders, NEW T, T \subseteq LeftOf(S)
    PROVE  IsFiniteSet(T) /\ Cardinality(T) \in Nat /\ Cardinality(T) <= Cardinality(LeftOf(S))
<1>1. IsFiniteSet(LeftOf(S))
  BY LeftFinite
<1> QED
  BY <1>1, FS_Subset, FS_CardinalityType

\* Writes X leave, others go on, nothing more is written and none is admitted.
LEMMA SnapshotsShrink ==
    ASSUME BudgetShape, BudgetShape', PendingCounted, NEW H, Snapshots(H), NEW X,
           Holders \ X \subseteq Holders', free' >= free,
           \A v \in Counted' : v \in Counted \ X /\ stage'[v] = stage[v] /\ seen'[v] = seen[v],
           \A v \in Holders \ X : size'[v] = size[v],
           \A v \in Holders \ X : Live(v)' => Live(v) /\ temp'[v] >= temp[v]
    PROVE  \E K : Snapshots(K)'
<1> DEFINE K == [v \in Writer |-> H[v] \ X]
<1>0. /\ H \in [Writer -> SUBSET Holders] /\ \A w \in Counted : w \in H[w] /\ w \in Writer
      /\ Holders \subseteq Writer /\ Counted' \subseteq Writer /\ Admitted' \subseteq Counted'
      /\ Admitted \subseteq Holders /\ Counted \subseteq Holders
  BY DEF Snapshots, Counted, Holders, Admitted
<1>1. K \in [Writer -> SUBSET Holders']
  BY <1>0
<1>2. \A w \in Counted' : w \in K[w]
  BY <1>0
<1>3. \A v, w \in Counted' : K[v] \subseteq K[w] \/ K[w] \subseteq K[v]
  BY <1>0 DEF Snapshots
<1>4. \A v \in Holders \ X : Charges'[v] = Charges[v]
  BY <1>0 DEF Charges
<1>5. ASSUME NEW w \in Counted' \ Admitted' PROVE seen'[w] >= Cardinality(Tally(K[w], Charges'))
  <2>1. w \in Counted \ Admitted /\ seen'[w] = seen[w] /\ K[w] = H[w] \ X
    BY <1>0, <1>5 DEF Admitted, Counted
  <2>2. Tally(K[w], Charges') = Tally(K[w], Charges)
    BY <1>0, <1>4, <2>1, TallySame
  <2>3. /\ Cardinality(Tally(K[w], Charges)) <= Cardinality(Tally(H[w], Charges))
        /\ Cardinality(Tally(K[w], Charges)) \in Nat /\ Cardinality(Tally(H[w], Charges)) \in Nat
    <3>1. H[w] \subseteq Holders /\ K[w] \subseteq H[w] /\ K[w] \subseteq Holders
      BY <1>0, <2>1
    <3>2. IsFiniteSet(Tally(H[w], Charges))
      BY <3>1, LeftFinite
    <3> HIDE DEF K
    <3> QED
      BY <3>1, <3>2, TallyWithin, FS_CardinalityType
  <2>4. seen[w] \in Int /\ seen[w] >= Cardinality(Tally(H[w], Charges))
    BY <1>0, <2>1 DEF Snapshots, BudgetShape
  <2> HIDE DEF K
  <2> QED
    BY <2>1, <2>2, <2>3, <2>4
<1>6. ASSUME NEW w \in Admitted' PROVE free' >= MinFree + Cardinality(LeftOf(K[w] \cup Admitted)')
  <2>1. w \in Admitted /\ K[w] = H[w] \ X /\ Admitted' \subseteq Admitted \ X
    BY <1>0, <1>6 DEF Admitted, Counted
  <2> DEFINE S == H[w] \cup Admitted
             T == LeftOf(K[w] \cup Admitted)'
  <2>2. S \subseteq Holders
    BY <1>0, <2>1
  <2>3. T \subseteq LeftOf(S)
    <3> SUFFICES ASSUME NEW u \in T PROVE u \in LeftOf(S)
      OBVIOUS
    <3>1. PICK x \in K[w] \cup Admitted' : u \in Units(x, Charges'[x]) /\ Live(u[1])' /\ u[2] > temp'[u[1]]
      BY DEF LeftOf, Tally
    <3>2. x \in S /\ x \in Holders \ X
      BY <1>0, <2>1, <2>2, <3>1
    <3>3. u[1] = x /\ u[2] \in Nat /\ u \in Units(x, Charges[x])
      BY <3>1, <3>2, <1>4 DEF Units
    <3>4. Live(x) /\ temp'[x] >= temp[x] /\ temp[x] \in Nat /\ temp'[x] \in Nat
      BY <1>0, <3>1, <3>2, <3>3 DEF BudgetShape
    <3> QED
      BY <3>1, <3>2, <3>3, <3>4 DEF LeftOf, Tally
  <2>4. free >= MinFree + Cardinality(LeftOf(S))
    BY <2>1 DEF Snapshots
  <2>5. Cardinality(T) \in Nat /\ Cardinality(T) <= Cardinality(LeftOf(S)) /\ Cardinality(LeftOf(S)) \in Nat
    BY <2>2, <2>3, LeftWithin, LeftFinite
  <2> HIDE DEF S, T
  <2>6. free' >= MinFree + Cardinality(T)
    BY <2>4, <2>5, BudgetAssumption DEF BudgetShape
  <2> QED
    BY <2>6 DEF T
<1> HIDE DEF K
<1>7. Snapshots(K)'
  BY <1>1, <1>2, <1>3, <1>5, <1>6 DEF Snapshots
<1> QED
  BY <1>7

\* A write takes its snapshot: of everything that is reserved then.
LEMMA SnapshotTaken ==
    ASSUME BudgetShape, PendingCounted, NEW H, Snapshots(H), NEW w \in Writer, Count(w)
    PROVE  \E K : Snapshots(K)'
<1>0. /\ H \in [Writer -> SUBSET Holders] /\ \A v \in Counted : v \in H[v] /\ v \in Writer
      /\ Holders \subseteq Writer /\ Admitted \subseteq Counted /\ Counted \subseteq Holders
  BY DEF Snapshots, Counted, Holders, Admitted
<1>k. PICK K : K = [H EXCEPT ![w] = Holders]
  OBVIOUS
<1>1. /\ stage[w] = "reserved" /\ stage' = [stage EXCEPT ![w] = "counted"]
      /\ seen' = [seen EXCEPT ![w] = pending]
      /\ free' = free /\ size' = size /\ temp' = temp
  BY DEF Count, Snapshot
<1>2. /\ Holders' = Holders /\ Counted' = Counted \cup {w} /\ Admitted' = Admitted
      /\ w \in Holders /\ w \notin Counted /\ \A v \in Writer : Live(v)' <=> Live(v)
  BY <1>1 DEF BudgetShape, Holders, Counted, Admitted, Live
<1>3. Charges' = Charges
  BY <1>1 DEF Charges
<1>4. ASSUME NEW S, S \subseteq Holders PROVE LeftOf(S)' = LeftOf(S)
  <2>1. \A u \in Tally(S, Charges) : u[1] \in Writer
    BY <1>0, <1>4 DEF Tally, Units
  <2> QED
    BY <1>1, <1>2, <1>3, <2>1 DEF LeftOf
<1>5. K \in [Writer -> SUBSET Holders'] /\ K[w] = Holders /\ \A v \in Counted : K[v] = H[v]
  BY <1>0, <1>2, <1>k
<1>6. \A v \in Counted' : v \in K[v]
  BY <1>0, <1>2, <1>5
<1>7. \A v, u \in Counted' : K[v] \subseteq K[u] \/ K[u] \subseteq K[v]
  BY <1>0, <1>2, <1>5 DEF Snapshots
<1>8. \A v \in Counted' \ Admitted' : seen'[v] >= Cardinality(Tally(K[v], Charges'))
  <2>1. seen'[w] >= Cardinality(Tally(K[w], Charges'))
    BY <1>1, <1>3, <1>5 DEF PendingCounted, BudgetShape
  <2>2. \A v \in Counted \ Admitted : seen'[v] >= Cardinality(Tally(K[v], Charges'))
    BY <1>0, <1>1, <1>2, <1>3, <1>5 DEF Snapshots, BudgetShape
  <2> QED
    BY <1>2, <2>1, <2>2
<1>9. \A v \in Admitted' : free' >= MinFree + Cardinality(LeftOf(K[v] \cup Admitted)')
  <2> SUFFICES ASSUME NEW v \in Admitted
               PROVE  free' >= MinFree + Cardinality(LeftOf(K[v] \cup Admitted)')
    BY <1>2
  <2>1. H[v] \cup Admitted \subseteq Holders /\ K[v] = H[v]
    BY <1>0, <1>5
  <2>2. LeftOf(H[v] \cup Admitted)' = LeftOf(H[v] \cup Admitted)
    <3>1. PICK S : S = H[v] \cup Admitted /\ S \subseteq Holders
      BY <2>1
    <3>2. LeftOf(S)' = LeftOf(S) /\ S = (H[v] \cup Admitted)'
      BY <1>2, <1>4, <3>1
    <3> QED
      BY <3>1, <3>2
  <2>3. LeftOf(K[v] \cup Admitted)' = LeftOf(H[v] \cup Admitted)'
    BY <2>1
  <2> QED
    BY <1>1, <2>2, <2>3 DEF Snapshots
<1>10. Snapshots(K)'
  BY <1>5, <1>6, <1>7, <1>8, <1>9 DEF Snapshots
<1> QED
  BY <1>10

\* A write is admitted.  If what it saw is part of what an admitted write saw,
\* the free space was measured against both; if not, it saw all that are
\* admitted, and its own measurement covers them.
LEMMA WriteAdmitted ==
    ASSUME BudgetShape, PendingCounted, NEW H, Snapshots(H), NEW w \in Writer, Admit(w)
    PROVE  Snapshots(H)'
<1>0. /\ H \in [Writer -> SUBSET Holders] /\ \A v \in Counted : v \in H[v] /\ v \in Writer
      /\ Holders \subseteq Writer /\ Admitted \subseteq Counted /\ Counted \subseteq Holders
  BY DEF Snapshots, Counted, Holders, Admitted
<1>1. /\ stage[w] = "counted" /\ stage' = [stage EXCEPT ![w] = "writing"]
      /\ free >= MinFree + seen[w]
      /\ free' = free /\ size' = size /\ temp' = temp /\ seen' = seen
  BY DEF Admit, Enough
<1>2. /\ Holders' = Holders /\ Counted' = Counted /\ Admitted' = Admitted \cup {w}
      /\ w \in Counted /\ w \notin Admitted /\ \A v \in Writer : Live(v)' <=> Live(v)
  BY <1>1 DEF BudgetShape, Holders, Counted, Admitted, Live
<1>3. Charges' = Charges
  BY <1>1 DEF Charges
<1>4. ASSUME NEW S, S \subseteq Holders PROVE LeftOf(S)' = LeftOf(S)
  <2>1. \A u \in Tally(S, Charges) : u[1] \in Writer
    BY <1>0, <1>4 DEF Tally, Units
  <2> QED
    BY <1>1, <1>2, <1>3, <2>1 DEF LeftOf
<1>5. \A v \in Counted' \ Admitted' : seen'[v] >= Cardinality(Tally(H[v], Charges'))
  BY <1>1, <1>2, <1>3 DEF Snapshots
<1>6. ASSUME NEW v \in Admitted'
      PROVE  free >= MinFree + Cardinality(LeftOf(H[v] \cup (Admitted \cup {w})))
  <2> DEFINE T == LeftOf(H[v] \cup (Admitted \cup {w}))
  <2>1. CASE \E z \in Admitted : H[w] \subseteq H[z]
    <3>1. PICK z \in Admitted : H[w] \subseteq H[z]
      BY <2>1
    <3>2. PICK m \in Admitted : H[v] \subseteq H[m] /\ H[w] \subseteq H[m]
      <4>1. CASE v = w
        BY <3>1, <4>1
      <4>2. CASE v # w
        <5>1. v \in Admitted /\ (H[v] \subseteq H[z] \/ H[z] \subseteq H[v])
          BY <1>0, <1>2, <1>6, <3>1, <4>2 DEF Snapshots
        <5> QED
          BY <3>1, <5>1
      <4> QED
        BY <4>1, <4>2
    <3>3. PICK S : S = H[m] \cup Admitted
      OBVIOUS
    <3>4. S \subseteq Holders /\ H[v] \cup (Admitted \cup {w}) \subseteq S
      BY <1>0, <1>2, <3>2, <3>3
    <3>5. T \subseteq LeftOf(S)
      BY <3>4 DEF LeftOf, Tally
    <3>6. Cardinality(T) \in Nat /\ Cardinality(T) <= Cardinality(LeftOf(S)) /\ Cardinality(LeftOf(S)) \in Nat
      BY <3>4, <3>5, LeftWithin, LeftFinite
    <3>7. free >= MinFree + Cardinality(LeftOf(S))
      BY <3>2, <3>3 DEF Snapshots
    <3> QED
      BY <3>6, <3>7, BudgetAssumption DEF BudgetShape
  <2>2. CASE \A z \in Admitted : ~(H[w] \subseteq H[z])
    <3>1. PICK S : S = H[w]
      OBVIOUS
    <3>2. S \subseteq Holders /\ H[v] \cup (Admitted \cup {w}) \subseteq S
      BY <1>0, <1>2, <1>6, <2>2, <3>1 DEF Snapshots
    <3>3. T \subseteq LeftOf(S)
      BY <3>2 DEF LeftOf, Tally
    <3>4. Cardinality(T) \in Nat /\ Cardinality(T) <= Cardinality(LeftOf(S)) /\ Cardinality(LeftOf(S)) \in Nat
      BY <3>2, <3>3, LeftWithin, LeftFinite
    <3>5. Cardinality(LeftOf(S)) <= Cardinality(Tally(S, Charges)) /\ Cardinality(Tally(S, Charges)) \in Nat
      BY <3>2, LeftFinite
    <3>6. seen[w] \in Int /\ seen[w] >= Cardinality(Tally(S, Charges))
      BY <1>2, <3>1 DEF Snapshots, BudgetShape
    <3> HIDE DEF T
    <3>7. free >= MinFree + Cardinality(T)
      BY <1>1, <3>4, <3>5, <3>6, BudgetAssumption DEF BudgetShape
    <3> QED
      BY <3>7 DEF T
  <2> QED
    BY <2>1, <2>2
<1>7. ASSUME NEW v \in Admitted' PROVE free' >= MinFree + Cardinality(LeftOf(H[v] \cup Admitted)')
  <2>1. PICK S : S = H[v] \cup (Admitted \cup {w})
    OBVIOUS
  <2>2. LeftOf(S)' = LeftOf(S) /\ S = (H[v] \cup Admitted)'
    BY <1>0, <1>2, <1>4, <1>7, <2>1
  <2>3. LeftOf(H[v] \cup Admitted)' = LeftOf(H[v] \cup (Admitted \cup {w}))
    BY <2>1, <2>2
  <2> QED
    BY <1>1, <1>6, <1>7, <2>3
<1> QED
  BY <1>0, <1>2, <1>5, <1>7 DEF Snapshots

\* An admitted write uses a byte that it had left.
LEMMA ByteWasLeft ==
    ASSUME BudgetShape, PendingCounted, NEW H, Snapshots(H), NEW w \in Writer, WriteByte(w),
           NEW v \in Admitted, NEW S, S = H[v] \cup Admitted
    PROVE  /\ LeftOf(S)' = LeftOf(S) \ {<<w, temp[w] + 1>>}
           /\ Cardinality(LeftOf(S)') \in Nat /\ free >= MinFree + Cardinality(LeftOf(S)') + 1
<1>0. S \subseteq Holders /\ S \subseteq Writer /\ w \in S
  BY DEF Snapshots, Counted, Holders, Admitted, WriteByte
<1>1. /\ stage[w] = "writing" /\ temp[w] < size[w] /\ temp' = [temp EXCEPT ![w] = @ + 1]
      /\ stage' = stage /\ Charges' = Charges
  BY DEF WriteByte, Charges
<1>2. temp[w] \in Nat /\ size[w] \in Nat /\ Charges[w] \in Nat /\ Charges[w] >= size[w]
  BY ChargesAreNumbers DEF BudgetShape
<1>3. <<w, temp[w] + 1>> \in LeftOf(S)
  <2>1. temp[w] + 1 \in 1 .. Charges[w] /\ temp[w] + 1 > temp[w] /\ Live(w)
    BY <1>1, <1>2 DEF Live
  <2> QED
    BY <1>0, <2>1 DEF LeftOf, Tally, Units
<1>4. LeftOf(S)' = LeftOf(S) \ {<<w, temp[w] + 1>>}
  <2>1. LeftOf(S)' = {u \in Tally(S, Charges) : Live(u[1]) /\ u[2] > temp'[u[1]]}
    BY <1>1 DEF LeftOf, Live
  <2>2. ASSUME NEW u \in Tally(S, Charges)
        PROVE  u[2] > temp'[u[1]] <=> (u[2] > temp[u[1]] /\ u # <<w, temp[w] + 1>>)
    <3>1. PICK x \in S, n \in Nat : u = <<x, n>>
      BY DEF Tally, Units
    <3>2. x \in Writer /\ temp[x] \in Nat /\ temp'[x] = IF x = w THEN temp[x] + 1 ELSE temp[x]
      BY <1>0, <1>1, <3>1 DEF BudgetShape
    <3> QED
      BY <3>1, <3>2
  <2> QED
    BY <2>1, <2>2 DEF LeftOf
<1>5. IsFiniteSet(LeftOf(S)) /\ Cardinality(LeftOf(S)) \in Nat
  BY <1>0, LeftFinite
<1>6. Cardinality(LeftOf(S)') = Cardinality(LeftOf(S)) - 1 /\ Cardinality(LeftOf(S)') \in Nat
  <2>1. PICK T : T = LeftOf(S)
    OBVIOUS
  <2>2. IsFiniteSet(T) /\ <<w, temp[w] + 1>> \in T
    BY <1>3, <1>5, <2>1
  <2>3. /\ IsFiniteSet(T \ {<<w, temp[w] + 1>>})
        /\ Cardinality(T \ {<<w, temp[w] + 1>>}) = Cardinality(T) - 1
    BY ZenonT(60), <2>2, FS_RemoveElement
  <2>4. Cardinality(T \ {<<w, temp[w] + 1>>}) \in Nat
    BY <2>3, FS_CardinalityType
  <2> QED
    BY <1>4, <2>1, <2>3, <2>4
<1>7. free >= MinFree + Cardinality(LeftOf(S))
  BY DEF Snapshots
<1>8. free >= MinFree + Cardinality(LeftOf(S)') + 1
  BY <1>5, <1>6, <1>7, BudgetAssumption DEF BudgetShape
<1> QED
  BY <1>4, <1>6, <1>8

LEMMA ByteWritten ==
    ASSUME BudgetShape, PendingCounted, NEW H, Snapshots(H), NEW w \in Writer, WriteByte(w)
    PROVE  Snapshots(H)' /\ free' >= MinFree
<1>1. /\ free' = free - 1 /\ w \in Admitted /\ free \in Int
      /\ UNCHANGED <<stage, size, seen>>
  BY DEF WriteByte, Admitted, BudgetShape
<1>2. Holders' = Holders /\ Counted' = Counted /\ Admitted' = Admitted /\ Charges' = Charges
  BY <1>1 DEF Holders, Counted, Admitted, Charges
<1>3. ASSUME NEW v \in Admitted
      PROVE  free' >= MinFree + Cardinality(LeftOf(H[v] \cup Admitted)') /\ free' >= MinFree
  <2>1. PICK S : S = H[v] \cup Admitted
    OBVIOUS
  <2>2. Cardinality(LeftOf(S)') \in Nat /\ free >= MinFree + Cardinality(LeftOf(S)') + 1
    BY <2>1, ByteWasLeft
  <2>3. S = (H[v] \cup Admitted)'
    BY <1>2, <2>1
  <2>4. LeftOf(S)' = LeftOf(H[v] \cup Admitted)'
    BY <2>3
  <2>5. free' >= MinFree + Cardinality(LeftOf(S)') /\ free' >= MinFree
    BY <1>1, <2>2, BudgetAssumption
  <2> QED
    BY <2>4, <2>5
<1> QED
  BY <1>1, <1>2, <1>3 DEF Snapshots

\* The counter: of the same writes, of one more, of one less.
LEMMA PendingSame ==
    ASSUME PendingCounted, UNCHANGED <<pending, Holders>>, \A v \in Holders : size'[v] = size[v]
    PROVE  PendingCounted'
<1>1. \A v \in Holders : Charges'[v] = Charges[v]
  BY DEF Charges, Holders
<1>2. Tally(Holders, Charges') = Tally(Holders, Charges)
  BY <1>1, TallySame
<1> QED
  BY <1>2 DEF PendingCounted

LEMMA PendingMore ==
    ASSUME BudgetShape, PendingCounted, NEW w \in Writer, NEW n \in Nat, Reserve(w, n)
    PROVE  PendingCounted'
<1>1. /\ stage[w] = "idle" /\ stage' = [stage EXCEPT ![w] = "reserved"]
      /\ size' = [size EXCEPT ![w] = n] /\ pending' = pending + Charge(n)
  BY DEF Reserve
<1>2. Holders' = Holders \cup {w} /\ w \notin Holders
  BY <1>1 DEF BudgetShape, Holders
<1>3. Charges'[w] = Charge(n) /\ Charge(n) \in Nat /\ \A v \in Holders : Charges'[v] = Charges[v]
  BY <1>1 DEF BudgetShape, Holders, Charges, Charge
<1>4. PICK f, g, c : f = Charges /\ g = Charges' /\ c = Charge(n) /\ c \in Nat
  BY <1>3
<1>5. IsFiniteSet(Tally(Holders \cup {w}, g))
  BY <1>3, <1>4, TallyAddedFinite DEF PendingCounted
<1>6. Cardinality(Tally(Holders \cup {w}, g)) = Cardinality(Tally(Holders, f)) + c
  BY <1>2, <1>3, <1>4, TallyAdded DEF PendingCounted
<1> QED
  BY <1>1, <1>2, <1>4, <1>5, <1>6 DEF PendingCounted

LEMMA PendingLess ==
    ASSUME BudgetShape, PendingCounted, NEW w \in Writer,
           stage[w] \notin {"idle", "duplicate"},
           NEW s \in {"idle", "duplicate"}, stage' = [stage EXCEPT ![w] = s],
           pending' = pending - Charge(size[w]), \A v \in Writer \ {w} : size'[v] = size[v]
    PROVE  PendingCounted'
<1>1. Holders' = Holders \ {w} /\ w \in Holders
  BY DEF BudgetShape, Holders
<1>2. /\ Charges[w] = Charge(size[w]) /\ Charges[w] \in Nat
      /\ \A v \in Holders \ {w} : Charges'[v] = Charges[v]
  BY ChargesAreNumbers DEF Holders, Charges
<1>3. PICK f, g, c : f = Charges /\ g = Charges' /\ c = Charge(size[w]) /\ c \in Nat
  BY <1>2
<1>4. IsFiniteSet(Tally(Holders \ {w}, g))
  BY <1>2, <1>3, TallyRemovedFinite DEF PendingCounted
<1>5. Cardinality(Tally(Holders \ {w}, g)) = Cardinality(Tally(Holders, f)) - c
  BY <1>1, <1>2, <1>3, TallyRemoved DEF PendingCounted
<1> QED
  BY <1>1, <1>3, <1>4, <1>5 DEF PendingCounted

\* What one write does to the space.
Gives(w) == Refuse(w) \/ Published(w) \/ Discarded(w) \/ Duplicate(w)
Writes(w) ==
    \/ \E n \in Nat : Reserve(w, n)
    \/ Count(w) \/ Admit(w) \/ WriteByte(w) \/ Publish(w) \/ Discard(w) \/ DropDuplicate(w)
    \/ Gives(w)

LEMMA WriteShape == ASSUME BudgetShape, NEW w \in Writer, Writes(w) PROVE BudgetShape'
<1>1. /\ free \in Int /\ pending \in Int /\ seen \in [Writer -> Int] /\ temp \in [Writer -> Nat]
      /\ size \in [Writer -> Nat] /\ stage \in [Writer -> Phases] /\ Charge(size[w]) \in Nat
  BY DEF BudgetShape, Charge
<1>2. ASSUME NEW n \in Nat, Reserve(w, n) PROVE BudgetShape'
  <2>1. Charge(n) \in Nat
    BY DEF Charge
  <2> QED
    BY <1>1, <1>2, <2>1 DEF Reserve, BudgetShape, Phases
<1>3. CASE Count(w) \/ Admit(w)
  BY <1>1, <1>3 DEF Count, Snapshot, Admit, BudgetShape, Phases
<1>4. CASE WriteByte(w) \/ Publish(w)
  BY <1>1, <1>4 DEF WriteByte, Publish, BudgetShape, Phases
<1>5. CASE Discard(w) \/ DropDuplicate(w)
  BY <1>1, <1>5 DEF Discard, DropDuplicate, BudgetShape, Phases
<1>6. CASE Gives(w)
  BY <1>1, <1>6 DEF Gives, Refuse, Published, Discarded, Duplicate, Release, BudgetShape, Phases
<1> QED
  BY <1>2, <1>3, <1>4, <1>5, <1>6 DEF Writes

LEMMA WritePending ==
    ASSUME BudgetShape, PendingCounted, NEW w \in Writer, Writes(w) PROVE PendingCounted'
<1>1. CASE \E n \in Nat : Reserve(w, n)
  BY <1>1, PendingMore
<1>2. CASE Count(w) \/ Admit(w) \/ WriteByte(w) \/ Publish(w) \/ Discard(w) \/ DropDuplicate(w)
  <2>1. Holders' = Holders /\ pending' = pending
    BY <1>2 DEF Count, Admit, WriteByte, Publish, Discard, DropDuplicate, Holders, BudgetShape
  <2>2. \A v \in Holders : size'[v] = size[v]
    BY <1>2 DEF Count, Admit, WriteByte, Publish, Discard, DropDuplicate, Holders, BudgetShape
  <2> QED
    BY <2>1, <2>2, PendingSame
<1>3. CASE Gives(w)
  <2>1. /\ stage[w] \notin {"idle", "duplicate"} /\ pending' = pending - Charge(size[w])
        /\ \/ stage' = [stage EXCEPT ![w] = "idle"]
           \/ stage' = [stage EXCEPT ![w] = "duplicate"]
        /\ \A v \in Writer \ {w} : size'[v] = size[v]
    BY <1>3 DEF Gives, Refuse, Published, Discarded, Duplicate, Release, BudgetShape
  <2> QED
    BY <2>1, PendingLess
<1> QED
  BY <1>1, <1>2, <1>3 DEF Writes

\* Every step of a write keeps the snapshots, and leaves what must stay free.
LEMMA WriteKeeps ==
    ASSUME BudgetInv, NEW w \in Writer, Writes(w)
    PROVE  BudgetInv' /\ (free' < free => free' >= MinFree)
<1>1. BudgetShape /\ PendingCounted
  BY DEF BudgetInv
<1>2. BudgetShape' /\ PendingCounted'
  BY <1>1, WriteShape, WritePending
<1>3. PICK H : Snapshots(H)
  BY DEF BudgetInv
<1>4. CASE Count(w)
  <2>1. free' = free /\ free \in Int
    BY <1>1, <1>4 DEF Count, BudgetShape
  <2> QED
    BY <1>1, <1>2, <1>3, <1>4, <2>1, SnapshotTaken DEF BudgetInv
<1>5. CASE Admit(w)
  <2>1. free' = free /\ free \in Int
    BY <1>1, <1>5 DEF Admit, BudgetShape
  <2>2. \E K : Snapshots(K)'
    BY <1>1, <1>3, <1>5, WriteAdmitted
  <2> QED
    BY <1>2, <2>1, <2>2 DEF BudgetInv
<1>6. CASE WriteByte(w)
  <2>1. free' >= MinFree /\ \E K : Snapshots(K)'
    BY <1>1, <1>3, <1>6, ByteWritten
  <2> QED
    BY <1>2, <2>1 DEF BudgetInv
<1>7. ASSUME NEW n \in Nat, Reserve(w, n) PROVE BudgetInv' /\ free' = free
  <2>1. /\ stage[w] = "idle" /\ stage' = [stage EXCEPT ![w] = "reserved"]
        /\ size' = [size EXCEPT ![w] = n] /\ UNCHANGED <<free, seen, temp>>
    BY <1>7 DEF Reserve
  <2>2. /\ Holders \subseteq Holders' /\ Counted' = Counted /\ w \notin Holders
        /\ \A v \in Holders : stage'[v] = stage[v] /\ size'[v] = size[v]
        /\ \A v \in Counted : v \in Holders
    BY <1>1, <2>1 DEF Holders, Counted, BudgetShape
  <2>3. \A v \in Holders : temp[v] \in Nat /\ (Live(v)' <=> Live(v))
    BY <1>1, <2>2 DEF Live, BudgetShape, Holders
  <2>4. PICK X : X = {}
    OBVIOUS
  <2>5. \E K : Snapshots(K)'
    BY <1>1, <1>2, <1>3, <2>1, <2>2, <2>3, <2>4, SnapshotsShrink DEF BudgetShape
  <2> QED
    BY <1>2, <2>1, <2>5 DEF BudgetInv
<1>8. CASE Publish(w) \/ Discard(w) \/ DropDuplicate(w) \/ Gives(w)
  <2>1. /\ stage' \in {[stage EXCEPT ![w] = s] : s \in {"idle", "published", "discarded", "duplicate"}}
        /\ stage[w] # "idle" /\ free' >= free
        /\ \A v \in Writer \ {w} : size'[v] = size[v] /\ seen'[v] = seen[v] /\ temp'[v] = temp[v]
    BY <1>1, <1>8 DEF Publish, Discard, DropDuplicate, Gives, Refuse, Published, Discarded,
       Duplicate, Release, BudgetShape
  <2>2. /\ Holders \ {w} \subseteq Holders'
        /\ \A v \in Counted' : v \in Counted \ {w} /\ stage'[v] = stage[v] /\ seen'[v] = seen[v]
        /\ \A v \in Holders \ {w} : size'[v] = size[v]
    BY <1>1, <2>1 DEF Holders, Counted, BudgetShape
  <2>3. \A v \in Holders \ {w} : Live(v)' => Live(v) /\ temp'[v] >= temp[v]
    BY <1>1, <2>1 DEF Holders, Live, BudgetShape
  <2>4. PICK X : X = {w}
    OBVIOUS
  <2>5. \E K : Snapshots(K)'
    BY <1>1, <1>2, <1>3, <2>1, <2>2, <2>3, <2>4, SnapshotsShrink
  <2>6. ~(free' < free)
    BY <1>1, <1>2, <2>1 DEF BudgetShape
  <2> QED
    BY <1>2, <2>5, <2>6 DEF BudgetInv
<1>9. ~(free < free)
  BY <1>1 DEF BudgetShape
<1> QED
  BY <1>4, <1>5, <1>6, <1>7, <1>8, <1>9 DEF Writes

\* Nothing is written, and no write loses what it saw.
LEMMA BudgetQuiet ==
    ASSUME BudgetInv, UNCHANGED <<pending, stage, size, seen, temp>>, free' >= free, free' \in Int
    PROVE  BudgetInv' /\ ~(free' < free)
<1>1. BudgetShape /\ PendingCounted /\ free \in Int
  BY DEF BudgetInv, BudgetShape
<1>2. BudgetShape'
  BY <1>1 DEF BudgetShape
<1>3. Holders' = Holders /\ Counted' = Counted
  BY DEF Holders, Counted
<1>4. PendingCounted'
  BY <1>1, <1>3, PendingSame
<1>5. PICK H, X : Snapshots(H) /\ X = {}
  BY DEF BudgetInv
<1>6. \A v \in Holders : temp[v] \in Nat /\ (Live(v)' <=> Live(v))
  BY <1>1 DEF Holders, Live, BudgetShape
<1>7. \E K : Snapshots(K)'
  BY <1>1, <1>2, <1>3, <1>5, <1>6, SnapshotsShrink
<1> QED
  BY <1>1, <1>2, <1>4, <1>7 DEF BudgetInv

\* Nothing is reserved and nothing is being written.
AllIdle ==
    /\ free \in Int /\ pending = 0 /\ stage = [w \in Writer |-> "idle"]
    /\ size = [w \in Writer |-> 0] /\ seen = size /\ temp = size

LEMMA BudgetIdle == AllIdle => BudgetInv
<1> SUFFICES ASSUME AllIdle PROVE BudgetInv
  OBVIOUS
<1> USE DEF AllIdle
<1>1. BudgetShape
  BY DEF BudgetShape, Phases
<1>2. Holders = {} /\ Counted = {} /\ Admitted = {}
  BY DEF Holders, Counted, Admitted
<1>3. PendingCounted
  BY <1>2, TallyEmpty DEF PendingCounted
<1>4. PICK H : H = [w \in Writer |-> {}]
  OBVIOUS
<1>5. Snapshots(H)
  BY <1>2, <1>4 DEF Snapshots
<1> QED
  BY <1>1, <1>3, <1>5 DEF BudgetInv

\* Every step of the cache is a step of one write, or writes nothing.
LEMMA StepBudget ==
    ASSUME DiskInv, BudgetInv, Next
    PROVE  BudgetInv' /\ (free' < free => free' >= MinFree)
<1>0. free \in Int /\ Shape /\ Publishing
  BY DEF BudgetInv, BudgetShape, DiskInv
<1>1. CASE UNCHANGED budgetVars
  <2>1. UNCHANGED <<pending, stage, size, seen, temp>> /\ free' = free
    BY <1>1 DEF budgetVars
  <2> QED
    BY <1>0, <2>1, BudgetQuiet
<1>2. ASSUME NEW p \in Writer, Writes(p) PROVE BudgetInv' /\ (free' < free => free' >= MinFree)
  BY <1>2, WriteKeeps
<1>3. CASE Reclaimed
  <2>1. UNCHANGED <<pending, stage, size, seen, temp>> /\ free' = free + 1
    BY <1>3 DEF Reclaimed
  <2> QED
    BY <1>0, <2>1, BudgetQuiet
<1>4. CASE Crash
  <2>1. /\ free' = free /\ pending' = 0 /\ stage' = [w \in Writer |-> "idle"]
        /\ size' = [w \in Writer |-> 0] /\ seen' = size' /\ temp' = size'
    BY <1>4 DEF Crash
  <2>2. (AllIdle => BudgetInv)'
    BY BudgetIdle, PTL
  <2>3. AllIdle'
    BY <1>0, <2>1 DEF AllIdle
  <2> QED
    BY <1>0, <2>1, <2>2, <2>3
<1>5. ASSUME NEW p \in Writer, Publisher(p) \/ Fail(p) \/ \E b \in Blob : Begin(p, b)
      PROVE  UNCHANGED budgetVars \/ Writes(p)
  <2>1. CASE StoreBegin(p)
    <3>1. Bytes[blob[p]] \in Nat
      BY <1>0, <2>1, DiskAssumption, BudgetAssumption DEF StoreBegin, Publishing
    <3> QED
      BY <2>1, <3>1 DEF StoreBegin, Writes
  <2>2. CASE Prepare(p)
    BY <2>2 DEF Prepare, Writes, Gives
  <2>3. CASE Link(p) \/ Verify(p) \/ Repair(p) \/ StoreEnd(p)
    BY <2>3 DEF Link, Verify, Repair, StoreEnd, Writes, Gives
  <2>4. CASE Fail(p) \/ Failed(p)
    BY <2>4 DEF Fail, Failed, Writes, Gives
  <2>5. CASE Skip(p) \/ Register(p) \/ Map(p) \/ \E b \in Blob : Begin(p, b)
    BY <2>5 DEF Skip, Register, Map, Begin
  <2> QED
    BY <1>5, <2>1, <2>2, <2>3, <2>4, <2>5 DEF Publisher
<1>6. ASSUME NEW r \in Reader, Request(r) \/ Lookup(r) \/ \E b \in Blob : Find(r, b)
      PROVE  UNCHANGED budgetVars
  BY <1>6 DEF Request, Lookup, Find, Hit, Stale, Forget, Miss, OpenFile, LockFile, Serve, Close
<1>7. ASSUME Choose \/ Evictor \/ EvictFails \/ Cleanup \/ \E b \in Blob : Damage(b)
      PROVE  UNCHANGED budgetVars
  BY <1>7 DEF Choose, Evictor, Enter, Pin, Unmap, RemoveRows, Unlink, EvictFails, Cleanup, Damage
<1> QED
  BY <1>1, <1>2, <1>3, <1>4, <1>5, <1>6, <1>7 DEF Next

THEOREM BudgetInvariant == Spec => []BudgetInv
<1>1. Init => BudgetInv
  BY BudgetIdle, BudgetAssumption DEF Init, BudgetInit, AllIdle
<1>2. DiskInv /\ BudgetInv /\ [Next]_diskVars => BudgetInv'
  <2>1. BudgetInv /\ UNCHANGED diskVars => BudgetInv'
    <3> SUFFICES ASSUME BudgetInv, UNCHANGED diskVars PROVE BudgetInv'
      OBVIOUS
    <3>1. UNCHANGED <<pending, stage, size, seen, temp>> /\ free' = free /\ free \in Int
      BY DEF diskVars, budgetVars, BudgetInv, BudgetShape
    <3> QED
      BY <3>1, BudgetQuiet
  <2> QED
    BY <2>1, StepBudget
<1> QED
  BY <1>1, <1>2, DiskInvariant, PTL DEF Spec

\* pending_bytes is the sum of what the writes hold, whoever completes, fails
\* or dies.
THEOREM PendingAlwaysCounted == Spec => []PendingCounted
<1>1. BudgetInv => PendingCounted
  BY DEF BudgetInv
<1> QED
  BY <1>1, BudgetInvariant, PTL

\* The cache never writes into the space that must stay free, though writes
\* measure it without a lock: what overtakes a measurement is counted twice,
\* never left out.
THEOREM FreeAlwaysKept == Spec => FreeKept
<1>1. DiskInv /\ BudgetInv /\ [Next]_diskVars => [free' < free => free' >= MinFree]_budgetVars
  BY StepBudget DEF diskVars
<1> QED
  BY <1>1, DiskInvariant, BudgetInvariant, PTL DEF Spec, FreeKept

-----------------------------------------------------------------------------
(* The fingerprints of FilterIndex.                                        *)

\* A placement with metadata and without fingerprints.
Missing == (placed \cap complete) \ filtered

\* A transaction that places its object, and one that has read or written a
\* row since it took its tables.
Placing(t) == Places(t.todo) \/ t.own

Plans == {s \in Seq({"metadata", "place"}) : \A i, j \in DOMAIN s : s[i] = s[j] => i = j}
Transaction ==
    [todo : Plans, key : Key \cup {0}, own : BOOLEAN, print : BOOLEAN, reprint : BOOLEAN,
     metadata : BOOLEAN, lock : BOOLEAN,
     at : {"none", "lock", "place", "insert", "metadata", "completed", "commit"}]

\* Where a transaction is and what it has left to do.
Staged(t) ==
    /\ t \in Transaction
    /\ t.at = "none" => ~t.own /\ ~t.metadata /\ ~t.lock /\ t.todo = << >>
    /\ t.at # "none" => t.key \in Key
    /\ t.at = "lock" => t.todo # << >>
    /\ t.at \in {"place", "insert"} => t.todo # << >> /\ Head(t.todo) = "place"
    /\ t.at \in {"metadata", "completed"} => t.todo # << >> /\ Head(t.todo) = "metadata"
    /\ t.at = "commit" => t.todo = << >>
    /\ t.at = "completed" => t.metadata
    /\ t.at = "metadata" => ~t.metadata
    /\ t.metadata /\ t.at # "completed" => \A i \in DOMAIN t.todo : t.todo[i] = "place"

\* It places only what has no row and was never described, and who found the
\* object incomplete has its lock.
Holds(t) ==
    /\ Placing(t) => t.key \notin placed /\ t.key \notin mentioned
    /\ t.at \notin {"none", "lock"} \/ t.own => t.lock \/ t.key \in complete
    /\ t.metadata => t.lock /\ t.key \notin complete

\* Two transactions about one object.
Apart(t, u) ==
    /\ ~(t.lock /\ u.lock) /\ ~(Placing(t) /\ Placing(u))
    /\ ~(t.metadata /\ u.own) /\ ~(u.metadata /\ t.own)

\* While the triggers are enabled a transaction brings the fingerprints of
\* what it places or completes.
Printed(t) ==
    maintained /\ t.at # "completed" =>
        /\ (t.own \/ t.at = "insert") /\ (t.key \in complete \/ t.metadata) => t.print
        /\ t.metadata /\ t.key \in placed => t.reprint

WritersInv ==
    /\ DOMAIN writer = Connection
    /\ \A c \in Connection : Staged(writer[c]) /\ Holds(writer[c]) /\ Printed(writer[c])
    /\ \A c, d \in Connection : c # d /\ writer[c].key = writer[d].key => Apart(writer[c], writer[d])

TablesTyped ==
    /\ placed \subseteq Key /\ complete \subseteq Key /\ mentioned \subseteq Key
    /\ ready \in BOOLEAN /\ maintained \in BOOLEAN

\* A preparation has filled in what it has passed.
Filling ==
    /\ prepare \in [at : {"none", "high", "keys", "fill", "publish"}, after : Nat, high : Nat,
                    keys : SUBSET Nat]
    /\ prepare.at # "none" => maintained /\ ~ready
    /\ prepare.at \in {"keys", "fill"} => \A k \in Missing : prepare.after < k /\ k <= prepare.high
    /\ prepare.at = "fill" =>
          /\ prepare.keys # {} /\ \A k \in prepare.keys : k <= prepare.high
          /\ \A k \in Missing : k \in prepare.keys \/ \A j \in prepare.keys : j < k
    /\ prepare.at = "publish" => Missing = {}
    /\ ready => maintained /\ Missing = {}

FilterInv == TablesTyped /\ WritersInv /\ Filling

LEMMA PlansOf == \A k : \A s \in Work(k) : s \in Plans /\ s # << >>
<1>1. /\ <<"metadata", "place">> \in Plans /\ <<"place", "metadata">> \in Plans
      /\ <<"place">> \in Plans /\ <<"metadata">> \in Plans
  BY DEF Plans
<1> QED
  BY <1>1 DEF Work

LEMMA PlanTail ==
    ASSUME NEW s \in Plans, s # << >>
    PROVE  /\ Head(s) \in {"metadata", "place"} /\ Head(s) = s[1] /\ 1 \in DOMAIN s
           /\ Tail(s) \in Plans
           /\ Len(s) = 1 <=> Tail(s) = << >>
           /\ \A i \in DOMAIN Tail(s) :
                 /\ i + 1 \in DOMAIN s /\ Tail(s)[i] = s[i + 1]
                 /\ Tail(s)[i] \in {"metadata", "place"} \ {Head(s)}
<1>1. /\ s \in Seq({"metadata", "place"}) /\ Len(s) \in Nat \ {0}
      /\ \A i, j \in DOMAIN s : s[i] = s[j] => i = j
  BY DEF Plans
<1>2. /\ Head(s) = s[1] /\ 1 \in DOMAIN s /\ s[1] \in {"metadata", "place"}
      /\ Tail(s) \in Seq({"metadata", "place"}) /\ DOMAIN Tail(s) = 1 .. Len(s) - 1
      /\ Len(s) = 1 <=> Tail(s) = << >>
      /\ \A i \in DOMAIN Tail(s) : i + 1 \in DOMAIN s /\ i + 1 # 1 /\ Tail(s)[i] = s[i + 1]
  <2> DEFINE W == {"metadata", "place"}
  <2>0. s \in Seq(W)
    BY <1>1
  <2> HIDE DEF W
  <2>6. Tail(s) \in Seq(W)
    BY <2>0
  <2>1. PICK u : u = Tail(s) /\ u \in Seq(W)
    BY <2>6
  <2>2. /\ DOMAIN s = 1 .. Len(s) /\ DOMAIN u = 1 .. Len(s) - 1 /\ Head(s) = s[1]
        /\ Len(u) = Len(s) - 1 /\ \A i \in 1 .. Len(s) - 1 : u[i] = s[i + 1]
    BY <1>1, <2>0, <2>1
  <2>3. Len(s) = 1 <=> u = << >>
    BY <1>1, <2>1, <2>2
  <2>4. 1 \in DOMAIN s /\ s[1] \in {"metadata", "place"}
    BY <1>1, <2>2
  <2>5. \A i \in DOMAIN u : i + 1 \in DOMAIN s /\ i + 1 # 1 /\ u[i] = s[i + 1]
    BY <1>1, <2>2
  <2> QED
    BY <2>1, <2>2, <2>3, <2>4, <2>5 DEF W
<1>3. \A i \in DOMAIN Tail(s) : Tail(s)[i] \in {"metadata", "place"} \ {Head(s)}
  BY <1>1, <1>2
<1>4. \A i, j \in DOMAIN Tail(s) : Tail(s)[i] = Tail(s)[j] => i = j
  BY <1>1, <1>2
<1> QED
  BY <1>2, <1>3, <1>4 DEF Plans

LEMMA FilterStart == FilterInit => FilterInv
<1> SUFFICES ASSUME FilterInit PROVE FilterInv
  OBVIOUS
<1>1. Staged(Idle)
  BY DEF Staged, Idle, Transaction, Plans
<1>2. Holds(Idle) /\ Printed(Idle) /\ Apart(Idle, Idle)
  BY DEF Holds, Printed, Apart, Placing, Places, Idle, FilterInit
<1>3. WritersInv
  BY <1>1, <1>2 DEF WritersInv, FilterInit
<1>4. TablesTyped /\ Filling
  BY DEF TablesTyped, Filling, FilterInit, NoPrepare, Missing
<1> QED
  BY <1>3, <1>4 DEF FilterInv

-----------------------------------------------------------------------------
(* Steps of one transaction that change no table.                          *)

\* What a writer may become beside the others.
LEMMA WriterMoves ==
    ASSUME FilterInv, UNCHANGED <<tables, ready, maintained, prepare>>, NEW c \in Connection, NEW t,
           Becomes(c, t), Staged(t), Holds(t), Printed(t),
           \A d \in Connection \ {c} : writer[d].key = t.key => Apart(t, writer[d])
    PROVE  FilterInv'
<1>1. /\ DOMAIN writer' = Connection /\ writer'[c] = t
      /\ \A d \in Connection : d # c => writer'[d] = writer[d]
  BY DEF FilterInv, WritersInv, Becomes
<1>2. \A u : /\ Staged(u)' <=> Staged(u)
             /\ Holds(u)' <=> Holds(u)
             /\ Printed(u)' <=> Printed(u)
  BY DEF Staged, Holds, Printed, Placing, tables
<1>3. \A u, v : Apart(u, v) <=> Apart(v, u)
  BY DEF Apart
<1>4. WritersInv'
  <2>1. ASSUME NEW d \in Connection PROVE Staged(writer'[d]) /\ Holds(writer'[d]) /\ Printed(writer'[d])
    BY <1>1 DEF FilterInv, WritersInv
  <2>2. ASSUME NEW d \in Connection, NEW e \in Connection, d # e, writer'[d].key = writer'[e].key
        PROVE  Apart(writer'[d], writer'[e])
    BY <1>1, <1>3, <2>2 DEF FilterInv, WritersInv
  <2>3. /\ \A d \in Connection : Staged(writer[d])' /\ Holds(writer[d])' /\ Printed(writer[d])'
        /\ \A d, e \in Connection : d # e /\ writer[d]'.key = writer[e]'.key => Apart(writer[d], writer[e])'
    BY <2>1, <2>2 DEF tables, Staged, Holds, Printed, Apart, Placing
  <2> QED
    BY <1>1, <2>3 DEF WritersInv
<1>5. TablesTyped' /\ Filling'
  BY DEF FilterInv, TablesTyped, Filling, Missing, tables
<1> QED
  BY <1>4, <1>5 DEF FilterInv

LEMMA StartKeepsFilters ==
    ASSUME FilterInv, ~Replay, NEW c \in Connection, NEW k \in Key, NEW todo \in Work(k),
           StartWrite(c, k, todo)
    PROVE  FilterInv'
<1> DEFINE t == [Idle EXCEPT !.todo = todo, !.key = k, !.at = "lock"]
<1>1. todo \in Plans /\ todo # << >>
  BY PlansOf
<1>2. /\ t \in Transaction /\ t.todo = todo /\ t.key = k /\ t.at = "lock"
      /\ ~t.own /\ ~t.metadata /\ ~t.lock
  BY <1>1 DEF Idle, Transaction
<1>3. /\ Becomes(c, t) /\ UNCHANGED <<tables, ready, maintained, prepare>>
      /\ Places(todo) => /\ k \notin placed /\ k \notin mentioned
                         /\ \A d \in Connection : writer[d].key = k => ~Placing(writer[d])
  BY DEF StartWrite, Placing
<1> HIDE DEF t
<1>4. Staged(t)
  BY <1>1, <1>2 DEF Staged
<1>5. Holds(t) /\ Printed(t)
  BY <1>2, <1>3 DEF Holds, Printed, Placing
<1>6. \A d \in Connection \ {c} : writer[d].key = t.key => Apart(t, writer[d])
  BY <1>2, <1>3 DEF Apart, Placing
<1> QED
  BY <1>3, <1>4, <1>5, <1>6, WriterMoves

\* What is known of the transaction of a connection.
LEMMA OneWriter ==
    ASSUME FilterInv, NEW c \in Connection
    PROVE  /\ Staged(writer[c]) /\ Holds(writer[c]) /\ Printed(writer[c])
           /\ \A d \in Connection \ {c} : writer[d].key = writer[c].key =>
                  Apart(writer[c], writer[d]) /\ d \in Others(c) /\ Holds(writer[d])
BY DEF FilterInv, WritersInv, Others

LEMMA LockKeepsFilters ==
    ASSUME FilterInv, NEW c \in Connection, LockId(c)
    PROVE  FilterInv'
<1> DEFINE w == writer[c]
           t == [w EXCEPT !.lock = @ \/ Locks(c), !.at = Head(w.todo)]
<1>1. /\ Becomes(c, t) /\ UNCHANGED <<tables, ready, maintained, prepare>> /\ w.at = "lock"
      /\ Locks(c) => \A d \in Others(c) : ~writer[d].lock
  BY DEF LockId, IsAt
<1>2. /\ Staged(w) /\ Holds(w) /\ Printed(w)
      /\ \A d \in Connection \ {c} : writer[d].key = w.key =>
                  Apart(w, writer[d]) /\ d \in Others(c)
  BY OneWriter
<1>3. Locks(c) <=> /\ w.key \notin complete /\ ~w.metadata /\ ~w.lock
                   /\ Head(w.todo) = "place" => w.key \notin mentioned
  BY DEF Locks
<1> HIDE DEF w
<1>4. Locks(c) \in BOOLEAN
  BY DEF Locks
<1>6. /\ w.todo # << >> /\ Head(w.todo) \in {"place", "metadata"}
      /\ Head(w.todo) = "place" => Places(w.todo)
  <2>1. w.todo # << >> /\ w.todo \in Plans
    BY <1>1, <1>2 DEF Staged, Transaction
  <2> QED
    BY <2>1, PlanTail DEF Places
<1>5. /\ t \in Transaction /\ t.todo = w.todo /\ t.key = w.key /\ t.own = w.own /\ t.print = w.print
      /\ t.reprint = w.reprint /\ t.metadata = w.metadata /\ t.lock = (w.lock \/ Locks(c))
      /\ t.at = Head(w.todo)
  BY <1>2, <1>4, <1>6 DEF Staged, Transaction
<1> HIDE DEF t
<1>7. w.metadata => Head(w.todo) = "place"
  <2>1. w.todo # << >> /\ w.todo \in Plans
    BY <1>1, <1>2 DEF Staged, Transaction
  <2> QED
    BY <1>1, <1>2, <2>1, PlanTail DEF Staged
<1>8. Staged(t) /\ Holds(t) /\ Printed(t)
  BY <1>1, <1>2, <1>3, <1>5, <1>6, <1>7 DEF Staged, Holds, Printed, Placing
<1>9. \A d \in Connection \ {c} : writer[d].key = t.key => Apart(t, writer[d])
  BY <1>1, <1>2, <1>5 DEF Apart, Placing
<1> QED
  BY <1>1, <1>8, <1>9, WriterMoves

LEMMA FingerprintKeeps ==
    ASSUME FilterInv, NEW c \in Connection, Fingerprint(c)
    PROVE  FilterInv'
<1> DEFINE w == writer[c]
           p == maintained /\ (w.metadata \/ w.key \in complete)
           t == [w EXCEPT !.print = p, !.at = "insert"]
<1>1. Becomes(c, t) /\ UNCHANGED <<tables, ready, maintained, prepare>> /\ w.at = "place"
  BY DEF Fingerprint, IsAt
<1>2. /\ Staged(w) /\ Holds(w) /\ Printed(w)
      /\ \A d \in Connection \ {c} : writer[d].key = w.key => Apart(w, writer[d])
  BY OneWriter
<1> HIDE DEF w
<1>3. p \in BOOLEAN
  BY <1>2 DEF Staged, Transaction
<1>4. /\ t \in Transaction /\ t.todo = w.todo /\ t.key = w.key /\ t.own = w.own /\ t.print = p
      /\ t.reprint = w.reprint /\ t.metadata = w.metadata /\ t.lock = w.lock /\ t.at = "insert"
  BY <1>2, <1>3 DEF Staged, Transaction
<1> HIDE DEF t
<1>5. Staged(t) /\ Holds(t)
  BY <1>1, <1>2, <1>4 DEF Staged, Holds, Placing
<1>6. Printed(t)
  BY <1>1, <1>2, <1>4 DEF Printed
<1>7. \A d \in Connection \ {c} : writer[d].key = t.key => Apart(t, writer[d])
  BY <1>2, <1>4 DEF Apart, Placing
<1> QED
  BY <1>1, <1>5, <1>6, <1>7, WriterMoves

\* The rest of a transaction after one of its statements.
LEMMA StatementDone ==
    ASSUME NEW w \in Transaction, w.todo # << >>
    PROVE  /\ Done(w) \in Transaction /\ Done(w).todo = Tail(w.todo)
           /\ Done(w).at \in {"commit", "lock"} /\ (Done(w).at = "commit" <=> Tail(w.todo) = << >>)
           /\ Done(w).key = w.key /\ Done(w).own = w.own /\ Done(w).print = w.print
           /\ Done(w).reprint = w.reprint /\ Done(w).metadata = w.metadata /\ Done(w).lock = w.lock
           /\ Places(Tail(w.todo)) => Places(w.todo)
           /\ \A i \in DOMAIN Tail(w.todo) : i + 1 \in DOMAIN w.todo /\ Tail(w.todo)[i] = w.todo[i + 1]
<1>1. w.todo \in Plans
  BY DEF Transaction
<1>2. Tail(w.todo) \in Plans /\ (Len(w.todo) = 1 <=> Tail(w.todo) = << >>)
  BY <1>1, PlanTail
<1>3. \A i \in DOMAIN Tail(w.todo) : i + 1 \in DOMAIN w.todo /\ Tail(w.todo)[i] = w.todo[i + 1]
  BY <1>1, PlanTail
<1>4. Places(Tail(w.todo)) => Places(w.todo)
  BY <1>3 DEF Places
<1> DEFINE a == IF Len(w.todo) = 1 THEN "commit" ELSE "lock"
           t == [w EXCEPT !.todo = Tail(w.todo), !.at = a]
<1>5. Done(w) = t
  BY DEF Done
<1>6. a \in {"commit", "lock"} /\ (a = "commit" <=> Tail(w.todo) = << >>)
  BY <1>2
<1> HIDE DEF a
<1>7. /\ t \in Transaction /\ t.todo = Tail(w.todo) /\ t.at = a /\ t.key = w.key /\ t.own = w.own
      /\ t.print = w.print /\ t.reprint = w.reprint /\ t.metadata = w.metadata /\ t.lock = w.lock
  BY <1>2, <1>6 DEF Transaction
<1> QED
  BY <1>3, <1>4, <1>5, <1>6, <1>7

LEMMA InsertKeeps ==
    ASSUME FilterInv, NEW c \in Connection, Insert(c)
    PROVE  FilterInv'
<1> DEFINE w == writer[c]
           u == [w EXCEPT !.own = TRUE]
           t == Done(u)
<1>1. /\ Becomes(c, t) /\ UNCHANGED <<tables, ready, maintained, prepare>> /\ w.at = "insert"
      /\ \A d \in Others(c) : ~writer[d].metadata
  BY DEF Insert, IsAt
<1>2. /\ Staged(w) /\ Holds(w) /\ Printed(w)
      /\ \A d \in Connection \ {c} : writer[d].key = w.key => Apart(w, writer[d]) /\ d \in Others(c)
  BY OneWriter
<1> HIDE DEF w
<1>3. /\ u \in Transaction /\ u.todo = w.todo /\ u.key = w.key /\ u.own = TRUE /\ u.print = w.print
      /\ u.reprint = w.reprint /\ u.metadata = w.metadata /\ u.lock = w.lock
  BY <1>2 DEF Staged, Transaction
<1>4. w.todo # << >> /\ w.todo \in Plans /\ Head(w.todo) = "place" /\ Places(w.todo)
  <2>1. w.todo # << >> /\ w.todo \in Plans /\ Head(w.todo) = "place"
    BY <1>1, <1>2 DEF Staged, Transaction
  <2> QED
    BY <2>1, PlanTail DEF Places
<1> HIDE DEF u
<1>5. /\ t \in Transaction /\ t.todo = Tail(w.todo) /\ t.at \in {"commit", "lock"}
      /\ t.at = "commit" <=> Tail(w.todo) = << >>
      /\ t.key = w.key /\ t.own = TRUE /\ t.print = w.print /\ t.reprint = w.reprint
      /\ t.metadata = w.metadata /\ t.lock = w.lock
  BY <1>3, <1>4, StatementDone
<1>9. \A i \in DOMAIN t.todo : i + 1 \in DOMAIN w.todo /\ t.todo[i] = w.todo[i + 1]
  BY <1>4, <1>5, PlanTail
<1> HIDE DEF t
<1>6. Staged(t)
  BY <1>1, <1>2, <1>4, <1>5, <1>9 DEF Staged
<1>7. Holds(t) /\ Printed(t)
  BY <1>1, <1>2, <1>4, <1>5 DEF Holds, Printed, Placing
<1>8. \A d \in Connection \ {c} : writer[d].key = t.key => Apart(t, writer[d])
  BY <1>1, <1>2, <1>4, <1>5 DEF Apart, Placing
<1> QED
  BY <1>1, <1>6, <1>7, <1>8, WriterMoves

LEMMA MetadataKeeps ==
    ASSUME FilterInv, NEW c \in Connection, WriteMetadata(c)
    PROVE  FilterInv'
<1> DEFINE w == writer[c]
<1>1. UNCHANGED <<tables, ready, maintained, prepare>> /\ w.at = "metadata"
  BY DEF WriteMetadata, IsAt
<1>2. /\ Staged(w) /\ Holds(w) /\ Printed(w)
      /\ \A d \in Connection \ {c} : writer[d].key = w.key =>
             Apart(w, writer[d]) /\ d \in Others(c) /\ Holds(writer[d])
  BY OneWriter
<1>3. w.todo # << >> /\ w \in Transaction
  BY <1>1, <1>2 DEF Staged
<1>4. CASE w.key \in complete /\ Becomes(c, Done(w))
  <2> DEFINE t == Done(w)
  <2>1. /\ t \in Transaction /\ t.todo = Tail(w.todo) /\ t.at \in {"commit", "lock"}
        /\ t.at = "commit" <=> Tail(w.todo) = << >>
        /\ t.key = w.key /\ t.own = w.own /\ t.print = w.print /\ t.reprint = w.reprint
        /\ t.metadata = w.metadata /\ t.lock = w.lock
        /\ Places(t.todo) => Places(w.todo)
    BY <1>3, StatementDone
  <2> HIDE DEF t, w
  <2>2. Staged(t) /\ Holds(t) /\ Printed(t)
    BY <1>1, <1>2, <1>4, <2>1 DEF Staged, Holds, Printed, Placing
  <2>3. \A d \in Connection \ {c} : writer[d].key = t.key => Apart(t, writer[d])
    BY <1>2, <2>1 DEF Apart, Placing
  <2> QED
    BY <1>1, <1>4, <2>2, <2>3, WriterMoves DEF t, w
<1>5. CASE /\ w.key \notin complete /\ \A d \in Others(c) : ~writer[d].own /\ ~writer[d].metadata
           /\ Becomes(c, [w EXCEPT !.metadata = TRUE, !.at = "completed"])
  <2> DEFINE t == [w EXCEPT !.metadata = TRUE, !.at = "completed"]
  <2> HIDE DEF w
  <2>1. /\ t \in Transaction /\ t.todo = w.todo /\ t.at = "completed" /\ t.metadata = TRUE
        /\ t.key = w.key /\ t.own = w.own /\ t.print = w.print /\ t.reprint = w.reprint
        /\ t.lock = w.lock
    BY <1>3 DEF Transaction
  <2> HIDE DEF t
  <2>2. Staged(t) /\ Holds(t) /\ Printed(t)
    BY <1>1, <1>2, <1>5, <2>1 DEF Staged, Holds, Printed, Placing
  <2>3. \A d \in Connection \ {c} : writer[d].key = t.key => Apart(t, writer[d])
    BY <1>2, <1>5, <2>1 DEF Apart, Placing
  <2> QED
    BY <1>1, <1>5, <2>2, <2>3, WriterMoves DEF t, w
<1> QED
  BY <1>4, <1>5 DEF WriteMetadata

LEMMA CompleteKeeps ==
    ASSUME FilterInv, NEW c \in Connection, CompleteRow(c)
    PROVE  FilterInv'
<1> DEFINE w == writer[c]
           p == maintained /\ w.own
           q == maintained /\ w.key \in placed
           u == [w EXCEPT !.print = p, !.reprint = q]
           t == Done(u)
<1>1. /\ Becomes(c, t) /\ UNCHANGED <<tables, ready, maintained, prepare>> /\ w.at = "completed"
  BY DEF CompleteRow, IsAt
<1>2. /\ Staged(w) /\ Holds(w) /\ Printed(w)
      /\ \A d \in Connection \ {c} : writer[d].key = w.key => Apart(w, writer[d]) /\ d \in Others(c)
  BY OneWriter
<1> HIDE DEF w
<1>3. p \in BOOLEAN /\ q \in BOOLEAN
  BY <1>2 DEF Staged, Transaction
<1>4. /\ u \in Transaction /\ u.todo = w.todo /\ u.key = w.key /\ u.own = w.own /\ u.print = p
      /\ u.reprint = q /\ u.metadata = w.metadata /\ u.lock = w.lock
  BY <1>2, <1>3 DEF Staged, Transaction
<1>5. w.todo # << >> /\ w.todo \in Plans /\ Head(w.todo) = "metadata"
  BY <1>1, <1>2 DEF Staged, Transaction
<1> HIDE DEF u
<1>6. /\ t \in Transaction /\ t.todo = Tail(w.todo) /\ t.at \in {"commit", "lock"}
      /\ t.at = "commit" <=> Tail(w.todo) = << >>
      /\ t.key = w.key /\ t.own = w.own /\ t.print = p /\ t.reprint = q
      /\ t.metadata = w.metadata /\ t.lock = w.lock
      /\ Places(t.todo) => Places(w.todo)
  BY <1>4, <1>5, StatementDone
<1>7. \A i \in DOMAIN t.todo : t.todo[i] = "place"
  BY <1>5, <1>6, PlanTail
<1> HIDE DEF t
<1>8. Staged(t)
  BY <1>6, <1>7, <1>1, <1>2 DEF Staged
<1>9. Holds(t)
  BY <1>1, <1>2, <1>6 DEF Holds, Placing
<1>10. Printed(t)
  BY <1>1, <1>2, <1>6 DEF Printed
<1>11. \A d \in Connection \ {c} : writer[d].key = t.key => Apart(t, writer[d])
  BY <1>2, <1>6 DEF Apart, Placing
<1> QED
  BY <1>1, <1>8, <1>9, <1>10, <1>11, WriterMoves

LEMMA IdleFits == Staged(Idle) /\ Holds(Idle) /\ Printed(Idle) /\ \A u : Apart(Idle, u) /\ Apart(u, Idle)
<1>1. << >> \in Plans
  BY DEF Plans
<1>2. /\ Idle \in Transaction /\ Idle.todo = << >> /\ Idle.at = "none" /\ ~Idle.own /\ ~Idle.metadata
      /\ ~Idle.lock
  BY <1>1 DEF Idle, Transaction
<1>3. ~Placing(Idle)
  BY <1>2 DEF Placing, Places
<1> QED
  BY <1>2, <1>3 DEF Staged, Holds, Printed, Apart

LEMMA AbortKeepsFilters ==
    ASSUME FilterInv, NEW c \in Connection, Abort(c)
    PROVE  FilterInv'
BY IdleFits, WriterMoves DEF Abort

LEMMA CommitKeeps ==
    ASSUME FilterInv, NEW c \in Connection, Commit(c)
    PROVE  FilterInv'
<1> DEFINE w == writer[c]
           k == w.key
<1>1. /\ UNCHANGED <<ready, maintained, prepare>> /\ w.at = "commit"
      /\ mentioned' = IF w.own /\ k \notin Bundled THEN mentioned \cup {k} ELSE mentioned
      /\ complete' = IF w.metadata THEN complete \cup {k} ELSE complete
      /\ placed' = IF w.own THEN placed \cup {k} ELSE placed
      /\ filtered' = IF w.print \/ w.reprint THEN filtered \cup {k} ELSE filtered
      /\ Becomes(c, Idle)
  BY DEF Commit, IsAt
<1>2. /\ Staged(w) /\ Holds(w) /\ Printed(w)
      /\ \A d \in Connection \ {c} : writer[d].key = k => Apart(w, writer[d])
  BY OneWriter
<1>3. /\ DOMAIN writer' = Connection /\ writer'[c] = Idle
      /\ \A d \in Connection : d # c => writer'[d] = writer[d]
  BY <1>1 DEF FilterInv, WritersInv, Becomes
<1>4. k \in Key
  BY <1>1, <1>2 DEF Staged
<1> HIDE DEF w
<1>5. ASSUME NEW d \in Connection \ {c}
      PROVE  Staged(writer[d])' /\ Holds(writer[d])' /\ Printed(writer[d])'
  <2> DEFINE u == writer[d]
  <2>1. Staged(u) /\ Holds(u) /\ Printed(u) /\ writer'[d] = u
    BY <1>3, OneWriter
  <2>2. k = u.key => Apart(w, u)
    BY <1>2
  <2> HIDE DEF u
  <2>3. /\ Placing(u) => u.key \notin placed' /\ u.key \notin mentioned'
        /\ u.at \notin {"none", "lock"} \/ u.own => u.lock \/ u.key \in complete'
        /\ u.metadata => u.lock /\ u.key \notin complete'
    <3>1. CASE u.key = k
      BY <1>1, <1>2, <2>1, <2>2, <3>1 DEF Holds, Apart, Placing
    <3>2. CASE u.key # k
      BY <1>1, <2>1, <3>2 DEF Holds
    <3> QED
      BY <3>1, <3>2
  <2>4. maintained /\ u.at # "completed" =>
          /\ (u.own \/ u.at = "insert") /\ (u.key \in complete' \/ u.metadata) => u.print
          /\ u.metadata /\ u.key \in placed' => u.reprint
    <3>1. CASE u.key = k
      BY <1>1, <1>2, <2>1, <2>2, <3>1 DEF Holds, Apart, Printed
    <3>2. CASE u.key # k
      BY <1>1, <2>1, <3>2 DEF Printed
    <3> QED
      BY <3>1, <3>2
  <2>5. writer[d]' = u
    BY <2>1
  <2> QED
    BY <1>1, <2>1, <2>3, <2>4, <2>5 DEF Staged, Holds, Printed, Placing
<1>6. /\ Staged(writer[c])' /\ Holds(writer[c])' /\ Printed(writer[c])'
      /\ \A u : Apart(writer[c]', u) /\ Apart(u, writer[c]')
  <2>1. /\ Idle.at = "none" /\ ~Idle.own /\ ~Idle.metadata /\ ~Placing(Idle)
    BY DEF Idle, Placing, Places
  <2>2. writer[c]' = Idle
    BY <1>3
  <2> QED
    BY <2>1, <2>2, IdleFits DEF Staged, Holds, Printed, Placing
<1>7. \A d, e \in Connection : d # e /\ writer[d]'.key = writer[e]'.key => Apart(writer[d], writer[e])'
  <2>1. \A d, e \in Connection : d # e /\ writer'[d].key = writer'[e].key => Apart(writer'[d], writer'[e])
    BY <1>3, <1>6 DEF FilterInv, WritersInv
  <2> QED
    BY <2>1 DEF Apart, Placing
<1>8. WritersInv'
  BY <1>3, <1>5, <1>6, <1>7 DEF WritersInv
<1>9. maintained => Missing' \subseteq Missing
  BY <1>1, <1>2 DEF Missing, Printed
<1>10. TablesTyped' /\ Filling'
  BY <1>1, <1>4, <1>9 DEF FilterInv, TablesTyped, Filling
<1> QED
  BY <1>8, <1>10 DEF FilterInv

LEMMA RewindKeepsFilters ==
    ASSUME FilterInv, NEW k \in Key, Rewind(k)
    PROVE  FilterInv'
<1>1. /\ placed' = placed \ {k} /\ filtered' = filtered \ {k}
      /\ UNCHANGED <<mentioned, complete, ready, maintained, writer, prepare>>
      /\ \A c \in Connection : writer[c].at = "none"
  BY DEF Rewind, IsAt
<1>2. Missing' \subseteq Missing
  BY <1>1 DEF Missing
<1>3. ASSUME NEW c \in Connection PROVE Staged(writer[c])' /\ Holds(writer[c])' /\ Printed(writer[c])'
  BY <1>1, OneWriter DEF Staged, Holds, Printed, Placing, Places
<1>4. WritersInv'
  BY <1>1, <1>3 DEF FilterInv, WritersInv, Apart, Placing
<1> QED
  BY <1>1, <1>2, <1>4 DEF FilterInv, TablesTyped, Filling

-----------------------------------------------------------------------------
(* Preparations.                                                           *)

\* Steps that leave the writers and what they see as they are, or change the
\* triggers when nobody has written a table.
LEMMA PreparationKeeps ==
    ASSUME FilterInv, UNCHANGED <<mentioned, complete, placed, writer>>,
           UNCHANGED maintained \/ TablesFree
    PROVE  WritersInv'
<1>1. ASSUME NEW c \in Connection PROVE Staged(writer[c])' /\ Holds(writer[c])' /\ Printed(writer[c])'
  <2>1. Staged(writer[c])' /\ Holds(writer[c])'
    BY OneWriter DEF Staged, Holds, Placing
  <2>2. CASE UNCHANGED maintained
    BY <2>1, <2>2, OneWriter DEF Printed
  <2>3. CASE TablesFree
    BY <2>1, <2>3 DEF TablesFree, Wrote, Printed
  <2> QED
    BY <2>1, <2>2, <2>3
<1> QED
  BY <1>1 DEF FilterInv, WritersInv, Apart, Placing

LEMMA GreatestKey ==
    ASSUME NEW S, S \subseteq Nat, IsFiniteSet(S), S # {}
    PROVE  Max(S) \in S /\ \A k \in S : k <= Max(S)
<1>1. PICK m \in S : \A k \in S : k <= m
  BY GreatestNatural
<1>2. \E n \in S : \A k \in S : n >= k
  BY <1>1
<1>3. Max(S) \in S /\ \A k \in S : Max(S) >= k
  BY <1>2 DEF Max
<1> QED
  BY <1>3

\* A batch of keys is the lowest that are left.
LEMMA NextAreLowest ==
    ASSUME FilterInv
    PROVE  /\ NextKeys \subseteq Left /\ (Left # {} => NextKeys # {})
           /\ \A k \in Left \ NextKeys : \A j \in NextKeys : j < k
<1>1. Left \subseteq Nat \ {0} /\ Left \subseteq Key
  BY FilterAssumption DEF FilterInv, TablesTyped, Left
<1>2. ASSUME Left # {} PROVE NextKeys # {}
  <2>1. PICK k \in Left : \A j \in Left : k <= j
    BY <1>1, <1>2, LeastNatural
  <2>2. {j \in Left : j < k} = {}
    <3>1. ASSUME NEW j \in Left PROVE ~(j < k)
      <4>1. j \in Nat /\ k \in Nat /\ k <= j
        BY <1>1, <2>1
      <4> QED
        BY <4>1
    <3> QED
      BY <3>1
  <2>3. Cardinality({j \in Left : j < k}) < Backfill
    BY <2>2, FS_EmptySet, FilterAssumption
  <2> QED
    BY <2>1, <2>3 DEF NextKeys
<1>3. ASSUME NEW k \in Left \ NextKeys, NEW j \in NextKeys PROVE j < k
  <2> DEFINE A == {i \in Left : i < k}
             B == {i \in Left : i < j}
  <2>1. j \in Left /\ Cardinality(B) < Backfill /\ ~(Cardinality(A) < Backfill)
    BY DEF NextKeys
  <2>2. j # k
    BY <1>3
  <2>3. IsFiniteSet(A) /\ IsFiniteSet(B)
    BY <1>1, FS_Subset, FilterAssumption
  <2>4. CASE k < j
    <3>1. A \subseteq B
      <4>1. ASSUME NEW i \in Left, i < k PROVE i < j
        <5>1. i \in Nat /\ k \in Nat /\ j \in Nat
          BY <1>1, <2>1
        <5> QED
          BY <2>4, <4>1, <5>1
      <4> QED
        BY <4>1
    <3> HIDE DEF A, B
    <3>2. Cardinality(A) <= Cardinality(B) /\ Cardinality(A) \in Nat /\ Cardinality(B) \in Nat
      BY <2>3, <3>1, FS_Subset, FS_CardinalityType
    <3> QED
      BY <2>1, <3>2, FilterAssumption
  <2> QED
    BY <1>1, <2>1, <2>2, <2>4
<1> QED
  BY <1>2, <1>3 DEF NextKeys

LEMMA EnableKeeps == ASSUME FilterInv, Enable \/ Pause PROVE FilterInv'
<1>1. /\ TablesFree /\ ready' = FALSE /\ UNCHANGED <<mentioned, complete, placed, writer>>
      /\ \/ maintained' = TRUE /\ prepare' = [prepare EXCEPT !.at = "high"]
         \/ maintained' = FALSE /\ prepare' = prepare /\ prepare.at = "none"
  BY DEF Enable, Pause, Settled, Steps, Preparing
<1>2. Filling'
  BY <1>1 DEF FilterInv, Filling
<1> QED
  BY <1>1, <1>2, PreparationKeeps DEF FilterInv, TablesTyped

LEMMA HighKeeps == ASSUME FilterInv, FindHigh PROVE FilterInv'
<1> DEFINE S == placed \cup {0}
<1>1. /\ prepare.at = "high" /\ prepare' = [NoPrepare EXCEPT !.at = "keys", !.high = Max(S)]
      /\ UNCHANGED <<mentioned, complete, placed, writer, filtered, ready, maintained>>
  BY DEF FindHigh, Preparing, Steps
<1>2. S \subseteq Nat /\ IsFiniteSet(S) /\ S # {}
  <2>1. IsFiniteSet(placed) /\ placed \subseteq Nat
    BY FilterAssumption, FS_Subset DEF FilterInv, TablesTyped
  <2> QED
    BY <2>1, FS_AddElement
<1> HIDE DEF S
<1>3. Max(S) \in Nat /\ \A k \in S : k <= Max(S)
  BY <1>2, GreatestKey
<1>4. prepare' = [at |-> "keys", after |-> 0, high |-> Max(S), keys |-> {}]
  BY <1>1 DEF NoPrepare
<1>5. \A k \in Missing : 0 < k /\ k <= Max(S)
  BY <1>3, FilterAssumption DEF FilterInv, TablesTyped, Missing, S
<1>6. /\ prepare'.at = "keys" /\ prepare'.after = 0 /\ prepare'.high = Max(S)
      /\ prepare' \in [at : {"none", "high", "keys", "fill", "publish"}, after : Nat, high : Nat,
                       keys : SUBSET Nat]
  BY <1>3, <1>4
<1>7. maintained /\ ~ready /\ Missing' = Missing
  BY <1>1 DEF FilterInv, Filling, Missing
<1>8. Filling'
  BY <1>1, <1>5, <1>6, <1>7 DEF Filling
<1> QED
  BY <1>1, <1>8, PreparationKeeps DEF FilterInv, TablesTyped

LEMMA KeysKeep == ASSUME FilterInv, FindKeys PROVE FilterInv'
<1>1. /\ prepare.at = "keys"
      /\ prepare' = [prepare EXCEPT !.keys = NextKeys, !.at = IF NextKeys = {} THEN "publish" ELSE "fill"]
      /\ UNCHANGED <<mentioned, complete, placed, writer, filtered, ready, maintained>>
  BY DEF FindKeys, Preparing, Steps
<1>2. /\ maintained /\ ~ready /\ \A k \in Missing : prepare.after < k /\ k <= prepare.high
      /\ prepare.after \in Nat /\ prepare.high \in Nat
  BY <1>1 DEF FilterInv, Filling
<1>3. Missing \subseteq Left /\ Left \subseteq Nat
  BY <1>2, FilterAssumption DEF FilterInv, TablesTyped, Missing, Left
<1>4. \A k \in Left : k <= prepare.high
  BY DEF Left
<1>5. /\ prepare'.at = IF NextKeys = {} THEN "publish" ELSE "fill"
      /\ prepare'.keys = NextKeys /\ prepare'.after = prepare.after /\ prepare'.high = prepare.high
      /\ prepare' \in [at : {"none", "high", "keys", "fill", "publish"}, after : Nat, high : Nat,
                       keys : SUBSET Nat]
  BY <1>1, <1>3, NextAreLowest DEF FilterInv, Filling
<1>6. Missing' = Missing
  BY <1>1 DEF Missing
<1>7. Filling'
  BY <1>1, <1>2, <1>3, <1>4, <1>5, <1>6, NextAreLowest DEF Filling
<1> QED
  BY <1>1, <1>7, PreparationKeeps DEF FilterInv, TablesTyped

LEMMA FillKeeps == ASSUME FilterInv, Fill PROVE FilterInv'
<1> DEFINE K == prepare.keys
<1>1. /\ prepare.at = "fill"
      /\ prepare' = [prepare EXCEPT !.after = Max(K), !.keys = {}, !.at = "keys"]
      /\ filtered' = (filtered \ K) \cup (K \cap placed \cap complete)
      /\ UNCHANGED <<mentioned, complete, placed, writer, ready, maintained>>
  BY DEF Fill, Preparing, Steps
<1>2. /\ maintained /\ ~ready /\ K # {} /\ K \subseteq Nat /\ prepare.high \in Nat
      /\ \A k \in K : k <= prepare.high
      /\ \A k \in Missing : k <= prepare.high /\ (k \in K \/ \A j \in K : j < k)
  BY <1>1 DEF FilterInv, Filling
<1>3. Max(K) \in K
  <2>1. K \subseteq 0 .. prepare.high
    BY <1>2
  <2>3. IsFiniteSet(0 .. prepare.high)
    BY <1>2, FS_Interval
  <2>2. IsFiniteSet(K)
    BY <2>1, <2>3, FS_Subset
  <2> QED
    BY <1>2, <2>2, GreatestKey
<1>4. Missing' \subseteq Missing \ K
  BY <1>1 DEF Missing
<1>5. /\ prepare'.at = "keys" /\ prepare'.after = Max(K) /\ prepare'.high = prepare.high
      /\ prepare' \in [at : {"none", "high", "keys", "fill", "publish"}, after : Nat, high : Nat,
                       keys : SUBSET Nat]
  BY <1>1, <1>2, <1>3 DEF FilterInv, Filling
<1> HIDE DEF K
<1>6. \A k \in Missing' : Max(K) < k /\ k <= prepare.high
  BY <1>2, <1>3, <1>4
<1>7. Filling'
  BY <1>1, <1>2, <1>5, <1>6 DEF Filling
<1> QED
  BY <1>1, <1>7, PreparationKeeps DEF FilterInv, TablesTyped

LEMMA PublishKeeps == ASSUME FilterInv, PublishReady \/ PrepareFails PROVE FilterInv'
<1>1. /\ UNCHANGED <<mentioned, complete, placed, writer, filtered, maintained>>
      /\ prepare' = NoPrepare
      /\ \/ ready' = TRUE /\ maintained /\ prepare.at = "publish"
         \/ ready' = ready
  BY DEF PublishReady, PrepareFails, Preparing, Steps, tables
<1>2. Filling'
  BY <1>1 DEF FilterInv, Filling, NoPrepare, Missing
<1> QED
  BY <1>1, <1>2, PreparationKeeps DEF FilterInv, TablesTyped

LEMMA FilterStep == ASSUME FilterInv, ~Replay, [FilterNext]_filters PROVE FilterInv'
<1>1. CASE UNCHANGED filters
  <2>1. Filling'
    BY <1>1 DEF filters, FilterInv, Filling, Missing
  <2> QED
    BY <1>1, <2>1, PreparationKeeps DEF filters, FilterInv, TablesTyped
<1>2. ASSUME NEW c \in Connection, NEW k \in Key, NEW todo \in Work(k), StartWrite(c, k, todo)
      PROVE  FilterInv'
  BY <1>2, StartKeepsFilters
<1>3. ASSUME NEW c \in Connection,
             \/ LockId(c) \/ Fingerprint(c) \/ Insert(c) \/ WriteMetadata(c) \/ CompleteRow(c)
             \/ Commit(c) \/ Abort(c)
      PROVE  FilterInv'
  BY <1>3, LockKeepsFilters, FingerprintKeeps, InsertKeeps, MetadataKeeps, CompleteKeeps, CommitKeeps,
     AbortKeepsFilters
<1>4. ASSUME NEW k \in Key, Rewind(k) PROVE FilterInv'
  BY <1>4, RewindKeepsFilters
<1>5. CASE Enable \/ FindHigh \/ FindKeys \/ Fill \/ PublishReady \/ PrepareFails \/ Pause
  BY <1>5, EnableKeeps, HighKeeps, KeysKeep, FillKeeps, PublishKeeps
<1> QED
  BY <1>1, <1>2, <1>3, <1>4, <1>5 DEF FilterNext

\* While reorgs bring no described block back, requests that may use the
\* fingerprints find every placement with metadata.
THEOREM FingerprintsAlwaysKept == ~Replay => (FilterSpec => []FingerprintsKept)
<1> SUFFICES ASSUME ~Replay PROVE FilterSpec => []FingerprintsKept
  OBVIOUS
<1>1. FilterInv /\ [FilterNext]_filters => FilterInv'
  BY FilterStep
<1>2. FilterInv => FingerprintsKept
  BY DEF FilterInv, Filling, FingerprintsKept, Usable, Missing
<1> QED
  BY <1>1, <1>2, FilterStart, PTL DEF FilterSpec

-----------------------------------------------------------------------------
(* Rows in order, and the lowest of them.                                  *)

Ranked(q, S) ==
    /\ IsFiniteSet(S)
    /\ \A a \in S : ~Ordered(q, a.row, a.row)
    /\ \A a, b, c \in S : Ordered(q, a.row, b.row) /\ Ordered(q, b.row, c.row) => Ordered(q, a.row, c.row)
    /\ \A a, b \in S : a.row = b.row \/ Ordered(q, a.row, b.row) \/ Ordered(q, b.row, a.row)

LEMMA RankedWithin == ASSUME NEW q, NEW S, Ranked(q, S), NEW T, T \subseteq S PROVE Ranked(q, T)
<1>1. IsFiniteSet(T)
  BY FS_Subset DEF Ranked
<1> QED
  BY <1>1 DEF Ranked

LEMMA PrecedingCounted ==
    ASSUME NEW q, NEW S, IsFiniteSet(S), NEW e
    PROVE  IsFiniteSet(Preceding(q, S, e)) /\ Cardinality(Preceding(q, S, e)) \in Nat
<1>1. Preceding(q, S, e) \subseteq S
  BY DEF Preceding
<1>2. IsFiniteSet(Preceding(q, S, e))
  BY <1>1, FS_Subset
<1> QED
  BY <1>2, FS_CardinalityType

\* Among more rows, more come before one.
LEMMA PrecedingWithin ==
    ASSUME NEW q, NEW S, IsFiniteSet(S), NEW T, T \subseteq S, NEW e
    PROVE  Cardinality(Preceding(q, T, e)) <= Cardinality(Preceding(q, S, e))
<1>1. Preceding(q, T, e) \subseteq Preceding(q, S, e)
  BY DEF Preceding
<1> QED
  BY <1>1, PrecedingCounted, FS_Subset

\* More rows come before a later one.
LEMMA PrecedingGrows ==
    ASSUME NEW q, NEW S, Ranked(q, S), NEW e \in S, NEW f \in S, Ordered(q, e.row, f.row)
    PROVE  Cardinality(Preceding(q, S, e)) < Cardinality(Preceding(q, S, f))
<1>1. Preceding(q, S, e) \subseteq Preceding(q, S, f)
  BY DEF Preceding, Ranked
<1>2. e \in Preceding(q, S, f) /\ e \notin Preceding(q, S, e)
  BY DEF Preceding, Ranked
<1>3. IsFiniteSet(S)
  BY DEF Ranked
<1>4. Preceding(q, S, e) # Preceding(q, S, f)
  BY <1>2
<1>5. /\ Cardinality(Preceding(q, S, e)) <= Cardinality(Preceding(q, S, f))
      /\ Cardinality(Preceding(q, S, e)) # Cardinality(Preceding(q, S, f))
  <2>1. IsFiniteSet(Preceding(q, S, f))
    BY <1>3, PrecedingCounted
  <2> QED
    BY <1>1, <1>4, <2>1, FS_Subset
<1> QED
  BY <1>3, <1>5, PrecedingCounted

LEMMA FirstExists ==
    ASSUME NEW q, NEW S, Ranked(q, S), NEW T, T \subseteq S, T # {}
    PROVE  \E e \in T : \A f \in T : ~Ordered(q, f.row, e.row)
<1> DEFINE N == {Cardinality(Preceding(q, S, e)) : e \in T}
<1>1. N \subseteq Nat /\ N # {}
  BY PrecedingCounted DEF Ranked
<1>2. PICK n \in N : \A m \in N : n <= m
  BY <1>1, LeastNatural
<1>3. PICK e \in T : n = Cardinality(Preceding(q, S, e))
  BY <1>2
<1>4. ASSUME NEW f \in T, Ordered(q, f.row, e.row) PROVE FALSE
  <2>1. Cardinality(Preceding(q, S, f)) < n
    BY <1>3, <1>4, PrecedingGrows
  <2>2. n <= Cardinality(Preceding(q, S, f))
    BY <1>2, <1>4
  <2>3. n \in Nat /\ Cardinality(Preceding(q, S, f)) \in Nat
    BY <1>1, <1>2, <1>4
  <2> QED
    BY <2>1, <2>2, <2>3
<1> QED
  BY <1>4

LEMMA LastExists ==
    ASSUME NEW q, NEW S, Ranked(q, S), S # {}
    PROVE  \E e \in S : \A f \in S : ~Ordered(q, e.row, f.row)
<1> DEFINE count == [e \in S |-> Cardinality(Preceding(q, S, e))]
           N == {count[e] : e \in S}
<1>1. N \subseteq Nat /\ N # {}
  BY PrecedingCounted DEF Ranked
<1>2. IsFiniteSet(N)
  <2>1. count \in Surjection(S, N)
    BY DEF Surjection
  <2> QED
    BY <2>1, FS_Surjection DEF Ranked
<1>3. PICK n \in N : \A m \in N : m <= n
  BY <1>1, <1>2, GreatestNatural
<1>4. PICK e \in S : n = count[e]
  BY <1>3
<1>5. ASSUME NEW f \in S, Ordered(q, e.row, f.row) PROVE FALSE
  <2>1. count[e] < count[f]
    BY <1>5, PrecedingGrows
  <2>2. count[f] <= count[e]
    BY <1>3, <1>4, <1>5
  <2>3. count[e] \in Nat /\ count[f] \in Nat
    BY <1>1, <1>5
  <2> QED
    BY <2>1, <2>2, <2>3
<1> QED
  BY <1>5

\* The cursor is the row of an edge, and no other edge is after it.
LEMMA LastTells ==
    ASSUME NEW q, NEW S, Ranked(q, S), S # {}
    PROVE  \E e \in S : LastRow(q, S) = e.row /\ \A f \in S : f.row = e.row \/ Ordered(q, f.row, e.row)
<1> DEFINE e == CHOOSE e \in S : \A f \in S : ~Ordered(q, e.row, f.row)
<1>1. e \in S /\ \A f \in S : ~Ordered(q, e.row, f.row)
  BY LastExists
<1>2. LastRow(q, S) = e.row
  BY DEF LastRow
<1> HIDE DEF e
<1>3. \A f \in S : f.row = e.row \/ Ordered(q, f.row, e.row)
  BY <1>1 DEF Ranked
<1> QED
  BY <1>1, <1>2, <1>3

\* What comes before one of the lowest is among them.
LEMMA LowestDown ==
    ASSUME NEW q, NEW S, Ranked(q, S), NEW n \in Nat,
           NEW e \in Lowest(n, q, S), NEW f \in S, Ordered(q, f.row, e.row)
    PROVE  f \in Lowest(n, q, S)
<1>1. e \in S /\ Cardinality(Preceding(q, S, e)) < n
  BY DEF Lowest
<1>2. Cardinality(Preceding(q, S, f)) < Cardinality(Preceding(q, S, e))
  BY <1>1, PrecedingGrows
<1>3. Cardinality(Preceding(q, S, f)) \in Nat /\ Cardinality(Preceding(q, S, e)) \in Nat
  BY PrecedingCounted DEF Ranked
<1> QED
  BY <1>1, <1>2, <1>3 DEF Lowest

\* The first rows of a limited query are those of the whole.
LEMMA LowestTwice ==
    ASSUME NEW q, NEW S, Ranked(q, S), NEW n \in Nat
    PROVE  Lowest(n, q, Lowest(n + 1, q, S)) = Lowest(n, q, S)
<1> DEFINE L == Lowest(n + 1, q, S)
<1>1. ASSUME NEW e \in L PROVE Preceding(q, L, e) = Preceding(q, S, e)
  <2>1. L \subseteq S
    BY DEF Lowest
  <2>2. \A f \in S : Ordered(q, f.row, e.row) => f \in L
    BY LowestDown
  <2> QED
    BY <2>1, <2>2 DEF Preceding
<1>2. \A e \in S : Cardinality(Preceding(q, S, e)) < n => e \in L
  <2>1. \A e \in S : Cardinality(Preceding(q, S, e)) \in Nat
    BY PrecedingCounted DEF Ranked
  <2> QED
    BY <2>1 DEF Lowest
<1>3. L \subseteq S
  BY DEF Lowest
<1> HIDE DEF L
<1>4. Lowest(n, q, L) = {e \in L : Cardinality(Preceding(q, L, e)) < n}
  BY DEF Lowest
<1>5. Lowest(n, q, S) = {e \in S : Cardinality(Preceding(q, S, e)) < n}
  BY DEF Lowest
<1>6. Lowest(n, q, L) = Lowest(n, q, S)
  BY <1>1, <1>2, <1>3, <1>4, <1>5
<1> QED
  BY <1>6 DEF L

\* A page is empty only if there is nothing to show, and the rest is after it.
LEMMA LowestFirst ==
    ASSUME NEW q, NEW S, Ranked(q, S), NEW n \in Nat \ {0}, NEW s \in S, s \notin Lowest(n, q, S)
    PROVE  Lowest(n, q, S) # {} /\ \A e \in Lowest(n, q, S) : Ordered(q, e.row, s.row)
<1>1. Lowest(n, q, S) # {}
  <2>1. PICK e \in S : \A f \in S : ~Ordered(q, f.row, e.row)
    BY FirstExists
  <2>2. Preceding(q, S, e) = {}
    BY <2>1 DEF Preceding
  <2>3. Cardinality(Preceding(q, S, e)) < n
    BY <2>2, FS_EmptySet
  <2> QED
    BY <2>3 DEF Lowest
<1>2. ASSUME NEW e \in Lowest(n, q, S) PROVE Ordered(q, e.row, s.row)
  <2>1. e \in S /\ Cardinality(Preceding(q, S, e)) < n /\ ~(Cardinality(Preceding(q, S, s)) < n)
    BY DEF Lowest
  <2>2. ~Ordered(q, s.row, e.row)
    BY LowestDown, n \in Nat
  <2>3. e.row # s.row
    <3>1. e.row = s.row => Preceding(q, S, e) = Preceding(q, S, s)
      BY DEF Preceding
    <3> QED
      BY <2>1, <3>1
  <2> QED
    BY <2>1, <2>2, <2>3 DEF Ranked
<1> QED
  BY <1>1, <1>2

\* If there is not a row more than a page shows, the page shows them all.
LEMMA LowestAll ==
    ASSUME NEW q, NEW S, Ranked(q, S), NEW n \in Nat, ~(Cardinality(Lowest(n + 1, q, S)) > n)
    PROVE  Lowest(n, q, S) = S
<1> DEFINE Rest == S \ Lowest(n, q, S)
           L == Lowest(n + 1, q, S)
<1> SUFFICES ASSUME Rest # {} PROVE FALSE
  BY DEF Lowest
<1>1. PICK e \in Rest : \A f \in Rest : ~Ordered(q, f.row, e.row)
  BY FirstExists
<1> DEFINE P == Preceding(q, S, e)
<1>2. P \subseteq Lowest(n, q, S) /\ e \notin P
  BY <1>1 DEF Preceding, Ranked
<1>3. \A f \in S : Cardinality(Preceding(q, S, f)) \in Nat
  BY PrecedingCounted DEF Ranked
<1>4. e \in S /\ ~(Cardinality(P) < n)
  BY <1>1 DEF Lowest
<1>5. Lowest(n, q, S) \subseteq L
  BY <1>3 DEF Lowest
<1>6. IsFiniteSet(L) /\ IsFiniteSet(P)
  <2>1. L \subseteq S /\ P \subseteq S
    BY DEF Lowest, Preceding
  <2> QED
    BY <2>1, FS_Subset DEF Ranked
<1>7. Cardinality(L) \in Nat /\ Cardinality(P) \in Nat
  BY <1>6, FS_CardinalityType
<1>8. Cardinality(P) <= Cardinality(L)
  BY <1>2, <1>5, <1>6, FS_Subset
<1>9. Cardinality(P) = n
  BY <1>4, <1>7, <1>8
<1>10. e \in L
  BY <1>4, <1>9 DEF Lowest
<1>11. P \cup {e} \subseteq L
  BY <1>2, <1>5, <1>10
<1>12. Cardinality(P \cup {e}) = n + 1
  BY <1>2, <1>6, <1>9, FS_AddElement
<1>13. Cardinality(P \cup {e}) <= Cardinality(L)
  BY <1>6, <1>11, FS_Subset
<1> QED
  BY <1>7, <1>12, <1>13

\* What is limited branch by branch contains what the whole is limited to.
LEMMA LowestMerged ==
    ASSUME NEW q, NEW parts, Ranked(q, UNION parts), NEW n \in Nat
    PROVE  Lowest(n, q, UNION {Lowest(n, q, P) : P \in parts}) = Lowest(n, q, UNION parts)
<1> DEFINE S == UNION parts
           T == UNION {Lowest(n, q, P) : P \in parts}
<1>1. T \subseteq S
  BY DEF Lowest
<1>2. IsFiniteSet(S)
  BY DEF Ranked
<1>3. \A e : \A P \in parts \cup {S, T} : Cardinality(Preceding(q, P, e)) \in Nat
  <2>1. \A P \in parts \cup {S, T} : P \subseteq S
    BY <1>1
  <2>2. \A P \in parts \cup {S, T} : IsFiniteSet(P)
    BY <1>2, <2>1, FS_Subset
  <2> QED
    BY <2>2, PrecedingCounted
<1>4. ASSUME NEW e \in Lowest(n, q, S) PROVE e \in Lowest(n, q, T)
  <2>1. e \in S /\ Cardinality(Preceding(q, S, e)) < n
    BY <1>4 DEF Lowest
  <2>2. PICK P \in parts : e \in P
    BY <2>1
  <2>3. Cardinality(Preceding(q, P, e)) <= Cardinality(Preceding(q, S, e))
    BY <1>2, PrecedingWithin
  <2>4. e \in Lowest(n, q, P)
    BY <1>3, <2>1, <2>2, <2>3 DEF Lowest
  <2>5. Cardinality(Preceding(q, T, e)) <= Cardinality(Preceding(q, S, e))
    BY <1>1, <1>2, PrecedingWithin
  <2>6. e \in T
    BY <2>4
  <2> QED
    BY <1>3, <2>1, <2>5, <2>6 DEF Lowest
<1>5. ASSUME NEW e \in Lowest(n, q, T), e \notin Lowest(n, q, S) PROVE FALSE
  <2>1. e \in T /\ e \in S /\ Cardinality(Preceding(q, T, e)) < n /\ ~(Cardinality(Preceding(q, S, e)) < n)
    BY <1>1, <1>5 DEF Lowest
  <2> DEFINE Absentees == Preceding(q, S, e) \ T
  <2>2. Absentees # {}
    <3>1. Absentees = {} => Preceding(q, S, e) = Preceding(q, T, e)
      BY <1>1 DEF Preceding
    <3> QED
      BY <2>1, <3>1
  <2>3. Absentees \subseteq S
    BY DEF Preceding
  <2>4. PICK f \in Absentees : \A g \in Absentees : ~Ordered(q, g.row, f.row)
    <3> HIDE DEF Absentees, S
    <3>1. Ranked(q, S)
      BY DEF S
    <3> QED
      BY <2>2, <2>3, <3>1, FirstExists
  <2>5. PICK P \in parts : f \in P
    BY <2>3, <2>4
  <2>6. ~(Cardinality(Preceding(q, P, f)) < n)
    BY <2>4, <2>5 DEF Lowest
  <2>7. Preceding(q, P, f) \subseteq Preceding(q, T, e)
    <3>1. ASSUME NEW g \in P, Ordered(q, g.row, f.row) PROVE g \in T /\ Ordered(q, g.row, e.row)
      <4>1. g \in S /\ f \in S /\ Ordered(q, f.row, e.row)
        BY <2>3, <2>4, <2>5, <3>1 DEF Preceding
      <4>2. Ordered(q, g.row, e.row)
        BY <2>1, <3>1, <4>1 DEF Ranked
      <4>3. g \in T
        BY <2>4, <3>1, <4>1, <4>2 DEF Preceding
      <4> QED
        BY <4>2, <4>3
    <3> QED
      BY <3>1 DEF Preceding
  <2>8. Cardinality(Preceding(q, P, f)) <= Cardinality(Preceding(q, T, e))
    <3>1. IsFiniteSet(T)
      BY <1>1, <1>2, FS_Subset
    <3>2. IsFiniteSet(Preceding(q, T, e))
      BY <3>1, PrecedingCounted
    <3> QED
      BY <2>7, <3>2, FS_Subset
  <2>9. Cardinality(Preceding(q, P, f)) \in Nat /\ Cardinality(Preceding(q, T, e)) \in Nat
    BY <1>3, <2>5
  <2> QED
    BY <2>1, <2>6, <2>8, <2>9
<1> QED
  BY <1>4, <1>5

\* A row is counted once, whatever branch it comes from.
Distinct(S) == \A e, f \in S : e.row = f.row => e = f
RowsIn(S) == {e.row : e \in S}

LEMMA FewerPrecede ==
    ASSUME NEW q, NEW S, NEW T, IsFiniteSet(T), Distinct(S), RowsIn(S) \subseteq RowsIn(T),
           NEW e, NEW f, e.row = f.row
    PROVE  Cardinality(Preceding(q, S, e)) <= Cardinality(Preceding(q, T, f))
<1> DEFINE A == Preceding(q, S, e)
           B == Preceding(q, T, f)
           same == [x \in A |-> CHOOSE y \in T : y.row = x.row]
<1>1. \A x \in A : same[x] \in T /\ same[x].row = x.row
  <2>1. \A x \in A : x.row \in RowsIn(T)
    BY DEF Preceding, RowsIn
  <2>2. \A x \in A : \E y \in T : y.row = x.row
    BY <2>1 DEF RowsIn
  <2> QED
    BY <2>2
<1>2. same \in [A -> B]
  <2>1. \A x \in A : same[x] \in B
    BY <1>1 DEF Preceding
  <2> QED
    BY <2>1
<1>3. \A x, y \in A : same[x] = same[y] => x = y
  <2> HIDE DEF same
  <2>1. \A x \in A : x \in S
    BY DEF Preceding
  <2> QED
    BY <1>1, <2>1 DEF Distinct
<1>4. same \in Injection(A, B)
  <2> HIDE DEF same, A, B
  <2> QED
    BY <1>2, <1>3 DEF Injection, IsInjective
<1>5. IsFiniteSet(B)
  BY PrecedingCounted
<1> HIDE DEF same, A, B
<1>6. Cardinality(A) <= Cardinality(B)
  BY <1>4, <1>5, FS_Injection
<1> QED
  BY <1>6 DEF A, B

LEMMA SameRows ==
    ASSUME NEW q, NEW S, NEW T, IsFiniteSet(S), IsFiniteSet(T), Distinct(S), Distinct(T),
           RowsIn(S) = RowsIn(T), NEW n \in Nat
    PROVE  RowsIn(Lowest(n, q, S)) = RowsIn(Lowest(n, q, T))
<1>1. ASSUME NEW e \in S, NEW f \in T, e.row = f.row
      PROVE  Cardinality(Preceding(q, S, e)) = Cardinality(Preceding(q, T, f))
  <2>1. Cardinality(Preceding(q, S, e)) <= Cardinality(Preceding(q, T, f))
    BY <1>1, FewerPrecede
  <2>2. Cardinality(Preceding(q, T, f)) <= Cardinality(Preceding(q, S, e))
    BY <1>1, FewerPrecede
  <2> QED
    BY <2>1, <2>2, PrecedingCounted
<1>2. \A e \in S : \E f \in T : e.row = f.row
  BY DEF RowsIn
<1>3. \A f \in T : \E e \in S : e.row = f.row
  BY DEF RowsIn
<1> QED
  BY <1>1, <1>2, <1>3 DEF RowsIn, Lowest

-----------------------------------------------------------------------------
(* Tuples in their order.                                                  *)

RowSpace(q) == IF q.of = "blocks" THEN {<<h>> : h \in Nat} ELSE Nat \X Nat \X Nat \X Nat

LEMMA BeforeOne == ASSUME NEW a \in Nat, NEW b \in Nat PROVE Before(<<a>>, <<b>>) <=> a < b
<1> DEFINE x == <<a>>
           y == <<b>>
<1>1. DOMAIN x = {1} /\ x[1] = a /\ y[1] = b /\ 1 .. 1 - 1 = {}
  OBVIOUS
<1> HIDE DEF x, y
<1>2. Before(x, y) <=> a < b
  BY <1>1 DEF Before
<1> QED
  BY <1>2 DEF x, y

LEMMA BeforeFour ==
    ASSUME NEW a \in Nat \X Nat \X Nat \X Nat, NEW b \in Nat \X Nat \X Nat \X Nat
    PROVE  Before(a, b) <=> \/ a[1] < b[1]
                            \/ a[1] = b[1] /\ a[2] < b[2]
                            \/ a[1] = b[1] /\ a[2] = b[2] /\ a[3] < b[3]
                            \/ a[1] = b[1] /\ a[2] = b[2] /\ a[3] = b[3] /\ a[4] < b[4]
<1>1. DOMAIN a = 1 .. 4
  OBVIOUS
<1>2. Before(a, b) <=> \E i \in 1 .. 4 : a[i] < b[i] /\ \A j \in 1 .. i - 1 : a[j] = b[j]
  BY <1>1 DEF Before
<1>3. \A i \in 1 .. 4 : i = 1 \/ i = 2 \/ i = 3 \/ i = 4
  OBVIOUS
<1>4. /\ 1 .. 1 - 1 = {} /\ 1 .. 2 - 1 = {1} /\ 1 .. 3 - 1 = {1, 2} /\ 1 .. 4 - 1 = {1, 2, 3}
      /\ 1 \in 1 .. 4 /\ 2 \in 1 .. 4 /\ 3 \in 1 .. 4 /\ 4 \in 1 .. 4
  OBVIOUS
<1> QED
  BY <1>2, <1>3, <1>4

LEMMA BeforeOrders ==
    ASSUME NEW q, NEW a \in RowSpace(q), NEW b \in RowSpace(q), NEW c \in RowSpace(q)
    PROVE  /\ ~Before(a, a) /\ (Before(a, b) /\ Before(b, c) => Before(a, c))
           /\ a = b \/ Before(a, b) \/ Before(b, a)
<1>1. CASE q.of = "blocks"
  <2>1. PICK x \in Nat, y \in Nat, z \in Nat : a = <<x>> /\ b = <<y>> /\ c = <<z>>
    BY <1>1 DEF RowSpace
  <2> QED
    BY <2>1, BeforeOne
<1>2. CASE q.of # "blocks"
  <2>1. a \in Nat \X Nat \X Nat \X Nat /\ b \in Nat \X Nat \X Nat \X Nat /\ c \in Nat \X Nat \X Nat \X Nat
    BY <1>2 DEF RowSpace
  <2>2. \A i \in 1 .. 4 : a[i] \in Nat /\ b[i] \in Nat /\ c[i] \in Nat
    BY <2>1
  <2>3. a = <<a[1], a[2], a[3], a[4]>> /\ b = <<b[1], b[2], b[3], b[4]>>
    BY <2>1
  <2>4. ~Before(a, a)
    BY <2>1, <2>2, BeforeFour
  <2>5. Before(a, b) /\ Before(b, c) => Before(a, c)
    BY <2>1, <2>2, BeforeFour
  <2>6. a = b \/ Before(a, b) \/ Before(b, a)
    BY <2>1, <2>2, <2>3, BeforeFour
  <2> QED
    BY <2>4, <2>5, <2>6
<1> QED
  BY <1>1, <1>2

LEMMA RowsRanked ==
    ASSUME NEW q, NEW S, IsFiniteSet(S), RowsIn(S) \subseteq RowSpace(q)
    PROVE  Ranked(q, S)
<1>1. \A e \in S : e.row \in RowSpace(q)
  BY DEF RowsIn
<1>2. \A a \in S : ~Ordered(q, a.row, a.row)
  BY <1>1, BeforeOrders DEF Ordered
<1>3. \A a, b, c \in S : Ordered(q, a.row, b.row) /\ Ordered(q, b.row, c.row) => Ordered(q, a.row, c.row)
  BY <1>1, BeforeOrders DEF Ordered
<1>4. \A a, b \in S : a.row = b.row \/ Ordered(q, a.row, b.row) \/ Ordered(q, b.row, a.row)
  BY <1>1, BeforeOrders DEF Ordered
<1> QED
  BY <1>2, <1>3, <1>4 DEF Ranked

-----------------------------------------------------------------------------
(* A page is the first rows of what its query means.                       *)

StoredInv ==
    /\ known \subseteq Thing /\ stamped \subseteq HeightsOf
    /\ spot \in [Thing -> (UNION {Spots[k] : k \in Thing}) \cup {Nowhere}]
    /\ \A k \in Thing : spot[k] # Nowhere => spot[k] \in Spots[k] /\ spot[k].height \in stamped

LEMMA ImageFinite == ASSUME NEW S, IsFiniteSet(S), NEW f PROVE IsFiniteSet({f[x] : x \in S})
<1> DEFINE g == [x \in S |-> f[x]]
           T == {f[x] : x \in S}
<1>1. g \in Surjection(S, T)
  BY DEF Surjection
<1> QED
  BY <1>1, FS_Surjection

LEMMA HeightsFinite == ASSUME PagesAssumption PROVE IsFiniteSet(HeightsOf) /\ HeightsOf \subseteq Nat
<1> DEFINE All == UNION {Spots[k] : k \in Thing}
           height == [s \in All |-> s.height]
<1>1. IsFiniteSet({Spots[k] : k \in Thing})
  BY ImageFinite DEF PagesAssumption
<1>2. IsFiniteSet(All)
  BY <1>1, FS_UNION DEF PagesAssumption
<1>3. IsFiniteSet({height[s] : s \in All})
  <2> HIDE DEF All, height
  <2> QED
    BY <1>2, ImageFinite
<1>4. {height[s] : s \in All} = HeightsOf
  BY DEF HeightsOf
<1>5. HeightsOf \subseteq Nat
  BY DEF HeightsOf, PagesAssumption
<1> QED
  BY <1>3, <1>4, <1>5

LEMMA RowTyped ==
    ASSUME PagesAssumption, StoredInv, NEW k \in Thing, spot[k] # Nowhere
    PROVE  Row(k) \in Nat \X Nat \X Nat \X Nat /\ Row(k)[4] = k
<1>1. spot[k] \in Spots[k] /\ k \in Nat
  BY DEF StoredInv, PagesAssumption
<1>2. spot[k].height \in Nat /\ spot[k].position \in Nat /\ spot[k].kind \in Nat
  BY <1>1 DEF PagesAssumption
<1> QED
  BY <1>1, <1>2 DEF Row

LEMMA MeantTyped ==
    ASSUME PagesAssumption, StoredInv, NEW q
    PROVE  IsFiniteSet(Meant(q)) /\ Meant(q) \subseteq RowSpace(q)
<1>1. CASE q.of = "blocks"
  <2> DEFINE H == {g \in stamped : Heights(q, g)}
             tuple == [h \in H |-> <<h>>]
  <2>1. H \subseteq HeightsOf
    BY DEF StoredInv
  <2>2. IsFiniteSet(H) /\ H \subseteq Nat
    BY <2>1, HeightsFinite, FS_Subset
  <2>3. Meant(q) = {tuple[h] : h \in H} /\ Meant(q) = {<<h>> : h \in H}
    BY <1>1 DEF Meant
  <2>4. IsFiniteSet({tuple[h] : h \in H})
    <3>1. IsFiniteSet(H)
      BY <2>2
    <3> HIDE DEF H, tuple
    <3> QED
      BY <3>1, ImageFinite
  <2>5. {<<h>> : h \in H} \subseteq {<<h>> : h \in Nat}
    BY <2>2
  <2> QED
    BY <1>1, <2>3, <2>4, <2>5 DEF RowSpace
<1>2. CASE q.of # "blocks"
  <2> DEFINE K == {k \in Thing : Means(q, k)}
             rowOf == [k \in K |-> Row(k)]
  <2>1. IsFiniteSet(K)
    <3>1. K \subseteq Thing
      OBVIOUS
    <3> QED
      BY <3>1, FS_Subset DEF PagesAssumption
  <2>2. Meant(q) = {rowOf[k] : k \in K} /\ Meant(q) = {Row(k) : k \in K}
    BY <1>2 DEF Meant, RowsOf
  <2>3. IsFiniteSet({rowOf[k] : k \in K})
    <3> HIDE DEF K, rowOf
    <3> QED
      BY <2>1, ImageFinite
  <2>4. \A k \in K : Row(k) \in Nat \X Nat \X Nat \X Nat
    BY RowTyped DEF Means
  <2> QED
    BY <1>2, <2>2, <2>3, <2>4 DEF RowSpace
<1> QED
  BY <1>1, <1>2

LEMMA ToShowTyped ==
    ASSUME PagesAssumption, StoredInv, NEW q, NEW cursor
    PROVE  IsFiniteSet(ToShow(q, cursor)) /\ ToShow(q, cursor) \subseteq RowSpace(q)
<1>1. ToShow(q, cursor) \subseteq Meant(q)
  BY DEF ToShow
<1> QED
  BY <1>1, MeantTyped, FS_Subset

\* The conditions every shape shares are what the filters mean.
LEMMA BaseMeans ==
    ASSUME PagesAssumption, StoredInv, NEW q, NEW cursor
    PROVE  Base(q, cursor) = {k \in Thing : Means(q, k) /\ Beyond(q, cursor, Row(k))}
<1>1. ASSUME NEW k \in known
      PROVE  q.owners # {} => (Of[k].owner \in Resolved(q) <=> {Of[k].owner, PublicKey[Of[k].owner]} \cap q.owners # {})
  BY DEF Resolved
<1>2. ASSUME NEW k
      PROVE  Of[k].recipient \in ToSet(q.recipients) <=> \E i \in DOMAIN q.recipients : q.recipients[i] = Of[k].recipient
  BY DEF ToSet
<1>3. \A k \in known : k \in Thing /\ (spot[k] # Nowhere => spot[k].height \in stamped)
  BY DEF StoredInv
<1>4. ASSUME NEW k \in Base(q, cursor) PROVE k \in Thing /\ Means(q, k) /\ Beyond(q, cursor, Row(k))
  BY <1>1, <1>2, <1>3, <1>4 DEF Base, Means
<1>5. ASSUME NEW k \in Thing, Means(q, k), Beyond(q, cursor, Row(k)) PROVE k \in Base(q, cursor)
  BY <1>1, <1>2, <1>3, <1>5 DEF Base, Means
<1> QED
  BY <1>4, <1>5

LEMMA BaseRows ==
    ASSUME PagesAssumption, StoredInv, NEW q, q.of # "blocks", NEW cursor
    PROVE  RowsOf(Base(q, cursor)) = ToShow(q, cursor)
<1>1. Meant(q) = {Row(k) : k \in {j \in Thing : Means(q, j)}}
  BY DEF Meant, RowsOf
<1>2. RowsOf(Base(q, cursor)) = {Row(k) : k \in {j \in Thing : Means(q, j) /\ Beyond(q, cursor, Row(j))}}
  BY BaseMeans DEF RowsOf
<1> QED
  BY <1>1, <1>2 DEF ToShow

\* Rows that are found by one branch.
LEMMA FoundIs ==
    ASSUME NEW branch, NEW wanted, IsFiniteSet(wanted)
    PROVE  /\ IsFiniteSet(Found(branch, wanted)) /\ Distinct(Found(branch, wanted))
           /\ RowsIn(Found(branch, wanted)) = wanted
<1> DEFINE found == [r \in wanted |-> [branch |-> branch, row |-> r]]
<1>1. IsFiniteSet({found[r] : r \in wanted})
  BY ImageFinite
<1>2. Found(branch, wanted) = {found[r] : r \in wanted}
  BY DEF Found
<1>3. Distinct(Found(branch, wanted))
  BY DEF Found, Distinct
<1>4. RowsIn(Found(branch, wanted)) = wanted
  <2>1. \A e \in Found(branch, wanted) : e.row \in wanted
    BY DEF Found
  <2>2. ASSUME NEW r \in wanted PROVE \E e \in Found(branch, wanted) : e.row = r
    <3>1. [branch |-> branch, row |-> r] \in Found(branch, wanted)
      BY DEF Found
    <3> QED
      BY <3>1
  <2> QED
    BY <2>1, <2>2 DEF RowsIn
<1> QED
  BY <1>1, <1>2, <1>3, <1>4

\* What a page is cut from: every row once, in one or several branches.
Covers(S, wanted) == IsFiniteSet(S) /\ Distinct(S) /\ RowsIn(S) = wanted

LEMMA EmptyCovers == Covers({}, {})
BY FS_EmptySet DEF Covers, Distinct, RowsIn

LEMMA LimitedEmpty == ASSUME NEW q PROVE Limited(q, {}) = {}
BY DEF Limited, Lowest

LEMMA CoversFinite ==
    ASSUME NEW S, Distinct(S), NEW wanted, IsFiniteSet(wanted), RowsIn(S) = wanted
    PROVE  Covers(S, wanted)
<1> DEFINE rowOf == [e \in S |-> e.row]
<1>1. \A e \in S : e.row \in wanted
  BY DEF RowsIn
<1>2. rowOf \in [S -> wanted]
  BY <1>1
<1>3. \A e, f \in S : rowOf[e] = rowOf[f] => e = f
  BY DEF Distinct
<1>4. rowOf \in Injection(S, wanted)
  <2> HIDE DEF rowOf
  <2> QED
    BY <1>2, <1>3 DEF Injection, IsInjective
<1>5. IsFiniteSet(S)
  BY <1>4, FS_Injection
<1> QED
  BY <1>5 DEF Covers

\* Branches by owner: each row is in that of its owner alone.
OwnerParts(q, K) == {Found(o, RowsOf({k \in K : Of[k].owner = o})) : o \in Resolved(q)}

LEMMA OwnersCover ==
    ASSUME PagesAssumption, StoredInv, NEW q, NEW K, K \subseteq Thing, IsFiniteSet(RowsOf(K)),
           \A k \in K : spot[k] # Nowhere /\ Of[k].owner \in Resolved(q)
    PROVE  Covers(UNION OwnerParts(q, K), RowsOf(K))
<1> DEFINE S == UNION OwnerParts(q, K)
<1>1. ASSUME NEW e \in S
      PROVE  \E k \in K : e = [branch |-> Of[k].owner, row |-> Row(k)]
  <2>1. PICK o \in Resolved(q) : e \in Found(o, RowsOf({k \in K : Of[k].owner = o}))
    BY <1>1 DEF OwnerParts
  <2> QED
    BY <2>1 DEF Found, RowsOf
<1>2. ASSUME NEW k \in K
      PROVE  [branch |-> Of[k].owner, row |-> Row(k)] \in S
  <2>1. Row(k) \in RowsOf({j \in K : Of[j].owner = Of[k].owner})
    BY DEF RowsOf
  <2>2. [branch |-> Of[k].owner, row |-> Row(k)] \in Found(Of[k].owner, RowsOf({j \in K : Of[j].owner = Of[k].owner}))
    BY <2>1 DEF Found
  <2> QED
    BY <2>2 DEF OwnerParts
<1> HIDE DEF S
<1>3. Distinct(S)
  <2> SUFFICES ASSUME NEW e \in S, NEW f \in S, e.row = f.row PROVE e = f
    BY DEF Distinct
  <2>1. PICK k \in K : e = [branch |-> Of[k].owner, row |-> Row(k)]
    BY <1>1
  <2>2. PICK j \in K : f = [branch |-> Of[j].owner, row |-> Row(j)]
    BY <1>1
  <2>3. Row(k) = Row(j)
    BY <2>1, <2>2
  <2>4. k = j
    BY <2>3, RowTyped
  <2> QED
    BY <2>1, <2>2, <2>4
<1>4. RowsIn(S) = RowsOf(K)
  <2>1. \A e \in S : e.row \in RowsOf(K)
    BY <1>1 DEF RowsOf
  <2>2. ASSUME NEW k \in K PROVE Row(k) \in RowsIn(S)
    <3>1. PICK e \in S : e.row = Row(k)
      BY <1>2
    <3> QED
      BY <3>1 DEF RowsIn
  <2> QED
    BY <2>1, <2>2 DEF RowsIn, RowsOf
<1>5. Covers(S, RowsOf(K))
  BY <1>3, <1>4, CoversFinite
<1> QED
  BY <1>5 DEF S

\* Branches by recipient: the first position of each.
RecipientParts(q, K) ==
    {Found(i, RowsOf({k \in K : Of[k].recipient = q.recipients[i]})) : i \in Deduped(q.recipients)}

LEMMA DedupedOnce ==
    ASSUME NEW s, NEW V, s \in Seq(V), NEW i \in DOMAIN s
    PROVE  \E j \in Deduped(s) : s[j] = s[i] /\ \A l \in Deduped(s) : s[l] = s[i] => l = j
<1> DEFINE P == {j \in DOMAIN s : s[j] = s[i]}
<1>1. PICK n \in Nat : DOMAIN s = 1 .. n
  <2>1. Len(s) \in Nat /\ DOMAIN s = 1 .. Len(s)
    OBVIOUS
  <2> QED
    BY <2>1
<1>2. P \subseteq Nat /\ P # {}
  BY <1>1
<1>3. PICK j \in P : \A l \in P : j <= l
  BY <1>2, LeastNatural
<1>4. \A l \in 1 .. j - 1 : s[l] # s[j]
  <2> SUFFICES ASSUME NEW l \in 1 .. j - 1, s[l] = s[j] PROVE FALSE
    OBVIOUS
  <2>1. j \in 1 .. n /\ l \in Nat /\ l < j /\ l >= 1
    BY <1>1, <1>3
  <2>2. l \in P
    BY <1>1, <1>3, <2>1
  <2> QED
    BY <1>3, <2>1, <2>2
<1>5. j \in Deduped(s)
  BY <1>3, <1>4 DEF Deduped
<1>6. ASSUME NEW l \in Deduped(s), s[l] = s[i] PROVE l = j
  <2>1. l \in P /\ \A m \in 1 .. l - 1 : s[m] # s[l]
    BY <1>6 DEF Deduped
  <2>2. j <= l /\ j \in 1 .. n /\ l \in 1 .. n
    BY <1>1, <1>3, <2>1
  <2>3. s[j] = s[l]
    BY <1>3, <1>6
  <2>4. ~(j \in 1 .. l - 1)
    BY <2>1, <2>3
  <2> QED
    BY <2>2, <2>4
<1> QED
  BY <1>3, <1>5, <1>6

LEMMA RecipientsCover ==
    ASSUME PagesAssumption, StoredInv, NEW q, q.recipients \in Seq(ToSet(q.recipients)),
           NEW K, K \subseteq Thing, IsFiniteSet(RowsOf(K)),
           \A k \in K : spot[k] # Nowhere /\ \E i \in DOMAIN q.recipients : q.recipients[i] = Of[k].recipient
    PROVE  Covers(UNION RecipientParts(q, K), RowsOf(K))
<1> DEFINE S == UNION RecipientParts(q, K)
<1>0. ASSUME NEW k \in K
      PROVE  \E i \in Deduped(q.recipients) :
                /\ q.recipients[i] = Of[k].recipient
                /\ \A l \in Deduped(q.recipients) : q.recipients[l] = Of[k].recipient => l = i
  BY DedupedOnce
<1>1. ASSUME NEW e \in S
      PROVE  \E k \in K, i \in Deduped(q.recipients) :
                e = [branch |-> i, row |-> Row(k)] /\ q.recipients[i] = Of[k].recipient
  <2>1. PICK i \in Deduped(q.recipients) : e \in Found(i, RowsOf({k \in K : Of[k].recipient = q.recipients[i]}))
    BY <1>1 DEF RecipientParts
  <2> QED
    BY <2>1 DEF Found, RowsOf
<1>2. ASSUME NEW k \in K
      PROVE  \E e \in S : e.row = Row(k)
  <2>1. PICK i \in Deduped(q.recipients) : q.recipients[i] = Of[k].recipient
    BY <1>0
  <2>2. Row(k) \in RowsOf({j \in K : Of[j].recipient = q.recipients[i]})
    BY <2>1 DEF RowsOf
  <2>3. [branch |-> i, row |-> Row(k)] \in Found(i, RowsOf({j \in K : Of[j].recipient = q.recipients[i]}))
    BY <2>2 DEF Found
  <2>4. [branch |-> i, row |-> Row(k)] \in S
    BY ZenonT(60), <2>3 DEF RecipientParts
  <2> QED
    BY <2>4
<1> HIDE DEF S
<1>3. Distinct(S)
  <2> SUFFICES ASSUME NEW e \in S, NEW f \in S, e.row = f.row PROVE e = f
    BY DEF Distinct
  <2>1. PICK k \in K, i \in Deduped(q.recipients) :
           e = [branch |-> i, row |-> Row(k)] /\ q.recipients[i] = Of[k].recipient
    BY <1>1
  <2>2. PICK j \in K, l \in Deduped(q.recipients) :
           f = [branch |-> l, row |-> Row(j)] /\ q.recipients[l] = Of[j].recipient
    BY <1>1
  <2>3. Row(k) = Row(j)
    BY <2>1, <2>2
  <2>4. k = j
    BY <2>3, RowTyped
  <2>5. i = l
    BY <1>0, <2>1, <2>2, <2>4
  <2> QED
    BY <2>1, <2>2, <2>4, <2>5
<1>4. RowsIn(S) = RowsOf(K)
  <2>1. \A e \in S : e.row \in RowsOf(K)
    BY <1>1 DEF RowsOf
  <2>2. ASSUME NEW k \in K PROVE Row(k) \in RowsIn(S)
    <3>1. PICK e \in S : e.row = Row(k)
      BY <1>2
    <3> QED
      BY <3>1 DEF RowsIn
  <2> QED
    BY <2>1, <2>2 DEF RowsIn, RowsOf
<1>5. Covers(S, RowsOf(K))
  BY <1>3, <1>4, CoversFinite
<1> QED
  BY <1>5 DEF S

\* Every shape of the query limits the rows that are still to be shown.
LEMMA PageCut ==
    ASSUME PagesAssumption, StoredInv, NEW q \in Listings, NEW cursor
    PROVE  \E S : Covers(S, ToShow(q, cursor)) /\ Rows(q, cursor) = Limited(q, S)
<1>0. IsFiniteSet(ToShow(q, cursor)) /\ ToShow(q, cursor) \subseteq RowSpace(q)
  BY ToShowTyped
<1>1. CASE q.of = "blocks"
  <2>1. ToShow(q, cursor) = {<<h>> : h \in {g \in stamped : Heights(q, g) /\ Beyond(q, cursor, <<g>>)}}
    BY <1>1 DEF ToShow, Meant
  <2>2. Rows(q, cursor) = Limited(q, Found(0, ToShow(q, cursor)))
    BY <1>1, <2>1 DEF Rows, BlockRows, Select
  <2> QED
    BY <1>0, <2>2, FoundIs DEF Covers
<1>2. CASE q.of # "blocks"
  <2> DEFINE K == Base(q, cursor)
             unresolved == q.owners # {} /\ Resolved(q) = {}
             unlisted == TagFirst(q) /\ \E i \in DOMAIN q.tags : NotInDictionary(q.tags[i])
             whole == Select(q, 0, RowsOf(K))
             merged == Merged(q, Branches(q, K))
  <2>1. RowsOf(K) = ToShow(q, cursor)
    BY <1>2, BaseRows
  <2>2. Rows(q, cursor) = IF unresolved \/ unlisted THEN {} ELSE IF Indexed(q) THEN merged ELSE whole
    BY <1>2 DEF Rows, TransactionRows
  <2>3. \A k \in K : /\ k \in Thing /\ k \in known /\ spot[k] # Nowhere
                     /\ q.owners # {} => Of[k].owner \in Resolved(q)
                     /\ q.recipients # << >> => Of[k].recipient \in ToSet(q.recipients)
                     /\ \A i \in DOMAIN q.tags : HasTag(k, q.tags[i])
    BY DEF Base, StoredInv
  <2> HIDE DEF K
  <2>4. CASE unresolved \/ unlisted
    <3>1. K = {}
      <4>1. ASSUME NEW k \in K, unresolved PROVE FALSE
        <5>1. Of[k].owner \in Resolved(q) /\ Resolved(q) = {}
          BY <2>3, <4>1
        <5> QED
          BY <5>1
      <4>2. ASSUME NEW k \in K, unlisted PROVE FALSE
        <5>1. PICK i \in DOMAIN q.tags : NotInDictionary(q.tags[i])
          BY <4>2
        <5>2. PICK v \in q.tags[i].values : <<q.tags[i].name, v>> \in Of[k].tags
          BY <2>3, <5>1 DEF HasTag
        <5>3. <<q.tags[i].name, v>> \in Dictionary
          BY <2>3, <5>2 DEF Dictionary
        <5> QED
          BY <5>1, <5>2, <5>3 DEF NotInDictionary
      <4> QED
        BY <2>4, <4>1, <4>2
    <3>2. Rows(q, cursor) = {}
      BY <2>2, <2>4
    <3>3. ToShow(q, cursor) = {}
      BY <2>1, <3>1 DEF RowsOf
    <3> QED
      BY <3>2, <3>3, EmptyCovers, LimitedEmpty
  <2>5. CASE ~(unresolved \/ unlisted) /\ ~Indexed(q)
    <3>1. Rows(q, cursor) = Limited(q, Found(0, ToShow(q, cursor)))
      BY <2>1, <2>2, <2>5 DEF Select
    <3> QED
      BY <1>0, <3>1, FoundIs DEF Covers
  <2>6. CASE ~(unresolved \/ unlisted) /\ Indexed(q)
    <3> DEFINE parts == IF q.owners # {} THEN OwnerParts(q, K) ELSE RecipientParts(q, K)
    <3>1. Rows(q, cursor) = Limited(q, UNION Branches(q, K))
      BY <2>2, <2>6 DEF Merged
    <3>2. K \subseteq Thing /\ IsFiniteSet(RowsOf(K))
      BY <1>0, <2>1, <2>3
    <3>3. Covers(UNION parts, RowsOf(K))
      <4>1. CASE q.owners # {}
        BY <2>3, <3>2, <4>1, OwnersCover
      <4>2. CASE q.owners = {}
        <5>1. q.recipients # << >>
          BY <2>6, <4>2 DEF Indexed
        <5>2. \A k \in K : \E i \in DOMAIN q.recipients : q.recipients[i] = Of[k].recipient
          BY <2>3, <5>1 DEF ToSet
        <5>3. q.recipients \in Seq(ToSet(q.recipients))
          BY DEF PagesAssumption
        <5> QED
          BY <2>3, <3>2, <4>2, <5>2, <5>3, RecipientsCover
      <4> QED
        BY <4>1, <4>2
    <3>4. Branches(q, K) = {Limited(q, P) : P \in parts}
      BY DEF Branches, Select, OwnerParts, RecipientParts
    <3>5. Ranked(q, UNION parts)
      BY <1>0, <2>1, <3>3, RowsRanked DEF Covers
    <3>6. q.first + 1 \in Nat
      BY DEF PagesAssumption
    <3>7. Limited(q, UNION Branches(q, K)) = Limited(q, UNION parts)
      <4> HIDE DEF parts, K
      <4>1. \A T : Limited(q, T) = Lowest(q.first + 1, q, T)
        BY DEF Limited
      <4>2. Lowest(q.first + 1, q, UNION {Lowest(q.first + 1, q, P) : P \in parts}) = Lowest(q.first + 1, q, UNION parts)
        BY <3>5, <3>6, LowestMerged
      <4>3. Branches(q, K) = {Lowest(q.first + 1, q, P) : P \in parts}
        BY <3>4, <4>1
      <4> QED
        BY <4>1, <4>2, <4>3
    <3> QED
      BY <2>1, <3>1, <3>3, <3>7
  <2> QED
    BY <2>4, <2>5, <2>6
<1> QED
  BY <1>1, <1>2

-----------------------------------------------------------------------------
(* What has been shown is not beyond the cursor, and of what answers the   *)
(* query all the time nothing before it is missing.                        *)

Once(r) == \E e \in shown : e.edge.row = r /\ \A f \in shown : f.edge.row = r => f = e

AskedInv ==
    /\ listing.at \in {"idle", "paging", "done"}
    /\ listing = [query |-> listing.query, cursor |-> listing.cursor, at |-> listing.at]
    /\ listing.at # "idle" =>
          listing.query \in Listings /\ listing.cursor \in {Start, Pending} \cup RowSpace(listing.query)
    /\ listing.at = "idle" => shown = {}

ShownInv ==
    listing.at # "idle" =>
        /\ listing.at = "paging" => steady \subseteq Meant(listing.query)
        /\ \A e \in shown : /\ e.edge.row \in RowSpace(listing.query)
                            /\ ~Beyond(listing.query, listing.cursor, e.edge.row)
        /\ \A r \in steady : Passed(r) => Once(r)

PagesInv == StoredInv /\ AskedInv /\ ShownInv

LEMMA RowBeyond ==
    ASSUME NEW q, NEW r \in RowSpace(q), NEW x
    PROVE  Beyond(q, r, x) <=> Ordered(q, r, x)
<1>1. r # Start /\ r # Pending
  <2>1. CASE q.of = "blocks"
    <3>1. PICK h \in Nat : r = <<h>>
      BY <2>1 DEF RowSpace
    <3> QED
      BY <3>1 DEF Start, Pending
  <2>2. CASE q.of # "blocks"
    <3>1. r \in Nat \X Nat \X Nat \X Nat
      BY <2>2 DEF RowSpace
    <3>2. r[1] \in Nat /\ DOMAIN r = 1 .. 4
      BY <3>1
    <3>3. r # << >>
      <4> DEFINE p == << >>
      <4>1. DOMAIN p = {} /\ 1 \in 1 .. 4
        OBVIOUS
      <4> HIDE DEF p
      <4>2. r # p
        BY <3>2, <4>1
      <4> QED
        BY <4>2 DEF p
    <3>4. r # <<-1>>
      <4> DEFINE p == <<-1>>
      <4>1. p[1] = -1 /\ -1 \notin Nat
        OBVIOUS
      <4> HIDE DEF p
      <4>2. r # p
        BY <3>2, <4>1
      <4> QED
        BY <4>2 DEF p
    <3> QED
      BY <3>3, <3>4 DEF Start, Pending
  <2> QED
    BY <2>1, <2>2
<1> QED
  BY <1>1 DEF Beyond

LEMMA OrderedIs ==
    ASSUME NEW q, NEW a \in RowSpace(q), NEW b \in RowSpace(q), NEW c \in RowSpace(q)
    PROVE  /\ ~Ordered(q, a, a) /\ (Ordered(q, a, b) /\ Ordered(q, b, c) => Ordered(q, a, c))
           /\ a = b \/ Ordered(q, a, b) \/ Ordered(q, b, a)
BY BeforeOrders DEF Ordered

\* What is beyond a row is beyond the cursor it is beyond.
LEMMA BeyondFurther ==
    ASSUME NEW q, NEW c \in {Start, Pending} \cup RowSpace(q), NEW d \in RowSpace(q), NEW x \in RowSpace(q),
           Beyond(q, c, d), Beyond(q, d, x)
    PROVE  Beyond(q, c, x)
<1>1. Ordered(q, d, x)
  BY RowBeyond
<1>2. CASE c \in RowSpace(q)
  BY <1>1, <1>2, RowBeyond, OrderedIs
<1>3. CASE c = Start
  BY <1>3 DEF Beyond
<1>4. CASE c = Pending
  <2>1. Pending # Start
    BY DEF Start, Pending
  <2> QED
    BY <1>4, <2>1 DEF Beyond
<1> QED
  BY <1>2, <1>3, <1>4

\* What one page does to a client.
Edges(q, c) == Lowest(q.first, q, Rows(q, c))
CursorAfter(q, c) == IF Edges(q, c) = {} THEN c ELSE LastRow(q, Edges(q, c))

Paged(q, c, edges, d) ==
           /\ d \in {Start, Pending} \cup RowSpace(q)
           /\ \A x \in RowSpace(q) : Beyond(q, d, x) => Beyond(q, c, x)
           /\ Distinct(edges)
           /\ \A e \in edges : e.row \in ToShow(q, c) /\ ~Beyond(q, d, e.row)
           /\ \A r \in ToShow(q, c) \ RowsIn(edges) : Cardinality(Rows(q, c)) > q.first /\ Beyond(q, d, r)

LEMMA PageTells ==
    ASSUME PagesAssumption, StoredInv, NEW q \in Listings, NEW c \in {Start, Pending} \cup RowSpace(q)
    PROVE  Paged(q, c, Edges(q, c), CursorAfter(q, c))
<1> DEFINE edges == Edges(q, c)
           d == CursorAfter(q, c)
<1>13. edges = Lowest(q.first, q, Rows(q, c)) /\ d = IF edges = {} THEN c ELSE LastRow(q, edges)
  BY DEF Edges, CursorAfter
<1> HIDE DEF edges, d
<1> SUFFICES Paged(q, c, edges, d)
  BY DEF edges, d
<1> DEFINE n == q.first
           X == ToShow(q, c)
<1>1. PICK S : Covers(S, X) /\ Rows(q, c) = Limited(q, S)
  BY PageCut
<1>2. n \in Nat \ {0}
  BY DEF PagesAssumption
<1>3. X \subseteq RowSpace(q)
  BY ToShowTyped
<1>4. Ranked(q, S)
  BY <1>1, <1>3, RowsRanked DEF Covers
<1>5. Rows(q, c) = Lowest(n + 1, q, S)
  BY <1>1 DEF Limited
<1>6. edges = Lowest(n, q, S)
  BY <1>2, <1>4, <1>5, <1>13, LowestTwice
<1>7. edges \subseteq S
  BY <1>6 DEF Lowest
<1>8. \A e \in S : e.row \in X
  BY <1>1 DEF Covers, RowsIn
<1>9. Distinct(edges)
  BY <1>1, <1>7 DEF Covers, Distinct
<1>10. \A x \in X : Beyond(q, c, x)
  BY DEF ToShow
<1> HIDE DEF X, n
<1>11. CASE edges = {}
  <2>1. d = c
    BY <1>11, <1>13
  <2>2. ASSUME NEW r \in X PROVE FALSE
    <3>1. PICK s \in S : s.row = r
      BY <1>1, <2>2 DEF Covers, RowsIn
    <3>2. s \notin Lowest(n, q, S)
      BY <1>6, <1>11
    <3> QED
      BY <1>2, <1>4, <1>6, <1>11, <3>2, LowestFirst
  <2> QED
    BY <1>9, <1>11, <2>1, <2>2 DEF X, Paged
<1>12. CASE edges # {}
  <2>1. Ranked(q, edges)
    BY <1>4, <1>7, RankedWithin
  <2>2. PICK l \in edges : d = l.row /\ \A f \in edges : f.row = l.row \/ Ordered(q, f.row, l.row)
    BY <1>12, <1>13, <2>1, LastTells
  <2>3. d \in X /\ d \in RowSpace(q)
    BY <1>3, <1>7, <1>8, <2>2
  <2>4. \A x \in RowSpace(q) : Beyond(q, d, x) => Beyond(q, c, x)
    BY <1>10, <2>3, BeyondFurther
  <2>5. ASSUME NEW e \in edges PROVE e.row \in X /\ ~Beyond(q, d, e.row)
    <3>1. e.row \in X /\ e.row \in RowSpace(q)
      BY <1>3, <1>7, <1>8
    <3>2. e.row = d \/ Ordered(q, e.row, d)
      BY <2>2
    <3>3. ~Ordered(q, d, e.row)
      BY <2>3, <3>1, <3>2, OrderedIs
    <3> QED
      BY <2>3, <3>1, <3>3, RowBeyond
  <2>6. ASSUME NEW r \in X \ RowsIn(edges) PROVE Cardinality(Rows(q, c)) > n /\ Beyond(q, d, r)
    <3>1. PICK s \in S : s.row = r
      BY <1>1, <2>6 DEF Covers, RowsIn
    <3>2. s \notin edges
      BY <2>6, <3>1 DEF RowsIn
    <3>3. Ordered(q, d, r)
      BY <1>2, <1>4, <1>6, <2>2, <3>1, <3>2, LowestFirst
    <3>4. Cardinality(Rows(q, c)) > n
      BY <1>2, <1>4, <1>5, <1>6, <3>2, LowestAll
    <3> QED
      BY <2>3, <3>3, <3>4, RowBeyond
  <2> QED
    BY <1>9, <2>3, <2>4, <2>5, <2>6 DEF X, n, Paged
<1> QED
  BY <1>11, <1>12

LEMMA PagesBegin == ASSUME PagesAssumption, PagesInit PROVE PagesInv
<1>1. StoredInv
  <2>1. known \subseteq Thing /\ stamped \subseteq HeightsOf
    BY DEF PagesInit
  <2>2. spot \in [Thing -> (UNION {Spots[k] : k \in Thing}) \cup {Nowhere}]
    BY DEF PagesInit
  <2>3. \A k \in Thing : spot[k] # Nowhere => spot[k] \in Spots[k] /\ spot[k].height \in stamped
    BY DEF PagesInit
  <2> QED
    BY <2>1, <2>2, <2>3 DEF StoredInv
<1>2. AskedInv /\ listing.at = "idle"
  BY DEF PagesInit, AskedInv, None
<1> QED
  BY <1>1, <1>2 DEF PagesInv, ShownInv

LEMMA AskKeeps ==
    ASSUME PagesAssumption, PagesInv, NEW q \in Listings, NEW c \in {Start, Pending}, Ask(q, c)
    PROVE  PagesInv'
<1>1. UNCHANGED stored /\ shown' = {} /\ listing' = [query |-> q, cursor |-> c, at |-> "paging"]
      /\ steady' = ToShow(q, c)
  BY DEF Ask, PagesInv, AskedInv
<1>2. StoredInv'
  BY <1>1 DEF PagesInv, StoredInv, stored
<1>3. AskedInv'
  BY <1>1 DEF AskedInv
<1>4. ShownInv'
  <2>1. \A r \in steady' : r \in Meant(q) /\ Beyond(q, c, r)
    BY <1>1 DEF ToShow
  <2>2. Meant(q)' = Meant(q)
    BY <1>1 DEF stored, Meant, Means, Row, RowsOf, Within, HasTag, Heights
  <2>3. \A r \in steady' : ~Passed(r)'
    BY <1>1, <2>1 DEF Passed, Beyond, Ordered, Before
  <2>4. (steady \subseteq Meant(listing.query))'
    BY <1>1, <2>1, <2>2
  <2> QED
    BY <1>1, <2>3, <2>4 DEF ShownInv
<1> QED
  BY <1>2, <1>3, <1>4 DEF PagesInv

LEMMA ChangeKeeps ==
    ASSUME PagesInv, Change, StoredInv' PROVE PagesInv'
<1>1. UNCHANGED <<listing, shown>> /\ steady' \subseteq steady
      /\ steady' \subseteq Meant(listing.query)' /\ listing.at = "paging"
  BY DEF Change
<1>2. AskedInv'
  BY <1>1 DEF PagesInv, AskedInv, RowSpace
<1>3. ShownInv'
  <2>1. \A r : (Passed(r)' <=> Passed(r)) /\ (Once(r)' <=> Once(r))
    BY <1>1 DEF Passed, Once, Beyond, Ordered, Before
  <2>2. \A e \in shown' : /\ e.edge.row \in RowSpace(listing.query)
                          /\ ~Beyond(listing.query, listing.cursor, e.edge.row)
    BY <1>1 DEF PagesInv, ShownInv
  <2>3. \A r \in steady' : Passed(r) => Once(r)
    BY <1>1 DEF PagesInv, ShownInv
  <2> QED
    BY <1>1, <2>1, <2>2, <2>3 DEF ShownInv, Beyond, Ordered, Before, RowSpace
<1> QED
  BY <1>2, <1>3 DEF PagesInv

LEMMA PlaceKeeps == ASSUME PagesInv, NEW k \in Thing, NEW s \in Spots[k], Place(k, s) PROVE PagesInv'
<1>1. spot' = [spot EXCEPT ![k] = s] /\ UNCHANGED <<known, stamped>> /\ s.height \in stamped
  BY DEF Place
<1>2. StoredInv'
  BY <1>1 DEF PagesInv, StoredInv
<1> QED
  BY <1>2, ChangeKeeps DEF Place

LEMMA LearnKeeps == ASSUME PagesInv, NEW k \in Thing, Learn(k) PROVE PagesInv'
<1>1. StoredInv'
  BY DEF Learn, PagesInv, StoredInv
<1> QED
  BY <1>1, ChangeKeeps DEF Learn

LEMMA StampKeeps == ASSUME PagesInv, NEW h \in HeightsOf, Stamp(h) PROVE PagesInv'
<1>1. StoredInv'
  BY DEF Stamp, PagesInv, StoredInv
<1> QED
  BY <1>1, ChangeKeeps DEF Stamp

LEMMA RewindKeeps == ASSUME PagesAssumption, PagesInv, NEW h \in HeightsOf, RewindTo(h) PROVE PagesInv'
<1>1. /\ stamped' = {g \in stamped : g < h} /\ known' = known
      /\ spot' = [k \in Thing |-> IF spot[k].height >= h THEN Nowhere ELSE spot[k]]
  BY DEF RewindTo
<1>2. ASSUME NEW k \in Thing, spot'[k] # Nowhere PROVE spot'[k] \in Spots[k] /\ spot'[k].height \in stamped'
  <2>1. spot'[k] = spot[k] /\ spot[k] # Nowhere /\ ~(spot[k].height >= h)
    BY <1>1, <1>2
  <2>2. spot[k] \in Spots[k] /\ spot[k].height \in stamped
    BY <2>1 DEF PagesInv, StoredInv
  <2>3. h \in Nat /\ spot[k].height \in Nat
    BY <2>2, HeightsFinite DEF PagesAssumption
  <2> QED
    BY <1>1, <2>1, <2>2, <2>3
<1>3. spot' \in [Thing -> (UNION {Spots[k] : k \in Thing}) \cup {Nowhere}]
  <2> DEFINE Spaces == (UNION {Spots[k] : k \in Thing}) \cup {Nowhere}
  <2>1. spot \in [Thing -> Spaces]
    BY DEF PagesInv, StoredInv
  <2>3. Nowhere \in Spaces
    OBVIOUS
  <2> HIDE DEF Spaces
  <2>2. spot' \in [Thing -> Spaces]
    BY <1>1, <2>1, <2>3
  <2> QED
    BY <2>2 DEF Spaces
<1>4. StoredInv'
  BY <1>1, <1>2, <1>3 DEF PagesInv, StoredInv
<1> QED
  BY <1>4, ChangeKeeps DEF RewindTo

LEMMA NextPageKeeps == ASSUME PagesAssumption, PagesInv, NextPage PROVE PagesInv'
<1> DEFINE q == listing.query
           c == listing.cursor
           answer == Rows(q, c)
           edges == Lowest(q.first, q, answer)
           d == IF edges = {} THEN c ELSE LastRow(q, edges)
           news == {[from |-> c, edge |-> e] : e \in edges}
<1>1. /\ listing.at = "paging" /\ UNCHANGED <<stored, steady>> /\ shown' = shown \cup news
      /\ listing' = [listing EXCEPT !.cursor = d, !.at = IF Cardinality(answer) > q.first THEN "paging" ELSE "done"]
  BY DEF NextPage
<1>2. q \in Listings /\ c \in {Start, Pending} \cup RowSpace(q) /\ StoredInv
  BY <1>1 DEF PagesInv, AskedInv
<1>3. Paged(q, c, edges, d)
  <2>1. edges = Edges(q, c) /\ d = CursorAfter(q, c)
    BY DEF Edges, CursorAfter
  <2> HIDE DEF q, c, edges, d
  <2> QED
    BY <1>2, <2>1, PageTells
<1>4. /\ listing'.query = q /\ listing'.cursor = d
      /\ listing'.at = IF Cardinality(answer) > q.first THEN "paging" ELSE "done"
      /\ listing' = [query |-> listing'.query, cursor |-> listing'.cursor, at |-> listing'.at]
  <2>1. \E x : listing = [query |-> q, cursor |-> c, at |-> x]
    BY DEF PagesInv, AskedInv
  <2> DEFINE turn == IF Cardinality(answer) > q.first THEN "paging" ELSE "done"
  <2>2. listing' = [listing EXCEPT !.cursor = d, !.at = turn]
    BY <1>1
  <2> HIDE DEF q, c, answer, d, turn
  <2>4. PICK x : listing = [query |-> q, cursor |-> c, at |-> x]
    BY <2>1
  <2>3. listing' = [query |-> q, cursor |-> d, at |-> turn]
    BY <2>2, <2>4
  <2> QED
    BY <2>3 DEF turn
<1>5. StoredInv'
  BY <1>1 DEF PagesInv, StoredInv, stored
<1>6. AskedInv'
  <2> HIDE DEF q, c, answer, d
  <2> QED
    BY <1>2, <1>3, <1>4 DEF AskedInv, RowSpace, Paged
<1>7. /\ steady \subseteq Meant(q)
      /\ \A e \in shown : e.edge.row \in RowSpace(q) /\ ~Beyond(q, c, e.edge.row)
      /\ \A r \in steady : Passed(r) => Once(r)
  BY <1>1 DEF PagesInv, ShownInv
<1>8. ToShow(q, c) \subseteq RowSpace(q) /\ Meant(q) \subseteq RowSpace(q) /\ \A r \in Meant(q) : r \in ToShow(q, c) <=> Beyond(q, c, r)
  BY <1>2, ToShowTyped, MeantTyped DEF ToShow
<1>9. \A f \in news : f.edge \in edges /\ f = [from |-> c, edge |-> f.edge]
  OBVIOUS
<1>10. \A e \in edges : [from |-> c, edge |-> e] \in news
  OBVIOUS
<1>20. answer = Rows(q, c)
  OBVIOUS
<1> HIDE DEF q, c, answer, edges, d, news
<1>11. \A r : Passed(r) <=> ~Beyond(q, c, r)
  BY <1>1 DEF Passed, q, c
<1>12. \A r : Passed(r)' <=> listing'.at = "done" \/ ~Beyond(q, d, r)
  BY <1>4 DEF Passed, Beyond, Ordered, Before
<1>13. \A e \in shown' : e.edge.row \in RowSpace(q) /\ ~Beyond(q, d, e.edge.row)
  BY <1>1, <1>3, <1>7, <1>8, <1>9 DEF Paged
<1>14. ASSUME NEW r \in steady, Passed(r)' PROVE Once(r)'
  <2>1. CASE ~Beyond(q, c, r)
    <3>1. PICK e \in shown : e.edge.row = r /\ \A f \in shown : f.edge.row = r => f = e
      BY <1>7, <1>11, <2>1 DEF Once
    <3>2. \A f \in news : f.edge.row # r
      BY <1>3, <1>8, <1>9, <2>1, <1>7, <1>14 DEF ToShow, Paged
    <3>3. e \in shown' /\ \A f \in shown' : f.edge.row = r => f = e
      BY <1>1, <3>1, <3>2
    <3> QED
      BY <3>1, <3>3 DEF Once
  <2>2. CASE Beyond(q, c, r)
    <3>1. r \in ToShow(q, c)
      BY <1>7, <1>8, <2>2
    <3>2. r \in RowsIn(edges)
      <4>1. ~(Cardinality(answer) > q.first /\ Beyond(q, d, r))
        BY <1>4, <1>12, <1>14
      <4> QED
        BY <1>3, <1>20, <3>1, <4>1 DEF Paged
    <3>3. PICK e \in edges : e.row = r
      BY <3>2 DEF RowsIn
    <3>4. \A f \in shown : f.edge.row # r
      BY <1>7, <2>2
    <3>5. \A f \in news : f.edge.row = r => f = [from |-> c, edge |-> e]
      BY <1>3, <1>9, <3>3 DEF Distinct, Paged
    <3>6. [from |-> c, edge |-> e] \in shown' /\ [from |-> c, edge |-> e].edge.row = r
      BY <1>1, <1>10, <3>3
    <3>7. \A f \in shown' : f.edge.row = r => f = [from |-> c, edge |-> e]
      BY <1>1, <3>4, <3>5
    <3> QED
      BY <3>6, <3>7 DEF Once
  <2> QED
    BY <2>1, <2>2
<1>15. Meant(q)' = Meant(q)
  BY <1>1, <1>4 DEF q, stored, Meant, Means, Row, RowsOf, Within, HasTag, Heights
<1>16. ShownInv'
  <2>1. (steady \subseteq Meant(listing.query))'
    BY <1>1, <1>7, <1>15 DEF q
  <2>2. \A r \in steady' : Passed(r)' => Once(r)'
    BY <1>1, <1>14
  <2>3. \A e \in shown' : /\ e.edge.row \in RowSpace(listing'.query)
                          /\ ~Beyond(listing'.query, listing'.cursor, e.edge.row)
    BY <1>4, <1>13
  <2> QED
    BY <2>1, <2>2, <2>3 DEF ShownInv, RowSpace, Beyond, Ordered, Before
<1> QED
  BY <1>5, <1>6, <1>16 DEF PagesInv

LEMMA PagesKept == ASSUME PagesAssumption, PagesInv, [PagesNext]_pages PROVE PagesInv'
<1>1. ASSUME NEW q \in Listings, NEW c \in {Start, Pending}, Ask(q, c) PROVE PagesInv'
  BY <1>1, AskKeeps
<1>2. CASE NextPage
  BY <1>2, NextPageKeeps
<1>3. ASSUME NEW k \in Thing, Learn(k) \/ \E s \in Spots[k] : Place(k, s) PROVE PagesInv'
  BY <1>3, LearnKeeps, PlaceKeeps
<1>4. ASSUME NEW h \in HeightsOf, Stamp(h) \/ RewindTo(h) PROVE PagesInv'
  BY <1>4, StampKeeps, RewindKeeps
<1>5. CASE UNCHANGED pages
  <2>1. UNCHANGED <<spot, known, stamped, listing, shown, steady>>
    BY <1>5 DEF pages, stored
  <2>2. StoredInv' /\ AskedInv'
    BY <2>1 DEF PagesInv, StoredInv, AskedInv, RowSpace
  <2>3. (steady \subseteq Meant(listing.query))' <=> steady \subseteq Meant(listing.query)
    BY <2>1 DEF Meant, Means, Row, RowsOf, Within, HasTag, Heights
  <2>4. \A r : (Passed(r)' <=> Passed(r)) /\ (Once(r)' <=> Once(r))
    BY <2>1 DEF Passed, Once, Beyond, Ordered, Before
  <2>5. ShownInv'
    BY ZenonT(60), <2>1, <2>3, <2>4 DEF PagesInv, ShownInv, Beyond, Ordered, Before, RowSpace
  <2> QED
    BY <2>2, <2>5 DEF PagesInv
<1> QED
  BY <1>1, <1>2, <1>3, <1>4, <1>5 DEF PagesNext

LEMMA ListingTold == ASSUME PagesAssumption, PagesInv PROVE ListingExact
<1>1. ShownOnce
  <2> SUFFICES ASSUME listing.at # "idle", NEW r \in steady PROVE Times(r) = IF Passed(r) THEN 1 ELSE 0
    BY DEF ShownOnce
  <2> DEFINE T == {e \in shown : e.edge.row = r}
  <2>1. CASE Passed(r)
    <3>1. PICK e \in shown : e.edge.row = r /\ \A f \in shown : f.edge.row = r => f = e
      BY <2>1 DEF PagesInv, ShownInv, Once
    <3>2. T = {e}
      BY <3>1
    <3>3. Cardinality(T) = 1
      BY <3>2, FS_Singleton
    <3> QED
      BY <2>1, <3>3 DEF Times
  <2>2. CASE ~Passed(r)
    <3>1. Beyond(listing.query, listing.cursor, r)
      BY <2>2 DEF Passed
    <3>2. T = {}
      BY <3>1 DEF PagesInv, ShownInv
    <3>3. Cardinality(T) = 0
      BY <3>2, FS_EmptySet
    <3> QED
      BY <2>2, <3>3 DEF Times
  <2> QED
    BY <2>1, <2>2
<1>2. PageExact
  <2> DEFINE q == listing.query
             c == listing.cursor
             X == ToShow(q, c)
  <2> SUFFICES ASSUME listing.at = "paging"
               PROVE  /\ RowsIn(Rows(q, c)) = RowsIn(Select(q, 0, X))
                      /\ Distinct(Rows(q, c))
    BY DEF PageExact, RowsIn, Distinct
  <2>1. q \in Listings /\ StoredInv
    BY DEF PagesInv, AskedInv
  <2>2. PICK S : Covers(S, X) /\ Rows(q, c) = Limited(q, S)
    <3> HIDE DEF q, c
    <3> QED
      BY <2>1, PageCut
  <2>3. IsFiniteSet(X) /\ q.first + 1 \in Nat
    BY <2>1, ToShowTyped DEF PagesAssumption
  <2>4. Covers(Found(0, X), X)
    BY <2>3, FoundIs DEF Covers
  <2>5. RowsIn(Limited(q, S)) = RowsIn(Limited(q, Found(0, X)))
    <3> HIDE DEF q, c, X
    <3> QED
      BY <2>2, <2>3, <2>4, SameRows DEF Covers, Limited
  <2>6. Distinct(Limited(q, S))
    BY <2>2 DEF Covers, Distinct, Limited, Lowest
  <2> QED
    BY <2>2, <2>5, <2>6 DEF Select
<1> QED
  BY <1>1, <1>2 DEF ListingExact

\* While placements, metadata and reorgs go on beside a client that asks for
\* page after page, every page is what its query means, and what answers the
\* query all the time is shown once, at its turn (transactions and blocks).
THEOREM ListingAlwaysExact == PagesSpec => []ListingExact
<1>1. PagesInit => PagesInv
  BY PagesAssumption, PagesBegin
<1>2. PagesInv /\ [PagesNext]_pages => PagesInv'
  BY PagesAssumption, PagesKept
<1>3. PagesInv => ListingExact
  BY PagesAssumption, ListingTold
<1> QED
  BY <1>1, <1>2, <1>3, PTL DEF PagesSpec
==============================================================================
