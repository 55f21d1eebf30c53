------------------------------- MODULE TagStore -------------------------------
(***************************************************************************)
(* The tags of objects as PostgreSQL keeps them: dictionaries of names and *)
(* values that hold every byte string once, and for each object the keys   *)
(* of its tags, packed (database.rs, packed_tags.rs, migrations 002, 021,  *)
(* 023 and 025).  Connections record objects while keys are removed.  The  *)
(* packed table was once filled from one of rows while both were in use    *)
(* (prepare_packed_tags).                                                  *)
(*                                                                         *)
(* A tag is the pair of its name and its value, which are numbers in the   *)
(* order of their bytes; the name is in table 1, the value in table 2.     *)
(***************************************************************************)
EXTENDS Integers, SequencesExt

CONSTANTS
    Recorder,   \* connections
    Tagged,     \* the keys of objects, which are in the order of their IDs
    Batches,    \* what may be recorded at once: the tags of some objects
    LockOf,     \* the advisory lock of a byte string: a hash of its digest
    MaxKey,     \* bound of a sequence of keys
    OldRows,    \* the rows that an object may have had
    PackBatch   \* AR_IO_PACKED_TAG_BATCH_SIZE
ASSUME TagsAssumption ==
    /\ Tagged \subseteq Nat \ {0} /\ MaxKey \in Nat
    /\ \A batch \in Batches : \A o \in DOMAIN batch : batch[o] \in Seq(Nat \X Nat)

VARIABLES
    dictionary, \* tag_names and tag_values
    lastKey,    \* their sequences
    tagRefs,    \* object_tags
    whole,   \* objects.metadata_complete
    reported,   \* history: the objects and tags of every batch that succeeded
    recording,  \* the transaction of each connection
    removing,   \* the transaction that removes a key
    rowsOf,     \* object_tags, when it had rows
    packed,     \* packed_object_tags
    prep,       \* packed_tag_preparation
    oldWrite,   \* the transaction of each connection to the rows
    copying     \* the batch of prepare_packed_tags
tagging == <<dictionary, lastKey, tagRefs, whole, reported, recording, removing>>
packing == <<rowsOf, packed, prep, oldWrite, copying>>

Table == {1, 2}
Empty == [x \in {} |-> 0]
Plus(f, g) == [x \in DOMAIN f \cup DOMAIN g |-> IF x \in DOMAIN f THEN f[x] ELSE g[x]]
NoKeys == [t \in Table |-> Empty]
Unwritten == [at |-> "idle", batch |-> Empty, apart |-> FALSE, keys |-> NoKeys, want |-> {},
              held |-> {}, fresh |-> NoKeys, finished |-> {}, rows |-> Empty]
NoRemoval == << >>

-----------------------------------------------------------------------------
(* Recording.                                                              *)

Moves(r, job) == recording' = [recording EXCEPT ![r] = job]
TagBytes(batch, t) == {tag[t] : tag \in UNION {ToSet(batch[o]) : o \in DOMAIN batch}}
\* A transaction sees what is committed and what it wrote itself.
Seen(r, t) == Plus(dictionary[t], recording[r].fresh[t])
KeyFor(entries, s) == CHOOSE k \in DOMAIN entries : entries[k] = s
HasString(entries, s) == \E k \in DOMAIN entries : entries[k] = s
KeysFor(entries, strings) == [s \in {x \in strings : HasString(entries, x)} |-> KeyFor(entries, s)]

\* record_objects interns the tags in a transaction of their own, others write
\* the objects first.
Begin(r, batch, apart) ==
    /\ recording[r] = Unwritten
    /\ Moves(r, [Unwritten EXCEPT !.at = IF apart THEN "names" ELSE "begun",
                                  !.batch = batch, !.apart = apart])
    /\ UNCHANGED <<dictionary, lastKey, tagRefs, whole, reported, removing>>

\* Each table is read in a statement of its own, and locks are noted for what
\* is not in it.
Lookup(r, t) ==
    LET job == recording[r]
        strings == TagBytes(job.batch, t)
    IN /\ job.at = (IF t = 1 THEN "names" ELSE "values")
       /\ Moves(r, [job EXCEPT !.at = IF t = 1 THEN "values" ELSE "locks",
                               !.keys[t] = KeysFor(Seen(r, t), strings),
                               !.want = @ \cup {<<1, LockOf[s]>> : s \in
                                                  {x \in strings : ~HasString(Seen(r, t), x)}}])
       /\ UNCHANGED <<dictionary, lastKey, tagRefs, whole, reported, removing>>

\* Advisory locks are taken in order and kept until the transaction ends.
Take(r) ==
    LET job == recording[r]
    IN \E lock \in job.want :
          /\ \A other \in job.want : lock[2] <= other[2]
          /\ \A q \in Recorder \ {r} : lock \notin recording[q].held
          /\ Moves(r, [job EXCEPT !.want = @ \ {lock}, !.held = @ \cup {lock}])
          /\ UNCHANGED <<dictionary, lastKey, tagRefs, whole, reported, removing>>

\* A new statement sees what was committed while locks were awaited.  It adds
\* what is missing still, and then reads all that had been missing.
Intern(r, t) ==
    LET job == recording[r]
        missing == TagBytes(job.batch, t) \ DOMAIN job.keys[t]
        absent == {s \in missing : ~HasString(Seen(r, t), s)}
    IN /\ job.at = (IF t = 1 THEN "locks" ELSE "interned")
       /\ job.want = {}
       /\ \E last \in lastKey[t] .. MaxKey : \E added \in [lastKey[t] + 1 .. last -> absent] :
             LET now == Plus(Seen(r, t), added)
             IN /\ \A s \in missing : \E k \in DOMAIN now : \A l \in DOMAIN now : now[l] = s <=> l = k
                /\ lastKey' = [lastKey EXCEPT ![t] = last]
                /\ Moves(r, [job EXCEPT !.at = IF t = 1 THEN "interned" ELSE IF job.apart THEN "known" ELSE "tags",
                                        !.fresh[t] = Plus(@, added), !.keys[t] = Plus(@, KeysFor(now, missing))])
       /\ UNCHANGED <<dictionary, tagRefs, whole, reported, removing>>

\* intern_tags ends, which releases its locks.
CommitStrings(r) ==
    LET job == recording[r]
    IN /\ job.at = "known"
       /\ dictionary' = [t \in Table |-> Seen(r, t)]
       /\ Moves(r, [job EXCEPT !.at = "begun", !.held = {}, !.fresh = NoKeys])
       /\ UNCHANGED <<lastKey, tagRefs, whole, reported, removing>>

\* Objects that are not complete are locked (lock_object_ids).
LockObjects(r) ==
    LET job == recording[r]
    IN /\ job.at = "begun"
       /\ Moves(r, [job EXCEPT !.at = "ids", !.want = {<<0, o>> : o \in DOMAIN job.batch \ whole}])
       /\ UNCHANGED <<dictionary, lastKey, tagRefs, whole, reported, removing>>

\* The statement that completes or inserts objects returns those it wrote.
WriteObjects(r) ==
    LET job == recording[r]
    IN /\ job.at = "ids" /\ job.want = {}
       /\ Moves(r, [job EXCEPT !.at = IF job.apart THEN "tags" ELSE "names",
                               !.finished = DOMAIN job.batch \ whole])
       /\ UNCHANGED <<dictionary, lastKey, tagRefs, whole, reported, removing>>

Pack(tags, keys) == [i \in DOMAIN tags |-> <<keys[1][tags[i][1]], keys[2][tags[i][2]]>>]
Refs(rows, o) == IF o \in DOMAIN rows THEN rows[o] ELSE << >>
\* validate_tag_refs, after each statement: every key is in its dictionary.
Refer(rows, entries) ==
    \A o \in DOMAIN rows : \A i \in DOMAIN rows[o] : \A t \in Table : rows[o][i][t] \in DOMAIN entries[t]

\* The writer waits while keys are removed, and the removal for the writer.
WriteTags(r) ==
    LET job == recording[r]
        rows == [o \in {x \in job.finished : job.batch[x] # << >> /\ x \notin DOMAIN tagRefs} |->
                   Pack(job.batch[o], job.keys)]
    IN /\ job.at = "tags" /\ removing = NoRemoval
       /\ Refer(rows, [t \in Table |-> Seen(r, t)])
       /\ Moves(r, [job EXCEPT !.at = "written", !.rows = rows])
       /\ UNCHANGED <<dictionary, lastKey, tagRefs, whole, reported, removing>>

\* All the tags are compared with what is stored, written now or long ago.
CommitObjects(r) ==
    LET job == recording[r]
    IN /\ job.at = "written"
       /\ \A o \in DOMAIN job.batch : Refs(Plus(tagRefs, job.rows), o) = Pack(job.batch[o], job.keys)
       /\ dictionary' = [t \in Table |-> Seen(r, t)]
       /\ tagRefs' = Plus(tagRefs, job.rows)
       /\ whole' = whole \cup job.finished
       /\ reported' = reported \cup {<<o, job.batch[o]>> : o \in DOMAIN job.batch}
       /\ Moves(r, Unwritten)
       /\ UNCHANGED <<lastKey, removing>>

\* An error, a deadline or a lost connection, at any time.
Rollback(r) ==
    /\ recording[r] # Unwritten
    /\ Moves(r, Unwritten)
    /\ UNCHANGED <<dictionary, lastKey, tagRefs, whole, reported, removing>>

-----------------------------------------------------------------------------
(* Removing a key: the trigger locks the table of refs, waits for whoever   *)
(* wrote to it, and then looks.                                            *)

Removes(t, k) ==
    /\ removing = NoRemoval /\ k \in DOMAIN dictionary[t]
    /\ removing' = [table |-> t, key |-> k]
    /\ UNCHANGED <<dictionary, lastKey, tagRefs, whole, reported, recording>>
LockRowOnly(t, k) == Removes(t, k)     \* mutant: only the row of the key is locked
RemoveKey(t, k) == Removes(t, k) /\ \A r \in Recorder : recording[r].at # "written"
Referenced(t, k) == \E o \in DOMAIN tagRefs : \E i \in DOMAIN tagRefs[o] : tagRefs[o][i][t] = k
CommitRemoval ==
    LET t == removing.table
    IN /\ removing # NoRemoval /\ ~Referenced(t, removing.key)
       /\ dictionary' = [dictionary EXCEPT ![t] = [k \in DOMAIN @ \ {removing.key} |-> @[k]]]
       /\ removing' = NoRemoval
       /\ UNCHANGED <<lastKey, tagRefs, whole, reported, recording>>
KeepKey ==
    /\ removing # NoRemoval
    /\ removing' = NoRemoval
    /\ UNCHANGED <<dictionary, lastKey, tagRefs, whole, reported, recording>>

TagsInit ==
    /\ dictionary = NoKeys /\ lastKey = [t \in Table |-> 0] /\ tagRefs = Empty /\ whole = {}
    /\ reported = {} /\ recording = [r \in Recorder |-> Unwritten] /\ removing = NoRemoval
TagsNext ==
    \/ \E r \in Recorder :
          \/ \E batch \in Batches, apart \in BOOLEAN : Begin(r, batch, apart)
          \/ \E t \in Table : Lookup(r, t) \/ Intern(r, t)
          \/ Take(r) \/ CommitStrings(r) \/ LockObjects(r) \/ WriteObjects(r)
          \/ WriteTags(r) \/ CommitObjects(r) \/ Rollback(r)
    \/ \E t \in Table : \E k \in DOMAIN dictionary[t] : RemoveKey(t, k)
    \/ CommitRemoval \/ KeepKey

-----------------------------------------------------------------------------
(* Packing the rows, while they are written.                               *)

NotWriting == [at |-> "idle"]
NotCopying == [at |-> "idle"]
WithRows(low, high) == {o \in Tagged : o > low /\ o <= high /\ rowsOf[o] # << >>}
\* Its trigger has run, and holds the lock of the object.
Mirrored(w) == oldWrite[w].at = "done" /\ oldWrite[w].mirrors
Writing(w, job) == oldWrite' = [oldWrite EXCEPT ![w] = job]
\* The packed rows are those of the objects that have any.
Put(objects, rows) ==
    [o \in {x \in DOMAIN packed \cup objects : x \in objects => rows[x] # << >>} |->
       IF o \in objects THEN rows[o] ELSE packed[o]]

\* The triggers are there when no one writes; the rows of that time are copied.
Stage ==
    LET there == {o \in Tagged : rowsOf[o] # << >>}
    IN /\ ~prep.staged /\ \A w \in Recorder : oldWrite[w] = NotWriting
       /\ \E high \in {0} \cup there :
             /\ \A o \in there : o <= high
             /\ prep' = [prep EXCEPT !.staged = TRUE, !.high = high]
       /\ UNCHANGED <<rowsOf, packed, oldWrite, copying>>

\* A statement changes the rows of an object; another to the same rows waits.
ChangeRows(w, o, rows) ==
    /\ oldWrite[w] = NotWriting /\ ~prep.over
    /\ \A q \in Recorder : oldWrite[q] # NotWriting => oldWrite[q].object # o
    /\ Writing(w, [at |-> IF prep.staged THEN "changed" ELSE "done", object |-> o, rows |-> rows,
                   mirrors |-> prep.staged])
    /\ UNCHANGED <<rowsOf, packed, prep, copying>>
\* The trigger locks the object before it packs the rows (mirror_packed_tags).
Mirror(w) ==
    /\ oldWrite[w].at = "changed"
    /\ copying.at \in {"locked", "copied"} => oldWrite[w].object \notin copying.keys
    /\ Writing(w, [oldWrite[w] EXCEPT !.at = "done"])
    /\ UNCHANGED <<rowsOf, packed, prep, copying>>
CommitOldRows(w) ==
    LET job == oldWrite[w]
    IN /\ job.at = "done"
       /\ rowsOf' = [rowsOf EXCEPT ![job.object] = job.rows]
       /\ packed' = IF job.mirrors THEN Put({job.object}, rowsOf') ELSE packed
       /\ Writing(w, NotWriting)
       /\ UNCHANGED <<prep, copying>>
RollbackRows(w) ==
    /\ oldWrite[w] # NotWriting
    /\ Writing(w, NotWriting)
    /\ UNCHANGED <<rowsOf, packed, prep, copying>>

\* A batch: the next keys with rows, their locks, and a copy of what is there
\* when they are held.
SelectKeys ==
    LET found == WithRows(prep.after, prep.high)
        Upto(last) == {o \in found : o <= last}
    IN /\ prep.staged /\ copying = NotCopying /\ prep.after # prep.high
       /\ \E last \in found \cup {prep.high} :
             /\ IF found = {} THEN last = prep.high
                ELSE /\ last \in found
                     /\ \/ Cardinality(Upto(last)) = PackBatch
                        \/ Upto(last) = found /\ Cardinality(found) < PackBatch
             /\ copying' = [at |-> "selected", keys |-> Upto(last), last |-> last, rows |-> Empty]
       /\ UNCHANGED <<rowsOf, packed, prep, oldWrite>>
LockKeys ==
    /\ copying.at = "selected"
    /\ \A w \in Recorder : Mirrored(w) => oldWrite[w].object \notin copying.keys
    /\ copying' = [copying EXCEPT !.at = "locked"]
    /\ UNCHANGED <<rowsOf, packed, prep, oldWrite>>
CopyRows ==
    /\ copying.at = "locked"
    /\ copying' = [copying EXCEPT !.at = "copied", !.rows = [o \in {x \in copying.keys : rowsOf[x] # << >>} |-> rowsOf[o]]]
    /\ UNCHANGED <<rowsOf, packed, prep, oldWrite>>
CommitBatch ==
    /\ copying.at = "copied"
    /\ packed' = Put(DOMAIN copying.rows, copying.rows)
    /\ prep' = [prep EXCEPT !.after = copying.last]
    /\ copying' = NotCopying
    /\ UNCHANGED <<rowsOf, oldWrite>>
\* A lock that is not to be had in time, or the end of the process.
StopCopying ==
    /\ copying # NotCopying
    /\ copying' = NotCopying
    /\ UNCHANGED <<rowsOf, packed, prep, oldWrite>>

\* The migration replaces the rows by the packed table.
Cutover ==
    /\ prep.staged /\ ~prep.over /\ prep.after = prep.high
    /\ copying = NotCopying /\ \A w \in Recorder : oldWrite[w] = NotWriting
    /\ prep' = [prep EXCEPT !.over = TRUE]
    /\ UNCHANGED <<rowsOf, packed, oldWrite, copying>>

PackingInit ==
    /\ rowsOf = [o \in Tagged |-> << >>] /\ packed = Empty
    /\ prep = [staged |-> FALSE, over |-> FALSE, after |-> 0, high |-> 0]
    /\ oldWrite = [w \in Recorder |-> NotWriting] /\ copying = NotCopying
PackingNext ==
    \/ \E w \in Recorder :
          \/ \E o \in Tagged, rows \in OldRows : ChangeRows(w, o, rows)
          \/ Mirror(w) \/ CommitOldRows(w) \/ RollbackRows(w)
    \/ Stage \/ SelectKeys \/ LockKeys \/ CopyRows \/ CommitBatch \/ StopCopying \/ Cutover

TagStoreInit == TagsInit /\ PackingInit
TagStoreNext ==
    \/ TagsNext /\ UNCHANGED packing
    \/ PackingNext /\ UNCHANGED tagging
TagStoreSpec == TagStoreInit /\ [][TagStoreNext]_<<tagging, packing>>

-----------------------------------------------------------------------------
(* What is read of the tags.                                               *)

\* A byte string has one key, and a batch that succeeded is read back for ever
\* as it was reported: in order, no key dangling, whatever is recorded or
\* removed beside it.
Unpacked(refs) == [i \in DOMAIN refs |-> <<dictionary[1][refs[i][1]], dictionary[2][refs[i][2]]>>]
Interned ==
    \A t \in Table : \A k, l \in DOMAIN dictionary[t] : dictionary[t][k] = dictionary[t][l] => k = l
Readable == Refer(tagRefs, dictionary) /\ \A x \in reported : Unpacked(Refs(tagRefs, x[1])) = x[2]
\* After the cutover the packed table has what the rows had.
PackedSame == prep.over => \A o \in Tagged : Refs(packed, o) = rowsOf[o]
TagsExact == Interned /\ Readable /\ PackedSame
================================================================================
