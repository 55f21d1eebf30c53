------------------------------ MODULE StoreProofs ------------------------------
(***************************************************************************)
(* What the database keeps of objects, for any number of connections,      *)
(* batches, byte strings, locks, blocks and bundles: dictionaries and      *)
(* references to them, the table that was packed beside its writers, and   *)
(* the place of each object on a chain that forks meanwhile.               *)
(***************************************************************************)
EXTENDS BundleStore, TagStore, Tallies, SequenceTheorems, TLAPS

-----------------------------------------------------------------------------
(* The dictionaries and what is recorded with them.                        *)

Fields(j) ==
    j = [at |-> j.at, batch |-> j.batch, apart |-> j.apart, keys |-> j.keys, want |-> j.want,
         held |-> j.held, fresh |-> j.fresh, finished |-> j.finished, rows |-> j.rows]
RecordShape(j) ==
    /\ Fields(j)
    /\ j.apart \in BOOLEAN
    /\ j.keys = [t \in Table |-> j.keys[t]] /\ j.fresh = [t \in Table |-> j.fresh[t]]
    /\ \A o \in DOMAIN j.batch : j.batch[o] \in Seq(Nat \X Nat)
    /\ j.finished \subseteq DOMAIN j.batch
DictShape ==
    /\ dictionary = [t \in Table |-> dictionary[t]]
    /\ lastKey \in [Table -> Nat]
    /\ recording = [r \in Recorder |-> recording[r]]
    /\ \A t \in Table : \A k \in DOMAIN dictionary[t] : k \in 1 .. lastKey[t]

\* What a transaction has added is locked by it, new and told once.
FreshKeys(j) ==
    \A t \in Table : \A k \in DOMAIN j.fresh[t] :
       /\ k \in 1 .. lastKey[t] /\ k \notin DOMAIN dictionary[t]
       /\ <<1, LockOf[j.fresh[t][k]]>> \in j.held
       /\ \A l \in DOMAIN dictionary[t] : dictionary[t][l] # j.fresh[t][k]
       /\ \A l \in DOMAIN j.fresh[t] : j.fresh[t][l] = j.fresh[t][k] => l = k
\* A key that was looked up is that of its bytes, or of none any more.
OwnKeys(j) ==
    \A t \in Table : \A s \in DOMAIN j.keys[t] :
       /\ j.keys[t][s] \in 1 .. lastKey[t]
       /\ j.keys[t][s] \in DOMAIN dictionary[t] => dictionary[t][j.keys[t][s]] = s
       /\ j.keys[t][s] \in DOMAIN j.fresh[t] => j.fresh[t][j.keys[t][s]] = s
\* What two transactions have of their own.
Distinct(i, j) ==
    /\ i.held \cap j.held = {}
    /\ \A t \in Table : DOMAIN i.fresh[t] \cap DOMAIN j.fresh[t] = {}
    /\ \A t \in Table : \A s \in DOMAIN i.keys[t] : i.keys[t][s] \notin DOMAIN j.fresh[t]

Locked(j, t) ==
    \A s \in TagBytes(j.batch, t) \ DOMAIN j.keys[t] : <<1, LockOf[s]>> \in j.want \cup j.held
Found(j, t) == TagBytes(j.batch, t) \subseteq DOMAIN j.keys[t]
Prepared(j) == j.apart /\ j.at \in {"begun", "ids"}
Brought(j) ==
    \/ j.at \in {"tags", "written"}
    \/ ~j.apart /\ j.at \in {"names", "values", "locks", "interned"}
\* How far a transaction is: locks for what is missing, keys for all tags,
\* locks of the objects that it describes, and references to what it sees.
Progress(j) ==
    /\ j.at \in {"values", "locks"} => Locked(j, 1)
    /\ j.at \in {"locks", "interned"} => Locked(j, 2)
    /\ j.at \in {"interned", "known", "tags", "written"} \/ Prepared(j) => Found(j, 1)
    /\ j.at \in {"known", "tags", "written"} \/ Prepared(j) => Found(j, 2)
    /\ j.at = "known" => j.apart
    /\ j.at \in {"begun", "ids"} \/ (j.apart /\ j.at \notin {"tags", "written"}) => j.finished = {}
    /\ j.at = "ids" => \A o \in DOMAIN j.batch \ whole : <<0, o>> \in j.want \cup j.held
    /\ \A o \in j.finished : o \notin whole /\ <<0, o>> \in j.held
    /\ Brought(j) => DOMAIN j.batch \subseteq whole \cup j.finished
    /\ j.at # "written" => DOMAIN j.rows = {}
    /\ j.at = "written" =>
          /\ DOMAIN j.rows \subseteq j.finished
          /\ Refer(j.rows, [t \in Table |-> Plus(dictionary[t], j.fresh[t])])

\* Committed references, and what has been reported.
Referred ==
    /\ Refer(tagRefs, dictionary) /\ DOMAIN tagRefs \subseteq whole
    /\ \A x \in reported : x[1] \in whole /\ Unpacked(Refs(tagRefs, x[1])) = x[2]
Removal ==
    removing # NoRemoval =>
       /\ removing = [table |-> removing.table, key |-> removing.key] /\ removing.table \in Table
       /\ \A r \in Recorder : recording[r].at # "written"
DictInv ==
    /\ DictShape /\ Interned /\ Referred /\ Removal
    /\ \A r \in Recorder : /\ RecordShape(recording[r]) /\ FreshKeys(recording[r])
                           /\ OwnKeys(recording[r]) /\ Progress(recording[r])
    /\ \A r, q \in Recorder : r # q => Distinct(recording[r], recording[q])

\* Two functions laid over each other.
LEMMA PlusTells ==
    ASSUME NEW f, NEW g
    PROVE  /\ DOMAIN Plus(f, g) = DOMAIN f \cup DOMAIN g
           /\ \A k \in DOMAIN f : Plus(f, g)[k] = f[k]
           /\ \A k \in DOMAIN g \ DOMAIN f : Plus(f, g)[k] = g[k]
BY DEF Plus

\* The bytes of every tag of a batch are among those looked up.
LEMMA TagBytesAll ==
    ASSUME NEW batch, \A o \in DOMAIN batch : batch[o] \in Seq(Nat \X Nat)
    PROVE  \A o \in DOMAIN batch : \A i \in DOMAIN batch[o] : \A t \in Table :
              batch[o][i][t] \in TagBytes(batch, t)
<1> SUFFICES ASSUME NEW o \in DOMAIN batch, NEW i \in DOMAIN batch[o], NEW t \in Table
             PROVE  batch[o][i][t] \in TagBytes(batch, t)
  OBVIOUS
<1>1. batch[o][i] \in ToSet(batch[o])
  BY DEF ToSet
<1>2. batch[o][i] \in UNION {ToSet(batch[p]) : p \in DOMAIN batch}
  BY <1>1
<1> QED
  BY <1>2 DEF TagBytes

\* Nothing is recorded.
LEMMA NothingYet ==
    ASSUME DictShape
    PROVE  RecordShape(Unwritten) /\ FreshKeys(Unwritten) /\ OwnKeys(Unwritten) /\ Progress(Unwritten)
<1>1. RecordShape(Unwritten)
  BY DEF RecordShape, Fields, Unwritten, NoKeys, Empty
<1>2. \A t \in Table : DOMAIN Unwritten.keys[t] = {} /\ DOMAIN Unwritten.fresh[t] = {}
  BY DEF Unwritten, NoKeys, Empty
<1>3. FreshKeys(Unwritten) /\ OwnKeys(Unwritten)
  BY <1>2 DEF FreshKeys, OwnKeys
<1>4. Progress(Unwritten)
  BY DEF Progress, Unwritten, Prepared, Brought, Empty
<1> QED
  BY <1>1, <1>3, <1>4

LEMMA DictStart == TagsInit => DictInv
<1> SUFFICES ASSUME TagsInit PROVE DictInv
  OBVIOUS
<1>1. DictShape /\ Interned
  BY DEF TagsInit, DictShape, Interned, NoKeys, Empty, Table
<1>2. Referred /\ Removal
  BY DEF TagsInit, Referred, Removal, NoRemoval, Refer, Empty
<1>3. \A r \in Recorder : recording[r] = Unwritten
  BY DEF TagsInit
<1>4. Distinct(Unwritten, Unwritten)
  BY DEF Distinct, Unwritten, NoKeys, Empty
<1> QED
  BY <1>1, <1>2, <1>3, <1>4, NothingYet DEF DictInv

\* A step of one transaction that commits nothing.
LEMMA OwnStep ==
    ASSUME DictInv, NEW r \in Recorder,
           UNCHANGED <<dictionary, tagRefs, whole, reported, removing>>,
           recording' = [recording EXCEPT ![r] = recording'[r]],
           lastKey' \in [Table -> Nat], \A t \in Table : lastKey[t] <= lastKey'[t],
           RecordShape(recording'[r]), FreshKeys(recording[r])', OwnKeys(recording[r])', Progress(recording[r])',
           \A q \in Recorder \ {r} : /\ Distinct(recording'[r], recording[q])
                                     /\ Distinct(recording[q], recording'[r]),
           recording'[r].at = "written" => removing = NoRemoval
    PROVE  DictInv'
<1>1. \A q \in Recorder \ {r} : recording'[q] = recording[q]
  BY DEF DictInv, DictShape
<1>2. DictShape'
  BY DEF DictInv, DictShape
<1>3. Interned' /\ Referred'
  BY DEF DictInv, Interned, Referred, Unpacked
<1>4. Removal'
  BY <1>1 DEF DictInv, Removal
<1>5. ASSUME NEW q \in Recorder \ {r}
      PROVE  RecordShape(recording[q])' /\ FreshKeys(recording[q])' /\ OwnKeys(recording[q])' /\ Progress(recording[q])'
  <2>1. /\ RecordShape(recording[q]) /\ FreshKeys(recording[q]) /\ OwnKeys(recording[q]) /\ Progress(recording[q])
        /\ recording'[q] = recording[q] /\ lastKey \in [Table -> Nat]
    BY <1>1 DEF DictInv, DictShape
  <2>2. RecordShape(recording[q])'
    BY <2>1 DEF RecordShape
  <2>3. FreshKeys(recording[q])'
    <3>1. ASSUME NEW t \in Table, NEW k \in DOMAIN recording[q].fresh[t]
          PROVE  k \in 1 .. lastKey'[t]
      <4>1. k \in 1 .. lastKey[t]
        BY <2>1 DEF FreshKeys
      <4>2. lastKey[t] \in Nat /\ lastKey'[t] \in Nat /\ lastKey[t] <= lastKey'[t]
        BY <2>1
      <4> QED
        BY <4>1, <4>2
    <3>2. dictionary' = dictionary
      OBVIOUS
    <3> QED
      BY <2>1, <3>1, <3>2 DEF FreshKeys
  <2>4. OwnKeys(recording[q])'
    BY <2>1 DEF OwnKeys
  <2>5. Progress(recording[q])'
    BY <2>1 DEF Progress, Locked, Found, Prepared, Brought
  <2> QED
    BY <2>2, <2>3, <2>4, <2>5
<1>6. RecordShape(recording[r])'
  BY DEF RecordShape
<1>7. ASSUME NEW p \in Recorder, NEW q \in Recorder, p # q PROVE Distinct(recording[p], recording[q])'
  <2>1. CASE p = r
    BY <1>1, <1>7, <2>1 DEF Distinct
  <2>2. CASE q = r
    BY <1>1, <1>7, <2>2 DEF Distinct
  <2>3. CASE p # r /\ q # r
    BY <1>1, <1>7, <2>3 DEF DictInv, Distinct
  <2> QED
    BY <2>1, <2>2, <2>3
<1> QED
  BY <1>2, <1>3, <1>4, <1>5, <1>6, <1>7 DEF DictInv

\* What a transaction sees.
LEMMA SeenTells ==
    ASSUME DictInv, NEW r \in Recorder, NEW t \in Table
    PROVE  /\ DOMAIN Seen(r, t) = DOMAIN dictionary[t] \cup DOMAIN recording[r].fresh[t]
           /\ \A k \in DOMAIN dictionary[t] : Seen(r, t)[k] = dictionary[t][k]
           /\ \A k \in DOMAIN recording[r].fresh[t] :
                 k \notin DOMAIN dictionary[t] /\ Seen(r, t)[k] = recording[r].fresh[t][k]
           /\ \A k \in DOMAIN Seen(r, t) :
                 /\ k \in 1 .. lastKey[t]
                 /\ \A q \in Recorder \ {r} : k \notin DOMAIN recording[q].fresh[t]
<1> DEFINE f == recording[r].fresh[t]
<1>1. \A k \in DOMAIN f : k \in 1 .. lastKey[t] /\ k \notin DOMAIN dictionary[t]
  BY DEF DictInv, FreshKeys
<1>2. \A k \in DOMAIN dictionary[t] : k \in 1 .. lastKey[t]
  BY DEF DictInv, DictShape
<1>3. \A q \in Recorder \ {r} : DOMAIN f \cap DOMAIN recording[q].fresh[t] = {}
  BY DEF DictInv, Distinct
<1>4. \A q \in Recorder \ {r} : DOMAIN dictionary[t] \cap DOMAIN recording[q].fresh[t] = {}
  BY DEF DictInv, FreshKeys
<1>5. /\ DOMAIN Seen(r, t) = DOMAIN dictionary[t] \cup DOMAIN f
      /\ \A k \in DOMAIN dictionary[t] : Seen(r, t)[k] = dictionary[t][k]
      /\ \A k \in DOMAIN f \ DOMAIN dictionary[t] : Seen(r, t)[k] = f[k]
  BY PlusTells DEF Seen
<1> QED
  BY <1>1, <1>2, <1>3, <1>4, <1>5

\* The keys of strings that have one.
LEMMA KeyTells ==
    ASSUME NEW entries, NEW strings
    PROVE  /\ DOMAIN KeysFor(entries, strings) = {s \in strings : HasString(entries, s)}
           /\ \A s \in DOMAIN KeysFor(entries, strings) :
                 /\ KeysFor(entries, strings)[s] \in DOMAIN entries
                 /\ entries[KeysFor(entries, strings)[s]] = s
<1>1. ASSUME NEW s, HasString(entries, s) PROVE KeyFor(entries, s) \in DOMAIN entries /\ entries[KeyFor(entries, s)] = s
  BY <1>1 DEF HasString, KeyFor
<1> QED
  BY <1>1 DEF KeysFor

\* A transaction begins, or starts anew.
LEMMA BeginKeeps ==
    ASSUME DictInv, NEW r \in Recorder, NEW batch \in Batches, NEW apart \in BOOLEAN, Begin(r, batch, apart)
    PROVE  DictInv'
<1>0. PICK i : i = [Unwritten EXCEPT !.at = IF apart THEN "names" ELSE "begun", !.batch = batch, !.apart = apart]
  OBVIOUS
<1>1. recording' = [recording EXCEPT ![r] = i] /\ recording'[r] = i
  BY <1>0 DEF Begin, Moves, DictInv, DictShape
<1>2. /\ Fields(i)
      /\ i.at = (IF apart THEN "names" ELSE "begun") /\ i.batch = batch /\ i.apart = apart /\ i.held = {}
      /\ i.keys = NoKeys /\ i.fresh = NoKeys /\ i.finished = {} /\ i.rows = Empty
  BY <1>0 DEF Unwritten, Fields
<1>3. \A t \in Table : DOMAIN NoKeys[t] = {}
  BY DEF NoKeys, Empty
<1>4. RecordShape(i)
  <2>1. \A o \in DOMAIN batch : batch[o] \in Seq(Nat \X Nat)
    BY TagsAssumption
  <2>2. NoKeys = [t \in Table |-> NoKeys[t]]
    BY DEF NoKeys
  <2> QED
    BY <1>2, <2>1, <2>2 DEF RecordShape
<1>5. FreshKeys(recording[r])' /\ OwnKeys(recording[r])'
  BY <1>1, <1>2, <1>3 DEF FreshKeys, OwnKeys
<1>6. Progress(recording[r])'
  <2>1. DOMAIN i.rows = {}
    BY <1>2 DEF Empty
  <2>2. i.at \in {"names", "begun"} /\ i.finished = {} /\ (i.at = "names" => i.apart) /\ (i.at = "begun" => ~i.apart)
    BY <1>2
  <2> QED
    BY <1>1, <2>1, <2>2 DEF Progress, Prepared, Brought
<1>7. \A q \in Recorder \ {r} : Distinct(i, recording[q]) /\ Distinct(recording[q], i)
  BY <1>2, <1>3 DEF Distinct
<1>8. lastKey' \in [Table -> Nat] /\ \A t \in Table : lastKey[t] <= lastKey'[t]
  BY DEF Begin, DictInv, DictShape
<1>9. UNCHANGED <<dictionary, tagRefs, whole, reported, removing>> /\ i.at # "written"
  BY <1>2 DEF Begin
<1> QED
  BY <1>1, <1>4, <1>5, <1>6, <1>7, <1>8, <1>9, OwnStep

LEMMA RollbackKeeps == ASSUME DictInv, NEW r \in Recorder, Rollback(r) PROVE DictInv'
<1>1. recording' = [recording EXCEPT ![r] = Unwritten] /\ recording'[r] = Unwritten
  BY DEF Rollback, Moves, DictInv, DictShape
<1>2. RecordShape(Unwritten) /\ FreshKeys(Unwritten) /\ OwnKeys(Unwritten) /\ Progress(Unwritten)
  BY NothingYet DEF DictInv
<1>3. \A t \in Table : DOMAIN Unwritten.keys[t] = {} /\ DOMAIN Unwritten.fresh[t] = {}
  BY DEF Unwritten, NoKeys, Empty
<1>4. FreshKeys(recording[r])' /\ OwnKeys(recording[r])'
  BY <1>1, <1>3 DEF FreshKeys, OwnKeys
<1>5. Progress(recording[r])'
  BY <1>1 DEF Progress, Prepared, Brought, Unwritten, Empty
<1>6. \A q \in Recorder \ {r} : Distinct(Unwritten, recording[q]) /\ Distinct(recording[q], Unwritten)
  BY <1>3 DEF Distinct, Unwritten
<1>7. lastKey' \in [Table -> Nat] /\ \A t \in Table : lastKey[t] <= lastKey'[t]
  BY DEF Rollback, DictInv, DictShape
<1>8. Unwritten.at # "written"
  BY DEF Unwritten
<1> QED
  BY <1>1, <1>2, <1>4, <1>5, <1>6, <1>7, <1>8, OwnStep DEF Rollback

\* What does not depend on keys of its own stays.
LEMMA LookupKeeps == ASSUME DictInv, NEW r \in Recorder, NEW t \in Table, Lookup(r, t) PROVE DictInv'
<1> DEFINE j == recording[r]
           strings == TagBytes(j.batch, t)
           found == KeysFor(Seen(r, t), strings)
           asked == j.want \cup {<<1, LockOf[s]>> : s \in {x \in strings : ~HasString(Seen(r, t), x)}}
<1>0. PICK i : i = [j EXCEPT !.at = IF t = 1 THEN "values" ELSE "locks", !.keys[t] = found, !.want = asked]
  OBVIOUS
<1>1. recording' = [recording EXCEPT ![r] = i] /\ recording'[r] = i
  BY <1>0 DEF Lookup, Moves, DictInv, DictShape
<1>2. RecordShape(j) /\ FreshKeys(j) /\ OwnKeys(j) /\ Progress(j)
  BY DEF DictInv
<1>3. /\ Fields(i) /\ i.at = (IF t = 1 THEN "values" ELSE "locks") /\ i.batch = j.batch /\ i.apart = j.apart
      /\ i.held = j.held /\ i.want = asked /\ i.fresh = j.fresh /\ i.finished = j.finished /\ i.rows = j.rows
      /\ i.keys = [j.keys EXCEPT ![t] = found]
  <2> HIDE DEF j, found, asked
  <2> QED
    BY <1>0, <1>2 DEF RecordShape, Fields
<1>4. /\ i.keys = [u \in Table |-> i.keys[u]] /\ i.keys[t] = found
      /\ \A u \in Table \ {t} : i.keys[u] = j.keys[u]
  BY <1>2, <1>3 DEF RecordShape
<1>5. RecordShape(i)
  BY <1>2, <1>3, <1>4 DEF RecordShape
<1>6. \A s \in DOMAIN found : /\ found[s] \in DOMAIN Seen(r, t) /\ Seen(r, t)[found[s]] = s
  BY KeyTells
<1> HIDE DEF found
<1>7. \A q \in Recorder \ {r} : Distinct(j, recording[q]) /\ Distinct(recording[q], j)
  BY DEF DictInv
<1>8. FreshKeys(recording[r])'
  BY <1>1, <1>2, <1>3 DEF FreshKeys, Lookup
<1>9. OwnKeys(recording[r])'
  <2>1. \A s \in DOMAIN found :
           /\ found[s] \in 1 .. lastKey[t]
           /\ found[s] \in DOMAIN dictionary[t] => dictionary[t][found[s]] = s
           /\ found[s] \in DOMAIN j.fresh[t] => j.fresh[t][found[s]] = s
    <3> SUFFICES ASSUME NEW s \in DOMAIN found
                 PROVE  /\ found[s] \in 1 .. lastKey[t]
                        /\ found[s] \in DOMAIN dictionary[t] => dictionary[t][found[s]] = s
                        /\ found[s] \in DOMAIN j.fresh[t] => j.fresh[t][found[s]] = s
      OBVIOUS
    <3>1. found[s] \in DOMAIN Seen(r, t) /\ Seen(r, t)[found[s]] = s
      BY <1>6
    <3>2. /\ \A k \in DOMAIN dictionary[t] : Seen(r, t)[k] = dictionary[t][k]
          /\ \A k \in DOMAIN recording[r].fresh[t] : Seen(r, t)[k] = recording[r].fresh[t][k]
          /\ \A k \in DOMAIN Seen(r, t) : k \in 1 .. lastKey[t]
      BY SeenTells
    <3> QED
      BY <3>1, <3>2
  <2>2. dictionary' = dictionary /\ lastKey' = lastKey
    BY DEF Lookup
  <2> QED
    BY <1>1, <1>2, <1>3, <1>4, <2>1, <2>2 DEF OwnKeys
<1>10. \A q \in Recorder \ {r} : Distinct(i, recording[q]) /\ Distinct(recording[q], i)
  <2>1. \A q \in Recorder \ {r} : \A s \in DOMAIN found : found[s] \notin DOMAIN recording[q].fresh[t]
    BY <1>6, SeenTells
  <2> QED
    BY <1>3, <1>4, <1>7, <2>1 DEF Distinct
<1>11. Progress(recording[r])'
  <2>1. Locked(i, t)
    <3>1. DOMAIN found = {s \in strings : HasString(Seen(r, t), s)}
      BY KeyTells DEF found
    <3> QED
      BY <1>3, <1>4, <3>1 DEF Locked
  <2>2. t = 2 => Locked(i, 1)
    <3>1. t = 2 => Locked(j, 1)
      BY <1>2 DEF Progress, Lookup
    <3> QED
      BY <1>3, <1>4, <3>1 DEF Locked, Table
  <2>3. j.at = (IF t = 1 THEN "names" ELSE "values") /\ t \in {1, 2} /\ whole' = whole
    BY DEF Lookup, Table
  <2>4. /\ i.at \in {"values", "locks"} => Locked(i, 1)
        /\ i.at \in {"locks", "interned"} => Locked(i, 2)
    BY <1>3, <2>1, <2>2, <2>3
  <2>5. i.at \in {"values", "locks"} /\ j.at \in {"names", "values"}
    BY <1>3, <2>3
  <2>6. /\ i.apart => i.finished = {}
        /\ \A o \in i.finished : o \notin whole /\ <<0, o>> \in i.held
        /\ ~i.apart => DOMAIN i.batch \subseteq whole \cup i.finished
        /\ DOMAIN i.rows = {}
    BY <1>2, <1>3, <2>5 DEF Progress, Brought
  <2> QED
    BY <1>1, <2>3, <2>4, <2>5, <2>6 DEF Progress, Locked, Found, Prepared, Brought
<1>12. lastKey' \in [Table -> Nat] /\ \A u \in Table : lastKey[u] <= lastKey'[u]
  BY DEF Lookup, DictInv, DictShape
<1>13. i.at # "written"
  BY <1>3
<1> QED
  BY <1>1, <1>5, <1>8, <1>9, <1>10, <1>11, <1>12, <1>13, OwnStep DEF Lookup

\* Steps that only lock or note what is to be recorded.
LEMMA PlainMove ==
    ASSUME DictInv, NEW r \in Recorder, NEW i,
           recording' = [recording EXCEPT ![r] = i],
           UNCHANGED <<dictionary, lastKey, tagRefs, whole, reported, removing>>,
           RecordShape(i), i.fresh = recording[r].fresh, i.keys = recording[r].keys,
           recording[r].held \subseteq i.held,
           \A q \in Recorder \ {r} : i.held \cap recording[q].held = {},
           Progress(i)', i.at = "written" => removing = NoRemoval
    PROVE  DictInv'
<1>1. recording'[r] = i
  BY DEF DictInv, DictShape
<1>2. FreshKeys(recording[r]) /\ OwnKeys(recording[r])
  BY DEF DictInv
<1>3. FreshKeys(recording[r])' /\ OwnKeys(recording[r])'
  BY <1>1, <1>2 DEF FreshKeys, OwnKeys
<1>4. Progress(recording[r])'
  BY <1>1 DEF Progress, Locked, Found, Prepared, Brought
<1>5. \A q \in Recorder \ {r} : Distinct(i, recording[q]) /\ Distinct(recording[q], i)
  BY DEF DictInv, Distinct
<1>6. lastKey' \in [Table -> Nat] /\ \A u \in Table : lastKey[u] <= lastKey'[u]
  BY DEF DictInv, DictShape
<1> QED
  BY <1>1, <1>3, <1>4, <1>5, <1>6, OwnStep

LEMMA TakeKeeps == ASSUME DictInv, NEW r \in Recorder, Take(r) PROVE DictInv'
<1>1. PICK j : j = recording[r] /\ RecordShape(j) /\ FreshKeys(j) /\ OwnKeys(j) /\ Progress(j)
  BY DEF DictInv
<1>2. PICK lock \in j.want : /\ \A q \in Recorder \ {r} : lock \notin recording[q].held
                             /\ recording' = [recording EXCEPT ![r] = [j EXCEPT !.want = @ \ {lock}, !.held = @ \cup {lock}]]
  BY <1>1 DEF Take, Moves
<1>3. PICK i : i = [j EXCEPT !.want = @ \ {lock}, !.held = @ \cup {lock}]
  OBVIOUS
<1>4. /\ Fields(i) /\ i.at = j.at /\ i.batch = j.batch /\ i.apart = j.apart /\ i.keys = j.keys
      /\ i.want = j.want \ {lock} /\ i.held = j.held \cup {lock} /\ i.fresh = j.fresh
      /\ i.finished = j.finished /\ i.rows = j.rows
  BY <1>1, <1>3 DEF RecordShape, Fields
<1>5. RecordShape(i)
  BY <1>1, <1>4 DEF RecordShape
<1>6. \A q \in Recorder \ {r} : i.held \cap recording[q].held = {}
  BY <1>1, <1>2, <1>4 DEF DictInv, Distinct
<1>7. i.want \cup i.held = j.want \cup j.held
  BY <1>4
<1>8. UNCHANGED <<dictionary, lastKey, tagRefs, whole, reported, removing>>
  BY DEF Take
<1>9. Progress(i)'
  <2>1. \A t \in Table : Locked(j, t) => Locked(i, t)
    BY <1>4, <1>7 DEF Locked
  <2>2. \A o \in j.finished : o \notin whole /\ <<0, o>> \in i.held
    BY <1>1, <1>4 DEF Progress
  <2>3. j.at = "ids" => \A o \in DOMAIN j.batch \ whole : <<0, o>> \in i.want \cup i.held
    BY <1>1, <1>7 DEF Progress
  <2> QED
    BY <1>1, <1>4, <1>8, <2>1, <2>2, <2>3 DEF Progress, Locked, Found, Prepared, Brought, Table
<1>10. i.at = "written" => removing = NoRemoval
  BY <1>1, <1>4 DEF DictInv, Removal
<1> QED
  BY <1>1, <1>2, <1>3, <1>4, <1>5, <1>6, <1>8, <1>9, <1>10, PlainMove

LEMMA LockObjectsKeeps == ASSUME DictInv, NEW r \in Recorder, LockObjects(r) PROVE DictInv'
<1>1. PICK j : j = recording[r] /\ RecordShape(j) /\ FreshKeys(j) /\ OwnKeys(j) /\ Progress(j) /\ j.at = "begun"
  BY DEF DictInv, LockObjects
<1>2. PICK i : i = [j EXCEPT !.at = "ids", !.want = {<<0, o>> : o \in DOMAIN j.batch \ whole}]
  OBVIOUS
<1>3. recording' = [recording EXCEPT ![r] = i]
  BY <1>1, <1>2 DEF LockObjects, Moves
<1>4. /\ Fields(i) /\ i.at = "ids" /\ i.batch = j.batch /\ i.apart = j.apart /\ i.keys = j.keys
      /\ i.want = {<<0, o>> : o \in DOMAIN j.batch \ whole} /\ i.held = j.held /\ i.fresh = j.fresh
      /\ i.finished = j.finished /\ i.rows = j.rows
  BY <1>1, <1>2 DEF RecordShape, Fields
<1>5. RecordShape(i)
  BY <1>1, <1>4 DEF RecordShape
<1>6. \A q \in Recorder \ {r} : i.held \cap recording[q].held = {}
  BY <1>1, <1>4 DEF DictInv, Distinct
<1>7. UNCHANGED <<dictionary, lastKey, tagRefs, whole, reported, removing>>
  BY DEF LockObjects
<1>8. Progress(i)'
  BY <1>1, <1>4, <1>7 DEF Progress, Found, Prepared, Brought
<1> QED
  BY <1>1, <1>3, <1>4, <1>5, <1>6, <1>7, <1>8, PlainMove

LEMMA WriteObjectsKeeps == ASSUME DictInv, NEW r \in Recorder, WriteObjects(r) PROVE DictInv'
<1>1. PICK j : /\ j = recording[r] /\ RecordShape(j) /\ FreshKeys(j) /\ OwnKeys(j) /\ Progress(j)
               /\ j.at = "ids" /\ j.want = {}
  BY DEF DictInv, WriteObjects
<1>2. PICK i : i = [j EXCEPT !.at = IF j.apart THEN "tags" ELSE "names", !.finished = DOMAIN j.batch \ whole]
  OBVIOUS
<1>3. recording' = [recording EXCEPT ![r] = i]
  BY <1>1, <1>2 DEF WriteObjects, Moves
<1>4. /\ Fields(i) /\ i.at = (IF j.apart THEN "tags" ELSE "names") /\ i.batch = j.batch /\ i.apart = j.apart
      /\ i.keys = j.keys /\ i.want = j.want /\ i.held = j.held /\ i.fresh = j.fresh
      /\ i.finished = DOMAIN j.batch \ whole /\ i.rows = j.rows
  BY <1>1, <1>2 DEF RecordShape, Fields
<1>5. RecordShape(i)
  BY <1>1, <1>4 DEF RecordShape
<1>6. \A q \in Recorder \ {r} : i.held \cap recording[q].held = {}
  BY <1>1, <1>4 DEF DictInv, Distinct
<1>7. UNCHANGED <<dictionary, lastKey, tagRefs, whole, reported, removing>>
  BY DEF WriteObjects
<1>8. Progress(i)'
  <2>1. \A o \in i.finished : o \notin whole /\ <<0, o>> \in i.held
    BY <1>1, <1>4 DEF Progress
  <2>2. j.apart => Found(i, 1) /\ Found(i, 2)
    BY <1>1, <1>4 DEF Progress, Found, Prepared
  <2>3. DOMAIN i.rows = {} /\ DOMAIN i.batch \subseteq whole \cup i.finished
    BY <1>1, <1>4 DEF Progress
  <2>4. (i.at = "tags" /\ i.apart) \/ (i.at = "names" /\ ~i.apart)
    BY <1>4
  <2> QED
    BY <1>4, <1>7, <2>1, <2>2, <2>3, <2>4 DEF Progress, Found, Prepared, Brought
<1>9. i.at # "written"
  BY <1>4
<1> QED
  BY <1>1, <1>3, <1>4, <1>5, <1>6, <1>7, <1>8, <1>9, PlainMove

LEMMA WriteTagsKeeps == ASSUME DictInv, NEW r \in Recorder, WriteTags(r) PROVE DictInv'
<1>1. PICK j : /\ j = recording[r] /\ RecordShape(j) /\ FreshKeys(j) /\ OwnKeys(j) /\ Progress(j) /\ j.at = "tags"
  BY DEF DictInv, WriteTags
<1>2. PICK rows : /\ DOMAIN rows \subseteq j.finished /\ Refer(rows, [t \in Table |-> Seen(r, t)])
                  /\ recording' = [recording EXCEPT ![r] = [j EXCEPT !.at = "written", !.rows = rows]]
  <2> DEFINE new == [o \in {x \in j.finished : j.batch[x] # << >> /\ x \notin DOMAIN tagRefs} |->
                       Pack(j.batch[o], j.keys)]
  <2>1. DOMAIN new \subseteq j.finished
    OBVIOUS
  <2>2. /\ Refer(new, [t \in Table |-> Seen(r, t)])
        /\ recording' = [recording EXCEPT ![r] = [j EXCEPT !.at = "written", !.rows = new]]
    BY <1>1 DEF WriteTags, Moves
  <2> QED
    BY <2>1, <2>2
<1>3. PICK i : i = [j EXCEPT !.at = "written", !.rows = rows]
  OBVIOUS
<1>4. /\ Fields(i) /\ i.at = "written" /\ i.batch = j.batch /\ i.apart = j.apart
      /\ i.keys = j.keys /\ i.want = j.want /\ i.held = j.held /\ i.fresh = j.fresh
      /\ i.finished = j.finished /\ i.rows = rows
  BY <1>1, <1>3 DEF RecordShape, Fields
<1>5. RecordShape(i)
  BY <1>1, <1>4 DEF RecordShape
<1>6. \A q \in Recorder \ {r} : i.held \cap recording[q].held = {}
  BY <1>1, <1>4 DEF DictInv, Distinct
<1>7. UNCHANGED <<dictionary, lastKey, tagRefs, whole, reported, removing>> /\ removing = NoRemoval
  BY DEF WriteTags
<1>8. Progress(i)'
  <2>1. \A o \in i.finished : o \notin whole /\ <<0, o>> \in i.held
    BY <1>1, <1>4 DEF Progress
  <2>2. Found(i, 1) /\ Found(i, 2)
    BY <1>1, <1>4 DEF Progress, Found
  <2>3. DOMAIN i.batch \subseteq whole \cup i.finished
    BY <1>1, <1>4 DEF Progress, Brought
  <2>4. Refer(i.rows, [t \in Table |-> Plus(dictionary[t], i.fresh[t])])
    BY <1>1, <1>2, <1>4 DEF Seen
  <2>5. DOMAIN i.rows \subseteq i.finished
    BY <1>2, <1>4
  <2> QED
    BY <1>4, <1>7, <2>1, <2>2, <2>3, <2>4, <2>5 DEF Progress, Found, Prepared, Brought
<1> QED
  BY <1>1, <1>2, <1>3, <1>4, <1>5, <1>6, <1>7, <1>8, PlainMove

\* New keys are above all others, and only what the locks cover is added.
LEMMA InternKeeps == ASSUME DictInv, NEW r \in Recorder, NEW t \in Table, Intern(r, t) PROVE DictInv'
<1>1. PICK j : /\ j = recording[r] /\ RecordShape(j) /\ FreshKeys(j) /\ OwnKeys(j) /\ Progress(j)
               /\ j.at = (IF t = 1 THEN "locks" ELSE "interned") /\ j.want = {}
  BY DEF DictInv, Intern
<1> DEFINE missing == TagBytes(j.batch, t) \ DOMAIN j.keys[t]
           absent == {s \in missing : ~HasString(Seen(r, t), s)}
           next == IF t = 1 THEN "interned" ELSE IF j.apart THEN "known" ELSE "tags"
<1>2. PICK last \in lastKey[t] .. MaxKey : \E added \in [lastKey[t] + 1 .. last -> absent] :
         LET now == Plus(Seen(r, t), added)
         IN /\ \A s \in missing : \E k \in DOMAIN now : \A l \in DOMAIN now : now[l] = s <=> l = k
            /\ lastKey' = [lastKey EXCEPT ![t] = last]
            /\ Moves(r, [j EXCEPT !.at = next, !.fresh[t] = Plus(@, added), !.keys[t] = Plus(@, KeysFor(now, missing))])
  BY ZenonT(60), <1>1 DEF Intern
<1>a. PICK added \in [lastKey[t] + 1 .. last -> absent] :
         LET now == Plus(Seen(r, t), added)
         IN /\ \A s \in missing : \E k \in DOMAIN now : \A l \in DOMAIN now : now[l] = s <=> l = k
            /\ lastKey' = [lastKey EXCEPT ![t] = last]
            /\ Moves(r, [j EXCEPT !.at = next, !.fresh[t] = Plus(@, added), !.keys[t] = Plus(@, KeysFor(now, missing))])
  BY <1>2
<1> DEFINE now == Plus(Seen(r, t), added)
           got == KeysFor(now, missing)
<1>3. PICK i : i = [j EXCEPT !.at = next, !.fresh[t] = Plus(@, added), !.keys[t] = Plus(@, got)]
  OBVIOUS
<1>4. recording' = [recording EXCEPT ![r] = i] /\ recording'[r] = i
  BY <1>a, <1>3 DEF Moves, DictInv, DictShape
<1>5. /\ \A s \in missing : \E k \in DOMAIN now : \A l \in DOMAIN now : now[l] = s <=> l = k
      /\ lastKey' = [lastKey EXCEPT ![t] = last]
      /\ DOMAIN added = lastKey[t] + 1 .. last /\ \A k \in DOMAIN added : added[k] \in absent
  BY <1>a
<1>6. DOMAIN got = {s \in missing : HasString(now, s)} /\ \A s \in DOMAIN got : got[s] \in DOMAIN now /\ now[got[s]] = s
  <2> HIDE DEF now, missing
  <2> QED
    BY KeyTells
<1>7. /\ Fields(i) /\ i.at = next /\ i.batch = j.batch /\ i.apart = j.apart /\ i.want = j.want /\ i.held = j.held
      /\ i.finished = j.finished /\ i.rows = j.rows
      /\ i.fresh = [j.fresh EXCEPT ![t] = Plus(@, added)] /\ i.keys = [j.keys EXCEPT ![t] = Plus(@, got)]
  <2> HIDE DEF got, missing, next
  <2> QED
    BY <1>1, <1>3 DEF RecordShape, Fields
<1> HIDE DEF got, next
<1>8. /\ i.keys = [u \in Table |-> i.keys[u]] /\ i.fresh = [u \in Table |-> i.fresh[u]]
      /\ i.fresh[t] = Plus(j.fresh[t], added) /\ i.keys[t] = Plus(j.keys[t], got)
      /\ \A u \in Table \ {t} : i.keys[u] = j.keys[u] /\ i.fresh[u] = j.fresh[u]
  BY <1>1, <1>7 DEF RecordShape
<1>9. /\ DOMAIN i.fresh[t] = DOMAIN j.fresh[t] \cup DOMAIN added
      /\ \A k \in DOMAIN j.fresh[t] : i.fresh[t][k] = j.fresh[t][k]
      /\ \A k \in DOMAIN added \ DOMAIN j.fresh[t] : i.fresh[t][k] = added[k]
      /\ DOMAIN i.keys[t] = DOMAIN j.keys[t] \cup DOMAIN got
      /\ \A s \in DOMAIN j.keys[t] : i.keys[t][s] = j.keys[t][s]
      /\ \A s \in DOMAIN got \ DOMAIN j.keys[t] : i.keys[t][s] = got[s]
  <2>1. PICK f : f = j.fresh[t] /\ i.fresh[t] = Plus(f, added)
    BY <1>8
  <2>2. PICK g : g = j.keys[t] /\ i.keys[t] = Plus(g, got)
    BY <1>8
  <2>3. /\ DOMAIN Plus(f, added) = DOMAIN f \cup DOMAIN added
        /\ \A k \in DOMAIN f : Plus(f, added)[k] = f[k]
        /\ \A k \in DOMAIN added \ DOMAIN f : Plus(f, added)[k] = added[k]
    BY PlusTells
  <2>4. /\ DOMAIN Plus(g, got) = DOMAIN g \cup DOMAIN got
        /\ \A s \in DOMAIN g : Plus(g, got)[s] = g[s]
        /\ \A s \in DOMAIN got \ DOMAIN g : Plus(g, got)[s] = got[s]
    BY PlusTells
  <2> QED
    BY <2>1, <2>2, <2>3, <2>4
<1>10. /\ lastKey[t] \in Nat /\ last \in Nat /\ lastKey[t] <= last /\ lastKey'[t] = last
       /\ \A u \in Table \ {t} : lastKey'[u] = lastKey[u]
       /\ lastKey' \in [Table -> Nat] /\ \A u \in Table : lastKey[u] <= lastKey'[u]
  <2>1. lastKey \in [Table -> Nat]
    BY DEF DictInv, DictShape
  <2>2. lastKey[t] \in Nat /\ last \in Nat /\ lastKey[t] <= last
    BY <1>2, <2>1, TagsAssumption
  <2> QED
    BY <1>5, <2>1, <2>2
<1>11. /\ DOMAIN Seen(r, t) = DOMAIN dictionary[t] \cup DOMAIN j.fresh[t]
       /\ \A k \in DOMAIN dictionary[t] : Seen(r, t)[k] = dictionary[t][k]
       /\ \A k \in DOMAIN j.fresh[t] : k \notin DOMAIN dictionary[t] /\ Seen(r, t)[k] = j.fresh[t][k]
       /\ \A k \in DOMAIN Seen(r, t) : k \in 1 .. lastKey[t] /\ \A q \in Recorder \ {r} : k \notin DOMAIN recording[q].fresh[t]
  <2>1. /\ DOMAIN Seen(r, t) = DOMAIN dictionary[t] \cup DOMAIN recording[r].fresh[t]
        /\ \A k \in DOMAIN dictionary[t] : Seen(r, t)[k] = dictionary[t][k]
        /\ \A k \in DOMAIN recording[r].fresh[t] :
              k \notin DOMAIN dictionary[t] /\ Seen(r, t)[k] = recording[r].fresh[t][k]
        /\ \A k \in DOMAIN Seen(r, t) :
              k \in 1 .. lastKey[t] /\ \A q \in Recorder \ {r} : k \notin DOMAIN recording[q].fresh[t]
    BY SeenTells
  <2> QED
    BY <1>1, <2>1
<1>12. \A k \in DOMAIN added : /\ k \in 1 .. last /\ k \notin 1 .. lastKey[t]
                               /\ k \notin DOMAIN dictionary[t] /\ k \notin DOMAIN j.fresh[t]
  <2>1. \A k \in DOMAIN added : k \in 1 .. last /\ k \notin 1 .. lastKey[t]
    BY <1>5, <1>10
  <2> QED
    BY <1>11, <2>1
<1>13. /\ DOMAIN now = DOMAIN dictionary[t] \cup DOMAIN i.fresh[t]
       /\ \A k \in DOMAIN dictionary[t] : now[k] = dictionary[t][k]
       /\ \A k \in DOMAIN i.fresh[t] : now[k] = i.fresh[t][k]
       /\ \A k \in DOMAIN now : k \in 1 .. last
  <2>1. /\ DOMAIN now = DOMAIN Seen(r, t) \cup DOMAIN added
        /\ \A k \in DOMAIN Seen(r, t) : now[k] = Seen(r, t)[k]
        /\ \A k \in DOMAIN added \ DOMAIN Seen(r, t) : now[k] = added[k]
    BY PlusTells
  <2>2. \A k \in 1 .. lastKey[t] : k \in 1 .. last
    BY <1>10
  <2> HIDE DEF now
  <2> QED
    BY <1>9, <1>11, <1>12, <2>1, <2>2
<1>14. \A q \in Recorder \ {r} : \A k \in DOMAIN now : k \notin DOMAIN recording[q].fresh[t]
  <2>1. \A q \in Recorder \ {r} : \A k \in DOMAIN recording[q].fresh[t] : k \in 1 .. lastKey[t]
    BY DEF DictInv, FreshKeys
  <2> HIDE DEF now
  <2> QED
    BY <1>9, <1>11, <1>12, <1>13, <2>1
<1>15. RecordShape(i)
  BY <1>1, <1>7, <1>8 DEF RecordShape
<1>16. UNCHANGED <<dictionary, tagRefs, whole, reported, removing>>
  BY DEF Intern
<1> HIDE DEF now
<1>17. \A k \in DOMAIN added : /\ <<1, LockOf[added[k]]>> \in j.held
                               /\ \A l \in DOMAIN Seen(r, t) : Seen(r, t)[l] # added[k]
                               /\ added[k] \in missing
  <2>1. Locked(j, t)
    BY <1>1 DEF Progress, Table
  <2> QED
    BY <1>1, <1>5, <2>1 DEF Locked, HasString
<1>18. FreshKeys(recording[r])'
  <2>0. recording'[r] = i /\ dictionary' = dictionary
    BY <1>4, <1>16
  <2> SUFFICES ASSUME NEW u \in Table, NEW k \in DOMAIN i.fresh[u]
               PROVE  /\ k \in 1 .. lastKey'[u] /\ k \notin DOMAIN dictionary[u]
                      /\ <<1, LockOf[i.fresh[u][k]]>> \in i.held
                      /\ \A l \in DOMAIN dictionary[u] : dictionary[u][l] # i.fresh[u][k]
                      /\ \A l \in DOMAIN i.fresh[u] : i.fresh[u][l] = i.fresh[u][k] => l = k
    BY <2>0, Zenon DEF FreshKeys
  <2>1. CASE u # t
    <3>1. i.fresh[u] = j.fresh[u] /\ lastKey'[u] = lastKey[u] /\ i.held = j.held
      BY <1>7, <1>8, <1>10, <2>1
    <3> QED
      BY <1>1, <3>1 DEF FreshKeys
  <2>2. CASE u = t /\ k \in DOMAIN j.fresh[t]
    <3>1. /\ k \in 1 .. lastKey[t] /\ k \notin DOMAIN dictionary[t]
          /\ <<1, LockOf[j.fresh[t][k]]>> \in j.held
          /\ \A l \in DOMAIN dictionary[t] : dictionary[t][l] # j.fresh[t][k]
          /\ \A l \in DOMAIN j.fresh[t] : j.fresh[t][l] = j.fresh[t][k] => l = k
      BY <1>1, <2>2 DEF FreshKeys
    <3>2. k \in 1 .. last
      BY <1>10, <3>1
    <3>3. \A l \in DOMAIN added : added[l] # j.fresh[t][k]
      BY <1>11, <1>17, <2>2
    <3> QED
      BY <1>7, <1>9, <1>10, <1>12, <2>2, <3>1, <3>2, <3>3
  <2>3. CASE u = t /\ k \in DOMAIN added
    <3>1. i.fresh[t][k] = added[k] /\ <<1, LockOf[added[k]]>> \in i.held /\ added[k] \in missing
      BY <1>7, <1>9, <1>12, <1>17, <2>3
    <3>2. \A l \in DOMAIN dictionary[t] : dictionary[t][l] # added[k]
      BY <1>11, <1>17, <2>3
    <3>3. \A l \in DOMAIN i.fresh[t] : i.fresh[t][l] = i.fresh[t][k] => l = k
      <4>1. PICK m \in DOMAIN now : \A l \in DOMAIN now : now[l] = added[k] <=> l = m
        BY <1>5, <3>1
      <4> QED
        BY <1>13, <2>3, <3>1, <4>1
    <3> QED
      BY <1>10, <1>12, <2>3, <3>1, <3>2, <3>3
  <2> QED
    BY <1>9, <2>1, <2>2, <2>3
<1>19. OwnKeys(recording[r])'
  <2> SUFFICES ASSUME NEW u \in Table, NEW s \in DOMAIN i.keys[u]
               PROVE  /\ i.keys[u][s] \in 1 .. lastKey'[u]
                      /\ i.keys[u][s] \in DOMAIN dictionary[u] => dictionary[u][i.keys[u][s]] = s
                      /\ i.keys[u][s] \in DOMAIN i.fresh[u] => i.fresh[u][i.keys[u][s]] = s
    BY <1>4, <1>16 DEF OwnKeys
  <2>1. CASE u # t
    BY <1>1, <1>8, <1>10, <2>1 DEF OwnKeys
  <2>2. CASE u = t /\ s \in DOMAIN j.keys[t]
    <3>0. s \in DOMAIN j.keys[t]
      BY <2>2
    <3>1. PICK k : k = j.keys[t][s] /\ k = i.keys[t][s]
      BY <1>9, <3>0
    <3>2. /\ k \in 1 .. lastKey[t]
          /\ k \in DOMAIN dictionary[t] => dictionary[t][k] = s
          /\ k \in DOMAIN j.fresh[t] => j.fresh[t][k] = s
      <4>1. OwnKeys(j)
        BY <1>1
      <4>2. /\ j.keys[t][s] \in 1 .. lastKey[t]
            /\ j.keys[t][s] \in DOMAIN dictionary[t] => dictionary[t][j.keys[t][s]] = s
            /\ j.keys[t][s] \in DOMAIN j.fresh[t] => j.fresh[t][j.keys[t][s]] = s
        BY Zenon, <3>0, <4>1 DEF OwnKeys
      <4> QED
        BY <3>1, <4>2
    <3>3. k \in 1 .. last /\ k \notin DOMAIN added
      BY <1>10, <1>12, <3>2
    <3> QED
      BY <1>9, <1>10, <2>2, <3>1, <3>2, <3>3
  <2>3. CASE u = t /\ s \in DOMAIN got \ DOMAIN j.keys[t]
    <3>1. i.keys[t][s] = got[s] /\ got[s] \in DOMAIN now /\ now[got[s]] = s
      BY <1>6, <1>9, <2>3
    <3> QED
      BY <1>10, <1>13, <2>3, <3>1
  <2> QED
    BY <1>9, <2>1, <2>2, <2>3
<1>20. \A q \in Recorder \ {r} : Distinct(i, recording[q]) /\ Distinct(recording[q], i)
  <2> SUFFICES ASSUME NEW q \in Recorder \ {r} PROVE Distinct(i, recording[q]) /\ Distinct(recording[q], i)
    OBVIOUS
  <2>1. Distinct(j, recording[q]) /\ Distinct(recording[q], j) /\ OwnKeys(recording[q])
    BY <1>1 DEF DictInv
  <2>2. \A k \in DOMAIN i.fresh[t] : k \notin DOMAIN recording[q].fresh[t]
    BY <1>13, <1>14
  <2>3. \A s \in DOMAIN i.keys[t] : i.keys[t][s] \notin DOMAIN recording[q].fresh[t]
    BY <1>6, <1>9, <1>14, <2>1 DEF Distinct
  <2>4. \A s \in DOMAIN recording[q].keys[t] : recording[q].keys[t][s] \notin DOMAIN i.fresh[t]
    BY <1>9, <1>12, <2>1 DEF Distinct, OwnKeys
  <2> QED
    BY <1>7, <1>8, <2>1, <2>2, <2>3, <2>4 DEF Distinct
<1>21. Found(i, t)
  <2>1. \A s \in missing : HasString(now, s)
    BY <1>5 DEF HasString
  <2> QED
    BY <1>6, <1>7, <1>9, <2>1 DEF Found
<1>22. Progress(recording[r])'
  <2>1. t = 1 => Locked(i, 2)
    <3>1. t = 1 => Locked(j, 2)
      BY <1>1 DEF Progress
    <3> QED
      BY <1>7, <1>8, <3>1 DEF Locked, Table
  <2>2. t = 2 => Found(i, 1)
    <3>1. t = 2 => Found(j, 1)
      BY <1>1 DEF Progress
    <3> QED
      BY <1>7, <1>8, <3>1 DEF Found, Table
  <2>3. t \in {1, 2}
    BY DEF Table
  <2>4. /\ i.at = "interned" => Locked(i, 2) /\ Found(i, 1)
        /\ i.at \in {"known", "tags"} => Found(i, 1) /\ Found(i, 2)
        /\ i.at \in {"interned", "known", "tags"} /\ (i.at = "known" => i.apart) /\ (i.at = "tags" => ~i.apart)
    BY <1>7, <1>21, <2>1, <2>2, <2>3 DEF next
  <2>5. /\ i.apart => i.finished = {}
        /\ \A o \in i.finished : o \notin whole /\ <<0, o>> \in i.held
        /\ ~i.apart => DOMAIN i.batch \subseteq whole \cup i.finished
        /\ DOMAIN i.rows = {}
    BY <1>1, <1>7, <2>3 DEF Progress, Brought
  <2> QED
    BY <1>4, <1>16, <2>4, <2>5 DEF Progress, Locked, Found, Prepared, Brought
<1>23. i.at # "written"
  BY <1>7 DEF next
<1> QED
  BY <1>4, <1>10, <1>15, <1>16, <1>18, <1>19, <1>20, <1>22, <1>23, OwnStep

\* What a transaction added becomes the dictionary of all.
LEMMA CommitTells ==
    ASSUME DictInv, NEW r \in Recorder, dictionary' = [t \in Table |-> Seen(r, t)], UNCHANGED lastKey,
           recording' = [recording EXCEPT ![r] = recording'[r]]
    PROVE  /\ DictShape' /\ Interned'
           /\ \A t \in Table :
                 /\ DOMAIN dictionary'[t] = DOMAIN dictionary[t] \cup DOMAIN recording[r].fresh[t]
                 /\ \A k \in DOMAIN dictionary[t] : dictionary'[t][k] = dictionary[t][k]
                 /\ \A k \in DOMAIN recording[r].fresh[t] : dictionary'[t][k] = recording[r].fresh[t][k]
           /\ \A q \in Recorder \ {r} : /\ recording'[q] = recording[q]
                                        /\ FreshKeys(recording[q])' /\ OwnKeys(recording[q])'
           /\ \A t \in Table : \A s \in DOMAIN recording[r].keys[t] :
                 /\ recording[r].keys[t][s] \in 1 .. lastKey[t]
                 /\ recording[r].keys[t][s] \in DOMAIN dictionary'[t] => dictionary'[t][recording[r].keys[t][s]] = s
<1> DEFINE j == recording[r]
<1>1. RecordShape(j) /\ FreshKeys(j) /\ OwnKeys(j)
  BY DEF DictInv
<1>2. \A t \in Table :
         /\ DOMAIN dictionary'[t] = DOMAIN dictionary[t] \cup DOMAIN j.fresh[t]
         /\ \A k \in DOMAIN dictionary[t] : dictionary'[t][k] = dictionary[t][k]
         /\ \A k \in DOMAIN j.fresh[t] : dictionary'[t][k] = j.fresh[t][k]
         /\ \A k \in DOMAIN dictionary'[t] : k \in 1 .. lastKey[t]
         /\ \A q \in Recorder \ {r} : \A k \in DOMAIN dictionary'[t] : k \notin DOMAIN recording[q].fresh[t]
  <2> SUFFICES ASSUME NEW t \in Table
               PROVE  /\ DOMAIN dictionary'[t] = DOMAIN dictionary[t] \cup DOMAIN j.fresh[t]
                      /\ \A k \in DOMAIN dictionary[t] : dictionary'[t][k] = dictionary[t][k]
                      /\ \A k \in DOMAIN j.fresh[t] : dictionary'[t][k] = j.fresh[t][k]
                      /\ \A k \in DOMAIN dictionary'[t] : k \in 1 .. lastKey[t]
                      /\ \A q \in Recorder \ {r} : \A k \in DOMAIN dictionary'[t] : k \notin DOMAIN recording[q].fresh[t]
    OBVIOUS
  <2>1. dictionary'[t] = Seen(r, t)
    OBVIOUS
  <2>2. /\ DOMAIN Seen(r, t) = DOMAIN dictionary[t] \cup DOMAIN j.fresh[t]
        /\ \A k \in DOMAIN dictionary[t] : Seen(r, t)[k] = dictionary[t][k]
        /\ \A k \in DOMAIN j.fresh[t] : k \notin DOMAIN dictionary[t] /\ Seen(r, t)[k] = j.fresh[t][k]
        /\ \A k \in DOMAIN Seen(r, t) : k \in 1 .. lastKey[t] /\ \A q \in Recorder \ {r} : k \notin DOMAIN recording[q].fresh[t]
    BY SeenTells
  <2> QED
    BY <2>1, <2>2
<1>3. \A q \in Recorder \ {r} : recording'[q] = recording[q]
  BY DEF DictInv, DictShape
<1>4. DictShape'
  BY <1>2 DEF DictInv, DictShape
<1>5. Interned'
  <2> SUFFICES ASSUME NEW t \in Table, NEW k \in DOMAIN dictionary'[t], NEW l \in DOMAIN dictionary'[t],
                      dictionary'[t][k] = dictionary'[t][l]
               PROVE  k = l
    BY DEF Interned
  <2>1. CASE k \in DOMAIN dictionary[t] /\ l \in DOMAIN dictionary[t]
    <3>1. dictionary[t][k] = dictionary[t][l]
      BY <1>2, <2>1
    <3> QED
      BY <2>1, <3>1 DEF DictInv, Interned
  <2>2. CASE k \in DOMAIN j.fresh[t]
    <3>1. /\ \A m \in DOMAIN dictionary[t] : dictionary[t][m] # j.fresh[t][k]
          /\ \A m \in DOMAIN j.fresh[t] : j.fresh[t][m] = j.fresh[t][k] => m = k
      BY Zenon, <1>1, <2>2 DEF FreshKeys
    <3> QED
      <4>1. dictionary'[t][k] = j.fresh[t][k] /\ j.fresh[t][k] = dictionary'[t][l]
        BY <1>2, <2>2
      <4>2. l \notin DOMAIN dictionary[t]
        BY <1>2, <3>1, <4>1
      <4>3. l \in DOMAIN j.fresh[t] /\ j.fresh[t][l] = j.fresh[t][k]
        BY <1>2, <4>1, <4>2
      <4> QED
        BY <3>1, <4>3
  <2>3. CASE l \in DOMAIN j.fresh[t]
    <3>1. /\ \A m \in DOMAIN dictionary[t] : dictionary[t][m] # j.fresh[t][l]
          /\ \A m \in DOMAIN j.fresh[t] : j.fresh[t][m] = j.fresh[t][l] => m = l
      BY Zenon, <1>1, <2>3 DEF FreshKeys
    <3> QED
      <4>1. dictionary'[t][l] = j.fresh[t][l] /\ j.fresh[t][l] = dictionary'[t][k]
        BY <1>2, <2>3
      <4>2. k \notin DOMAIN dictionary[t]
        BY <1>2, <3>1, <4>1
      <4>3. k \in DOMAIN j.fresh[t] /\ j.fresh[t][k] = j.fresh[t][l]
        BY <1>2, <4>1, <4>2
      <4> QED
        BY <3>1, <4>3
  <2> QED
    BY <1>2, <2>1, <2>2, <2>3
<1>6. ASSUME NEW q \in Recorder \ {r}
      PROVE  FreshKeys(recording[q])' /\ OwnKeys(recording[q])'
  <2>1. PICK m : m = recording[q] /\ FreshKeys(m) /\ OwnKeys(m) /\ Distinct(m, j) /\ Distinct(j, m)
    BY DEF DictInv
  <2>2. recording'[q] = m
    BY <1>3, <2>1
  <2>3. ASSUME NEW t \in Table, NEW k \in DOMAIN m.fresh[t], NEW l \in DOMAIN dictionary'[t]
        PROVE  dictionary'[t][l] # m.fresh[t][k]
    <3>1. CASE l \in DOMAIN dictionary[t]
      <4>1. dictionary[t][l] # m.fresh[t][k]
        BY Zenon, <2>1, <3>1 DEF FreshKeys
      <4> QED
        BY <1>2, <3>1, <4>1
    <3>2. CASE l \in DOMAIN j.fresh[t]
      <4>1. <<1, LockOf[j.fresh[t][l]]>> \in j.held /\ <<1, LockOf[m.fresh[t][k]]>> \in m.held
        BY <1>1, <2>1, <3>2 DEF FreshKeys
      <4>2. j.fresh[t][l] # m.fresh[t][k]
        BY <2>1, <4>1 DEF Distinct
      <4> QED
        BY <1>2, <3>2, <4>2
    <3> QED
      BY <1>2, <3>1, <3>2
  <2>4. \A t \in Table : \A k \in DOMAIN m.fresh[t] : k \notin DOMAIN dictionary'[t]
    BY <1>2, <2>1
  <2>5. FreshKeys(recording[q])'
    BY <2>1, <2>2, <2>3, <2>4 DEF FreshKeys
  <2>6. ASSUME NEW t \in Table, NEW s \in DOMAIN m.keys[t], m.keys[t][s] \in DOMAIN dictionary'[t]
        PROVE  dictionary'[t][m.keys[t][s]] = s
    <3>1. m.keys[t][s] \notin DOMAIN j.fresh[t]
      BY <2>1 DEF Distinct
    <3>2. m.keys[t][s] \in DOMAIN dictionary[t]
      BY <1>2, <2>6, <3>1
    <3> QED
      BY <1>2, <2>1, <3>2 DEF OwnKeys
  <2>7. OwnKeys(recording[q])'
    BY <2>1, <2>2, <2>6 DEF OwnKeys
  <2> QED
    BY <2>5, <2>7
<1>7. ASSUME NEW t \in Table, NEW s \in DOMAIN j.keys[t]
      PROVE  /\ j.keys[t][s] \in 1 .. lastKey[t]
             /\ j.keys[t][s] \in DOMAIN dictionary'[t] => dictionary'[t][j.keys[t][s]] = s
  <2>1. /\ j.keys[t][s] \in 1 .. lastKey[t]
        /\ j.keys[t][s] \in DOMAIN dictionary[t] => dictionary[t][j.keys[t][s]] = s
        /\ j.keys[t][s] \in DOMAIN j.fresh[t] => j.fresh[t][j.keys[t][s]] = s
    BY Zenon, <1>1 DEF OwnKeys
  <2> QED
    BY <1>2, <2>1
<1> QED
  BY <1>2, <1>3, <1>4, <1>5, <1>6, <1>7

\* Rows that refer to a dictionary refer to a larger one.
LEMMA ReferGrows ==
    ASSUME NEW rows, NEW f, NEW g, \A t \in Table : DOMAIN f[t] \subseteq DOMAIN g[t], Refer(rows, f)
    PROVE  Refer(rows, g)
BY DEF Refer

LEMMA CommitStringsKeeps == ASSUME DictInv, NEW r \in Recorder, CommitStrings(r) PROVE DictInv'
<1>1. PICK j : /\ j = recording[r] /\ RecordShape(j) /\ FreshKeys(j) /\ OwnKeys(j) /\ Progress(j) /\ j.at = "known"
  BY DEF DictInv, CommitStrings
<1>2. PICK i : i = [j EXCEPT !.at = "begun", !.held = {}, !.fresh = NoKeys]
  OBVIOUS
<1>3. recording' = [recording EXCEPT ![r] = i] /\ recording'[r] = i
  BY <1>1, <1>2 DEF CommitStrings, Moves, DictInv, DictShape
<1>4. /\ Fields(i) /\ i.at = "begun" /\ i.batch = j.batch /\ i.apart = j.apart
      /\ i.keys = j.keys /\ i.want = j.want /\ i.held = {} /\ i.fresh = NoKeys
      /\ i.finished = j.finished /\ i.rows = j.rows
  BY <1>1, <1>2 DEF RecordShape, Fields
<1>5. RecordShape(i)
  BY <1>1, <1>4 DEF RecordShape, NoKeys
<1>6. /\ dictionary' = [t \in Table |-> Seen(r, t)]
      /\ UNCHANGED <<lastKey, tagRefs, whole, reported, removing>>
  BY DEF CommitStrings
<1>7. /\ DictShape' /\ Interned'
      /\ \A t \in Table : /\ DOMAIN dictionary[t] \subseteq DOMAIN dictionary'[t]
                          /\ \A k \in DOMAIN dictionary[t] : dictionary'[t][k] = dictionary[t][k]
      /\ \A q \in Recorder \ {r} : /\ recording'[q] = recording[q]
                                   /\ FreshKeys(recording[q])' /\ OwnKeys(recording[q])'
      /\ \A t \in Table : \A s \in DOMAIN j.keys[t] :
            /\ j.keys[t][s] \in 1 .. lastKey[t]
            /\ j.keys[t][s] \in DOMAIN dictionary'[t] => dictionary'[t][j.keys[t][s]] = s
  BY <1>1, <1>3, <1>6, CommitTells
<1>8. \A t \in Table : DOMAIN i.fresh[t] = {}
  BY <1>4 DEF NoKeys, Empty
<1>9. FreshKeys(recording[r])' /\ OwnKeys(recording[r])'
  BY <1>3, <1>4, <1>6, <1>7, <1>8 DEF FreshKeys, OwnKeys
<1>10. Progress(recording[r])'
  <2>1. /\ j.apart /\ Found(j, 1) /\ Found(j, 2) /\ j.finished = {} /\ DOMAIN j.rows = {}
    BY <1>1 DEF Progress
  <2> QED
    BY <1>3, <1>4, <2>1 DEF Progress, Found, Prepared, Brought
<1>11. ASSUME NEW q \in Recorder \ {r} PROVE RecordShape(recording[q])' /\ Progress(recording[q])'
  <2>1. PICK m : m = recording[q] /\ RecordShape(m) /\ Progress(m) /\ recording'[q] = m
    BY <1>7 DEF DictInv
  <2>2. m.at = "written" => Refer(m.rows, [t \in Table |-> Plus(dictionary'[t], m.fresh[t])])
    <3>1. \A t \in Table : DOMAIN Plus(dictionary[t], m.fresh[t]) \subseteq DOMAIN Plus(dictionary'[t], m.fresh[t])
      BY <1>7 DEF Plus
    <3>2. m.at = "written" => Refer(m.rows, [t \in Table |-> Plus(dictionary[t], m.fresh[t])])
      BY <2>1 DEF Progress
    <3> QED
      BY <3>1, <3>2, ReferGrows
  <2>3. Progress(m)'
    BY <1>6, <2>1, <2>2 DEF Progress, Locked, Found, Prepared, Brought
  <2> QED
    BY <2>1, <2>3 DEF RecordShape, Fields, Progress, Locked, Found, Prepared, Brought
<1>12. \A p, q \in Recorder : p # q => Distinct(recording[p], recording[q])'
  <2> SUFFICES ASSUME NEW p \in Recorder, NEW q \in Recorder, p # q PROVE Distinct(recording'[p], recording'[q])
    BY DEF Distinct
  <2>1. CASE p = r
    <3>1. Distinct(j, recording[q]) /\ recording'[q] = recording[q]
      BY <1>1, <1>7, <2>1 DEF DictInv
    <3> QED
      BY <1>3, <1>4, <1>8, <2>1, <3>1 DEF Distinct
  <2>2. CASE q = r
    BY <1>3, <1>4, <1>8, <2>2 DEF Distinct
  <2>3. CASE p # r /\ q # r
    BY <1>7, <2>3 DEF DictInv, Distinct
  <2> QED
    BY <2>1, <2>2, <2>3
<1>13. Referred'
  <2>1. Refer(tagRefs, dictionary')
    BY <1>7, ReferGrows DEF DictInv, Referred
  <2>2. \A x \in reported : Unpacked(Refs(tagRefs, x[1]))' = Unpacked(Refs(tagRefs, x[1]))
    BY <1>6, <1>7 DEF DictInv, Referred, Refer, Unpacked, Refs, Table
  <2> QED
    BY <1>6, <2>1, <2>2 DEF DictInv, Referred, Refs
<1>14. Removal'
  BY <1>3, <1>4, <1>6, <1>7 DEF DictInv, Removal
<1> QED
  BY <1>3, <1>5, <1>7, <1>9, <1>10, <1>11, <1>12, <1>13, <1>14 DEF DictInv, RecordShape, Fields

\* What is committed of objects is what was described, and is read so.
LEMMA CommitObjectsKeeps == ASSUME DictInv, NEW r \in Recorder, CommitObjects(r) PROVE DictInv'
<1>1. PICK j : /\ j = recording[r] /\ RecordShape(j) /\ FreshKeys(j) /\ OwnKeys(j) /\ Progress(j) /\ j.at = "written"
  BY DEF DictInv, CommitObjects
<1>2. recording' = [recording EXCEPT ![r] = Unwritten] /\ recording'[r] = Unwritten
  BY DEF CommitObjects, Moves, DictInv, DictShape
<1>3. /\ \A o \in DOMAIN j.batch : Refs(Plus(tagRefs, j.rows), o) = Pack(j.batch[o], j.keys)
      /\ dictionary' = [t \in Table |-> Seen(r, t)]
      /\ tagRefs' = Plus(tagRefs, j.rows) /\ whole' = whole \cup j.finished
      /\ reported' = reported \cup {<<o, j.batch[o]>> : o \in DOMAIN j.batch}
      /\ UNCHANGED <<lastKey, removing>>
  BY <1>1 DEF CommitObjects
<1>4. /\ DictShape' /\ Interned'
      /\ \A t \in Table : /\ DOMAIN dictionary'[t] = DOMAIN dictionary[t] \cup DOMAIN j.fresh[t]
                          /\ \A k \in DOMAIN dictionary[t] : dictionary'[t][k] = dictionary[t][k]
      /\ \A q \in Recorder \ {r} : /\ recording'[q] = recording[q]
                                   /\ FreshKeys(recording[q])' /\ OwnKeys(recording[q])'
      /\ \A t \in Table : \A s \in DOMAIN j.keys[t] :
            j.keys[t][s] \in DOMAIN dictionary'[t] => dictionary'[t][j.keys[t][s]] = s
  BY <1>1, <1>2, <1>3, CommitTells
<1>5. /\ DOMAIN j.rows \subseteq j.finished /\ \A o \in j.finished : o \notin whole /\ <<0, o>> \in j.held
      /\ Refer(j.rows, [t \in Table |-> Plus(dictionary[t], j.fresh[t])])
      /\ DOMAIN j.batch \subseteq whole \cup j.finished /\ Found(j, 1) /\ Found(j, 2)
  BY <1>1 DEF Progress, Brought
<1>6. /\ DOMAIN tagRefs' = DOMAIN tagRefs \cup DOMAIN j.rows
      /\ \A o \in DOMAIN tagRefs : tagRefs'[o] = tagRefs[o]
      /\ \A o \in DOMAIN j.rows \ DOMAIN tagRefs : tagRefs'[o] = j.rows[o]
  <2>1. PICK f : f = j.rows /\ tagRefs' = Plus(tagRefs, f)
    BY <1>3
  <2>2. /\ DOMAIN Plus(tagRefs, f) = DOMAIN tagRefs \cup DOMAIN f
        /\ \A o \in DOMAIN tagRefs : Plus(tagRefs, f)[o] = tagRefs[o]
        /\ \A o \in DOMAIN f \ DOMAIN tagRefs : Plus(tagRefs, f)[o] = f[o]
    BY PlusTells
  <2> QED
    BY <2>1, <2>2
<1>7. RecordShape(Unwritten) /\ \A t \in Table : DOMAIN Unwritten.keys[t] = {} /\ DOMAIN Unwritten.fresh[t] = {}
  BY NothingYet DEF DictInv, Unwritten, NoKeys, Empty
<1>8. RecordShape(recording[r])' /\ FreshKeys(recording[r])' /\ OwnKeys(recording[r])' /\ Progress(recording[r])'
  <2>1. RecordShape(recording[r])'
    BY <1>2, <1>7 DEF RecordShape, Fields
  <2>2. FreshKeys(recording[r])' /\ OwnKeys(recording[r])'
    BY <1>2, <1>7 DEF FreshKeys, OwnKeys
  <2>3. Progress(recording[r])'
    BY <1>2 DEF Progress, Prepared, Brought, Unwritten, Empty
  <2> QED
    BY <2>1, <2>2, <2>3
<1>9. ASSUME NEW q \in Recorder \ {r} PROVE RecordShape(recording[q])' /\ Progress(recording[q])'
  <2>1. PICK m : m = recording[q] /\ RecordShape(m) /\ Progress(m) /\ recording'[q] = m /\ Distinct(m, j)
    BY <1>1, <1>4 DEF DictInv
  <2>2. m.at = "written" => Refer(m.rows, [t \in Table |-> Plus(dictionary'[t], m.fresh[t])])
    <3>1. \A t \in Table : DOMAIN Plus(dictionary[t], m.fresh[t]) \subseteq DOMAIN Plus(dictionary'[t], m.fresh[t])
      BY <1>4 DEF Plus
    <3>2. m.at = "written" => Refer(m.rows, [t \in Table |-> Plus(dictionary[t], m.fresh[t])])
      BY <2>1 DEF Progress
    <3> QED
      BY <3>1, <3>2, ReferGrows
  <2>3. \A o \in m.finished : o \notin whole' /\ <<0, o>> \in m.held
    <3>1. \A o \in m.finished : o \notin whole /\ <<0, o>> \in m.held
      BY <2>1 DEF Progress
    <3>2. \A o \in m.finished : o \notin j.finished
      BY <1>5, <2>1, <3>1 DEF Distinct
    <3> QED
      BY <1>3, <3>1, <3>2
  <2>4. whole \subseteq whole'
    BY <1>3
  <2>5. Progress(m)'
    BY <2>1, <2>2, <2>3, <2>4 DEF Progress, Locked, Found, Prepared, Brought
  <2> QED
    BY <2>1, <2>5 DEF RecordShape, Fields, Progress, Locked, Found, Prepared, Brought
<1>10. \A p, q \in Recorder : p # q => Distinct(recording[p], recording[q])'
  <2> SUFFICES ASSUME NEW p \in Recorder, NEW q \in Recorder, p # q PROVE Distinct(recording'[p], recording'[q])
    BY DEF Distinct
  <2>1. Unwritten.held = {}
    BY DEF Unwritten
  <2>2. CASE p = r
    BY <1>2, <1>7, <2>1, <2>2 DEF Distinct
  <2>3. CASE q = r
    BY <1>2, <1>7, <2>1, <2>3 DEF Distinct
  <2>4. CASE p # r /\ q # r
    BY <1>4, <2>4 DEF DictInv, Distinct
  <2> QED
    BY <2>2, <2>3, <2>4
<1>11. Refer(tagRefs', dictionary')
  <2>1. Refer(tagRefs, dictionary')
    BY <1>4, ReferGrows DEF DictInv, Referred
  <2>2. Refer(j.rows, dictionary')
    <3>1. \A t \in Table : DOMAIN [u \in Table |-> Plus(dictionary[u], j.fresh[u])][t] \subseteq DOMAIN dictionary'[t]
      BY <1>4 DEF Plus
    <3> QED
      BY <1>5, <3>1, ReferGrows
  <2> QED
    BY <1>6, <2>1, <2>2 DEF Refer
<1>12. ASSUME NEW x \in reported PROVE x[1] \in whole' /\ Unpacked(Refs(tagRefs, x[1]))' = x[2]
  <2>1. x[1] \in whole /\ Unpacked(Refs(tagRefs, x[1])) = x[2]
    BY DEF DictInv, Referred
  <2>2. Refs(tagRefs', x[1]) = Refs(tagRefs, x[1])
    BY <1>5, <1>6, <2>1 DEF Refs
  <2>3. Unpacked(Refs(tagRefs, x[1]))' = Unpacked(Refs(tagRefs, x[1]))
    <3>1. PICK refs : refs = Refs(tagRefs, x[1]) /\ refs = Refs(tagRefs, x[1])'
      BY <2>2 DEF Refs
    <3>2. \A i \in DOMAIN refs : \A t \in Table : refs[i][t] \in DOMAIN dictionary[t]
      BY <3>1 DEF DictInv, Referred, Refer, Refs
    <3> QED
      BY <1>4, <3>1, <3>2 DEF Unpacked, Table
  <2> QED
    BY <1>3, <2>1, <2>3
<1>13. ASSUME NEW o \in DOMAIN j.batch PROVE o \in whole' /\ Unpacked(Refs(tagRefs, o))' = j.batch[o]
  <2>1. PICK tags : tags = j.batch[o] /\ tags \in Seq(Nat \X Nat)
    BY <1>1 DEF RecordShape
  <2>2. PICK refs : refs = Refs(tagRefs, o)' /\ refs = Pack(tags, j.keys)
    BY <1>3, <2>1 DEF Refs
  <2>3. /\ DOMAIN refs = DOMAIN tags
        /\ \A i \in DOMAIN tags : refs[i][1] = j.keys[1][tags[i][1]] /\ refs[i][2] = j.keys[2][tags[i][2]]
    BY <2>2 DEF Pack
  <2>4. \A i \in DOMAIN tags : tags[i][1] \in DOMAIN j.keys[1] /\ tags[i][2] \in DOMAIN j.keys[2]
    BY <1>1, <1>5, <2>1, TagBytesAll DEF RecordShape, Found, Table
  <2>5. \A i \in DOMAIN refs : refs[i][1] \in DOMAIN dictionary'[1] /\ refs[i][2] \in DOMAIN dictionary'[2]
    BY <1>11, <2>2 DEF Refer, Refs, Table
  <2>6. \A i \in DOMAIN tags : dictionary'[1][refs[i][1]] = tags[i][1] /\ dictionary'[2][refs[i][2]] = tags[i][2]
    BY <1>4, <2>3, <2>4, <2>5 DEF Table
  <2>7. Unpacked(Refs(tagRefs, o))' = [i \in DOMAIN tags |-> <<tags[i][1], tags[i][2]>>]
    BY <2>2, <2>3, <2>6 DEF Unpacked
  <2>8. [i \in DOMAIN tags |-> <<tags[i][1], tags[i][2]>>] = tags
    <3>1. \A i \in DOMAIN tags : tags[i] \in Nat \X Nat
      BY <2>1
    <3>2. \A i \in DOMAIN tags : <<tags[i][1], tags[i][2]>> = tags[i]
      BY <3>1
    <3>3. tags = [i \in DOMAIN tags |-> tags[i]]
      BY <2>1
    <3> QED
      BY <3>2, <3>3
  <2> QED
    BY <1>3, <1>5, <2>1, <2>7, <2>8
<1>14. Referred'
  <2>1. DOMAIN tagRefs' \subseteq whole'
    BY <1>3, <1>5, <1>6 DEF DictInv, Referred
  <2>2. \A x \in reported' : x[1] \in whole' /\ Unpacked(Refs(tagRefs, x[1]))' = x[2]
    BY <1>3, <1>12, <1>13 DEF Refs
  <2> QED
    BY <1>11, <2>1, <2>2 DEF Referred, Refs
<1>15. Removal'
  BY <1>2, <1>3, <1>4 DEF DictInv, Removal, Unwritten
<1> QED
  BY <1>4, <1>8, <1>9, <1>10, <1>14, <1>15 DEF DictInv

-----------------------------------------------------------------------------
(* A key is removed.                                                       *)

LEMMA RemovingKeeps ==
    ASSUME DictInv, UNCHANGED <<dictionary, lastKey, tagRefs, whole, reported, recording>>, Removal'
    PROVE  DictInv'
<1>1. DictShape' /\ Interned'
  BY DEF DictInv, DictShape, Interned
<1>2. Referred'
  BY DEF DictInv, Referred, Unpacked, Refer, Refs
<1>3. ASSUME NEW q \in Recorder PROVE RecordShape(recording[q])' /\ FreshKeys(recording[q])'
  <2>1. RecordShape(recording[q]) /\ FreshKeys(recording[q])
    BY DEF DictInv
  <2>2. recording'[q] = recording[q] /\ dictionary' = dictionary /\ lastKey' = lastKey
    OBVIOUS
  <2>3. RecordShape(recording[q])'
    BY <2>1, <2>2 DEF RecordShape, Fields
  <2>4. FreshKeys(recording[q])'
    BY <2>1, <2>2 DEF FreshKeys
  <2> QED
    BY <2>3, <2>4
<1>4. \A q \in Recorder : OwnKeys(recording[q])'
  BY DEF DictInv, OwnKeys
<1>5. \A q \in Recorder : Progress(recording[q])'
  BY DEF DictInv, Progress, Locked, Found, Prepared, Brought
<1>6. \A p, q \in Recorder : p # q => Distinct(recording[p], recording[q])'
  BY DEF DictInv, Distinct
<1> QED
  BY <1>1, <1>2, <1>3, <1>4, <1>5, <1>6 DEF DictInv

LEMMA RemovalKeeps == ASSUME DictInv, CommitRemoval PROVE DictInv'
<1>0. PICK t \in Table : t = removing.table
  BY DEF CommitRemoval, DictInv, Removal
<1>1. PICK k : /\ k = removing.key /\ ~Referenced(t, k)
               /\ dictionary' = [dictionary EXCEPT ![t] = [l \in DOMAIN @ \ {k} |-> @[l]]]
  BY <1>0 DEF CommitRemoval
<1>2. /\ removing' = NoRemoval /\ removing # NoRemoval
      /\ UNCHANGED <<lastKey, tagRefs, whole, reported, recording>>
  BY DEF CommitRemoval
<1>3. /\ DOMAIN dictionary'[t] = DOMAIN dictionary[t] \ {k}
      /\ \A u \in Table \ {t} : dictionary'[u] = dictionary[u]
      /\ dictionary' = [u \in Table |-> dictionary'[u]]
      /\ \A l \in DOMAIN dictionary[t] \ {k} : dictionary'[t][l] = dictionary[t][l]
  BY <1>1 DEF DictInv, DictShape
<1>4. \A u \in Table : /\ DOMAIN dictionary'[u] \subseteq DOMAIN dictionary[u]
                       /\ \A l \in DOMAIN dictionary'[u] : dictionary'[u][l] = dictionary[u][l]
  BY <1>3
<1>5. DictShape'
  BY <1>2, <1>3, <1>4 DEF DictInv, DictShape
<1>6. Interned'
  BY <1>4 DEF DictInv, Interned
<1>7. Refer(tagRefs, dictionary')
  <2> SUFFICES ASSUME NEW o \in DOMAIN tagRefs, NEW i \in DOMAIN tagRefs[o], NEW u \in Table
               PROVE  tagRefs[o][i][u] \in DOMAIN dictionary'[u]
    BY DEF Refer
  <2>1. tagRefs[o][i][u] \in DOMAIN dictionary[u]
    BY DEF DictInv, Referred, Refer
  <2>2. u = t => tagRefs[o][i][u] # k
    BY <1>1 DEF Referenced
  <2> QED
    BY <1>3, <2>1, <2>2
<1>8. Referred'
  <2>1. ASSUME NEW x \in reported PROVE Unpacked(Refs(tagRefs, x[1]))' = Unpacked(Refs(tagRefs, x[1]))
    <3>1. PICK refs : refs = Refs(tagRefs, x[1]) /\ refs = Refs(tagRefs, x[1])'
      BY <1>2 DEF Refs
    <3>2. \A i \in DOMAIN refs : \A u \in Table : refs[i][u] \in DOMAIN dictionary'[u]
      BY <1>7, <3>1 DEF Refer, Refs
    <3> QED
      BY <1>4, <3>1, <3>2 DEF Unpacked, Table
  <2> QED
    BY <1>2, <1>7, <2>1 DEF DictInv, Referred, Refs
<1>9. ASSUME NEW q \in Recorder
      PROVE  RecordShape(recording[q])' /\ FreshKeys(recording[q])' /\ OwnKeys(recording[q])' /\ Progress(recording[q])'
  <2>1. PICK m : /\ m = recording[q] /\ RecordShape(m) /\ FreshKeys(m) /\ OwnKeys(m) /\ Progress(m)
                 /\ recording'[q] = m /\ m.at # "written"
    BY <1>2 DEF DictInv, Removal
  <2>2. RecordShape(recording[q])'
    BY <2>1 DEF RecordShape, Fields
  <2>3. FreshKeys(recording[q])'
    BY <1>2, <1>4, <2>1 DEF FreshKeys
  <2>4. OwnKeys(recording[q])'
    BY <1>2, <1>4, <2>1 DEF OwnKeys
  <2>5. Progress(recording[q])'
    BY <1>2, <2>1 DEF Progress, Locked, Found, Prepared, Brought
  <2> QED
    BY <2>2, <2>3, <2>4, <2>5
<1>10. \A p, q \in Recorder : p # q => Distinct(recording[p], recording[q])'
  BY <1>2 DEF DictInv, Distinct
<1>11. Removal'
  BY <1>2 DEF Removal
<1> QED
  BY <1>5, <1>6, <1>8, <1>9, <1>10, <1>11 DEF DictInv

LEMMA DictStep == DictInv /\ TagsNext => DictInv'
<1> SUFFICES ASSUME DictInv, TagsNext PROVE DictInv'
  OBVIOUS
<1>1. ASSUME NEW t \in Table, NEW k, RemoveKey(t, k) PROVE DictInv'
  <2>1. Removal'
    BY <1>1 DEF RemoveKey, Removes, Removal
  <2> QED
    BY <1>1, <2>1, RemovingKeeps DEF RemoveKey, Removes
<1>2. CASE KeepKey
  <2>1. Removal'
    BY <1>2 DEF KeepKey, Removal
  <2> QED
    BY <1>2, <2>1, RemovingKeeps DEF KeepKey
<1> QED
  BY <1>1, <1>2, BeginKeeps, LookupKeeps, InternKeeps, TakeKeeps, CommitStringsKeeps, LockObjectsKeeps,
     WriteObjectsKeeps, WriteTagsKeeps, CommitObjectsKeeps, RollbackKeeps, RemovalKeeps DEF TagsNext

LEMMA DictTells == DictInv => Interned /\ Readable
BY DEF DictInv, Referred, Readable

-----------------------------------------------------------------------------
(* The packed table, filled beside its writers.                            *)

OldJob(j) ==
    /\ j = [at |-> j.at, object |-> j.object, rows |-> j.rows, mirrors |-> j.mirrors]
    /\ j.at \in {"changed", "done"} /\ j.object \in Tagged /\ j.mirrors \in BOOLEAN
CopyJob(j) ==
    /\ j = [at |-> j.at, keys |-> j.keys, last |-> j.last, rows |-> j.rows]
    /\ j.at \in {"selected", "locked", "copied"} /\ j.keys \subseteq Tagged /\ j.last \in Nat
PackShape ==
    /\ prep = [staged |-> prep.staged, over |-> prep.over, after |-> prep.after, high |-> prep.high]
    /\ prep.staged \in BOOLEAN /\ prep.over \in BOOLEAN
    /\ prep.after \in Nat /\ prep.high \in Nat /\ prep.after <= prep.high
    /\ rowsOf = [o \in Tagged |-> rowsOf[o]]
    /\ oldWrite = [w \in Recorder |-> oldWrite[w]]
    /\ \A w \in Recorder : oldWrite[w] = NotWriting \/ OldJob(oldWrite[w])
    /\ copying = NotCopying \/ CopyJob(copying)

\* What is packed of an object, unless the copy has still to come to it.
PackedAs(o) == Refs(packed, o) = rowsOf[o]
Ahead(o) == prep.after < o /\ o <= prep.high /\ o \notin DOMAIN packed
\* Writers have triggers if the table is staged, and objects of their own.
OldWriters ==
    /\ \A w \in Recorder : oldWrite[w] # NotWriting =>
          /\ oldWrite[w].mirrors <=> prep.staged
          /\ oldWrite[w].at = "changed" => prep.staged
    /\ \A w, q \in Recorder : w # q /\ oldWrite[w] # NotWriting /\ oldWrite[q] # NotWriting =>
          oldWrite[w].object # oldWrite[q].object
\* A batch passes only objects that are right already, and what it has copied
\* stays as it is while it holds the locks.
CopyBatch ==
    copying # NotCopying =>
       /\ prep.staged /\ ~prep.over /\ copying.last <= prep.high /\ prep.after <= copying.last
       /\ \A o \in copying.keys : o <= copying.last
       /\ \A o \in Tagged \ copying.keys : o <= copying.last => PackedAs(o)
       /\ copying.at # "selected" => \A w \in Recorder : Mirrored(w) => oldWrite[w].object \notin copying.keys
       /\ copying.at = "copied" =>
             /\ DOMAIN copying.rows \subseteq copying.keys
             /\ \A o \in DOMAIN copying.rows : copying.rows[o] # << >>
             /\ \A o \in copying.keys : Refs(copying.rows, o) = rowsOf[o]
PackStages ==
    /\ prep.staged => \A o \in Tagged : PackedAs(o) \/ Ahead(o)
    /\ ~prep.staged => packed = Empty /\ copying = NotCopying /\ ~prep.over /\ prep.after = 0
    /\ prep.over => /\ prep.after = prep.high /\ copying = NotCopying
                    /\ \A w \in Recorder : oldWrite[w] = NotWriting
PackInv == PackShape /\ OldWriters /\ CopyBatch /\ PackStages

LEMMA PackInit == PackingInit => PackInv
<1> SUFFICES ASSUME PackingInit PROVE PackInv
  OBVIOUS
<1>1. PackShape
  BY DEF PackingInit, PackShape, NotCopying, NotWriting
<1>2. OldWriters /\ CopyBatch
  BY DEF PackingInit, OldWriters, CopyBatch, NotWriting, NotCopying
<1>3. PackStages
  BY DEF PackingInit, PackStages, NotCopying
<1> QED
  BY <1>1, <1>2, <1>3 DEF PackInv

\* A writer and a batch change the packed rows of their own objects only.
LEMMA PutTells ==
    ASSUME NEW objects, NEW rows, NEW o
    PROVE  Refs(Put(objects, rows), o) = IF o \in objects THEN rows[o] ELSE Refs(packed, o)
BY DEF Refs, Put

\* What makes a batch idle or different keeps the rest.
LEMMA ToWrite ==
    ASSUME PackInv, NEW w \in Recorder,
           \/ \E o \in Tagged, rows \in OldRows : ChangeRows(w, o, rows)
           \/ Mirror(w) \/ RollbackRows(w)
    PROVE  PackInv'
<1>1. PackShape /\ OldWriters /\ CopyBatch /\ PackStages
  BY DEF PackInv
<1>2. UNCHANGED <<rowsOf, packed, prep, copying>>
  BY DEF ChangeRows, Mirror, RollbackRows
<1>3. /\ \A q \in Recorder \ {w} : oldWrite'[q] = oldWrite[q]
      /\ oldWrite' = [q \in Recorder |-> oldWrite'[q]]
  BY <1>1 DEF ChangeRows, Mirror, RollbackRows, Writing, PackShape
<1>4. CASE \E o \in Tagged, rows \in OldRows : ChangeRows(w, o, rows)
  <2> PICK o \in Tagged, rows \in OldRows : ChangeRows(w, o, rows)
    BY <1>4
  <2>1. /\ oldWrite'[w] = [at |-> IF prep.staged THEN "changed" ELSE "done", object |-> o, rows |-> rows,
                           mirrors |-> prep.staged]
        /\ oldWrite[w] = NotWriting /\ ~prep.over
        /\ \A q \in Recorder : oldWrite[q] # NotWriting => oldWrite[q].object # o
    BY <1>1 DEF ChangeRows, Writing, PackShape
  <2>2. PackShape'
    BY <1>1, <1>2, <1>3, <2>1 DEF PackShape, OldJob, CopyJob
  <2>3. oldWrite'[w].at = "done" => ~oldWrite'[w].mirrors
    BY <1>1, <2>1 DEF PackShape
  <2>4. OldWriters'
    BY <1>1, <1>2, <1>3, <2>1 DEF OldWriters, PackShape, NotWriting
  <2>5. CopyBatch'
    BY <1>1, <1>2, <1>3, <2>3 DEF CopyBatch, Mirrored, PackedAs
  <2>6. PackStages'
    BY <1>1, <1>2, <1>3, <2>1 DEF PackStages, PackedAs, Ahead
  <2> QED
    BY <2>2, <2>4, <2>5, <2>6 DEF PackInv
<1>5. CASE Mirror(w)
  <2>1. /\ oldWrite[w].at = "changed" /\ oldWrite'[w] = [oldWrite[w] EXCEPT !.at = "done"]
        /\ copying.at \in {"locked", "copied"} => oldWrite[w].object \notin copying.keys
    BY <1>1, <1>5 DEF Mirror, Writing, PackShape
  <2>2. oldWrite[w] # NotWriting /\ OldJob(oldWrite[w])
    BY <1>1, <2>1 DEF PackShape, NotWriting
  <2>3. /\ oldWrite'[w].object = oldWrite[w].object /\ oldWrite'[w].mirrors = oldWrite[w].mirrors
        /\ oldWrite'[w].at = "done" /\ OldJob(oldWrite'[w])
    BY <2>1, <2>2 DEF OldJob
  <2>4. PackShape'
    BY <1>1, <1>2, <1>3, <2>3 DEF PackShape, CopyJob, OldJob
  <2>5. OldWriters'
    BY <1>1, <1>2, <1>3, <2>2, <2>3 DEF OldWriters
  <2>6. copying # NotCopying /\ copying.at # "selected" => oldWrite[w].object \notin copying.keys
    BY <1>1, <2>1 DEF PackShape, CopyJob
  <2>7. CopyBatch'
    BY <1>1, <1>2, <1>3, <2>3, <2>6 DEF CopyBatch, Mirrored, PackedAs
  <2>8. PackStages'
    BY <1>1, <1>2, <1>3, <2>2 DEF PackStages, PackedAs, Ahead
  <2> QED
    BY <2>4, <2>5, <2>7, <2>8 DEF PackInv
<1>6. CASE RollbackRows(w)
  <2>1. oldWrite'[w] = NotWriting
    BY <1>1, <1>6 DEF RollbackRows, Writing, PackShape
  <2>2. PackShape'
    BY <1>1, <1>2, <1>3, <2>1 DEF PackShape, CopyJob, OldJob
  <2>3. OldWriters'
    BY <1>1, <1>2, <1>3, <2>1 DEF OldWriters
  <2>4. CopyBatch'
    BY <1>1, <1>2, <1>3, <2>1 DEF CopyBatch, Mirrored, PackedAs, NotWriting
  <2>5. PackStages'
    BY <1>1, <1>2, <1>3, <2>1 DEF PackStages, PackedAs, Ahead
  <2> QED
    BY <2>2, <2>3, <2>4, <2>5 DEF PackInv
<1> QED
  BY <1>4, <1>5, <1>6

\* The rows of an object that no batch has locked, and its packed rows.
LEMMA WriteKeeps ==
    ASSUME PackInv, NEW w \in Recorder, CommitOldRows(w)
    PROVE  PackInv'
<1> DEFINE mine == oldWrite[w]
<1>1. PackShape /\ OldWriters /\ CopyBatch /\ PackStages
  BY DEF PackInv
<1>2. mine.at = "done" /\ mine # NotWriting /\ OldJob(mine) /\ (mine.mirrors <=> prep.staged)
  BY <1>1 DEF CommitOldRows, PackShape, OldWriters, NotWriting
<1>3. /\ rowsOf' = [rowsOf EXCEPT ![mine.object] = mine.rows]
      /\ packed' = IF mine.mirrors THEN Put({mine.object}, rowsOf') ELSE packed
      /\ UNCHANGED <<prep, copying>>
      /\ oldWrite' = [q \in Recorder |-> IF q = w THEN NotWriting ELSE oldWrite[q]]
  BY <1>1 DEF CommitOldRows, Writing, PackShape
<1>4. /\ rowsOf' = [o \in Tagged |-> rowsOf'[o]]
      /\ \A o \in Tagged : o # mine.object => rowsOf'[o] = rowsOf[o]
      /\ rowsOf'[mine.object] = mine.rows
  BY <1>1, <1>2, <1>3 DEF PackShape, OldJob
<1>5. PackShape'
  <2>1. \A q \in Recorder : oldWrite'[q] = NotWriting \/ OldJob(oldWrite'[q])
    BY <1>1, <1>3 DEF PackShape
  <2>2. oldWrite' = [q \in Recorder |-> oldWrite'[q]]
    BY <1>3
  <2> QED
    BY <1>1, <1>3, <1>4, <2>1, <2>2 DEF PackShape, OldJob, CopyJob
<1>6. OldWriters'
  <2>1. \A q \in Recorder : oldWrite'[q] # NotWriting => q # w /\ oldWrite'[q] = oldWrite[q]
    BY <1>3
  <2> QED
    BY <1>1, <1>3, <2>1 DEF OldWriters
<1>7. \A o \in Tagged : prep.staged =>
         /\ PackedAs(o) => PackedAs(o)'
         /\ o = mine.object => PackedAs(o)'
         /\ o # mine.object => Refs(packed', o) = Refs(packed, o) /\ (o \in DOMAIN packed' <=> o \in DOMAIN packed)
  <2> SUFFICES ASSUME NEW o \in Tagged, prep.staged
               PROVE  /\ PackedAs(o) => PackedAs(o)'
                      /\ o = mine.object => PackedAs(o)'
                      /\ o # mine.object => Refs(packed', o) = Refs(packed, o) /\ (o \in DOMAIN packed' <=> o \in DOMAIN packed)
    OBVIOUS
  <2>1. packed' = Put({mine.object}, rowsOf')
    BY <1>2, <1>3
  <2>2. Refs(packed', o) = IF o \in {mine.object} THEN rowsOf'[o] ELSE Refs(packed, o)
    BY <2>1, PutTells
  <2>3. o # mine.object => (o \in DOMAIN packed' <=> o \in DOMAIN packed)
    BY <2>1 DEF Put
  <2> QED
    BY <1>4, <2>2, <2>3 DEF PackedAs
<1>8. CopyBatch'
  <2> SUFFICES ASSUME copying # NotCopying PROVE CopyBatch'
    BY <1>3 DEF CopyBatch
  <2>1. prep.staged /\ CopyJob(copying)
    BY <1>1 DEF CopyBatch, PackShape
  <2>2. \A o \in Tagged \ copying.keys : o <= copying.last => PackedAs(o)'
    BY <1>1, <1>7, <2>1 DEF CopyBatch
  <2>3. \A q \in Recorder : Mirrored(q)' => Mirrored(q) /\ oldWrite'[q] = oldWrite[q]
    BY <1>3 DEF Mirrored, NotWriting
  <2>4. copying.at # "selected" => mine.object \notin copying.keys
    BY <1>1, <1>2, <2>1 DEF CopyBatch, Mirrored
  <2>5. copying.at = "copied" => \A o \in copying.keys : rowsOf'[o] = rowsOf[o]
    BY <1>4, <2>1, <2>4 DEF CopyJob
  <2> QED
    BY <1>1, <1>3, <2>2, <2>3, <2>5 DEF CopyBatch
<1>9. PackStages'
  <2>1. prep.staged => \A o \in Tagged : PackedAs(o)' \/ Ahead(o)'
    BY <1>1, <1>3, <1>7 DEF PackStages, Ahead
  <2>2. ~prep.staged => packed' = packed
    BY <1>2, <1>3
  <2> QED
    BY <1>1, <1>2, <1>3, <2>1, <2>2 DEF PackStages
<1> QED
  BY <1>5, <1>6, <1>8, <1>9 DEF PackInv

\* The triggers and the range of the copy.
LEMMA StageKeeps == ASSUME PackInv, Stage PROVE PackInv'
<1>1. PackShape /\ OldWriters /\ CopyBatch /\ PackStages
  BY DEF PackInv
<1>2. PICK high \in {0} \cup {o \in Tagged : rowsOf[o] # << >>} :
         /\ \A o \in {x \in Tagged : rowsOf[x] # << >>} : o <= high
         /\ prep' = [prep EXCEPT !.staged = TRUE, !.high = high]
  BY DEF Stage
<1>3. /\ ~prep.staged /\ UNCHANGED <<rowsOf, packed, oldWrite, copying>>
      /\ \A w \in Recorder : oldWrite[w] = NotWriting
  BY DEF Stage
<1>4. /\ prep'.staged /\ prep'.over = prep.over /\ prep'.after = prep.after /\ prep'.high = high
      /\ high \in Nat /\ packed = Empty /\ copying = NotCopying /\ ~prep.over /\ prep.after = 0
      /\ prep' = [staged |-> TRUE, over |-> prep.over, after |-> prep.after, high |-> high]
  BY <1>1, <1>2, <1>3, TagsAssumption DEF PackShape, PackStages
<1>5. PackShape'
  BY <1>1, <1>3, <1>4 DEF PackShape
<1>6. OldWriters' /\ CopyBatch'
  BY <1>3, <1>4 DEF OldWriters, CopyBatch
<1>7. ASSUME NEW o \in Tagged PROVE PackedAs(o)' \/ Ahead(o)'
  <2>1. Refs(packed, o) = << >> /\ o \notin DOMAIN packed /\ o \in Nat \ {0}
    BY <1>4, TagsAssumption DEF Refs, Empty
  <2> QED
    BY <1>2, <1>3, <1>4, <2>1 DEF PackedAs, Ahead
<1>8. PackStages'
  BY <1>3, <1>4, <1>7 DEF PackStages
<1> QED
  BY <1>5, <1>6, <1>8 DEF PackInv

\* A batch is chosen, locked, read, or given up.
LEMMA BatchKeeps ==
    ASSUME PackInv, SelectKeys \/ LockKeys \/ CopyRows \/ StopCopying
    PROVE  PackInv'
<1>1. PackShape /\ OldWriters /\ CopyBatch /\ PackStages
  BY DEF PackInv
<1>2. UNCHANGED <<rowsOf, packed, prep, oldWrite>>
  BY DEF SelectKeys, LockKeys, CopyRows, StopCopying
<1>3. SUFFICES /\ copying' = NotCopying \/ (prep.staged /\ ~prep.over /\ CopyJob(copying'))
               /\ CopyBatch'
  BY <1>1, <1>2 DEF PackInv, PackShape, OldWriters, PackStages, PackedAs, Ahead
<1>4. CASE SelectKeys
  <2> DEFINE found == WithRows(prep.after, prep.high)
  <2>1. PICK last \in found \cup {prep.high} :
           /\ found = {} => last = prep.high
           /\ copying' = [at |-> "selected", keys |-> {o \in found : o <= last}, last |-> last, rows |-> Empty]
    BY <1>4 DEF SelectKeys
  <2>2. prep.staged /\ prep.after # prep.high
    BY <1>4 DEF SelectKeys
  <2>3. /\ last \in Nat /\ last <= prep.high /\ prep.after <= last
        /\ \A o \in found : o \in Tagged /\ o \in Nat
    BY <1>1, <2>1, TagsAssumption DEF PackShape, WithRows
  <2>4. ~prep.over
    BY <1>1, <2>2 DEF PackStages
  <2>5. CopyJob(copying')
    BY <2>1, <2>3 DEF CopyJob
  <2>6. ASSUME NEW o \in Tagged \ copying'.keys, o <= last PROVE PackedAs(o)
    <3>1. o \notin found /\ o \in Nat
      BY <2>1, <2>6, TagsAssumption
    <3>2. o > prep.after => rowsOf[o] = << >>
      BY <1>1, <2>3, <2>6, <3>1 DEF WithRows, PackShape
    <3>3. PackedAs(o) \/ Ahead(o)
      BY <1>1, <2>2 DEF PackStages
    <3> QED
      BY <1>1, <3>1, <3>2, <3>3 DEF PackedAs, Ahead, Refs, PackShape
  <2>7. CopyBatch'
    BY <1>2, <2>1, <2>2, <2>3, <2>4, <2>6 DEF CopyBatch, PackedAs
  <2> QED
    BY <2>2, <2>4, <2>5, <2>7
<1>5. CASE LockKeys
  <2>1. /\ copying.at = "selected" /\ copying' = [copying EXCEPT !.at = "locked"]
        /\ \A w \in Recorder : Mirrored(w) => oldWrite[w].object \notin copying.keys
    BY <1>5 DEF LockKeys
  <2>2. copying # NotCopying /\ CopyJob(copying)
    BY <1>1, <2>1 DEF PackShape, NotCopying
  <2>3. /\ copying'.at = "locked" /\ copying'.keys = copying.keys /\ copying'.last = copying.last
        /\ CopyJob(copying')
    BY <2>1, <2>2 DEF CopyJob
  <2>4. CopyBatch'
    BY <1>1, <1>2, <2>1, <2>2, <2>3 DEF CopyBatch, PackedAs, Mirrored
  <2> QED
    BY <1>1, <2>2, <2>3, <2>4 DEF CopyBatch
<1>6. CASE CopyRows
  <2>1. /\ copying.at = "locked"
        /\ copying' = [copying EXCEPT !.at = "copied",
                         !.rows = [o \in {x \in copying.keys : rowsOf[x] # << >>} |-> rowsOf[o]]]
    BY <1>6 DEF CopyRows
  <2>2. copying # NotCopying /\ CopyJob(copying)
    BY <1>1, <2>1 DEF PackShape, NotCopying
  <2>3. /\ copying'.at = "copied" /\ copying'.keys = copying.keys /\ copying'.last = copying.last
        /\ copying'.rows = [o \in {x \in copying.keys : rowsOf[x] # << >>} |-> rowsOf[o]]
        /\ CopyJob(copying')
    BY <2>1, <2>2 DEF CopyJob
  <2>4. /\ DOMAIN copying'.rows \subseteq copying.keys
        /\ \A o \in DOMAIN copying'.rows : copying'.rows[o] # << >>
        /\ \A o \in copying.keys : Refs(copying'.rows, o) = rowsOf[o]
    BY <2>3 DEF Refs
  <2>5. CopyBatch'
    BY <1>1, <1>2, <2>1, <2>2, <2>3, <2>4 DEF CopyBatch, PackedAs, Mirrored
  <2> QED
    BY <1>1, <2>2, <2>3, <2>5 DEF CopyBatch
<1>7. CASE StopCopying
  BY <1>7 DEF StopCopying, CopyBatch
<1> QED
  BY <1>4, <1>5, <1>6, <1>7

\* The batch is written, and the cursor moves past it.
LEMMA BatchWrites == ASSUME PackInv, CommitBatch PROVE PackInv'
<1>1. PackShape /\ OldWriters /\ CopyBatch /\ PackStages
  BY DEF PackInv
<1>2. /\ copying.at = "copied" /\ packed' = Put(DOMAIN copying.rows, copying.rows)
      /\ prep' = [prep EXCEPT !.after = copying.last] /\ copying' = NotCopying
      /\ UNCHANGED <<rowsOf, oldWrite>>
  BY DEF CommitBatch
<1>3. /\ copying # NotCopying /\ CopyJob(copying) /\ prep.staged /\ ~prep.over
      /\ copying.last <= prep.high /\ prep.after <= copying.last
  BY <1>1, <1>2 DEF PackShape, NotCopying, CopyBatch
<1>4. /\ prep'.staged = prep.staged /\ prep'.over = prep.over /\ prep'.after = copying.last /\ prep'.high = prep.high
      /\ prep' = [staged |-> prep.staged, over |-> prep.over, after |-> copying.last, high |-> prep.high]
  BY <1>1, <1>2 DEF PackShape
<1>5. PackShape'
  BY <1>1, <1>2, <1>3, <1>4 DEF PackShape, CopyJob, OldJob
<1>6. OldWriters' /\ CopyBatch'
  BY <1>1, <1>2, <1>4 DEF OldWriters, CopyBatch
<1>7. ASSUME NEW o \in Tagged PROVE PackedAs(o)' \/ Ahead(o)'
  <2>1. Refs(packed', o) = IF o \in DOMAIN copying.rows THEN copying.rows[o] ELSE Refs(packed, o)
    BY <1>2, PutTells
  <2>2. o \in copying.keys =>
           /\ o \in DOMAIN copying.rows => copying.rows[o] = rowsOf[o]
           /\ o \notin DOMAIN copying.rows => rowsOf[o] = << >>
    BY <1>1, <1>2, <1>3 DEF CopyBatch, Refs
  <2>3. o \notin copying.keys => o \notin DOMAIN copying.rows
    BY <1>1, <1>2, <1>3 DEF CopyBatch
  <2>4. PackedAs(o) => PackedAs(o)'
    BY <1>2, <2>1, <2>2, <2>3 DEF PackedAs
  <2>5. CASE o \in copying.keys
    <3>1. o \notin DOMAIN packed => Refs(packed, o) = << >>
      BY DEF Refs
    <3> QED
      BY <1>1, <1>2, <1>3, <2>1, <2>2, <2>4, <2>5, <3>1 DEF PackedAs, Ahead, PackStages
  <2>6. CASE o \notin copying.keys
    <3>1. o \in DOMAIN packed' => o \in DOMAIN packed
      BY <1>2, <2>3, <2>6 DEF Put
    <3>2. o <= copying.last => PackedAs(o)
      BY <1>1, <1>3, <2>6 DEF CopyBatch
    <3>3. o \in Nat /\ copying.last \in Nat
      BY <1>3, TagsAssumption DEF CopyJob
    <3> QED
      BY <1>1, <1>3, <1>4, <2>4, <3>1, <3>2, <3>3 DEF PackStages, Ahead
  <2> QED
    BY <2>5, <2>6
<1>8. PackStages'
  BY <1>3, <1>4, <1>7 DEF PackStages
<1> QED
  BY <1>5, <1>6, <1>8 DEF PackInv

LEMMA CutoverKeeps == ASSUME PackInv, Cutover PROVE PackInv'
<1>1. PackShape /\ OldWriters /\ CopyBatch /\ PackStages
  BY DEF PackInv
<1>2. /\ prep.staged /\ ~prep.over /\ prep.after = prep.high /\ copying = NotCopying
      /\ \A w \in Recorder : oldWrite[w] = NotWriting
      /\ prep' = [prep EXCEPT !.over = TRUE] /\ UNCHANGED <<rowsOf, packed, oldWrite, copying>>
  BY DEF Cutover
<1>3. /\ prep'.staged = prep.staged /\ prep'.over /\ prep'.after = prep.after /\ prep'.high = prep.high
      /\ prep' = [staged |-> prep.staged, over |-> TRUE, after |-> prep.after, high |-> prep.high]
  BY <1>1, <1>2 DEF PackShape
<1>4. PackShape'
  BY <1>1, <1>2, <1>3 DEF PackShape
<1>5. OldWriters' /\ CopyBatch'
  BY <1>1, <1>2, <1>3 DEF OldWriters, CopyBatch
<1>6. PackStages'
  BY <1>1, <1>2, <1>3 DEF PackStages, PackedAs, Ahead
<1> QED
  BY <1>4, <1>5, <1>6 DEF PackInv

LEMMA PackStep == ASSUME PackInv, PackingNext PROVE PackInv'
BY ToWrite, WriteKeeps, StageKeeps, BatchKeeps, BatchWrites, CutoverKeeps DEF PackingNext

LEMMA PackSame == PackInv => PackedSame
BY TagsAssumption DEF PackInv, PackStages, PackShape, PackedSame, PackedAs, Ahead

-----------------------------------------------------------------------------
(* Both together.                                                          *)

LEMMA TagsStay == DictInv /\ UNCHANGED tagging => DictInv'
<1> SUFFICES ASSUME DictInv, UNCHANGED tagging PROVE DictInv'
  OBVIOUS
<1>1. UNCHANGED <<dictionary, lastKey, tagRefs, whole, reported, recording, removing>>
  BY DEF tagging
<1>2. Removal'
  BY <1>1 DEF DictInv, Removal
<1> QED
  BY <1>1, <1>2, RemovingKeeps
LEMMA PackedStays == PackInv /\ UNCHANGED packing => PackInv'
<1> SUFFICES ASSUME PackInv, UNCHANGED packing PROVE PackInv'
  OBVIOUS
<1>1. UNCHANGED <<rowsOf, packed, prep, oldWrite, copying>>
  BY DEF packing
<1>2. PackShape' /\ OldWriters'
  BY <1>1 DEF PackInv, PackShape, OldWriters, OldJob, CopyJob
<1>3. CopyBatch' /\ PackStages'
  BY <1>1 DEF PackInv, CopyBatch, PackStages, PackedAs, Ahead, Mirrored, Refs
<1> QED
  BY <1>2, <1>3 DEF PackInv

\* A byte string has one key, no key dangles, what was reported as recorded is
\* read back as it was, and the packed table has what the rows had (write_tags,
\* protect_tag_dictionary_key, prepare_packed_tags).
THEOREM TagsAlwaysExact == TagStoreSpec => []TagsExact
<1>1. TagStoreInit => DictInv /\ PackInv
  BY DictStart, PackInit DEF TagStoreInit
<1>2. DictInv /\ PackInv /\ [TagStoreNext]_<<tagging, packing>> => DictInv' /\ PackInv'
  BY DictStep, PackStep, TagsStay, PackedStays DEF TagStoreNext
<1>3. DictInv /\ PackInv => TagsExact
  BY DictTells, PackSame DEF TagsExact
<1> QED
  BY <1>1, <1>2, <1>3, PTL DEF TagStoreSpec

-----------------------------------------------------------------------------
(* The order of places.                                                    *)

Paths == Seq(Nat)
Place == [height : Nat, position : Nat, path : Paths]

\* Two paths part after n steps.
Parts(p, q, n) ==
    /\ n <= Len(p) /\ n < Len(q) /\ \A i \in 1 .. n : p[i] = q[i]
    /\ n = Len(p) \/ p[n + 1] < q[n + 1]

LEMMA PathTells ==
    ASSUME NEW p \in Paths, NEW q \in Paths
    PROVE  PathBefore(p, q) <=> \E n \in Nat : Parts(p, q, n)
<1> USE DEF Paths
<1>1. ASSUME IsStrictPrefix(p, q) PROVE \E n \in Nat : Parts(p, q, n)
  <2>1. Len(p) <= Len(q) /\ p # q /\ SubSeq(p, 1, Len(p)) = SubSeq(q, 1, Len(p))
    BY <1>1 DEF IsStrictPrefix, IsPrefix
  <2>2. \A i \in 1 .. Len(p) : p[i] = q[i]
    <3>1. \A i \in 1 .. Len(p) : SubSeq(p, 1, Len(p))[i] = p[i] /\ SubSeq(q, 1, Len(p))[i] = q[i]
      BY <2>1
    <3> QED
      BY <2>1, <3>1
  <2>3. Len(p) # Len(q)
    BY <2>1, <2>2
  <2>4. Parts(p, q, Len(p))
    BY <2>1, <2>2, <2>3 DEF Parts
  <2> QED
    BY <2>4
<1>2. ASSUME NEW n \in DOMAIN p \cap DOMAIN q, SubSeq(p, 1, n - 1) = SubSeq(q, 1, n - 1), p[n] < q[n]
      PROVE  \E k \in Nat : Parts(p, q, k)
  <2>1. n \in 1 .. Len(p) /\ n \in 1 .. Len(q)
    OBVIOUS
  <2>2. \A i \in 1 .. n - 1 : SubSeq(p, 1, n - 1)[i] = p[i] /\ SubSeq(q, 1, n - 1)[i] = q[i]
    BY <2>1
  <2>3. \A i \in 1 .. n - 1 : p[i] = q[i]
    BY <1>2, <2>2
  <2>4. Parts(p, q, n - 1)
    BY <1>2, <2>1, <2>3 DEF Parts
  <2> QED
    BY <2>1, <2>4
<1>3. ASSUME NEW n \in Nat, Parts(p, q, n) PROVE PathBefore(p, q)
  <2>1. CASE n = Len(p)
    <3>1. SubSeq(p, 1, Len(p)) = SubSeq(q, 1, Len(p))
      <4>1. \A i \in 1 .. Len(p) : SubSeq(p, 1, Len(p))[i] = p[i] /\ SubSeq(q, 1, Len(p))[i] = q[i]
        BY <1>3, <2>1 DEF Parts
      <4>2. Len(SubSeq(p, 1, Len(p))) = Len(p) /\ Len(SubSeq(q, 1, Len(p))) = Len(p)
        BY <1>3, <2>1 DEF Parts
      <4>3. SubSeq(p, 1, Len(p)) \in Seq(Nat) /\ SubSeq(q, 1, Len(p)) \in Seq(Nat)
        BY <1>3, <2>1 DEF Parts
      <4>4. \A i \in 1 .. Len(p) : SubSeq(p, 1, Len(p))[i] = SubSeq(q, 1, Len(p))[i]
        BY <1>3, <2>1, <4>1 DEF Parts
      <4> QED
        BY <4>2, <4>3, <4>4, SeqEqual
    <3>2. Len(p) < Len(q)
      BY <1>3, <2>1 DEF Parts
    <3> QED
      BY <3>1, <3>2 DEF PathBefore, IsStrictPrefix, IsPrefix
  <2>2. CASE n # Len(p)
    <3>1. n + 1 \in DOMAIN p \cap DOMAIN q /\ p[n + 1] < q[n + 1]
      BY <1>3, <2>2 DEF Parts
    <3>2. SubSeq(p, 1, n) = SubSeq(q, 1, n)
      <4>1. \A i \in 1 .. n : SubSeq(p, 1, n)[i] = p[i] /\ SubSeq(q, 1, n)[i] = q[i]
        BY <1>3 DEF Parts
      <4>2. Len(SubSeq(p, 1, n)) = n /\ Len(SubSeq(q, 1, n)) = n
        BY <1>3 DEF Parts
      <4>3. SubSeq(p, 1, n) \in Seq(Nat) /\ SubSeq(q, 1, n) \in Seq(Nat)
        BY <1>3 DEF Parts
      <4>4. \A i \in 1 .. n : SubSeq(p, 1, n)[i] = SubSeq(q, 1, n)[i]
        BY <1>3, <4>1 DEF Parts
      <4> QED
        BY <4>2, <4>3, <4>4, SeqEqual
    <3>3. (n + 1) - 1 = n
      OBVIOUS
    <3> QED
      BY <3>1, <3>2, <3>3 DEF PathBefore
  <2> QED
    BY <2>1, <2>2
<1> QED
  BY <1>1, <1>2, <1>3 DEF PathBefore

LEMMA PathIrreflexive == ASSUME NEW p \in Paths PROVE ~PathBefore(p, p)
<1>1. \A n \in Nat : ~Parts(p, p, n)
  BY DEF Parts, Paths
<1> QED
  BY <1>1, PathTells

LEMMA PathTransitive ==
    ASSUME NEW p \in Paths, NEW q \in Paths, NEW r \in Paths, PathBefore(p, q), PathBefore(q, r)
    PROVE  PathBefore(p, r)
<1> USE DEF Paths
<1>1. PICK n \in Nat : Parts(p, q, n)
  BY PathTells
<1>2. PICK m \in Nat : Parts(q, r, m)
  BY PathTells
<1>3. CASE n < m
  <2>1. Parts(p, r, n)
    BY <1>1, <1>2, <1>3 DEF Parts
  <2> QED
    BY <2>1, PathTells
<1>4. CASE m <= n
  <2>1. \A i \in 1 .. m : p[i] = q[i] /\ q[i] = r[i]
    BY SMTT(45), <1>1, <1>2, <1>4 DEF Parts
  <2>2. m < Len(q) /\ m < Len(r) /\ m <= Len(p) /\ q[m + 1] < r[m + 1]
    BY <1>1, <1>2, <1>4 DEF Parts
  <2>3. m = Len(p) \/ p[m + 1] <= q[m + 1]
    <3>1. CASE m = n
      BY <1>1, <3>1 DEF Parts
    <3>2. CASE m < n
      <4>1. m + 1 \in 1 .. n
        BY <3>2
      <4>2. p[m + 1] = q[m + 1] /\ q[m + 1] \in Nat
        BY SMTT(45), <1>1, <4>1, <2>2 DEF Parts
      <4> QED
        BY <4>2
    <3> QED
      BY <1>4, <3>1, <3>2
  <2>4. Parts(p, r, m)
    <3>1. CASE m = Len(p)
      BY <2>1, <2>2, <3>1 DEF Parts
    <3>2. CASE m # Len(p)
      <4>1. p[m + 1] \in Nat /\ q[m + 1] \in Nat /\ r[m + 1] \in Nat
        BY SMTT(45), <2>2, <3>2
      <4> QED
        BY SMTT(45), <2>1, <2>2, <2>3, <3>2, <4>1 DEF Parts
    <3> QED
      BY <3>1, <3>2
  <2> QED
    BY <2>4, PathTells
<1> QED
  BY <1>3, <1>4

LEMMA PathTotal ==
    ASSUME NEW p \in Paths, NEW q \in Paths, p # q PROVE PathBefore(p, q) \/ PathBefore(q, p)
<1> USE DEF Paths
<1> DEFINE D == {n \in Nat : n >= Len(p) \/ n >= Len(q) \/ p[n + 1] # q[n + 1]}
<1>1. PICK n \in D : \A m \in D : n <= m
  <2>1. Len(p) \in D
    OBVIOUS
  <2> QED
    BY <2>1, LeastNatural
<1>2. n \in Nat /\ n <= Len(p) /\ n <= Len(q)
  <2>1. Len(p) \in D /\ Len(q) \in D
    OBVIOUS
  <2> QED
    BY <1>1, <2>1
<1>3. \A i \in 1 .. n : p[i] = q[i]
  <2> SUFFICES ASSUME NEW i \in 1 .. n PROVE p[i] = q[i]
    OBVIOUS
  <2>1. i - 1 \in Nat /\ ~(n <= i - 1)
    BY <1>2
  <2>2. i - 1 \notin D
    BY <1>1, <2>1
  <2>3. (i - 1) + 1 = i
    BY <1>2
  <2> QED
    BY <2>1, <2>2, <2>3
<1>4. ~(n = Len(p) /\ n = Len(q))
  <2>1. ASSUME n = Len(p), n = Len(q) PROVE p = q
    <3>1. Len(p) = Len(q) /\ \A i \in 1 .. Len(p) : p[i] = q[i]
      BY <1>3, <2>1
    <3> QED
      BY <3>1, SeqEqual
  <2> QED
    BY <2>1
<1>5. CASE n < Len(p) /\ n < Len(q)
  <2>1. p[n + 1] # q[n + 1] /\ p[n + 1] \in Nat /\ q[n + 1] \in Nat
    BY <1>1, <1>2, <1>5
  <2>2. Parts(p, q, n) \/ Parts(q, p, n)
    BY <1>2, <1>3, <1>5, <2>1 DEF Parts
  <2> QED
    BY <1>2, <2>2, PathTells
<1>6. CASE n = Len(p) /\ n < Len(q)
  <2>1. Parts(p, q, n)
    BY <1>2, <1>3, <1>6 DEF Parts
  <2> QED
    BY <1>2, <2>1, PathTells
<1>7. CASE n = Len(q) /\ n < Len(p)
  <2>1. Parts(q, p, n)
    BY <1>2, <1>3, <1>7 DEF Parts
  <2> QED
    BY <1>2, <2>1, PathTells
<1> QED
  BY <1>2, <1>4, <1>5, <1>6, <1>7

LEMMA BeforeOrders ==
    /\ \A a \in Place : ~Before(a, a)
    /\ \A a, b, c \in Place : Before(a, b) /\ Before(b, c) => Before(a, c)
    /\ \A a, b \in Place : a = b \/ Before(a, b) \/ Before(b, a)
    /\ \A a, b \in Place : ~Before(a, b) => b.height <= a.height
    /\ \A a, b \in Place : Before(a, b) => a.height <= b.height
<1>1. \A a \in Place : a.height \in Nat /\ a.position \in Nat /\ a.path \in Paths
                       /\ a = [height |-> a.height, position |-> a.position, path |-> a.path]
  BY DEF Place
<1>2. \A a \in Place : ~Before(a, a)
  BY <1>1, PathIrreflexive DEF Before
<1>3. ASSUME NEW a \in Place, NEW b \in Place, NEW c \in Place, Before(a, b), Before(b, c) PROVE Before(a, c)
  <2>1. PathBefore(a.path, b.path) /\ PathBefore(b.path, c.path) => PathBefore(a.path, c.path)
    BY <1>1, PathTransitive
  <2>2. /\ a.height \in Nat /\ b.height \in Nat /\ c.height \in Nat
        /\ a.position \in Nat /\ b.position \in Nat /\ c.position \in Nat
    BY <1>1
  <2> QED
    BY <1>3, <2>1, <2>2 DEF Before
<1>4. ASSUME NEW a \in Place, NEW b \in Place, ~Before(a, b), ~Before(b, a) PROVE a = b
  <2>1. /\ a.height \in Nat /\ b.height \in Nat
        /\ a.position \in Nat /\ b.position \in Nat
    BY <1>1
  <2>2. a.height = b.height /\ a.position = b.position
    BY <1>4, <2>1 DEF Before
  <2>3. a.path = b.path
    BY <1>1, <1>4, <2>2, PathTotal DEF Before
  <2> QED
    BY <1>1, <2>2, <2>3
<1>5. \A a, b \in Place : ~Before(a, b) => b.height <= a.height
  BY <1>1 DEF Before
<1>6. \A a, b \in Place : Before(a, b) => a.height <= b.height
  BY <1>1 DEF Before
<1> QED
  BY <1>2, <1>3, <1>4, <1>5, <1>6

-----------------------------------------------------------------------------
(* The least of finitely many places, and what a traversal returns.        *)

\* A finite set that is ordered has a least element.
LEMMA FiniteLeast ==
    ASSUME NEW S, IsFiniteSet(S), S # {}, NEW R,
           \A a, b, c \in S : <<a, b>> \in R /\ <<b, c>> \in R => <<a, c>> \in R,
           \A a, b \in S : a = b \/ <<a, b>> \in R \/ <<b, a>> \in R
    PROVE  \E a \in S : \A b \in S : b = a \/ <<a, b>> \in R
<1>1. PICK n \in Nat : ExistsSurjection(1 .. n, S)
  BY FS_NatSurjection
<1>2. PICK f : f \in [1 .. n -> S] /\ \A y \in S : \E i \in 1 .. n : f[i] = y
  BY <1>1 DEF ExistsSurjection, Surjection
<1> DEFINE Reached == {m \in Nat : m = 0 \/ m > n \/ \E a \in S : \A i \in 1 .. m : f[i] = a \/ <<a, f[i]>> \in R}
<1>3. 0 \in Reached
  OBVIOUS
<1>4. ASSUME NEW m \in Nat, m \in Reached PROVE m + 1 \in Reached
  <2>1. CASE m + 1 > n
    BY <2>1
  <2>2. CASE m + 1 <= n
    <3>0. f[m + 1] \in S
      BY <1>1, <1>2, <2>2
    <3>1. CASE m = 0
      BY <3>0, <3>1
    <3>2. CASE m # 0
      <4>1. PICK a \in S : \A i \in 1 .. m : f[i] = a \/ <<a, f[i]>> \in R
        BY <1>4, <2>2, <3>2
      <4>2. \A i \in 1 .. m + 1 : i \in 1 .. m \/ i = m + 1
        OBVIOUS
      <4>3. \A i \in 1 .. m : f[i] \in S
        BY <1>2, <2>2
      <4>4. CASE a = f[m + 1] \/ <<a, f[m + 1]>> \in R
        <5>1. \A i \in 1 .. m + 1 : f[i] = a \/ <<a, f[i]>> \in R
          BY <4>1, <4>2, <4>4
        <5> QED
          BY <5>1
      <4>5. CASE <<f[m + 1], a>> \in R
        <5>1. \A i \in 1 .. m + 1 : f[i] = f[m + 1] \/ <<f[m + 1], f[i]>> \in R
          BY <3>0, <4>1, <4>2, <4>3, <4>5
        <5> QED
          BY <3>0, <5>1
      <4> QED
        BY <3>0, <4>4, <4>5
    <3> QED
      BY <3>1, <3>2
  <2> QED
    BY <1>1, <2>1, <2>2
<1>5. n \in Reached
  <2> HIDE DEF Reached
  <2> QED
    BY <1>1, <1>3, <1>4, NaturalsReached
<1>6. n # 0
  BY <1>2
<1>7. PICK a \in S : \A i \in 1 .. n : f[i] = a \/ <<a, f[i]>> \in R
  BY <1>1, <1>5, <1>6
<1> QED
  BY <1>2, <1>7

LEMMA LeastTells ==
    ASSUME NEW S, S \subseteq Place, IsFiniteSet(S), S # {}
    PROVE  Least(S) \in S /\ \A b \in S : ~Before(b, Least(S))
<1> DEFINE R == {x \in Place \X Place : Before(x[1], x[2])}
<1>1. \A a, b \in Place : <<a, b>> \in R <=> Before(a, b)
  OBVIOUS
<1>2. \A a, b, c \in S : <<a, b>> \in R /\ <<b, c>> \in R => <<a, c>> \in R
  <2> HIDE DEF R
  <2> QED
    BY <1>1, BeforeOrders
<1>3. \A a, b \in S : a = b \/ <<a, b>> \in R \/ <<b, a>> \in R
  <2> HIDE DEF R
  <2> QED
    BY <1>1, BeforeOrders
<1>4. \E a \in S : \A b \in S : b = a \/ <<a, b>> \in R
  <2> HIDE DEF R
  <2> QED
    BY <1>2, <1>3, FiniteLeast
<1>5. \E a \in S : \A b \in S \ {a} : Before(a, b)
  <2> HIDE DEF R
  <2> QED
    BY <1>1, <1>4
<1>6. Least(S) \in S /\ \A b \in S \ {Least(S)} : Before(Least(S), b)
  BY <1>5 DEF Least
<1>7. ASSUME NEW b \in S, Before(b, Least(S)) PROVE FALSE
  <2>1. b # Least(S)
    BY <1>6, <1>7, BeforeOrders
  <2>2. Before(Least(S), b)
    BY <1>6, <2>1
  <2> QED
    BY <1>6, <1>7, <2>2, BeforeOrders
<1> QED
  BY <1>6, <1>7

-----------------------------------------------------------------------------
(* Traversals.                                                             *)

Bundles == Root \cup Nested
Frames == [id : Bundles, path : Paths, at : Nat]
Items == [id : Item, parent : Bundles, path : Paths]
Walk == [stack : Seq(Frames), out : Seq(Items), failed : BOOLEAN]

LEMMA NextEntryTyped ==
    ASSUME NEW t \in Walk, t.stack # << >> PROVE NextEntry(t) \in Walk
<1> DEFINE top == Last(t.stack)
           rest == [t EXCEPT !.stack[Len(t.stack)].at = @ + 1]
           i == Contents[top.id][top.at]
           path == Append(top.path, top.at)
           given == [rest EXCEPT !.out = Append(@, [id |-> i, parent |-> top.id, path |-> path])]
<1>1. /\ t = [stack |-> t.stack, out |-> t.out, failed |-> t.failed]
      /\ t.stack \in Seq(Frames) /\ t.out \in Seq(Items) /\ t.failed \in BOOLEAN
  BY DEF Walk
<1>2. Len(t.stack) \in 1 .. Len(t.stack) /\ top \in Frames
  BY <1>1 DEF Last
<1>3. top.id \in Bundles /\ top.path \in Paths /\ top.at \in Nat
  BY <1>2 DEF Frames
<1>4. [t.stack[Len(t.stack)] EXCEPT !.at = @ + 1] \in Frames
  BY <1>2 DEF Frames, Last
<1>5. [t.stack EXCEPT ![Len(t.stack)] = [t.stack[Len(t.stack)] EXCEPT !.at = @ + 1]] \in Seq(Frames)
  BY <1>1, <1>2, <1>4
<1>6. rest \in Walk
  BY <1>1, <1>5 DEF Walk
<1>7. path \in Paths
  BY <1>3 DEF Paths
<1>8. ASSUME Kept(i) PROVE given \in Walk
  <2>1. [id |-> i, parent |-> top.id, path |-> path] \in Items
    BY <1>3, <1>7, <1>8 DEF Kept, Items
  <2>2. rest.out = t.out
    BY <1>1
  <2>3. Append(rest.out, [id |-> i, parent |-> top.id, path |-> path]) \in Seq(Items)
    BY <1>1, <2>1, <2>2
  <2> HIDE DEF rest, i, path, top
  <2> QED
    BY <1>6, <2>3 DEF Walk
<1>9. ASSUME NEW g \in Walk PROVE Opened(g, i, path) \in Walk
  <2> HIDE DEF i, path
  <2>1. ASSUME i \in Nested PROVE Append(g.stack, Frame(i, path)) \in Seq(Frames)
    BY <1>7, <1>9, <2>1 DEF Walk, Frames, Frame, Bundles
  <2> QED
    BY <1>9, <2>1 DEF Opened, Walk
<1>10. [t EXCEPT !.stack = Pop(@)] \in Walk
  <2>1. Pop(t.stack) \in Seq(Frames)
    BY <1>1, <1>2 DEF Pop, Front
  <2> QED
    BY <1>1, <2>1 DEF Walk
<1> QED
  BY <1>6, <1>8, <1>9, <1>10 DEF NextEntry

LEMMA PassingTyped == ASSUME NEW t \in Walk PROVE Passing(t) \in Walk
BY NextEntryTyped DEF Passing, Ended

\* The function that NextBatch defines exists.
LEMMA NextBatchRuns ==
    ASSUME NEW t, Fuel \in Nat
    PROVE  \E f : /\ f[0] = [t EXCEPT !.out = << >>] /\ NextBatch(t) = Bounded(f[Fuel])
                  /\ \A n \in 1 .. Fuel : f[n] = Passing(f[n - 1])
<1> DEFINE c == [t EXCEPT !.out = << >>]
           Is(g, n) == g = [k \in 0 .. n |-> IF k = 0 THEN c ELSE Passing(g[k - 1])]
           Runs == {n \in Nat : \E g : Is(g, n)}
<1> HIDE DEF c
<1>1. 0 \in Runs
  <2>1. Is([k \in 0 .. 0 |-> c], 0)
    OBVIOUS
  <2> QED
    BY <2>1
<1>2. ASSUME NEW n \in Nat, n \in Runs PROVE n + 1 \in Runs
  <2>1. PICK g : Is(g, n)
    BY <1>2
  <2> DEFINE h == [k \in 0 .. n + 1 |-> IF k = n + 1 THEN Passing(g[n]) ELSE g[k]]
  <2>2. ASSUME NEW k \in 0 .. n + 1 PROVE h[k] = IF k = 0 THEN c ELSE Passing(h[k - 1])
    <3>1. CASE k = n + 1
      <4>1. n + 1 # 0 /\ (n + 1) - 1 = n /\ n \in 0 .. n + 1 /\ n # n + 1
        OBVIOUS
      <4>2. h[n] = g[n]
        BY <4>1
      <4> QED
        BY <3>1, <4>1, <4>2
    <3>2. CASE k \in 0 .. n
      <4>1. h[k] = g[k] /\ g[k] = IF k = 0 THEN c ELSE Passing(g[k - 1])
        BY <2>1, <3>2
      <4>2. k # 0 => h[k - 1] = g[k - 1]
        BY <3>2
      <4> QED
        BY <4>1, <4>2
    <3> QED
      BY <3>1, <3>2
  <2>3. h = [k \in 0 .. n + 1 |-> h[k]]
    OBVIOUS
  <2> HIDE DEF h
  <2>4. Is(h, n + 1)
    BY <2>2, <2>3
  <2> QED
    BY <2>4
<1>3. Fuel \in Runs
  <2> HIDE DEF Runs
  <2> QED
    BY <1>1, <1>2, NaturalsReached
<1> DEFINE f == CHOOSE f : Is(f, Fuel)
<1>4. Is(f, Fuel)
  BY <1>3
<1>5. NextBatch(t) = Bounded(f[Fuel])
  BY DEF NextBatch, c
<1> HIDE DEF f
<1>6. f[0] = c /\ \A n \in 1 .. Fuel : f[n] = Passing(f[n - 1])
  BY <1>4
<1> QED
  BY <1>5, <1>6 DEF c

LEMMA NextBatchTyped == ASSUME NEW t \in Walk, Fuel \in Nat PROVE NextBatch(t) \in Walk
<1>1. PICK f : /\ f[0] = [t EXCEPT !.out = << >>] /\ NextBatch(t) = Bounded(f[Fuel])
               /\ \A n \in 1 .. Fuel : f[n] = Passing(f[n - 1])
  BY NextBatchRuns
<1> DEFINE S == {n \in Nat : n > Fuel \/ f[n] \in Walk}
<1>2. 0 \in S
  <2>1. [t EXCEPT !.out = << >>] \in Walk
    <3>1. << >> \in Seq(Items)
      OBVIOUS
    <3> QED
      BY <3>1 DEF Walk
  <2> QED
    BY <1>1, <2>1
<1>3. ASSUME NEW n \in Nat, n \in S PROVE n + 1 \in S
  <2>1. CASE n + 1 <= Fuel
    <3>1. f[n + 1] = Passing(f[n])
      <4>1. n + 1 \in 1 .. Fuel /\ (n + 1) - 1 = n
        BY <2>1
      <4> QED
        BY <1>1, <4>1
    <3>2. f[n] \in Walk
      BY <1>3, <2>1
    <3> QED
      BY <3>1, <3>2, PassingTyped
  <2> QED
    BY <2>1
<1>4. Fuel \in S
  <2> HIDE DEF S
  <2> QED
    BY <1>2, <1>3, NaturalsReached
<1>5. f[Fuel] \in Walk
  BY <1>4
<1> QED
  BY <1>1, <1>5 DEF Bounded, Walk

LEMMA NewTraversalTyped == ASSUME NEW r \in Root PROVE NewTraversal(r) \in Walk
<1>1. Frame(r, << >>) \in Frames
  BY DEF Frame, Frames, Bundles, Paths
<1> QED
  BY <1>1 DEF NewTraversal, Walk

-----------------------------------------------------------------------------
(* Blocks, roots and the places they give.  A transaction is in one block  *)
(* of a chain.                                                             *)

\* No root is twice on a chain.
RootsOnce ==
    \A f \in DOMAIN Forks : \A g, h \in Height :
       \A j \in DOMAIN Txs[Forks[f][g]], k \in DOMAIN Txs[Forks[f][h]] :
          Txs[Forks[f][g]][j] = Txs[Forks[f][h]][k] => g = h /\ j = k

Location == [root : Root, id : Item, parent : Bundles, path : Paths]

LEMMA BlocksTyped ==
    ASSUME StoreAssumption, fork \in DOMAIN Forks
    PROVE  /\ Height \subseteq Nat /\ 0 \notin Height /\ Height = 1 .. Len(Forks[1]) /\ Len(Forks[1]) \in Nat
           /\ \A h \in Height : BlockAt(h) \in DOMAIN Txs /\ Txs[BlockAt(h)] \in Seq(Root)
                                /\ BlockAt(h) = Forks[fork][h]
<1>1. Forks # << >> /\ Forks \in Seq(Seq(DOMAIN Txs)) /\ \A f \in DOMAIN Forks : Len(Forks[f]) = Len(Forks[1])
  BY DEF StoreAssumption
<1>2. DOMAIN Forks = 1 .. Len(Forks) /\ Len(Forks) \in Nat /\ Len(Forks) # 0
  BY <1>1, EmptySeq
<1>3. Forks[1] \in Seq(DOMAIN Txs) /\ Forks[fork] \in Seq(DOMAIN Txs) /\ Len(Forks[fork]) = Len(Forks[1])
  BY <1>1, <1>2
<1>4. Len(Forks[1]) \in Nat /\ Height = 1 .. Len(Forks[1])
  BY <1>3 DEF Height
<1>5. ASSUME NEW h \in Height PROVE Forks[fork][h] \in DOMAIN Txs
  BY SMTT(45), <1>3, <1>4
<1> QED
  BY <1>4, <1>5 DEF BlockAt, StoreAssumption

LEMMA RootsInTells ==
    ASSUME StoreAssumption, fork \in DOMAIN Forks, NEW h \in Height
    PROVE  /\ RootsIn(h) \subseteq Root /\ IsFiniteSet(RootsIn(h))
           /\ \A r : r \in RootsIn(h) <=> \E k \in DOMAIN Txs[BlockAt(h)] : Txs[BlockAt(h)][k] = r
<1> DEFINE s == Txs[BlockAt(h)]
<1>1. s \in Seq(Root)
  BY BlocksTyped
<1> HIDE DEF s
<1>2. ToSet(s) = {s[k] : k \in DOMAIN s}
  BY DEF ToSet
<1>3. s \in [1 .. Len(s) -> Root] /\ Len(s) \in Nat /\ DOMAIN s = 1 .. Len(s)
  BY <1>1
<1>4. IsFiniteSet(DOMAIN s)
  BY <1>3, FS_Interval
<1>5. s \in Surjection(DOMAIN s, ToSet(s))
  <2>1. s \in [DOMAIN s -> ToSet(s)]
    BY <1>2, <1>3
  <2> QED
    BY <1>2, <2>1 DEF Surjection
<1>6. IsFiniteSet(ToSet(s)) /\ ToSet(s) \subseteq Root
  BY <1>2, <1>3, <1>4, <1>5, FS_Surjection
<1>7. RootsIn(h) = ToSet(s)
  BY DEF RootsIn, s
<1> QED
  BY <1>2, <1>6, <1>7 DEF s

LEMMA MembersAre ==
    ASSUME NEW r, NEW H, NEW x
    PROVE  x \in Members(r, H) <=>
             \E h \in H : \E k \in DOMAIN Txs[BlockAt(h)] :
                Txs[BlockAt(h)][k] = r /\ x = [height |-> h, position |-> k, path |-> << >>]
BY DEF Members

LEMMA MembersTyped ==
    ASSUME StoreAssumption, fork \in DOMAIN Forks, NEW r, NEW H, H \subseteq Height, NEW x \in Members(r, H)
    PROVE  x \in Place /\ x.height \in H /\ x \in Members(r, {x.height}) /\ r \in RootsIn(x.height)
<1>1. PICK h \in H : \E k \in DOMAIN Txs[BlockAt(h)] :
                Txs[BlockAt(h)][k] = r /\ x = [height |-> h, position |-> k, path |-> << >>]
  BY MembersAre
<1>2. PICK k \in DOMAIN Txs[BlockAt(h)] :
                Txs[BlockAt(h)][k] = r /\ x = [height |-> h, position |-> k, path |-> << >>]
  BY <1>1
<1>3. h \in Nat /\ Txs[BlockAt(h)] \in Seq(Root)
  BY BlocksTyped
<1>4. k \in Nat /\ << >> \in Paths
  BY <1>3 DEF Paths
<1>5. x \in Place /\ x.height = h
  BY <1>2, <1>3, <1>4 DEF Place
<1>6. x \in Members(r, {h})
  BY <1>2, MembersAre
<1>7. r \in RootsIn(h)
  BY <1>2, RootsInTells
<1> QED
  BY <1>5, <1>6, <1>7

LEMMA MembersGrow == ASSUME NEW r, NEW H, NEW G, H \subseteq G PROVE Members(r, H) \subseteq Members(r, G)
BY DEF Members

LEMMA MembersOnce ==
    ASSUME StoreAssumption, RootsOnce, fork \in DOMAIN Forks, NEW r, NEW H, NEW G, H \subseteq Height, G \subseteq Height,
           NEW x \in Members(r, H), NEW y \in Members(r, G)
    PROVE  x = y
<1>1. PICK h \in H : \E k \in DOMAIN Txs[BlockAt(h)] :
                Txs[BlockAt(h)][k] = r /\ x = [height |-> h, position |-> k, path |-> << >>]
  BY MembersAre
<1>2. PICK k \in DOMAIN Txs[BlockAt(h)] :
                Txs[BlockAt(h)][k] = r /\ x = [height |-> h, position |-> k, path |-> << >>]
  BY <1>1
<1>3. PICK g \in G : \E j \in DOMAIN Txs[BlockAt(g)] :
                Txs[BlockAt(g)][j] = r /\ y = [height |-> g, position |-> j, path |-> << >>]
  BY MembersAre
<1>4. PICK j \in DOMAIN Txs[BlockAt(g)] :
                Txs[BlockAt(g)][j] = r /\ y = [height |-> g, position |-> j, path |-> << >>]
  BY <1>3
<1>5. g = h /\ j = k
  <2>1. g \in Height /\ h \in Height
    OBVIOUS
  <2>2. BlockAt(g) = Forks[fork][g] /\ BlockAt(h) = Forks[fork][h]
    BY DEF BlockAt
  <2>3. \A a, b \in Height : \A c \in DOMAIN Txs[Forks[fork][a]], d \in DOMAIN Txs[Forks[fork][b]] :
           Txs[Forks[fork][a]][c] = Txs[Forks[fork][b]][d] => a = b /\ c = d
    BY DEF RootsOnce
  <2>4. j \in DOMAIN Txs[Forks[fork][g]] /\ k \in DOMAIN Txs[Forks[fork][h]]
        /\ Txs[Forks[fork][g]][j] = Txs[Forks[fork][h]][k]
    BY <1>2, <1>4, <2>2
  <2> QED
    BY ZenonT(60), <2>1, <2>3, <2>4
<1> QED
  BY <1>2, <1>4, <1>5

\* Where a root is, if it is in a block.
LEMMA MemberAt ==
    ASSUME StoreAssumption, fork \in DOMAIN Forks, NEW h \in Height, NEW r \in RootsIn(h)
    PROVE  \E m : m \in Members(r, {h})
<1>1. PICK k \in DOMAIN Txs[BlockAt(h)] : Txs[BlockAt(h)][k] = r
  BY RootsInTells
<1>2. [height |-> h, position |-> k, path |-> << >>] \in Members(r, {h})
  BY <1>1, MembersAre
<1> QED
  BY <1>2

LEMMA ThroughTells ==
    ASSUME NEW l \in Location, NEW m \in Place
    PROVE  Through(l, m) \in Place /\ Through(l, m).height = m.height
BY DEF Through, Place, Location

LEMMA PlacesAre ==
    ASSUME NEW o, NEW H, NEW L, NEW x
    PROVE  x \in Places(o, H, L) <=>
             \/ o \in Root /\ x \in Members(o, H)
             \/ o \notin Root /\ \E l \in L : l.id = o /\ \E m \in Members(l.root, H) : x = Through(l, m)
BY DEF Places

LEMMA PlacesGrow ==
    ASSUME NEW o, NEW H, NEW G, NEW L, NEW M, H \subseteq G, L \subseteq M
    PROVE  Places(o, H, L) \subseteq Places(o, G, M)
<1> SUFFICES ASSUME NEW x \in Places(o, H, L) PROVE x \in Places(o, G, M)
  OBVIOUS
<1>1. \A r : Members(r, H) \subseteq Members(r, G)
  BY MembersGrow
<1>2. CASE o \in Root
  BY <1>1, <1>2, PlacesAre
<1>3. CASE o \notin Root
  <2>1. PICK l \in L : l.id = o /\ \E m \in Members(l.root, H) : x = Through(l, m)
    BY <1>3, PlacesAre
  <2>2. l \in M /\ \E m \in Members(l.root, G) : x = Through(l, m)
    BY <1>1, <2>1
  <2> QED
    BY <1>3, <2>1, <2>2, PlacesAre
<1> QED
  BY <1>2, <1>3

LEMMA PlacesTyped ==
    ASSUME StoreAssumption, fork \in DOMAIN Forks, NEW o, NEW H, H \subseteq Height, NEW L, L \subseteq Location,
           NEW x \in Places(o, H, L)
    PROVE  /\ x \in Place /\ x.height \in H /\ x \in Places(o, {x.height}, L)
           /\ o \notin Root => \E l \in L : l.id = o /\ l.root \in RootsIn(x.height)
<1>1. CASE o \in Root
  BY <1>1, PlacesAre, MembersTyped
<1>2. CASE o \notin Root
  <2>1. PICK l \in L : l.id = o /\ \E m \in Members(l.root, H) : x = Through(l, m)
    BY <1>2, PlacesAre
  <2>2. PICK m \in Members(l.root, H) : x = Through(l, m)
    BY <2>1
  <2>3. m \in Place /\ m.height \in H /\ m \in Members(l.root, {m.height}) /\ l.root \in RootsIn(m.height)
    BY MembersTyped
  <2>4. x \in Place /\ x.height = m.height
    BY <2>2, <2>3, ThroughTells
  <2>5. x \in Places(o, {x.height}, L)
    BY <1>2, <2>1, <2>2, <2>3, <2>4, PlacesAre
  <2> QED
    BY <1>2, <2>1, <2>3, <2>4, <2>5
<1> QED
  BY <1>1, <1>2

\* Each location gives a place at most.
LEMMA PlacesFinite ==
    ASSUME StoreAssumption, RootsOnce, fork \in DOMAIN Forks, NEW o, NEW H, H \subseteq Height,
           NEW L, L \subseteq Location, IsFiniteSet(L)
    PROVE  IsFiniteSet(Places(o, H, L))
<1>1. CASE o \in Root
  <2>1. Places(o, H, L) = Members(o, H)
    BY <1>1 DEF Places
  <2>2. \A x, y \in Members(o, H) : x = y
    BY MembersOnce
  <2>3. CASE Members(o, H) = {}
    BY <2>1, <2>3, FS_EmptySet
  <2>4. CASE Members(o, H) # {}
    <3>1. PICK x : Members(o, H) = {x}
      BY <2>2, <2>4
    <3>2. IsFiniteSet({x})
      BY FS_Singleton
    <3> QED
      BY <2>1, <3>1, <3>2
  <2> QED
    BY <2>3, <2>4
<1>2. CASE o \notin Root
  <2> DEFINE P == Places(o, H, L)
             S == {l \in L : l.id = o /\ Members(l.root, H) # {}}
             f == [l \in S |-> Through(l, CHOOSE m \in Members(l.root, H) : TRUE)]
  <2>1. IsFiniteSet(S)
    BY FS_Subset
  <2>2. ASSUME NEW l \in S, NEW m \in Members(l.root, H) PROVE f[l] = Through(l, m)
    <3>1. (CHOOSE z \in Members(l.root, H) : TRUE) \in Members(l.root, H)
      OBVIOUS
    <3>2. (CHOOSE z \in Members(l.root, H) : TRUE) = m
      BY <3>1, MembersOnce
    <3> QED
      BY <3>2
  <2>3. \A x \in P : \E l \in S : f[l] = x
    <3> SUFFICES ASSUME NEW x \in P PROVE \E l \in S : f[l] = x
      OBVIOUS
    <3>1. PICK l \in L : l.id = o /\ \E m \in Members(l.root, H) : x = Through(l, m)
      BY <1>2, PlacesAre
    <3>2. PICK m \in Members(l.root, H) : x = Through(l, m)
      BY <3>1
    <3>3. l \in S
      BY <3>1, <3>2
    <3>4. f[l] = x
      BY <2>2, <3>2, <3>3
    <3> QED
      BY <3>3, <3>4
  <2>4. \A l \in S : f[l] \in P
    <3> SUFFICES ASSUME NEW l \in S PROVE f[l] \in P
      OBVIOUS
    <3>1. PICK m : m \in Members(l.root, H)
      OBVIOUS
    <3>2. f[l] = Through(l, m)
      BY <2>2, <3>1
    <3> HIDE DEF f
    <3> QED
      BY <1>2, <3>1, <3>2, PlacesAre
  <2>5. f = [l \in S |-> f[l]] /\ DOMAIN f = S
    OBVIOUS
  <2> HIDE DEF f, P, S
  <2>6. f \in Surjection(S, P)
    BY <2>3, <2>4, <2>5 DEF Surjection
  <2>7. IsFiniteSet(P)
    BY <2>1, <2>6, FS_Surjection
  <2> QED
    BY <2>7 DEF P
<1> QED
  BY <1>1, <1>2

-----------------------------------------------------------------------------
(* The inductive invariant of the placements.  Whatever a transaction has  *)
(* computed or written is a place that it may see (SoundIn), at the block  *)
(* or the root that it holds and that no rewind can take (Holding), and it *)
(* has not missed what it will have to answer for (MembersCovered,         *)
(* ItemsCovered, BatchCovered): the rows it has locked are no worse than   *)
(* the places that its commit makes certain.                               *)

\* A transaction t that describes a block, and one with a batch of a job j.
Describing(t) == t.height # 0
Batching(t, j) == t.height = 0 /\ j # NoJob /\ t.at # "none"

TxRow(t) ==
    t = [at |-> t.at, height |-> t.height, object |-> t.object, first |-> t.first, guard |-> t.guard,
         roots |-> t.roots, ids |-> t.ids, wrote |-> t.wrote, touched |-> t.touched, todo |-> t.todo,
         known |-> t.known, located |-> t.located, delta |-> t.delta]
StoreShape ==
    /\ fork \in DOMAIN Forks /\ tip \in 0 .. Len(Forks[1]) /\ stable \in 0 .. tip /\ complete \subseteq 1 .. tip
    /\ tx = [w \in Writer |-> tx[w]] /\ job = [w \in Writer |-> job[w]]
    /\ located \subseteq Location /\ IsFiniteSet(located)
TxTyped(t, j) ==
    /\ TxRow(t) /\ t.located \subseteq Location /\ IsFiniteSet(t.located)
    /\ j = NoJob \/ (j = [root |-> j.root, walk |-> j.walk] /\ j.root \in Root /\ j.walk \in Walk)

\* The stages of the three transactions, and what they have before they write.
MetaAt == {"lock", "members", "upsert members", "items", "upsert items", "described", "commit"}
BatchAt == {"root", "batch", "place", "upsert batch", "commit"}
Upserting == {"upsert members", "upsert items", "upsert batch"}
Stages(t, j) ==
    /\ t.at = "none" => t = Fresh
    /\ Describing(t) => j = NoJob /\ t.at \in MetaAt /\ t.located = {} /\ t.height \in Height
    /\ ~Describing(t) /\ j = NoJob =>
          t.at \in {"none", "object", "commit"} /\ DOMAIN t.wrote = {} /\ t.located = {}
    /\ j # NoJob => t.at \in {"none"} \cup BatchAt
    /\ t.at \notin Upserting => DOMAIN t.todo = {}
    /\ t.at \notin {"items", "upsert items", "described", "commit"} => DOMAIN t.wrote = {}
    /\ DOMAIN t.wrote \subseteq t.touched

\* A batch knows its locations, and its root is where it was found.
BatchOf(j) == {[root |-> j.root, id |-> l.id, parent |-> l.parent, path |-> l.path] : l \in ToSet(j.walk.out)}
Listed(t, j) ==
    Batching(t, j) =>
       /\ \A l \in t.located : l.root = j.root /\ l \in BatchOf(j)
       /\ t.at \in {"place", "upsert batch", "commit"} => BatchOf(j) \subseteq located \cup t.located
Safe(t, h) == t.guard \/ h <= stable
Holding(t, j) ==
    /\ Describing(t) => t.height <= tip /\ Safe(t, t.height)
    /\ Batching(t, j) => Looked(j.root) /\ Safe(t, placement[j.root].height)

\* What it writes are places up to the one it holds.
Limit(t, j) == IF Describing(t) THEN t.height ELSE placement[j.root].height
Sees(t) == Described(IF Describing(t) THEN {t.height} ELSE {})
SoundIn(t, j, f) ==
    \A o \in DOMAIN f :
       /\ f[o] \in Places(o, Sees(t), located \cup t.located)
       /\ f[o].height <= Limit(t, j)
       /\ o \in Root => f[o].height = t.height
Improving(t) == \A o \in DOMAIN t.wrote \cap DOMAIN placement : Before(t.wrote[o], placement[o])

\* What it must not miss.
Covers(f, o, x) == o \in DOMAIN f /\ ~Before(x, f[o])
Covered(t, o, x) == o \in t.touched /\ Covers(PlacesSeen(t), o, x)
MembersCovered(t) ==
    Describing(t) =>
       /\ t.at = "upsert members" => DOMAIN t.todo = RootsIn(t.height)
       /\ t.at \in {"items", "upsert items", "described", "commit"} =>
             \A r \in RootsIn(t.height) : r \in t.touched /\ r \in DOMAIN PlacesSeen(t)
ItemsCovered(t) ==
    Describing(t) /\ t.height \notin complete =>
       \A l \in located : \A m \in Members(l.root, {t.height}) :
          /\ t.at = "upsert items" => Covers(t.todo, l.id, Through(l, m))
          /\ t.at \in {"described", "commit"} => Covered(t, l.id, Through(l, m))
BatchCovered(t, j) ==
    Batching(t, j) =>
       \A l \in t.located :
          /\ t.at = "upsert batch" => Covers(t.todo, l.id, Through(l, placement[j.root]))
          /\ t.at = "commit" => Covered(t, l.id, Through(l, placement[j.root]))
Own(t, j) ==
    /\ TxTyped(t, j) /\ Stages(t, j) /\ Listed(t, j) /\ Holding(t, j)
    /\ SoundIn(t, j, t.wrote) /\ SoundIn(t, j, t.todo) /\ Improving(t)
    /\ MembersCovered(t) /\ ItemsCovered(t) /\ BatchCovered(t, j)

Apart == \A v, w \in Writer : v # w => tx[v].touched \cap tx[w].touched = {}
SoundPlaces ==
    \A o \in DOMAIN placement :
       /\ placement[o] \in Places(o, Described({}), located)
       /\ o \in Root => placement[o].height \in complete
CompleteDescribed == \A h \in complete : BlockAt(h) \in described
AllCovered == \A o : \A x \in Places(o, complete, located) : Covers(placement, o, x)
PlacesInv ==
    /\ StoreShape /\ Apart /\ SoundPlaces /\ CompleteDescribed /\ AllCovered
    /\ \A w \in Writer : Own(tx[w], job[w])

\* While the tables stay, what holds of a transaction holds of it afterwards.
TablesSame == UNCHANGED <<fork, tip, stable, complete, described, known, located, done, placement>>
LEMMA OwnStays == ASSUME TablesSame, NEW t, NEW j PROVE Own(t, j) <=> Own(t, j)'
<1>1. fork' = fork /\ tip' = tip /\ stable' = stable /\ complete' = complete /\ described' = described
      /\ known' = known /\ located' = located /\ placement' = placement
  BY DEF TablesSame
<1>2. /\ \A o, H, L : Places(o, H, L)' = Places(o, H, L)
      /\ \A r, H : Members(r, H)' = Members(r, H)
      /\ \A H : Described(H)' = Described(H)
      /\ \A h : RootsIn(h)' = RootsIn(h)
      /\ \A r : Looked(r)' = Looked(r)
  <2>2. \A r, H : Members(r, H)' = Members(r, H)
    BY <1>1 DEF BlockAt, Members
  <2>3. \A o, H, L : Places(o, H, L)' = Places(o, H, L)
    BY <1>1 DEF BlockAt, Members, Places
  <2>4. \A H : Described(H)' = Described(H)
    BY <1>1 DEF BlockAt, Described
  <2>5. \A h : RootsIn(h)' = RootsIn(h)
    BY <1>1 DEF BlockAt, RootsIn
  <2>6. \A r : Looked(r)' = Looked(r)
    BY <1>1 DEF Looked, Members, Described, BlockAt
  <2> QED
    BY <2>2, <2>3, <2>4, <2>5, <2>6
<1>3. TxTyped(t, j) <=> TxTyped(t, j)'
  BY <1>1 DEF TxTyped
<1>4. Stages(t, j) <=> Stages(t, j)'
  BY <1>1 DEF Stages
<1>5. (Listed(t, j) <=> Listed(t, j)') /\ (Holding(t, j) <=> Holding(t, j)')
  BY <1>1, <1>2 DEF Listed, Holding, Safe
<1>6. \A f : SoundIn(t, j, f) <=> SoundIn(t, j, f)'
  <2>1. Limit(t, j)' = Limit(t, j)
    BY <1>1 DEF Limit
  <2>2. Sees(t)' = Sees(t)
    BY <1>2 DEF Sees
  <2>3. \A o : Places(o, Sees(t), located \cup t.located)' = Places(o, Sees(t), located \cup t.located)
    BY <1>1, <2>2 DEF Places, Members, BlockAt
  <2> QED
    BY <2>1, <2>3 DEF SoundIn
<1>7. (Improving(t) <=> Improving(t)') /\ (BatchCovered(t, j) <=> BatchCovered(t, j)')
  BY <1>1 DEF Improving, BatchCovered, Covered, Covers, PlacesSeen
<1>8. (MembersCovered(t) <=> MembersCovered(t)') /\ (ItemsCovered(t) <=> ItemsCovered(t)')
  BY <1>1, <1>2 DEF MembersCovered, ItemsCovered, Covered, Covers, PlacesSeen
<1> QED
  BY <1>3, <1>4, <1>5, <1>6, <1>7, <1>8 DEF Own

\* A step of one writer.
LEMMA OneMoves ==
    ASSUME PlacesInv, TablesSame, NEW w \in Writer, NEW n, To(w, n), NEW j, job' = [job EXCEPT ![w] = j],
           Own(n, j), \A v \in Writer : v # w => n.touched \cap tx[v].touched = {}
    PROVE  PlacesInv'
<1>1. /\ tx' = [v \in Writer |-> IF v = w THEN n ELSE tx[v]]
      /\ job' = [v \in Writer |-> IF v = w THEN j ELSE job[v]]
  BY DEF To, PlacesInv, StoreShape
<1>2. ASSUME NEW v \in Writer PROVE Own(tx[v], job[v])'
  <2>1. PICK m, i : m = tx'[v] /\ i = job'[v]
    OBVIOUS
  <2>2. Own(m, i)
    BY <1>1, <2>1 DEF PlacesInv
  <2>3. Own(m, i)'
    BY <2>2, OwnStays
  <2> QED
    BY <2>1, <2>3
<1>3. (\A v \in Writer : Own(tx[v], job[v]))'
  BY <1>2
<1>4. StoreShape'
  BY <1>1 DEF TablesSame, PlacesInv, StoreShape
<1>5. Apart'
  BY <1>1 DEF PlacesInv, Apart
<1>6. SoundPlaces' /\ CompleteDescribed' /\ AllCovered'
  BY DEF TablesSame, PlacesInv, SoundPlaces, CompleteDescribed, AllCovered, Covers, Places, Members, BlockAt, Described
<1> QED
  BY <1>3, <1>4, <1>5, <1>6 DEF PlacesInv

-----------------------------------------------------------------------------
(* Rows as a transaction sees them, and the statement that keeps the       *)
(* smaller place.                                                          *)

LEMMA OverTells ==
    ASSUME NEW f, NEW g
    PROVE  /\ DOMAIN Overlay(f, g) = DOMAIN f \cup DOMAIN g
           /\ \A o \in DOMAIN f : Overlay(f, g)[o] = f[o]
           /\ \A o \in DOMAIN g \ DOMAIN f : Overlay(f, g)[o] = g[o]
BY DEF Overlay

LEMMA PlacesSeenTells ==
    ASSUME NEW t
    PROVE  /\ DOMAIN PlacesSeen(t) = DOMAIN t.wrote \cup DOMAIN placement
           /\ \A o \in DOMAIN t.wrote : PlacesSeen(t)[o] = t.wrote[o]
           /\ \A o \in DOMAIN placement \ DOMAIN t.wrote : PlacesSeen(t)[o] = placement[o]
BY OverTells DEF PlacesSeen

LEMMA DescribedTells ==
    ASSUME StoreAssumption, StoreShape, NEW H
    PROVE  /\ Described(H) \subseteq Height /\ \A h \in Described(H) : h \in Nat /\ h >= 1 /\ h <= tip
           /\ \A h \in Height : h <= tip /\ (h \in H \/ BlockAt(h) \in described) => h \in Described(H)
           /\ Described({}) \subseteq Described(H)
<1>1. Height \subseteq Nat /\ 0 \notin Height /\ Height = 1 .. Len(Forks[1]) /\ Len(Forks[1]) \in Nat
  BY BlocksTyped DEF StoreShape
<1>2. tip \in Nat /\ tip <= Len(Forks[1])
  BY <1>1 DEF StoreShape
<1> QED
  BY <1>1, <1>2 DEF Described

\* Every place that is stored or about to be is one.
LEMMA PlacesAll ==
    ASSUME StoreAssumption, PlacesInv, NEW t, NEW j, Own(t, j)
    PROVE  /\ \A o \in DOMAIN placement : placement[o] \in Place
           /\ \A o \in DOMAIN t.wrote : t.wrote[o] \in Place
           /\ \A o \in DOMAIN t.todo : t.todo[o] \in Place
           /\ \A o \in DOMAIN PlacesSeen(t) : PlacesSeen(t)[o] \in Place
<1>0. StoreShape /\ fork \in DOMAIN Forks /\ located \subseteq Location /\ t.located \subseteq Location
  BY DEF PlacesInv, StoreShape, Own, TxTyped
<1>1. \A H : Described(H) \subseteq Height
  BY <1>0, DescribedTells
<1>2. ASSUME NEW o \in DOMAIN placement PROVE placement[o] \in Place
  <2>1. placement[o] \in Places(o, Described({}), located)
    BY DEF PlacesInv, SoundPlaces
  <2> QED
    BY ZenonT(60), <1>0, <1>1, <2>1, PlacesTyped
<1>3. ASSUME NEW f, SoundIn(t, j, f), NEW o \in DOMAIN f PROVE f[o] \in Place
  <2>1. f[o] \in Places(o, Sees(t), located \cup t.located)
    BY <1>3 DEF SoundIn
  <2>2. Sees(t) \subseteq Height /\ located \cup t.located \subseteq Location
    BY <1>0, <1>1 DEF Sees
  <2>3. PICK H, L, x : H = Sees(t) /\ L = located \cup t.located /\ x = f[o]
    OBVIOUS
  <2>4. H \subseteq Height /\ L \subseteq Location /\ x \in Places(o, H, L)
    BY <2>1, <2>2, <2>3
  <2>5. x \in Place
    BY <1>0, <2>4, PlacesTyped
  <2> QED
    BY <2>3, <2>5
<1>4. \A o \in DOMAIN t.wrote : t.wrote[o] \in Place
  BY <1>3 DEF Own
<1>5. \A o \in DOMAIN t.todo : t.todo[o] \in Place
  BY <1>3 DEF Own
<1> QED
  BY <1>2, <1>4, <1>5, PlacesSeenTells

\* What a statement that writes placements does to its transaction.
UpsertOf(t, n, next) ==
    /\ TxRow(n) /\ n.at = next /\ n.height = t.height /\ n.guard = t.guard /\ n.located = t.located
    /\ n.known = t.known /\ n.ids = t.ids /\ n.roots = t.roots /\ n.object = t.object /\ n.first = t.first
    /\ n.todo = << >> /\ n.touched = t.touched \cup DOMAIN t.todo
    /\ DOMAIN n.wrote = DOMAIN t.wrote \cup {o \in DOMAIN t.todo : Improves(t, o)}
    /\ \A o \in DOMAIN t.todo : Improves(t, o) => n.wrote[o] = t.todo[o]
    /\ \A o \in DOMAIN t.wrote : ~(o \in DOMAIN t.todo /\ Improves(t, o)) => n.wrote[o] = t.wrote[o]

LEMMA UpsertIs ==
    ASSUME NEW w \in Writer, NEW next, Upsert(w, next), TxRow(tx[w])
    PROVE  \E n : To(w, n) /\ UpsertOf(tx[w], n, next)
<1> DEFINE t == tx[w]
           rows == {o \in DOMAIN t.todo : Improves(t, o)}
           f == [o \in rows |-> t.todo[o]]
<1>1. PICK n : /\ n = [t EXCEPT !.wrote = Overlay(f, @),
                          !.touched = @ \cup DOMAIN t.todo,
                          !.delta = Moved(t, PlacesSeen(t), Overlay(f, PlacesSeen(t)), rows),
                          !.todo = << >>, !.at = next]
               /\ To(w, n)
  BY DEF Upsert
<1> HIDE DEF rows, f
<1>2. /\ TxRow(n) /\ n.at = next /\ n.height = t.height /\ n.guard = t.guard /\ n.located = t.located
      /\ n.known = t.known /\ n.ids = t.ids /\ n.roots = t.roots /\ n.object = t.object /\ n.first = t.first
      /\ n.todo = << >> /\ n.touched = t.touched \cup DOMAIN t.todo /\ n.wrote = Overlay(f, t.wrote)
  BY <1>1 DEF TxRow
<1>3. DOMAIN f = rows /\ \A o \in rows : f[o] = t.todo[o]
  BY DEF f
<1>4. /\ DOMAIN n.wrote = rows \cup DOMAIN t.wrote
      /\ \A o \in rows : n.wrote[o] = t.todo[o]
      /\ \A o \in DOMAIN t.wrote \ rows : n.wrote[o] = t.wrote[o]
  <2>1. PICK g : g = t.wrote
    OBVIOUS
  <2>2. /\ DOMAIN Overlay(f, g) = DOMAIN f \cup DOMAIN g
        /\ \A o \in DOMAIN f : Overlay(f, g)[o] = f[o]
        /\ \A o \in DOMAIN g \ DOMAIN f : Overlay(f, g)[o] = g[o]
    BY OverTells
  <2> QED
    BY <1>2, <1>3, <2>1, <2>2
<1>5. UpsertOf(t, n, next)
  BY <1>2, <1>4 DEF UpsertOf, rows
<1> QED
  BY <1>1, <1>5

LEMMA UpsertTells ==
    ASSUME StoreAssumption, PlacesInv, NEW t, NEW j, Own(t, j), NEW n, NEW next, UpsertOf(t, n, next)
    PROVE  /\ SoundIn(n, j, n.wrote) /\ SoundIn(n, j, n.todo) /\ Improving(n)
           /\ DOMAIN n.wrote \subseteq n.touched /\ DOMAIN n.todo = {}
           /\ \A o \in DOMAIN t.todo : o \in n.touched /\ o \in DOMAIN PlacesSeen(n)
           /\ \A o \in DOMAIN PlacesSeen(t) : o \in DOMAIN PlacesSeen(n)
           /\ \A o : \A x \in Place : Covers(t.todo, o, x) => Covered(n, o, x)
           /\ \A o : \A x \in Place : Covered(t, o, x) => Covered(n, o, x)
<1> DEFINE rows == {o \in DOMAIN t.todo : Improves(t, o)}
<1>1. /\ DOMAIN n.wrote = DOMAIN t.wrote \cup rows /\ DOMAIN n.todo = {}
      /\ \A o \in rows : n.wrote[o] = t.todo[o]
      /\ \A o \in DOMAIN t.wrote \ rows : n.wrote[o] = t.wrote[o]
      /\ n.touched = t.touched \cup DOMAIN t.todo
      /\ n.height = t.height /\ n.located = t.located /\ n.guard = t.guard
  BY DEF UpsertOf
<1>2. SoundIn(t, j, t.wrote) /\ SoundIn(t, j, t.todo) /\ DOMAIN t.wrote \subseteq t.touched /\ Improving(t)
  BY DEF Own, Stages
<1>3. /\ \A o \in DOMAIN placement : placement[o] \in Place
      /\ \A o \in DOMAIN t.wrote : t.wrote[o] \in Place
      /\ \A o \in DOMAIN t.todo : t.todo[o] \in Place
      /\ \A o \in DOMAIN PlacesSeen(t) : PlacesSeen(t)[o] \in Place
  BY PlacesAll
<1>4. \A o \in rows : o \in DOMAIN PlacesSeen(t) => Before(t.todo[o], PlacesSeen(t)[o])
  BY DEF Improves
<1>5. \A o \in DOMAIN t.todo \ rows : o \in DOMAIN PlacesSeen(t) /\ ~Before(t.todo[o], PlacesSeen(t)[o])
  BY DEF Improves
<1> HIDE DEF rows
<1>6. rows \subseteq DOMAIN t.todo
  BY DEF rows
<1>7. SoundIn(n, j, n.wrote)
  <2>1. Limit(n, j) = Limit(t, j) /\ Sees(n) = Sees(t)
    BY <1>1 DEF Limit, Sees, Describing
  <2> QED
    BY <1>1, <1>2, <1>6, <2>1 DEF SoundIn
<1>8. SoundIn(n, j, n.todo)
  BY <1>1 DEF SoundIn
<1>9. Improving(n)
  <2> SUFFICES ASSUME NEW o \in DOMAIN n.wrote \cap DOMAIN placement PROVE Before(n.wrote[o], placement[o])
    BY DEF Improving
  <2>1. CASE o \in DOMAIN t.wrote \ rows
    BY <1>1, <1>2, <2>1 DEF Improving
  <2>2. CASE o \in rows /\ o \in DOMAIN t.wrote
    <3>1. Before(t.todo[o], t.wrote[o]) /\ Before(t.wrote[o], placement[o])
      BY <1>2, <1>4, <2>2, PlacesSeenTells DEF Improving
    <3> QED
      BY <1>1, <1>3, <1>6, <2>2, <3>1, BeforeOrders
  <2>3. CASE o \in rows /\ o \notin DOMAIN t.wrote
    BY ZenonT(60), <1>1, <1>4, <2>3, PlacesSeenTells
  <2> QED
    BY <1>1, <2>1, <2>2, <2>3
<1>10. /\ DOMAIN PlacesSeen(n) = DOMAIN PlacesSeen(t) \cup rows
       /\ \A o \in rows : PlacesSeen(n)[o] = t.todo[o]
       /\ \A o \in DOMAIN PlacesSeen(t) \ rows : PlacesSeen(n)[o] = PlacesSeen(t)[o]
  <2>1. /\ DOMAIN PlacesSeen(n) = DOMAIN n.wrote \cup DOMAIN placement
        /\ \A o \in DOMAIN n.wrote : PlacesSeen(n)[o] = n.wrote[o]
        /\ \A o \in DOMAIN placement \ DOMAIN n.wrote : PlacesSeen(n)[o] = placement[o]
    BY PlacesSeenTells
  <2>2. /\ DOMAIN PlacesSeen(t) = DOMAIN t.wrote \cup DOMAIN placement
        /\ \A o \in DOMAIN t.wrote : PlacesSeen(t)[o] = t.wrote[o]
        /\ \A o \in DOMAIN placement \ DOMAIN t.wrote : PlacesSeen(t)[o] = placement[o]
    BY PlacesSeenTells
  <2>3. DOMAIN PlacesSeen(n) = DOMAIN PlacesSeen(t) \cup rows
    BY <1>1, <2>1, <2>2
  <2>4. \A o \in rows : PlacesSeen(n)[o] = t.todo[o]
    BY <1>1, <2>1
  <2>5. \A o \in DOMAIN PlacesSeen(t) \ rows : PlacesSeen(n)[o] = PlacesSeen(t)[o]
    BY <1>1, <2>1, <2>2
  <2> QED
    BY <2>3, <2>4, <2>5
<1>11. ASSUME NEW o, NEW x \in Place, Covers(t.todo, o, x) PROVE Covered(n, o, x)
  <2>1. o \in DOMAIN t.todo /\ ~Before(x, t.todo[o]) /\ t.todo[o] \in Place
    BY <1>3, <1>11 DEF Covers
  <2>2. CASE o \in rows
    BY <1>1, <1>10, <2>1, <2>2 DEF Covered, Covers
  <2>3. CASE o \notin rows
    <3>1. PlacesSeen(n)[o] = PlacesSeen(t)[o] /\ PlacesSeen(t)[o] \in Place /\ ~Before(t.todo[o], PlacesSeen(t)[o])
          /\ o \in DOMAIN PlacesSeen(n)
      BY <1>3, <1>5, <1>10, <2>1, <2>3
    <3>2. ~Before(x, PlacesSeen(t)[o])
      BY <2>1, <3>1, BeforeOrders
    <3> QED
      BY <1>1, <2>1, <3>1, <3>2 DEF Covered, Covers
  <2> QED
    BY <2>2, <2>3
<1>12. ASSUME NEW o, NEW x \in Place, Covered(t, o, x) PROVE Covered(n, o, x)
  <2>1. o \in t.touched /\ o \in DOMAIN PlacesSeen(t) /\ ~Before(x, PlacesSeen(t)[o]) /\ PlacesSeen(t)[o] \in Place
    BY <1>3, <1>12 DEF Covered, Covers
  <2>2. CASE o \notin rows
    BY <1>1, <1>10, <2>1, <2>2 DEF Covered, Covers
  <2>3. CASE o \in rows
    <3>1. PlacesSeen(n)[o] = t.todo[o] /\ t.todo[o] \in Place /\ Before(t.todo[o], PlacesSeen(t)[o])
          /\ o \in DOMAIN PlacesSeen(n)
      BY <1>3, <1>4, <1>6, <1>10, <2>1, <2>3
    <3>2. ~Before(x, t.todo[o])
      BY <2>1, <3>1, BeforeOrders
    <3> QED
      BY <1>1, <2>1, <3>1, <3>2 DEF Covered, Covers
  <2> QED
    BY <2>2, <2>3
<1>13. DOMAIN n.wrote \subseteq n.touched
  BY <1>1, <1>2, <1>6
<1>14. \A o \in DOMAIN t.todo : o \in n.touched /\ o \in DOMAIN PlacesSeen(n)
  BY <1>1, <1>5, <1>10
<1>15. \A o \in DOMAIN PlacesSeen(t) : o \in DOMAIN PlacesSeen(n)
  BY <1>10
<1> QED
  BY <1>1, <1>7, <1>8, <1>9, <1>11, <1>12, <1>13, <1>14, <1>15

-----------------------------------------------------------------------------
(* Each action keeps the invariant: first those of a block.                *)

Same(n, t) ==
    /\ TxRow(n) /\ n.height = t.height /\ n.guard = t.guard /\ n.located = t.located
    /\ n.wrote = t.wrote /\ n.touched = t.touched
Staged(n, j) ==
    Stages(n, j) /\ Listed(n, j) /\ MembersCovered(n) /\ ItemsCovered(n) /\ BatchCovered(n, j)

LEMMA JobStays ==
    ASSUME PlacesInv, NEW w \in Writer, job' = job
    PROVE  job' = [job EXCEPT ![w] = job[w]]
BY DEF PlacesInv, StoreShape

\* A statement that places nothing.
LEMMA StageMoves ==
    ASSUME PlacesInv, TablesSame, NEW w \in Writer, NEW n, To(w, n), job' = job,
           Same(n, tx[w]), SoundIn(n, job[w], n.todo), tx[w].at = "none" \/ n.at # "none",
           tx[w].at # "none", Staged(n, job[w])
    PROVE  PlacesInv'
<1>1. PICK t, j : t = tx[w] /\ j = job[w]
  OBVIOUS
<1>2. Own(t, j) /\ Same(n, t) /\ SoundIn(n, j, n.todo) /\ Staged(n, j) /\ t.at # "none" /\ n.at # "none"
  BY <1>1 DEF PlacesInv
<1>3. TxTyped(n, j)
  BY <1>2 DEF Own, TxTyped, Same
<1>4. Holding(n, j)
  BY <1>2 DEF Own, Holding, Same, Describing, Batching, Safe
<1>5. SoundIn(n, j, n.wrote)
  <2>1. Limit(n, j) = Limit(t, j) /\ Sees(n) = Sees(t)
    BY <1>2 DEF Same, Limit, Sees, Describing
  <2>2. SoundIn(t, j, t.wrote)
    BY <1>2 DEF Own
  <2> QED
    BY <1>2, <2>1, <2>2 DEF SoundIn, Same
<1>6. Improving(n)
  BY <1>2 DEF Own, Improving, Same
<1>7. Own(n, j)
  BY <1>2, <1>3, <1>4, <1>5, <1>6 DEF Own, Staged
<1>8. \A v \in Writer : v # w => n.touched \cap tx[v].touched = {}
  BY <1>1, <1>2 DEF Same, PlacesInv, Apart
<1>9. job' = [job EXCEPT ![w] = j]
  BY <1>1, JobStays
<1> QED
  BY <1>7, <1>8, <1>9, OneMoves

LEMMA SoundNothing == ASSUME NEW n, NEW j, NEW f, DOMAIN f = {} PROVE SoundIn(n, j, f)
BY DEF SoundIn

LEMMA FreeTells ==
    ASSUME NEW w \in Writer, tx[w].at \in Upserting, Free(w), NEW v \in Writer, v # w
    PROVE  DOMAIN tx[w].todo \cap tx[v].touched = {}
<1>1. Needs(w) = Lacking({}, {}, DOMAIN tx[w].todo)
  BY DEF Needs, Upserting
<1>2. Needs(w).rows = DOMAIN tx[w].todo
  BY <1>1 DEF Lacking
<1> QED
  BY <1>2 DEF Free, Blocks

\* A statement that places objects, and is free to.
LEMMA UpsertMoves ==
    ASSUME StoreAssumption, PlacesInv, TablesSame, NEW w \in Writer, tx[w].at \in Upserting, Free(w), job' = job,
           NEW n, NEW next, To(w, n), UpsertOf(tx[w], n, next), next # "none", Staged(n, job[w])
    PROVE  PlacesInv'
<1>1. PICK t, j : t = tx[w] /\ j = job[w]
  OBVIOUS
<1>2. Own(t, j) /\ UpsertOf(t, n, next) /\ Staged(n, j) /\ t.at # "none"
  BY <1>1 DEF PlacesInv, Upserting
<1>3. n.height = t.height /\ n.guard = t.guard /\ n.located = t.located /\ n.at = next /\ TxRow(n)
      /\ n.touched = t.touched \cup DOMAIN t.todo
  BY <1>2 DEF UpsertOf
<1>4. TxTyped(n, j)
  BY <1>2, <1>3 DEF Own, TxTyped
<1>5. Holding(n, j)
  BY <1>2, <1>3 DEF Own, Holding, Describing, Batching, Safe
<1>6. SoundIn(n, j, n.wrote) /\ SoundIn(n, j, n.todo) /\ Improving(n)
  BY <1>2, UpsertTells
<1>7. Own(n, j)
  BY <1>2, <1>4, <1>5, <1>6 DEF Own, Staged
<1>8. \A v \in Writer : v # w => n.touched \cap tx[v].touched = {}
  BY <1>1, <1>3, FreeTells DEF PlacesInv, Apart
<1>9. job' = [job EXCEPT ![w] = j]
  BY <1>1, JobStays
<1> QED
  BY <1>7, <1>8, <1>9, OneMoves

LEMMA FreshOwns == ASSUME NEW j, j = NoJob \/ (j = [root |-> j.root, walk |-> j.walk] /\ j.root \in Root /\ j.walk \in Walk)
                   PROVE Own(Fresh, j)
<1>1. PICK n : n = Fresh
  OBVIOUS
<1>2. /\ TxRow(n) /\ n.at = "none" /\ n.height = 0 /\ DOMAIN n.wrote = {} /\ n.touched = {} /\ DOMAIN n.todo = {}
      /\ n.located = {} /\ n.guard = FALSE
  BY <1>1 DEF Fresh, TxRow
<1>3. TxTyped(n, j)
  BY <1>2, FS_EmptySet DEF TxTyped
<1>4. Stages(n, j)
  BY <1>1, <1>2 DEF Stages, Describing, Upserting
<1>5. Listed(n, j) /\ Holding(n, j) /\ MembersCovered(n) /\ ItemsCovered(n) /\ BatchCovered(n, j)
  BY <1>2 DEF Listed, Holding, MembersCovered, ItemsCovered, BatchCovered, Describing, Batching
<1>6. SoundIn(n, j, n.wrote) /\ SoundIn(n, j, n.todo) /\ Improving(n)
  BY <1>2 DEF SoundIn, Improving
<1> QED
  BY <1>1, <1>3, <1>4, <1>5, <1>6 DEF Own

LEMMA EndJobKeeps == ASSUME PlacesInv, NEW w \in Writer, EndJob(w), UNCHANGED <<fork, tip, stable, complete>> PROVE PlacesInv'
<1>1. To(w, Fresh) /\ job' = [job EXCEPT ![w] = NoJob] /\ TablesSame
  BY DEF EndJob, chain, tables, TablesSame
<1>2. Own(Fresh, NoJob)
  BY FreshOwns
<1>3. \A v \in Writer : v # w => Fresh.touched \cap tx[v].touched = {}
  BY DEF Fresh
<1> QED
  BY <1>1, <1>2, <1>3, OneMoves

LEMMA AbortKeeps == ASSUME PlacesInv, NEW w \in Writer, Abort(w) PROVE PlacesInv'
<1>1. To(w, Fresh) /\ job' = [job EXCEPT ![w] = NoJob] /\ TablesSame
  BY DEF Abort, chain, tables, TablesSame
<1>2. Own(Fresh, NoJob)
  BY FreshOwns
<1>3. \A v \in Writer : v # w => Fresh.touched \cap tx[v].touched = {}
  BY DEF Fresh
<1> QED
  BY <1>1, <1>2, <1>3, OneMoves

LEMMA BeginMetadataKeeps ==
    ASSUME StoreAssumption, PlacesInv, NEW w \in Writer, NEW h \in Height, NEW o, BeginMetadata(w, h, o)
    PROVE  PlacesInv'
<1>1. TablesSame /\ job' = job /\ job[w] = NoJob /\ h <= tip /\ tx[w].at = "none"
  BY DEF BeginMetadata, chain, tables, TablesSame, At
<1>2. PICK n, f, g : /\ f = (BlockAt(h) \notin described) /\ g = Guard(h)
                     /\ n = [Fresh EXCEPT !.at = "lock", !.height = h, !.object = o, !.first = f, !.guard = g]
                     /\ To(w, n)
  BY DEF BeginMetadata
<1>3. /\ TxRow(n) /\ n.at = "lock" /\ n.height = h /\ DOMAIN n.wrote = {} /\ n.touched = {} /\ DOMAIN n.todo = {}
      /\ n.located = {} /\ n.guard = g
  <2>1. n = [Fresh EXCEPT !.at = "lock", !.height = h, !.object = o, !.first = f, !.guard = g]
    BY <1>2
  <2>2. n = [at |-> "lock", height |-> h, object |-> o, first |-> f, guard |-> g, roots |-> {}, ids |-> {},
             wrote |-> << >>, touched |-> {}, todo |-> << >>, known |-> {}, located |-> {}, delta |-> Zero]
    BY <2>1 DEF Fresh
  <2>3. TxRow(n)
    BY <2>2 DEF TxRow
  <2> QED
    BY <2>2, <2>3
<1>12. To(w, n) /\ (g <=> h > stable)
  BY <1>2 DEF Guard
<1>4. h \in Nat /\ h # 0 /\ stable \in Nat
  BY BlocksTyped DEF PlacesInv, StoreShape
<1>5. TxTyped(n, NoJob)
  BY <1>3, FS_EmptySet DEF TxTyped
<1>6. Stages(n, NoJob)
  BY <1>3, <1>4 DEF Stages, Describing, MetaAt, Upserting
<1>7. Listed(n, NoJob) /\ MembersCovered(n) /\ ItemsCovered(n) /\ BatchCovered(n, NoJob)
  BY <1>3, <1>4 DEF Listed, MembersCovered, ItemsCovered, BatchCovered, Describing, Batching
<1>8. Holding(n, NoJob)
  <2>1. n.guard \/ h <= stable
    BY <1>3, <1>4, <1>12
  <2> QED
    BY <1>1, <1>3, <1>4, <2>1 DEF Holding, Safe, Describing, Batching
<1>9. SoundIn(n, NoJob, n.wrote) /\ SoundIn(n, NoJob, n.todo) /\ Improving(n)
  BY <1>3 DEF SoundIn, Improving
<1>10. Own(n, NoJob)
  BY <1>5, <1>6, <1>7, <1>8, <1>9 DEF Own
<1>11. job' = [job EXCEPT ![w] = NoJob]
  BY <1>1, JobStays
<1>13. \A v \in Writer : v # w => n.touched \cap tx[v].touched = {}
  BY <1>3
<1> QED
  BY <1>1, <1>12, <1>13, <1>10, <1>11, OneMoves

\* The transaction of a writer that is at a stage of describing a block.
LEMMA DescribesAt ==
    ASSUME StoreAssumption, PlacesInv, NEW w \in Writer,
           tx[w].at \in {"lock", "members", "upsert members", "items", "upsert items", "described"}
    PROVE  /\ Own(tx[w], job[w]) /\ Stages(tx[w], job[w]) /\ Describing(tx[w]) /\ job[w] = NoJob
           /\ tx[w].located = {} /\ tx[w].height \in Height /\ tx[w].height # 0 /\ tx[w].height <= tip
           /\ MembersCovered(tx[w]) /\ ItemsCovered(tx[w]) /\ TxRow(tx[w])
           /\ tx[w].height \in Described({tx[w].height}) /\ Described({tx[w].height}) \subseteq Height
<1>1. PICK t, j : t = tx[w] /\ j = job[w]
  OBVIOUS
<1>2. Own(t, j) /\ t.at \in {"lock", "members", "upsert members", "items", "upsert items", "described"}
  BY <1>1 DEF PlacesInv
<1>3. Stages(t, j) /\ Holding(t, j) /\ MembersCovered(t) /\ ItemsCovered(t) /\ TxRow(t)
  BY <1>2 DEF Own, TxTyped
<1>4. Describing(t) /\ j = NoJob /\ t.located = {} /\ t.height \in Height
  BY <1>2, <1>3 DEF Stages, BatchAt
<1>5. t.height <= tip /\ t.height # 0
  BY <1>3, <1>4 DEF Holding, Describing
<1>6. t.height \in Described({t.height}) /\ Described({t.height}) \subseteq Height
  BY <1>4, <1>5, DescribedTells DEF PlacesInv
<1> QED
  BY <1>1, <1>2, <1>3, <1>4, <1>5, <1>6

LEMMA LockMembersKeeps == ASSUME StoreAssumption, PlacesInv, NEW w \in Writer, LockMembers(w) PROVE PlacesInv'
<1>1. TablesSame /\ job' = job /\ tx[w].at = "lock"
  BY DEF LockMembers, chain, tables, TablesSame, At
<1>2. PICK t, n : /\ t = tx[w] /\ n = [t EXCEPT !.at = "members", !.roots = ToLock(t), !.ids = ToLock(t) \ known]
                  /\ To(w, n)
  BY DEF LockMembers
<1>3. /\ Stages(t, NoJob) /\ Describing(t) /\ job[w] = NoJob /\ t.located = {} /\ TxRow(t) /\ t.at = "lock"
      /\ t.height \in Height
  BY <1>1, <1>2, DescribesAt
<1>4. Same(n, t) /\ n.at = "members" /\ n.todo = t.todo /\ DOMAIN n.todo = {}
  BY <1>2, <1>3 DEF Same, TxRow, Stages, Upserting
<1>5. Stages(n, NoJob)
  BY <1>3, <1>4 DEF Stages, Same, Describing, MetaAt, Upserting
<1>6. Listed(n, NoJob) /\ MembersCovered(n) /\ ItemsCovered(n) /\ BatchCovered(n, NoJob)
  BY <1>3, <1>4 DEF Listed, MembersCovered, ItemsCovered, BatchCovered, Describing, Batching, Same
<1>7. SoundIn(n, NoJob, n.todo)
  BY <1>4, SoundNothing
<1> QED
  BY <1>1, <1>2, <1>3, <1>4, <1>5, <1>6, <1>7, StageMoves DEF Staged

\* The place of a root in a block, and the best of several.
LEMMA MemberOf ==
    ASSUME StoreAssumption, fork \in DOMAIN Forks, NEW h \in Height, NEW r, NEW m \in Members(r, {h})
    PROVE  m \in Place /\ m.height = h /\ r \in RootsIn(h)
<1>1. PICK H : H = {h}
  OBVIOUS
<1>2. H \subseteq Height /\ m \in Members(r, H)
  BY <1>1
<1>3. m \in Place /\ m.height \in H /\ r \in RootsIn(m.height)
  BY <1>2, MembersTyped
<1> QED
  BY <1>1, <1>3

LEMMA LeastMember ==
    ASSUME StoreAssumption, RootsOnce, fork \in DOMAIN Forks, NEW h \in Height, NEW r \in RootsIn(h)
    PROVE  Least(Members(r, {h})) \in Members(r, {h})
<1>1. PICK m : m \in Members(r, {h})
  BY MemberAt
<1>2. \A x \in Members(r, {h}) : x = m
  <2>1. PICK H : H = {h}
    OBVIOUS
  <2>2. H \subseteq Height /\ m \in Members(r, H)
    BY <1>1, <2>1
  <2>3. \A x \in Members(r, H) : x = m
    BY <2>2, MembersOnce
  <2> QED
    BY <2>1, <2>3
<1>3. Members(r, {h}) = {m}
  BY <1>1, <1>2
<1>4. m \in Place
  BY <1>1, MemberOf
<1>5. IsFiniteSet({m})
  BY FS_Singleton
<1> QED
  BY <1>3, <1>4, <1>5, LeastTells

LEMMA LeastPlace ==
    ASSUME StoreAssumption, RootsOnce, fork \in DOMAIN Forks, NEW o, NEW H, H \subseteq Height,
           NEW L, L \subseteq Location, IsFiniteSet(L), NEW x \in Places(o, H, L)
    PROVE  /\ Least(Places(o, H, L)) \in Places(o, H, L) /\ Least(Places(o, H, L)) \in Place /\ x \in Place
           /\ ~Before(x, Least(Places(o, H, L))) /\ Least(Places(o, H, L)).height <= x.height
<1>1. PICK S : S = Places(o, H, L)
  OBVIOUS
<1>2. IsFiniteSet(S) /\ S \subseteq Place
  BY <1>1, PlacesFinite, PlacesTyped
<1>3. Least(S) \in S /\ ~Before(x, Least(S))
  BY <1>1, <1>2, LeastTells
<1>4. Least(S) \in Place /\ x \in Place
  BY <1>1, <1>2, <1>3
<1>5. Least(S).height <= x.height
  BY <1>3, <1>4, BeforeOrders
<1> QED
  BY <1>1, <1>3, <1>4, <1>5

LEMMA PlaceMembersKeeps ==
    ASSUME StoreAssumption, RootsOnce, PlacesInv, NEW w \in Writer, PlaceMembers(w) PROVE PlacesInv'
<1>1. TablesSame /\ job' = job /\ tx[w].at = "members"
  BY DEF PlaceMembers, chain, tables, TablesSame, At
<1>2. PICK t, h, f, n : /\ t = tx[w] /\ h = t.height /\ f = [r \in RootsIn(h) |-> Least(Members(r, {h}))]
                        /\ n = [t EXCEPT !.todo = f, !.at = "upsert members"] /\ To(w, n)
  BY DEF PlaceMembers, Compute
<1>3. /\ Stages(t, NoJob) /\ Describing(t) /\ job[w] = NoJob /\ t.located = {} /\ TxRow(t) /\ t.at = "members"
      /\ h \in Height /\ h <= tip /\ h \in Described({h}) /\ h # 0
  BY <1>1, <1>2, DescribesAt
<1>4. /\ Same(n, t) /\ n.at = "upsert members" /\ n.todo = f /\ DOMAIN n.wrote = {} /\ n.height = h /\ n.located = {}
      /\ n.touched = t.touched /\ n.wrote = t.wrote
  BY <1>2, <1>3 DEF Same, TxRow, Stages
<1>5. fork \in DOMAIN Forks
  BY DEF PlacesInv, StoreShape
<1>6. SoundIn(n, NoJob, n.todo)
  <2>1. Sees(n) = Described({h}) /\ Limit(n, NoJob) = h
    BY <1>3, <1>4 DEF Sees, Limit, Describing
  <2>2. ASSUME NEW r \in RootsIn(h)
        PROVE  /\ f[r] \in Places(r, Sees(n), located \cup n.located)
               /\ f[r].height = h
    <3>1. f[r] \in Members(r, {h})
      BY <1>2, <1>3, <1>5, LeastMember
    <3>2. r \in Root
      BY <1>3, <1>5, RootsInTells
    <3>3. Members(r, {h}) \subseteq Members(r, Described({h}))
      BY <1>3, MembersGrow
    <3>4. f[r] \in Places(r, Sees(n), located \cup n.located)
      BY <2>1, <3>1, <3>2, <3>3 DEF Places
    <3>6. f[r].height = h
      BY <1>3, <1>5, <3>1, MemberOf
    <3> QED
      BY <3>4, <3>6
  <2>3. DOMAIN n.todo = RootsIn(h) /\ h \in Nat
    BY <1>2, <1>3, <1>4, <1>5, BlocksTyped
  <2> QED
    <3>1. ASSUME NEW r \in DOMAIN f
          PROVE  /\ f[r] \in Places(r, Sees(n), located \cup n.located)
                 /\ f[r].height <= Limit(n, NoJob) /\ f[r].height = n.height
      <4>1. f[r].height = h /\ f[r] \in Places(r, Sees(n), located \cup n.located)
        BY <1>4, <2>2, <2>3
      <4>2. n.height = h /\ Limit(n, NoJob) = h
        BY <1>4, <2>1
      <4>3. h <= h
        BY <2>3
      <4> QED
        BY <4>1, <4>2, <4>3
    <3> QED
      BY <1>4, <3>1 DEF SoundIn
<1>7. Stages(n, NoJob)
  BY <1>3, <1>4 DEF Stages, Describing, MetaAt, Upserting
<1>8. Listed(n, NoJob) /\ ItemsCovered(n) /\ BatchCovered(n, NoJob)
  BY <1>3, <1>4 DEF Listed, ItemsCovered, BatchCovered, Describing, Batching
<1>9. MembersCovered(n)
  BY <1>2, <1>4 DEF MembersCovered
<1> QED
  BY <1>1, <1>2, <1>3, <1>4, <1>6, <1>7, <1>8, <1>9, StageMoves DEF Staged

LEMMA UpsertMembersKeeps ==
    ASSUME StoreAssumption, PlacesInv, NEW w \in Writer, UpsertMembers(w) PROVE PlacesInv'
<1>1. TablesSame /\ job' = job /\ tx[w].at = "upsert members" /\ Upsert(w, "items") /\ Free(w)
  BY DEF UpsertMembers, Upsert, chain, tables, TablesSame, At
<1>2. /\ Stages(tx[w], NoJob) /\ Describing(tx[w]) /\ job[w] = NoJob /\ tx[w].located = {} /\ TxRow(tx[w])
      /\ tx[w].height \in Height /\ MembersCovered(tx[w]) /\ Own(tx[w], NoJob)
  BY <1>1, DescribesAt
<1>3. PICK n : To(w, n) /\ UpsertOf(tx[w], n, "items")
  BY <1>1, <1>2, UpsertIs
<1>4. PICK t : t = tx[w]
  OBVIOUS
<1>5. UpsertOf(t, n, "items") /\ Own(t, NoJob) /\ MembersCovered(t) /\ Describing(t) /\ t.at = "upsert members"
  BY <1>1, <1>2, <1>3, <1>4
<1>6. /\ TxRow(n) /\ n.at = "items" /\ n.height = t.height /\ n.located = {} /\ n.guard = t.guard
  BY <1>2, <1>4, <1>5 DEF UpsertOf
<1>7. /\ DOMAIN n.wrote \subseteq n.touched /\ DOMAIN n.todo = {}
      /\ \A o \in DOMAIN t.todo : o \in n.touched /\ o \in DOMAIN PlacesSeen(n)
  BY <1>5, UpsertTells
<1>8. Stages(n, NoJob)
  BY <1>2, <1>4, <1>6, <1>7 DEF Stages, Describing, MetaAt, Upserting
<1>9. Listed(n, NoJob) /\ ItemsCovered(n) /\ BatchCovered(n, NoJob)
  BY <1>5, <1>6 DEF Listed, ItemsCovered, BatchCovered, Describing, Batching
<1>10. MembersCovered(n)
  BY <1>5, <1>6, <1>7 DEF MembersCovered
<1>11. tx[w].at \in Upserting
  BY <1>1 DEF Upserting
<1> QED
  BY <1>1, <1>2, <1>3, <1>8, <1>9, <1>10, <1>11, UpsertMoves DEF Staged

LEMMA PlaceItemsKeeps ==
    ASSUME StoreAssumption, RootsOnce, PlacesInv, NEW w \in Writer, PlaceItems(w) PROVE PlacesInv'
<1>1. TablesSame /\ job' = job /\ tx[w].at = "items"
  BY DEF PlaceItems, chain, tables, TablesSame, At
<1>2. PICK t, h, f, n : /\ t = tx[w] /\ h = t.height
                        /\ f = [o \in Refreshed(h) |-> Least(Places(o, Described({h}), located))]
                        /\ n = [t EXCEPT !.todo = f, !.at = "upsert items"] /\ To(w, n)
  BY DEF PlaceItems, Compute
<1>3. /\ Stages(t, NoJob) /\ Describing(t) /\ job[w] = NoJob /\ t.located = {} /\ TxRow(t) /\ t.at = "items"
      /\ h \in Height /\ h <= tip /\ h \in Described({h}) /\ h # 0 /\ Described({h}) \subseteq Height
      /\ MembersCovered(t)
  BY <1>1, <1>2, DescribesAt
<1>4. /\ Same(n, t) /\ n.at = "upsert items" /\ n.todo = f /\ n.height = h /\ n.located = {}
      /\ n.touched = t.touched /\ n.wrote = t.wrote
  BY <1>2, <1>3 DEF Same, TxRow
<1>5. fork \in DOMAIN Forks /\ located \subseteq Location /\ IsFiniteSet(located) /\ h \in Nat
  BY <1>3, BlocksTyped DEF PlacesInv, StoreShape
<1>6. ASSUME NEW l \in located, NEW m \in Members(l.root, {h})
      PROVE  /\ l.id \in Refreshed(h) /\ l.id \notin Root
             /\ Through(l, m) \in Places(l.id, Described({h}), located) /\ Through(l, m).height = h
  <2>1. l \in Location /\ l.id \in Item /\ l.id \notin Root
    BY <1>5 DEF Location, StoreAssumption
  <2>3. m \in Place /\ m.height = h /\ l.root \in RootsIn(m.height)
    BY <1>3, <1>5, MemberOf
  <2>4. l.id \in Refreshed(h)
    BY <2>3 DEF Refreshed
  <2>5. m \in Members(l.root, Described({h}))
    BY <1>3, MembersGrow
  <2>6. Through(l, m) \in Places(l.id, Described({h}), located)
    BY <2>1, <2>5, PlacesAre
  <2>7. Through(l, m).height = h
    BY <2>1, <2>3, ThroughTells
  <2> QED
    BY <2>1, <2>4, <2>6, <2>7
<1>7. ASSUME NEW o \in Refreshed(h)
      PROVE  \E l \in located : l.id = o /\ \E m : m \in Members(l.root, {h})
  <2>1. PICK l \in located : l.id = o /\ l.root \in RootsIn(h)
    BY DEF Refreshed
  <2> QED
    BY <1>3, <1>5, <2>1, MemberAt
<1>8. ASSUME NEW o \in Refreshed(h), NEW x \in Places(o, Described({h}), located)
      PROVE  f[o] \in Places(o, Described({h}), located) /\ ~Before(x, f[o]) /\ f[o].height <= x.height
  BY <1>2, <1>3, <1>5, LeastPlace
<1>9. SoundIn(n, NoJob, n.todo)
  <2>1. Sees(n) = Described({h}) /\ Limit(n, NoJob) = h /\ located \cup n.located = located /\ DOMAIN n.todo = Refreshed(h)
    BY <1>2, <1>3, <1>4 DEF Sees, Limit, Describing
  <2>2. ASSUME NEW o \in Refreshed(h) PROVE f[o] \in Places(o, Described({h}), located) /\ f[o].height <= h /\ o \notin Root
    <3>1. PICK l \in located : l.id = o /\ \E m : m \in Members(l.root, {h})
      BY <1>7
    <3>2. PICK m : m \in Members(l.root, {h})
      BY <3>1
    <3>3. Through(l, m) \in Places(o, Described({h}), located) /\ Through(l, m).height = h /\ o \notin Root
      BY <1>6, <3>1, <3>2
    <3> QED
      BY <1>8, <3>3
  <2> QED
    BY <1>4, <2>1, <2>2 DEF SoundIn
<1>10. ItemsCovered(n)
  <2>1. ASSUME NEW l \in located, NEW m \in Members(l.root, {h}) PROVE Covers(f, l.id, Through(l, m))
    BY <1>2, <1>6, <1>8 DEF Covers
  <2> QED
    BY <1>4, <2>1 DEF ItemsCovered
<1>11. Stages(n, NoJob)
  BY <1>3, <1>4 DEF Stages, Describing, MetaAt, Upserting
<1>12. Listed(n, NoJob) /\ BatchCovered(n, NoJob)
  BY <1>3, <1>4 DEF Listed, BatchCovered, Describing, Batching
<1>13. MembersCovered(n)
  BY <1>2, <1>3, <1>4 DEF MembersCovered, Describing, PlacesSeen
<1> QED
  BY <1>1, <1>2, <1>3, <1>4, <1>9, <1>10, <1>11, <1>12, <1>13, StageMoves DEF Staged

LEMMA UpsertItemsKeeps ==
    ASSUME StoreAssumption, RootsOnce, PlacesInv, NEW w \in Writer, UpsertItems(w) PROVE PlacesInv'
<1>1. TablesSame /\ job' = job /\ tx[w].at = "upsert items" /\ Upsert(w, "described") /\ Free(w)
  BY DEF UpsertItems, Upsert, chain, tables, TablesSame, At
<1>2. /\ Stages(tx[w], NoJob) /\ Describing(tx[w]) /\ job[w] = NoJob /\ tx[w].located = {} /\ TxRow(tx[w])
      /\ tx[w].height \in Height /\ MembersCovered(tx[w]) /\ ItemsCovered(tx[w]) /\ Own(tx[w], NoJob)
  BY <1>1, DescribesAt
<1>3. PICK n : To(w, n) /\ UpsertOf(tx[w], n, "described")
  BY <1>1, <1>2, UpsertIs
<1>4. PICK t : t = tx[w]
  OBVIOUS
<1>5. UpsertOf(t, n, "described") /\ Own(t, NoJob) /\ MembersCovered(t) /\ ItemsCovered(t) /\ Describing(t)
      /\ t.at = "upsert items" /\ t.height \in Height
  BY <1>1, <1>2, <1>3, <1>4
<1>6. /\ TxRow(n) /\ n.at = "described" /\ n.height = t.height /\ n.located = {} /\ n.guard = t.guard
      /\ n.touched = t.touched \cup DOMAIN t.todo
  BY <1>2, <1>4, <1>5 DEF UpsertOf
<1>7. /\ DOMAIN n.wrote \subseteq n.touched /\ DOMAIN n.todo = {}
      /\ \A o \in DOMAIN PlacesSeen(t) : o \in DOMAIN PlacesSeen(n)
      /\ \A o : \A x \in Place : Covers(t.todo, o, x) => Covered(n, o, x)
  BY <1>5, UpsertTells
<1>8. Stages(n, NoJob)
  BY <1>2, <1>4, <1>6, <1>7 DEF Stages, Describing, MetaAt, Upserting
<1>9. Listed(n, NoJob) /\ BatchCovered(n, NoJob)
  BY <1>5, <1>6 DEF Listed, BatchCovered, Describing, Batching
<1>10. MembersCovered(n)
  BY <1>5, <1>6, <1>7 DEF MembersCovered
<1>11. tx[w].at \in Upserting
  BY <1>1 DEF Upserting
<1>12. fork \in DOMAIN Forks /\ located \subseteq Location
  BY DEF PlacesInv, StoreShape
<1>13. ItemsCovered(n)
  <2> SUFFICES ASSUME n.height \notin complete, NEW l \in located, NEW m \in Members(l.root, {n.height})
               PROVE  Covered(n, l.id, Through(l, m))
    BY <1>6 DEF ItemsCovered
  <2>1. Covers(t.todo, l.id, Through(l, m))
    BY <1>5, <1>6 DEF ItemsCovered
  <2>3. m \in Place /\ l \in Location
    BY <1>5, <1>6, <1>12, MemberOf
  <2>4. Through(l, m) \in Place
    BY <2>3, ThroughTells
  <2> QED
    BY <1>7, <2>1, <2>4
<1> QED
  BY <1>1, <1>2, <1>3, <1>8, <1>9, <1>10, <1>11, <1>13, UpsertMoves DEF Staged

-----------------------------------------------------------------------------
(* Objects and batches.                                                    *)

LEMMA WriteRootKeeps == ASSUME StoreAssumption, PlacesInv, NEW w \in Writer, WriteRoot(w) PROVE PlacesInv'
<1>1. TablesSame /\ job' = job /\ tx[w].at = "described"
  BY DEF WriteRoot, chain, tables, TablesSame, At
<1>2. PICK t, new, I, n : t = tx[w] /\ n = [WithMetadata(t, new) EXCEPT !.ids = I, !.at = "commit"] /\ To(w, n)
  <2>1. PICK new : To(w, [WithMetadata(tx[w], new) EXCEPT !.ids = @ \cup new, !.at = "commit"])
    BY DEF WriteRoot
  <2>2. [WithMetadata(tx[w], new) EXCEPT !.ids = @ \cup new, !.at = "commit"]
        = [WithMetadata(tx[w], new) EXCEPT !.ids = WithMetadata(tx[w], new).ids \cup new, !.at = "commit"]
    OBVIOUS
  <2> QED
    BY <2>1, <2>2
<1>3. /\ Stages(t, NoJob) /\ Describing(t) /\ job[w] = NoJob /\ t.located = {} /\ TxRow(t) /\ t.at = "described"
      /\ t.height \in Height /\ MembersCovered(t) /\ ItemsCovered(t)
  BY <1>1, <1>2, DescribesAt
<1>4. Same(n, t) /\ n.at = "commit" /\ n.todo = t.todo /\ DOMAIN n.todo = {}
  <2>1. Same(n, t) /\ n.at = "commit" /\ n.todo = t.todo
    <3>1. PICK d, k : n = [t EXCEPT !.known = k, !.delta = d, !.ids = I, !.at = "commit"]
      BY <1>2 DEF WithMetadata
    <3> QED
      BY <1>3, <3>1 DEF TxRow, Same
  <2>2. DOMAIN t.todo = {}
    BY <1>3 DEF Stages, Upserting
  <2> QED
    BY <2>1, <2>2
<1>5. Stages(n, NoJob)
  BY <1>3, <1>4 DEF Stages, Same, Describing, MetaAt, Upserting
<1>6. Listed(n, NoJob) /\ BatchCovered(n, NoJob)
  BY <1>3, <1>4 DEF Listed, BatchCovered, Describing, Batching, Same
<1>7. PlacesSeen(n) = PlacesSeen(t)
  BY <1>4 DEF Same, PlacesSeen
<1>8. MembersCovered(n) /\ ItemsCovered(n)
  BY <1>3, <1>4, <1>7 DEF MembersCovered, ItemsCovered, Describing, Same, Covered
<1>9. SoundIn(n, NoJob, n.todo)
  BY <1>4, SoundNothing
<1> QED
  BY <1>1, <1>2, <1>3, <1>4, <1>5, <1>6, <1>8, <1>9, StageMoves DEF Staged

LEMMA BeginObjectKeeps ==
    ASSUME PlacesInv, NEW w \in Writer, NEW r, BeginObject(w, r) PROVE PlacesInv'
<1>1. TablesSame /\ job' = job /\ job[w] = NoJob
  BY DEF BeginObject, chain, tables, TablesSame
<1>2. PICK n, g : n = [Fresh EXCEPT !.at = "object", !.guard = g, !.ids = {r}] /\ To(w, n)
  BY DEF BeginObject
<1>3. /\ TxRow(n) /\ n.at = "object" /\ n.height = 0 /\ DOMAIN n.wrote = {} /\ n.touched = {} /\ DOMAIN n.todo = {}
      /\ n.located = {}
  <2>1. n = [at |-> "object", height |-> 0, object |-> Nobody, first |-> FALSE, guard |-> g, roots |-> {}, ids |-> {r},
             wrote |-> << >>, touched |-> {}, todo |-> << >>, known |-> {}, located |-> {}, delta |-> Zero]
    BY <1>2 DEF Fresh
  <2>2. TxRow(n)
    BY <2>1 DEF TxRow
  <2> QED
    BY <2>1, <2>2
<1>4. TxTyped(n, NoJob)
  BY <1>3, FS_EmptySet DEF TxTyped
<1>5. Stages(n, NoJob)
  BY <1>3 DEF Stages, Describing, Upserting
<1>6. Listed(n, NoJob) /\ Holding(n, NoJob) /\ MembersCovered(n) /\ ItemsCovered(n) /\ BatchCovered(n, NoJob)
  BY <1>3 DEF Listed, Holding, MembersCovered, ItemsCovered, BatchCovered, Describing, Batching
<1>7. SoundIn(n, NoJob, n.wrote) /\ SoundIn(n, NoJob, n.todo) /\ Improving(n)
  BY <1>3 DEF SoundIn, Improving
<1>8. Own(n, NoJob)
  BY <1>4, <1>5, <1>6, <1>7 DEF Own
<1>9. job' = [job EXCEPT ![w] = NoJob]
  BY <1>1, JobStays
<1>10. \A v \in Writer : v # w => n.touched \cap tx[v].touched = {}
  BY <1>3
<1>11. To(w, n)
  BY <1>2
<1> QED
  BY <1>1, <1>11, <1>8, <1>9, <1>10, OneMoves

LEMMA WriteObjectKeeps == ASSUME PlacesInv, NEW w \in Writer, WriteObject(w) PROVE PlacesInv'
<1>1. TablesSame /\ job' = job /\ tx[w].at = "object"
  BY DEF WriteObject, chain, tables, TablesSame, At
<1>2. PICK t, new, n : t = tx[w] /\ n = [WithMetadata(t, new) EXCEPT !.at = "commit"] /\ To(w, n)
  BY DEF WriteObject
<1>3. Own(t, job[w]) /\ Stages(t, job[w]) /\ TxRow(t) /\ t.at = "object"
  BY <1>1, <1>2 DEF PlacesInv, Own, TxTyped
<1>4. job[w] = NoJob /\ ~Describing(t) /\ t.located = {} /\ DOMAIN t.wrote = {} /\ DOMAIN t.todo = {}
  BY <1>3 DEF Stages, MetaAt, BatchAt, Upserting
<1>5. Same(n, t) /\ n.at = "commit" /\ n.todo = t.todo
  <2>1. PICK d, k : n = [t EXCEPT !.known = k, !.delta = d, !.at = "commit"]
    BY <1>2 DEF WithMetadata
  <2> QED
    BY <1>3, <2>1 DEF TxRow, Same
<1>6. Stages(n, NoJob)
  BY <1>3, <1>4, <1>5 DEF Stages, Same, Describing, Upserting
<1>7. Listed(n, NoJob) /\ BatchCovered(n, NoJob) /\ MembersCovered(n) /\ ItemsCovered(n)
  BY <1>4, <1>5 DEF Listed, BatchCovered, MembersCovered, ItemsCovered, Describing, Batching, Same
<1>8. SoundIn(n, NoJob, n.todo)
  BY <1>4, <1>5, SoundNothing
<1> QED
  BY <1>1, <1>2, <1>3, <1>4, <1>5, <1>6, <1>7, <1>8, StageMoves DEF Staged

LEMMA StartJobKeeps ==
    ASSUME StoreAssumption, PlacesInv, NEW w \in Writer, NEW r \in Root, StartJob(w, r) PROVE PlacesInv'
<1>1. TablesSame /\ tx' = tx /\ tx[w].at = "none"
  BY DEF StartJob, chain, tables, TablesSame, At
<1>2. PICK walk : walk = NextBatch(NewTraversal(r)) /\ job' = [job EXCEPT ![w] = [root |-> r, walk |-> walk]]
  BY DEF StartJob
<1>3. PICK j : j = [root |-> r, walk |-> walk] /\ job' = [job EXCEPT ![w] = j]
  BY <1>2
<1>4. walk \in Walk
  <2>1. PICK t : t = NewTraversal(r)
    OBVIOUS
  <2>2. t \in Walk /\ Fuel \in Nat
    BY <2>1, NewTraversalTyped DEF StoreAssumption
  <2>3. NextBatch(t) \in Walk
    BY <2>2, NextBatchTyped
  <2> QED
    BY <1>2, <2>1, <2>3
<1>5. tx[w] = Fresh
  BY <1>1 DEF PlacesInv, Own, Stages
<1>6. To(w, Fresh)
  BY <1>1, <1>5 DEF To, PlacesInv, StoreShape
<1>7. Own(Fresh, j)
  <2>1. j.root = r /\ j.walk = walk
    BY <1>3
  <2>2. j = [root |-> j.root, walk |-> j.walk] /\ j.root \in Root /\ j.walk \in Walk
    BY <1>3, <1>4, <2>1
  <2> QED
    BY <2>2, FreshOwns
<1>8. \A v \in Writer : v # w => Fresh.touched \cap tx[v].touched = {}
  BY DEF Fresh
<1> QED
  BY <1>1, <1>3, <1>6, <1>7, <1>8, OneMoves

\* The transaction of a writer that is at a stage of a batch.
LEMMA BatchesAt ==
    ASSUME StoreAssumption, PlacesInv, NEW w \in Writer, tx[w].at \in {"root", "batch", "place", "upsert batch"}
    PROVE  /\ Own(tx[w], job[w]) /\ Stages(tx[w], job[w]) /\ ~Describing(tx[w]) /\ Batching(tx[w], job[w])
           /\ Listed(tx[w], job[w]) /\ Holding(tx[w], job[w]) /\ TxRow(tx[w]) /\ tx[w].height = 0
           /\ tx[w].located \subseteq Location /\ IsFiniteSet(tx[w].located)
           /\ job[w] # NoJob /\ job[w].root \in Root /\ job[w].walk \in Walk
           /\ BatchCovered(tx[w], job[w])
<1>1. PICK t, j : t = tx[w] /\ j = job[w]
  OBVIOUS
<1>2. Own(t, j) /\ t.at \in {"root", "batch", "place", "upsert batch"}
  BY <1>1 DEF PlacesInv
<1>3. Stages(t, j) /\ Holding(t, j) /\ Listed(t, j) /\ TxTyped(t, j) /\ BatchCovered(t, j)
  BY <1>2 DEF Own
<1>4. ~Describing(t) /\ t.height = 0
  BY <1>2, <1>3 DEF Stages, MetaAt, Describing
<1>5. j # NoJob
  BY <1>2, <1>3, <1>4 DEF Stages
<1>6. TxRow(t) /\ j.root \in Root /\ j.walk \in Walk /\ t.located \subseteq Location /\ IsFiniteSet(t.located)
  BY <1>3, <1>5 DEF TxTyped
<1>7. Batching(t, j)
  BY <1>2, <1>4, <1>5 DEF Batching
<1> QED
  BY <1>1, <1>2, <1>3, <1>4, <1>5, <1>6, <1>7

LEMMA PlacementTyped ==
    ASSUME StoreAssumption, PlacesInv PROVE \A o \in DOMAIN placement : placement[o] \in Place
<1>1. Own(Fresh, NoJob)
  BY FreshOwns
<1> QED
  BY <1>1, PlacesAll

LEMMA BeginBatchKeeps ==
    ASSUME StoreAssumption, PlacesInv, NEW w \in Writer, BeginBatch(w) PROVE PlacesInv'
<1>1. CASE EndJob(w)
  <2>1. UNCHANGED <<fork, tip, stable, complete>>
    BY <1>1 DEF EndJob, chain
  <2> QED
    BY <1>1, <2>1, EndJobKeeps
<1>2. CASE ~EndJob(w)
  <2>1. Looked(job[w].root) /\ TablesSame /\ job' = job /\ tx[w].at = "none" /\ job[w] # NoJob
    BY <1>2 DEF BeginBatch, chain, tables, TablesSame, At
  <2>2. PICK j, g, h, n : /\ j = job[w] /\ h = placement[j.root].height /\ g = Guard(h)
                          /\ n = [Fresh EXCEPT !.at = "root", !.guard = g] /\ To(w, n)
    BY <1>2 DEF BeginBatch
  <2>3. /\ TxRow(n) /\ n.at = "root" /\ n.height = 0 /\ DOMAIN n.wrote = {} /\ n.touched = {} /\ DOMAIN n.todo = {}
        /\ n.located = {} /\ n.guard = g
    <3>0. n = [Fresh EXCEPT !.at = "root", !.guard = g]
      BY <2>2
    <3>1. n = [at |-> "root", height |-> 0, object |-> Nobody, first |-> FALSE, guard |-> g, roots |-> {}, ids |-> {},
               wrote |-> << >>, touched |-> {}, todo |-> << >>, known |-> {}, located |-> {}, delta |-> Zero]
      BY <3>0 DEF Fresh
    <3>2. TxRow(n)
      BY <3>1 DEF TxRow
    <3> QED
      BY <3>1, <3>2
  <2>4. TxTyped(n, j)
    <3>1. j = [root |-> j.root, walk |-> j.walk] /\ j.root \in Root /\ j.walk \in Walk
      BY <2>1, <2>2 DEF PlacesInv, Own, TxTyped
    <3> QED
      BY <2>3, <3>1, FS_EmptySet DEF TxTyped
  <2>5. Stages(n, j)
    BY <2>1, <2>2, <2>3 DEF Stages, Describing, Upserting, BatchAt
  <2>6. Listed(n, j) /\ MembersCovered(n) /\ ItemsCovered(n) /\ BatchCovered(n, j)
    BY <2>3 DEF Listed, MembersCovered, ItemsCovered, BatchCovered, Describing, Batching
  <2>7. Holding(n, j)
    <3>1. j.root \in DOMAIN placement /\ Looked(j.root)
      BY <2>1, <2>2 DEF Looked
    <3>2. h \in Nat /\ stable \in Nat
      <4>1. placement[j.root] \in Place
        BY <3>1, PlacementTyped
      <4>2. stable \in 0 .. tip /\ tip \in 0 .. Len(Forks[1]) /\ Len(Forks[1]) \in Nat
        BY BlocksTyped DEF PlacesInv, StoreShape
      <4> QED
        BY <2>2, <4>1, <4>2 DEF Place
    <3>3. g <=> h > stable
      BY <2>2 DEF Guard
    <3>4. n.guard \/ h <= stable
      BY <2>3, <3>2, <3>3
    <3>5. h = placement[j.root].height
      BY <2>2
    <3> QED
      BY <2>3, <3>1, <3>4, <3>5 DEF Holding, Safe, Describing, Batching
  <2>8. SoundIn(n, j, n.wrote) /\ SoundIn(n, j, n.todo) /\ Improving(n)
    BY <2>3 DEF SoundIn, Improving
  <2>9. Own(n, j)
    BY <2>4, <2>5, <2>6, <2>7, <2>8 DEF Own
  <2>10. job' = [job EXCEPT ![w] = j]
    BY <2>1, <2>2, JobStays
  <2>11. \A v \in Writer : v # w => n.touched \cap tx[v].touched = {}
    BY <2>3
  <2>12. To(w, n)
    BY <2>2
  <2> QED
    BY <2>1, <2>9, <2>10, <2>11, <2>12, OneMoves
<1> QED
  BY <1>1, <1>2

LEMMA LockRootKeeps ==
    ASSUME StoreAssumption, PlacesInv, NEW w \in Writer, LockRoot(w) PROVE PlacesInv'
<1>1. CASE EndJob(w)
  <2>1. UNCHANGED <<fork, tip, stable, complete>>
    BY <1>1 DEF EndJob, chain
  <2> QED
    BY <1>1, <2>1, EndJobKeeps
<1>2. CASE ~EndJob(w)
  <2>1. TablesSame /\ job' = job /\ tx[w].at = "root"
    BY <1>2 DEF LockRoot, chain, tables, TablesSame, At
  <2>2. PICK t, j, n : t = tx[w] /\ j = job[w] /\ n = [t EXCEPT !.at = "batch", !.roots = {j.root}] /\ To(w, n)
    BY <1>2 DEF LockRoot
  <2>3. /\ Stages(t, j) /\ ~Describing(t) /\ Batching(t, j) /\ Listed(t, j) /\ TxRow(t) /\ t.height = 0 /\ t.at = "root"
        /\ j # NoJob
    BY <2>1, <2>2, BatchesAt
  <2>4. Same(n, t) /\ n.at = "batch" /\ n.todo = t.todo /\ DOMAIN n.todo = {}
    BY <2>2, <2>3 DEF TxRow, Same, Stages, Upserting
  <2>5. Stages(n, j)
    BY <2>3, <2>4 DEF Stages, Same, Describing, Upserting, BatchAt
  <2>6. Listed(n, j) /\ MembersCovered(n) /\ ItemsCovered(n) /\ BatchCovered(n, j)
    BY <2>3, <2>4 DEF Listed, MembersCovered, ItemsCovered, BatchCovered, Describing, Batching, Same
  <2>7. SoundIn(n, j, n.todo)
    BY <2>4, SoundNothing
  <2> QED
    BY <2>1, <2>2, <2>3, <2>4, <2>5, <2>6, <2>7, StageMoves DEF Staged
<1> QED
  BY <1>1, <1>2

LEMMA BatchTyped ==
    ASSUME StoreAssumption, NEW j, j.root \in Root, j.walk \in Walk
    PROVE  /\ BatchOf(j) \subseteq Location /\ IsFiniteSet(BatchOf(j))
           /\ \A l \in BatchOf(j) : l.root = j.root /\ l.id \in Item /\ l.id \notin Root
<1>1. j.walk.out \in Seq(Items)
  BY DEF Walk
<1>2. PICK s : s = j.walk.out
  OBVIOUS
<1>3. ToSet(s) \subseteq Items
  BY <1>1, <1>2 DEF ToSet
<1>4. BatchOf(j) = {[root |-> j.root, id |-> l.id, parent |-> l.parent, path |-> l.path] : l \in ToSet(s)}
  BY <1>2 DEF BatchOf
<1>5. \A l \in ToSet(s) : l.id \in Item /\ l.parent \in Bundles /\ l.path \in Paths
  BY <1>3 DEF Items
<1>6. BatchOf(j) \subseteq Location
  BY <1>4, <1>5 DEF Location
<1>7. IsFiniteSet(ToSet(s))
  <2>1. s \in [1 .. Len(s) -> Items] /\ Len(s) \in Nat /\ DOMAIN s = 1 .. Len(s)
    BY <1>1, <1>2
  <2>2. IsFiniteSet(DOMAIN s)
    <3>1. \A n \in Nat : IsFiniteSet(1 .. n)
      BY FS_Interval
    <3> QED
      BY <2>1, <3>1
  <2>3. s \in Surjection(DOMAIN s, ToSet(s))
    <3>1. s \in [DOMAIN s -> ToSet(s)] /\ ToSet(s) = {s[k] : k \in DOMAIN s}
      BY <2>1 DEF ToSet
    <3> QED
      BY <3>1 DEF Surjection
  <2> QED
    BY <2>2, <2>3, FS_Surjection
<1>8. IsFiniteSet(BatchOf(j))
  <2> DEFINE S == ToSet(s)
             g == [l \in S |-> [root |-> j.root, id |-> l.id, parent |-> l.parent, path |-> l.path]]
  <2>1. BatchOf(j) = {g[l] : l \in S}
    BY <1>4
  <2>2. g \in [S -> BatchOf(j)]
    BY <2>1
  <2>3. g \in Surjection(S, BatchOf(j))
    BY <2>1, <2>2 DEF Surjection
  <2> QED
    BY <1>7, <2>3, FS_Surjection
<1>9. \A l \in BatchOf(j) : l.root = j.root /\ l.id \in Item /\ l.id \notin Root
  <2>1. \A l \in BatchOf(j) : l.root = j.root /\ l.id \in Item
    BY <1>4, <1>5
  <2> QED
    BY <2>1 DEF StoreAssumption
<1> QED
  BY <1>6, <1>8, <1>9

LEMMA WriteBatchKeeps ==
    ASSUME StoreAssumption, PlacesInv, NEW w \in Writer, WriteBatch(w) PROVE PlacesInv'
<1>1. CASE EndJob(w)
  <2>1. UNCHANGED <<fork, tip, stable, complete>>
    BY <1>1 DEF EndJob, chain
  <2> QED
    BY <1>1, <2>1, EndJobKeeps
<1>2. CASE ~EndJob(w)
  <2>1. TablesSame /\ job' = job /\ tx[w].at = "batch"
    BY <1>2 DEF WriteBatch, chain, tables, TablesSame, At
  <2>2. PICK t, j, new, n : /\ t = tx[w] /\ j = job[w] /\ To(w, n)
                            /\ n = [WithMetadata(t, new) EXCEPT !.ids = new, !.at = "place", !.located = BatchOf(j) \ located]
    BY ZenonT(60), <1>2 DEF WriteBatch, Batch, BatchOf
  <2>3. /\ Stages(t, j) /\ ~Describing(t) /\ Batching(t, j) /\ Holding(t, j) /\ TxRow(t) /\ t.height = 0 /\ t.at = "batch"
        /\ j # NoJob /\ j.root \in Root /\ j.walk \in Walk /\ Own(t, j)
    BY <2>1, <2>2, BatchesAt
  <2>4. PICK B : B = BatchOf(j)
    OBVIOUS
  <2>5. /\ TxRow(n) /\ n.at = "place" /\ n.height = 0 /\ n.wrote = t.wrote /\ n.touched = t.touched
        /\ n.todo = t.todo /\ n.located = B \ located /\ n.guard = t.guard
    <3>1. PICK d, k, L : L = B \ located
                         /\ n = [t EXCEPT !.known = k, !.delta = d, !.ids = new, !.at = "place", !.located = L]
      BY <2>2, <2>4 DEF WithMetadata
    <3> QED
      BY <2>3, <3>1 DEF TxRow
  <2>6. DOMAIN n.wrote = {} /\ DOMAIN n.todo = {}
    BY <2>3, <2>5 DEF Stages, Upserting
  <2>7. B \subseteq Location /\ IsFiniteSet(B) /\ \A l \in B : l.root = j.root
    BY <2>3, <2>4, BatchTyped
  <2>8. TxTyped(n, j)
    <3>1. n.located \subseteq Location /\ IsFiniteSet(n.located)
      BY <2>5, <2>7, FS_Subset
    <3> QED
      BY <2>3, <2>5, <3>1 DEF TxTyped, Own
  <2>9. Stages(n, j)
    BY <2>3, <2>5, <2>6 DEF Stages, Describing, Upserting, BatchAt
  <2>10. Listed(n, j)
    BY <2>4, <2>5, <2>7 DEF Listed
  <2>11. Holding(n, j)
    BY <2>3, <2>5 DEF Holding, Safe, Describing, Batching
  <2>12. MembersCovered(n) /\ ItemsCovered(n) /\ BatchCovered(n, j)
    BY <2>5 DEF MembersCovered, ItemsCovered, BatchCovered, Describing
  <2>13. SoundIn(n, j, n.wrote) /\ SoundIn(n, j, n.todo) /\ Improving(n)
    BY <2>6 DEF SoundIn, Improving
  <2>14. Own(n, j)
    BY <2>8, <2>9, <2>10, <2>11, <2>12, <2>13 DEF Own
  <2>15. job' = [job EXCEPT ![w] = j]
    BY <2>1, <2>2, JobStays
  <2>16. \A v \in Writer : v # w => n.touched \cap tx[v].touched = {}
    BY <2>2, <2>5 DEF PlacesInv, Apart
  <2>17. To(w, n)
    BY <2>2
  <2> QED
    BY <2>1, <2>14, <2>15, <2>16, <2>17, OneMoves
<1> QED
  BY <1>1, <1>2

LEMMA PlaceBatchKeeps ==
    ASSUME StoreAssumption, RootsOnce, PlacesInv, NEW w \in Writer, PlaceBatch(w) PROVE PlacesInv'
<1>1. TablesSame /\ job' = job /\ tx[w].at = "place"
  BY DEF PlaceBatch, chain, tables, TablesSame, At
<1>2. PICK t, j, T, f, n : /\ t = tx[w] /\ j = job[w] /\ T = {o \in Ids(BatchOf(j)) : Candidates(o, t) # {}}
                           /\ f = [o \in T |-> Least(Candidates(o, t))]
                           /\ n = [t EXCEPT !.todo = f, !.at = "upsert batch"] /\ To(w, n)
  BY DEF PlaceBatch, Compute, Batch, BatchOf
<1>3. /\ Stages(t, j) /\ ~Describing(t) /\ Batching(t, j) /\ Holding(t, j) /\ Listed(t, j) /\ TxRow(t) /\ t.height = 0
      /\ t.at = "place" /\ j # NoJob /\ j.root \in Root /\ j.walk \in Walk /\ t.located \subseteq Location
      /\ IsFiniteSet(t.located)
  BY <1>1, <1>2, BatchesAt
<1>4. /\ Same(n, t) /\ n.at = "upsert batch" /\ n.todo = f /\ n.height = 0 /\ n.located = t.located
      /\ n.touched = t.touched /\ n.wrote = t.wrote
  BY <1>2, <1>3 DEF Same, TxRow
<1>5. PICK m, H, L : m = placement[j.root] /\ H = Described({}) /\ L = located \cup t.located
  OBVIOUS
<1>6. fork \in DOMAIN Forks /\ L \subseteq Location /\ IsFiniteSet(L) /\ H \subseteq Height
  <2>1. IsFiniteSet(located) /\ located \subseteq Location /\ fork \in DOMAIN Forks
    BY DEF PlacesInv, StoreShape
  <2>2. H \subseteq Height
    BY <1>5, DescribedTells DEF PlacesInv
  <2> QED
    BY <1>3, <1>5, <2>1, <2>2, FS_Union
<1>7. j.root \in DOMAIN placement /\ m \in Members(j.root, H) /\ m \in Place /\ m.height \in Nat
  <2>1. Looked(j.root)
    BY <1>3 DEF Holding
  <2>2. j.root \in DOMAIN placement /\ m \in Members(j.root, H)
    BY <1>5, <2>1 DEF Looked
  <2>3. m \in Place
    BY <1>5, <2>2, PlacementTyped
  <2> QED
    BY <2>2, <2>3 DEF Place
<1>8. /\ \A l \in t.located : l.root = j.root /\ l \in BatchOf(j)
      /\ \A l \in BatchOf(j) : l \in L /\ l.root = j.root /\ l.id \in Item /\ l.id \notin Root
  <2>1. BatchOf(j) \subseteq located \cup t.located /\ \A l \in t.located : l.root = j.root /\ l \in BatchOf(j)
    BY <1>3 DEF Listed
  <2> QED
    BY <1>3, <1>5, <2>1, BatchTyped
<1>9. ASSUME NEW l \in L, l.root = j.root, l.id \notin Root
      PROVE  Through(l, m) \in Places(l.id, H, L) /\ Through(l, m).height = m.height /\ Through(l, m) \in Place
  <2>1. Through(l, m) \in Places(l.id, H, L)
    BY <1>7, <1>9, PlacesAre
  <2> QED
    BY <1>6, <1>7, <2>1, ThroughTells
<1>10. ASSUME NEW o \in T
       PROVE  /\ f[o] \in Places(o, H, L) /\ f[o].height <= m.height /\ o \notin Root
              /\ \A x \in Candidates(o, t) : ~Before(x, f[o])
  <2>1. PICK l \in BatchOf(j) : l.id = o
    BY <1>2 DEF Ids
  <2>2. Candidates(o, t) # {} /\ f[o] = Least(Candidates(o, t)) /\ o \notin Root
    BY <1>2, <1>8, <2>1
  <2>3. Candidates(o, t) \subseteq Places(o, H, L)
        /\ (o \in DOMAIN placement => \A x \in Candidates(o, t) : x.height = m.height)
    <3>1. CASE o \in DOMAIN placement
      <4>1. Candidates(o, t) = NewPlaces(o, t.located)
        BY <3>1 DEF Candidates
      <4>2. ASSUME NEW x \in NewPlaces(o, t.located) PROVE x \in Places(o, H, L) /\ x.height = m.height
        <5>1. PICK k \in t.located : k.id = o /\ x = Through(k, placement[k.root])
          BY <4>2 DEF NewPlaces
        <5>2. k \in L /\ k.root = j.root /\ k.id \notin Root
          BY <1>5, <1>8, <2>2, <5>1
        <5>3. x = Through(k, m)
          BY <1>5, <5>1, <5>2
        <5> QED
          BY <1>9, <5>1, <5>2, <5>3
      <4> QED
        BY <4>1, <4>2
    <3>2. CASE o \notin DOMAIN placement
      BY <1>5, <3>2 DEF Candidates
    <3> QED
      BY <3>1, <3>2
  <2>4. PICK S : S = Candidates(o, t)
    OBVIOUS
  <2>5. S \subseteq Place /\ IsFiniteSet(S)
    <3>1. IsFiniteSet(Places(o, H, L)) /\ \A x \in Places(o, H, L) : x \in Place
      BY <1>6, PlacesFinite, PlacesTyped
    <3> QED
      BY <2>3, <2>4, <3>1, FS_Subset
  <2>6. Least(S) \in S /\ \A x \in S : ~Before(x, Least(S))
    BY <2>2, <2>4, <2>5, LeastTells
  <2>7. f[o].height <= m.height
    <3>1. CASE o \in DOMAIN placement
      BY <1>7, <2>2, <2>3, <2>4, <2>6, <3>1
    <3>2. CASE o \notin DOMAIN placement
      <4>1. S = Places(o, H, L)
        BY <1>5, <2>4, <3>2 DEF Candidates
      <4>2. Through(l, m) \in S /\ Through(l, m).height = m.height /\ Through(l, m) \in Place
        BY <1>8, <1>9, <2>1, <2>2, <4>1
      <4>3. Least(S) \in Place /\ ~Before(Through(l, m), Least(S))
        BY <2>5, <2>6, <4>2
      <4>4. Least(S).height <= Through(l, m).height
        BY <4>2, <4>3, BeforeOrders
      <4> QED
        BY <2>2, <2>4, <4>2, <4>4
    <3> QED
      BY <3>1, <3>2
  <2> QED
    BY <2>2, <2>3, <2>4, <2>6, <2>7
<1>11. DOMAIN f = T /\ DOMAIN n.todo = T
  BY <1>2, <1>4
<1>12. SoundIn(n, j, n.todo)
  <2>1. Sees(n) = H /\ Limit(n, j) = m.height /\ located \cup n.located = L
    BY <1>4, <1>5 DEF Sees, Limit, Describing
  <2> QED
    BY <1>4, <1>10, <1>11, <2>1 DEF SoundIn
<1>13. ASSUME NEW l \in t.located PROVE Covers(f, l.id, Through(l, m))
  <2>1. l \in BatchOf(j) /\ l.root = j.root /\ l.id \notin Root /\ l \in L
    BY <1>8
  <2>2. Through(l, m) \in Candidates(l.id, t)
    <3>1. CASE l.id \in DOMAIN placement
      BY <1>5, <1>7, <2>1, <3>1 DEF Candidates, NewPlaces
    <3>2. CASE l.id \notin DOMAIN placement
      BY <1>5, <1>9, <2>1, <3>2 DEF Candidates
    <3> QED
      BY <3>1, <3>2
  <2>3. l.id \in T
    BY <1>2, <2>1, <2>2 DEF Ids
  <2> QED
    BY <1>10, <1>11, <2>2, <2>3 DEF Covers
<1>14. BatchCovered(n, j)
  BY <1>4, <1>5, <1>13 DEF BatchCovered
<1>15. Stages(n, j)
  BY <1>3, <1>4 DEF Stages, Describing, BatchAt, Upserting
<1>16. Listed(n, j) /\ MembersCovered(n) /\ ItemsCovered(n)
  BY <1>3, <1>4 DEF Listed, MembersCovered, ItemsCovered, Describing, Batching
<1>17. To(w, n)
  BY <1>2
<1> QED
  BY <1>1, <1>2, <1>3, <1>4, <1>12, <1>14, <1>15, <1>16, <1>17, StageMoves DEF Staged

LEMMA UpsertBatchKeeps ==
    ASSUME StoreAssumption, RootsOnce, PlacesInv, NEW w \in Writer, UpsertBatch(w) PROVE PlacesInv'
<1>1. TablesSame /\ job' = job /\ tx[w].at = "upsert batch" /\ Upsert(w, "commit") /\ Free(w)
  BY DEF UpsertBatch, Upsert, chain, tables, TablesSame, At
<1>2. PICK t, j : t = tx[w] /\ j = job[w]
  OBVIOUS
<1>3. /\ Stages(t, j) /\ ~Describing(t) /\ Batching(t, j) /\ Holding(t, j) /\ Listed(t, j) /\ TxRow(t) /\ t.height = 0
      /\ t.at = "upsert batch" /\ j # NoJob /\ t.located \subseteq Location /\ BatchCovered(t, j) /\ Own(t, j)
  BY <1>1, <1>2, BatchesAt
<1>4. PICK n : To(w, n) /\ UpsertOf(t, n, "commit")
  BY <1>1, <1>2, <1>3, UpsertIs
<1>5. /\ TxRow(n) /\ n.at = "commit" /\ n.height = 0 /\ n.located = t.located /\ n.guard = t.guard
  BY <1>3, <1>4 DEF UpsertOf
<1>6. /\ DOMAIN n.wrote \subseteq n.touched /\ DOMAIN n.todo = {}
      /\ \A o : \A x \in Place : Covers(t.todo, o, x) => Covered(n, o, x)
  BY <1>3, <1>4, UpsertTells
<1>7. Stages(n, j)
  BY <1>3, <1>5, <1>6 DEF Stages, Describing, BatchAt, Upserting
<1>8. Listed(n, j) /\ MembersCovered(n) /\ ItemsCovered(n)
  BY <1>3, <1>5 DEF Listed, MembersCovered, ItemsCovered, Describing, Batching
<1>9. BatchCovered(n, j)
  <2> SUFFICES ASSUME NEW l \in t.located PROVE Covered(n, l.id, Through(l, placement[j.root]))
    BY <1>5 DEF BatchCovered
  <2>1. Covers(t.todo, l.id, Through(l, placement[j.root]))
    BY <1>3 DEF BatchCovered
  <2>2. j.root \in DOMAIN placement
    BY <1>3 DEF Holding, Looked
  <2>3. PICK m : m = placement[j.root]
    OBVIOUS
  <2>4. m \in Place /\ l \in Location
    BY <1>3, <2>2, <2>3, PlacementTyped
  <2>5. Through(l, m) \in Place
    BY <2>4, ThroughTells
  <2> QED
    BY <1>6, <2>1, <2>3, <2>5
<1>10. tx[w].at \in Upserting
  BY <1>1 DEF Upserting
<1> QED
  BY <1>1, <1>2, <1>4, <1>7, <1>8, <1>9, <1>10, UpsertMoves DEF Staged

-----------------------------------------------------------------------------
(* A commit and a longer chain leave alone what the others know.           *)

LEMMA FreshOwnsNext ==
    ASSUME NEW j, j = NoJob \/ (j = [root |-> j.root, walk |-> j.walk] /\ j.root \in Root /\ j.walk \in Walk)
    PROVE  Own(Fresh, j)'
<1>1. PICK n : n = Fresh
  OBVIOUS
<1>2. /\ TxRow(n) /\ n.at = "none" /\ n.height = 0 /\ DOMAIN n.wrote = {} /\ n.touched = {} /\ DOMAIN n.todo = {}
      /\ n.located = {} /\ n.guard = FALSE
  BY <1>1 DEF Fresh, TxRow
<1>3. TxTyped(n, j)'
  BY <1>2, FS_EmptySet DEF TxTyped
<1>4. Stages(n, j)'
  BY <1>1, <1>2 DEF Stages, Describing, Upserting
<1>5. Listed(n, j)' /\ Holding(n, j)' /\ MembersCovered(n)' /\ ItemsCovered(n)' /\ BatchCovered(n, j)'
  BY <1>2 DEF Listed, Holding, MembersCovered, ItemsCovered, BatchCovered, Describing, Batching
<1>6. SoundIn(n, j, n.wrote)' /\ SoundIn(n, j, n.todo)' /\ Improving(n)'
  BY <1>2 DEF SoundIn, Improving
<1>7. Own(n, j)'
  BY <1>3, <1>4, <1>5, <1>6 DEF Own
<1> QED
  BY <1>1, <1>7

\* On one fork, places stay places.
LEMMA PlacesStay ==
    ASSUME fork' = fork
    PROVE  /\ \A o, H, L : Places(o, H, L)' = Places(o, H, L)
           /\ \A r, H : Members(r, H)' = Members(r, H)
           /\ \A h : RootsIn(h)' = RootsIn(h) /\ BlockAt(h)' = BlockAt(h)
BY DEF Places, Members, RootsIn, BlockAt

LEMMA OwnGrows ==
    ASSUME StoreAssumption, RootsOnce, PlacesInv, SoundPlaces', StoreShape', NEW t, NEW j, Own(t, j),
           fork' = fork, tip <= tip', stable <= stable', located \subseteq located', complete \subseteq complete',
           described \subseteq described', known \subseteq known', DOMAIN placement \subseteq DOMAIN placement',
           \A o \in t.touched : (o \in DOMAIN placement' => o \in DOMAIN placement)
                                /\ (o \in DOMAIN placement => placement'[o] = placement[o]),
           Describing(t) /\ t.height \notin complete' =>
               \A l \in located' \ located : Members(l.root, {t.height}) = {}
    PROVE  Own(t, j)'
<1>1. /\ TxTyped(t, j) /\ Stages(t, j) /\ Listed(t, j) /\ Holding(t, j)
      /\ SoundIn(t, j, t.wrote) /\ SoundIn(t, j, t.todo) /\ Improving(t)
      /\ MembersCovered(t) /\ ItemsCovered(t) /\ BatchCovered(t, j)
  BY DEF Own
<1>2. TxTyped(t, j)' /\ Stages(t, j)' /\ Listed(t, j)'
  BY <1>1 DEF TxTyped, Stages, Listed
<1>3. DOMAIN t.wrote \subseteq t.touched
  BY <1>1 DEF Stages
<1>4. /\ fork \in DOMAIN Forks /\ tip \in Nat /\ tip' \in Nat /\ stable \in Nat /\ stable' \in Nat
      /\ \A h \in Height : h \in Nat
  BY SMTT(45), BlocksTyped DEF PlacesInv, StoreShape
<1>5. ASSUME NEW H PROVE Described(H) \subseteq Described(H)'
  <2>1. \A h \in 1 .. tip : h \in 1 .. tip'
    BY <1>4
  <2>2. \A h : BlockAt(h)' = BlockAt(h)
    BY PlacesStay
  <2> QED
    BY <2>1, <2>2 DEF Described
<1>6. \A r : r \in DOMAIN placement /\ Looked(r) /\ r \in Root => Looked(r)' /\ placement'[r] = placement[r]
  <2> SUFFICES ASSUME NEW r \in Root, Looked(r) PROVE Looked(r)' /\ placement'[r] = placement[r]
    OBVIOUS
  <2>1. r \in known' /\ r \in DOMAIN placement' /\ r \in DOMAIN placement
    BY DEF Looked
  <2>2. placement'[r] \in Members(r, Described({})')
    <3>1. placement'[r] \in Places(r, Described({}), located)'
      BY <2>1 DEF SoundPlaces
    <3>2. (placement[r] \in Members(r, Described({})))'
      BY <3>1 DEF Places
    <3> QED
      BY <3>2, PlacesStay
  <2>3. PICK H, G, x, y : H = Described({}) /\ G = Described({})' /\ x = placement[r] /\ y = placement'[r]
    OBVIOUS
  <2>4. H \subseteq Height
    BY <2>3, DescribedTells DEF PlacesInv
  <2>5. G \subseteq Height
    <3>1. \A h \in G : h \in 1 .. tip'
      BY <2>3 DEF Described
    <3>2. tip' <= Len(Forks[1]) /\ Height = 1 .. Len(Forks[1]) /\ Len(Forks[1]) \in Nat
      <4>1. Height = 1 .. Len(Forks[1]) /\ Len(Forks[1]) \in Nat
        BY <1>4, BlocksTyped
      <4>2. tip' \in 0 .. Len(Forks[1])
        BY DEF StoreShape
      <4> QED
        BY <4>1, <4>2
    <3> QED
      BY <1>4, <3>1, <3>2
  <2>6. x \in Members(r, H) /\ y \in Members(r, G)
    BY <2>2, <2>3 DEF Looked
  <2>7. x = y
    BY <1>4, <2>4, <2>5, <2>6, MembersOnce
  <2>8. y \in Members(r, G)'
    BY <2>6, PlacesStay
  <2> QED
    BY <2>1, <2>3, <2>7, <2>8 DEF Looked
<1>7. Batching(t, j) => Looked(j.root) /\ Looked(j.root)' /\ placement'[j.root] = placement[j.root]
  <2>1. Batching(t, j) => j.root \in Root /\ Looked(j.root) /\ j.root \in DOMAIN placement
    BY <1>1 DEF Batching, TxTyped, Holding, Looked
  <2> QED
    BY <1>6, <2>1
<1>8. Holding(t, j)'
  <2>1. Describing(t) => t.height <= tip' /\ Safe(t, t.height)'
    <3>1. Describing(t) => t.height \in Nat /\ t.height <= tip /\ (t.guard \/ t.height <= stable)
      BY <1>1, <1>4 DEF Holding, Stages, Safe
    <3> QED
      BY SMTT(45), <1>4, <3>1 DEF Safe
  <2>2. Batching(t, j) => Safe(t, placement[j.root].height)'
    <3>1. Batching(t, j) => placement[j.root].height \in Nat /\ (t.guard \/ placement[j.root].height <= stable)
      BY <1>1, <1>7, PlacementTyped DEF Holding, Safe, Place, Looked
    <3> QED
      BY SMTT(45), <1>4, <1>7, <3>1 DEF Safe
  <2> QED
    BY <1>7, <2>1, <2>2 DEF Holding, Describing, Batching
<1>9. ASSUME NEW f, SoundIn(t, j, f), DOMAIN f # {} => Describing(t) \/ Batching(t, j) PROVE SoundIn(t, j, f)'
  <2> SUFFICES ASSUME NEW o \in DOMAIN f
               PROVE  /\ (f[o] \in Places(o, Sees(t), located \cup t.located))'
                      /\ f[o].height <= Limit(t, j)'
                      /\ (o \in Root => f[o].height = t.height)
    BY DEF SoundIn
  <2>1. f[o] \in Places(o, Sees(t), located \cup t.located) /\ f[o].height <= Limit(t, j) /\ (o \in Root => f[o].height = t.height)
    BY <1>9 DEF SoundIn
  <2>2. PICK H, G, L, M : /\ H = Sees(t) /\ G = Sees(t)' /\ L = located \cup t.located /\ M = located' \cup t.located
    OBVIOUS
  <2>3. H \subseteq G
    BY <1>5, <2>2 DEF Sees
  <2>4. L \subseteq M
    BY <2>2
  <2>5. f[o] \in Places(o, H, L)
    BY <2>1, <2>2
  <2>6. Places(o, H, L) \subseteq Places(o, G, M)
    BY <2>3, <2>4, PlacesGrow
  <2>7. f[o] \in Places(o, G, M)'
    BY <2>5, <2>6, PlacesStay
  <2>8. (f[o] \in Places(o, Sees(t), located \cup t.located))'
    BY <2>2, <2>7
  <2>9. Limit(t, j)' = Limit(t, j)
    BY <1>7, <1>9 DEF Limit, Describing
  <2> QED
    BY <2>1, <2>8, <2>9
<1>10. (DOMAIN t.wrote # {} \/ DOMAIN t.todo # {}) => Describing(t) \/ Batching(t, j)
  <2> SUFFICES ASSUME ~Describing(t), ~Batching(t, j) PROVE DOMAIN t.wrote = {} /\ DOMAIN t.todo = {}
    OBVIOUS
  <2>1. CASE j = NoJob
    BY <1>1, <2>1 DEF Stages, Upserting
  <2>2. CASE j # NoJob
    <3>1. t = Fresh
      BY <1>1, <2>2 DEF Stages, Batching, Describing
    <3> QED
      BY <3>1 DEF Fresh
  <2> QED
    BY <2>1, <2>2
<1>11. SoundIn(t, j, t.wrote)' /\ SoundIn(t, j, t.todo)'
  BY <1>1, <1>9, <1>10
<1>12. Improving(t)'
  BY <1>1, <1>3 DEF Improving
<1>13. \A o \in t.touched : /\ o \in DOMAIN PlacesSeen(t)' <=> o \in DOMAIN PlacesSeen(t)
                            /\ o \in DOMAIN PlacesSeen(t) => PlacesSeen(t)'[o] = PlacesSeen(t)[o]
  BY DEF PlacesSeen, Overlay
<1>14. MembersCovered(t)'
  BY <1>1, <1>13, PlacesStay DEF MembersCovered, Describing
<1>15. ASSUME NEW o, NEW x, Covered(t, o, x) PROVE Covered(t, o, x)'
  BY <1>13, <1>15 DEF Covered, Covers
<1>16. ItemsCovered(t)'
  <2> SUFFICES ASSUME Describing(t), t.height \notin complete', NEW l \in located', NEW m \in Members(l.root, {t.height})'
               PROVE  /\ t.at = "upsert items" => Covers(t.todo, l.id, Through(l, m))
                      /\ t.at \in {"described", "commit"} => Covered(t, l.id, Through(l, m))'
    BY DEF ItemsCovered, Describing, Covers
  <2>1. m \in Members(l.root, {t.height}) /\ t.height \notin complete
    BY PlacesStay
  <2>2. l \in located
    BY <2>1
  <2> QED
    BY <1>1, <1>15, <2>1, <2>2 DEF ItemsCovered
<1>17. BatchCovered(t, j)'
  <2>1. CASE ~Batching(t, j)
    BY <2>1 DEF BatchCovered, Batching, Describing
  <2>2. CASE Batching(t, j)
    <3>1. PICK m : m = placement[j.root] /\ m = placement'[j.root]
      BY <1>7, <2>2
    <3>2. ASSUME NEW l \in t.located
          PROVE  /\ t.at = "upsert batch" => Covers(t.todo, l.id, Through(l, m))'
                 /\ t.at = "commit" => Covered(t, l.id, Through(l, m))'
      <4>1. /\ t.at = "upsert batch" => Covers(t.todo, l.id, Through(l, m))
            /\ t.at = "commit" => Covered(t, l.id, Through(l, m))
        BY <1>1, <2>2, <3>1 DEF BatchCovered
      <4>2. t.at = "upsert batch" => Covers(t.todo, l.id, Through(l, m))'
        BY <4>1 DEF Covers
      <4> QED
        BY <1>15, <4>1, <4>2
    <3> QED
      BY <3>1, <3>2 DEF BatchCovered
  <2> QED
    BY <2>1, <2>2
<1> QED
  BY <1>2, <1>8, <1>11, <1>12, <1>14, <1>16, <1>17 DEF Own

\* The chain grows, or more of it becomes stable.
LEMMA ChainGrows ==
    ASSUME StoreAssumption, RootsOnce, PlacesInv, StoreShape',
           UNCHANGED <<fork, complete, tables, job, tx>>, tip <= tip', stable <= stable'
    PROVE  PlacesInv'
<1>1. /\ fork' = fork /\ complete' = complete /\ described' = described /\ known' = known /\ located' = located
      /\ placement' = placement /\ job' = job /\ tx' = tx
  BY DEF tables
<1>2. tip \in Nat /\ tip' \in Nat
  BY BlocksTyped DEF PlacesInv, StoreShape
<1>3. Described({}) \subseteq Described({})'
  <2>1. \A h \in 1 .. tip : h \in 1 .. tip'
    BY <1>2
  <2> QED
    BY <1>1, <2>1, PlacesStay DEF Described
<1>4. SoundPlaces'
  <2> SUFFICES ASSUME NEW o \in DOMAIN placement
               PROVE  /\ (placement[o] \in Places(o, Described({}), located))'
                      /\ (o \in Root => placement[o].height \in complete)
    BY <1>1 DEF SoundPlaces
  <2>1. placement[o] \in Places(o, Described({}), located) /\ (o \in Root => placement[o].height \in complete)
    BY DEF PlacesInv, SoundPlaces
  <2>2. PICK H, G, L : H = Described({}) /\ G = Described({})' /\ L = located /\ L = located'
    BY <1>1
  <2>3. Places(o, H, L) \subseteq Places(o, G, L)
    BY <1>3, <2>2, PlacesGrow
  <2>4. placement[o] \in Places(o, G, L)'
    BY <1>1, <2>1, <2>2, <2>3, PlacesStay
  <2> QED
    BY <1>1, <2>1, <2>2, <2>4
<1>5. CompleteDescribed'
  BY <1>1, PlacesStay DEF PlacesInv, CompleteDescribed
<1>6. AllCovered'
  BY <1>1, PlacesStay DEF PlacesInv, AllCovered, Covers
<1>7. Apart'
  BY <1>1 DEF PlacesInv, Apart
<1>8. ASSUME NEW v \in Writer PROVE Own(tx[v], job[v])'
  <2>1. PICK t, j : t = tx[v] /\ j = job[v]
    OBVIOUS
  <2>2. Own(t, j)
    BY <2>1 DEF PlacesInv
  <2>3. Own(t, j)'
    BY <1>1, <1>4, <2>2, OwnGrows
  <2> QED
    BY <1>1, <2>1, <2>3
<1>9. (\A v \in Writer : Own(tx[v], job[v]))'
  BY <1>8
<1> QED
  BY <1>4, <1>5, <1>6, <1>7, <1>9 DEF PlacesInv

LEMMA ExtendKeeps == ASSUME StoreAssumption, RootsOnce, PlacesInv, Extend PROVE PlacesInv'
<1>1. Height = 1 .. Len(Forks[1]) /\ Len(Forks[1]) \in Nat
  BY BlocksTyped DEF PlacesInv, StoreShape
<1>2. tip \in 0 .. Len(Forks[1]) /\ stable \in 0 .. tip /\ tip' = tip + 1 /\ tip + 1 \in Height /\ stable' = stable
  BY DEF PlacesInv, StoreShape, Extend
<1>3. tip' \in 0 .. Len(Forks[1]) /\ stable' \in 0 .. tip' /\ tip <= tip' /\ stable <= stable' /\ 1 .. tip \subseteq 1 .. tip'
  BY SMTT(45), <1>1, <1>2
<1>4. UNCHANGED <<fork, complete, tables, job, tx>>
  BY DEF Extend
<1>5. StoreShape'
  BY <1>3, <1>4 DEF PlacesInv, StoreShape, tables
<1> QED
  BY <1>3, <1>4, <1>5, ChainGrows

LEMMA AdvanceKeeps == ASSUME StoreAssumption, RootsOnce, PlacesInv, Advance PROVE PlacesInv'
<1>1. Height = 1 .. Len(Forks[1]) /\ Len(Forks[1]) \in Nat
  BY BlocksTyped DEF PlacesInv, StoreShape
<1>2. tip \in 0 .. Len(Forks[1]) /\ stable \in 0 .. tip /\ tip' = tip /\ stable + 1 <= tip - Depth /\ stable' = stable + 1
  BY DEF PlacesInv, StoreShape, Advance
<1>3. Depth \in Nat
  BY DEF StoreAssumption
<1>4. tip' \in 0 .. Len(Forks[1]) /\ stable' \in 0 .. tip' /\ tip <= tip' /\ stable <= stable' /\ 1 .. tip \subseteq 1 .. tip'
  BY <1>1, <1>2, <1>3
<1>5. UNCHANGED <<fork, complete, tables, job, tx>>
  BY DEF Advance
<1>6. StoreShape'
  BY <1>4, <1>5 DEF PlacesInv, StoreShape, tables
<1> QED
  BY <1>4, <1>5, <1>6, ChainGrows

\* A bundle's transaction has one place on the chain.
LEMMA FoundAt ==
    ASSUME StoreAssumption, RootsOnce, PlacesInv, NEW r, Looked(r), NEW H, H \subseteq Height, NEW m \in Members(r, H)
    PROVE  m = placement[r]
<1>1. PICK G, x : G = Described({}) /\ x = placement[r]
  OBVIOUS
<1>2. x \in Members(r, G)
  BY <1>1 DEF Looked
<1>3. G \subseteq Height /\ fork \in DOMAIN Forks
  BY <1>1, DescribedTells DEF PlacesInv, StoreShape
<1>4. m = x
  BY <1>2, <1>3, MembersOnce
<1> QED
  BY <1>1, <1>4

LEMMA CommitKeeps == ASSUME StoreAssumption, RootsOnce, PlacesInv, NEW w \in Writer, Commit(w) PROVE PlacesInv'
<1>1. PICK t, j, k, f : t = tx[w] /\ j = job[w] /\ k = AfterBatch(w) /\ f = PlacesSeen(t)
  OBVIOUS
<1>2. /\ t.at = "commit" \/ (t.at = "described" /\ t.object = Nobody)
      /\ known' = known \cup t.known /\ located' = located \cup t.located /\ placement' = f
      /\ described' = IF t.height = 0 THEN described ELSE described \cup {BlockAt(t.height)}
      /\ complete' = IF t.height = 0 THEN complete ELSE complete \cup {t.height}
      /\ fork' = fork /\ tip' = tip /\ stable' = stable
  BY <1>1 DEF Commit
<1>3. job' = [job EXCEPT ![w] = k] /\ tx' = [tx EXCEPT ![w] = Fresh]
  BY <1>1 DEF Commit, To
<1>4. /\ Own(t, j) /\ TxTyped(t, j) /\ Stages(t, j) /\ Listed(t, j) /\ Holding(t, j) /\ SoundIn(t, j, t.wrote) /\ Improving(t)
      /\ MembersCovered(t) /\ ItemsCovered(t) /\ BatchCovered(t, j)
  BY <1>1 DEF PlacesInv, Own
<1>5. /\ fork \in DOMAIN Forks /\ located \subseteq Location /\ IsFiniteSet(located)
      /\ t.located \subseteq Location /\ IsFiniteSet(t.located) /\ complete \subseteq 1 .. tip
  BY <1>4 DEF PlacesInv, StoreShape, TxTyped
<1>6. /\ tip \in Nat /\ tip <= Len(Forks[1]) /\ Len(Forks[1]) \in Nat /\ Height = 1 .. Len(Forks[1])
  BY <1>5, BlocksTyped DEF PlacesInv, StoreShape
<1>7. /\ Describing(t) => t.height \in Height /\ t.height <= tip /\ t.located = {} /\ t.height \in complete'
      /\ complete \subseteq complete' /\ \A h \in complete' : h \in complete \/ (Describing(t) /\ h = t.height)
      /\ described \subseteq described'
  BY <1>2, <1>4 DEF Describing, Stages, Holding
<1>8. StoreShape'
  <2>1. complete' \subseteq 1 .. tip'
    <3>1. \A h \in complete : h \in 1 .. tip
      BY <1>5
    <3>2. Describing(t) => t.height \in 1 .. tip
      BY <1>6, <1>7
    <3> QED
      BY <1>2, <1>7, <3>1, <3>2
  <2>2. located' \subseteq Location /\ IsFiniteSet(located')
    BY <1>2, <1>5, FS_Union
  <2>3. (tx = [v \in Writer |-> tx[v]])' /\ (job = [v \in Writer |-> job[v]])'
    BY <1>3 DEF PlacesInv, StoreShape
  <2>4. fork \in DOMAIN Forks /\ tip \in 0 .. Len(Forks[1]) /\ stable \in 0 .. tip
    BY DEF PlacesInv, StoreShape
  <2> QED
    BY <1>2, <2>1, <2>2, <2>3, <2>4 DEF StoreShape
<1>9. complete' \subseteq Height /\ \A h \in complete' : {h} \subseteq Height
  <2>1. \A h \in complete : h \in Height
    BY <1>5, <1>6
  <2>2. \A h \in complete' : h \in Height
    BY <1>7, <2>1
  <2> QED
    BY <2>2
<1>10. /\ DOMAIN f = DOMAIN t.wrote \cup DOMAIN placement
       /\ \A o \in DOMAIN t.wrote : f[o] = t.wrote[o]
       /\ \A o \in DOMAIN placement \ DOMAIN t.wrote : f[o] = placement[o]
       /\ \A o \in DOMAIN f : f[o] \in Place
  BY <1>1, <1>4, PlacesSeenTells, PlacesAll
<1>11. PICK H, G, D, L, M : /\ H = Described({}) /\ D = Sees(t) /\ G = Described({})'
                            /\ L = located /\ M = located' /\ M = located \cup t.located
  BY <1>2
<1>12. H \subseteq G /\ D \subseteq G /\ L \subseteq M /\ H \subseteq Height /\ G \subseteq Height /\ D \subseteq Height
       /\ M \subseteq Location
  <2>1. \A h : BlockAt(h)' = BlockAt(h)
    BY <1>2, PlacesStay
  <2>2. H \subseteq G
    BY <1>2, <1>7, <1>11, <2>1 DEF Described
  <2>3. D \subseteq G
    <3>1. CASE Describing(t)
      <4>1. described' = described \cup {BlockAt(t.height)}
        BY <1>2, <3>1 DEF Describing
      <4>2. D = Described({t.height})
        BY <1>11, <3>1 DEF Sees
      <4> QED
        BY <1>2, <1>11, <2>1, <4>1, <4>2 DEF Described
    <3>2. CASE ~Describing(t)
      BY <1>11, <2>2, <3>2 DEF Sees
    <3> QED
      BY <3>1, <3>2
  <2>4. G \subseteq Height
    <3>1. \A h \in G : h \in 1 .. tip
      BY <1>2, <1>11 DEF Described
    <3> QED
      BY <1>6, <3>1
  <2> QED
    BY <1>2, <1>5, <1>11, <2>2, <2>3, <2>4
<1>13. ASSUME NEW o \in DOMAIN f PROVE f[o] \in Places(o, G, M) /\ (o \in Root => f[o].height \in complete')
  <2>1. CASE o \in DOMAIN t.wrote
    <3>1. t.wrote[o] \in Places(o, D, M) /\ (o \in Root => t.wrote[o].height = t.height)
      BY <1>4, <1>11, <2>1 DEF SoundIn
    <3>2. t.wrote[o] \in Places(o, G, M)
      <4>1. Places(o, D, M) \subseteq Places(o, G, M)
        BY <1>12, PlacesGrow
      <4> QED
        BY <3>1, <4>1
    <3>3. t.wrote[o].height \in Height
      <4>1. \A x \in Places(o, G, M) : x.height \in G
        BY <1>5, <1>12, PlacesTyped
      <4> QED
        BY <1>12, <3>2, <4>1
    <3>4. o \in Root => t.wrote[o].height \in complete'
      BY <1>6, <1>7, <3>1, <3>3 DEF Describing
    <3> QED
      BY <1>10, <2>1, <3>2, <3>4
  <2>2. CASE o \notin DOMAIN t.wrote
    <3>1. o \in DOMAIN placement /\ f[o] = placement[o]
      BY <1>10, <2>2
    <3>2. placement[o] \in Places(o, H, L) /\ (o \in Root => placement[o].height \in complete)
      BY <1>11, <3>1 DEF PlacesInv, SoundPlaces
    <3>3. Places(o, H, L) \subseteq Places(o, G, M)
      BY <1>12, PlacesGrow
    <3> QED
      BY <1>7, <3>1, <3>2, <3>3
  <2> QED
    BY <2>1, <2>2
<1>14. SoundPlaces'
  <2>1. \A o \in DOMAIN f : f[o] \in Places(o, G, M)'
    BY <1>2, <1>13, PlacesStay
  <2> QED
    BY <1>2, <1>11, <1>13, <2>1 DEF SoundPlaces
<1>15. CompleteDescribed'
  <2>1. \A h : BlockAt(h)' = BlockAt(h)
    BY <1>2, PlacesStay
  <2> QED
    BY <1>2, <2>1 DEF PlacesInv, CompleteDescribed
<1>16. ASSUME NEW o, NEW x \in Place, Covers(placement, o, x) PROVE Covers(f, o, x)
  <2>1. o \in DOMAIN placement /\ ~Before(x, placement[o]) /\ placement[o] \in Place /\ f[o] \in Place /\ o \in DOMAIN f
    BY <1>10, <1>16, PlacementTyped DEF Covers
  <2>2. CASE o \in DOMAIN t.wrote
    <3>1. Before(f[o], placement[o])
      BY <1>4, <1>10, <2>1, <2>2 DEF Improving
    <3>2. ~Before(x, f[o])
      BY <2>1, <3>1, BeforeOrders
    <3> QED
      BY <2>1, <3>2 DEF Covers
  <2>3. CASE o \notin DOMAIN t.wrote
    BY <1>10, <2>1, <2>3 DEF Covers
  <2> QED
    BY <2>2, <2>3
<1>17. ASSUME NEW o, NEW x, Covered(t, o, x) PROVE Covers(f, o, x)
  BY <1>1, <1>17 DEF Covered
<1>18. ASSUME NEW o, NEW x \in Places(o, complete', M) PROVE Covers(f, o, x)
  <2>1. x \in Place
    BY <1>5, <1>9, <1>12, <1>18, PlacesTyped
  <2>2. CASE x \in Places(o, complete, located)
    <3>1. Covers(placement, o, x)
      BY <2>2 DEF PlacesInv, AllCovered
    <3> QED
      BY <1>16, <2>1, <3>1
  <2>3. CASE o \in Root /\ x \notin Places(o, complete, located)
    <3>1. x \in Members(o, complete')
      BY <2>3, <1>18, PlacesAre
    <3>2. PICK h \in complete' : x \in Members(o, {h})
      <4>1. x.height \in complete' /\ x \in Members(o, {x.height})
        BY <1>5, <1>9, <3>1, MembersTyped
      <4> QED
        BY <4>1
    <3>3. h \notin complete
      <4>1. ASSUME h \in complete PROVE FALSE
        <5>1. {h} \subseteq complete
          BY <4>1
        <5>2. x \in Members(o, complete)
          BY <3>2, <5>1, MembersGrow
        <5> QED
          BY <2>3, <5>2, PlacesAre
      <4> QED
        BY <4>1
    <3>4. Describing(t) /\ h = t.height /\ h \in Height
      BY <1>7, <3>2, <3>3
    <3>5. o \in RootsIn(h)
      BY <1>5, <3>2, <3>4, MemberOf
    <3>6. o \in DOMAIN f
      BY <1>1, <1>2, <1>4, <3>4, <3>5 DEF MembersCovered
    <3>7. f[o] \in Members(o, G)
      BY <1>13, <2>3, <3>6, PlacesAre
    <3>8. x = f[o]
      BY <1>5, <1>9, <1>12, <3>1, <3>7, MembersOnce
    <3>9. ~Before(x, f[o])
      BY <2>1, <3>8, BeforeOrders
    <3> QED
      BY <3>6, <3>9 DEF Covers
  <2>4. CASE o \notin Root /\ x \notin Places(o, complete, located)
    <3>1. PICK l \in M : l.id = o /\ \E m \in Members(l.root, complete') : x = Through(l, m)
      BY <1>18, <2>4, PlacesAre
    <3>2. PICK m \in Members(l.root, complete') : x = Through(l, m)
      BY <3>1
    <3>3. CASE l \in located
      <4>1. PICK h \in complete' : m \in Members(l.root, {h})
        <5>1. m.height \in complete' /\ m \in Members(l.root, {m.height})
          BY <1>5, <1>9, <3>2, MembersTyped
        <5> QED
          BY <5>1
      <4>2. h \notin complete
        <5>1. ASSUME h \in complete PROVE FALSE
          <6>1. {h} \subseteq complete
            BY <5>1
          <6>2. m \in Members(l.root, complete)
            BY <4>1, <6>1, MembersGrow
          <6> QED
            BY <2>4, <3>1, <3>2, <3>3, <6>2, PlacesAre
        <5> QED
          BY <5>1
      <4>3. Describing(t) /\ h = t.height
        BY <1>7, <4>1, <4>2
      <4>4. Covered(t, l.id, Through(l, m))
        BY <1>2, <1>4, <3>3, <4>1, <4>2, <4>3 DEF ItemsCovered
      <4> QED
        BY <1>17, <3>1, <3>2, <4>4
    <3>4. CASE l \notin located
      <4>1. l \in t.located /\ ~Describing(t)
        BY <1>7, <1>11, <3>1, <3>4
      <4>2. j # NoJob /\ Batching(t, j) /\ t.at = "commit"
        BY <1>2, <1>4, <4>1 DEF Stages, Batching, BatchAt, Describing
      <4>3. l.root = j.root /\ Looked(j.root)
        BY <1>4, <4>1, <4>2 DEF Listed, Holding
      <4>4. m = placement[j.root]
        BY <1>9, <3>2, <4>3, FoundAt
      <4>5. Covered(t, l.id, Through(l, placement[j.root]))
        BY <1>4, <4>1, <4>2 DEF BatchCovered
      <4> QED
        BY <1>17, <3>1, <3>2, <4>4, <4>5
    <3> QED
      BY <3>3, <3>4
  <2> QED
    BY <2>2, <2>3, <2>4
<1>19. AllCovered'
  <2>1. \A o : \A x \in Places(o, complete, located)' : Covers(f, o, x)
    BY <1>2, <1>11, <1>18, PlacesStay
  <2> QED
    BY <1>2, <2>1 DEF AllCovered, Covers
<1>20. k = NoJob \/ (k = [root |-> k.root, walk |-> k.walk] /\ k.root \in Root /\ k.walk \in Walk)
  <2>1. k = NoJob \/ k = j \/ (j # NoJob /\ k = [j EXCEPT !.walk = NextBatch(@)])
    BY <1>1 DEF AfterBatch, InBatch
  <2>2. j = NoJob \/ (j = [root |-> j.root, walk |-> j.walk] /\ j.root \in Root /\ j.walk \in Walk)
    BY <1>4 DEF TxTyped
  <2>3. CASE j # NoJob /\ k = [j EXCEPT !.walk = NextBatch(@)]
    <3>1. PICK a, b : a = j.walk /\ b = NextBatch(a)
      OBVIOUS
    <3>2. b \in Walk
      BY <2>2, <2>3, <3>1, NextBatchTyped DEF StoreAssumption
    <3>3. k = [j EXCEPT !.walk = b]
      BY <2>3, <3>1
    <3> QED
      BY <2>2, <2>3, <3>2, <3>3
  <2> QED
    BY <2>1, <2>2, <2>3
<1>21. Own(Fresh, k)'
  BY <1>20, FreshOwnsNext
<1>22. ASSUME NEW v \in Writer, v # w PROVE Own(tx[v], job[v])'
  <2>1. PICK m, i : m = tx[v] /\ i = job[v]
    OBVIOUS
  <2>2. Own(m, i) /\ t.touched \cap m.touched = {}
    BY <1>1, <1>22, <2>1 DEF PlacesInv, Apart
  <2>3. \A o \in m.touched : (o \in DOMAIN placement' => o \in DOMAIN placement)
                             /\ (o \in DOMAIN placement => placement'[o] = placement[o])
    <3>1. DOMAIN t.wrote \subseteq t.touched
      BY <1>4 DEF Stages
    <3> QED
      BY <1>2, <1>10, <2>2, <3>1
  <2>4. ASSUME Describing(m), m.height \notin complete', NEW l \in located' \ located, NEW x \in Members(l.root, {m.height})
        PROVE  FALSE
    <3>1. l \in t.located /\ ~Describing(t)
      BY <1>2, <1>7, <2>4
    <3>2. j # NoJob /\ Batching(t, j)
      BY <1>2, <1>4, <3>1 DEF Stages, Batching, BatchAt, Describing
    <3>3. l.root = j.root /\ Looked(j.root) /\ j.root \in Root
      BY <1>4, <3>1, <3>2 DEF Listed, Holding, TxTyped
    <3>4. m.height \in Height
      BY <2>2, <2>4 DEF Own, Stages
    <3>5. x.height = m.height
      BY <1>5, <3>4, MemberOf
    <3>6. PICK X : X = {m.height}
      OBVIOUS
    <3>7. X \subseteq Height /\ x \in Members(j.root, X)
      BY <3>3, <3>4, <3>6
    <3>8. x = placement[j.root]
      BY <3>3, <3>7, FoundAt
    <3>9. placement[j.root].height \in complete
      BY <3>3 DEF Looked, PlacesInv, SoundPlaces
    <3> QED
      BY <1>7, <2>4, <3>5, <3>8, <3>9
  <2>5. DOMAIN placement \subseteq DOMAIN placement' /\ located \subseteq located' /\ known \subseteq known'
        /\ complete \subseteq complete' /\ described \subseteq described'
    BY <1>2, <1>7, <1>10
  <2>6. tip <= tip' /\ stable <= stable'
    <3>1. stable \in 0 .. tip
      BY DEF PlacesInv, StoreShape
    <3> QED
      BY <1>2, <1>6, <3>1
  <2>7. Own(m, i)'
    BY <1>2, <1>8, <1>14, <2>2, <2>3, <2>4, <2>5, <2>6, OwnGrows
  <2>8. m = tx'[v] /\ i = job'[v]
    BY <1>3, <1>22, <2>1 DEF PlacesInv, StoreShape
  <2> QED
    BY <2>7, <2>8
<1>23. Own(tx[w], job[w])'
  <2>1. tx'[w] = Fresh /\ job'[w] = k
    BY <1>3 DEF PlacesInv, StoreShape
  <2> QED
    BY <1>21, <2>1
<1>24. (\A v \in Writer : Own(tx[v], job[v]))'
  BY <1>22, <1>23
<1>25. Apart'
  <2>1. \A v \in Writer : tx'[v] = IF v = w THEN Fresh ELSE tx[v]
    BY <1>3 DEF PlacesInv, StoreShape
  <2>2. Fresh.touched = {}
    BY DEF Fresh
  <2> QED
    BY <2>1, <2>2 DEF PlacesInv, Apart
<1> QED
  BY <1>8, <1>14, <1>15, <1>19, <1>24, <1>25 DEF PlacesInv

-----------------------------------------------------------------------------
(* A rewind takes only what nobody holds.                                  *)

LEMMA AncestorTells ==
    ASSUME StoreAssumption, StoreShape, fork < Len(Forks)
    PROVE  /\ Ancestor \in 0 .. tip
           /\ \A h \in 1 .. Ancestor : Forks[fork][h] = Forks[fork + 1][h]
<1> DEFINE S == {h \in 0 .. tip : h = tip \/ Forks[fork][h + 1] # Forks[fork + 1][h + 1]}
<1>1. tip \in Nat
  BY BlocksTyped DEF StoreShape
<1>2. tip \in S /\ S \subseteq Nat
  BY <1>1
<1> HIDE DEF S
<1>3. PICK a \in S : \A h \in S : a <= h
  BY <1>2, LeastNatural
<1>4. a \in 0 .. tip /\ (a = tip \/ Forks[fork][a + 1] # Forks[fork + 1][a + 1])
  BY <1>3 DEF S
<1>5. ASSUME NEW k \in 1 .. a PROVE Forks[fork][k] = Forks[fork + 1][k]
  <2>1. k - 1 \in 0 .. tip /\ k - 1 # tip /\ k - 1 < a /\ (k - 1) + 1 = k
    BY <1>1, <1>4
  <2>2. k - 1 \notin S
    BY <1>1, <1>3, <1>4, <2>1
  <2> QED
    BY <2>1, <2>2 DEF S
<1> QED
  BY <1>4, <1>5 DEF Ancestor

LEMMA RewindKeeps == ASSUME StoreAssumption, RootsOnce, PlacesInv, Rewind PROVE PlacesInv'
<1>1. PICK A, X : A = Ancestor /\ X = Surviving(A)
  OBVIOUS
<1>2. /\ fork < Len(Forks) /\ fork' = fork + 1 /\ A >= stable /\ tip' = A /\ complete' = complete \cap 1 .. A
      /\ placement' = [o \in X |-> placement[o]]
      /\ stable' = stable /\ described' = described /\ known' = known /\ located' = located /\ job' = job /\ tx' = tx
  BY <1>1 DEF Rewind
<1>3. \A w \in Writer : ~tx[w].guard /\ \A o \in tx[w].touched : o \in DOMAIN placement => o \in X
  BY <1>1 DEF Rewind
<1>4. /\ fork \in DOMAIN Forks /\ located \subseteq Location /\ complete \subseteq 1 .. tip /\ stable \in 0 .. tip
      /\ tip \in 0 .. Len(Forks[1])
  BY DEF PlacesInv, StoreShape
<1>5. Height = 1 .. Len(Forks[1]) /\ Len(Forks[1]) \in Nat /\ tip \in Nat /\ stable \in Nat
  BY <1>4, BlocksTyped
<1>6. A \in 0 .. tip /\ A \in Nat /\ stable <= A /\ \A h \in 1 .. A : Forks[fork][h] = Forks[fork + 1][h]
  BY <1>1, <1>2, <1>5, AncestorTells DEF PlacesInv
<1>7. DOMAIN placement' = X /\ \A o \in X : placement'[o] = placement[o] /\ o \in DOMAIN placement /\ placement[o].height <= A
  BY <1>1, <1>2 DEF Surviving
<1>8. \A o \in DOMAIN placement : placement[o] \in Place /\ (placement[o].height <= A => o \in X)
  BY <1>1, PlacementTyped DEF Surviving
<1>9. StoreShape'
  <2>1. fork' \in DOMAIN Forks
    <3>1. Forks \in Seq(Seq(DOMAIN Txs))
      BY DEF StoreAssumption
    <3> QED
      BY <1>2, <1>4, <3>1
  <2>2. tip' \in 0 .. Len(Forks[1]) /\ stable' \in 0 .. tip' /\ complete' \subseteq 1 .. tip'
    BY <1>2, <1>4, <1>5, <1>6
  <2> QED
    BY <1>2, <2>1, <2>2 DEF PlacesInv, StoreShape
<1>10. \A h \in 1 .. A : BlockAt(h)' = BlockAt(h) /\ h \in Height
  <2>1. \A h \in 1 .. A : h \in Height
    <3>1. A <= Len(Forks[1])
      BY <1>4, <1>5, <1>6
    <3> QED
      BY <1>5, <1>6, <3>1
  <2>2. \A h \in 1 .. A : Forks[fork'][h] = Forks[fork][h]
    BY <1>2, <1>6
  <2> QED
    BY <2>1, <2>2 DEF BlockAt
\* Up to the ancestor the new fork is the old one.
<1>11. ASSUME NEW H, H \subseteq 1 .. A, NEW r PROVE Members(r, H)' = Members(r, H)
  BY <1>10, <1>11 DEF Members
<1>12. ASSUME NEW H, H \subseteq 1 .. A, NEW o, NEW L PROVE Places(o, H, L)' = Places(o, H, L)
  <2>1. \A h \in H : BlockAt(h)' = BlockAt(h)
    BY <1>10, <1>12
  <2>2. \A r : {r} # {} => Members(r, H)' = Members(r, H)
    BY <1>11, <1>12
  <2>3. o \in Root => Places(o, H, L)' = Places(o, H, L)
    BY <2>2 DEF Places
  <2>4. \A x : x \in UNION {{Through(l, m) : m \in Members(l.root, H)'} : l \in {y \in L : y.id = o}}
               <=> x \in UNION {{Through(l, m) : m \in Members(l.root, H)} : l \in {y \in L : y.id = o}}
    BY <2>2
  <2> QED
    BY <2>3, <2>4 DEF Places
<1>13. ASSUME NEW H, NEW h \in 1 .. A, h \in Described(H) PROVE h \in Described(H)'
  BY <1>2, <1>10, <1>13 DEF Described
<1>14. ASSUME NEW H, NEW o, NEW L, L \subseteq Location, NEW x \in Places(o, Described(H), L), x.height <= A
       PROVE  x \in Places(o, Described(H), L)' /\ x.height \in 1 .. A
  <2>1. PICK D, h, h1 : D = Described(H) /\ h = x.height /\ h1 = {h}
    OBVIOUS
  <2>2. D \subseteq Height
    BY <2>1, DescribedTells DEF PlacesInv
  <2>3. x \in Places(o, D, L)
    BY <2>1, <1>14
  <2>4. h \in D /\ x \in Places(o, h1, L)
    BY <1>4, <1>14, <2>1, <2>2, <2>3, PlacesTyped
  <2>5. h \in 1 .. A
    BY <1>5, <1>6, <1>14, <2>1, <2>2, <2>4
  <2>6. h \in Described(H)'
    BY <1>13, <2>1, <2>4, <2>5
  <2>7. x \in Places(o, h1, L)'
    BY <1>12, <2>1, <2>4, <2>5
  <2>8. PICK G : G = Described(H)'
    OBVIOUS
  <2>9. (Places(o, h1, L) \subseteq Places(o, G, L))'
    <3>1. h1 \subseteq G
      BY <2>1, <2>6, <2>8
    <3>2. (\A r : Members(r, h1) \subseteq Members(r, G))'
      BY <3>1 DEF Members
    <3> QED
      BY <3>2 DEF Places
  <2> QED
    BY <2>1, <2>5, <2>7, <2>8, <2>9
<1>15. SoundPlaces'
  <2> SUFFICES ASSUME NEW o \in X
               PROVE  /\ (placement[o] \in Places(o, Described({}), located))'
                      /\ (o \in Root => placement[o].height \in complete')
    BY <1>2, <1>7 DEF SoundPlaces
  <2>1. PICK x : x = placement[o]
    OBVIOUS
  <2>2. x \in Places(o, Described({}), located) /\ (o \in Root => x.height \in complete) /\ x.height <= A
    BY <1>7, <2>1 DEF PlacesInv, SoundPlaces
  <2>3. x \in Places(o, Described({}), located)' /\ x.height \in 1 .. A
    <3>1. PICK H, L : H = {} /\ L = located
      OBVIOUS
    <3>2. x \in Places(o, Described(H), L)
      BY <2>2, <3>1
    <3>3. x \in Places(o, Described(H), L)' /\ x.height \in 1 .. A
      BY <1>4, <1>14, <2>2, <3>1, <3>2
    <3> QED
      BY <1>2, <3>1, <3>3
  <2> QED
    BY <1>2, <1>7, <2>1, <2>2, <2>3
<1>16. CompleteDescribed'
  BY <1>2, <1>10 DEF PlacesInv, CompleteDescribed
<1>17. AllCovered'
  <2>1. PICK C, L : C = complete' /\ L = located /\ L = located'
    BY <1>2
  <2>2. C \subseteq 1 .. A /\ C \subseteq complete /\ C \subseteq Height
    BY <1>2, <1>10, <2>1
  <2>3. ASSUME NEW o, NEW x \in Places(o, C, L) PROVE Covers(placement', o, x)
    <3>1. x \in Place /\ x.height \in C
      BY <1>4, <2>1, <2>2, <2>3, PlacesTyped
    <3>2. x \in Places(o, complete, located)
      <4>1. Places(o, C, L) \subseteq Places(o, complete, L)
        BY <2>2, PlacesGrow
      <4> QED
        BY <2>1, <2>3, <4>1
    <3>3. o \in DOMAIN placement /\ ~Before(x, placement[o])
      BY <3>2 DEF PlacesInv, AllCovered, Covers
    <3>4. PICK y : y = placement[o]
      OBVIOUS
    <3>5. y \in Place /\ y.height <= x.height
      BY <1>8, <3>1, <3>3, <3>4, BeforeOrders
    <3>6. y.height <= A
      <4>1. y.height \in Nat /\ x.height \in Nat /\ x.height <= A
        BY <1>6, <2>2, <3>1, <3>5 DEF Place
      <4> QED
        BY <1>6, <3>5, <4>1
    <3>7. o \in X
      BY <1>8, <3>3, <3>4, <3>6
    <3> QED
      BY <1>7, <3>3, <3>7 DEF Covers
  <2>4. \A o : \A x \in Places(o, C, L)' : Covers(placement', o, x)
    BY <1>12, <2>2, <2>3
  <2> QED
    BY <2>1, <2>4 DEF AllCovered, Covers
<1>18. Apart'
  BY <1>2 DEF PlacesInv, Apart
<1>19. ASSUME NEW v \in Writer PROVE Own(tx[v], job[v])'
  <2>1. PICK t, j : t = tx[v] /\ j = job[v]
    OBVIOUS
  <2>2. /\ Own(t, j) /\ ~t.guard /\ \A o \in t.touched : o \in DOMAIN placement => o \in X
    BY <1>3, <2>1 DEF PlacesInv
  <2>3. /\ TxTyped(t, j) /\ Stages(t, j) /\ Listed(t, j) /\ Holding(t, j)
        /\ SoundIn(t, j, t.wrote) /\ SoundIn(t, j, t.todo) /\ Improving(t)
        /\ MembersCovered(t) /\ ItemsCovered(t) /\ BatchCovered(t, j)
        /\ DOMAIN t.wrote \subseteq t.touched
    BY <2>2 DEF Own, Stages
  <2>4. TxTyped(t, j)' /\ Stages(t, j)' /\ Listed(t, j)'
    BY <1>2, <2>3 DEF TxTyped, Stages, Listed
  <2>5. Describing(t) => t.height \in 1 .. A /\ t.height <= stable
    <3>1. Describing(t) => t.height \in Height /\ t.height <= stable
      BY <2>2, <2>3 DEF Stages, Holding, Safe
    <3> QED
      BY <1>5, <1>6, <3>1
  <2>6. ASSUME Batching(t, j)
        PROVE  /\ j.root \in X /\ placement'[j.root] = placement[j.root] /\ placement[j.root].height <= stable
               /\ placement[j.root].height \in 1 .. A /\ Looked(j.root)'
    <3>1. PICK r, x : r = j.root /\ x = placement[r]
      OBVIOUS
    <3>2. r \in known /\ r \in DOMAIN placement /\ x \in Members(r, Described({})) /\ x.height <= stable /\ r \in Root
          /\ x \in Place
      BY <1>8, <2>2, <2>3, <2>6, <3>1 DEF Holding, Safe, Looked, TxTyped, Batching
    <3>3. x.height \in Nat /\ x.height <= A
      BY <1>5, <1>6, <3>2 DEF Place
    <3>4. r \in X /\ placement'[r] = x
      BY <1>7, <1>8, <3>1, <3>2, <3>3
    <3>5. PICK H, L : H = {} /\ L = {}
      OBVIOUS
    <3>6. x \in Places(r, Described(H), L)
      BY <3>2, <3>5 DEF Places
    <3>7. x \in Places(r, Described(H), L)' /\ x.height \in 1 .. A
      BY <1>14, <3>3, <3>5, <3>6
    <3>8. x \in Members(r, Described({}))'
      BY <3>2, <3>5, <3>7 DEF Places
    <3>9. Looked(r)'
      BY <1>2, <1>7, <3>2, <3>4, <3>8 DEF Looked
    <3> QED
      BY <3>1, <3>2, <3>4, <3>7, <3>9
  <2>7. Holding(t, j)'
    <3>1. Describing(t) => t.height <= tip' /\ Safe(t, t.height)'
      BY <1>2, <1>6, <2>5 DEF Safe
    <3>2. Batching(t, j) => Looked(j.root)' /\ Safe(t, placement[j.root].height)'
      BY <1>2, <2>6 DEF Safe
    <3> QED
      BY <3>1, <3>2 DEF Holding, Describing, Batching
  <2>8. ASSUME NEW f, SoundIn(t, j, f), DOMAIN f # {} => Describing(t) \/ Batching(t, j) PROVE SoundIn(t, j, f)'
    <3> SUFFICES ASSUME NEW o \in DOMAIN f
                 PROVE  /\ (f[o] \in Places(o, Sees(t), located \cup t.located))'
                        /\ f[o].height <= Limit(t, j)'
                        /\ (o \in Root => f[o].height = t.height)
      BY DEF SoundIn
    <3>1. PICK x, H, L : /\ x = f[o] /\ L = located \cup t.located
                         /\ H = IF Describing(t) THEN {t.height} ELSE {}
      OBVIOUS
    <3>2. x \in Places(o, Described(H), L) /\ x.height <= Limit(t, j) /\ (o \in Root => x.height = t.height)
      BY <2>8, <3>1 DEF SoundIn, Sees
    <3>3. L \subseteq Location
      BY <1>4, <2>3, <3>1 DEF TxTyped
    <3>4. x.height \in Nat
      <4>1. PICK D : D = Described(H)
        OBVIOUS
      <4>2. D \subseteq Height
        BY <4>1, DescribedTells DEF PlacesInv
      <4>3. x.height \in D
        BY <1>4, <3>2, <3>3, <4>1, <4>2, PlacesTyped
      <4> QED
        <5>1. \A h \in Height : h \in Nat
          BY <1>5
        <5> QED
          BY <4>2, <4>3, <5>1
    <3>5. Limit(t, j) \in 1 .. A /\ Limit(t, j)' = Limit(t, j)
      BY <2>5, <2>6, <2>8 DEF Limit, Describing
    <3>6. x.height <= A
      BY <1>6, <3>2, <3>4, <3>5
    <3>7. x \in Places(o, Described(H), L)'
      BY <1>14, <3>2, <3>3, <3>6
    <3>8. (f[o] \in Places(o, Sees(t), located \cup t.located))'
      <4>1. Sees(t)' = Described(H)'
        BY <3>1 DEF Sees, Describing
      <4>2. (located \cup t.located)' = L
        BY <1>2, <3>1
      <4> QED
        BY <3>1, <3>7, <4>1, <4>2
    <3> QED
      BY <3>1, <3>2, <3>5, <3>8
  <2>9. (DOMAIN t.wrote # {} \/ DOMAIN t.todo # {}) => Describing(t) \/ Batching(t, j)
    <3> SUFFICES ASSUME ~Describing(t), ~Batching(t, j) PROVE DOMAIN t.wrote = {} /\ DOMAIN t.todo = {}
      OBVIOUS
    <3>1. CASE j = NoJob
      BY <2>3, <3>1 DEF Stages, Upserting
    <3>2. CASE j # NoJob
      <4>1. t = Fresh
        BY <2>3, <3>2 DEF Stages, Batching, Describing
      <4> QED
        BY <4>1 DEF Fresh
    <3> QED
      BY <3>1, <3>2
  <2>10. SoundIn(t, j, t.wrote)' /\ SoundIn(t, j, t.todo)'
    BY <2>3, <2>8, <2>9
  <2>11. Improving(t)'
    BY <1>7, <2>3 DEF Improving
  <2>12. \A o \in t.touched : /\ o \in DOMAIN PlacesSeen(t)' <=> o \in DOMAIN PlacesSeen(t)
                              /\ o \in DOMAIN PlacesSeen(t) => PlacesSeen(t)'[o] = PlacesSeen(t)[o]
    <3>1. \A o \in t.touched : (o \in X <=> o \in DOMAIN placement) /\ (o \in X => placement'[o] = placement[o])
      BY <1>7, <2>2
    <3> QED
      BY <1>7, <3>1 DEF PlacesSeen, Overlay
  <2>13. MembersCovered(t)'
    <3>1. Describing(t) => RootsIn(t.height)' = RootsIn(t.height)
      BY <1>10, <2>5 DEF RootsIn
    <3> QED
      BY <2>3, <2>12, <3>1 DEF MembersCovered, Describing
  <2>14. ASSUME NEW o, NEW x, Covered(t, o, x) PROVE Covered(t, o, x)'
    BY <2>12, <2>14 DEF Covered, Covers
  <2>15. ItemsCovered(t)'
    <3> SUFFICES ASSUME Describing(t), t.height \notin complete', NEW l \in located, NEW m \in Members(l.root, {t.height})'
                 PROVE  /\ t.at = "upsert items" => Covers(t.todo, l.id, Through(l, m))
                        /\ t.at \in {"described", "commit"} => Covered(t, l.id, Through(l, m))'
      BY <1>2 DEF ItemsCovered, Describing, Covers
    <3>1. t.height \notin complete
      BY <1>2, <2>5
    <3>2. m \in Members(l.root, {t.height})
      <4>1. PICK H : H = {t.height}
        OBVIOUS
      <4>2. Members(l.root, H)' = Members(l.root, H)
        <5>1. H \subseteq 1 .. A
          BY <2>5, <4>1
        <5>2. \A r : Members(r, H)' = Members(r, H)
          BY <1>11, <5>1
        <5>3. PICK r : r = l.root
          OBVIOUS
        <5> QED
          BY <5>2, <5>3
      <4> QED
        BY <4>1, <4>2
    <3> QED
      BY <2>3, <2>14, <3>1, <3>2 DEF ItemsCovered
  <2>16. BatchCovered(t, j)'
    <3>1. CASE ~Batching(t, j)
      BY <3>1 DEF BatchCovered, Batching, Describing
    <3>2. CASE Batching(t, j)
      <4>1. PICK m : m = placement[j.root] /\ m = placement'[j.root]
        BY <2>6, <3>2
      <4>2. ASSUME NEW l \in t.located
            PROVE  /\ t.at = "upsert batch" => Covers(t.todo, l.id, Through(l, m))'
                   /\ t.at = "commit" => Covered(t, l.id, Through(l, m))'
        <5>1. /\ t.at = "upsert batch" => Covers(t.todo, l.id, Through(l, m))
              /\ t.at = "commit" => Covered(t, l.id, Through(l, m))
          BY <2>3, <3>2, <4>1 DEF BatchCovered
        <5>2. t.at = "upsert batch" => Covers(t.todo, l.id, Through(l, m))'
          BY <5>1 DEF Covers
        <5> QED
          BY <2>14, <5>1, <5>2
      <4> QED
        BY <4>1, <4>2 DEF BatchCovered
    <3> QED
      BY <3>1, <3>2
  <2>17. Own(t, j)'
    BY <2>4, <2>7, <2>10, <2>11, <2>13, <2>15, <2>16 DEF Own
  <2> QED
    BY <1>2, <2>1, <2>17
<1>20. (\A v \in Writer : Own(tx[v], job[v]))'
  BY <1>19
<1> QED
  BY <1>9, <1>15, <1>16, <1>17, <1>18, <1>20 DEF PlacesInv

LEMMA PlacesStart == ASSUME StoreAssumption, Init PROVE PlacesInv
<1>1. Forks \in Seq(Seq(DOMAIN Txs)) /\ Forks # << >>
  BY DEF StoreAssumption
<1>2. fork \in DOMAIN Forks
  BY <1>1 DEF Init
<1>3. Len(Forks[1]) \in Nat
  BY <1>2, BlocksTyped
<1>4. StoreShape
  BY <1>2, <1>3, FS_EmptySet DEF Init, StoreShape
<1>5. DOMAIN placement = {} /\ complete = {} /\ located = {}
  BY DEF Init
<1>6. SoundPlaces /\ CompleteDescribed
  BY <1>5 DEF SoundPlaces, CompleteDescribed
<1>7. AllCovered
  BY <1>5 DEF AllCovered, Places, Members
<1>8. Apart
  BY DEF Init, Apart, Fresh
<1>9. \A w \in Writer : Own(tx[w], job[w])
  <2>1. Own(Fresh, NoJob)
    BY FreshOwns
  <2> QED
    BY <2>1 DEF Init
<1> QED
  BY <1>4, <1>6, <1>7, <1>8, <1>9 DEF PlacesInv

LEMMA PlacesStep == ASSUME StoreAssumption, RootsOnce, PlacesInv, [Next]_vars PROVE PlacesInv'
<1>1. CASE UNCHANGED vars
  <2>1. TablesSame /\ StoreShape' /\ UNCHANGED <<fork, complete, tables, job, tx>> /\ tip' = tip /\ stable' = stable
    BY <1>1 DEF vars, chain, tables, TablesSame, PlacesInv, StoreShape
  <2>2. tip <= tip' /\ stable <= stable'
    <3>1. stable \in 0 .. tip /\ tip \in Nat
      BY BlocksTyped DEF PlacesInv, StoreShape
    <3> QED
      BY <2>1, <3>1
  <2> QED
    BY <2>1, <2>2, ChainGrows
<1>2. ASSUME NEW w \in Writer, Cancelled(w) \/ Victim(w) PROVE PlacesInv'
  <2>1. EndJob(w)
    BY <1>2 DEF Cancelled, Victim
  <2>2. UNCHANGED <<fork, tip, stable, complete>>
    BY <2>1 DEF EndJob, chain
  <2> QED
    BY <2>1, <2>2, EndJobKeeps
<1>3. CASE Next
  BY <1>2, <1>3, BeginMetadataKeeps, LockMembersKeeps, PlaceMembersKeeps, UpsertMembersKeeps, PlaceItemsKeeps,
     UpsertItemsKeeps, WriteRootKeeps, BeginObjectKeeps, WriteObjectKeeps, StartJobKeeps, BeginBatchKeeps, LockRootKeeps,
     WriteBatchKeeps, PlaceBatchKeeps, UpsertBatchKeeps, CommitKeeps, AbortKeeps, ExtendKeeps, AdvanceKeeps, RewindKeeps
  DEF Next
<1> QED
  BY <1>1, <1>3

LEMMA PlacesTell == ASSUME StoreAssumption, RootsOnce, PlacesInv PROVE PlacementsCanonical
<1> SUFFICES ASSUME NEW o \in Object
             PROVE  /\ o \in DOMAIN placement => placement[o] \in Places(o, Described({}), located)
                    /\ Places(o, complete, located) # {} =>
                          /\ o \in DOMAIN placement
                          /\ ~Before(Least(Places(o, complete, located)), placement[o])
  BY DEF PlacementsCanonical
<1>1. o \in DOMAIN placement => placement[o] \in Places(o, Described({}), located)
  BY DEF PlacesInv, SoundPlaces
<1>2. ASSUME NEW x \in Places(o, complete, located)
      PROVE  o \in DOMAIN placement /\ ~Before(Least(Places(o, complete, located)), placement[o])
  <2>1. PICK C, L : C = complete /\ L = located
    OBVIOUS
  <2>2. C \subseteq Height /\ L \subseteq Location /\ IsFiniteSet(L) /\ fork \in DOMAIN Forks
    <3>1. Height = 1 .. Len(Forks[1]) /\ Len(Forks[1]) \in Nat /\ tip \in 0 .. Len(Forks[1]) /\ complete \subseteq 1 .. tip
      BY BlocksTyped DEF PlacesInv, StoreShape
    <3>2. \A h \in complete : h \in Height
      <4>1. tip \in Nat /\ tip <= Len(Forks[1])
        BY <3>1
      <4>2. \A h \in 1 .. tip : h \in 1 .. Len(Forks[1])
        BY <3>1, <4>1
      <4> QED
        BY <3>1, <4>2
    <3> QED
      BY <2>1, <3>2 DEF PlacesInv, StoreShape
  <2>3. Least(Places(o, C, L)) \in Places(o, C, L)
    BY <1>2, <2>1, <2>2, LeastPlace
  <2> QED
    BY <2>1, <2>3 DEF PlacesInv, AllCovered, Covers
<1> QED
  BY <1>1, <1>2

\* Whatever forks the follower stores, and however blocks, roots and batches
\* are written beside its rewinds, a placement is a place that the canonical
\* chain gives, and none in blocks whose metadata is complete comes before it
\* (write_block_metadata, refresh_item_placements, commit_bundle_batch,
\* rewind).
THEOREM PlacementsAlwaysCanonical == RootsOnce /\ Spec => []PlacementsCanonical
<1>1. StoreAssumption
  BY StoreAssumption
<1>2. ASSUME RootsOnce PROVE Spec => []PlacementsCanonical
  <2>1. Init => PlacesInv
    BY <1>1, PlacesStart
  <2>2. PlacesInv /\ [Next]_vars => PlacesInv'
    BY <1>1, <1>2, PlacesStep
  <2>3. PlacesInv => PlacementsCanonical
    BY <1>1, <1>2, PlacesTell
  <2> QED
    BY <2>1, <2>2, <2>3, PTL DEF Spec
<1> QED
  BY <1>2

-----------------------------------------------------------------------------
(* The totals.  Count is a number of rows, so a step changes it by the     *)
(* sizes of the sets of rows that it changes.                              *)

Columns == {"roots", "completed", "nested"}
Sums == [Height -> [Columns -> Int]]
Rows(S, p, d, h, c) == {o \in S : p[o].height = h} \cap Counted(d)[c]

LEMMA CountTells ==
    ASSUME NEW S, IsFiniteSet(S), NEW p, NEW d
    PROVE  /\ Count(S, p, d) \in Sums
           /\ \A h \in Height, c \in Columns :
                 /\ Count(S, p, d)[h][c] = Cardinality(Rows(S, p, d, h, c))
                 /\ IsFiniteSet(Rows(S, p, d, h, c)) /\ Cardinality(Rows(S, p, d, h, c)) \in Nat
<1>1. ASSUME NEW h, NEW c PROVE IsFiniteSet(Rows(S, p, d, h, c)) /\ Cardinality(Rows(S, p, d, h, c)) \in Nat
  <2>1. Rows(S, p, d, h, c) \subseteq S
    BY DEF Rows
  <2> QED
    BY <2>1, FS_Subset, FS_CardinalityType
<1>2. Count(S, p, d) = [h \in Height |-> [c \in Columns |-> Cardinality(Rows(S, p, d, h, c))]]
  BY DEF Count, Rows, Columns
<1>3. Count(S, p, d) \in Sums
  <2>1. \A h \in Height, c \in Columns : Cardinality(Rows(S, p, d, h, c)) \in Int
    BY <1>1
  <2> QED
    BY <1>2, <2>1 DEF Sums
<1> QED
  BY <1>1, <1>2, <1>3

LEMMA AddTells ==
    ASSUME NEW a \in Sums, NEW b \in Sums
    PROVE  /\ Add(a, b, 1) \in Sums /\ Add(a, b, -1) \in Sums
           /\ \A h \in Height, c \in Columns : /\ Add(a, b, 1)[h][c] = a[h][c] + b[h][c]
                                               /\ Add(a, b, -1)[h][c] = a[h][c] - b[h][c]
                                               /\ a[h][c] \in Int /\ b[h][c] \in Int
<1>1. \A h \in Height : DOMAIN a[h] = Columns /\ \A c \in Columns : a[h][c] \in Int /\ b[h][c] \in Int
  BY DEF Sums
<1>2. DOMAIN a = Height
  BY DEF Sums
<1>3. Add(a, b, 1) = [h \in Height |-> [c \in Columns |-> a[h][c] + 1 * b[h][c]]]
      /\ Add(a, b, -1) = [h \in Height |-> [c \in Columns |-> a[h][c] + (-1) * b[h][c]]]
  BY <1>1 DEF Add
<1>4. \A h \in Height, c \in Columns : a[h][c] + 1 * b[h][c] = a[h][c] + b[h][c] /\ a[h][c] + (-1) * b[h][c] = a[h][c] - b[h][c]
                                       /\ a[h][c] + b[h][c] \in Int /\ a[h][c] - b[h][c] \in Int
  BY <1>1
<1> QED
  BY <1>1, <1>3, <1>4 DEF Sums

LEMMA SumsEqual ==
    ASSUME NEW a \in Sums, NEW b \in Sums, \A h \in Height, c \in Columns : a[h][c] = b[h][c] PROVE a = b
<1>1. \A h \in Height : a[h] \in [Columns -> Int] /\ b[h] \in [Columns -> Int]
  BY DEF Sums
<1>2. \A h \in Height : a[h] = b[h]
  BY <1>1
<1> QED
  BY <1>2 DEF Sums

LEMMA ZeroTells == Zero \in Sums /\ \A h \in Height, c \in Columns : Zero[h][c] = 0
<1>1. PICK z : z = [roots |-> 0, completed |-> 0, nested |-> 0]
  OBVIOUS
<1>2. z \in [Columns -> Int] /\ \A c \in Columns : z[c] = 0
  BY <1>1 DEF Columns
<1>3. Zero = [h \in Height |-> z]
  BY <1>1 DEF Zero
<1> QED
  BY <1>2, <1>3 DEF Sums

\* Two finite sets that differ in C only differ in size by what they have of it.
LEMMA SizesDiffer ==
    ASSUME NEW A, NEW B, NEW C, IsFiniteSet(A), IsFiniteSet(B), A \ C = B \ C
    PROVE  /\ Cardinality(A) \in Nat /\ Cardinality(B) \in Nat /\ Cardinality(A \cap C) \in Nat /\ Cardinality(B \cap C) \in Nat
           /\ Cardinality(B) = Cardinality(A) - Cardinality(A \cap C) + Cardinality(B \cap C)
<1>1. ASSUME NEW D, IsFiniteSet(D)
      PROVE  /\ Cardinality(D) = Cardinality(D \ C) + Cardinality(D \cap C)
             /\ Cardinality(D \ C) \in Nat /\ Cardinality(D \cap C) \in Nat /\ Cardinality(D) \in Nat
  <2>1. IsFiniteSet(D \ C) /\ IsFiniteSet(D \cap C)
    BY <1>1, FS_Subset
  <2>2. (D \ C) \cap (D \cap C) = {} /\ (D \ C) \cup (D \cap C) = D
    OBVIOUS
  <2>3. Cardinality((D \ C) \cup (D \cap C)) = Cardinality(D \ C) + Cardinality(D \cap C)
    <3>1. PICK E, F : E = D \ C /\ F = D \cap C
      OBVIOUS
    <3>2. IsFiniteSet(E) /\ IsFiniteSet(F) /\ E \cap F = {}
      BY <2>1, <2>2, <3>1
    <3>3. Cardinality(E \cup F) = Cardinality(E) + Cardinality(F) - Cardinality(E \cap F)
      BY <3>2, FS_Union
    <3>4. Cardinality(E \cap F) = 0 /\ Cardinality(E) \in Nat /\ Cardinality(F) \in Nat
      BY <3>2, FS_EmptySet, FS_CardinalityType
    <3> QED
      BY <3>1, <3>3, <3>4
  <2> QED
    BY <1>1, <2>1, <2>2, <2>3, FS_CardinalityType
<1>2. PICK E : E = A \ C /\ E = B \ C
  OBVIOUS
<1>3. Cardinality(A) = Cardinality(E) + Cardinality(A \cap C) /\ Cardinality(B) = Cardinality(E) + Cardinality(B \cap C)
      /\ Cardinality(E) \in Nat
  BY <1>1, <1>2
<1>4. Cardinality(A) \in Nat /\ Cardinality(B) \in Nat /\ Cardinality(A \cap C) \in Nat /\ Cardinality(B \cap C) \in Nat
  BY <1>1
<1> QED
  BY <1>3, <1>4

LEMMA SizesAdd ==
    ASSUME NEW A, NEW B, IsFiniteSet(A), IsFiniteSet(B), A \cap B = {}
    PROVE  /\ IsFiniteSet(A \cup B) /\ Cardinality(A \cup B) = Cardinality(A) + Cardinality(B)
           /\ Cardinality(A) \in Nat /\ Cardinality(B) \in Nat
<1>1. Cardinality(A \cup B) = Cardinality(A) + Cardinality(B) - Cardinality(A \cap B) /\ IsFiniteSet(A \cup B)
  BY FS_Union
<1>2. Cardinality(A \cap B) = 0 /\ Cardinality(A) \in Nat /\ Cardinality(B) \in Nat
  BY FS_EmptySet, FS_CardinalityType
<1> QED
  BY <1>1, <1>2

-----------------------------------------------------------------------------
(* Every transaction has in hand the difference that its own rows make     *)
(* (Balanced), and nobody else changes these rows.                         *)

\* The rows that no other transaction can change, and what a transaction adds
\* to the totals of theirs.
Claimed(t) == t.touched \cup t.known
NowIn(t, h, c) == Rows(Claimed(t) \cap KnownSeen(t) \cap DOMAIN PlacesSeen(t), PlacesSeen(t), done, h, c)
WasIn(t, h, c) == Rows(Claimed(t) \cap known \cap DOMAIN placement, placement, done, h, c)
Balanced(t) ==
    /\ t.delta \in Sums
    /\ \A h \in Height, c \in Columns : t.delta[h][c] = Cardinality(NowIn(t, h, c)) - Cardinality(WasIn(t, h, c))

\* A rewind leaves alone the rows that a transaction described.
KnownSafe(t, j) ==
    /\ Describing(t) => t.object \in RootsIn(t.height) \cup {Nobody} /\ t.known \subseteq RootsIn(t.height)
    /\ Batching(t, j) => t.known \cap Root = {}
    /\ ~Describing(t) /\ j = NoJob =>
          /\ t.known \subseteq t.ids
          /\ t.guard \/ \A o \in t.ids : o \in DOMAIN placement /\ placement[o].height <= stable
KnownBefore == {"none", "lock", "members", "upsert members", "items", "upsert items", "described", "object", "root", "batch"}
OwnTotals(t, j) ==
    /\ IsFiniteSet(DOMAIN t.wrote) /\ IsFiniteSet(DOMAIN t.todo)
    /\ t.known \cap known = {} /\ (t.at \in KnownBefore => t.known = {})
    /\ \A l \in t.located : l.id \in KnownSeen(t)
    /\ KnownSafe(t, j) /\ Balanced(t)

ClaimsApart == \A v, w \in Writer : v # w => Claimed(tx[v]) \cap Claimed(tx[w]) = {}
TotalsInv ==
    /\ PlacesInv /\ TotalsExact /\ ClaimsApart /\ IsFiniteSet(DOMAIN placement)
    /\ \A l \in located : l.id \in known
    /\ \A w \in Writer : OwnTotals(tx[w], job[w])

LEMMA TotalsStay == ASSUME TablesSame, NEW t, NEW j PROVE OwnTotals(t, j) <=> OwnTotals(t, j)'
<1>1. fork' = fork /\ stable' = stable /\ known' = known /\ placement' = placement /\ done' = done
  BY DEF TablesSame
<1>2. PlacesSeen(t)' = PlacesSeen(t) /\ KnownSeen(t)' = KnownSeen(t)
  BY <1>1 DEF PlacesSeen, KnownSeen
<1>3. Balanced(t) <=> Balanced(t)'
  BY <1>1, <1>2 DEF Balanced, NowIn, WasIn
<1>4. KnownSafe(t, j) <=> KnownSafe(t, j)'
  BY <1>1, PlacesStay DEF KnownSafe, Describing, Batching
<1> QED
  BY <1>1, <1>2, <1>3, <1>4 DEF OwnTotals

LEMMA OneCounts ==
    ASSUME TotalsInv, PlacesInv', TablesSame, totals' = totals, NEW w \in Writer, NEW n, To(w, n),
           NEW j, job' = [job EXCEPT ![w] = j], OwnTotals(n, j),
           \A v \in Writer : v # w => Claimed(n) \cap Claimed(tx[v]) = {}
    PROVE  TotalsInv'
<1>1. /\ tx' = [v \in Writer |-> IF v = w THEN n ELSE tx[v]]
      /\ job' = [v \in Writer |-> IF v = w THEN j ELSE job[v]]
  BY DEF To, TotalsInv, PlacesInv, StoreShape
<1>2. ASSUME NEW v \in Writer PROVE OwnTotals(tx[v], job[v])'
  <2>1. PICK m, i : m = tx'[v] /\ i = job'[v]
    OBVIOUS
  <2>2. OwnTotals(m, i)
    BY <1>1, <2>1 DEF TotalsInv
  <2>3. OwnTotals(m, i)'
    BY <2>2, TotalsStay
  <2> QED
    BY <2>1, <2>3
<1>3. (\A v \in Writer : OwnTotals(tx[v], job[v]))'
  BY <1>2
<1>4. ClaimsApart'
  BY <1>1 DEF TotalsInv, ClaimsApart, Claimed
<1>5. TotalsExact' /\ IsFiniteSet(DOMAIN placement') /\ \A l \in located' : l.id \in known'
  BY DEF TotalsInv, TotalsExact, TablesSame, Count
<1> QED
  BY <1>3, <1>4, <1>5 DEF TotalsInv

\* The rows that are seen are as many as are written or stored.
LEMMA SeenFinite ==
    ASSUME TotalsInv, NEW t, NEW j, OwnTotals(t, j)
    PROVE  /\ IsFiniteSet(DOMAIN PlacesSeen(t)) /\ IsFiniteSet(DOMAIN placement)
           /\ \A h, c : /\ IsFiniteSet(NowIn(t, h, c)) /\ Cardinality(NowIn(t, h, c)) \in Nat
                        /\ IsFiniteSet(WasIn(t, h, c)) /\ Cardinality(WasIn(t, h, c)) \in Nat
<1>1. IsFiniteSet(DOMAIN placement) /\ IsFiniteSet(DOMAIN t.wrote)
  BY DEF TotalsInv, OwnTotals
<1>2. DOMAIN PlacesSeen(t) = DOMAIN t.wrote \cup DOMAIN placement
  BY PlacesSeenTells
<1>3. IsFiniteSet(DOMAIN PlacesSeen(t))
  BY <1>1, <1>2, FS_Union
<1>4. ASSUME NEW h, NEW c PROVE IsFiniteSet(NowIn(t, h, c)) /\ IsFiniteSet(WasIn(t, h, c))
  <2>1. NowIn(t, h, c) \subseteq DOMAIN PlacesSeen(t) /\ WasIn(t, h, c) \subseteq DOMAIN placement
    BY DEF NowIn, WasIn, Rows
  <2> QED
    BY <1>1, <1>3, <2>1, FS_Subset
<1> QED
  BY <1>1, <1>3, <1>4, FS_CardinalityType

\* A statement that neither places nor describes an object.
LEMMA StageCounts ==
    ASSUME TotalsInv, PlacesInv', TablesSame, totals' = totals, NEW w \in Writer, NEW n, To(w, n), job' = job,
           Same(n, tx[w]), n.known = tx[w].known, n.delta = tx[w].delta, IsFiniteSet(DOMAIN n.todo),
           n.at \in KnownBefore => tx[w].at \in KnownBefore, KnownSafe(n, job[w])
    PROVE  TotalsInv'
<1>1. PICK t, j : t = tx[w] /\ j = job[w]
  OBVIOUS
<1>2. OwnTotals(t, j) /\ Same(n, t) /\ n.known = t.known /\ n.delta = t.delta /\ (n.at \in KnownBefore => t.at \in KnownBefore)
      /\ n.located = t.located /\ n.wrote = t.wrote /\ n.touched = t.touched /\ KnownSafe(n, j)
  BY <1>1 DEF TotalsInv, Same
<1>3. PlacesSeen(n) = PlacesSeen(t) /\ KnownSeen(n) = KnownSeen(t) /\ Claimed(n) = Claimed(t)
  BY <1>2 DEF PlacesSeen, KnownSeen, Claimed
<1>4. Balanced(n)
  BY <1>2, <1>3 DEF OwnTotals, Balanced, NowIn, WasIn
<1>5. OwnTotals(n, j)
  BY <1>2, <1>3, <1>4 DEF OwnTotals
<1>6. \A v \in Writer : v # w => Claimed(n) \cap Claimed(tx[v]) = {}
  BY <1>1, <1>3 DEF TotalsInv, ClaimsApart
<1>7. job' = [job EXCEPT ![w] = j]
  BY <1>1, JobStays DEF TotalsInv
<1> QED
  BY <1>5, <1>6, <1>7, OneCounts

\* The metadata of objects that have none.
LEMMA MetadataCounts ==
    ASSUME TotalsInv, PlacesInv', TablesSame, totals' = totals, NEW w \in Writer, NEW n, To(w, n), job' = job,
           n.wrote = tx[w].wrote, n.touched = tx[w].touched, n.todo = tx[w].todo,
           NEW new, n.known = tx[w].known \cup new, IsFiniteSet(DOMAIN n.todo), tx[w].at \in KnownBefore,
           n.at \notin KnownBefore,
           n.delta = Add(tx[w].delta, Count(new \cap DOMAIN PlacesSeen(tx[w]), PlacesSeen(tx[w]), done), 1),
           new \cap known = {}, \A v \in Writer : v # w => new \cap Claimed(tx[v]) = {},
           \A l \in n.located : l.id \in KnownSeen(n), KnownSafe(n, job[w])
    PROVE  TotalsInv'
<1>1. PICK t, j : t = tx[w] /\ j = job[w]
  OBVIOUS
<1>2. /\ OwnTotals(t, j) /\ KnownSafe(n, j) /\ t.known = {} /\ n.known = new
      /\ n.wrote = t.wrote /\ n.touched = t.touched /\ n.todo = t.todo
  BY <1>1 DEF TotalsInv, OwnTotals
<1>3. PICK P, K, C : P = PlacesSeen(t) /\ K = KnownSeen(t) /\ C = Claimed(t)
  OBVIOUS
<1>4. PlacesSeen(n) = P /\ KnownSeen(n) = K \cup new /\ Claimed(n) = C \cup new /\ K = known /\ new \cap K = {}
  BY <1>2, <1>3 DEF PlacesSeen, KnownSeen, Claimed
<1>5. IsFiniteSet(new \cap DOMAIN P)
  BY <1>2, <1>3, SeenFinite, FS_Subset
<1>6. PICK D : D = Count(new \cap DOMAIN P, P, done)
  OBVIOUS
<1>7. /\ D \in Sums /\ t.delta \in Sums /\ n.delta = Add(t.delta, D, 1)
      /\ \A h \in Height, c \in Columns :
            /\ D[h][c] = Cardinality(Rows(new \cap DOMAIN P, P, done, h, c))
            /\ IsFiniteSet(Rows(new \cap DOMAIN P, P, done, h, c))
  <2>1. t.delta \in Sums
    BY <1>2 DEF OwnTotals, Balanced
  <2>2. n.delta = Add(t.delta, D, 1)
    BY <1>1, <1>3, <1>6
  <2>3. PICK S : S = new \cap DOMAIN P
    OBVIOUS
  <2>4. IsFiniteSet(S) /\ D = Count(S, P, done)
    BY <1>5, <1>6, <2>3
  <2>5. D \in Sums /\ \A h \in Height, c \in Columns : /\ D[h][c] = Cardinality(Rows(S, P, done, h, c))
                                                      /\ IsFiniteSet(Rows(S, P, done, h, c))
    BY <2>4, CountTells
  <2> QED
    BY <2>1, <2>2, <2>3, <2>5
<1>8. ASSUME NEW h \in Height, NEW c \in Columns
      PROVE  n.delta[h][c] = Cardinality(NowIn(n, h, c)) - Cardinality(WasIn(n, h, c))
  <2>1. PICK A, F, W : A = NowIn(t, h, c) /\ F = Rows(new \cap DOMAIN P, P, done, h, c) /\ W = WasIn(t, h, c)
    OBVIOUS
  <2>2. IsFiniteSet(A) /\ IsFiniteSet(F) /\ Cardinality(W) \in Nat
    BY <1>2, <1>7, <2>1, SeenFinite
  <2>3. NowIn(n, h, c) = A \cup F /\ A \cap F = {}
    <3>1. NowIn(n, h, c) = Rows((C \cup new) \cap (K \cup new) \cap DOMAIN P, P, done, h, c)
      BY <1>4 DEF NowIn
    <3>2. A = Rows(C \cap K \cap DOMAIN P, P, done, h, c)
      BY <1>3, <2>1 DEF NowIn
    <3> QED
      BY <1>4, <2>1, <3>1, <3>2 DEF Rows
  <2>4. WasIn(n, h, c) = W
    <3>1. (C \cup new) \cap known = C \cap known
      BY <1>4
    <3> QED
      BY <1>3, <1>4, <2>1, <3>1 DEF WasIn
  <2>5. Cardinality(A \cup F) = Cardinality(A) + Cardinality(F) /\ Cardinality(A) \in Nat /\ Cardinality(F) \in Nat
    BY <2>2, <2>3, SizesAdd
  <2>6. n.delta[h][c] = t.delta[h][c] + D[h][c] /\ t.delta[h][c] = Cardinality(A) - Cardinality(W)
    BY <1>2, <1>7, <2>1, AddTells DEF OwnTotals, Balanced
  <2>7. D[h][c] = Cardinality(F)
    BY <1>7, <2>1
  <2>8. n.delta[h][c] = Cardinality(A \cup F) - Cardinality(W)
    BY <2>2, <2>5, <2>6, <2>7
  <2> QED
    BY <2>3, <2>4, <2>8
<1>9. Balanced(n)
  BY <1>7, <1>8, AddTells DEF Balanced
<1>10. OwnTotals(n, j)
  BY <1>2, <1>9 DEF OwnTotals
<1>11. \A v \in Writer : v # w => Claimed(n) \cap Claimed(tx[v]) = {}
  BY <1>1, <1>3, <1>4 DEF TotalsInv, ClaimsApart
<1>12. job' = [job EXCEPT ![w] = j]
  BY <1>1, JobStays DEF TotalsInv
<1> QED
  BY <1>10, <1>11, <1>12, OneCounts

\* The places of objects that the transaction waited for.
LEMMA UpsertCounts ==
    ASSUME TotalsInv, PlacesInv', TablesSame, totals' = totals, NEW w \in Writer, NEW next, Upsert(w, next), job' = job,
           tx[w].at \in Upserting, next \in KnownBefore => tx[w].at \in KnownBefore
    PROVE  TotalsInv'
<1>1. PICK t, j, rows, f, P, Z :
         /\ t = tx[w] /\ j = job[w] /\ P = PlacesSeen(t) /\ Z = Overlay(f, P)
         /\ rows = {o \in DOMAIN t.todo : Improves(t, o)} /\ f = [o \in rows |-> t.todo[o]]
  OBVIOUS
<1>2. PICK n : /\ n = [t EXCEPT !.wrote = Overlay(f, @), !.touched = @ \cup DOMAIN t.todo,
                                !.delta = Moved(t, P, Z, rows), !.todo = << >>, !.at = next]
               /\ To(w, n)
  BY <1>1 DEF Upsert
<1>3. OwnTotals(t, j) /\ TxRow(t) /\ t.at \in Upserting
  BY <1>1 DEF TotalsInv, PlacesInv, Own, TxTyped
<1>4. /\ n.at = next /\ n.height = t.height /\ n.guard = t.guard /\ n.located = t.located /\ n.known = t.known
      /\ n.ids = t.ids /\ n.object = t.object /\ n.todo = << >> /\ n.touched = t.touched \cup DOMAIN t.todo
      /\ n.wrote = Overlay(f, t.wrote) /\ n.delta = Moved(t, P, Z, rows)
  BY <1>2, <1>3 DEF TxRow
<1>5. PICK X, C, K, Q, pl : X = DOMAIN t.todo /\ C = Claimed(t) /\ K = KnownSeen(t) /\ Q = PlacesSeen(n) /\ pl = placement
  OBVIOUS
<1>6. /\ rows \subseteq X /\ DOMAIN f = rows /\ \A o \in rows : f[o] = t.todo[o]
  BY <1>1, <1>5
<1>7. /\ DOMAIN P = DOMAIN t.wrote \cup DOMAIN pl
      /\ \A o \in DOMAIN t.wrote : P[o] = t.wrote[o]
      /\ \A o \in DOMAIN pl \ DOMAIN t.wrote : P[o] = pl[o]
  BY <1>1, <1>5, PlacesSeenTells
<1>8. /\ DOMAIN Z = rows \cup DOMAIN P
      /\ \A o \in rows : Z[o] = f[o]
      /\ \A o \in DOMAIN P \ rows : Z[o] = P[o]
  <2>1. /\ DOMAIN Overlay(f, P) = DOMAIN f \cup DOMAIN P
        /\ \A o \in DOMAIN f : Overlay(f, P)[o] = f[o]
        /\ \A o \in DOMAIN P \ DOMAIN f : Overlay(f, P)[o] = P[o]
    BY OverTells
  <2> QED
    BY <1>1, <1>6, <2>1
<1>9. /\ DOMAIN n.wrote = rows \cup DOMAIN t.wrote
      /\ \A o \in rows : n.wrote[o] = f[o]
      /\ \A o \in DOMAIN t.wrote \ rows : n.wrote[o] = t.wrote[o]
  <2>1. PICK g : g = t.wrote
    OBVIOUS
  <2>2. /\ DOMAIN Overlay(f, g) = DOMAIN f \cup DOMAIN g
        /\ \A o \in DOMAIN f : Overlay(f, g)[o] = f[o]
        /\ \A o \in DOMAIN g \ DOMAIN f : Overlay(f, g)[o] = g[o]
    BY OverTells
  <2> QED
    BY <1>4, <1>6, <2>1, <2>2
<1>10. /\ DOMAIN Q = DOMAIN P \cup rows
       /\ \A o \in rows : Q[o] = f[o]
       /\ \A o \in DOMAIN P \ rows : Q[o] = P[o]
  <2>1. /\ DOMAIN Q = DOMAIN n.wrote \cup DOMAIN pl
        /\ \A o \in DOMAIN n.wrote : Q[o] = n.wrote[o]
        /\ \A o \in DOMAIN pl \ DOMAIN n.wrote : Q[o] = pl[o]
    BY <1>5, PlacesSeenTells
  <2>2. DOMAIN Q = DOMAIN P \cup rows
    BY <1>7, <1>9, <2>1
  <2>3. \A o \in rows : Q[o] = f[o]
    BY <1>9, <2>1
  <2>4. \A o \in DOMAIN P \ rows : Q[o] = P[o]
    BY <1>7, <1>9, <2>1
  <2> QED
    BY <2>2, <2>3, <2>4
<1>11. KnownSeen(n) = K /\ Claimed(n) = C \cup X /\ K = known \cup t.known /\ C = t.touched \cup t.known
  BY <1>4, <1>5 DEF KnownSeen, Claimed
<1>12. DOMAIN t.wrote \subseteq t.touched
  BY <1>1 DEF TotalsInv, PlacesInv, Own, Stages
<1>13. IsFiniteSet(DOMAIN P) /\ IsFiniteSet(DOMAIN pl) /\ IsFiniteSet(X) /\ IsFiniteSet(DOMAIN t.wrote)
  BY <1>1, <1>3, <1>5, SeenFinite DEF OwnTotals
<1>14. IsFiniteSet(rows) /\ IsFiniteSet(DOMAIN n.wrote) /\ IsFiniteSet(DOMAIN n.todo)
  <2>1. IsFiniteSet(rows)
    BY <1>6, <1>13, FS_Subset
  <2>2. IsFiniteSet(DOMAIN n.wrote)
    <3>1. PICK A : A = DOMAIN t.wrote
      OBVIOUS
    <3>2. IsFiniteSet(rows \cup A)
      BY <1>13, <2>1, <3>1, FS_Union
    <3> QED
      BY <1>9, <3>1, <3>2
  <2>3. DOMAIN n.todo = {}
    BY <1>4
  <2> QED
    BY <2>1, <2>2, <2>3, FS_EmptySet
<1>15. PICK R, U, V : R = rows \cap K /\ U = Count(R, Z, done) /\ V = Count(R \cap DOMAIN P, P, done)
  OBVIOUS
<1>16. n.delta = Add(Add(t.delta, U, 1), V, -1)
  BY <1>4, <1>5, <1>15 DEF Moved
<1>17. /\ t.delta \in Sums /\ U \in Sums /\ V \in Sums
       /\ \A h \in Height, c \in Columns :
             U[h][c] = Cardinality(Rows(R, Z, done, h, c)) /\ V[h][c] = Cardinality(Rows(R \cap DOMAIN P, P, done, h, c))
  <2>1. IsFiniteSet(R) /\ IsFiniteSet(R \cap DOMAIN P)
    BY <1>14, <1>15, FS_Subset
  <2> QED
    <3>1. PICK S : S = R \cap DOMAIN P
      OBVIOUS
    <3>2. IsFiniteSet(S) /\ V = Count(S, P, done)
      BY <1>15, <2>1, <3>1
    <3>3. U \in Sums /\ \A h \in Height, c \in Columns : U[h][c] = Cardinality(Rows(R, Z, done, h, c))
      BY <1>15, <2>1, CountTells
    <3>4. V \in Sums /\ \A h \in Height, c \in Columns : V[h][c] = Cardinality(Rows(S, P, done, h, c))
      BY <3>2, CountTells
    <3>5. t.delta \in Sums
      BY <1>3 DEF OwnTotals, Balanced
    <3> QED
      BY <3>1, <3>3, <3>4, <3>5
<1>18. n.delta \in Sums /\ \A h \in Height, c \in Columns : /\ n.delta[h][c] = t.delta[h][c] + U[h][c] - V[h][c]
                                                            /\ t.delta[h][c] \in Int /\ U[h][c] \in Int /\ V[h][c] \in Int
  <2>1. PICK B : B = Add(t.delta, U, 1)
    OBVIOUS
  <2>2. B \in Sums /\ \A h \in Height, c \in Columns : B[h][c] = t.delta[h][c] + U[h][c] /\ t.delta[h][c] \in Int /\ U[h][c] \in Int
    BY <1>17, <2>1, AddTells
  <2>3. Add(B, V, -1) \in Sums /\ \A h \in Height, c \in Columns : Add(B, V, -1)[h][c] = B[h][c] - V[h][c] /\ V[h][c] \in Int
    <3>1. B \in Sums /\ V \in Sums
      BY <1>17, <2>2
    <3>2. /\ Add(B, V, -1) \in Sums
          /\ \A h \in Height, c \in Columns : /\ Add(B, V, 1)[h][c] = B[h][c] + V[h][c]
                                              /\ Add(B, V, -1)[h][c] = B[h][c] - V[h][c]
                                              /\ B[h][c] \in Int /\ V[h][c] \in Int
      BY <3>1, AddTells
    <3> QED
      BY <3>2
  <2> QED
    BY <1>16, <2>1, <2>2, <2>3
<1>19. ASSUME NEW h \in Height, NEW c \in Columns
       PROVE  n.delta[h][c] = Cardinality(NowIn(n, h, c)) - Cardinality(WasIn(n, h, c))
  <2>1. PICK A0, A1, W0, W1, E, B, Uh, Vh :
           /\ A0 = NowIn(t, h, c) /\ A1 = NowIn(n, h, c) /\ W0 = WasIn(t, h, c) /\ W1 = WasIn(n, h, c)
           /\ E = Rows((X \ C) \cap known \cap DOMAIN pl, pl, done, h, c)
           /\ B = Rows((C \cup X) \cap K \cap DOMAIN P, P, done, h, c)
           /\ Uh = Rows(R, Z, done, h, c) /\ Vh = Rows(R \cap DOMAIN P, P, done, h, c)
    OBVIOUS
  <2>2. /\ A0 = Rows(C \cap K \cap DOMAIN P, P, done, h, c) /\ A1 = Rows((C \cup X) \cap K \cap DOMAIN Q, Q, done, h, c)
        /\ W0 = Rows(C \cap known \cap DOMAIN pl, pl, done, h, c) /\ W1 = Rows((C \cup X) \cap known \cap DOMAIN pl, pl, done, h, c)
    BY <1>1, <1>5, <1>11, <2>1 DEF NowIn, WasIn
  <2>3. \A o \in X \ C : (o \in K <=> o \in known) /\ (o \in DOMAIN P <=> o \in DOMAIN pl) /\ (o \in DOMAIN P => P[o] = pl[o])
    BY <1>7, <1>11, <1>12
  <2>4. W1 = W0 \cup E /\ W0 \cap E = {}
    BY <2>1, <2>2 DEF Rows
  <2>5. B = A0 \cup E /\ A0 \cap E = {}
    BY <2>1, <2>2, <2>3 DEF Rows
  <2>6. A1 \ rows = B \ rows
    BY <1>10, <2>1, <2>2 DEF Rows
  <2>7. A1 \cap rows = Uh
    BY <1>6, <1>8, <1>10, <1>15, <2>1, <2>2 DEF Rows
  <2>8. B \cap rows = Vh
    BY <1>6, <1>15, <2>1 DEF Rows
  <2>9. IsFiniteSet(A0) /\ IsFiniteSet(W0) /\ IsFiniteSet(E) /\ IsFiniteSet(A1) /\ IsFiniteSet(B)
    <3>1. A0 \subseteq DOMAIN P /\ W0 \subseteq DOMAIN pl /\ E \subseteq DOMAIN pl /\ A1 \subseteq DOMAIN P \cup rows /\ B \subseteq DOMAIN P
      BY <1>10, <2>1, <2>2 DEF Rows
    <3>2. IsFiniteSet(DOMAIN P \cup rows)
      BY <1>13, <1>14, FS_Union
    <3> QED
      BY <1>13, <3>1, <3>2, FS_Subset
  <2>10. Cardinality(W1) = Cardinality(W0) + Cardinality(E) /\ Cardinality(B) = Cardinality(A0) + Cardinality(E)
         /\ Cardinality(W0) \in Nat /\ Cardinality(A0) \in Nat /\ Cardinality(E) \in Nat
    BY <2>4, <2>5, <2>9, SizesAdd
  <2>11. Cardinality(A1) = Cardinality(B) - Cardinality(Vh) + Cardinality(Uh) /\ Cardinality(A1) \in Nat
         /\ Cardinality(Vh) \in Nat /\ Cardinality(Uh) \in Nat
    <3>1. /\ Cardinality(B) \in Nat /\ Cardinality(A1) \in Nat
          /\ Cardinality(B \cap rows) \in Nat /\ Cardinality(A1 \cap rows) \in Nat
          /\ Cardinality(A1) = Cardinality(B) - Cardinality(B \cap rows) + Cardinality(A1 \cap rows)
      <4>1. B \ rows = A1 \ rows
        BY <2>6
      <4>2. IsFiniteSet(B) /\ IsFiniteSet(A1)
        BY <2>9
      <4> QED
        BY ZenonT(60), <4>1, <4>2, SizesDiffer
    <3> QED
      BY <2>7, <2>8, <3>1
  <2>12. t.delta[h][c] = Cardinality(A0) - Cardinality(W0)
    BY <1>3, <2>1 DEF OwnTotals, Balanced
  <2>13. U[h][c] = Cardinality(Uh) /\ V[h][c] = Cardinality(Vh)
    BY <1>17, <2>1
  <2>14. n.delta[h][c] = t.delta[h][c] + U[h][c] - V[h][c]
    BY <1>18
  <2>15. n.delta[h][c] = Cardinality(A1) - Cardinality(W1)
    BY <2>10, <2>11, <2>12, <2>13, <2>14
  <2> QED
    BY <2>1, <2>15
<1>20. Balanced(n)
  BY <1>18, <1>19 DEF Balanced
<1>21. KnownSafe(n, j)
  <2>1. t.at # "none" /\ (next # "none" \/ t.at \in KnownBefore)
    BY <1>1, <1>3 DEF Upserting, KnownBefore
  <2>2. KnownSafe(t, j) /\ (Batching(n, j) => Batching(t, j)) /\ (Describing(n) <=> Describing(t))
    BY <1>3, <1>4, <2>1 DEF OwnTotals, Batching, Describing
  <2> QED
    BY <1>4, <2>2 DEF KnownSafe
<1>22. OwnTotals(n, j)
  <2>1. n.at \in KnownBefore => n.known = {}
    BY <1>1, <1>3, <1>4 DEF OwnTotals
  <2> QED
    BY <1>3, <1>4, <1>5, <1>11, <1>14, <1>20, <1>21, <2>1 DEF OwnTotals
<1>23. \A v \in Writer : v # w => Claimed(n) \cap Claimed(tx[v]) = {}
  <2>1. Needs(w) = Lacking({}, {}, X)
    BY <1>1, <1>3, <1>5 DEF Needs, Upserting
  <2>2. Needs(w).rows = X
    BY <2>1 DEF Lacking
  <2>3. ASSUME NEW v \in Writer, v # w PROVE X \cap Claimed(tx[v]) = {}
    BY <2>2, <2>3 DEF Upsert, Free, Blocks, Claimed
  <2>4. ASSUME NEW v \in Writer, v # w PROVE C \cap Claimed(tx[v]) = {}
    BY <1>1, <1>5, <2>4 DEF TotalsInv, ClaimsApart
  <2> QED
    BY <1>11, <2>3, <2>4
<1>24. job' = [job EXCEPT ![w] = j]
  BY <1>1, JobStays DEF TotalsInv
<1>25. To(w, n)
  BY <1>2
<1> QED
  BY <1>22, <1>23, <1>24, <1>25, OneCounts

-----------------------------------------------------------------------------
(* Each action keeps the balance.                                          *)

\* A transaction that did nothing yet.
Untouched(n) ==
    /\ DOMAIN n.wrote = {} /\ DOMAIN n.todo = {} /\ n.touched = {} /\ n.known = {} /\ n.located = {} /\ n.delta = Zero
LEMMA UntouchedCounts ==
    ASSUME NEW n, Untouched(n), NEW j PROVE (KnownSafe(n, j) => OwnTotals(n, j)) /\ (KnownSafe(n, j) => OwnTotals(n, j))' /\ Claimed(n) = {}
<1>1. Claimed(n) = {}
  BY DEF Untouched, Claimed
<1>2. \A h, c : NowIn(n, h, c) = {} /\ WasIn(n, h, c) = {} /\ NowIn(n, h, c)' = {} /\ WasIn(n, h, c)' = {}
  BY <1>1 DEF NowIn, WasIn, Rows
<1>3. Cardinality({}) = 0 /\ IsFiniteSet({})
  BY FS_EmptySet
<1>4. Balanced(n) /\ Balanced(n)'
  <2>1. n.delta \in Sums /\ \A h \in Height, c \in Columns : n.delta[h][c] = 0
    BY ZeroTells DEF Untouched
  <2>2. 0 - 0 = 0
    OBVIOUS
  <2>3. \A h \in Height, c \in Columns : n.delta[h][c] = Cardinality(NowIn(n, h, c)) - Cardinality(WasIn(n, h, c))
    BY <1>2, <1>3, <2>1, <2>2
  <2>4. (\A h \in Height, c \in Columns : n.delta[h][c] = Cardinality(NowIn(n, h, c)) - Cardinality(WasIn(n, h, c)))'
    BY <1>2, <1>3, <2>1, <2>2
  <2> QED
    BY <2>1, <2>3, <2>4 DEF Balanced
<1> QED
  BY <1>1, <1>3, <1>4 DEF OwnTotals, Untouched

LEMMA BeginCounts ==
    ASSUME TotalsInv, PlacesInv', TablesSame, totals' = totals, NEW w \in Writer, NEW n, To(w, n),
           NEW j, job' = [job EXCEPT ![w] = j], Untouched(n), KnownSafe(n, j)
    PROVE  TotalsInv'
<1>1. OwnTotals(n, j) /\ Claimed(n) = {}
  BY UntouchedCounts
<1>2. \A v \in Writer : v # w => Claimed(n) \cap Claimed(tx[v]) = {}
  BY <1>1
<1> QED
  BY <1>1, <1>2, OneCounts

LEMMA FreshIs == Untouched(Fresh) /\ \A j : KnownSafe(Fresh, j) /\ KnownSafe(Fresh, j)'
<1>1. PICK n : n = Fresh
  OBVIOUS
<1>2. /\ n.at = "none" /\ n.height = 0 /\ DOMAIN n.wrote = {} /\ n.touched = {} /\ DOMAIN n.todo = {}
      /\ n.located = {} /\ n.known = {} /\ n.delta = Zero /\ n.ids = {}
  BY <1>1 DEF Fresh
<1>3. Untouched(n)
  BY <1>2 DEF Untouched
<1>4. \A j : KnownSafe(n, j) /\ KnownSafe(n, j)'
  BY <1>2 DEF KnownSafe, Describing, Batching
<1> QED
  BY <1>1, <1>3, <1>4

LEMMA EndJobCounts == ASSUME TotalsInv, PlacesInv', NEW w \in Writer, EndJob(w) PROVE TotalsInv'
<1>1. To(w, Fresh) /\ job' = [job EXCEPT ![w] = NoJob] /\ TablesSame /\ totals' = totals
  BY DEF EndJob, chain, tables, TablesSame
<1> QED
  BY <1>1, FreshIs, BeginCounts

LEMMA AbortCounts == ASSUME TotalsInv, PlacesInv', NEW w \in Writer, Abort(w) PROVE TotalsInv'
<1>1. To(w, Fresh) /\ job' = [job EXCEPT ![w] = NoJob] /\ TablesSame /\ totals' = totals
  BY DEF Abort, chain, tables, TablesSame
<1> QED
  BY <1>1, FreshIs, BeginCounts

LEMMA StartJobCounts ==
    ASSUME TotalsInv, PlacesInv', NEW w \in Writer, NEW r, StartJob(w, r) PROVE TotalsInv'
<1>1. TablesSame /\ totals' = totals /\ tx' = tx /\ tx[w].at = "none"
  BY DEF StartJob, chain, tables, TablesSame, At
<1>2. PICK j : job' = [job EXCEPT ![w] = j]
  BY DEF StartJob
<1>3. tx[w] = Fresh
  BY <1>1 DEF TotalsInv, PlacesInv, Own, Stages
<1>4. To(w, Fresh)
  BY <1>1, <1>3 DEF To, TotalsInv, PlacesInv, StoreShape
<1> QED
  BY <1>1, <1>2, <1>4, FreshIs, BeginCounts

LEMMA BeginMetadataCounts ==
    ASSUME StoreAssumption, TotalsInv, PlacesInv', NEW w \in Writer, NEW h \in Height, NEW o, BeginMetadata(w, h, o)
    PROVE  TotalsInv'
<1>1. TablesSame /\ totals' = totals /\ job' = job /\ job[w] = NoJob /\ (o = Nobody \/ o \in RootsIn(h))
  BY DEF BeginMetadata, chain, tables, TablesSame, At
<1>2. PICK n, f, g : /\ n = [Fresh EXCEPT !.at = "lock", !.height = h, !.object = o, !.first = f, !.guard = g]
                     /\ To(w, n)
  BY DEF BeginMetadata
<1>3. n = [at |-> "lock", height |-> h, object |-> o, first |-> f, guard |-> g, roots |-> {}, ids |-> {},
           wrote |-> << >>, touched |-> {}, todo |-> << >>, known |-> {}, located |-> {}, delta |-> Zero]
  <2>1. n = [Fresh EXCEPT !.at = "lock", !.height = h, !.object = o, !.first = f, !.guard = g]
    BY <1>2
  <2> QED
    BY <2>1 DEF Fresh
<1>4. Untouched(n) /\ n.height = h /\ n.object = o /\ n.known = {}
  BY <1>3 DEF Untouched
<1>5. h # 0
  BY BlocksTyped DEF TotalsInv, PlacesInv, StoreShape
<1>6. KnownSafe(n, NoJob)
  BY <1>1, <1>4, <1>5 DEF KnownSafe, Describing, Batching
<1>7. job' = [job EXCEPT ![w] = NoJob] /\ To(w, n)
  BY <1>1, <1>2, JobStays DEF TotalsInv
<1> QED
  BY <1>1, <1>4, <1>6, <1>7, BeginCounts

LEMMA BeginObjectCounts ==
    ASSUME StoreAssumption, TotalsInv, PlacesInv', NEW w \in Writer, NEW r, BeginObject(w, r)
    PROVE  TotalsInv'
<1>1. TablesSame /\ totals' = totals /\ job' = job /\ job[w] = NoJob
  BY DEF BeginObject, chain, tables, TablesSame, At
<1>2. PICK n, g : g = Unstable(r) /\ n = [Fresh EXCEPT !.at = "object", !.guard = g, !.ids = {r}] /\ To(w, n)
  BY DEF BeginObject
<1>3. n = [at |-> "object", height |-> 0, object |-> Nobody, first |-> FALSE, guard |-> g, roots |-> {}, ids |-> {r},
           wrote |-> << >>, touched |-> {}, todo |-> << >>, known |-> {}, located |-> {}, delta |-> Zero]
  <2>1. n = [Fresh EXCEPT !.at = "object", !.guard = g, !.ids = {r}]
    BY <1>2
  <2> QED
    BY <2>1 DEF Fresh
<1>4. Untouched(n) /\ n.height = 0 /\ n.ids = {r} /\ n.known = {} /\ n.guard = g
  BY <1>3 DEF Untouched
<1>5. g \/ (r \in DOMAIN placement /\ placement[r].height <= stable)
  <2>1. ~g => r \in DOMAIN placement /\ ~(placement[r].height > stable)
    BY <1>2 DEF Unstable, Guard
  <2>2. r \in DOMAIN placement => placement[r].height \in Nat
    BY PlacementTyped DEF TotalsInv, Place
  <2>3. stable \in Nat
    BY BlocksTyped DEF TotalsInv, PlacesInv, StoreShape
  <2> QED
    BY <2>1, <2>2, <2>3
<1>6. KnownSafe(n, NoJob)
  BY <1>4, <1>5 DEF KnownSafe, Describing, Batching
<1>7. job' = [job EXCEPT ![w] = NoJob] /\ To(w, n)
  BY <1>1, <1>2, JobStays DEF TotalsInv
<1> QED
  BY <1>1, <1>4, <1>6, <1>7, BeginCounts

LEMMA BeginBatchCounts ==
    ASSUME TotalsInv, PlacesInv', NEW w \in Writer, BeginBatch(w) PROVE TotalsInv'
<1>1. CASE EndJob(w)
  BY <1>1, EndJobCounts
<1>2. CASE ~EndJob(w)
  <2>1. TablesSame /\ totals' = totals /\ job' = job /\ job[w] # NoJob
    BY <1>2 DEF BeginBatch, chain, tables, TablesSame, At
  <2>2. PICK j, g, n : j = job[w] /\ n = [Fresh EXCEPT !.at = "root", !.guard = g] /\ To(w, n)
    BY <1>2 DEF BeginBatch
  <2>3. n = [at |-> "root", height |-> 0, object |-> Nobody, first |-> FALSE, guard |-> g, roots |-> {}, ids |-> {},
             wrote |-> << >>, touched |-> {}, todo |-> << >>, known |-> {}, located |-> {}, delta |-> Zero]
    <3>1. n = [Fresh EXCEPT !.at = "root", !.guard = g]
      BY <2>2
    <3> QED
      BY <3>1 DEF Fresh
  <2>4. Untouched(n) /\ n.height = 0 /\ n.known = {}
    BY <2>3 DEF Untouched
  <2>5. KnownSafe(n, j)
    BY <2>1, <2>2, <2>4 DEF KnownSafe, Describing, Batching
  <2>6. job' = [job EXCEPT ![w] = j] /\ To(w, n)
    BY <2>1, <2>2, JobStays DEF TotalsInv
  <2> QED
    BY <2>1, <2>4, <2>5, <2>6, BeginCounts
<1> QED
  BY <1>1, <1>2

LEMMA SafeSame ==
    ASSUME NEW t, NEW n, NEW j, KnownSafe(t, j), t.at # "none", n.height = t.height, n.object = t.object,
           n.known = t.known, Describing(t) \/ j # NoJob
    PROVE  KnownSafe(n, j)
BY DEF KnownSafe, Describing, Batching

LEMMA LockMembersCounts == ASSUME StoreAssumption, TotalsInv, PlacesInv', NEW w \in Writer, LockMembers(w) PROVE TotalsInv'
<1>1. TablesSame /\ totals' = totals /\ job' = job /\ tx[w].at = "lock"
  BY DEF LockMembers, chain, tables, TablesSame, At
<1>2. PICK t, n : /\ t = tx[w] /\ n = [t EXCEPT !.at = "members", !.roots = ToLock(t), !.ids = ToLock(t) \ known]
                  /\ To(w, n)
  BY DEF LockMembers
<1>3. TxRow(t) /\ Describing(t) /\ t.at = "lock" /\ OwnTotals(t, job[w])
  BY <1>1, <1>2, DescribesAt DEF TotalsInv
<1>4. Same(n, t) /\ n.todo = t.todo /\ n.known = t.known /\ n.delta = t.delta /\ n.object = t.object /\ n.height = t.height
  BY <1>2, <1>3 DEF Same, TxRow
<1>5. KnownSafe(n, job[w])
  BY <1>3, <1>4, SafeSame DEF OwnTotals
<1>6. IsFiniteSet(DOMAIN n.todo) /\ t.at \in KnownBefore /\ To(w, n)
  BY <1>2, <1>3, <1>4 DEF OwnTotals, KnownBefore
<1> QED
  BY <1>1, <1>2, <1>4, <1>5, <1>6, StageCounts

LEMMA PlaceMembersCounts ==
    ASSUME StoreAssumption, TotalsInv, PlacesInv', NEW w \in Writer, PlaceMembers(w) PROVE TotalsInv'
<1>1. TablesSame /\ totals' = totals /\ job' = job /\ tx[w].at = "members"
  BY DEF PlaceMembers, chain, tables, TablesSame, At
<1>2. PICK t, h, f, n : /\ t = tx[w] /\ h = t.height /\ f = [r \in RootsIn(h) |-> Least(Members(r, {h}))]
                        /\ n = [t EXCEPT !.todo = f, !.at = "upsert members"] /\ To(w, n)
  BY DEF PlaceMembers, Compute
<1>3. TxRow(t) /\ Describing(t) /\ t.at = "members" /\ OwnTotals(t, job[w]) /\ h \in Height
  BY <1>1, <1>2, DescribesAt DEF TotalsInv
<1>4. Same(n, t) /\ n.todo = f /\ n.known = t.known /\ n.delta = t.delta /\ n.object = t.object /\ n.height = t.height
  BY <1>2, <1>3 DEF Same, TxRow
<1>5. KnownSafe(n, job[w])
  BY <1>3, <1>4, SafeSame DEF OwnTotals
<1>6. IsFiniteSet(DOMAIN n.todo)
  BY <1>2, <1>3, <1>4, RootsInTells DEF TotalsInv, PlacesInv, StoreShape
<1>7. t.at \in KnownBefore /\ To(w, n)
  BY <1>2, <1>3 DEF KnownBefore
<1> QED
  BY <1>1, <1>2, <1>4, <1>5, <1>6, <1>7, StageCounts

\* The ids of finitely many locations.
LEMMA IdsFinite == ASSUME NEW L, IsFiniteSet(L) PROVE IsFiniteSet({l.id : l \in L})
<1> DEFINE g == [l \in L |-> l.id]
           T == {l.id : l \in L}
<1>1. g \in [L -> T]
  OBVIOUS
<1>2. g \in Surjection(L, T)
  BY <1>1 DEF Surjection
<1> QED
  BY <1>2, FS_Surjection

LEMMA PlaceItemsCounts ==
    ASSUME StoreAssumption, TotalsInv, PlacesInv', NEW w \in Writer, PlaceItems(w) PROVE TotalsInv'
<1>1. TablesSame /\ totals' = totals /\ job' = job /\ tx[w].at = "items"
  BY DEF PlaceItems, chain, tables, TablesSame, At
<1>2. PICK t, h, f, n : /\ t = tx[w] /\ h = t.height
                        /\ f = [o \in Refreshed(h) |-> Least(Places(o, Described({h}), located))]
                        /\ n = [t EXCEPT !.todo = f, !.at = "upsert items"] /\ To(w, n)
  BY DEF PlaceItems, Compute
<1>3. TxRow(t) /\ Describing(t) /\ t.at = "items" /\ OwnTotals(t, job[w])
  BY <1>1, <1>2, DescribesAt DEF TotalsInv
<1>4. Same(n, t) /\ n.todo = f /\ n.known = t.known /\ n.delta = t.delta /\ n.object = t.object /\ n.height = t.height
  BY <1>2, <1>3 DEF Same, TxRow
<1>5. KnownSafe(n, job[w])
  BY <1>3, <1>4, SafeSame DEF OwnTotals
<1>6. IsFiniteSet(DOMAIN n.todo)
  <2>1. PICK L : L = {x \in located : x.root \in RootsIn(h)}
    OBVIOUS
  <2>2. IsFiniteSet(L)
    BY <2>1, FS_Subset DEF TotalsInv, PlacesInv, StoreShape
  <2>3. IsFiniteSet({l.id : l \in L})
    BY <2>2, IdsFinite
  <2> QED
    BY <1>2, <1>4, <2>1, <2>3 DEF Refreshed
<1>7. t.at \in KnownBefore /\ To(w, n)
  BY <1>2, <1>3 DEF KnownBefore
<1> QED
  BY <1>1, <1>2, <1>4, <1>5, <1>6, <1>7, StageCounts

LEMMA LockRootCounts == ASSUME StoreAssumption, TotalsInv, PlacesInv', NEW w \in Writer, LockRoot(w) PROVE TotalsInv'
<1>1. CASE EndJob(w)
  BY <1>1, EndJobCounts
<1>2. CASE ~EndJob(w)
  <2>1. TablesSame /\ totals' = totals /\ job' = job /\ tx[w].at = "root"
    BY <1>2 DEF LockRoot, chain, tables, TablesSame, At
  <2>2. PICK t, R, n : t = tx[w] /\ n = [t EXCEPT !.at = "batch", !.roots = R] /\ To(w, n)
    BY <1>2 DEF LockRoot
  <2>3. TxRow(t) /\ t.at = "root" /\ OwnTotals(t, job[w]) /\ job[w] # NoJob
    BY <2>1, <2>2, BatchesAt DEF TotalsInv
  <2>4. Same(n, t) /\ n.todo = t.todo /\ n.known = t.known /\ n.delta = t.delta /\ n.object = t.object /\ n.height = t.height
    BY <2>2, <2>3 DEF Same, TxRow
  <2>5. KnownSafe(n, job[w])
    BY <2>3, <2>4, SafeSame DEF OwnTotals
  <2>6. IsFiniteSet(DOMAIN n.todo) /\ t.at \in KnownBefore /\ To(w, n)
    BY <2>2, <2>3, <2>4 DEF OwnTotals, KnownBefore
  <2> QED
    BY <2>1, <2>2, <2>4, <2>5, <2>6, StageCounts
<1> QED
  BY <1>1, <1>2

LEMMA PlaceBatchCounts == ASSUME StoreAssumption, TotalsInv, PlacesInv', NEW w \in Writer, PlaceBatch(w) PROVE TotalsInv'
<1>1. TablesSame /\ totals' = totals /\ job' = job /\ tx[w].at = "place"
  BY DEF PlaceBatch, chain, tables, TablesSame, At
<1>2. PICK t, j, T, f, n : /\ t = tx[w] /\ j = job[w] /\ T = {o \in Ids(BatchOf(j)) : Candidates(o, t) # {}}
                           /\ f = [o \in T |-> Least(Candidates(o, t))]
                           /\ n = [t EXCEPT !.todo = f, !.at = "upsert batch"] /\ To(w, n)
  BY DEF PlaceBatch, Compute, Batch, BatchOf
<1>3. TxRow(t) /\ t.at = "place" /\ OwnTotals(t, j) /\ j # NoJob /\ j.root \in Root /\ j.walk \in Walk
  BY <1>1, <1>2, BatchesAt DEF TotalsInv
<1>4. Same(n, t) /\ n.at = "upsert batch" /\ n.todo = f /\ n.known = t.known /\ n.delta = t.delta /\ n.object = t.object
      /\ n.height = t.height
  BY <1>2, <1>3 DEF Same, TxRow
<1>5. KnownSafe(n, j)
  BY <1>3, <1>4, SafeSame DEF OwnTotals
<1>6. IsFiniteSet(DOMAIN n.todo)
  <2>1. PICK B : B = BatchOf(j)
    OBVIOUS
  <2>2. IsFiniteSet(B)
    BY <1>3, <2>1, BatchTyped
  <2>3. IsFiniteSet(Ids(B))
    BY <2>2, IdsFinite DEF Ids
  <2> QED
    BY <1>2, <1>4, <2>1, <2>3, FS_Subset
<1>7. n.at \notin KnownBefore /\ To(w, n)
  BY <1>2, <1>4 DEF KnownBefore
<1> QED
  BY <1>1, <1>2, <1>4, <1>5, <1>6, <1>7, StageCounts

LEMMA UpsertsCount ==
    ASSUME TotalsInv, PlacesInv', NEW w \in Writer, UpsertMembers(w) \/ UpsertItems(w) \/ UpsertBatch(w) PROVE TotalsInv'
<1>1. TablesSame /\ totals' = totals /\ job' = job
  BY DEF UpsertMembers, UpsertItems, UpsertBatch, chain, tables, TablesSame
<1>2. CASE UpsertMembers(w)
  <2>1. tx[w].at = "upsert members" /\ Upsert(w, "items")
    BY <1>2 DEF UpsertMembers, At
  <2>2. tx[w].at \in Upserting /\ tx[w].at \in KnownBefore
    BY <2>1 DEF Upserting, KnownBefore
  <2> QED
    BY <1>1, <2>1, <2>2, UpsertCounts
<1>3. CASE UpsertItems(w)
  <2>1. tx[w].at = "upsert items" /\ Upsert(w, "described")
    BY <1>3 DEF UpsertItems, At
  <2>2. tx[w].at \in Upserting /\ tx[w].at \in KnownBefore
    BY <2>1 DEF Upserting, KnownBefore
  <2> QED
    BY <1>1, <2>1, <2>2, UpsertCounts
<1>4. CASE UpsertBatch(w)
  <2>1. tx[w].at = "upsert batch" /\ Upsert(w, "commit")
    BY <1>4 DEF UpsertBatch, At
  <2>2. tx[w].at \in Upserting /\ "commit" \notin KnownBefore
    BY <2>1 DEF Upserting, KnownBefore
  <2> QED
    BY <1>1, <2>1, <2>2, UpsertCounts
<1> QED
  BY <1>2, <1>3, <1>4

\* Rows of other transactions are not taken by a statement that is free.
LEMMA NewApart ==
    ASSUME NEW w \in Writer, Free(w), NEW new, new \subseteq Needs(w).rows, NEW v \in Writer, v # w
    PROVE  new \cap Claimed(tx[v]) = {}
BY DEF Free, Blocks, Claimed

LEMMA WriteRootCounts == ASSUME StoreAssumption, TotalsInv, PlacesInv', NEW w \in Writer, WriteRoot(w) PROVE TotalsInv'
<1>1. TablesSame /\ totals' = totals /\ job' = job /\ tx[w].at = "described" /\ Free(w) /\ tx[w].object # Nobody
  BY DEF WriteRoot, chain, tables, TablesSame, At
<1>2. PICK t, new, K, I, D, n :
         /\ t = tx[w] /\ new = {t.object} \ known /\ D = Add(t.delta, Count(new \cap DOMAIN PlacesSeen(t), PlacesSeen(t), done), 1)
         /\ K = t.known \cup new
         /\ n = [t EXCEPT !.known = K, !.delta = D, !.ids = I, !.at = "commit"] /\ To(w, n)
  <2>1. PICK t, new, K, D : /\ t = tx[w] /\ new = {t.object} \ known /\ K = t.known \cup new
                         /\ D = Add(t.delta, Count(new \cap DOMAIN PlacesSeen(t), PlacesSeen(t), done), 1)
    OBVIOUS
  <2>2. WithMetadata(t, new) = [t EXCEPT !.known = K, !.delta = D]
    BY <2>1 DEF WithMetadata
  <2>3. PICK m, I : m = [t EXCEPT !.known = K, !.delta = D] /\ I = m.ids \cup new
    OBVIOUS
  <2>4. To(w, [m EXCEPT !.ids = I, !.at = "commit"])
    BY <2>1, <2>2, <2>3 DEF WriteRoot
  <2>5. [m EXCEPT !.ids = I, !.at = "commit"] = [t EXCEPT !.known = K, !.delta = D, !.ids = I, !.at = "commit"]
    BY <2>3
  <2>6. PICK n : n = [m EXCEPT !.ids = I, !.at = "commit"]
    OBVIOUS
  <2>7. n = [t EXCEPT !.known = K, !.delta = D, !.ids = I, !.at = "commit"] /\ To(w, n)
    BY <2>4, <2>5, <2>6
  <2> QED
    BY <2>1, <2>7
<1>3. TxRow(t) /\ Describing(t) /\ t.at = "described" /\ t.located = {} /\ OwnTotals(t, job[w])
  BY <1>1, <1>2, DescribesAt DEF TotalsInv
<1>4. /\ n.wrote = t.wrote /\ n.touched = t.touched /\ n.todo = t.todo /\ n.known = t.known \cup new /\ n.delta = D
      /\ n.located = {} /\ n.at = "commit" /\ n.height = t.height /\ n.object = t.object
  BY <1>2, <1>3 DEF TxRow
<1>5. IsFiniteSet(DOMAIN n.todo) /\ t.at \in KnownBefore /\ n.at \notin KnownBefore /\ To(w, n) /\ new \cap known = {}
      /\ t.known = {}
  BY <1>2, <1>3, <1>4 DEF OwnTotals, KnownBefore
<1>6. KnownSafe(n, job[w])
  <2>1. t.object \in RootsIn(t.height)
    BY <1>1, <1>2, <1>3 DEF OwnTotals, KnownSafe
  <2> QED
    BY <1>2, <1>3, <1>4, <1>5, <2>1 DEF KnownSafe, Describing, Batching
<1>7. \A v \in Writer : v # w => new \cap Claimed(tx[v]) = {}
  <2>1. Needs(w) = Lacking({}, new, new)
    BY <1>1, <1>2 DEF Needs
  <2>2. Needs(w).rows = new
    BY <2>1 DEF Lacking
  <2> QED
    BY <1>1, <2>2, NewApart
<1>8. n.delta = Add(tx[w].delta, Count(new \cap DOMAIN PlacesSeen(tx[w]), PlacesSeen(tx[w]), done), 1)
  BY <1>2, <1>4
<1>9. /\ n.wrote = tx[w].wrote /\ n.touched = tx[w].touched /\ n.todo = tx[w].todo /\ n.known = tx[w].known \cup new
      /\ IsFiniteSet(DOMAIN n.todo) /\ tx[w].at \in KnownBefore /\ n.at \notin KnownBefore /\ new \cap known = {}
      /\ To(w, n) /\ \A l \in n.located : l.id \in KnownSeen(n)
  BY <1>2, <1>4, <1>5
<1> QED
  BY <1>1, <1>6, <1>7, <1>8, <1>9, MetadataCounts

LEMMA WriteObjectCounts == ASSUME StoreAssumption, TotalsInv, PlacesInv', NEW w \in Writer, WriteObject(w) PROVE TotalsInv'
<1>1. TablesSame /\ totals' = totals /\ job' = job /\ tx[w].at = "object" /\ Free(w)
  BY DEF WriteObject, chain, tables, TablesSame, At
<1>2. PICK t, new, D, n :
         /\ t = tx[w] /\ new = t.ids \ known /\ D = Add(t.delta, Count(new \cap DOMAIN PlacesSeen(t), PlacesSeen(t), done), 1)
         /\ n = [t EXCEPT !.known = @ \cup new, !.delta = D, !.at = "commit"] /\ To(w, n)
  BY DEF WriteObject, WithMetadata
<1>3. TxRow(t) /\ t.at = "object" /\ OwnTotals(t, job[w]) /\ Stages(t, job[w])
  BY <1>1, <1>2 DEF TotalsInv, PlacesInv, Own, TxTyped
<1>4. job[w] = NoJob /\ ~Describing(t) /\ t.located = {}
  BY <1>3 DEF Stages, MetaAt, BatchAt
<1>5. /\ n.wrote = t.wrote /\ n.touched = t.touched /\ n.todo = t.todo /\ n.known = t.known \cup new /\ n.delta = D
      /\ n.located = {} /\ n.at = "commit" /\ n.height = t.height /\ n.object = t.object /\ n.ids = t.ids /\ n.guard = t.guard
  BY <1>2, <1>3, <1>4 DEF TxRow
<1>6. IsFiniteSet(DOMAIN n.todo) /\ t.at \in KnownBefore /\ n.at \notin KnownBefore /\ To(w, n) /\ new \cap known = {}
      /\ t.known = {}
  BY <1>2, <1>3, <1>5 DEF OwnTotals, KnownBefore
<1>7. KnownSafe(n, job[w])
  <2>1. KnownSafe(t, NoJob)
    BY <1>3, <1>4 DEF OwnTotals
  <2> QED
    BY <1>2, <1>4, <1>5, <1>6, <2>1 DEF KnownSafe, Describing, Batching
<1>8. \A v \in Writer : v # w => new \cap Claimed(tx[v]) = {}
  <2>1. Needs(w) = Lacking({}, {}, t.ids)
    BY <1>1, <1>2 DEF Needs
  <2>2. Needs(w).rows = t.ids
    BY <2>1 DEF Lacking
  <2> QED
    BY <1>1, <1>2, <2>2, NewApart
<1>9. n.delta = Add(tx[w].delta, Count(new \cap DOMAIN PlacesSeen(tx[w]), PlacesSeen(tx[w]), done), 1)
  BY <1>2, <1>5
<1>10. /\ n.wrote = tx[w].wrote /\ n.touched = tx[w].touched /\ n.todo = tx[w].todo /\ n.known = tx[w].known \cup new
       /\ IsFiniteSet(DOMAIN n.todo) /\ tx[w].at \in KnownBefore /\ n.at \notin KnownBefore /\ new \cap known = {}
       /\ To(w, n) /\ \A l \in n.located : l.id \in KnownSeen(n)
  BY <1>2, <1>5, <1>6
<1> QED
  BY <1>1, <1>7, <1>8, <1>9, <1>10, MetadataCounts

LEMMA WriteBatchCounts == ASSUME StoreAssumption, TotalsInv, PlacesInv', NEW w \in Writer, WriteBatch(w) PROVE TotalsInv'
<1>1. CASE EndJob(w)
  BY <1>1, EndJobCounts
<1>2. CASE ~EndJob(w)
  <2>1. TablesSame /\ totals' = totals /\ job' = job /\ tx[w].at = "batch" /\ Free(w)
    BY <1>2 DEF WriteBatch, chain, tables, TablesSame, At
  <2>2. PICK t, j, B, new, D, L, n :
           /\ t = tx[w] /\ j = job[w] /\ B = BatchOf(j) /\ new = Ids(B) \ known /\ L = B \ located
           /\ D = Add(t.delta, Count(new \cap DOMAIN PlacesSeen(t), PlacesSeen(t), done), 1)
           /\ n = [t EXCEPT !.known = @ \cup new, !.delta = D, !.ids = new, !.at = "place", !.located = L] /\ To(w, n)
    BY <1>2 DEF WriteBatch, Batch, BatchOf, WithMetadata
  <2>3. /\ TxRow(t) /\ t.at = "batch" /\ OwnTotals(t, j) /\ ~Describing(t) /\ Batching(t, j) /\ t.height = 0
        /\ j # NoJob /\ j.root \in Root /\ j.walk \in Walk
    BY <2>1, <2>2, BatchesAt DEF TotalsInv
  <2>4. /\ n.wrote = t.wrote /\ n.touched = t.touched /\ n.todo = t.todo /\ n.known = t.known \cup new /\ n.delta = D
        /\ n.located = L /\ n.at = "place" /\ n.height = 0
    BY <2>2, <2>3 DEF TxRow
  <2>5. IsFiniteSet(DOMAIN n.todo) /\ t.at \in KnownBefore /\ n.at \notin KnownBefore /\ To(w, n) /\ new \cap known = {}
        /\ t.known = {}
    BY <2>2, <2>3, <2>4 DEF OwnTotals, KnownBefore
  <2>6. \A l \in B : l.id \notin Root
    BY <2>2, <2>3, BatchTyped
  <2>7. KnownSafe(n, j)
    <3>1. new \cap Root = {}
      BY <2>2, <2>6 DEF Ids
    <3> QED
      BY <2>3, <2>4, <2>5, <3>1 DEF KnownSafe, Describing, Batching
  <2>8. \A v \in Writer : v # w => new \cap Claimed(tx[v]) = {}
    <3>1. Batch(w) = B
      BY <2>2 DEF Batch, BatchOf
    <3>2. Needs(w) = Lacking({}, new, new)
      BY <2>1, <2>2, <3>1 DEF Needs
    <3>3. Needs(w).rows = new
      BY <3>2 DEF Lacking
    <3> QED
      BY <2>1, <3>3, NewApart
  <2>9. n.delta = Add(tx[w].delta, Count(new \cap DOMAIN PlacesSeen(tx[w]), PlacesSeen(tx[w]), done), 1)
    BY <2>2, <2>4
  <2>10. \A l \in n.located : l.id \in KnownSeen(n)
    BY <2>2, <2>4 DEF Ids, KnownSeen
  <2>11. /\ n.wrote = tx[w].wrote /\ n.touched = tx[w].touched /\ n.todo = tx[w].todo /\ n.known = tx[w].known \cup new
         /\ IsFiniteSet(DOMAIN n.todo) /\ tx[w].at \in KnownBefore /\ n.at \notin KnownBefore /\ new \cap known = {}
         /\ To(w, n) /\ KnownSafe(n, job[w])
    BY <2>2, <2>4, <2>5, <2>7
  <2> QED
    BY <2>1, <2>8, <2>9, <2>10, <2>11, MetadataCounts
<1> QED
  BY <1>1, <1>2

-----------------------------------------------------------------------------
(* A commit, and what it completes.                                        *)

\* The place of a root never changes while it has one.
LEMMA RootsStay ==
    ASSUME StoreAssumption, RootsOnce, PlacesInv, NEW v \in Writer, NEW o \in Root, o \in DOMAIN placement
    PROVE  o \notin DOMAIN tx[v].wrote
<1> SUFFICES ASSUME o \in DOMAIN tx[v].wrote PROVE FALSE
  OBVIOUS
<1>1. PICK t, j, x, y : t = tx[v] /\ j = job[v] /\ x = t.wrote[o] /\ y = placement[o]
  OBVIOUS
<1>2. SoundIn(t, j, t.wrote) /\ Improving(t)
  BY <1>1 DEF PlacesInv, Own
<1>3. PICK D, H : D = Sees(t) /\ H = Described({})
  OBVIOUS
<1>4. x \in Members(o, D)
  <2>1. x \in Places(o, D, located \cup t.located)
    BY <1>1, <1>2, <1>3 DEF SoundIn
  <2> QED
    BY <2>1 DEF Places
<1>5. y \in Members(o, H) /\ Before(x, y)
  <2>1. y \in Places(o, H, located) /\ Before(x, y)
    BY <1>1, <1>2, <1>3 DEF PlacesInv, SoundPlaces, Improving
  <2> QED
    BY <2>1 DEF Places
<1>6. D \subseteq Height /\ H \subseteq Height /\ fork \in DOMAIN Forks
  BY <1>3, DescribedTells DEF Sees, PlacesInv, StoreShape
<1>7. x = y
  BY <1>4, <1>5, <1>6, MembersOnce
<1>8. y \in Place
  BY <1>1, PlacementTyped
<1> QED
  BY <1>5, <1>7, <1>8, BeforeOrders

\* More roots are completed: what is counted of them changes, and nothing else.
CountsApart(S, p, d, more, h, c) ==
    /\ Rows(S, p, d \cup more, h, c) \ more = Rows(S, p, d, h, c) \ more
    /\ Rows(S, p, d \cup more, h, c) \cap more = Rows(S \cap more, p, more, h, c)
    /\ Rows(S, p, d, h, c) \cap more = Rows(S \cap more, p, {}, h, c)
LEMMA DoneCounts ==
    ASSUME NEW d, NEW more, more \cap d = {}, NEW S, NEW p, NEW h, NEW c \in Columns
    PROVE  CountsApart(S, p, d, more, h, c)
<1>1. PICK A, B, E, F : A = Counted(d)[c] /\ B = Counted(d \cup more)[c] /\ E = Counted(more)[c] /\ F = Counted({})[c]
  OBVIOUS
<1>2. A \ more = B \ more /\ B \cap more = E \cap more /\ A \cap more = F \cap more
  <2>1. c \in {"roots", "nested"} => A = B /\ B = E /\ A = F
    BY <1>1 DEF Counted
  <2>2. c = "completed" => A = Root \cap d /\ B = Root \cap (d \cup more) /\ E = Root \cap more /\ F = {}
    BY <1>1 DEF Counted
  <2> QED
    BY <2>1, <2>2 DEF Columns
<1> QED
  BY <1>1, <1>2 DEF Rows, CountsApart

\* Rows count the same where places agree.
LEMMA RowsAgree ==
    ASSUME NEW S, NEW p, NEW q, \A o \in S : p[o] = q[o], NEW d, NEW h, NEW c
    PROVE  Rows(S, p, d, h, c) = Rows(S, q, d, h, c)
BY DEF Rows

\* What a transaction completes is known, stored and in no transaction's rows.
LEMMA NewlyDoneTells ==
    ASSUME StoreAssumption, RootsOnce, PlacesInv, NEW w \in Writer
    PROVE  /\ NewlyDone(w) \cap done = {} /\ NewlyDone(w) \subseteq known /\ NewlyDone(w) \subseteq DOMAIN placement
           /\ \A v \in Writer : NewlyDone(w) \cap DOMAIN tx[v].wrote = {}
           /\ IsFiniteSet(NewlyDone(w))
<1>1. PICK t, j : t = tx[w] /\ j = job[w]
  OBVIOUS
<1>2. Stages(t, j) /\ Holding(t, j) /\ TxTyped(t, j)
  BY <1>1 DEF PlacesInv, Own
<1>3. CASE Finishing(w)
  <2>1. j # NoJob /\ t.at # "none"
    BY <1>1, <1>3 DEF Finishing, InBatch
  <2>2. Batching(t, j)
    BY <1>2, <2>1 DEF Stages, Batching, Describing
  <2>3. j.root \in Root /\ j.root \in known /\ j.root \in DOMAIN placement
    BY <1>2, <2>1, <2>2 DEF Holding, TxTyped, Looked
  <2>4. PICK r : r = j.root
    OBVIOUS
  <2>5. NewlyDone(w) = {r} \ done
    BY <1>1, <1>3, <2>4 DEF NewlyDone
  <2>6. \A v \in Writer : r \notin DOMAIN tx[v].wrote
    BY <2>3, <2>4, RootsStay
  <2>7. IsFiniteSet({r} \ done)
    BY FS_Singleton, FS_Subset
  <2> QED
    BY <2>3, <2>4, <2>5, <2>6, <2>7
<1>4. CASE ~Finishing(w)
  BY <1>4, FS_EmptySet DEF NewlyDone
<1> QED
  BY <1>3, <1>4

\* Another transaction's rows while one commits.
LEMMA OtherCounts ==
    ASSUME StoreAssumption, RootsOnce, TotalsInv, NEW w \in Writer, Commit(w), NEW v \in Writer, v # w
    PROVE  OwnTotals(tx[v], job[v])'
<1>1. PICK t, m, i, k, P, K, pl, nd, C : 
         /\ t = tx[w] /\ m = tx[v] /\ i = job[v] /\ k = AfterBatch(w) /\ P = PlacesSeen(t) /\ K = KnownSeen(t)
         /\ pl = placement /\ nd = NewlyDone(w) /\ C = Claimed(m)
  OBVIOUS
<1>2. /\ known' = K /\ placement' = P /\ done' = done \cup nd /\ fork' = fork /\ stable' = stable
      /\ job' = [job EXCEPT ![w] = k] /\ tx' = [tx EXCEPT ![w] = Fresh]
  BY <1>1 DEF Commit, To, KnownSeen
<1>3. PlacesInv /\ OwnTotals(m, i) /\ C \cap Claimed(t) = {} /\ Own(t, job[w])
  BY <1>1 DEF TotalsInv, ClaimsApart, PlacesInv
<1>4. DOMAIN t.wrote \subseteq t.touched /\ Improving(t) /\ K = known \cup t.known
  BY <1>1, <1>3 DEF Own, Stages, KnownSeen
<1>5. /\ DOMAIN P = DOMAIN t.wrote \cup DOMAIN pl
      /\ \A o \in DOMAIN t.wrote : P[o] = t.wrote[o]
      /\ \A o \in DOMAIN pl \ DOMAIN t.wrote : P[o] = pl[o]
      /\ \A o \in DOMAIN pl : pl[o] \in Place
  BY <1>1, <1>3, PlacesSeenTells, PlacementTyped
<1>6. \A o \in DOMAIN P : P[o] \in Place
  BY <1>1, <1>3, PlacesAll
<1>7. \A o \in C : (o \in K <=> o \in known) /\ (o \in DOMAIN P <=> o \in DOMAIN pl) /\ (o \in DOMAIN pl => P[o] = pl[o])
  BY <1>3, <1>4, <1>5 DEF Claimed
<1>8. nd \cap done = {} /\ nd \subseteq known /\ nd \subseteq DOMAIN pl /\ nd \cap DOMAIN m.wrote = {}
  BY <1>1, <1>3, NewlyDoneTells
<1>9. PICK Q0, Q1, S0, S1, W0, W1 :
         /\ Q0 = PlacesSeen(m) /\ Q1 = Overlay(m.wrote, P)
         /\ S0 = C \cap (known \cup m.known) \cap DOMAIN Q0 /\ S1 = C \cap (K \cup m.known) \cap DOMAIN Q1
         /\ W0 = C \cap known \cap DOMAIN pl /\ W1 = C \cap K \cap DOMAIN P
  OBVIOUS
<1>10. /\ PlacesSeen(m)' = Q1 /\ KnownSeen(m)' = K \cup m.known /\ KnownSeen(m) = known \cup m.known
  BY <1>2, <1>9 DEF PlacesSeen, KnownSeen
<1>11. /\ DOMAIN Q0 = DOMAIN m.wrote \cup DOMAIN pl
       /\ \A o \in DOMAIN m.wrote : Q0[o] = m.wrote[o]
       /\ \A o \in DOMAIN pl \ DOMAIN m.wrote : Q0[o] = pl[o]
  BY <1>1, <1>9, PlacesSeenTells
<1>12. /\ DOMAIN Q1 = DOMAIN m.wrote \cup DOMAIN P
       /\ \A o \in DOMAIN m.wrote : Q1[o] = m.wrote[o]
       /\ \A o \in DOMAIN P \ DOMAIN m.wrote : Q1[o] = P[o]
  <2>1. PICK g : g = m.wrote
    OBVIOUS
  <2>2. /\ DOMAIN Overlay(g, P) = DOMAIN g \cup DOMAIN P
        /\ \A o \in DOMAIN g : Overlay(g, P)[o] = g[o]
        /\ \A o \in DOMAIN P \ DOMAIN g : Overlay(g, P)[o] = P[o]
    BY OverTells
  <2> QED
    BY <1>9, <2>1, <2>2
<1>13. \A o \in C : (o \in DOMAIN Q1 <=> o \in DOMAIN Q0) /\ (o \in DOMAIN Q0 => Q1[o] = Q0[o])
  BY <1>7, <1>11, <1>12
<1>14. S1 = S0 /\ W1 = W0 /\ (\A o \in S0 : Q1[o] = Q0[o]) /\ (\A o \in W0 : P[o] = pl[o])
  BY <1>7, <1>9, <1>13
<1>15. S0 \cap nd = C \cap nd /\ W0 \cap nd = C \cap nd /\ \A o \in C \cap nd : Q0[o] = pl[o]
  BY <1>8, <1>9, <1>11
<1>16. IsFiniteSet(DOMAIN Q0) /\ IsFiniteSet(DOMAIN pl)
  BY <1>1, <1>3, <1>9, SeenFinite
<1>0. PICK dn : dn = done
  OBVIOUS
<1>17. ASSUME NEW h \in Height, NEW c \in Columns
       PROVE  m.delta[h][c] = Cardinality(NowIn(m, h, c)') - Cardinality(WasIn(m, h, c)')
  <2>a. nd \cap dn = {}
    BY <1>0, <1>8
  <2>b. c \in Columns
    BY <1>17
  <2>1. PICK A0, A1, B0, B1, G0, G1 :
           /\ A0 = Rows(S0, Q0, dn, h, c) /\ A1 = Rows(S0, Q0, dn \cup nd, h, c)
           /\ B0 = Rows(W0, pl, dn, h, c) /\ B1 = Rows(W0, pl, dn \cup nd, h, c)
           /\ G0 = Rows(C \cap nd, pl, {}, h, c) /\ G1 = Rows(C \cap nd, pl, nd, h, c)
    OBVIOUS
  <2>2. NowIn(m, h, c) = A0 /\ WasIn(m, h, c) = B0
    BY <1>0, <1>1, <1>9, <1>10, <2>1 DEF NowIn, WasIn
  <2>3. NowIn(m, h, c)' = A1
    <3>1. NowIn(m, h, c)' = Rows(S1, Q1, dn \cup nd, h, c)
      BY <1>0, <1>1, <1>2, <1>9, <1>10 DEF NowIn, Claimed, Rows
    <3> QED
      BY <1>14, <2>1, <3>1, RowsAgree
  <2>4. WasIn(m, h, c)' = B1
    <3>1. WasIn(m, h, c)' = Rows(W1, P, dn \cup nd, h, c)
      BY <1>0, <1>1, <1>2, <1>9 DEF WasIn, Claimed, Rows
    <3> QED
      BY <1>14, <2>1, <3>1, RowsAgree
  <2>5. A1 \ nd = A0 \ nd /\ A1 \cap nd = G1 /\ A0 \cap nd = G0
    <3>0. CountsApart(S0, Q0, dn, nd, h, c)
      BY <2>a, <2>b, DoneCounts
    <3>1. /\ Rows(S0, Q0, dn \cup nd, h, c) \ nd = Rows(S0, Q0, dn, h, c) \ nd
          /\ Rows(S0, Q0, dn \cup nd, h, c) \cap nd = Rows(S0 \cap nd, Q0, nd, h, c)
          /\ Rows(S0, Q0, dn, h, c) \cap nd = Rows(S0 \cap nd, Q0, {}, h, c)
      BY <3>0 DEF CountsApart
    <3>2. PICK E : E = C \cap nd
      OBVIOUS
    <3>3. Rows(E, Q0, nd, h, c) = Rows(E, pl, nd, h, c) /\ Rows(E, Q0, {}, h, c) = Rows(E, pl, {}, h, c)
      BY <1>15, <3>2, RowsAgree
    <3> QED
      BY <1>15, <2>1, <3>1, <3>2, <3>3
  <2>6. B1 \ nd = B0 \ nd /\ B1 \cap nd = G1 /\ B0 \cap nd = G0
    <3>0. CountsApart(W0, pl, dn, nd, h, c)
      BY <2>a, <2>b, DoneCounts
    <3>1. /\ Rows(W0, pl, dn \cup nd, h, c) \ nd = Rows(W0, pl, dn, h, c) \ nd
          /\ Rows(W0, pl, dn \cup nd, h, c) \cap nd = Rows(W0 \cap nd, pl, nd, h, c)
          /\ Rows(W0, pl, dn, h, c) \cap nd = Rows(W0 \cap nd, pl, {}, h, c)
      BY <3>0 DEF CountsApart
    <3> QED
      BY <1>15, <2>1, <3>1
  <2>7. IsFiniteSet(A0) /\ IsFiniteSet(A1) /\ IsFiniteSet(B0) /\ IsFiniteSet(B1)
    <3>1. A0 \subseteq DOMAIN Q0 /\ A1 \subseteq DOMAIN Q0 /\ B0 \subseteq DOMAIN pl /\ B1 \subseteq DOMAIN pl
      BY <1>9, <2>1 DEF Rows
    <3> QED
      BY <1>16, <3>1, FS_Subset
  <2>8. /\ Cardinality(A1) = Cardinality(A0) - Cardinality(G0) + Cardinality(G1)
        /\ Cardinality(A0) \in Nat /\ Cardinality(A1) \in Nat /\ Cardinality(G0) \in Nat /\ Cardinality(G1) \in Nat
    <3>1. /\ Cardinality(A0) \in Nat /\ Cardinality(A1) \in Nat
          /\ Cardinality(A0 \cap nd) \in Nat /\ Cardinality(A1 \cap nd) \in Nat
          /\ Cardinality(A1) = Cardinality(A0) - Cardinality(A0 \cap nd) + Cardinality(A1 \cap nd)
      <4>1. A0 \ nd = A1 \ nd
        BY <2>5
      <4>2. IsFiniteSet(A0) /\ IsFiniteSet(A1)
        BY <2>7
      <4> QED
        BY ZenonT(60), <4>1, <4>2, SizesDiffer
    <3> QED
      BY <2>5, <3>1
  <2>9. /\ Cardinality(B1) = Cardinality(B0) - Cardinality(G0) + Cardinality(G1)
        /\ Cardinality(B0) \in Nat /\ Cardinality(B1) \in Nat
    <3>1. /\ Cardinality(B0) \in Nat /\ Cardinality(B1) \in Nat
          /\ Cardinality(B0 \cap nd) \in Nat /\ Cardinality(B1 \cap nd) \in Nat
          /\ Cardinality(B1) = Cardinality(B0) - Cardinality(B0 \cap nd) + Cardinality(B1 \cap nd)
      <4>1. B0 \ nd = B1 \ nd
        BY <2>6
      <4>2. IsFiniteSet(B0) /\ IsFiniteSet(B1)
        BY <2>7
      <4> QED
        BY <4>1, <4>2, SizesDiffer
    <3> QED
      BY <2>6, <3>1
  <2>10. m.delta[h][c] = Cardinality(A0) - Cardinality(B0)
    BY <1>3, <2>2 DEF OwnTotals, Balanced
  <2>11. m.delta[h][c] = Cardinality(A1) - Cardinality(B1)
    BY SMTT(45), <2>8, <2>9, <2>10
  <2> QED
    BY <2>3, <2>4, <2>11
<1>18. Balanced(m)'
  <2>1. m.delta \in Sums
    BY <1>3 DEF OwnTotals, Balanced
  <2> QED
    BY <1>17, <2>1 DEF Balanced
<1>19. KnownSafe(m, i)'
  <2>1. KnownSafe(m, i)
    BY <1>3 DEF OwnTotals
  <2>2. \A h : RootsIn(h)' = RootsIn(h)
    BY <1>2, PlacesStay
  <2>3. ASSUME NEW o \in DOMAIN pl, pl[o].height <= stable PROVE o \in DOMAIN P /\ P[o].height <= stable'
    <3>1. o \in DOMAIN P /\ P[o] \in Place /\ pl[o] \in Place
      BY <1>5, <1>6, <2>3
    <3>2. P[o].height <= pl[o].height
      <4>1. CASE o \in DOMAIN t.wrote
        <5>1. Before(P[o], pl[o])
          BY <1>1, <1>4, <1>5, <2>3, <4>1 DEF Improving
        <5> QED
          BY <3>1, <5>1, BeforeOrders
      <4>2. CASE o \notin DOMAIN t.wrote
        <5>1. ~Before(P[o], P[o]) /\ P[o] = pl[o]
          BY <1>5, <2>3, <3>1, <4>2, BeforeOrders
        <5> QED
          BY <3>1, <5>1, BeforeOrders
      <4> QED
        BY <4>1, <4>2
    <3>3. P[o].height \in Nat /\ pl[o].height \in Nat /\ stable \in Nat
      BY <1>3, <3>1, BlocksTyped DEF Place, PlacesInv, StoreShape
    <3> QED
      BY <1>2, <2>3, <3>1, <3>2, <3>3
  <2>4. \A o \in DOMAIN placement : placement[o].height <= stable => o \in DOMAIN placement' /\ placement'[o].height <= stable'
    BY <1>1, <1>2, <2>3
  <2> QED
    BY <2>1, <2>2, <2>4 DEF KnownSafe, Describing, Batching
<1>20. OwnTotals(m, i)'
  <2>1. /\ IsFiniteSet(DOMAIN m.wrote) /\ IsFiniteSet(DOMAIN m.todo) /\ m.known \cap known = {}
        /\ (m.at \in KnownBefore => m.known = {}) /\ \A l \in m.located : l.id \in KnownSeen(m)
    BY <1>3 DEF OwnTotals
  <2>2. m.known \cap K = {} /\ \A l \in m.located : l.id \in K \cup m.known
    BY <1>1, <1>4, <1>7, <1>10, <2>1 DEF Claimed
  <2> QED
    BY <1>2, <1>10, <1>18, <1>19, <2>1, <2>2 DEF OwnTotals
<1>21. tx'[v] = m /\ job'[v] = i
  BY <1>1, <1>2, <1>3 DEF PlacesInv, StoreShape
<1> QED
  BY <1>20, <1>21

-----------------------------------------------------------------------------
(* A rewind: what goes is in no balance.                                   *)

\* What a commit adds to the totals is what it changes of the rows.
LEMMA CommitTotals ==
    ASSUME StoreAssumption, RootsOnce, TotalsInv, NEW w \in Writer, Commit(w)
    PROVE  TotalsExact'
<1>1. PICK t, P, K, pl, nd, C, D : 
         /\ t = tx[w] /\ P = PlacesSeen(t) /\ K = KnownSeen(t)
         /\ pl = placement /\ nd = NewlyDone(w) /\ C = Claimed(t) /\ D = WithDone(w)
  OBVIOUS
<1>2. /\ known' = K /\ placement' = P /\ done' = done \cup nd /\ totals' = Add(totals, D, 1)
  BY <1>1 DEF Commit, KnownSeen
<1>3. PlacesInv /\ OwnTotals(t, job[w]) /\ Own(t, job[w])
  BY <1>1 DEF TotalsInv, PlacesInv
<1>4. DOMAIN t.wrote \subseteq t.touched /\ K = known \cup t.known
  BY <1>1, <1>3 DEF Own, Stages, KnownSeen
<1>5. /\ DOMAIN P = DOMAIN t.wrote \cup DOMAIN pl
      /\ \A o \in DOMAIN t.wrote : P[o] = t.wrote[o]
      /\ \A o \in DOMAIN pl \ DOMAIN t.wrote : P[o] = pl[o]
  BY <1>1, PlacesSeenTells
<1>6. /\ nd \cap done = {} /\ nd \subseteq known /\ nd \subseteq DOMAIN pl /\ nd \cap DOMAIN t.wrote = {} /\ IsFiniteSet(nd)
  BY <1>1, <1>3, NewlyDoneTells
<1>7. ASSUME NEW o, o \notin C
      PROVE  (o \in K <=> o \in known) /\ (o \in DOMAIN P <=> o \in DOMAIN pl) /\ (o \in DOMAIN pl => P[o] = pl[o])
  BY <1>1, <1>4, <1>5, <1>7 DEF Claimed
<1>8. nd \subseteq DOMAIN P \cap K /\ \A o \in nd : P[o] = pl[o]
  BY <1>4, <1>5, <1>6
<1>9. IsFiniteSet(DOMAIN P) /\ IsFiniteSet(DOMAIN pl)
  BY <1>1, <1>3, SeenFinite
<1>10. PICK U, V : U = Count(nd, pl, nd) /\ V = Count(nd, pl, {})
  OBVIOUS
<1>11. /\ U \in Sums /\ V \in Sums /\ t.delta \in Sums
       /\ \A h \in Height, c \in Columns : /\ U[h][c] = Cardinality(Rows(nd, pl, nd, h, c))
                                           /\ V[h][c] = Cardinality(Rows(nd, pl, {}, h, c))
  <2>1. U \in Sums /\ \A h \in Height, c \in Columns : U[h][c] = Cardinality(Rows(nd, pl, nd, h, c))
    BY <1>6, <1>10, CountTells
  <2>2. V \in Sums /\ \A h \in Height, c \in Columns : V[h][c] = Cardinality(Rows(nd, pl, {}, h, c))
    <3>1. PICK none : none = {}
      OBVIOUS
    <3>2. V = Count(nd, pl, none)
      BY <1>10, <3>1
    <3>3. V \in Sums /\ \A h \in Height, c \in Columns : V[h][c] = Cardinality(Rows(nd, pl, none, h, c))
      BY <1>6, <3>2, CountTells
    <3> QED
      BY <3>1, <3>3
  <2> QED
    BY <1>3, <2>1, <2>2 DEF OwnTotals, Balanced
<1>12. D = Add(Add(t.delta, U, 1), V, -1)
  <2>1. nd \cap DOMAIN pl = nd
    BY <1>6
  <2> QED
    BY <1>1, <1>10, <2>1 DEF WithDone
<1>13. D \in Sums /\ \A h \in Height, c \in Columns : /\ D[h][c] = t.delta[h][c] + U[h][c] - V[h][c]
                                                      /\ t.delta[h][c] \in Int /\ U[h][c] \in Int /\ V[h][c] \in Int
  <2>1. PICK B : B = Add(t.delta, U, 1)
    OBVIOUS
  <2>2. B \in Sums /\ \A h \in Height, c \in Columns : B[h][c] = t.delta[h][c] + U[h][c] /\ t.delta[h][c] \in Int /\ U[h][c] \in Int
    BY <1>11, <2>1, AddTells
  <2>3. Add(B, V, -1) \in Sums /\ \A h \in Height, c \in Columns : Add(B, V, -1)[h][c] = B[h][c] - V[h][c] /\ V[h][c] \in Int
    <3>1. B \in Sums /\ V \in Sums
      BY <1>11, <2>2
    <3>2. /\ Add(B, V, -1) \in Sums
          /\ \A h \in Height, c \in Columns : /\ Add(B, V, 1)[h][c] = B[h][c] + V[h][c]
                                              /\ Add(B, V, -1)[h][c] = B[h][c] - V[h][c]
                                              /\ B[h][c] \in Int /\ V[h][c] \in Int
      BY <3>1, AddTells
    <3> QED
      BY <3>2
  <2> QED
    BY SMTT(45), <1>12, <2>1, <2>2, <2>3
<1>14. PICK S0, S1, N : S0 = DOMAIN pl \cap known /\ S1 = DOMAIN P \cap K /\ N = Count(S1, P, done \cup nd)
  OBVIOUS
<1>15. IsFiniteSet(S0) /\ IsFiniteSet(S1)
  BY <1>9, <1>14, FS_Subset
<1>16. /\ totals = Count(S0, pl, done) /\ totals \in Sums /\ N \in Sums
       /\ \A h \in Height, c \in Columns : /\ totals[h][c] = Cardinality(Rows(S0, pl, done, h, c))
                                           /\ N[h][c] = Cardinality(Rows(S1, P, done \cup nd, h, c))
  <2>1. totals = Count(S0, pl, done)
    BY <1>1, <1>14 DEF TotalsInv, TotalsExact
  <2>2. totals \in Sums /\ \A h \in Height, c \in Columns : totals[h][c] = Cardinality(Rows(S0, pl, done, h, c))
    BY <1>15, <2>1, CountTells
  <2>3. PICK d : d = done \cup nd
    OBVIOUS
  <2>4. N = Count(S1, P, d)
    BY <1>14, <2>3
  <2>5. N \in Sums /\ \A h \in Height, c \in Columns : N[h][c] = Cardinality(Rows(S1, P, d, h, c))
    BY <1>15, <2>4, CountTells
  <2> QED
    BY <2>1, <2>2, <2>3, <2>5
<1>0. PICK dn : dn = done
  OBVIOUS
<1>17. ASSUME NEW h \in Height, NEW c \in Columns PROVE N[h][c] = totals[h][c] + D[h][c]
  <2>a. nd \cap dn = {}
    BY <1>0, <1>6
  <2>b. c \in Columns
    BY <1>17
  <2>1. PICK A, M, B, Was, Now, G0, G1 :
           /\ A = Rows(S0, pl, dn, h, c) /\ M = Rows(S1, P, dn, h, c) /\ B = Rows(S1, P, dn \cup nd, h, c)
           /\ Was = WasIn(t, h, c) /\ Now = NowIn(t, h, c)
           /\ G0 = Rows(nd, pl, {}, h, c) /\ G1 = Rows(nd, pl, nd, h, c)
    OBVIOUS
  <2>2. A \ C = M \ C
    BY <1>7, <1>14, <2>1 DEF Rows
  <2>3. A \cap C = Was
    BY <1>0, <1>1, <1>14, <2>1 DEF WasIn, Rows
  <2>4. M \cap C = Now
    BY <1>0, <1>1, <1>14, <2>1 DEF NowIn, Rows
  <2>5. B \ nd = M \ nd /\ B \cap nd = G1 /\ M \cap nd = G0
    <3>1. CountsApart(S1, P, dn, nd, h, c)
      BY <2>a, <2>b, DoneCounts
    <3>2. /\ Rows(S1, P, dn \cup nd, h, c) \ nd = Rows(S1, P, dn, h, c) \ nd
          /\ Rows(S1, P, dn \cup nd, h, c) \cap nd = Rows(S1 \cap nd, P, nd, h, c)
          /\ Rows(S1, P, dn, h, c) \cap nd = Rows(S1 \cap nd, P, {}, h, c)
      BY <3>1 DEF CountsApart
    <3>3. S1 \cap nd = nd
      BY <1>8, <1>14
    <3>4. Rows(nd, P, nd, h, c) = Rows(nd, pl, nd, h, c) /\ Rows(nd, P, {}, h, c) = Rows(nd, pl, {}, h, c)
      BY <1>8, RowsAgree
    <3> QED
      BY <2>1, <3>2, <3>3, <3>4
  <2>6. IsFiniteSet(A) /\ IsFiniteSet(M) /\ IsFiniteSet(B)
    <3>1. A \subseteq S0 /\ M \subseteq S1 /\ B \subseteq S1
      BY <2>1 DEF Rows
    <3> QED
      BY <1>15, <3>1, FS_Subset
  <2>7. /\ Cardinality(M) = Cardinality(A) - Cardinality(Was) + Cardinality(Now)
        /\ Cardinality(A) \in Nat /\ Cardinality(M) \in Nat /\ Cardinality(Was) \in Nat /\ Cardinality(Now) \in Nat
    <3>1. /\ Cardinality(A) \in Nat /\ Cardinality(M) \in Nat
          /\ Cardinality(A \cap C) \in Nat /\ Cardinality(M \cap C) \in Nat
          /\ Cardinality(M) = Cardinality(A) - Cardinality(A \cap C) + Cardinality(M \cap C)
      <4>1. A \ C = M \ C
        BY <2>2
      <4>2. IsFiniteSet(A) /\ IsFiniteSet(M)
        BY <2>6
      <4> QED
        BY ZenonT(60), <4>1, <4>2, SizesDiffer
    <3> QED
      BY <2>3, <2>4, <3>1
  <2>8. /\ Cardinality(B) = Cardinality(M) - Cardinality(G0) + Cardinality(G1)
        /\ Cardinality(B) \in Nat /\ Cardinality(G0) \in Nat /\ Cardinality(G1) \in Nat
    <3>1. M \ nd = B \ nd
      BY <2>5
    <3>2. /\ Cardinality(M) \in Nat /\ Cardinality(B) \in Nat
          /\ Cardinality(M \cap nd) \in Nat /\ Cardinality(B \cap nd) \in Nat
          /\ Cardinality(B) = Cardinality(M) - Cardinality(M \cap nd) + Cardinality(B \cap nd)
      <4>1. IsFiniteSet(M) /\ IsFiniteSet(B)
        BY <2>6
      <4> QED
        BY <3>1, <4>1, SizesDiffer
    <3> QED
      BY <2>5, <3>2
  <2>9. t.delta[h][c] = Cardinality(Now) - Cardinality(Was)
    BY <1>3, <2>1 DEF OwnTotals, Balanced
  <2>10. U[h][c] = Cardinality(G1) /\ V[h][c] = Cardinality(G0) /\ D[h][c] = t.delta[h][c] + U[h][c] - V[h][c]
    BY <1>11, <1>13, <2>1
  <2>11. totals[h][c] = Cardinality(A) /\ N[h][c] = Cardinality(B)
    BY <1>0, <1>16, <2>1
  <2>12. PICK a, b, m, g0, g1, now, was :
             /\ a = Cardinality(A) /\ b = Cardinality(B) /\ m = Cardinality(M)
             /\ g0 = Cardinality(G0) /\ g1 = Cardinality(G1) /\ now = Cardinality(Now) /\ was = Cardinality(Was)
    OBVIOUS
  <2>13. a \in Int /\ b \in Int /\ m \in Int /\ g0 \in Int /\ g1 \in Int /\ now \in Int /\ was \in Int
    BY <2>7, <2>8, <2>12
  <2>14. totals[h][c] = a /\ N[h][c] = b /\ D[h][c] = (now - was) + g1 - g0
    BY <2>9, <2>10, <2>11, <2>12
  <2>15. b = a + ((now - was) + g1 - g0)
    <3>1. m = a - was + now
      BY <2>7, <2>12
    <3>2. b = m - g0 + g1
      BY <2>8, <2>12
    <3>3. PICK d : d = now - was /\ d \in Int
      BY <2>13
    <3>4. m = a + d
      BY <2>13, <3>1, <3>3
    <3>5. b = a + (d + g1 - g0)
      BY <2>13, <3>2, <3>3, <3>4
    <3> QED
      BY <3>3, <3>5
  <2> QED
    BY <2>14, <2>15
<1>18. totals' = N
  <2>1. Add(totals, D, 1) \in Sums /\ \A h \in Height, c \in Columns : Add(totals, D, 1)[h][c] = totals[h][c] + D[h][c]
    BY <1>13, <1>16, AddTells
  <2>2. PICK T : T = Add(totals, D, 1)
    OBVIOUS
  <2>3. T \in Sums /\ \A h \in Height, c \in Columns : T[h][c] = N[h][c]
    BY <1>17, <2>1, <2>2
  <2>4. T = N
    BY <1>16, <2>3, SumsEqual
  <2> QED
    BY <1>2, <2>2, <2>4
<1>19. Count(S1, P, done \cup nd) = Count(DOMAIN placement \cap known, placement, done)'
  BY <1>2, <1>14 DEF Count
<1> QED
  BY <1>14, <1>18, <1>19 DEF TotalsExact

LEMMA CommitCounts ==
    ASSUME StoreAssumption, RootsOnce, TotalsInv, PlacesInv', NEW w \in Writer, Commit(w) PROVE TotalsInv'
<1>1. PICK t, k, P, K : t = tx[w] /\ k = AfterBatch(w) /\ P = PlacesSeen(t) /\ K = KnownSeen(t)
  OBVIOUS
<1>2. /\ known' = K /\ placement' = P /\ located' = located \cup t.located /\ fork' = fork
      /\ job' = [job EXCEPT ![w] = k] /\ tx' = [tx EXCEPT ![w] = Fresh]
  BY <1>1 DEF Commit, To, KnownSeen
<1>3. PlacesInv /\ OwnTotals(t, job[w])
  BY <1>1 DEF TotalsInv
<1>4. \A v \in Writer : tx'[v] = (IF v = w THEN Fresh ELSE tx[v]) /\ job'[v] = (IF v = w THEN k ELSE job[v])
  BY <1>2, <1>3 DEF PlacesInv, StoreShape
<1>5. OwnTotals(Fresh, k)' /\ Claimed(Fresh) = {}
  <2>1. PICK n : n = Fresh
    OBVIOUS
  <2>2. Untouched(n) /\ KnownSafe(n, k)'
    <3>1. Untouched(Fresh) /\ \A j : KnownSafe(Fresh, j)'
      BY FreshIs
    <3> QED
      BY <2>1, <3>1
  <2>3. OwnTotals(n, k)' /\ Claimed(n) = {}
    BY <2>2, UntouchedCounts
  <2> QED
    BY <2>1, <2>3
<1>6. ASSUME NEW v \in Writer PROVE OwnTotals(tx[v], job[v])'
  <2>1. CASE v = w
    BY <1>4, <1>5, <2>1
  <2>2. CASE v # w
    BY <2>2, OtherCounts
  <2> QED
    BY <2>1, <2>2
<1>7. (\A v \in Writer : OwnTotals(tx[v], job[v]))'
  BY <1>6
<1>8. ClaimsApart'
  BY <1>4, <1>5 DEF TotalsInv, ClaimsApart, Claimed
<1>9. IsFiniteSet(DOMAIN placement')
  BY <1>1, <1>2, <1>3, SeenFinite
<1>10. \A l \in located' : l.id \in known'
  BY <1>1, <1>2, <1>3 DEF TotalsInv, OwnTotals, KnownSeen
<1> QED
  BY <1>7, <1>8, <1>9, <1>10, CommitTotals DEF TotalsInv

\* A rewind leaves what transactions changed or described, and so their balance.
LEMMA RewindBalance ==
    ASSUME StoreAssumption, RootsOnce, TotalsInv, Rewind, NEW v \in Writer
    PROVE  OwnTotals(tx[v], job[v])'
<1>1. PICK A, X, pl, q, t, j : A = Ancestor /\ X = Surviving(A) /\ pl = placement /\ q = placement' /\ t = tx[v] /\ j = job[v]
  OBVIOUS
<1>2. /\ fork < Len(Forks) /\ fork' = fork + 1 /\ A >= stable /\ q = [o \in X |-> pl[o]]
      /\ stable' = stable /\ known' = known /\ done' = done /\ job' = job /\ tx' = tx
  BY <1>1 DEF Rewind
<1>3. PlacesInv /\ OwnTotals(t, j) /\ Own(t, j) /\ KnownSafe(t, j) /\ t.known \cap known = {}
  BY <1>1 DEF TotalsInv, PlacesInv, OwnTotals
<1>4. ~t.guard /\ \A o \in t.touched : o \in DOMAIN pl => o \in X
  BY <1>1 DEF Rewind
<1>5. /\ fork \in DOMAIN Forks /\ Height = 1 .. Len(Forks[1]) /\ Len(Forks[1]) \in Nat /\ tip \in Nat /\ stable \in Nat
      /\ \A h \in Height : h \in Nat
  <2>1. fork \in DOMAIN Forks /\ tip \in 0 .. Len(Forks[1]) /\ stable \in 0 .. tip
    BY <1>3 DEF PlacesInv, StoreShape
  <2>2. Height = 1 .. Len(Forks[1]) /\ Len(Forks[1]) \in Nat
    BY <2>1, BlocksTyped
  <2> QED
    BY <2>1, <2>2
<1>6. A \in Nat /\ stable <= A /\ \A h \in 1 .. A : Forks[fork][h] = Forks[fork + 1][h]
  BY SMTT(45), <1>1, <1>2, <1>3, <1>5, AncestorTells DEF PlacesInv
<1>7. DOMAIN q = X /\ \A o \in X : q[o] = pl[o] /\ o \in DOMAIN pl
  BY <1>1, <1>2 DEF Surviving
<1>8. \A o \in DOMAIN pl : pl[o] \in Place /\ pl[o].height \in Nat /\ (pl[o].height <= A => o \in X)
  BY <1>1, <1>3, PlacementTyped DEF Surviving, Place
<1>9. Describing(t) => t.height \in Height /\ t.height <= stable /\ t.height \in 1 .. A
  <2>1. Describing(t) => t.height \in Height /\ t.height <= stable
    BY <1>3, <1>4 DEF Own, Stages, Holding, Safe
  <2> QED
    BY <1>5, <1>6, <2>1
\* What the transaction described stays where it is placed.
<1>10. ASSUME NEW o \in t.known, o \in DOMAIN pl PROVE o \in X
  <2>1. CASE Describing(t)
    <3>1. o \in RootsIn(t.height)
      BY <1>3, <2>1 DEF KnownSafe
    <3>2. PICK h, H, D : h = t.height /\ H = {h} /\ D = Described({})
      OBVIOUS
    <3>3. h \in Height /\ H \subseteq Height /\ o \in RootsIn(h) /\ D \subseteq Height /\ o \in Root
      BY <1>3, <1>5, <1>9, <2>1, <3>1, <3>2, DescribedTells, RootsInTells DEF PlacesInv
    <3>4. PICK m : m \in Members(o, H)
      BY <1>5, <3>2, <3>3, MemberAt
    <3>5. pl[o] \in Members(o, D)
      <4>1. pl[o] \in Places(o, D, located)
        BY <1>1, <1>3, <1>10, <3>2 DEF PlacesInv, SoundPlaces
      <4> QED
        BY <3>3, <4>1 DEF Places
    <3>6. pl[o] = m
      BY <1>5, <3>3, <3>4, <3>5, MembersOnce
    <3>7. m.height = h
      BY <1>5, <3>2, <3>3, <3>4, MemberOf
    <3>8. h <= A
      BY <1>5, <1>6, <1>9, <2>1, <3>2
    <3> QED
      BY <1>8, <1>10, <3>6, <3>7, <3>8
  <2>2. CASE ~Describing(t) /\ j = NoJob
    <3>1. o \in t.ids /\ pl[o].height <= stable
      BY <1>1, <1>3, <1>4, <2>2 DEF KnownSafe
    <3> QED
      BY <1>5, <1>6, <1>8, <1>10, <3>1
  <2>3. CASE ~Describing(t) /\ j # NoJob
    <3>1. t.at # "none"
      <4>1. Fresh.known = {}
        BY DEF Fresh
      <4> QED
        BY <1>3, <4>1 DEF Own, Stages
    <3>2. o \notin Root /\ o \notin known
      BY <1>3, <2>3, <3>1 DEF KnownSafe, Batching, Describing
    <3>3. pl[o] \in Places(o, Described({}), located)
      BY <1>1, <1>3, <1>10 DEF PlacesInv, SoundPlaces
    <3>4. PICK l \in located : l.id = o
      BY <3>2, <3>3, PlacesAre
    <3> QED
      BY <3>2, <3>4 DEF TotalsInv
  <2> QED
    BY <2>1, <2>2, <2>3
<1>11. \A o \in Claimed(t) : (o \in DOMAIN q <=> o \in DOMAIN pl) /\ (o \in DOMAIN pl => q[o] = pl[o])
  BY <1>4, <1>7, <1>10 DEF Claimed
<1>12. /\ DOMAIN PlacesSeen(t) = DOMAIN t.wrote \cup DOMAIN pl
       /\ \A o \in DOMAIN t.wrote : PlacesSeen(t)[o] = t.wrote[o]
       /\ \A o \in DOMAIN pl \ DOMAIN t.wrote : PlacesSeen(t)[o] = pl[o]
  BY <1>1, PlacesSeenTells
<1>13. PICK P, Q, g : P = PlacesSeen(t) /\ Q = PlacesSeen(t)' /\ g = t.wrote
  OBVIOUS
<1>14. Q = Overlay(g, q)
  BY <1>1, <1>13 DEF PlacesSeen
<1>15. /\ DOMAIN Q = DOMAIN g \cup DOMAIN q
       /\ \A o \in DOMAIN g : Q[o] = g[o]
       /\ \A o \in DOMAIN q \ DOMAIN g : Q[o] = q[o]
  <2>1. /\ DOMAIN Overlay(g, q) = DOMAIN g \cup DOMAIN q
        /\ \A o \in DOMAIN g : Overlay(g, q)[o] = g[o]
        /\ \A o \in DOMAIN q \ DOMAIN g : Overlay(g, q)[o] = q[o]
    BY OverTells
  <2> QED
    BY <1>14, <2>1
<1>16. PICK C, K : C = Claimed(t) /\ K = KnownSeen(t) /\ K = KnownSeen(t)'
  BY <1>2 DEF KnownSeen
<1>17. \A o \in C : (o \in DOMAIN Q <=> o \in DOMAIN P) /\ (o \in DOMAIN P => Q[o] = P[o])
  BY <1>11, <1>12, <1>13, <1>15, <1>16
<1>18. ASSUME NEW h, NEW c PROVE NowIn(t, h, c)' = NowIn(t, h, c) /\ WasIn(t, h, c)' = WasIn(t, h, c)
  <2>1. NowIn(t, h, c) = Rows(C \cap K \cap DOMAIN P, P, done, h, c)
    BY <1>13, <1>16 DEF NowIn
  <2>2. NowIn(t, h, c)' = Rows(C \cap K \cap DOMAIN Q, Q, done, h, c)
    BY <1>2, <1>13, <1>16 DEF NowIn, Rows, Claimed
  <2>3. WasIn(t, h, c) = Rows(C \cap known \cap DOMAIN pl, pl, done, h, c)
    BY <1>1, <1>16 DEF WasIn
  <2>4. WasIn(t, h, c)' = Rows(C \cap known \cap DOMAIN q, q, done, h, c)
    BY <1>1, <1>2, <1>16 DEF WasIn, Rows, Claimed
  <2>5. C \cap K \cap DOMAIN Q = C \cap K \cap DOMAIN P /\ C \cap known \cap DOMAIN q = C \cap known \cap DOMAIN pl
    BY <1>11, <1>16, <1>17
  <2>6. Rows(C \cap K \cap DOMAIN P, Q, done, h, c) = Rows(C \cap K \cap DOMAIN P, P, done, h, c)
    BY <1>17 DEF Rows
  <2>7. Rows(C \cap known \cap DOMAIN pl, q, done, h, c) = Rows(C \cap known \cap DOMAIN pl, pl, done, h, c)
    BY <1>11, <1>16 DEF Rows
  <2> QED
    BY <2>1, <2>2, <2>3, <2>4, <2>5, <2>6, <2>7
<1>19. Balanced(t)'
  <2>1. Balanced(t)
    BY <1>3 DEF OwnTotals
  <2> QED
    BY <1>18, <2>1 DEF Balanced
<1>20. KnownSafe(t, j)'
  <2>1. Describing(t) => RootsIn(t.height)' = RootsIn(t.height)
    <3>1. ASSUME Describing(t) PROVE BlockAt(t.height)' = BlockAt(t.height)
      BY <1>2, <1>6, <1>9, <3>1 DEF BlockAt
    <3> QED
      BY <3>1 DEF RootsIn
  <2>2. ~Describing(t) /\ j = NoJob => \A o \in t.ids : o \in DOMAIN q /\ q[o].height <= stable'
    <3>1. ASSUME ~Describing(t), j = NoJob, NEW o \in t.ids PROVE o \in DOMAIN q /\ q[o].height <= stable
      <4>1. o \in DOMAIN pl /\ pl[o].height <= stable
        BY <1>1, <1>3, <1>4, <3>1 DEF KnownSafe
      <4>2. o \in X
        BY <1>5, <1>6, <1>8, <4>1
      <4> QED
        BY <1>7, <4>1, <4>2
    <3> QED
      BY <1>2, <3>1
  <2> QED
    BY <1>1, <1>3, <2>1, <2>2 DEF KnownSafe, Describing, Batching
<1>21. OwnTotals(t, j)'
  <2>1. /\ IsFiniteSet(DOMAIN t.wrote) /\ IsFiniteSet(DOMAIN t.todo)
        /\ (t.at \in KnownBefore => t.known = {}) /\ \A l \in t.located : l.id \in KnownSeen(t)
    BY <1>3 DEF OwnTotals
  <2> QED
    BY <1>2, <1>3, <1>16, <1>19, <1>20, <2>1 DEF OwnTotals
<1> QED
  BY <1>1, <1>2, <1>21

LEMMA RewindCounts == ASSUME StoreAssumption, RootsOnce, TotalsInv, PlacesInv', Rewind PROVE TotalsInv'
<1>1. PICK X, pl, q, gone, D : /\ X = Surviving(Ancestor) /\ pl = placement /\ q = placement'
                               /\ gone = (DOMAIN pl \ X) \cap known /\ D = Count(gone, pl, done)
  OBVIOUS
<1>2. /\ q = [o \in X |-> pl[o]] /\ totals' = Add(totals, D, -1)
      /\ known' = known /\ done' = done /\ located' = located /\ job' = job /\ tx' = tx
  BY <1>1 DEF Rewind
<1>3. DOMAIN q = X /\ X \subseteq DOMAIN pl /\ \A o \in X : q[o] = pl[o]
  BY <1>1, <1>2 DEF Surviving
<1>4. PICK S0, S1, N : S0 = DOMAIN pl \cap known /\ S1 = X \cap known /\ N = Count(S1, q, done)
  OBVIOUS
<1>5. S0 = S1 \cup gone /\ S1 \cap gone = {}
  BY <1>1, <1>3, <1>4
<1>6. IsFiniteSet(DOMAIN pl) /\ IsFiniteSet(S0) /\ IsFiniteSet(S1) /\ IsFiniteSet(gone) /\ IsFiniteSet(X)
  <2>1. IsFiniteSet(DOMAIN pl)
    BY <1>1 DEF TotalsInv
  <2> QED
    BY <1>1, <1>3, <1>4, <2>1, FS_Subset
<1>7. /\ totals \in Sums /\ N \in Sums /\ D \in Sums
      /\ \A h \in Height, c \in Columns : /\ totals[h][c] = Cardinality(Rows(S0, pl, done, h, c))
                                          /\ N[h][c] = Cardinality(Rows(S1, q, done, h, c))
                                          /\ D[h][c] = Cardinality(Rows(gone, pl, done, h, c))
  <2>1. totals = Count(S0, pl, done)
    BY <1>1, <1>4 DEF TotalsInv, TotalsExact
  <2>2. totals \in Sums /\ \A h \in Height, c \in Columns : totals[h][c] = Cardinality(Rows(S0, pl, done, h, c))
    BY <1>6, <2>1, CountTells
  <2>3. N \in Sums /\ \A h \in Height, c \in Columns : N[h][c] = Cardinality(Rows(S1, q, done, h, c))
    <3>1. PICK dn : dn = done
      OBVIOUS
    <3>2. N = Count(S1, q, dn)
      BY <1>4, <3>1
    <3>3. IsFiniteSet(S1)
      BY <1>6
    <3>4. N \in Sums /\ \A h \in Height, c \in Columns : N[h][c] = Cardinality(Rows(S1, q, dn, h, c))
      BY <3>2, <3>3, CountTells
    <3> QED
      BY <3>1, <3>4
  <2>4. D \in Sums /\ \A h \in Height, c \in Columns : D[h][c] = Cardinality(Rows(gone, pl, done, h, c))
    <3>1. PICK dn : dn = done
      OBVIOUS
    <3>2. D = Count(gone, pl, dn)
      BY <1>1, <3>1
    <3>3. IsFiniteSet(gone)
      BY <1>6
    <3>4. D \in Sums /\ \A h \in Height, c \in Columns : D[h][c] = Cardinality(Rows(gone, pl, dn, h, c))
      BY <3>2, <3>3, CountTells
    <3> QED
      BY <3>1, <3>4
  <2> QED
    BY <2>2, <2>3, <2>4
<1>8. ASSUME NEW h \in Height, NEW c \in Columns PROVE N[h][c] = totals[h][c] - D[h][c]
  <2>1. PICK B, M, G : /\ B = Rows(S0, pl, done, h, c) /\ M = Rows(S1, q, done, h, c) /\ G = Rows(gone, pl, done, h, c)
    OBVIOUS
  <2>2. B = M \cup G /\ M \cap G = {}
    BY <1>3, <1>4, <1>5, <2>1 DEF Rows
  <2>3. IsFiniteSet(M) /\ IsFiniteSet(G)
    <3>1. M \subseteq S1 /\ G \subseteq gone
      BY <2>1 DEF Rows
    <3> QED
      BY <1>6, <3>1, FS_Subset
  <2>4. Cardinality(M \cup G) = Cardinality(M) + Cardinality(G) /\ Cardinality(M) \in Nat /\ Cardinality(G) \in Nat
    BY <2>2, <2>3, SizesAdd
  <2>5. N[h][c] = Cardinality(M) /\ D[h][c] = Cardinality(G) /\ totals[h][c] = Cardinality(B)
    BY <1>7, <2>1
  <2> QED
    BY <2>2, <2>4, <2>5
<1>9. totals' = N
  <2>1. PICK T : T = Add(totals, D, -1)
    OBVIOUS
  <2>2. Add(totals, D, -1) \in Sums /\ \A h \in Height, c \in Columns : Add(totals, D, -1)[h][c] = totals[h][c] - D[h][c]
    <3>1. /\ Add(totals, D, -1) \in Sums
          /\ \A h \in Height, c \in Columns : /\ Add(totals, D, 1)[h][c] = totals[h][c] + D[h][c]
                                              /\ Add(totals, D, -1)[h][c] = totals[h][c] - D[h][c]
                                              /\ totals[h][c] \in Int /\ D[h][c] \in Int
      BY <1>7, AddTells
    <3> QED
      BY <3>1
  <2>3. T \in Sums /\ \A h \in Height, c \in Columns : T[h][c] = N[h][c]
    BY <1>8, <2>1, <2>2
  <2>4. T = N
    BY <1>7, <2>3, SumsEqual
  <2> QED
    BY <1>2, <2>1, <2>4
<1>10. TotalsExact'
  <2>1. Count(DOMAIN placement \cap known, placement, done)' = Count(S1, q, done)
    BY <1>1, <1>2, <1>3, <1>4 DEF Count
  <2> QED
    BY <1>4, <1>9, <2>1 DEF TotalsExact
<1>11. (\A v \in Writer : OwnTotals(tx[v], job[v]))'
  BY <1>2, RewindBalance
<1>12. ClaimsApart'
  BY <1>2 DEF TotalsInv, ClaimsApart
<1>13. IsFiniteSet(DOMAIN placement') /\ \A l \in located' : l.id \in known'
  BY <1>1, <1>2, <1>3, <1>6 DEF TotalsInv
<1> QED
  BY <1>10, <1>11, <1>12, <1>13 DEF TotalsInv

\* The chain grows, or more of it becomes stable.
LEMMA GrowthCounts ==
    ASSUME StoreAssumption, TotalsInv, PlacesInv', UNCHANGED <<fork, complete, tables, job, tx>>, stable <= stable'
    PROVE  TotalsInv'
<1>1. /\ fork' = fork /\ known' = known /\ located' = located /\ done' = done /\ placement' = placement /\ totals' = totals
      /\ job' = job /\ tx' = tx
  BY DEF tables
<1>2. ASSUME NEW v \in Writer PROVE OwnTotals(tx[v], job[v])'
  <2>1. PICK t, j : t = tx[v] /\ j = job[v]
    OBVIOUS
  <2>2. OwnTotals(t, j)
    BY <2>1 DEF TotalsInv
  <2>3. PlacesSeen(t)' = PlacesSeen(t) /\ KnownSeen(t)' = KnownSeen(t)
    BY <1>1 DEF PlacesSeen, KnownSeen
  <2>4. Balanced(t)'
    BY <1>1, <2>2, <2>3 DEF OwnTotals, Balanced, NowIn, WasIn
  <2>5. \A o \in DOMAIN placement : placement[o].height <= stable => placement[o].height <= stable'
    <3>1. \A o \in DOMAIN placement : placement[o].height \in Nat
      BY PlacementTyped DEF TotalsInv, Place
    <3>2. stable \in Nat
      BY BlocksTyped DEF TotalsInv, PlacesInv, StoreShape
    <3>3. stable' \in Nat
      <4>1. fork \in DOMAIN Forks /\ tip' \in 0 .. Len(Forks[1]) /\ stable' \in 0 .. tip'
        BY <1>1 DEF PlacesInv, StoreShape
      <4>2. Len(Forks[1]) \in Nat
        BY <4>1, BlocksTyped
      <4> QED
        BY <4>1, <4>2
    <3> QED
      BY <3>1, <3>2, <3>3
  <2>6. KnownSafe(t, j)'
    BY <1>1, <2>2, <2>5, PlacesStay DEF OwnTotals, KnownSafe, Describing, Batching
  <2> QED
    BY <1>1, <2>1, <2>2, <2>3, <2>4, <2>6 DEF OwnTotals
<1>3. (\A v \in Writer : OwnTotals(tx[v], job[v]))'
  BY <1>2
<1>4. ClaimsApart' /\ IsFiniteSet(DOMAIN placement') /\ \A l \in located' : l.id \in known'
  BY <1>1 DEF TotalsInv, ClaimsApart
<1>5. TotalsExact'
  BY <1>1 DEF TotalsInv, TotalsExact, Count
<1> QED
  BY <1>3, <1>4, <1>5 DEF TotalsInv

LEMMA TotalsStart == ASSUME StoreAssumption, Init PROVE TotalsInv
<1>1. PlacesInv
  BY PlacesStart
<1>2. /\ DOMAIN placement = {} /\ located = {} /\ totals = Zero
      /\ \A w \in Writer : tx[w] = Fresh /\ job[w] = NoJob
  BY DEF Init
<1>3. OwnTotals(Fresh, NoJob) /\ Claimed(Fresh) = {}
  <2>1. PICK n, j : n = Fresh /\ j = NoJob
    OBVIOUS
  <2>2. Untouched(n) /\ KnownSafe(n, j)
    <3>1. Untouched(Fresh) /\ \A i : KnownSafe(Fresh, i)
      BY FreshIs
    <3> QED
      BY <2>1, <3>1
  <2>3. OwnTotals(n, j) /\ Claimed(n) = {}
    BY <2>2, UntouchedCounts
  <2> QED
    BY <2>1, <2>3
<1>4. ClaimsApart /\ \A w \in Writer : OwnTotals(tx[w], job[w])
  BY <1>2, <1>3 DEF ClaimsApart
<1>5. TotalsExact
  <2>1. PICK S, p, N : S = DOMAIN placement \cap known /\ p = placement /\ N = Count(S, p, done)
    OBVIOUS
  <2>2. S = {} /\ IsFiniteSet(S)
    BY <1>2, <2>1, FS_EmptySet
  <2>3. N \in Sums /\ \A h \in Height, c \in Columns : N[h][c] = Cardinality(Rows(S, p, done, h, c))
    <3>1. PICK dn : dn = done
      OBVIOUS
    <3>2. N = Count(S, p, dn)
      BY <2>1, <3>1
    <3>3. IsFiniteSet(S)
      BY <2>2
    <3>4. N \in Sums /\ \A h \in Height, c \in Columns : N[h][c] = Cardinality(Rows(S, p, dn, h, c))
      BY <3>2, <3>3, CountTells
    <3> QED
      BY <3>1, <3>4
  <2>4. \A h, c : Cardinality(Rows(S, p, done, h, c)) = 0
    <3>1. \A h, c : Rows(S, p, done, h, c) = {}
      BY <2>2 DEF Rows
    <3> QED
      BY <3>1, FS_EmptySet
  <2>5. PICK z : z = Zero
    OBVIOUS
  <2>6. z \in Sums /\ \A h \in Height, c \in Columns : z[h][c] = N[h][c]
    BY <2>3, <2>4, <2>5, ZeroTells
  <2>7. z = N
    BY <2>3, <2>6, SumsEqual
  <2> QED
    BY <1>2, <2>1, <2>5, <2>7 DEF TotalsExact
<1>6. IsFiniteSet(DOMAIN placement) /\ \A l \in located : l.id \in known
  BY <1>2, FS_EmptySet
<1> QED
  BY <1>1, <1>4, <1>5, <1>6 DEF TotalsInv

LEMMA TotalsStep == ASSUME StoreAssumption, RootsOnce, TotalsInv, [Next]_vars PROVE TotalsInv'
<1>1. PlacesInv'
  BY PlacesStep DEF TotalsInv
<1>2. CASE UNCHANGED vars
  <2>1. UNCHANGED <<fork, complete, tables, job, tx>> /\ stable' = stable
    BY <1>2 DEF vars, chain, tables
  <2>2. stable <= stable'
    <3>1. stable \in 0 .. tip /\ tip \in Nat
      BY BlocksTyped DEF TotalsInv, PlacesInv, StoreShape
    <3> QED
      BY <2>1, <3>1
  <2> QED
    BY <1>1, <2>1, <2>2, GrowthCounts
<1>3. CASE Extend \/ Advance
  <2>1. UNCHANGED <<fork, complete, tables, job, tx>> /\ (stable' = stable \/ stable' = stable + 1)
    BY <1>3 DEF Extend, Advance
  <2>2. stable <= stable'
    <3>1. stable \in 0 .. tip /\ tip \in Nat
      BY BlocksTyped DEF TotalsInv, PlacesInv, StoreShape
    <3> QED
      BY <2>1, <3>1
  <2> QED
    BY <1>1, <2>1, <2>2, GrowthCounts
<1>4. ASSUME NEW w \in Writer, Cancelled(w) \/ Victim(w) PROVE TotalsInv'
  <2>1. EndJob(w)
    BY <1>4 DEF Cancelled, Victim
  <2> QED
    BY <1>1, <2>1, EndJobCounts
<1>5. ASSUME NEW w \in Writer, UpsertMembers(w) \/ UpsertItems(w) \/ UpsertBatch(w) PROVE TotalsInv'
  BY <1>1, <1>5, UpsertsCount
<1>6. CASE Next
  BY <1>1, <1>3, <1>4, <1>5, <1>6, BeginMetadataCounts, LockMembersCounts, PlaceMembersCounts, PlaceItemsCounts,
     WriteRootCounts, BeginObjectCounts, WriteObjectCounts, StartJobCounts, BeginBatchCounts, LockRootCounts,
     WriteBatchCounts, PlaceBatchCounts, CommitCounts, AbortCounts, RewindCounts
  DEF Next
<1> QED
  BY <1>2, <1>6

\* What the triggers add and take off, row by row and transaction by
\* transaction, is at every moment the number of placed objects with metadata
\* at each height (update_bundle_totals, the cascade of a rewind).
THEOREM TotalsAlwaysExact == RootsOnce /\ Spec => []TotalsExact
<1>1. StoreAssumption
  BY StoreAssumption
<1>2. ASSUME RootsOnce PROVE Spec => []TotalsExact
  <2>1. Init => TotalsInv
    BY <1>1, TotalsStart
  <2>2. TotalsInv /\ [Next]_vars => TotalsInv'
    BY <1>1, <1>2, TotalsStep
  <2>3. TotalsInv => TotalsExact
    BY DEF TotalsInv
  <2> QED
    BY <2>1, <2>2, <2>3, PTL DEF Spec
<1> QED
  BY <1>2

-----------------------------------------------------------------------------
(* The order of a traversal: a path that leads on comes after.             *)

\* A path that leads on from p.
Beneath(q, p) == Len(p) < Len(q) /\ \A i \in 1 .. Len(p) : q[i] = p[i]
Upto(q, p, c) == PathBefore(q, p) \/ q = p \/ (Beneath(q, p) /\ q[Len(p) + 1] < c)

LEMMA BeforeAppend ==
    ASSUME NEW q \in Paths, NEW p \in Paths, NEW c \in Nat
    PROVE  PathBefore(q, Append(p, c)) <=> Upto(q, p, c)
<1>1. PICK a : a = Append(p, c)
  OBVIOUS
<1>2. a \in Paths /\ Len(a) = Len(p) + 1 /\ a[Len(p) + 1] = c /\ \A i \in 1 .. Len(p) : a[i] = p[i]
  BY <1>1 DEF Paths
<1>3. Len(p) \in Nat /\ Len(q) \in Nat /\ (\A i \in 1 .. Len(q) : q[i] \in Nat) /\ (\A i \in 1 .. Len(p) : p[i] \in Nat)
  BY DEF Paths
<1>4. ASSUME NEW n \in Nat, Parts(q, a, n) PROVE Upto(q, p, c)
  <2>1. /\ n <= Len(q) /\ n <= Len(p) /\ \A i \in 1 .. n : q[i] = p[i]
        /\ n = Len(q) \/ q[n + 1] < a[n + 1]
    BY <1>2, <1>3, <1>4 DEF Parts
  <2>2. CASE n < Len(p)
    <3>1. a[n + 1] = p[n + 1]
      BY <1>2, <1>3, <2>2
    <3>2. Parts(q, p, n)
      BY <2>1, <2>2, <3>1 DEF Parts
    <3> QED
      BY <3>2, PathTells DEF Upto
  <2>3. CASE n = Len(p) /\ n = Len(q)
    <3>1. q = p
      BY <2>1, <2>3, SeqEqual DEF Paths
    <3> QED
      BY <3>1 DEF Upto
  <2>4. CASE n = Len(p) /\ n # Len(q)
    BY <1>2, <1>3, <2>1, <2>4 DEF Upto, Beneath
  <2> QED
    BY <1>3, <2>1, <2>2, <2>3, <2>4
<1>5. ASSUME NEW n \in Nat, Parts(q, p, n) PROVE Parts(q, a, n)
  <2>1. n < Len(p) /\ (\A i \in 1 .. n : q[i] = p[i] /\ a[i] = p[i]) /\ a[n + 1] = p[n + 1]
    BY <1>2, <1>3, <1>5 DEF Parts
  <2> QED
    BY <1>2, <1>3, <1>5, <2>1 DEF Parts
<1>6. ASSUME q = p PROVE Parts(q, a, Len(p))
  BY <1>2, <1>3, <1>6 DEF Parts
<1>7. ASSUME Beneath(q, p), q[Len(p) + 1] < c PROVE Parts(q, a, Len(p))
  BY <1>2, <1>3, <1>7 DEF Parts, Beneath
<1>8. PathBefore(q, a) <=> \E n \in Nat : Parts(q, a, n)
  BY <1>2, PathTells
<1>9. PathBefore(q, p) <=> \E n \in Nat : Parts(q, p, n)
  BY PathTells
<1> QED
  BY <1>1, <1>3, <1>4, <1>5, <1>6, <1>7, <1>8, <1>9 DEF Upto

LEMMA BeneathAppend ==
    ASSUME NEW q \in Paths, NEW p \in Paths, NEW c \in Nat
    PROVE  (q = Append(p, c) \/ Beneath(q, Append(p, c))) <=> (Beneath(q, p) /\ q[Len(p) + 1] = c)
<1>1. PICK a : a = Append(p, c)
  OBVIOUS
<1>2. a \in Paths /\ Len(a) = Len(p) + 1 /\ a[Len(p) + 1] = c /\ \A i \in 1 .. Len(p) : a[i] = p[i]
  BY <1>1 DEF Paths
<1>3. Len(p) \in Nat /\ Len(q) \in Nat
  BY DEF Paths
<1>4. ASSUME q = a \/ Beneath(q, a) PROVE Beneath(q, p) /\ q[Len(p) + 1] = c
  BY <1>2, <1>3, <1>4 DEF Beneath
<1>5. ASSUME Beneath(q, p), q[Len(p) + 1] = c PROVE q = a \/ Beneath(q, a)
  <2>1. \A i \in 1 .. Len(a) : q[i] = a[i]
    <3>1. \A i \in 1 .. Len(a) : i \in 1 .. Len(p) \/ i = Len(p) + 1
      BY <1>2, <1>3
    <3> QED
      BY <1>2, <1>5, <3>1 DEF Beneath
  <2>2. CASE Len(q) = Len(a)
    BY <1>2, <2>1, <2>2, SeqEqual DEF Paths
  <2>3. CASE Len(q) # Len(a)
    BY <1>2, <1>3, <1>5, <2>1, <2>3 DEF Beneath
  <2> QED
    BY <2>2, <2>3
<1> QED
  BY <1>1, <1>4, <1>5

\* One entry more, and the end of a bundle.
LEMMA UptoNext ==
    ASSUME NEW q \in Paths, NEW p \in Paths, NEW c \in Nat
    PROVE  Upto(q, p, c + 1) <=> Upto(q, p, c) \/ (Beneath(q, p) /\ q[Len(p) + 1] = c)
<1>1. Beneath(q, p) => q[Len(p) + 1] \in Nat
  BY DEF Paths, Beneath
<1> QED
  BY <1>1 DEF Upto

LEMMA UptoEnd ==
    ASSUME NEW q \in Paths, NEW p \in Paths, NEW b \in Nat, NEW c \in Nat,
           Beneath(q, Append(p, b)) => q[Len(p) + 2] < c
    PROVE  Upto(q, Append(p, b), c) <=> Upto(q, p, b + 1)
<1>1. PICK a : a = Append(p, b)
  OBVIOUS
<1>2. a \in Paths /\ Len(a) + 1 = Len(p) + 2
  BY <1>1 DEF Paths
<1>3. Upto(q, a, c) <=> PathBefore(q, a) \/ q = a \/ Beneath(q, a)
  BY <1>1, <1>2 DEF Upto
<1>4. PathBefore(q, a) <=> Upto(q, p, b)
  BY <1>1, BeforeAppend
<1>5. (q = a \/ Beneath(q, a)) <=> (Beneath(q, p) /\ q[Len(p) + 1] = b)
  BY <1>1, BeneathAppend
<1>6. Upto(q, p, b + 1) <=> Upto(q, p, b) \/ (Beneath(q, p) /\ q[Len(p) + 1] = b)
  BY UptoNext
<1> QED
  BY <1>1, <1>3, <1>4, <1>5, <1>6

LEMMA UptoStart ==
    ASSUME NEW q \in Paths, NEW p \in Paths, NEW b \in Nat,
           Beneath(q, Append(p, b)) => q[Len(p) + 2] >= 1
    PROVE  Upto(q, Append(p, b), 1) <=> Upto(q, p, b) \/ q = Append(p, b)
<1>1. PICK a : a = Append(p, b)
  OBVIOUS
<1>2. a \in Paths /\ Len(a) + 1 = Len(p) + 2
  BY <1>1 DEF Paths
<1>3. Beneath(q, a) => q[Len(p) + 2] \in Nat
  BY SMTT(45), <1>2 DEF Paths, Beneath
<1>4. Upto(q, a, 1) <=> PathBefore(q, a) \/ q = a
  BY <1>1, <1>2, <1>3 DEF Upto
<1>5. PathBefore(q, a) <=> Upto(q, p, b)
  BY <1>1, BeforeAppend
<1> QED
  BY <1>1, <1>4, <1>5

-----------------------------------------------------------------------------
(* The levels of a bundle: what a root has to bring, and the bundle above  *)
(* each of its items.                                                      *)

\* The levels of a bundle, one after the other.
Child(p, k) == [id |-> Contents[p.id][k], parent |-> p.id, path |-> Append(p.path, k)]
Entry(p, k, n) == k \in DOMAIN Contents[p.id] /\ Kept(Contents[p.id][k]) /\ (n = 1 \/ p.id \in Nested)
Levels(L, r) ==
    /\ L[0] = {[id |-> r, parent |-> r, path |-> << >>]}
    /\ \A n \in 0 .. MaxDepth - 1 : \A x : x \in L[n + 1] <=> \E p \in L[n] : \E k : Entry(p, k, n + 1) /\ x = Child(p, k)

\* The function that Level defines exists.
LEMMA LevelRuns == ASSUME NEW r, MaxDepth \in Nat PROVE Levels(Level(r), r)
<1> DEFINE c == {[id |-> r, parent |-> r, path |-> << >>]}
           Down(S, n) == UNION {{[id |-> Contents[p.id][k], parent |-> p.id, path |-> Append(p.path, k)] :
                                   k \in {x \in DOMAIN Contents[p.id] : Kept(Contents[p.id][x])}} :
                                p \in {x \in S : n = 1 \/ x.id \in Nested}}
           Is(g, m) == g = [n \in 0 .. m |-> IF n = 0 THEN c ELSE Down(g[n - 1], n)]
           Runs == {n \in Nat : \E g : Is(g, n)}
<1>5. Level(r) = CHOOSE g : Is(g, MaxDepth)
  BY DEF Level
<1>7. \A S, n, x : x \in Down(S, n) <=> \E p \in S : \E k : Entry(p, k, n) /\ x = Child(p, k)
  BY DEF Entry, Child
<1> HIDE DEF c, Down
<1>1. 0 \in Runs
  <2>1. Is([k \in 0 .. 0 |-> c], 0)
    OBVIOUS
  <2> QED
    BY <2>1
<1>2. ASSUME NEW n \in Nat, n \in Runs PROVE n + 1 \in Runs
  <2>1. PICK g : Is(g, n)
    BY <1>2
  <2> DEFINE h == [k \in 0 .. n + 1 |-> IF k = n + 1 THEN Down(g[n], n + 1) ELSE g[k]]
  <2>2. ASSUME NEW k \in 0 .. n + 1 PROVE h[k] = IF k = 0 THEN c ELSE Down(h[k - 1], k)
    <3>1. CASE k = n + 1
      <4>1. n + 1 # 0 /\ (n + 1) - 1 = n /\ n \in 0 .. n + 1 /\ n # n + 1
        OBVIOUS
      <4>2. h[n] = g[n]
        BY <4>1
      <4> QED
        BY <3>1, <4>1, <4>2
    <3>2. CASE k \in 0 .. n
      <4>1. h[k] = g[k] /\ g[k] = IF k = 0 THEN c ELSE Down(g[k - 1], k)
        BY <2>1, <3>2
      <4>2. k # 0 => h[k - 1] = g[k - 1]
        BY <3>2
      <4> QED
        BY <4>1, <4>2
    <3> QED
      BY <3>1, <3>2
  <2>3. h = [k \in 0 .. n + 1 |-> h[k]]
    OBVIOUS
  <2> HIDE DEF h
  <2>4. Is(h, n + 1)
    BY <2>2, <2>3
  <2> QED
    BY <2>4
<1>3. MaxDepth \in Runs
  <2> HIDE DEF Runs
  <2> QED
    BY <1>1, <1>2, NaturalsReached
<1>4. Is(Level(r), MaxDepth)
  BY <1>3, <1>5
<1> DEFINE L == Level(r)
<1> HIDE DEF L
<1>6. L[0] = c /\ \A n \in 1 .. MaxDepth : L[n] = Down(L[n - 1], n)
  BY <1>4 DEF L
<1>8. L[0] = {[id |-> r, parent |-> r, path |-> << >>]}
  BY <1>6 DEF c
<1>9. ASSUME NEW n \in 0 .. MaxDepth - 1, NEW x
      PROVE  x \in L[n + 1] <=> \E p \in L[n] : \E k : Entry(p, k, n + 1) /\ x = Child(p, k)
  <2>1. n + 1 \in 1 .. MaxDepth /\ (n + 1) - 1 = n
    OBVIOUS
  <2>2. L[n + 1] = Down(L[n], n + 1)
    BY <1>6, <2>1
  <2> QED
    BY <1>7, <2>2
<1> QED
  BY <1>8, <1>9 DEF Levels, L

\* What the levels hold.
Levelled(L, r, n) ==
    \A x \in L[n] : /\ x.path \in Paths /\ Len(x.path) = n
                    /\ x = [id |-> x.id, parent |-> x.parent, path |-> x.path]
                    /\ IF n = 0 THEN x.id = r ELSE x.id \in Item
ChildIs(p, k, n, x) ==
    /\ p.id \in Bundles /\ Contents[p.id] \in Seq(Nat) /\ k \in 1 .. Len(Contents[p.id])
    /\ x.path \in Paths /\ Len(x.path) = n + 1 /\ x.path[n + 1] = k
    /\ (\A i \in 1 .. n : x.path[i] = p.path[i]) /\ x.path = Append(p.path, k)
    /\ x = [id |-> x.id, parent |-> x.parent, path |-> x.path] /\ x.id \in Item
    /\ x.id = Contents[p.id][k]
LEMMA ChildTells ==
    ASSUME StoreAssumption, NEW r \in Root, NEW n \in Nat, NEW L, Levelled(L, r, n), NEW p \in L[n], NEW k, Entry(p, k, n + 1),
           NEW x, x = Child(p, k)
    PROVE  ChildIs(p, k, n, x)
<1>1. p.path \in Paths /\ Len(p.path) = n
  BY DEF Levelled
<1>2. p.id \in Bundles
  BY DEF Levelled, Entry, Bundles
<1>3. Contents[p.id] \in Seq(Nat)
  BY <1>2 DEF StoreAssumption, Bundles
<1>4. k \in 1 .. Len(Contents[p.id]) /\ Kept(Contents[p.id][k])
  <2>1. PICK c : c = Contents[p.id]
    OBVIOUS
  <2>2. k \in DOMAIN c /\ Kept(c[k])
    BY <2>1 DEF Entry
  <2>3. DOMAIN c = 1 .. Len(c)
    BY <1>3, <2>1
  <2> QED
    BY <2>1, <2>2, <2>3
<1>5. Append(p.path, k) \in Paths /\ Len(Append(p.path, k)) = n + 1 /\ Append(p.path, k)[n + 1] = k
      /\ \A i \in 1 .. n : Append(p.path, k)[i] = p.path[i]
  <2>1. PICK q : q = p.path
    OBVIOUS
  <2>2. q \in Seq(Nat) /\ Len(q) = n /\ k \in Nat
    BY <1>1, <1>3, <1>4, <2>1 DEF Paths
  <2>3. Append(q, k) \in Seq(Nat) /\ Len(Append(q, k)) = n + 1 /\ Append(q, k)[n + 1] = k
        /\ \A i \in 1 .. n : Append(q, k)[i] = q[i]
    BY <2>2
  <2> QED
    BY <2>1, <2>3 DEF Paths
<1> QED
  BY <1>2, <1>3, <1>4, <1>5 DEF Child, Kept, ChildIs

LEMMA SamePath ==
    ASSUME NEW p \in Paths, NEW q \in Paths, Len(p) = Len(q), \A i \in 1 .. Len(p) : p[i] = q[i] PROVE p = q
BY SeqEqual DEF Paths

LEMMA LevelTyped ==
    ASSUME StoreAssumption, NEW r \in Root, NEW L, Levels(L, r)
    PROVE  \A n \in 0 .. MaxDepth : Levelled(L, r, n)
<1> DEFINE S == {n \in Nat : n > MaxDepth \/ Levelled(L, r, n)}
<1>0. MaxDepth \in Nat
  BY DEF StoreAssumption
<1>1. 0 \in S
  <2>1. << >> \in Paths /\ Len(<< >>) = 0
    BY DEF Paths
  <2>2. PICK e : e = << >>
    OBVIOUS
  <2>3. L[0] = {[id |-> r, parent |-> r, path |-> e]} /\ e \in Paths /\ Len(e) = 0
    BY <2>1, <2>2 DEF Levels
  <2> QED
    BY <2>3 DEF Levelled
<1>2. ASSUME NEW n \in Nat, n \in S PROVE n + 1 \in S
  <2>1. CASE n + 1 <= MaxDepth
    <3>1. Levelled(L, r, n)
      BY <1>0, <1>2, <2>1
    <3>2. ASSUME NEW x \in L[n + 1]
          PROVE  /\ x.path \in Paths /\ Len(x.path) = n + 1
                 /\ x = [id |-> x.id, parent |-> x.parent, path |-> x.path]
                 /\ x.id \in Item
      <4>1. n \in 0 .. MaxDepth - 1
        BY <1>0, <2>1
      <4>20. PICK p \in L[n] : \E k : Entry(p, k, n + 1) /\ x = Child(p, k)
        BY <4>1 DEF Levels
      <4>2. PICK k : Entry(p, k, n + 1) /\ x = Child(p, k)
        BY <4>20
      <4> QED
        <5>1. ChildIs(p, k, n, x)
          BY <3>1, <4>2, ChildTells
        <5> QED
          BY <5>1 DEF ChildIs
    <3> QED
      BY <3>2 DEF Levelled
  <2> QED
    BY <1>0, <2>1
<1>3. Nat \subseteq S
  <2> HIDE DEF S
  <2> QED
    BY <1>1, <1>2, NaturalsReached
<1> QED
  BY <1>0, <1>3

\* A path leads to one entry.
LEMMA LevelOnce ==
    ASSUME StoreAssumption, NEW r \in Root, NEW L, Levels(L, r), NEW n \in 0 .. MaxDepth,
           NEW x \in L[n], NEW y \in L[n], x.path = y.path
    PROVE  x = y
<1> DEFINE Once(m) == \A a, b \in L[m] : a.path = b.path => a = b
           S == {m \in Nat : m > MaxDepth \/ Once(m)}
<1>0. MaxDepth \in Nat
  BY DEF StoreAssumption
<1>1. 0 \in S
  BY DEF Levels
<1>2. ASSUME NEW m \in Nat, m \in S PROVE m + 1 \in S
  <2>1. CASE m + 1 <= MaxDepth
    <3>1. Once(m) /\ Levelled(L, r, m) /\ m \in 0 .. MaxDepth - 1
      <4>1. m \in 0 .. MaxDepth
        BY <1>0, <2>1
      <4>2. Levelled(L, r, m)
        BY <4>1, LevelTyped
      <4> QED
        BY <1>0, <1>2, <2>1, <4>2
    <3>4. \A c \in L[m + 1] : \E p \in L[m] : \E k : Entry(p, k, m + 1) /\ c = Child(p, k)
      <4>1. m \in 0 .. MaxDepth - 1
        BY <3>1
      <4> QED
        BY <4>1 DEF Levels
    <3>2. ASSUME NEW a \in L[m + 1], NEW b \in L[m + 1], a.path = b.path PROVE a = b
      <4>10. PICK p \in L[m] : \E k : Entry(p, k, m + 1) /\ a = Child(p, k)
        BY <3>4
      <4>1. PICK k : Entry(p, k, m + 1) /\ a = Child(p, k)
        BY <4>10
      <4>20. PICK q \in L[m] : \E j : Entry(q, j, m + 1) /\ b = Child(q, j)
        BY <3>4
      <4>2. PICK j : Entry(q, j, m + 1) /\ b = Child(q, j)
        BY <4>20
      <4>3. a.path[m + 1] = k /\ \A i \in 1 .. m : a.path[i] = p.path[i]
        <5>1. Levelled(L, r, m)
          BY <3>1
        <5>2. ChildIs(p, k, m, a)
          BY <4>1, <5>1, ChildTells
        <5> QED
          BY <5>2 DEF ChildIs
      <4>4. b.path[m + 1] = j /\ \A i \in 1 .. m : b.path[i] = q.path[i]
        <5>1. Levelled(L, r, m)
          BY <3>1
        <5>2. ChildIs(q, j, m, b)
          BY <4>2, <5>1, ChildTells
        <5> QED
          BY <5>2 DEF ChildIs
      <4>5. p.path \in Paths /\ q.path \in Paths /\ Len(p.path) = m /\ Len(q.path) = m
        BY <3>1 DEF Levelled
      <4>6. p.path = q.path
        <5>1. PICK u, v : u = p.path /\ v = q.path
          OBVIOUS
        <5>2. u \in Paths /\ v \in Paths /\ Len(u) = Len(v) /\ \A i \in 1 .. Len(u) : u[i] = v[i]
          BY <3>2, <4>3, <4>4, <4>5, <5>1
        <5>3. u = v
          BY <5>2, SamePath
        <5> QED
          BY <5>1, <5>3
      <4>7. p = q
        BY <3>1, <4>6
      <4> QED
        BY <3>2, <4>1, <4>2, <4>3, <4>4, <4>7
    <3>3. Once(m + 1)
      BY <3>2
    <3> QED
      BY <3>3
  <2> QED
    BY <1>0, <2>1
<1>3. Nat \subseteq S
  <2> HIDE DEF S
  <2> QED
    BY <1>1, <1>2, NaturalsReached
<1>4. Once(n)
  BY <1>0, <1>3
<1> QED
  BY <1>4

\* Above an entry is at every level the bundle that its path goes through.
GoesThrough(L, q, m) ==
    \E p \in L[m] : Beneath(q, p.path) /\ Entry(p, q[m + 1], m + 1)
LEMMA LevelAbove ==
    ASSUME StoreAssumption, NEW r \in Root, NEW L, Levels(L, r), NEW n \in 0 .. MaxDepth, NEW x \in L[n], NEW m \in 0 .. n - 1
    PROVE  GoesThrough(L, x.path, m)
<1> DEFINE All(u) == \A a \in L[u] : \A v \in 0 .. u - 1 : GoesThrough(L, a.path, v)
           S == {u \in Nat : u > MaxDepth \/ All(u)}
<1>0. MaxDepth \in Nat
  BY DEF StoreAssumption
<1>1. 0 \in S
  OBVIOUS
<1>2. ASSUME NEW u \in Nat, u \in S PROVE u + 1 \in S
  <2>1. CASE u + 1 <= MaxDepth
    <3>1. All(u) /\ Levelled(L, r, u) /\ u \in 0 .. MaxDepth - 1
      <4>1. u \in 0 .. MaxDepth
        BY <1>0, <2>1
      <4>2. Levelled(L, r, u)
        BY <4>1, LevelTyped
      <4> QED
        BY <1>0, <1>2, <2>1, <4>2
    <3>2. ASSUME NEW a \in L[u + 1], NEW v \in 0 .. u PROVE GoesThrough(L, a.path, v)
      <4>10. PICK p \in L[u] : \E k : Entry(p, k, u + 1) /\ a = Child(p, k)
        BY <3>1 DEF Levels
      <4>1. PICK k : Entry(p, k, u + 1) /\ a = Child(p, k)
        BY <4>10
      <4>2. Len(a.path) = u + 1 /\ a.path[u + 1] = k /\ \A i \in 1 .. u : a.path[i] = p.path[i]
        <5>1. Levelled(L, r, u)
          BY <3>1
        <5>2. ChildIs(p, k, u, a)
          BY <4>1, <5>1, ChildTells
        <5> QED
          BY <5>2 DEF ChildIs
      <4>3. Len(p.path) = u
        BY <3>1 DEF Levelled
      <4>4. CASE v = u
        <5>1. Beneath(a.path, p.path)
          BY <4>2, <4>3 DEF Beneath
        <5> QED
          BY <4>1, <4>2, <4>4, <5>1 DEF GoesThrough
      <4>5. CASE v # u
        <5>1. v \in 0 .. u - 1 /\ v + 1 \in 1 .. u /\ v \in Nat
          BY SMTT(45), <4>5
        <5>2. PICK q \in L[v] : Beneath(p.path, q.path) /\ Entry(q, p.path[v + 1], v + 1)
          BY <3>1, <5>1 DEF GoesThrough
        <5>3. Len(q.path) \in Nat
          <6>1. v \in 0 .. MaxDepth
            BY <1>0, <2>1, <5>1
          <6>2. Levelled(L, r, v)
            BY <6>1, LevelTyped
          <6> QED
            BY <5>1, <6>2 DEF Levelled
        <5>4. Beneath(a.path, q.path)
          BY SMTT(45), <4>2, <4>3, <5>2, <5>3 DEF Beneath
        <5>5. a.path[v + 1] = p.path[v + 1]
          BY <4>2, <5>1
        <5> QED
          BY <5>2, <5>4, <5>5 DEF GoesThrough
      <4> QED
        BY <4>4, <4>5
    <3>3. All(u + 1)
      BY <3>2
    <3> QED
      BY <3>3
  <2> QED
    BY <1>0, <2>1
<1>3. Nat \subseteq S
  <2> HIDE DEF S
  <2> QED
    BY <1>1, <1>2, NaturalsReached
<1>4. All(n)
  BY <1>0, <1>3
<1> QED
  BY <1>4

\* So what the path of an entry goes through is known from the bundle there.
UnderIs(f, m, n, x) ==
    /\ m < n /\ x.path[m + 1] \in 1 .. Len(Contents[f.id]) /\ Contents[f.id] \in Seq(Nat)
    /\ Entry(f, x.path[m + 1], m + 1)
    /\ n = m + 1 => x = Child(f, x.path[m + 1])
LEMMA LevelUnder ==
    ASSUME StoreAssumption, NEW r \in Root, NEW L, Levels(L, r), NEW n \in 0 .. MaxDepth, NEW x \in L[n],
           NEW m \in 0 .. MaxDepth, NEW f \in L[m], Beneath(x.path, f.path)
    PROVE  UnderIs(f, m, n, x)
<1>0. MaxDepth \in Nat /\ n \in Nat /\ m \in Nat
  BY DEF StoreAssumption
<1>1. Levelled(L, r, n) /\ Levelled(L, r, m)
  BY LevelTyped
<1>2. m < n /\ x.path \in Paths /\ f.path \in Paths /\ Len(x.path) = n /\ Len(f.path) = m
  BY <1>1 DEF Levelled, Beneath
<1>3. m \in 0 .. n - 1
  BY <1>0, <1>2
<1>4. PICK p \in L[m] : Beneath(x.path, p.path) /\ Entry(p, x.path[m + 1], m + 1)
  BY <1>3, LevelAbove DEF GoesThrough
<1>5. p.path \in Paths /\ Len(p.path) = m
  BY <1>1 DEF Levelled
<1>6. p.path = f.path
  <2>1. PICK u, v : u = p.path /\ v = f.path
    OBVIOUS
  <2>2. u \in Paths /\ v \in Paths /\ Len(u) = Len(v) /\ \A i \in 1 .. Len(u) : u[i] = v[i]
    BY <1>2, <1>4, <1>5, <2>1 DEF Beneath
  <2>3. u = v
    BY <2>2, SamePath
  <2> QED
    BY <2>1, <2>3
<1>7. p = f
  BY <1>6, LevelOnce
<1>8. PICK k : k = x.path[m + 1]
  OBVIOUS
<1>9. Entry(f, k, m + 1)
  BY <1>4, <1>7, <1>8
<1>10. k \in 1 .. Len(Contents[f.id]) /\ Contents[f.id] \in Seq(Nat)
  <2>1. PICK c : c = Child(f, k)
    OBVIOUS
  <2>2. ChildIs(f, k, m, c)
    BY <1>0, <1>1, <1>9, <2>1, ChildTells
  <2> QED
    BY <2>2 DEF ChildIs
<1>11. ASSUME n = m + 1 PROVE x = Child(f, k)
  <2>1. m \in 0 .. MaxDepth - 1 /\ x \in L[m + 1]
    BY <1>0, <1>11
  <2>20. PICK q \in L[m] : \E j : Entry(q, j, m + 1) /\ x = Child(q, j)
    BY <2>1 DEF Levels
  <2>2. PICK j : Entry(q, j, m + 1) /\ x = Child(q, j)
    BY <2>20
  <2>3. x.path[m + 1] = j /\ \A i \in 1 .. m : x.path[i] = q.path[i]
    <3>1. ChildIs(q, j, m, x)
      BY <1>0, <1>1, <2>2, ChildTells
    <3> QED
      BY <3>1 DEF ChildIs
  <2>4. q.path \in Paths /\ Len(q.path) = m
    BY <1>1 DEF Levelled
  <2>5. q.path = f.path
    <3>1. PICK u, v : u = q.path /\ v = f.path
      OBVIOUS
    <3>2. u \in Paths /\ v \in Paths /\ Len(u) = Len(v) /\ \A i \in 1 .. Len(u) : u[i] = v[i]
      BY <1>2, <2>3, <2>4, <3>1 DEF Beneath
    <3>3. u = v
      BY <3>2, SamePath
    <3> QED
      BY <3>1, <3>3
  <2>6. q = f
    BY <2>5, LevelOnce
  <2> QED
    BY <1>8, <2>2, <2>3, <2>6
<1> QED
  BY <1>2, <1>8, <1>9, <1>10, <1>11 DEF UnderIs

-----------------------------------------------------------------------------
(* A stack of frames says which items the traversal has passed.            *)

\* A traversal of r: each frame is at the entry after the one it opened.
FrameOn(L, f, k) ==
    \E p \in L[k - 1] : /\ p.id = f.id /\ p.path = f.path /\ (k = 1 \/ p.id \in Nested)
                        /\ f.at \in 1 .. Len(Contents[f.id]) + 1
Opener(f, g) == g.path = Append(f.path, f.at - 1)
StackOn(L, s) ==
    /\ s \in Seq(Frames) /\ Len(s) <= MaxDepth
    /\ \A k \in 1 .. Len(s) : FrameOn(L, s[k], k)
    /\ \A k \in 1 .. Len(s) - 1 : Opener(s[k], s[k + 1])

\* Of the entries it has to find, those that it has passed.
Over(x, s) == s = << >> \/ Upto(x.path, s[Len(s)].path, s[Len(s)].at)
Passed(r, s) == {x \in Expected(r) : Over(x, s)}

LEMMA ExpectedAre ==
    ASSUME StoreAssumption, NEW r \in Root, NEW L, L = Level(r)
    PROVE  /\ Levels(L, r)
           /\ \A x : x \in Expected(r) <=> \E n \in 1 .. MaxDepth : x \in L[n]
           /\ \A n \in 0 .. MaxDepth : Levelled(L, r, n)
<1>1. MaxDepth \in Nat
  BY DEF StoreAssumption
<1>2. Levels(L, r)
  BY <1>1, LevelRuns
<1>3. \A x : x \in Expected(r) <=> \E n \in 1 .. MaxDepth : x \in L[n]
  BY DEF Expected
<1> QED
  BY <1>2, <1>3, LevelTyped

\* The frame of a bundle, and what lies beneath it.
ItemAt(f, j) == [id |-> Contents[f.id][j], parent |-> f.id, path |-> Append(f.path, j)]
FrameIs(f, k) ==
    /\ f.path \in Paths /\ Len(f.path) = k - 1 /\ f.id \in Bundles /\ Contents[f.id] \in Seq(Nat)
    /\ f.at \in 1 .. Len(Contents[f.id]) + 1
Inside(f, k, x) == x.path[k] \in 1 .. Len(Contents[f.id]) /\ Kept(Contents[f.id][x.path[k]])
Below(f, k, n, x) == Inside(f, k, x) /\ (n = k => x = ItemAt(f, x.path[k]))

LEMMA FrameTells ==
    ASSUME StoreAssumption, NEW r \in Root, NEW L, Levels(L, r), NEW k \in 1 .. MaxDepth, NEW f, FrameOn(L, f, k)
    PROVE  /\ FrameIs(f, k)
           /\ \A n \in 1 .. MaxDepth : \A x \in L[n] : Beneath(x.path, f.path) => Below(f, k, n, x)
           /\ \A j \in 1 .. Len(Contents[f.id]) : Kept(Contents[f.id][j]) => ItemAt(f, j) \in L[k]
<1>0. PICK m : m = k - 1
  OBVIOUS
<1>1. MaxDepth \in Nat /\ m \in 0 .. MaxDepth /\ m \in 0 .. MaxDepth - 1 /\ m + 1 = k /\ m \in Nat
  BY <1>0 DEF StoreAssumption
<1>2. PICK p \in L[m] : /\ p.id = f.id /\ p.path = f.path /\ (k = 1 \/ p.id \in Nested)
                        /\ f.at \in 1 .. Len(Contents[f.id]) + 1
  BY <1>0 DEF FrameOn
<1>3. Levelled(L, r, m)
  BY <1>1, LevelTyped
<1>4. p.path \in Paths /\ Len(p.path) = m /\ p.id \in Bundles
  <2>1. p.path \in Paths /\ Len(p.path) = m /\ (m = 0 => p.id = r)
    BY <1>2, <1>3 DEF Levelled
  <2>2. k = 1 => m = 0
    BY <1>1
  <2>3. p.id = r \/ p.id \in Nested
    BY <1>2, <2>1, <2>2
  <2> QED
    BY <2>1, <2>3 DEF Bundles
<1>5. Contents[f.id] \in Seq(Nat)
  BY <1>2, <1>4 DEF StoreAssumption, Bundles
<1>6. ASSUME NEW n \in 1 .. MaxDepth, NEW x \in L[n], Beneath(x.path, f.path)
      PROVE  Below(f, k, n, x)
  <2>1. n \in 0 .. MaxDepth /\ Beneath(x.path, p.path)
    BY <1>2, <1>6
  <2>2. UnderIs(p, m, n, x)
    BY <1>1, <2>1, LevelUnder
  <2>3. PICK j : j = x.path[m + 1]
    OBVIOUS
  <2>4. j \in 1 .. Len(Contents[f.id]) /\ Kept(Contents[f.id][j]) /\ (n = m + 1 => x = Child(p, j))
    BY <1>2, <2>2, <2>3 DEF UnderIs, Entry
  <2>5. Child(p, j) = ItemAt(f, j)
    BY <1>2 DEF Child, ItemAt
  <2> QED
    BY <1>1, <2>3, <2>4, <2>5 DEF Inside, Below
<1>7. ASSUME NEW j \in 1 .. Len(Contents[f.id]), Kept(Contents[f.id][j]) PROVE ItemAt(f, j) \in L[k]
  <2>1. PICK c : c = Contents[f.id]
    OBVIOUS
  <2>2. j \in DOMAIN c /\ Kept(c[j])
    BY <1>5, <1>7, <2>1
  <2>3. Entry(p, j, m + 1)
    BY <1>1, <1>2, <2>1, <2>2 DEF Entry
  <2>4. Child(p, j) = ItemAt(f, j)
    BY <1>2 DEF Child, ItemAt
  <2>5. Child(p, j) \in L[m + 1]
    BY <1>1, <2>3 DEF Levels
  <2> QED
    BY <1>1, <2>4, <2>5
<1>8. FrameIs(f, k)
  BY <1>0, <1>2, <1>4, <1>5 DEF FrameIs
<1> QED
  BY <1>6, <1>7, <1>8

\* The end of a bundle: its frame goes, and nothing is passed by it.
LEMMA PopFinds ==
    ASSUME StoreAssumption, NEW r \in Root, NEW L, L = Level(r), NEW s, StackOn(L, s), s # << >>,
           s[Len(s)].at > Len(Contents[s[Len(s)].id])
    PROVE  StackOn(L, Front(s)) /\ \A x \in Expected(r) : Over(x, Front(s)) <=> Over(x, s)
<1>1. PICK m, f, b : m = Len(s) /\ f = s[m] /\ b = Front(s)
  OBVIOUS
<1>2. /\ Levels(L, r) /\ (\A x : x \in Expected(r) <=> \E n \in 1 .. MaxDepth : x \in L[n])
      /\ \A n \in 0 .. MaxDepth : Levelled(L, r, n)
  BY ExpectedAre
<1>3. MaxDepth \in Nat /\ m \in 1 .. MaxDepth /\ s \in Seq(Frames) /\ \A k \in 1 .. m : FrameOn(L, s[k], k)
  <2>1. MaxDepth \in Nat
    BY DEF StoreAssumption
  <2>2. s \in Seq(Frames) /\ m <= MaxDepth /\ \A k \in 1 .. m : FrameOn(L, s[k], k)
    BY <1>1 DEF StackOn
  <2>3. m \in Nat /\ m # 0
    BY <1>1, <2>2
  <2> QED
    BY <2>1, <2>2, <2>3
<1>4. b \in Seq(Frames) /\ Len(b) = m - 1 /\ \A k \in 1 .. m - 1 : b[k] = s[k]
  <2>1. b = SubSeq(s, 1, Len(s) - 1)
    BY <1>1 DEF Front
  <2> QED
    BY SMTT(45), <1>1, <1>3, <2>1
<1>5. StackOn(L, b)
  <2>1. \A k \in 1 .. Len(b) : FrameOn(L, b[k], k)
    BY <1>3, <1>4
  <2>2. ASSUME NEW k \in 1 .. Len(b) - 1 PROVE Opener(b[k], b[k + 1])
    <3>1. k \in 1 .. m - 1 /\ k + 1 \in 1 .. m - 1
      BY <1>3, <1>4
    <3>2. Opener(s[k], s[k + 1])
      BY <1>1, <3>1 DEF StackOn
    <3> QED
      BY <1>4, <3>1, <3>2
  <2>3. Len(b) <= MaxDepth
    BY <1>3, <1>4
  <2> QED
    BY <1>4, <2>1, <2>2, <2>3 DEF StackOn
<1>6. /\ f.path \in Paths /\ Len(f.path) = m - 1 /\ f.at \in Nat /\ f.at > Len(Contents[f.id]) /\ Len(Contents[f.id]) \in Nat
      /\ \A n \in 1 .. MaxDepth : \A x \in L[n] : Beneath(x.path, f.path) => Inside(f, m, x)
  <2>1. FrameOn(L, f, m)
    BY <1>1, <1>3
  <2>2. FrameIs(f, m)
    BY <1>2, <1>3, <2>1, FrameTells
  <2>3. \A n \in 1 .. MaxDepth : \A x \in L[n] : Beneath(x.path, f.path) => Inside(f, m, x)
    <3>1. \A n \in 1 .. MaxDepth : \A x \in L[n] : Beneath(x.path, f.path) => Below(f, m, n, x)
      BY <1>2, <1>3, <2>1, FrameTells
    <3> QED
      BY <3>1 DEF Below
  <2>4. f.at > Len(Contents[f.id])
    BY <1>1
  <2> QED
    BY SMTT(45), <2>2, <2>3, <2>4 DEF FrameIs
<1>7. ASSUME NEW x \in Expected(r) PROVE Over(x, b) <=> Over(x, s)
  <2>1. PICK n \in 1 .. MaxDepth : x \in L[n]
    BY <1>2
  <2>2. x.path \in Paths /\ Len(x.path) = n
    BY <1>2, <2>1 DEF Levelled
  <2>3. Beneath(x.path, f.path) => x.path[m] < f.at
    <3>1. PICK c, N : c = x.path[m] /\ N = Len(Contents[f.id])
      OBVIOUS
    <3>2. Beneath(x.path, f.path) => c \in 1 .. N
      BY <1>6, <2>1, <3>1 DEF Inside
    <3>3. N \in Nat /\ f.at \in Nat /\ f.at > N
      BY <1>6, <3>1
    <3>4. Beneath(x.path, f.path) => c < f.at
      BY <3>2, <3>3
    <3> QED
      BY <3>1, <3>4
  <2>4. Over(x, s) <=> Upto(x.path, f.path, f.at)
    BY <1>1 DEF Over
  <2>5. CASE m = 1
    <3>1. Len(f.path) = 0 /\ b = << >>
      BY <1>4, <1>6, <2>5
    <3>2. Beneath(x.path, f.path) /\ Len(f.path) + 1 = m
      BY <2>2, <2>5, <3>1 DEF Beneath
    <3>3. Upto(x.path, f.path, f.at)
      BY <2>3, <3>2 DEF Upto
    <3> QED
      BY <2>4, <3>1, <3>3 DEF Over
  <2>6. CASE m # 1
    <3>0. PICK v : v = m - 1
      OBVIOUS
    <3>1. v \in 1 .. MaxDepth /\ v \in 1 .. m - 1 /\ v \in 1 .. m /\ v + 1 = m
      BY <1>3, <2>6, <3>0
    <3>2. PICK g : g = s[v]
      OBVIOUS
    <3>3. f.path = Append(g.path, g.at - 1)
      <4>1. Opener(s[v], s[v + 1])
        BY <1>1, <3>1 DEF StackOn
      <4> QED
        BY <1>1, <3>1, <3>2, <4>1 DEF Opener
    <3>4. FrameOn(L, g, v)
      BY <1>3, <3>1, <3>2
    <3>5. FrameIs(g, v)
      BY <1>2, <3>1, <3>4, FrameTells
    <3>6. PICK a : a = g.at - 1
      OBVIOUS
    <3>7. a \in Nat /\ a + 1 = g.at /\ Len(g.path) + 2 = m /\ g.path \in Paths
      <4>1. PICK N, e, d : N = Len(Contents[g.id]) /\ e = g.at /\ d = Len(g.path)
        OBVIOUS
      <4>2. e \in 1 .. N + 1 /\ N \in Nat /\ g.path \in Paths /\ d = v - 1
        BY <3>5, <4>1 DEF FrameIs
      <4>3. a \in Nat /\ a + 1 = e
        <5>1. a = e - 1
          BY <3>6, <4>1
        <5>2. e \in Nat /\ e >= 1
          BY <4>2
        <5> QED
          BY <5>1, <5>2
      <4>4. d + 2 = m
        BY <3>1, <4>2
      <4> QED
        BY <4>1, <4>2, <4>3, <4>4
    <3>8. Upto(x.path, Append(g.path, a), f.at) <=> Upto(x.path, g.path, a + 1)
      <4>1. Beneath(x.path, Append(g.path, a)) => x.path[Len(g.path) + 2] < f.at
        BY <2>3, <3>3, <3>6, <3>7
      <4> QED
        BY <1>6, <2>2, <3>7, <4>1, UptoEnd
    <3>9. Over(x, b) <=> Upto(x.path, g.path, g.at)
      <4>1. b # << >> /\ b[Len(b)] = g
        BY <1>4, <3>0, <3>1, <3>2
      <4> QED
        BY <4>1 DEF Over
    <3> QED
      BY <2>4, <3>3, <3>6, <3>7, <3>8, <3>9
  <2> QED
    BY <2>5, <2>6
<1> QED
  BY <1>1, <1>5, <1>7

-----------------------------------------------------------------------------
(* A frame that moves on, and one that is opened.                          *)

LEMMA OverTop == ASSUME NEW x, NEW s, s # << >>, NEW g, s[Len(s)] = g PROVE Over(x, s) <=> Upto(x.path, g.path, g.at)
BY DEF Over

\* The frame at the top moves to the next entry.
OneOn(s, m) == [s EXCEPT ![m].at = @ + 1]
Advanced(L, r, s, a, f, m, y) ==
    /\ StackOn(L, a) /\ Len(a) = m /\ a[m].path = f.path /\ a[m].at = f.at + 1
    /\ f.path \in Paths /\ f.at \in Nat /\ Len(f.path) + 1 = m /\ y.path \in Paths
    /\ Kept(y.id) => y \in L[m] /\ y \in Expected(r)
    /\ \A x \in Expected(r) :
          /\ Over(x, a) <=> Over(x, s) \/ (Beneath(x.path, f.path) /\ x.path[m] = f.at)
          /\ Beneath(x.path, f.path) /\ x.path[m] = f.at <=> Kept(y.id) /\ (x = y \/ Beneath(x.path, y.path))
LEMMA FrameOne ==
    ASSUME NEW i, NEW p, NEW c \in Nat, NEW f, f = [id |-> i, path |-> p, at |-> c]
    PROVE  [f EXCEPT !.at = f.at + 1] = [id |-> i, path |-> p, at |-> c + 1]
<1>1. PICK d : d = c + 1
  OBVIOUS
<1>2. [f EXCEPT !.at = d] = [id |-> i, path |-> p, at |-> d] /\ f.at = c
  OBVIOUS
<1> QED
  BY <1>1, <1>2
LEMMA AdvanceFinds ==
    ASSUME StoreAssumption, NEW r \in Root, NEW L, L = Level(r), NEW s, StackOn(L, s), s # << >>,
           NEW m, m = Len(s), NEW f, f = s[m], f.at <= Len(Contents[f.id]),
           NEW a, a = OneOn(s, m), NEW y, y = ItemAt(f, f.at)
    PROVE  Advanced(L, r, s, a, f, m, y)
<1>2. /\ Levels(L, r) /\ (\A x : x \in Expected(r) <=> \E n \in 1 .. MaxDepth : x \in L[n])
      /\ \A n \in 0 .. MaxDepth : Levelled(L, r, n)
  BY ExpectedAre
<1>3. MaxDepth \in Nat /\ m \in 1 .. MaxDepth /\ s \in Seq(Frames) /\ \A k \in 1 .. m : FrameOn(L, s[k], k)
  BY DEF StoreAssumption, StackOn
<1>4. FrameOn(L, f, m) /\ f \in Frames
  BY <1>3
<1>5. FrameIs(f, m)
  BY <1>2, <1>3, <1>4, FrameTells
<1>6. PICK N, c, p : N = Len(Contents[f.id]) /\ c = f.at /\ p = f.path
  OBVIOUS
<1>7. N \in Nat /\ c \in 1 .. N /\ c \in Nat /\ p \in Paths /\ Len(p) = m - 1 /\ Len(p) + 1 = m
  <2>1. N \in Nat /\ c \in 1 .. N + 1 /\ c <= N /\ p \in Paths /\ Len(p) = m - 1
    BY SMTT(45), <1>5, <1>6 DEF FrameIs
  <2> QED
    BY <1>3, <2>1
<1>8. \A n \in 1 .. MaxDepth : \A x \in L[n] : Beneath(x.path, p) => Inside(f, m, x) /\ (n = m => x = ItemAt(f, x.path[m]))
  <2>1. ASSUME NEW n \in 1 .. MaxDepth, NEW x \in L[n], Beneath(x.path, f.path)
        PROVE  Inside(f, m, x) /\ (n = m => x = ItemAt(f, x.path[m]))
    <3>1. Levels(L, r) /\ m \in 1 .. MaxDepth /\ FrameOn(L, f, m)
      BY <1>2, <1>3, <1>4
    <3>2. Below(f, m, n, x)
      BY <2>1, <3>1, FrameTells
    <3> QED
      BY <3>2 DEF Below
  <2> QED
    BY <1>6, <2>1
<1>9. Kept(y.id) => y \in L[m] /\ y \in Expected(r)
  <2>1. \A j \in 1 .. N : Kept(Contents[f.id][j]) => ItemAt(f, j) \in L[m]
    <3>1. \A j \in 1 .. Len(Contents[f.id]) : Kept(Contents[f.id][j]) => ItemAt(f, j) \in L[m]
      BY <1>2, <1>3, <1>4, FrameTells
    <3> QED
      BY <1>6, <3>1
  <2>2. y.id = Contents[f.id][c] /\ y = ItemAt(f, c)
    BY <1>6 DEF ItemAt
  <2> QED
    BY <1>2, <1>3, <1>7, <2>1, <2>2
<1>10. PICK g : g = [id |-> f.id, path |-> p, at |-> c + 1]
  OBVIOUS
<1>11. f = [id |-> f.id, path |-> p, at |-> c]
  BY <1>4, <1>6 DEF Frames
<1>12. a = [s EXCEPT ![m] = g]
  <2>1. PICK i : i = f.id
    OBVIOUS
  <2>2. f = [id |-> i, path |-> p, at |-> c] /\ g = [id |-> i, path |-> p, at |-> c + 1]
    BY <1>10, <1>11, <2>1
  <2>3. [f EXCEPT !.at = f.at + 1] = g
    BY SMTT(45), <1>6, <1>7, <2>2, FrameOne
  <2>4. a = [s EXCEPT ![m] = [f EXCEPT !.at = f.at + 1]]
    BY DEF OneOn
  <2> QED
    BY <2>3, <2>4
<1>13. g \in Frames /\ FrameOn(L, g, m)
  <2>1. c + 1 \in 1 .. N + 1 /\ c + 1 \in Nat
    BY <1>7
  <2>2. g \in Frames
    BY <1>4, <1>7, <1>10, <2>1 DEF Frames
  <2> QED
    BY <1>4, <1>6, <1>10, <2>1, <2>2 DEF FrameOn
<1>14. a \in Seq(Frames) /\ Len(a) = m /\ a[m] = g /\ \A k \in 1 .. m - 1 : a[k] = s[k]
  <2>1. m \in 1 .. Len(s) /\ m \in Nat
    BY <1>3
  <2>2. g \in Frames
    BY <1>13
  <2> HIDE DEF Frames
  <2>3. [s EXCEPT ![m] = g] \in Seq(Frames) /\ Len([s EXCEPT ![m] = g]) = Len(s)
    BY <1>3, <2>1, <2>2
  <2>4. [s EXCEPT ![m] = g][m] = g /\ \A k \in 1 .. m - 1 : [s EXCEPT ![m] = g][k] = s[k]
    BY <1>3, <2>1
  <2> QED
    BY <1>12, <2>3, <2>4
<1>15. StackOn(L, a)
  <2>1. \A k \in 1 .. m : k = m \/ k \in 1 .. m - 1
    BY <1>3
  <2>2. \A k \in 1 .. m : FrameOn(L, a[k], k)
    BY <1>3, <1>13, <1>14, <2>1
  <2>3. \A k \in 1 .. m : a[k].path = s[k].path
    <3>1. a[m].path = s[m].path
      BY <1>6, <1>10, <1>14
    <3> QED
      BY <1>14, <2>1, <3>1
  <2>4. ASSUME NEW k \in 1 .. m - 1 PROVE Opener(a[k], a[k + 1])
    <3>1. k \in 1 .. m /\ k + 1 \in 1 .. m /\ a[k] = s[k]
      <4>1. m \in Nat
        BY <1>3
      <4>2. k \in 1 .. m /\ k + 1 \in 1 .. m
        BY <4>1
      <4> QED
        BY <1>14, <4>2
    <3>2. Opener(s[k], s[k + 1]) /\ a[k + 1].path = s[k + 1].path
      BY <2>3, <3>1 DEF StackOn
    <3> QED
      BY <3>1, <3>2 DEF Opener
  <2>5. Len(a) <= MaxDepth
    BY <1>3, <1>14
  <2> QED
    BY <1>14, <2>2, <2>4, <2>5 DEF StackOn
<1>16. y.path = Append(p, c) /\ y.path \in Paths /\ Len(y.path) = m
  <2>1. y.path = Append(p, c)
    BY <1>6 DEF ItemAt
  <2>2. Append(p, c) \in Paths /\ Len(Append(p, c)) = Len(p) + 1
    BY <1>7 DEF Paths
  <2> QED
    BY <1>7, <2>1, <2>2
<1>17. ASSUME NEW x \in Expected(r)
       PROVE  /\ Over(x, a) <=> Over(x, s) \/ (Beneath(x.path, p) /\ x.path[m] = c)
              /\ Beneath(x.path, p) /\ x.path[m] = c <=> Kept(y.id) /\ (x = y \/ Beneath(x.path, y.path))
  <2>1. PICK n \in 1 .. MaxDepth : x \in L[n]
    BY <1>2, <1>17
  <2>2. PICK q : q = x.path
    OBVIOUS
  <2>3. q \in Paths /\ Len(q) = n
    <3>1. n \in 0 .. MaxDepth
      OBVIOUS
    <3> QED
      BY <1>2, <2>1, <2>2, <3>1 DEF Levelled
  <2>4. Upto(q, p, c + 1) <=> Upto(q, p, c) \/ (Beneath(q, p) /\ q[Len(p) + 1] = c)
    BY <1>7, <2>3, UptoNext
  <2>5. Over(x, a) <=> Upto(q, p, c + 1)
    <3>1. a # << >> /\ a[Len(a)] = g
      BY <1>3, <1>14
    <3>2. g.path = p /\ g.at = c + 1
      BY <1>10
    <3> QED
      BY <2>2, <3>1, <3>2, OverTop
  <2>6. Over(x, s) <=> Upto(q, p, c)
    BY <1>6, <2>2 DEF Over
  <2>7. q[Len(p) + 1] = q[m]
    BY <1>7
  <2>8. (q = Append(p, c) \/ Beneath(q, Append(p, c))) <=> (Beneath(q, p) /\ q[Len(p) + 1] = c)
    BY <1>7, <2>3, BeneathAppend
  <2>9. ASSUME Beneath(q, p), q[m] = c PROVE Kept(y.id) /\ (n = m => x = y)
    <3>1. Inside(f, m, x) /\ (n = m => x = ItemAt(f, x.path[m]))
      BY <1>8, <2>1, <2>2, <2>9
    <3>2. x.path[m] = c /\ y = ItemAt(f, c) /\ y.id = Contents[f.id][c]
      BY <1>6, <2>2, <2>9 DEF ItemAt
    <3> QED
      BY <3>1, <3>2 DEF Inside
  <2>10. q = y.path => n = m
    BY <1>16, <2>3
  <2>11. Beneath(q, p) /\ q[m] = c <=> Kept(y.id) /\ (x = y \/ Beneath(q, y.path))
    <3>1. ASSUME Beneath(q, p), q[m] = c PROVE Kept(y.id) /\ (x = y \/ Beneath(q, y.path))
      BY <1>16, <2>7, <2>8, <2>9, <2>10, <3>1
    <3>2. ASSUME x = y \/ Beneath(q, y.path) PROVE Beneath(q, p) /\ q[m] = c
      BY <1>16, <2>2, <2>7, <2>8, <3>2
    <3> QED
      BY <3>1, <3>2
  <2> QED
    BY <2>2, <2>4, <2>5, <2>6, <2>7, <2>11
<1>18. a[m].path = f.path /\ a[m].at = f.at + 1
  BY <1>6, <1>10, <1>14
<1>19. \A x \in Expected(r) :
          /\ Over(x, a) <=> Over(x, s) \/ (Beneath(x.path, f.path) /\ x.path[m] = f.at)
          /\ Beneath(x.path, f.path) /\ x.path[m] = f.at <=> Kept(y.id) /\ (x = y \/ Beneath(x.path, y.path))
  BY <1>6, <1>17
<1>20. f.path \in Paths /\ f.at \in Nat /\ Len(f.path) + 1 = m
  BY <1>6, <1>7
<1> QED
  BY <1>9, <1>14, <1>15, <1>16, <1>18, <1>19, <1>20 DEF Advanced

\* A bundle is opened at its first entry: only itself is passed.
Entered(L, r, s, b, y) == StackOn(L, b) /\ y \in Expected(r) /\ \A x \in Expected(r) : Over(x, b) <=> Over(x, s) \/ x = y
LEMMA OpenFinds ==
    ASSUME StoreAssumption, NEW r \in Root, NEW L, L = Level(r), NEW s, StackOn(L, s), s # << >>,
           NEW m, m = Len(s), NEW f, f = s[m], f.at <= Len(Contents[f.id]),
           NEW a, a = OneOn(s, m), NEW y, y = ItemAt(f, f.at),
           Kept(y.id), y.id \in Nested, m < MaxDepth, NEW b, b = Append(a, Frame(y.id, y.path))
    PROVE  Entered(L, r, s, b, y)
<1>1. PICK g, p, c : g = Frame(y.id, y.path) /\ p = f.path /\ c = f.at
  OBVIOUS
<1>2. /\ Levels(L, r) /\ (\A x : x \in Expected(r) <=> \E n \in 1 .. MaxDepth : x \in L[n])
      /\ \A n \in 0 .. MaxDepth : Levelled(L, r, n)
  BY ExpectedAre
<1>3. Advanced(L, r, s, a, f, m, y)
  BY AdvanceFinds
<1>4. /\ StackOn(L, a) /\ Len(a) = m /\ a[m].path = p /\ a[m].at = c + 1 /\ p \in Paths /\ c \in Nat /\ Len(p) + 1 = m
      /\ y.path \in Paths /\ y \in L[m] /\ y \in Expected(r)
  BY <1>1, <1>3 DEF Advanced
<1>5. MaxDepth \in Nat /\ m \in 1 .. MaxDepth /\ a \in Seq(Frames)
  <2>1. MaxDepth \in Nat /\ a \in Seq(Frames) /\ s \in Seq(Frames)
    BY <1>4 DEF StackOn, StoreAssumption
  <2>2. Len(s) <= MaxDepth /\ Len(s) \in Nat /\ Len(s) # 0
    BY <2>1 DEF StackOn
  <2> QED
    BY <2>1, <2>2
<1>0. PICK v : v = m + 1
  OBVIOUS
<1>6. g = [id |-> y.id, path |-> y.path, at |-> 1] /\ y.id \in Bundles /\ v \in 1 .. MaxDepth /\ v - 1 = m
  BY <1>0, <1>1, <1>5 DEF Frame, Bundles
<1>7. g \in Frames /\ FrameOn(L, g, v)
  <2>1. g \in Frames
    BY <1>4, <1>6 DEF Frames
  <2>2. PICK N : N = Len(Contents[g.id])
    OBVIOUS
  <2>3. N \in Nat
    BY <1>6, <2>2 DEF StoreAssumption, Bundles
  <2>4. 1 \in 1 .. N + 1
    BY <2>3
  <2>5. y \in L[v - 1]
    BY <1>4, <1>6
  <2> QED
    BY <1>6, <2>1, <2>2, <2>4, <2>5 DEF FrameOn
<1>8. b \in Seq(Frames) /\ Len(b) = v /\ b[v] = g /\ \A k \in 1 .. m : b[k] = a[k]
  <2>1. b = Append(a, g)
    BY <1>1
  <2> QED
    BY <1>0, <1>4, <1>5, <1>7, <2>1
<1>9. StackOn(L, b)
  <2>1. \A k \in 1 .. v : k = v \/ k \in 1 .. m
    BY <1>0, <1>5
  <2>2. \A k \in 1 .. v : FrameOn(L, b[k], k)
    <3>1. \A k \in 1 .. m : FrameOn(L, a[k], k)
      BY <1>4 DEF StackOn
    <3> QED
      BY ZenonT(60), <1>7, <1>8, <2>1, <3>1
  <2>3. ASSUME NEW k \in 1 .. v - 1 PROVE Opener(b[k], b[k + 1])
    <3>1. k \in 1 .. m /\ b[k] = a[k]
      BY <1>6, <1>8
    <3>2. CASE k = m
      <4>1. k + 1 = v /\ (c + 1) - 1 = c
        BY <1>0, <1>4, <3>2
      <4>2. y.path = Append(p, c)
        BY <1>1 DEF ItemAt
      <4>3. b[k + 1] = g /\ b[k].at = c + 1 /\ b[k].path = p /\ g.path = y.path
        BY <1>4, <1>6, <1>8, <3>1, <3>2, <4>1
      <4>4. g.path = Append(b[k].path, b[k].at - 1)
        BY <4>1, <4>2, <4>3
      <4> QED
        BY <4>3, <4>4 DEF Opener
    <3>3. CASE k # m
      <4>1. k \in 1 .. m - 1 /\ k + 1 \in 1 .. m
        <5>1. m \in Nat /\ k \in Nat /\ 1 <= k /\ k <= m /\ k # m
          BY <1>5, <3>1, <3>3
        <5> QED
          BY SMTT(45), <5>1
      <4>2. Opener(a[k], a[k + 1])
        BY <1>4, <4>1 DEF StackOn
      <4> QED
        BY <1>8, <3>1, <4>1, <4>2
    <3> QED
      BY <3>2, <3>3
  <2>4. Len(b) <= MaxDepth
    BY <1>5, <1>6, <1>8
  <2> QED
    BY <1>8, <2>2, <2>3, <2>4 DEF StackOn
<1>10. ASSUME NEW x \in Expected(r) PROVE Over(x, b) <=> Over(x, s) \/ x = y
  <2>1. PICK n \in 1 .. MaxDepth : x \in L[n]
    BY <1>2, <1>10
  <2>2. PICK q, e : q = x.path /\ e = Append(p, c)
    OBVIOUS
  <2>3. q \in Paths /\ Len(q) = n
    <3>1. n \in 0 .. MaxDepth
      OBVIOUS
    <3> QED
      BY <1>2, <2>1, <2>2, <3>1 DEF Levelled
  <2>4. y.path = e /\ g.path = e /\ Len(p) + 2 = v
    <3>1. y.path = Append(p, c)
      BY <1>1 DEF ItemAt
    <3>2. Len(p) + 2 = v
      <4>1. PICK d : d = Len(p)
        OBVIOUS
      <4>2. d \in Nat /\ d + 1 = m
        BY <1>4, <4>1 DEF Paths
      <4>3. d + 2 = v
        BY SMTT(45), <1>0, <4>2
      <4> QED
        BY <4>1, <4>3
    <3> QED
      BY <1>6, <2>2, <3>1, <3>2
  <2>5. Beneath(q, e) => q[Len(p) + 2] >= 1
    <3>1. FrameIs(g, v)
      BY <1>2, <1>6, <1>7, FrameTells
    <3>2. Beneath(x.path, g.path) => Inside(g, v, x)
      <4>1. Beneath(x.path, g.path) => Below(g, v, n, x)
        BY <1>2, <1>6, <1>7, <2>1, FrameTells
      <4> QED
        BY <4>1 DEF Below
    <3>3. PICK N, d : N = Len(Contents[g.id]) /\ d = x.path[v]
      OBVIOUS
    <3>4. Beneath(q, e) => d \in 1 .. N
      BY <2>2, <2>4, <3>2, <3>3 DEF Inside
    <3>5. N \in Nat
      BY <3>1, <3>3 DEF FrameIs
    <3>6. Beneath(q, e) => d >= 1
      BY <3>4, <3>5
    <3> QED
      BY <2>2, <2>4, <3>3, <3>6
  <2>6. Upto(q, e, 1) <=> Upto(q, p, c) \/ q = e
    <3>1. p \in Paths /\ c \in Nat /\ (Beneath(q, Append(p, c)) => q[Len(p) + 2] >= 1)
      BY <1>4, <2>2, <2>5
    <3>2. Upto(q, Append(p, c), 1) <=> Upto(q, p, c) \/ q = Append(p, c)
      BY <2>3, <3>1, UptoStart
    <3> QED
      BY <2>2, <3>2
  <2>7. Over(x, s) <=> Upto(q, p, c)
    BY <1>1, <2>2 DEF Over
  <2>8. Over(x, b) <=> Upto(q, e, 1)
    <3>1. b # << >> /\ b[Len(b)] = g
      BY <1>6, <1>8
    <3>2. g.path = e /\ g.at = 1
      BY <1>6, <2>4
    <3> QED
      <4>1. Over(x, b) <=> Upto(x.path, g.path, g.at)
        BY <3>1, OverTop
      <4> QED
        BY <2>2, <3>2, <4>1
  <2>9. ASSUME q = e PROVE x = y
    <3>1. m \in 0 .. MaxDepth
      BY <1>5
    <3>2. Len(y.path) = m
      BY <1>2, <1>4, <3>1 DEF Levelled
    <3>3. n = m
      BY <2>3, <2>4, <2>9, <3>2
    <3>4. x \in L[m] /\ y \in L[m] /\ x.path = y.path
      BY <1>4, <2>1, <2>2, <2>4, <2>9, <3>3
    <3> QED
      BY <1>2, <3>1, <3>4, LevelOnce
  <2> QED
    BY <2>2, <2>4, <2>6, <2>7, <2>8, <2>9
<1> QED
  BY <1>4, <1>9, <1>10 DEF Entered

-----------------------------------------------------------------------------
(* A turn of the loop, a batch, and the start of a traversal.              *)

\* What one turn of the loop does to a traversal.
Leads(y) == y.id \in Nested /\ Contents[y.id] # << >>
TurnIs(t, m, f, a, y, n) ==
    /\ f.at > Len(Contents[f.id]) => n.stack = Front(t.stack) /\ n.out = t.out
    /\ ~(f.at > Len(Contents[f.id])) =>
          /\ ~Kept(y.id) => n.stack = a /\ n.out = t.out
          /\ Kept(y.id) /\ ~Leads(y) => n.stack = a /\ n.out = Append(t.out, y)
          /\ Kept(y.id) /\ Leads(y) /\ m < MaxDepth =>
                n.stack = Append(a, Frame(y.id, y.path)) /\ n.out = Append(t.out, y)
          /\ Kept(y.id) /\ Leads(y) /\ ~(m < MaxDepth) => n.failed

LEMMA SetStack ==
    ASSUME NEW s, NEW o, NEW e, NEW u PROVE [[stack |-> s, out |-> o, failed |-> e] EXCEPT !.stack = u] = [stack |-> u, out |-> o, failed |-> e]
OBVIOUS
LEMMA SetOut ==
    ASSUME NEW s, NEW o, NEW e, NEW u PROVE [[stack |-> s, out |-> o, failed |-> e] EXCEPT !.out = u] = [stack |-> s, out |-> u, failed |-> e]
OBVIOUS
LEMMA SetFailed ==
    ASSUME NEW s, NEW o, NEW e, NEW u PROVE [[stack |-> s, out |-> o, failed |-> e] EXCEPT !.failed = u] = [stack |-> s, out |-> o, failed |-> u]
OBVIOUS

Rest(t) == [t EXCEPT !.stack[Len(t.stack)].at = @ + 1]
LEMMA RestIs ==
    ASSUME NEW s, NEW o, NEW e, NEW t, t = [stack |-> s, out |-> o, failed |-> e]
    PROVE  Rest(t) = [stack |-> OneOn(s, Len(s)), out |-> o, failed |-> e]
<1>1. PICK u : u = OneOn(s, Len(s))
  OBVIOUS
<1>2. t.stack = s
  OBVIOUS
<1>3. [t.stack EXCEPT ![Len(t.stack)].at = @ + 1] = u
  BY <1>1, <1>2 DEF OneOn
<1>4. [t EXCEPT !.stack = u] = [stack |-> u, out |-> o, failed |-> e]
  BY SetStack
<1>5. [t EXCEPT !.stack[Len(t.stack)].at = @ + 1] = [t EXCEPT !.stack = [t.stack EXCEPT ![Len(t.stack)].at = @ + 1]]
  OBVIOUS
<1> QED
  BY <1>1, <1>3, <1>4, <1>5 DEF Rest

LEMMA TurnTells ==
    ASSUME NEW t \in Walk, NEW m, m = Len(t.stack), NEW f, f = t.stack[m], NEW a, a = OneOn(t.stack, m),
           Len(a) = m, NEW y, y = ItemAt(f, f.at), NEW n, n = NextEntry(t)
    PROVE  TurnIs(t, m, f, a, y, n)
<1>1. PICK s, o, e : s = t.stack /\ o = t.out /\ e = t.failed
  OBVIOUS
<1>2. t = [stack |-> s, out |-> o, failed |-> e]
  BY <1>1 DEF Walk
<1>3. Last(t.stack) = f
  BY DEF Last
<1>4. PICK i, p, z : i = Contents[f.id][f.at] /\ p = Append(f.path, f.at) /\ z = [stack |-> a, out |-> Append(o, y), failed |-> e]
  OBVIOUS
<1>5. y = [id |-> i, parent |-> f.id, path |-> p] /\ y.id = i /\ y.path = p
  BY <1>4 DEF ItemAt
<1>6. [t EXCEPT !.stack[Len(t.stack)].at = @ + 1] = [stack |-> a, out |-> o, failed |-> e]
  <2>1. a = OneOn(s, Len(s))
    BY <1>1
  <2>2. Rest(t) = [stack |-> OneOn(s, Len(s)), out |-> o, failed |-> e]
    BY <1>2, RestIs
  <2> QED
    BY <2>1, <2>2 DEF Rest
<1>7. [[stack |-> a, out |-> o, failed |-> e] EXCEPT !.out = Append(o, y)] = z
  <2>1. PICK q : q = Append(o, y)
    OBVIOUS
  <2>2. [[stack |-> a, out |-> o, failed |-> e] EXCEPT !.out = q] = [stack |-> a, out |-> q, failed |-> e]
    BY SetOut
  <2> QED
    BY <1>4, <2>1, <2>2
<1>8. n = IF f.at > Len(Contents[f.id]) THEN [t EXCEPT !.stack = Pop(@)]
          ELSE IF ~Kept(i) THEN [stack |-> a, out |-> o, failed |-> e] ELSE Opened(z, i, p)
  <2>1. PICK x : x = [stack |-> a, out |-> o, failed |-> e]
    OBVIOUS
  <2>2. [x EXCEPT !.out = Append(@, y)] = z
    <3>1. x.out = o
      BY SMTT(45), <2>1
    <3> QED
      BY <1>7, <2>1, <3>1
  <2>3. n = IF f.at > Len(Contents[f.id]) THEN [t EXCEPT !.stack = Pop(@)]
            ELSE IF ~Kept(i) THEN x ELSE Opened([x EXCEPT !.out = Append(@, y)], i, p)
    BY <1>3, <1>4, <1>5, <1>6, <2>1 DEF NextEntry
  <2> QED
    BY <2>1, <2>2, <2>3
<1>9. CASE f.at > Len(Contents[f.id])
  <2>1. n = [t EXCEPT !.stack = Front(s)]
    BY <1>1, <1>8, <1>9 DEF Pop
  <2>2. n = [stack |-> Front(s), out |-> o, failed |-> e]
    BY <1>2, <2>1, SetStack
  <2> QED
    BY <1>1, <1>9, <2>2 DEF TurnIs
<1>10. CASE ~(f.at > Len(Contents[f.id])) /\ ~Kept(i)
  <2>1. n = [stack |-> a, out |-> o, failed |-> e]
    BY <1>8, <1>10
  <2> QED
    BY <1>1, <1>5, <1>10, <2>1 DEF TurnIs
<1>11. CASE ~(f.at > Len(Contents[f.id])) /\ Kept(i)
  <2>1. n = Opened(z, i, p)
    BY <1>8, <1>11
  <2>2. z.stack = a /\ z.out = Append(o, y)
    BY <1>4
  <2>3. n = IF ~Leads(y) THEN z ELSE IF m < MaxDepth THEN [z EXCEPT !.stack = Append(a, Frame(i, p))] ELSE [z EXCEPT !.failed = TRUE]
    BY SMTT(45), <1>5, <2>1, <2>2 DEF Opened, Leads
  <2>4. [z EXCEPT !.stack = Append(a, Frame(i, p))] = [stack |-> Append(a, Frame(i, p)), out |-> Append(o, y), failed |-> e]
    <3>1. PICK q, w : q = Append(o, y) /\ w = Append(a, Frame(i, p))
      OBVIOUS
    <3>2. [[stack |-> a, out |-> q, failed |-> e] EXCEPT !.stack = w] = [stack |-> w, out |-> q, failed |-> e]
      BY SetStack
    <3> QED
      BY <1>4, <3>1, <3>2
  <2>5. [z EXCEPT !.failed = TRUE] = [stack |-> a, out |-> Append(o, y), failed |-> TRUE]
    <3>1. PICK q : q = Append(o, y)
      OBVIOUS
    <3>2. PICK u : u = TRUE
      OBVIOUS
    <3>3. [[stack |-> a, out |-> q, failed |-> e] EXCEPT !.failed = u] = [stack |-> a, out |-> q, failed |-> u]
      BY SetFailed
    <3> QED
      BY <1>4, <3>1, <3>2, <3>3
  <2>6. CASE ~Leads(y)
    BY <1>1, <1>5, <1>11, <2>2, <2>3, <2>6 DEF TurnIs
  <2>7. CASE Leads(y) /\ m < MaxDepth
    <3>1. n.stack = Append(a, Frame(i, p)) /\ n.out = Append(o, y)
      BY <2>3, <2>4, <2>7
    <3> QED
      BY <1>1, <1>5, <1>11, <2>7, <3>1 DEF TurnIs
  <2>8. CASE Leads(y) /\ ~(m < MaxDepth)
    <3>1. n.failed
      BY <2>3, <2>5, <2>8
    <3> QED
      BY <1>5, <1>11, <2>8, <3>1 DEF TurnIs
  <2> QED
    BY <2>6, <2>7, <2>8
<1> QED
  BY <1>9, <1>10, <1>11

\* One turn of the loop passes nothing, or the entry that it takes into the batch.
Finds(L, r, t, n) ==
    /\ StackOn(L, n.stack)
    /\ \/ n.out = t.out /\ \A x \in Expected(r) : Over(x, n.stack) <=> Over(x, t.stack)
       \/ \E y \in Expected(r) : /\ n.out = Append(t.out, y)
                                 /\ \A x \in Expected(r) : Over(x, n.stack) <=> Over(x, t.stack) \/ x = y
LEMMA NextEntryFinds ==
    ASSUME StoreAssumption, NEW r \in Root, NEW L, L = Level(r), NEW t \in Walk, StackOn(L, t.stack), t.stack # << >>,
           NEW n, n = NextEntry(t), ~n.failed
    PROVE  Finds(L, r, t, n)
<1>1. PICK s, m : s = t.stack /\ m = Len(s)
  OBVIOUS
<1>2. PICK f : f = s[m]
  OBVIOUS
<1>3. PICK a, y : a = OneOn(s, m) /\ y = ItemAt(f, f.at)
  OBVIOUS
<1>4. StackOn(L, s) /\ s # << >> /\ s \in Seq(Frames)
  BY <1>1 DEF StackOn
<1>5. m \in Nat /\ m # 0
  BY <1>1, <1>4
<1>6. Len(a) = m
  BY <1>1, <1>3, <1>4 DEF OneOn
<1>7. TurnIs(t, m, f, a, y, n)
  BY <1>1, <1>2, <1>3, <1>6, TurnTells
<1>8. CASE f.at > Len(Contents[f.id])
  <2>1. n.stack = Front(s) /\ n.out = t.out
    BY <1>1, <1>7, <1>8 DEF TurnIs
  <2>2. StackOn(L, Front(s)) /\ \A x \in Expected(r) : Over(x, Front(s)) <=> Over(x, s)
    BY <1>1, <1>2, <1>4, <1>8, PopFinds
  <2> QED
    BY <1>1, <2>1, <2>2 DEF Finds
<1>9. CASE ~(f.at > Len(Contents[f.id]))
  <2>1. f.at <= Len(Contents[f.id])
    <3>1. f \in Frames
      BY <1>1, <1>2, <1>4, <1>5
    <3>2. PICK c, N, b : c = f.at /\ N = Len(Contents[f.id]) /\ b = Contents[f.id]
      OBVIOUS
    <3>3. c \in Nat /\ b \in Seq(Nat)
      BY <3>1, <3>2 DEF Frames, StoreAssumption, Bundles
    <3>4. N \in Nat
      BY <3>2, <3>3
    <3> QED
      BY <1>9, <3>2, <3>3, <3>4
  <2>2. Advanced(L, r, s, a, f, m, y)
    BY <1>1, <1>2, <1>3, <1>4, <2>1, AdvanceFinds
  <2>3. StackOn(L, a) /\ (Kept(y.id) => y \in L[m] /\ y \in Expected(r))
    BY <2>2 DEF Advanced
  <2>4. \A x \in Expected(r) : Over(x, a) <=> Over(x, s) \/ (Kept(y.id) /\ (x = y \/ Beneath(x.path, y.path)))
    BY <2>2 DEF Advanced
  <2>5. CASE ~Kept(y.id)
    <3>1. n.stack = a /\ n.out = t.out
      BY <1>7, <1>9, <2>5 DEF TurnIs
    <3> QED
      BY <1>1, <2>3, <2>4, <2>5, <3>1 DEF Finds
  <2>6. CASE Kept(y.id) /\ ~Leads(y)
    <3>1. n.stack = a /\ n.out = Append(t.out, y)
      BY <1>7, <1>9, <2>6 DEF TurnIs
    <3>2. y \in L[m] /\ y \in Expected(r)
      BY <2>3, <2>6
    <3>3. ASSUME NEW x \in Expected(r), Beneath(x.path, y.path) PROVE FALSE
      <4>1. Levels(L, r) /\ \E u \in 1 .. MaxDepth : x \in L[u]
        BY ExpectedAre
      <4>2. PICK u \in 1 .. MaxDepth : x \in L[u]
        BY <4>1
      <4>3. u \in 0 .. MaxDepth /\ m \in 0 .. MaxDepth
        <5>1. m <= MaxDepth /\ MaxDepth \in Nat
          BY <1>1, <1>4 DEF StackOn, StoreAssumption
        <5> QED
          BY <1>5, <4>2, <5>1
      <4>4. UnderIs(y, m, u, x)
        BY <3>2, <3>3, <4>1, <4>2, <4>3, LevelUnder
      <4>5. m + 1 # 1
        BY <1>5
      <4>6. PICK j, b : j = x.path[m + 1] /\ b = Contents[y.id]
        OBVIOUS
      <4>7. b \in Seq(Nat) /\ j \in 1 .. Len(b) /\ y.id \in Nested
        BY <4>4, <4>5, <4>6 DEF UnderIs, Entry
      <4>8. b # << >>
        BY <4>7
      <4> QED
        BY <2>6, <4>6, <4>7, <4>8 DEF Leads
    <3>4. \A x \in Expected(r) : Over(x, n.stack) <=> Over(x, t.stack) \/ x = y
      BY <1>1, <2>4, <2>6, <3>1, <3>3
    <3> QED
      BY <2>3, <3>1, <3>2, <3>4 DEF Finds
  <2>7. CASE Kept(y.id) /\ Leads(y)
    <3>1. PICK b : b = Append(a, Frame(y.id, y.path))
      OBVIOUS
    <3>2. m < MaxDepth /\ n.stack = b /\ n.out = Append(t.out, y)
      BY <1>7, <1>9, <2>7, <3>1 DEF TurnIs
    <3>3. y.id \in Nested
      BY <2>7 DEF Leads
    <3>4. StackOn(L, b) /\ y \in Expected(r) /\ \A x \in Expected(r) : Over(x, b) <=> Over(x, s) \/ x = y
      <4>1. Kept(y.id)
        BY <2>7
      <4>2. Entered(L, r, s, b, y)
        <5>1. StackOn(L, s) /\ s # << >> /\ m = Len(s) /\ f = s[m] /\ f.at <= Len(Contents[f.id]) /\ a = OneOn(s, m)
          BY <1>1, <1>2, <1>3, <1>4, <2>1
        <5>2. y = ItemAt(f, f.at) /\ Kept(y.id) /\ y.id \in Nested /\ m < MaxDepth /\ b = Append(a, Frame(y.id, y.path))
          BY <1>3, <3>1, <3>2, <3>3, <4>1
        <5> HIDE DEF Entered
        <5> QED
          BY <5>1, <5>2, OpenFinds
      <4> QED
        BY <4>2 DEF Entered
    <3> QED
      BY <1>1, <3>2, <3>4 DEF Finds
  <2> QED
    BY <2>5, <2>6, <2>7
<1> QED
  BY <1>8, <1>9

LEMMA ToSetAppend == ASSUME NEW s, NEW S, s \in Seq(S), NEW y PROVE ToSet(Append(s, y)) = ToSet(s) \cup {y}
<1>1. PICK a, n : a = Append(s, y) /\ n = Len(s)
  OBVIOUS
<1>2. n \in Nat /\ DOMAIN s = 1 .. n
  BY <1>1
<1>3. DOMAIN a = 1 .. n + 1 /\ a[n + 1] = y /\ \A i \in 1 .. n : a[i] = s[i]
  BY <1>1
<1>4. 1 .. n + 1 = (1 .. n) \cup {n + 1}
  BY <1>2
<1> QED
  BY <1>1, <1>2, <1>3, <1>4 DEF ToSet

\* A batch passes what it takes.
Taken(L, r, t, n) ==
    /\ n \in Walk /\ StackOn(L, n.stack) /\ Ended(n) /\ ToSet(n.out) \subseteq Expected(r)
    /\ Passed(r, n.stack) = Passed(r, t.stack) \cup ToSet(n.out)
LEMMA NextBatchFinds ==
    ASSUME StoreAssumption, NEW r \in Root, NEW L, L = Level(r), NEW t \in Walk, StackOn(L, t.stack),
           NEW n, n = NextBatch(t), ~n.failed
    PROVE  Taken(L, r, t, n)
<1>0. Fuel \in Nat
  BY DEF StoreAssumption
<1>1. PICK f : /\ f[0] = [t EXCEPT !.out = << >>] /\ NextBatch(t) = Bounded(f[Fuel])
               /\ \A k \in 1 .. Fuel : f[k] = Passing(f[k - 1])
  BY <1>0, NextBatchRuns
<1> DEFINE Going(g) == /\ g \in Walk
                       /\ ~g.failed => /\ StackOn(L, g.stack) /\ ToSet(g.out) \subseteq Expected(r)
                                       /\ Passed(r, g.stack) = Passed(r, t.stack) \cup ToSet(g.out)
           S == {k \in Nat : k > Fuel \/ Going(f[k])}
<1>2. Going(f[0])
  <2>1. PICK g : g = [t EXCEPT !.out = << >>]
    OBVIOUS
  <2>2. g \in Walk /\ g.stack = t.stack /\ g.out = << >>
    <3>1. << >> \in Seq(Items)
      OBVIOUS
    <3> QED
      BY <2>1, <3>1 DEF Walk
  <2>3. ToSet(g.out) = {}
    BY <2>2 DEF ToSet
  <2>4. f[0] = g
    BY <1>1, <2>1
  <2> QED
    BY <2>2, <2>3, <2>4
<1>3. ASSUME NEW k \in Nat, k + 1 <= Fuel, Going(f[k]) PROVE Going(f[k + 1])
  <2>1. PICK g, h : g = f[k] /\ h = f[k + 1]
    OBVIOUS
  <2>2. h = Passing(g) /\ Going(g)
    <3>1. k + 1 \in 1 .. Fuel /\ (k + 1) - 1 = k
      BY <1>0, <1>3
    <3> QED
      BY <1>1, <1>3, <2>1, <3>1
  <2>3. CASE Ended(g)
    BY <2>1, <2>2, <2>3 DEF Passing
  <2>4. CASE ~Ended(g)
    <3>1. h = NextEntry(g) /\ g.stack # << >> /\ ~g.failed /\ g \in Walk
      BY <2>2, <2>4 DEF Passing, Ended
    <3>2. h \in Walk
      BY <3>1, NextEntryTyped
    <3>3. /\ StackOn(L, g.stack) /\ ToSet(g.out) \subseteq Expected(r)
          /\ Passed(r, g.stack) = Passed(r, t.stack) \cup ToSet(g.out)
      BY <2>2, <3>1
    <3>4. ASSUME ~h.failed
          PROVE  /\ StackOn(L, h.stack) /\ ToSet(h.out) \subseteq Expected(r)
                 /\ Passed(r, h.stack) = Passed(r, t.stack) \cup ToSet(h.out)
      <4>0. Finds(L, r, g, h)
        BY <3>1, <3>3, <3>4, NextEntryFinds
      <4>1. /\ StackOn(L, h.stack)
            /\ \/ h.out = g.out /\ \A x \in Expected(r) : Over(x, h.stack) <=> Over(x, g.stack)
               \/ \E y \in Expected(r) : /\ h.out = Append(g.out, y)
                                         /\ \A x \in Expected(r) : Over(x, h.stack) <=> Over(x, g.stack) \/ x = y
        BY <4>0 DEF Finds
      <4>2. CASE h.out = g.out /\ \A x \in Expected(r) : Over(x, h.stack) <=> Over(x, g.stack)
        <5>1. Passed(r, h.stack) = Passed(r, g.stack)
          BY <4>2 DEF Passed
        <5> QED
          BY <3>3, <4>1, <4>2, <5>1
      <4>3. ASSUME NEW y \in Expected(r), h.out = Append(g.out, y),
                   \A x \in Expected(r) : Over(x, h.stack) <=> Over(x, g.stack) \/ x = y
            PROVE  ToSet(h.out) \subseteq Expected(r) /\ Passed(r, h.stack) = Passed(r, t.stack) \cup ToSet(h.out)
        <5>1. Passed(r, h.stack) = Passed(r, g.stack) \cup {y}
          BY <4>3 DEF Passed
        <5>2. PICK o : o = g.out
          OBVIOUS
        <5>3. o \in Seq(Items)
          BY <3>1, <5>2 DEF Walk
        <5>4. ToSet(Append(o, y)) = ToSet(o) \cup {y}
          BY <5>3, ToSetAppend
        <5> QED
          BY <3>3, <4>3, <5>1, <5>2, <5>4
      <4> QED
        BY <4>1, <4>2, <4>3
    <3> QED
      BY <2>1, <3>2, <3>4
  <2> QED
    BY <2>3, <2>4
<1>4. Going(f[Fuel])
  <2>1. 0 \in S
    BY <1>2
  <2>2. ASSUME NEW k \in Nat, k \in S PROVE k + 1 \in S
    <3>1. CASE k + 1 <= Fuel
      <4>1. Going(f[k])
        BY <1>0, <2>2, <3>1
      <4>2. Going(f[k + 1])
        BY <1>3, <3>1, <4>1
      <4> HIDE DEF Going
      <4> QED
        BY <4>2
    <3>2. CASE ~(k + 1 <= Fuel)
      <4>1. k + 1 \in Nat /\ k + 1 > Fuel
        BY <1>0, <3>2
      <4> HIDE DEF Going
      <4> QED
        BY <4>1
    <3> QED
      BY <3>1, <3>2
  <2>3. Nat \subseteq S
    <3> HIDE DEF S
    <3> QED
      BY <2>1, <2>2, NaturalsReached
  <2>4. Fuel \in S
    BY <1>0, <2>3
  <2> HIDE DEF Going
  <2> QED
    BY <1>0, <2>4
<1>5. PICK g : g = f[Fuel]
  OBVIOUS
<1>6. n = g /\ Ended(g)
  <2>1. n = Bounded(g) /\ g = [stack |-> g.stack, out |-> g.out, failed |-> g.failed]
    BY <1>1, <1>4, <1>5 DEF Walk
  <2>2. CASE Ended(g)
    BY <2>1, <2>2 DEF Bounded
  <2>3. CASE ~Ended(g)
    <3>1. n = [g EXCEPT !.failed = TRUE]
      BY <2>1, <2>3 DEF Bounded
    <3> QED
      BY <2>1, <3>1
  <2> QED
    BY <2>2, <2>3
<1> QED
  BY <1>4, <1>5, <1>6 DEF Taken

\* A traversal that begins has passed nothing.
LEMMA NewTraversalFinds ==
    ASSUME StoreAssumption, NEW r \in Root, NEW L, L = Level(r), NEW t, t = NewTraversal(r)
    PROVE  t \in Walk /\ StackOn(L, t.stack) /\ Passed(r, t.stack) = {}
<1>1. PICK f, s : f = Frame(r, << >>) /\ s = <<f>>
  OBVIOUS
<1>2. t.stack = s /\ f = [id |-> r, path |-> << >>, at |-> 1]
  BY <1>1 DEF NewTraversal, Frame
<1>3. t \in Walk
  BY NewTraversalTyped
<1>4. s \in Seq(Frames) /\ Len(s) = 1 /\ s[1] = f /\ s # << >>
  <2>1. s \in Seq(Frames)
    BY <1>2, <1>3 DEF Walk
  <2> QED
    BY <1>1, <2>1
<1>5. MaxDepth \in Nat /\ MaxDepth >= 1 /\ Contents[r] \in Seq(Nat) /\ << >> \in Paths
  BY DEF StoreAssumption, Paths
<1>6. Levels(L, r) /\ (\A x : x \in Expected(r) <=> \E n \in 1 .. MaxDepth : x \in L[n])
      /\ \A n \in 0 .. MaxDepth : Levelled(L, r, n)
  BY ExpectedAre
<1>7. FrameOn(L, f, 1)
  <2>1. [id |-> r, parent |-> r, path |-> << >>] \in L[1 - 1]
    BY <1>6 DEF Levels
  <2>2. 1 \in 1 .. Len(Contents[r]) + 1
    BY <1>5
  <2> QED
    BY <1>2, <2>1, <2>2 DEF FrameOn
<1>8. StackOn(L, s)
  <2>1. \A k \in 1 .. Len(s) : k = 1
    BY <1>4
  <2>2. \A k \in 1 .. Len(s) - 1 : FALSE
    BY <1>4
  <2> QED
    BY <1>4, <1>5, <1>7, <2>1, <2>2 DEF StackOn
<1>9. ASSUME NEW x \in Expected(r) PROVE ~Over(x, s)
  <2>1. PICK n \in 1 .. MaxDepth : x \in L[n]
    BY <1>6, <1>9
  <2>2. PICK q, e : q = x.path /\ e = << >>
    OBVIOUS
  <2>3. q \in Paths /\ Len(q) = n /\ e \in Paths /\ Len(e) = 0
    BY <1>5, <1>6, <2>1, <2>2 DEF Levelled
  <2>4. ~PathBefore(q, e)
    <3>1. \A k \in Nat : ~Parts(q, e, k)
      BY <2>3 DEF Parts
    <3> QED
      BY <2>3, <3>1, PathTells
  <2>5. Beneath(q, e) => q[1] >= 1
    <3>1. Beneath(x.path, f.path) => x.path[1] \in 1 .. Len(Contents[f.id])
      <4>1. 1 \in 1 .. MaxDepth
        BY <1>5
      <4> QED
        <5>1. Beneath(x.path, f.path) => Below(f, 1, n, x)
          BY <1>6, <1>7, <2>1, <4>1, FrameTells
        <5> QED
          BY <5>1 DEF Below, Inside
    <3> QED
      BY <1>2, <1>5, <2>2, <3>1
  <2>6. Beneath(q, e) => q[1] \in Nat
    BY <2>3 DEF Beneath, Paths
  <2>7. ~Upto(q, e, 1)
    <3>1. Len(e) + 1 = 1 /\ q # e
      BY <2>1, <2>3
    <3> QED
      BY <2>4, <2>5, <2>6, <3>1 DEF Upto
  <2> QED
    BY <1>2, <1>4, <2>2, <2>7 DEF Over
<1> QED
  BY <1>2, <1>3, <1>8, <1>9 DEF Passed

-----------------------------------------------------------------------------
(* The items of a complete root.  What a job has passed is stored or in the *)
(* batch at hand (Walked), and what is stored had to be found (AllFound).  *)

\* What the job of a root has passed is stored, or in the batch at hand.
Placed(r, x) == [root |-> r, id |-> x.id, parent |-> x.parent, path |-> x.path]
Row(l) == [id |-> l.id, parent |-> l.parent, path |-> l.path]
Walked(r, t, S) ==
    /\ ~t.failed /\ Ended(t) /\ StackOn(Level(r), t.stack) /\ ToSet(t.out) \subseteq Passed(r, t.stack)
    /\ \A x \in Passed(r, t.stack) : x \in ToSet(t.out) \/ Placed(r, x) \in S
AllFound == \A l \in located : l.root \in Root /\ Row(l) \in Expected(l.root)
FoundInv ==
    /\ PlacesInv /\ CompleteMeansAll /\ AllFound
    /\ \A w \in Writer : job[w] # NoJob => Walked(job[w].root, job[w].walk, located)

LEMMA WalkedStays ==
    ASSUME NEW r, NEW t, NEW S, NEW T, Walked(r, t, S), S \subseteq T PROVE Walked(r, t, T)
BY DEF Walked

LEMMA RowsFound ==
    ASSUME StoreAssumption, NEW r \in Root, NEW x \in Expected(r)
    PROVE  Row(Placed(r, x)) = x /\ Placed(r, x).root = r
<1>1. PICK L : L = Level(r)
  OBVIOUS
<1>2. PICK n \in 1 .. MaxDepth : x \in L[n]
  BY <1>1, ExpectedAre
<1>3. n \in 0 .. MaxDepth
  OBVIOUS
<1>4. Levelled(L, r, n)
  BY <1>1, <1>3, ExpectedAre
<1>5. x = [id |-> x.id, parent |-> x.parent, path |-> x.path]
  BY <1>2, <1>4 DEF Levelled
<1> QED
  BY <1>5 DEF Row, Placed

LEMMA CompleteIs ==
    CompleteMeansAll <=> \A r \in done : {Row(l) : l \in {x \in located : x.root = r}} = Expected(r)
BY DEF CompleteMeansAll, Row

LEMMA QuietFinds ==
    ASSUME FoundInv, PlacesInv', located' = located, done' = done, \A v \in Writer : job'[v] \in {job[v], NoJob}
    PROVE  FoundInv'
<1>1. CompleteMeansAll' /\ AllFound'
  BY DEF FoundInv, CompleteMeansAll, AllFound
<1>2. ASSUME NEW v \in Writer, job'[v] # NoJob PROVE Walked(job'[v].root, job'[v].walk, located') /\ job'[v] = job[v]
  <2>1. PICK j : j = job[v]
    OBVIOUS
  <2>2. job'[v] = j /\ Walked(j.root, j.walk, located)
    BY <1>2, <2>1 DEF FoundInv
  <2>3. Walked(j.root, j.walk, located')
    BY <2>2
  <2> QED
    BY <2>1, <2>2, <2>3
<1> QED
  BY <1>1, <1>2 DEF FoundInv

LEMMA StartFinds ==
    ASSUME StoreAssumption, FoundInv, PlacesInv', NEW w \in Writer, NEW r \in Root, StartJob(w, r) PROVE FoundInv'
<1>1. PICK t, n, L : t = NewTraversal(r) /\ n = NextBatch(t) /\ L = Level(r)
  OBVIOUS
<1>2. located' = located /\ done' = done /\ ~n.failed /\ job' = [job EXCEPT ![w] = [root |-> r, walk |-> n]]
  BY <1>1 DEF StartJob, tables
<1>3. t \in Walk /\ StackOn(L, t.stack) /\ Passed(r, t.stack) = {}
  BY <1>1, NewTraversalFinds
<1>4. Taken(L, r, t, n)
  BY <1>1, <1>2, <1>3, NextBatchFinds
<1>5. StackOn(L, n.stack) /\ Ended(n) /\ Passed(r, n.stack) = ToSet(n.out)
  BY <1>3, <1>4 DEF Taken
<1>6. Walked(r, n, located')
  BY <1>1, <1>2, <1>5 DEF Walked
<1>7. PICK j : j = [root |-> r, walk |-> n]
  OBVIOUS
<1>8. \A v \in Writer : job'[v] = IF v = w THEN j ELSE job[v]
  BY <1>2, <1>7 DEF FoundInv, PlacesInv, StoreShape
<1>9. ASSUME NEW v \in Writer, job'[v] # NoJob PROVE Walked(job'[v].root, job'[v].walk, located')
  <2>1. CASE v = w
    BY <1>6, <1>7, <1>8, <2>1
  <2>2. CASE v # w
    <3>1. PICK i : i = job[v]
      OBVIOUS
    <3>2. job'[v] = i /\ Walked(i.root, i.walk, located)
      BY <1>8, <1>9, <2>2, <3>1 DEF FoundInv
    <3>3. Walked(i.root, i.walk, located')
      BY <1>2, <3>2, WalkedStays
    <3> QED
      BY <3>2, <3>3
  <2> QED
    BY <2>1, <2>2
<1>10. CompleteMeansAll' /\ AllFound'
  BY <1>2 DEF FoundInv, CompleteMeansAll, AllFound
<1> QED
  BY <1>9, <1>10 DEF FoundInv

LEMMA CommitFinds ==
    ASSUME StoreAssumption, FoundInv, PlacesInv', NEW w \in Writer, Commit(w) PROVE FoundInv'
<1>1. PICK t, j, k : t = tx[w] /\ j = job[w] /\ k = AfterBatch(w)
  OBVIOUS
<1>2. /\ located' = located \cup t.located /\ done' = done \cup NewlyDone(w) /\ job' = [job EXCEPT ![w] = k]
      /\ t.at = "commit" \/ t.at = "described"
  BY <1>1 DEF Commit
<1>3. Stages(t, j) /\ Listed(t, j) /\ TxTyped(t, j) /\ \A v \in Writer : job'[v] = IF v = w THEN k ELSE job[v]
  BY <1>1, <1>2 DEF FoundInv, PlacesInv, StoreShape, Own
<1>4. CASE j = NoJob
  <2>1. t.located = {}
    BY <1>3, <1>4 DEF Stages
  <2>2. NewlyDone(w) = {} /\ k = NoJob
    BY <1>1, <1>4 DEF NewlyDone, Finishing, InBatch, AfterBatch
  <2>3. located' = located /\ done' = done
    BY <1>2, <2>1, <2>2
  <2>4. \A v \in Writer : job'[v] \in {job[v], NoJob}
    BY <1>3, <2>2
  <2> QED
    BY <2>3, <2>4, QuietFinds
<1>5. CASE j # NoJob
  <2>1. PICK r, a, L, o : r = j.root /\ a = j.walk /\ L = Level(r) /\ o = ToSet(a.out)
    OBVIOUS
  <2>2. r \in Root /\ a \in Walk /\ j = [root |-> r, walk |-> a]
    BY <1>3, <1>5, <2>1 DEF TxTyped
  <2>3. t.at = "commit" /\ Batching(t, j)
    BY <1>2, <1>3, <1>5 DEF Stages, BatchAt, Batching, Describing
  <2>4. (\A l \in t.located : l \in BatchOf(j)) /\ BatchOf(j) \subseteq located \cup t.located
    BY <1>3, <2>3 DEF Listed
  <2>5. BatchOf(j) = {Placed(r, x) : x \in o}
    BY <2>1 DEF BatchOf, Placed
  <2>6. /\ ~a.failed /\ Ended(a) /\ StackOn(L, a.stack) /\ o \subseteq Passed(r, a.stack)
        /\ \A x \in Passed(r, a.stack) : x \in o \/ Placed(r, x) \in located
    BY <1>1, <1>5, <2>1 DEF FoundInv, Walked
  <2>7. Passed(r, a.stack) \subseteq Expected(r)
    BY DEF Passed
  <2>8. \A x \in Passed(r, a.stack) : Placed(r, x) \in located'
    BY <1>2, <2>4, <2>5, <2>6
  <2>9. \A x \in Expected(r) : Row(Placed(r, x)) = x /\ Placed(r, x).root = r
    BY <2>2, RowsFound
  <2>10. AllFound'
    <3>1. ASSUME NEW l \in t.located PROVE l.root \in Root /\ Row(l) \in Expected(l.root)
      <4>1. PICK x \in o : l = Placed(r, x)
        BY <2>4, <2>5, <3>1
      <4>2. x \in Expected(r)
        BY <2>6, <2>7, <4>1
      <4> QED
        BY <2>2, <2>9, <4>1, <4>2
    <3> QED
      BY <1>2, <3>1 DEF FoundInv, AllFound
  <2>11. InBatch(w) /\ (Finishing(w) <=> Len(a.out) < BatchSize)
    BY <1>1, <1>5, <2>1, <2>3 DEF InBatch, Finishing, LastBatch
  <2>12. ASSUME Finishing(w) PROVE Passed(r, a.stack) = Expected(r)
    <3>1. a.stack = << >>
      <4>1. Len(a.out) # BatchSize
        <5>1. Len(a.out) \in Nat /\ BatchSize \in Nat
          BY <2>2 DEF Walk, StoreAssumption
        <5> QED
          BY <2>11, <2>12, <5>1
      <4> QED
        BY <2>6, <4>1 DEF Ended
    <3> QED
      BY <3>1 DEF Passed, Over
  <2>13. NewlyDone(w) \subseteq {r} /\ (NewlyDone(w) # {} => Finishing(w))
    BY <1>1, <2>1 DEF NewlyDone
  <2>14. CompleteMeansAll'
    <3>1. ASSUME NEW q \in done' PROVE {Row(l) : l \in {x \in located' : x.root = q}} = Expected(q)
      <4>1. {Row(l) : l \in {x \in located' : x.root = q}} \subseteq Expected(q)
        BY <2>10 DEF AllFound, Row
      <4>2. ASSUME NEW x \in Expected(q) PROVE \E l \in located' : l.root = q /\ x = Row(l)
        <5>1. CASE q \in done
          <6>1. {Row(l) : l \in {y \in located : y.root = q}} = Expected(q)
            BY <5>1, CompleteIs DEF FoundInv
          <6> QED
            BY <1>2, <4>2, <6>1
        <5>2. CASE q \notin done
          <6>1. q = r /\ Finishing(w)
            BY <1>2, <2>13, <3>1, <5>2
          <6>2. x \in Passed(r, a.stack)
            BY <2>12, <4>2, <6>1
          <6> QED
            BY <2>8, <2>9, <4>2, <6>1, <6>2
        <5> QED
          BY <5>1, <5>2
      <4> QED
        BY <4>1, <4>2
    <3>2. \A q \in done' : {Row(l) : l \in {x \in located : x.root = q}}' = Expected(q)
      BY <3>1 DEF Row
    <3> QED
      BY <3>1 DEF CompleteMeansAll, Row
  <2>15. ASSUME k # NoJob PROVE Walked(k.root, k.walk, located')
    <3>1. PICK n : n = NextBatch(a)
      OBVIOUS
    <3>2. ~n.failed /\ k.root = r /\ k.walk = n
      <4>1. k = IF Finishing(w) \/ NextBatch(j.walk).failed THEN NoJob ELSE [j EXCEPT !.walk = NextBatch(@)]
        BY <1>1, <2>11 DEF AfterBatch
      <4>2. ~n.failed /\ k = [j EXCEPT !.walk = n]
        BY <2>1, <2>15, <3>1, <4>1
      <4> QED
        BY <2>2, <4>2
    <3>0. Taken(L, r, a, n)
      BY <2>1, <2>2, <2>6, <3>1, <3>2, NextBatchFinds
    <3>3. /\ StackOn(L, n.stack) /\ Ended(n)
          /\ Passed(r, n.stack) = Passed(r, a.stack) \cup ToSet(n.out)
      BY <3>0 DEF Taken
    <3>4. Walked(r, n, located')
      BY <2>1, <2>8, <3>2, <3>3 DEF Walked
    <3> QED
      BY <3>2, <3>4
  <2>16. ASSUME NEW v \in Writer, job'[v] # NoJob PROVE Walked(job'[v].root, job'[v].walk, located')
    <3>1. CASE v = w
      BY <1>3, <2>15, <2>16, <3>1
    <3>2. CASE v # w
      <4>1. PICK i : i = job[v]
        OBVIOUS
      <4>2. job'[v] = i /\ Walked(i.root, i.walk, located)
        BY <1>3, <2>16, <3>2, <4>1 DEF FoundInv
      <4>3. Walked(i.root, i.walk, located')
        BY <1>2, <4>2, WalkedStays
      <4> QED
        BY <4>2, <4>3
    <3> QED
      BY <3>1, <3>2
  <2> QED
    BY <2>10, <2>14, <2>16 DEF FoundInv
<1> QED
  BY <1>4, <1>5

\* No other step stores an item, completes a root or moves a traversal.
LEMMA OthersQuiet ==
    ASSUME PlacesInv, NEW w \in Writer,
           \/ \E h \in Height, o \in Root \cup {Nobody} : BeginMetadata(w, h, o)
           \/ LockMembers(w) \/ PlaceMembers(w) \/ UpsertMembers(w)
           \/ PlaceItems(w) \/ UpsertItems(w) \/ WriteRoot(w)
           \/ \E r \in Root : BeginObject(w, r)
           \/ WriteObject(w)
           \/ BeginBatch(w) \/ LockRoot(w) \/ WriteBatch(w) \/ PlaceBatch(w) \/ UpsertBatch(w)
           \/ Cancelled(w) \/ Victim(w) \/ Abort(w)
    PROVE  located' = located /\ done' = done /\ \A v \in Writer : job'[v] \in {job[v], NoJob}
<1>1. job = [v \in Writer |-> job[v]]
  BY DEF PlacesInv, StoreShape
<1>2. ASSUME EndJob(w) PROVE located' = located /\ done' = done /\ \A v \in Writer : job'[v] \in {job[v], NoJob}
  BY <1>1, <1>2 DEF EndJob, tables
<1>3. CASE \E h \in Height, o \in Root \cup {Nobody} : BeginMetadata(w, h, o)
  BY <1>3 DEF BeginMetadata, tables
<1>4. CASE LockMembers(w) \/ PlaceMembers(w) \/ UpsertMembers(w)
  BY <1>4 DEF LockMembers, PlaceMembers, UpsertMembers, tables
<1>5. CASE PlaceItems(w) \/ UpsertItems(w) \/ WriteRoot(w)
  BY <1>5 DEF PlaceItems, UpsertItems, WriteRoot, tables
<1>6. CASE \E r \in Root : BeginObject(w, r)
  BY <1>6 DEF BeginObject, tables
<1>7. CASE WriteObject(w)
  BY <1>7 DEF WriteObject, tables
<1>8. CASE BeginBatch(w)
  BY <1>2, <1>8 DEF BeginBatch, tables
<1>9. CASE LockRoot(w)
  BY <1>2, <1>9 DEF LockRoot, tables
<1>10. CASE WriteBatch(w)
  BY <1>2, <1>10 DEF WriteBatch, tables
<1>11. CASE PlaceBatch(w) \/ UpsertBatch(w)
  BY <1>11 DEF PlaceBatch, UpsertBatch, tables
<1>12. CASE Cancelled(w)
  BY <1>2, <1>12 DEF Cancelled
<1>13. CASE Victim(w)
  BY <1>2, <1>13 DEF Victim
<1>14. CASE Abort(w)
  BY <1>1, <1>14 DEF Abort, tables
<1> QED
  BY <1>3, <1>4, <1>5, <1>6, <1>7, <1>8, <1>9, <1>10, <1>11, <1>12, <1>13, <1>14

LEMMA FoundStep == ASSUME StoreAssumption, RootsOnce, FoundInv, [Next]_vars PROVE FoundInv'
<1>1. PlacesInv'
  BY PlacesStep DEF FoundInv
<1>2. CASE UNCHANGED vars
  <2>1. located' = located /\ done' = done /\ job' = job
    BY <1>2 DEF vars, tables
  <2> QED
    BY <1>1, <2>1, QuietFinds
<1>3. CASE Extend \/ Advance \/ Rewind
  <2>1. located' = located /\ done' = done /\ job' = job
    BY <1>3 DEF Extend, Advance, Rewind, tables
  <2> QED
    BY <1>1, <2>1, QuietFinds
<1>4. ASSUME NEW w \in Writer, NEW r \in Root, StartJob(w, r) PROVE FoundInv'
  BY <1>1, <1>4, StartFinds
<1>5. ASSUME NEW w \in Writer, Commit(w) PROVE FoundInv'
  BY <1>1, <1>5, CommitFinds
<1>6. ASSUME NEW w \in Writer,
             \/ \E h \in Height, o \in Root \cup {Nobody} : BeginMetadata(w, h, o)
             \/ LockMembers(w) \/ PlaceMembers(w) \/ UpsertMembers(w)
             \/ PlaceItems(w) \/ UpsertItems(w) \/ WriteRoot(w)
             \/ \E r \in Root : BeginObject(w, r)
             \/ WriteObject(w)
             \/ BeginBatch(w) \/ LockRoot(w) \/ WriteBatch(w) \/ PlaceBatch(w) \/ UpsertBatch(w)
             \/ Cancelled(w) \/ Victim(w) \/ Abort(w)
      PROVE  FoundInv'
  <2>1. PlacesInv
    BY DEF FoundInv
  <2>2. located' = located /\ done' = done /\ \A v \in Writer : job'[v] \in {job[v], NoJob}
    BY <1>6, <2>1, OthersQuiet
  <2> QED
    BY <1>1, <2>2, QuietFinds
<1> QED
  BY <1>2, <1>3, <1>4, <1>5, <1>6 DEF Next

LEMMA FoundStart == ASSUME StoreAssumption, Init PROVE FoundInv
<1>1. PlacesInv
  BY PlacesStart
<1>2. located = {} /\ done = {} /\ \A w \in Writer : job[w] = NoJob
  BY DEF Init
<1> QED
  BY <1>1, <1>2 DEF FoundInv, CompleteMeansAll, AllFound

\* The totals are exact, and the items stored of a root that is marked done are
\* those of its own traversal, none lost where a batch ended or a bundle nested
\* (commit_bundle_batch, next_bundle_batch).
THEOREM IndexAlwaysExact == RootsOnce /\ Spec => []IndexExact
<1>1. StoreAssumption
  BY StoreAssumption
<1>2. ASSUME RootsOnce PROVE Spec => []IndexExact
  <2>1. Init => TotalsInv /\ FoundInv
    BY <1>1, TotalsStart, FoundStart
  <2>2. TotalsInv /\ FoundInv /\ [Next]_vars => (TotalsInv /\ FoundInv)'
    BY <1>1, <1>2, TotalsStep, FoundStep
  <2>3. TotalsInv /\ FoundInv => IndexExact
    BY DEF TotalsInv, FoundInv, IndexExact
  <2> QED
    BY <2>1, <2>2, <2>3, PTL DEF Spec
<1> QED
  BY <1>2
================================================================================
