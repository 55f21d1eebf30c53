----------------------------- MODULE RequestProofs -----------------------------
(***************************************************************************)
(* How requests find their content, for any names, manifests, accounts,    *)
(* clocks, edits, origins and permits: what was blocked before a request   *)
(* came is not served to it, what it is told of a name was on record       *)
(* within the time to live, nobody sleeps beside a free slot, a chunk is   *)
(* missing only after every source was asked, and the paths that prove it  *)
(* for one of its bytes prove it for each of them.                         *)
(***************************************************************************)
EXTENDS ArnsNames, Routes, HedgedFetch, ChunkProof, Tallies


-----------------------------------------------------------------------------
(* Routes and the blocklist.                                               *)

RouteStages == {"name", "resolve", "id", "hash", "manifest", "parse", "served"}
RouteRecord(q) ==
    q = [at |-> q.at, name |-> q.name, id |-> q.id, path |-> q.path, follow |-> q.follow,
         slash |-> q.slash, via |-> q.via, since |-> q.since]

\* What a request has passed by was not on the list since it came; the bytes
\* it is about to compare are those of the last ID.
NameClear(q) == q.at # "name" => <<"name", q.name>> \notin q.since
IdsClear(q) == \A i \in q.via : <<"id", i>> \notin q.since
BytesClear(q) ==
    \A i \in q.via : <<"hash", HashOf[i]>> \in q.since => q.at = "hash" /\ i = q.id
Clear(q) ==
    /\ q.at \in RouteStages /\ RouteRecord(q) /\ q.since \subseteq blocked
    /\ NameClear(q) /\ IdsClear(q) /\ BytesClear(q)

RoutesInv ==
    /\ blocked \subseteq Rows /\ DOMAIN route = Request
    /\ route = [r \in Request |-> route[r]]
    /\ \A r \in Request : route[r] = NoRoute \/ Clear(route[r])

LEMMA RoutesStart == RoutesInit => RoutesInv
BY DEF RoutesInit, RoutesInv

\* One request moves on.
LEMMA RouteMoves ==
    ASSUME RoutesInv, UNCHANGED blocked, NEW r \in Request, NEW q,
           route' = [route EXCEPT ![r] = q], q = NoRoute \/ Clear(q)
    PROVE  RoutesInv'
BY DEF RoutesInv, Clear

\* It goes to another stage with what it has.
LEMMA StageMoves ==
    ASSUME RoutesInv, UNCHANGED blocked, NEW r \in Request, NEW s \in RouteStages,
           route[r] # NoRoute, To(r, s),
           route[r].at = "name" => <<"name", route[r].name>> \notin blocked,
           route[r].at = "hash" => <<"hash", HashOf[route[r].id]>> \notin blocked
    PROVE  RoutesInv'
<1>1. PICK q : q = route[r] /\ Clear(q)
  BY DEF RoutesInv
<1>2. PICK n : n = [q EXCEPT !.at = s]
  OBVIOUS
<1>3. RouteRecord(n) /\ n.at = s /\ n.name = q.name /\ n.id = q.id /\ n.via = q.via /\ n.since = q.since
  BY <1>1, <1>2 DEF Clear, RouteRecord
<1>4. NameClear(n) /\ IdsClear(n) /\ BytesClear(n)
  BY <1>1, <1>3 DEF Clear, NameClear, IdsClear, BytesClear
<1>5. Clear(n)
  BY <1>1, <1>3, <1>4 DEF Clear
<1>6. route' = [route EXCEPT ![r] = n]
  BY <1>1, <1>2 DEF To, RoutesInv
<1> QED
  BY <1>5, <1>6, RouteMoves

LEMMA RefuseKeeps ==
    ASSUME RoutesInv, UNCHANGED blocked, NEW r \in Request, Refuse(r)
    PROVE  RoutesInv'
BY RouteMoves DEF Refuse

\* It goes on with another ID.
LEMMA FollowedKeeps ==
    ASSUME RoutesInv, UNCHANGED blocked, NEW r \in Request, NEW target,
           route[r].at \in {"manifest", "parse"}, Followed(r, target)
    PROVE  RoutesInv'
<1>1. PICK q : q = route[r] /\ Clear(q)
  BY DEF RoutesInv, NoRoute
<1>2. CASE Refuse(r)
  BY <1>2, RefuseKeeps
<1>3. CASE route' = [route EXCEPT ![r].at = "id", ![r].id = target, ![r].follow = FALSE]
  <2>1. PICK n : n = [q EXCEPT !.at = "id", !.id = target, !.follow = FALSE]
    OBVIOUS
  <2>2. RouteRecord(n) /\ n.at = "id" /\ n.name = q.name /\ n.via = q.via /\ n.since = q.since
    BY <1>1, <2>1 DEF Clear, RouteRecord
  <2>3. Clear(n)
    BY <1>1, <2>2 DEF Clear, NameClear, IdsClear, BytesClear, RouteStages
  <2>4. route' = [route EXCEPT ![r] = n]
    BY <1>1, <1>3, <2>1 DEF RoutesInv
  <2> QED
    BY <2>3, <2>4, RouteMoves
<1> QED
  BY <1>2, <1>3 DEF Followed

LEMMA ArriveClear ==
    ASSUME RoutesInv, NEW r \in Request, NEW w \in Requested, Arrive(r, w)
    PROVE  RoutesInv'
<1>1. PICK q : q = [at |-> IF w.name = "" THEN "id" ELSE "name", name |-> w.name, id |-> w.id,
                    path |-> w.path, follow |-> w.follow, slash |-> w.slash, via |-> {},
                    since |-> blocked]
  OBVIOUS
<1>2. RouteRecord(q) /\ q.at \in RouteStages /\ q.since \subseteq blocked /\ IdsClear(q) /\ BytesClear(q)
  BY <1>1 DEF RouteRecord, RouteStages, IdsClear, BytesClear
<1>3. NameClear(q)
  <2>1. <<"name", "">> \notin Rows
    BY RoutesAssumption DEF Rows
  <2> QED
    BY <1>1, <2>1 DEF NameClear, RoutesInv
<1>4. Clear(q)
  BY <1>2, <1>3 DEF Clear
<1>5. route' = [route EXCEPT ![r] = q] /\ UNCHANGED blocked
  BY <1>1 DEF Arrive
<1> QED
  BY <1>4, <1>5, RouteMoves

LEMMA StepClear == ASSUME RoutesInv, NEW r \in Request, Step(r) PROVE RoutesInv'
<1>0. UNCHANGED blocked
  BY DEF Step, CheckName, ResolveName, CheckId, CheckHash, LookUpPath, ResolveManifest, Fails
<1>1. CASE CheckName(r)
  <2>1. CASE Refuse(r)
    BY <1>0, <2>1, RefuseKeeps
  <2>2. CASE <<"name", route[r].name>> \notin blocked /\ To(r, "resolve")
    <3>1. route[r] # NoRoute /\ route[r].at = "name" /\ "resolve" \in RouteStages
      BY <1>1 DEF CheckName, NoRoute, RouteStages
    <3> QED
      BY <1>0, <2>2, <3>1, StageMoves
  <2> QED
    BY <1>1, <2>1, <2>2 DEF CheckName
<1>2. CASE ResolveName(r)
  <2>1. CASE Refuse(r)
    BY <1>0, <2>1, RefuseKeeps
  <2>2. CASE \E t : route' = [route EXCEPT ![r].at = "id", ![r].id = t]
    <3>1. PICK t : route' = [route EXCEPT ![r].at = "id", ![r].id = t]
      BY <2>2
    <3>2. PICK q : q = route[r] /\ Clear(q) /\ q.at = "resolve"
      BY <1>2 DEF ResolveName, RoutesInv, NoRoute
    <3>3. PICK n : n = [q EXCEPT !.at = "id", !.id = t]
      OBVIOUS
    <3>4. RouteRecord(n) /\ n.at = "id" /\ n.name = q.name /\ n.via = q.via /\ n.since = q.since
      BY <3>2, <3>3 DEF Clear, RouteRecord
    <3>5. Clear(n)
      BY <3>2, <3>4 DEF Clear, NameClear, IdsClear, BytesClear, RouteStages
    <3>6. route' = [route EXCEPT ![r] = n]
      BY <3>1, <3>2, <3>3 DEF RoutesInv
    <3> QED
      BY <1>0, <3>5, <3>6, RouteMoves
  <2> QED
    BY <1>2, <2>1, <2>2 DEF ResolveName
<1>3. CASE CheckId(r)
  <2>1. CASE Refuse(r)
    BY <1>0, <2>1, RefuseKeeps
  <2>2. CASE <<"id", route[r].id>> \notin blocked
    <3>1. PICK q : q = route[r] /\ Clear(q) /\ q.at = "id"
      BY <1>3 DEF CheckId, RoutesInv, NoRoute
    <3>2. PICK n : n = [q EXCEPT !.at = "hash", !.via = @ \cup {q.id}]
      OBVIOUS
    <3>3. /\ RouteRecord(n) /\ n.at = "hash" /\ n.name = q.name /\ n.id = q.id
          /\ n.via = q.via \cup {q.id} /\ n.since = q.since
      BY <3>1, <3>2 DEF Clear, RouteRecord
    <3>4. NameClear(n) /\ IdsClear(n) /\ BytesClear(n)
      BY <2>2, <3>1, <3>3 DEF Clear, NameClear, IdsClear, BytesClear
    <3>5. Clear(n)
      BY <3>1, <3>3, <3>4 DEF Clear, RouteStages
    <3>6. route' = [route EXCEPT ![r] = n]
      BY <1>3, <2>2, <3>1, <3>2 DEF CheckId, RoutesInv
    <3> QED
      BY <1>0, <3>5, <3>6, RouteMoves
  <2> QED
    BY <1>3, <2>1, <2>2 DEF CheckId
<1>4. CASE CheckHash(r)
  <2>1. CASE Refuse(r)
    BY <1>0, <2>1, RefuseKeeps
  <2>2. CASE HashRows(r) \cap blocked = {}
    <3>1. PICK s \in RouteStages : To(r, s)
      BY <1>4, <2>2 DEF CheckHash, RouteStages
    <3>2. <<"hash", HashOf[route[r].id]>> \notin blocked /\ route[r] # NoRoute /\ route[r].at = "hash"
      BY <1>4, <2>2 DEF CheckHash, HashRows, NoRoute
    <3> QED
      BY <1>0, <3>1, <3>2, StageMoves
  <2> QED
    BY <1>4, <2>1, <2>2 DEF CheckHash
<1>5. CASE LookUpPath(r)
  <2>1. route[r].at = "manifest" /\ route[r] # NoRoute
    BY <1>5 DEF LookUpPath, NoRoute
  <2>2. CASE To(r, "parse")
    BY <1>0, <2>1, <2>2, StageMoves DEF RouteStages
  <2>3. CASE \E t : Followed(r, t)
    BY <1>0, <2>1, <2>3, FollowedKeeps
  <2> QED
    BY <1>5, <2>2, <2>3 DEF LookUpPath
<1>6. CASE ResolveManifest(r)
  BY <1>0, <1>6, FollowedKeeps DEF ResolveManifest
<1>7. CASE Fails(r)
  BY <1>0, <1>7, RefuseKeeps DEF Fails
<1> QED
  BY <1>1, <1>2, <1>3, <1>4, <1>5, <1>6, <1>7 DEF Step

\* An edit only shortens what a request has to be kept from.
LEMMA EditClear == ASSUME RoutesInv, Edit PROVE RoutesInv'
<1>1. blocked' \subseteq Rows
  BY DEF Edit, RoutesInv
<1>2. /\ DOMAIN route' = Request
      /\ \A r \in Request : route'[r] = IF route[r].at = "idle" THEN NoRoute
                                        ELSE [route[r] EXCEPT !.since = @ \cap blocked']
  BY DEF Edit
<1>3. route' = [r \in Request |-> route'[r]]
  BY DEF Edit
<1>4. ASSUME NEW r \in Request, route[r].at # "idle" PROVE Clear(route[r])'
  <2>1. PICK q : q = route[r] /\ Clear(q)
    BY <1>4 DEF RoutesInv, NoRoute
  <2>2. PICK n : n = [q EXCEPT !.since = q.since \cap blocked']
    OBVIOUS
  <2>3. /\ RouteRecord(n) /\ n.at = q.at /\ n.name = q.name /\ n.id = q.id /\ n.via = q.via
        /\ n.since \subseteq q.since /\ n.since \subseteq blocked'
    BY <2>1, <2>2 DEF Clear, RouteRecord
  <2>4. NameClear(n) /\ IdsClear(n) /\ BytesClear(n)
    BY <2>1, <2>3 DEF Clear, NameClear, IdsClear, BytesClear
  <2>5. Clear(n)'
    BY <2>1, <2>3, <2>4 DEF Clear
  <2>6. n = route'[r]
    BY <1>2, <1>4, <2>1, <2>2
  <2> QED
    BY <2>5, <2>6 DEF Clear, RouteRecord, NameClear, IdsClear, BytesClear
<1> QED
  BY <1>1, <1>2, <1>3, <1>4 DEF RoutesInv

LEMMA RoutesKeep == RoutesInv /\ [RoutesNext]_routes => RoutesInv'
<1>1. RoutesInv /\ UNCHANGED routes => RoutesInv'
  BY DEF RoutesInv, routes, Clear
<1> QED
  BY <1>1, ArriveClear, StepClear, EditClear DEF RoutesNext

\* What an operator has blocked before a request came is not served to it,
\* by its name, by an ID on the way or by its bytes, however names, manifests
\* and the list change meanwhile.
THEOREM BlockedAlwaysHidden == RoutesSpec => []BlockedHidden
<1>1. RoutesInv => BlockedHidden
  <2> SUFFICES ASSUME RoutesInv, NEW r \in Request, route[r].at = "served",
                      NEW row \in route[r].since
               PROVE  row \notin {<<"name", route[r].name>>} \cup {<<"id", i>> : i \in route[r].via}
                                 \cup {<<"hash", HashOf[i]>> : i \in route[r].via}
    BY DEF BlockedHidden
  <2>1. Clear(route[r])
    BY DEF RoutesInv, NoRoute
  <2> QED
    BY <2>1 DEF Clear, NameClear, IdsClear, BytesClear
<1> QED
  BY <1>1, RoutesStart, RoutesKeep, PTL DEF RoutesSpec

-----------------------------------------------------------------------------
(* ArNS names.                                                             *)

LEMMA MaxOfTwo == ASSUME NEW a \in Int, NEW b \in Int PROVE Max({a, b}) = IF a >= b THEN a ELSE b
<1> DEFINE P(x) == x \in {a, b} /\ \A y \in {a, b} : x >= y
<1>1. \E x : P(x)
  <2>1. P(a) \/ P(b)
    OBVIOUS
  <2> QED
    BY <2>1
<1>2. Max({a, b}) = CHOOSE x : P(x)
  BY DEF Max
<1>3. P(CHOOSE x : P(x))
  BY <1>1
<1> QED
  BY <1>2, <1>3

LEMMA MinOfTwo == ASSUME NEW a \in Int, NEW b \in Int PROVE Min({a, b}) = IF a <= b THEN a ELSE b
<1> DEFINE P(x) == x \in {a, b} /\ \A y \in {a, b} : x <= y
<1>1. \E x : P(x)
  <2>1. P(a) \/ P(b)
    OBVIOUS
  <2> QED
    BY <2>1
<1>2. Min({a, b}) = CHOOSE x : P(x)
  BY DEF Min
<1>3. P(CHOOSE x : P(x))
  BY <1>1
<1> QED
  BY <1>2, <1>3

-----------------------------------------------------------------------------
(* ArNS names.                                                             *)

\* A moment of the accounts at a time or later had the record of a name, and
\* a later one what its ANT says of the undername; a lease of it lasts.
RecordOf(e, n) == e[2].records[n.base]
Leased(record, time) == record.end # 0 => \E g \in log : time <= record.end + g[2].grace
Witnessed(a, e, f, time) ==
    LET record == RecordOf(e, a.name) IN
    /\ e[1] >= a.valid /\ f[1] >= e[1]
    /\ record # Absent /\ record.limit = a.limit
    /\ \E r \in f[2].ants[record.ant] : r.under = a.name.under /\ r.target = a.target
    /\ Leased(record, time)

\* What the cache keeps is good until it expires; what a request was told is
\* the conclusion of NameCurrent.
Kept(a) ==
    /\ a.name \in Name /\ a.valid \in Nat /\ a.ttl \in Nat
    /\ a.expires \in Int /\ a.expires <= a.valid + a.ttl
    /\ a = [name |-> a.name, target |-> a.target, ttl |-> a.ttl, limit |-> a.limit,
            index |-> a.index, valid |-> a.valid, expires |-> a.expires]
    /\ \E e, f \in log : Witnessed(a, e, f, a.expires)
Current(a) ==
    LET Recent == {e \in log : e[1] > a.valid - Max({1, a.ttl})} IN
    \E e \in Recent : \E f \in {g \in Recent : g[1] >= e[1]} :
        LET record == RecordOf(e, a.name) IN
        /\ record # Absent /\ record.limit = a.limit
        /\ \E r \in f[2].ants[record.ant] : r.under = a.name.under /\ r.target = a.target
        /\ record.end # 0 => \E g \in log : a.valid < record.end + g[2].grace
Truthful(a) == a \in {Absent, Failed} \/ Current(a)

LogKept ==
    /\ now \in Nat /\ registry \in Registries /\ <<now, registry>> \in log
    /\ \A e \in log : e[1] \in Nat /\ e[1] <= now /\ e[2] \in Registries
CacheKept == \E S : cache \in Seq(S) /\ \A a \in S : Kept(a)
ConfigKept ==
    /\ config.expires \in Nat
    /\ config.expires > 0 => \E g \in log : g[2].grace = config.grace

\* A resolution has read the record since it started, and found a lease that
\* runs when it goes on to the ANT.
Running(n, f) ==
    /\ f = [at |-> f.at, started |-> f.started, record |-> f.record, grace |-> f.grace]
    /\ f.started \in Nat /\ f.started <= now
    /\ \E e \in log : e[1] >= f.started /\ f.record = RecordOf(e, n) /\ f.record # Absent
    /\ f.at = "ant" => \/ f.record.end = 0
                       \/ /\ \E g \in log : g[2].grace = f.grace
                          /\ f.record.end + f.grace > f.started
FlightKept(n, f) ==
    \/ f.at \in {"idle", "starting"}
    \/ f.at = "record" /\ f = [at |-> f.at, started |-> f.started] /\ f.started \in Nat /\ f.started <= now
    \/ f.at \in {"lease", "ant"} /\ Running(n, f)

FlightsKept == flight = [n \in Name |-> flight[n]] /\ \A n \in Name : FlightKept(n, flight[n])
CallersTrue ==
    /\ caller = [c \in Caller |-> caller[c]]
    /\ \A c \in Caller : caller[c].at = "told" => Truthful(caller[c].answer)

NamesInv == LogKept /\ CacheKept /\ ConfigKept /\ FlightsKept /\ CallersTrue

LEMMA NamesStart == NamesInit => NamesInv
<1> SUFFICES ASSUME NamesInit PROVE NamesInv
  OBVIOUS
<1>1. LogKept
  BY DEF NamesInit, LogKept
<1>2. cache \in Seq({})
  BY DEF NamesInit
<1>3. CacheKept
  BY <1>2 DEF CacheKept
<1> QED
  BY <1>1, <1>3 DEF NamesInit, NamesInv, ConfigKept, NoConfig, Unasked, FlightKept, FlightsKept, CallersTrue

\* What was so stays so while the log grows.
LEMMA LogGrows ==
    ASSUME log \subseteq log'
    PROVE  /\ \A a : Kept(a) => Kept(a)'
           /\ \A a : Truthful(a) => Truthful(a)'
<1>1. ASSUME NEW r, NEW t, Leased(r, t) PROVE Leased(r, t)'
  BY <1>1 DEF Leased
<1>2. ASSUME NEW a, Kept(a) PROVE Kept(a)'
  <2>1. PICK e \in log, f \in log : Witnessed(a, e, f, a.expires)
    BY SMTT(45), <1>2 DEF Kept
  <2>2. Witnessed(a, e, f, a.expires)'
    BY ZenonT(60), <1>1, <2>1 DEF Witnessed, RecordOf
  <2> QED
    BY <1>2, <2>2 DEF Kept
<1>3. ASSUME NEW a, Current(a) PROVE Current(a)'
  BY <1>3 DEF Current, RecordOf
<1> QED
  BY <1>2, <1>3 DEF Truthful

\* An entry that has not expired is a true answer now.
LEMMA KeptTruthful ==
    ASSUME LogKept, NEW a, Kept(a), a.expires > now
    PROVE  Truthful([a EXCEPT !.valid = now])
<1>1. PICK e \in log, f \in log : Witnessed(a, e, f, a.expires)
  BY DEF Kept
<1>2. PICK b : b = [a EXCEPT !.valid = now]
  OBVIOUS
<1>3. /\ b.valid = now /\ b.ttl = a.ttl /\ b.name = a.name /\ b.limit = a.limit
      /\ b.target = a.target
  BY <1>2 DEF Kept
<1>4. /\ now \in Nat /\ a.ttl \in Nat /\ a.valid \in Nat /\ a.expires <= a.valid + a.ttl
      /\ a.expires \in Int /\ e[1] \in Nat /\ f[1] \in Nat
  BY DEF Kept, LogKept
<1>5. Max({1, a.ttl}) \in Nat /\ Max({1, a.ttl}) >= a.ttl
  BY <1>4, MaxOfTwo
<1>6. e[1] > b.valid - Max({1, b.ttl}) /\ f[1] > b.valid - Max({1, b.ttl}) /\ f[1] >= e[1]
  BY <1>1, <1>3, <1>4, <1>5 DEF Witnessed
<1>7. RecordOf(e, b.name).end # 0 => \E g \in log : b.valid < RecordOf(e, b.name).end + g[2].grace
  <2>1. SUFFICES ASSUME RecordOf(e, a.name).end # 0
                 PROVE  \E g \in log : now < RecordOf(e, a.name).end + g[2].grace
    BY <1>3
  <2>2. PICK g \in log : a.expires <= RecordOf(e, a.name).end + g[2].grace
    BY SMTT(45), <1>1, <2>1 DEF Witnessed, Leased
  <2>3. RecordOf(e, a.name).end \in Int /\ g[2].grace \in Nat
    BY <1>1, NamesAssumption DEF Witnessed, RecordOf, LogKept, Kept
  <2> QED
    BY <1>4, <2>2, <2>3
<1>8. Current(b)
  BY <1>1, <1>3, <1>6, <1>7 DEF Witnessed, Current
<1> QED
  BY <1>2, <1>8 DEF Truthful

\* A new answer, of a resolution that reads the ANT: it is kept, and true.
LEMMA ReadKept ==
    ASSUME NamesInv, NEW n \in Name, NEW f, f = flight[n], f.at = "ant",
           NEW r \in registry.ants[f.record.ant], r.under = n.under, NEW index, NEW a,
           a = [name |-> n, target |-> r.target, ttl |-> r.ttl, limit |-> f.record.limit,
                index |-> index, valid |-> f.started, expires |-> Expiry(f, r.ttl)]
    PROVE  Kept(a) /\ Truthful(a)
<1>1. LogKept /\ Running(n, f)
  BY DEF NamesInv, FlightsKept, FlightKept
<1>2. PICK e \in log : e[1] >= f.started /\ f.record = RecordOf(e, n) /\ f.record # Absent
  BY <1>1 DEF Running
<1>3. PICK l \in log : l = <<now, registry>>
  BY <1>1 DEF LogKept
<1>4. f.record.end \in Int /\ f.record.ant \in DOMAIN registry.ants
  BY <1>1, <1>2, NamesAssumption DEF LogKept, RecordOf
<1>5. r.ttl \in Nat
  BY <1>1, <1>4, NamesAssumption DEF LogKept
<1>6. f.started \in Nat /\ f.started <= now /\ now \in Nat /\ e[1] \in Nat /\ e[1] <= now
  BY <1>1 DEF Running, LogKept
<1>9. Max({1, a.ttl}) \in Nat /\ Max({1, a.ttl}) >= 1
  BY <1>5, MaxOfTwo
<1>7. CASE f.record.end = 0
  <2>1. Expiry(f, r.ttl) = f.started + r.ttl
    BY <1>7 DEF Expiry
  <2>2. Witnessed(a, e, l, a.expires)
    BY <1>2, <1>3, <1>6, <1>7 DEF Witnessed, Leased
  <2>3. Kept(a)
    BY <1>5, <1>6, <2>1, <2>2 DEF Kept
  <2>4. e[1] > a.valid - Max({1, a.ttl}) /\ l[1] > a.valid - Max({1, a.ttl}) /\ l[1] >= e[1]
    BY <1>9, <1>2, <1>3, <1>6
  <2>5. Current(a)
    BY <2>2, <2>4, <1>2, <1>7 DEF Current, Witnessed
  <2> QED
    BY <2>3, <2>5 DEF Truthful
<1>8. CASE f.record.end # 0
  <2>1. PICK g \in log : g[2].grace = f.grace /\ f.record.end + f.grace > f.started
    BY <1>1, <1>8 DEF Running
  <2>2. f.grace \in Nat
    BY <1>1, <2>1, NamesAssumption DEF LogKept
  <2>3. Remaining(f.record, f.grace, f.started) = f.record.end + f.grace - f.started
    <3>1. PICK m \in Int : m = f.record.end + f.grace - f.started /\ m > 0
      BY <1>4, <1>6, <2>1, <2>2
    <3>2. Max({0, m}) = IF 0 >= m THEN 0 ELSE m
      BY MaxOfTwo
    <3> QED
      BY <3>1, <3>2 DEF Remaining
  <2>4. /\ Min({r.ttl, Remaining(f.record, f.grace, f.started)}) \in Int
        /\ Min({r.ttl, Remaining(f.record, f.grace, f.started)}) <= r.ttl
        /\ Min({r.ttl, Remaining(f.record, f.grace, f.started)}) <= f.record.end + f.grace - f.started
    <3>1. PICK m \in Int : m = f.record.end + f.grace - f.started
      BY <1>4, <1>6, <2>2
    <3>2. Min({r.ttl, m}) = IF r.ttl <= m THEN r.ttl ELSE m
      BY <1>5, MinOfTwo
    <3> QED
      BY <1>5, <2>3, <3>1, <3>2
  <2>5. /\ Expiry(f, r.ttl) \in Int /\ Expiry(f, r.ttl) <= f.started + r.ttl
        /\ Expiry(f, r.ttl) <= f.record.end + f.grace
    BY <1>4, <1>5, <1>6, <1>8, <2>2, <2>4 DEF Expiry
  <2>6. Witnessed(a, e, l, a.expires)
    BY <1>2, <1>3, <1>6, <2>1, <2>5 DEF Witnessed, Leased
  <2>7. Kept(a)
    BY <1>5, <1>6, <2>5, <2>6 DEF Kept
  <2>8. e[1] > a.valid - Max({1, a.ttl}) /\ l[1] > a.valid - Max({1, a.ttl}) /\ l[1] >= e[1]
    BY <1>9, <1>2, <1>3, <1>6
  <2>9. a.valid < RecordOf(e, a.name).end + g[2].grace
    BY <1>2, <2>1
  <2>10. Current(a)
    BY <2>6, <2>8, <2>9 DEF Current, Witnessed
  <2> QED
    BY <2>7, <2>10 DEF Truthful
<1> QED
  BY <1>7, <1>8

\* The cache, with one entry less, with one used, with one more.
LEMMA WithoutKept ==
    ASSUME NEW S, cache \in Seq(S), NEW n
    PROVE  Without(n) \in Seq(S) /\ (InCache(n) => cache[Place(n)] \in S)
<1>1. ASSUME InCache(n) PROVE Place(n) \in 1 .. Len(cache)
  BY <1>1 DEF InCache, Place
<1>2. ASSUME NEW i \in 1 .. Len(cache) PROVE RemoveAt(cache, i) \in Seq(S) /\ cache[i] \in S
  BY <1>2 DEF RemoveAt
<1> QED
  BY <1>1, <1>2 DEF Without

LEMMA GotKept ==
    ASSUME NEW S, cache \in Seq(S), NEW n
    PROVE  /\ Got(n) \in Seq(S)
           /\ Live(n) => cache[Place(n)] \in S /\ Last(Got(n)) = cache[Place(n)]
<1>1. Without(n) \in Seq(S) /\ (Live(n) => cache[Place(n)] \in S)
  BY WithoutKept DEF Live
<1>2. ASSUME NEW s \in Seq(S), NEW e \in S PROVE Append(s, e) \in Seq(S) /\ Last(Append(s, e)) = e
  BY DEF Last
<1> QED
  BY <1>1, <1>2 DEF Got

LEMMA RememberedKept ==
    ASSUME CacheKept, NEW e, Kept(e)
    PROVE  \E S : Remembered(e) \in Seq(S) /\ \A a \in S : Kept(a)
<1>1. PICK S : cache \in Seq(S) /\ \A a \in S : Kept(a)
  BY DEF CacheKept
<1>2. PICK T : T = S \cup {e}
  OBVIOUS
<1>3. PICK all : all = Append(Without(e.name), e)
  OBVIOUS
<1>4. Without(e.name) \in Seq(S)
  BY <1>1, WithoutKept
<1>5. all \in Seq(T) /\ all # << >> /\ cache \in Seq(T)
  BY <1>1, <1>2, <1>3, <1>4
<1>6. Tail(all) \in Seq(T)
  BY <1>5
<1>7. Remembered(e) \in Seq(T)
  BY <1>3, <1>5, <1>6 DEF Remembered
<1> QED
  BY <1>1, <1>2, <1>7

-----------------------------------------------------------------------------
(* Steps that leave the accounts and the clock alone.                      *)

LEMMA TellTruth ==
    ASSUME NamesInv, UNCHANGED log, NEW n, NEW answer, Truthful(answer), Told(n, answer)
    PROVE  CallersTrue'
<1>1. \A a : Truthful(a) => Truthful(a)'
  BY LogGrows
<1>2. caller' = [c \in Caller |-> caller'[c]]
  BY DEF Told
<1>3. ASSUME NEW c \in Caller, caller'[c].at = "told" PROVE Truthful(caller'[c].answer)
  BY <1>3 DEF Told, NamesInv, CallersTrue
<1>4. ASSUME NEW c \in Caller, caller'[c].at = "told" PROVE Truthful(caller[c].answer)'
  <2>1. PICK a : a = caller'[c].answer
    OBVIOUS
  <2>2. Truthful(a)'
    BY <1>1, <1>3, <1>4, <2>1
  <2> QED
    BY <2>1, <2>2
<1> QED
  BY <1>2, <1>4 DEF CallersTrue

LEMMA FlightMoves ==
    ASSUME NamesInv, UNCHANGED <<registry, log, now>>, NEW n \in Name, NEW f, FlightKept(n, f),
           flight' = [flight EXCEPT ![n] = f]
    PROVE  FlightsKept'
<1>1. \A m \in Name : FlightKept(m, flight'[m])
  BY DEF NamesInv, FlightsKept
<1>2. flight' = [m \in Name |-> flight'[m]]
  BY DEF NamesInv, FlightsKept
<1> QED
  BY <1>1, <1>2 DEF FlightsKept, FlightKept, Running

LEMMA QuietCallers == ASSUME NamesInv, UNCHANGED caller, log \subseteq log' PROVE CallersTrue'
<1>1. \A a : Truthful(a) => Truthful(a)'
  BY LogGrows
<1>2. ASSUME NEW c \in Caller, caller[c].at = "told" PROVE Truthful(caller[c].answer)'
  <2>1. PICK a : a = caller[c].answer
    OBVIOUS
  <2>2. Truthful(a)'
    BY <1>1, <1>2, <2>1 DEF NamesInv, CallersTrue
  <2> QED
    BY <2>1, <2>2
<1> QED
  BY <1>2 DEF NamesInv, CallersTrue

LEMMA CacheStays ==
    ASSUME UNCHANGED log, NEW s, cache' = s, \E S : s \in Seq(S) /\ \A a \in S : Kept(a)
    PROVE  CacheKept'
<1>1. \A a : Kept(a) => Kept(a)'
  BY LogGrows
<1> QED
  BY <1>1 DEF CacheKept

LEMMA EndKeeps ==
    ASSUME NamesInv, UNCHANGED <<registry, log, now>>, CacheKept', ConfigKept',
           NEW n \in Name, NEW answer, Truthful(answer), End(n, answer)
    PROVE  NamesInv'
<1>1. flight' = [flight EXCEPT ![n] = Unasked] /\ Told(n, answer) /\ FlightKept(n, Unasked)
  BY DEF End, FlightKept, Unasked
<1>2. LogKept'
  BY DEF NamesInv, LogKept
<1>3. FlightsKept'
  BY <1>1, FlightMoves
<1>4. CallersTrue'
  BY <1>1, TellTruth
<1> QED
  BY <1>2, <1>3, <1>4 DEF NamesInv

LEMMA FlightGoes ==
    ASSUME NamesInv, UNCHANGED <<registry, log, now, caller>>, CacheKept', ConfigKept',
           NEW n \in Name, NEW f, FlightKept(n, f), flight' = [flight EXCEPT ![n] = f]
    PROVE  NamesInv'
<1>1. LogKept'
  BY DEF NamesInv, LogKept
<1>2. FlightsKept'
  BY FlightMoves
<1>3. CallersTrue'
  BY QuietCallers
<1> QED
  BY <1>1, <1>2, <1>3 DEF NamesInv

\* The caches stay.
LEMMA QuietCaches ==
    ASSUME NamesInv, UNCHANGED <<log, cache, config>>
    PROVE  CacheKept' /\ ConfigKept'
<1>1. CacheKept'
  BY CacheStays DEF NamesInv, CacheKept
<1> QED
  BY <1>1 DEF NamesInv, ConfigKept

\* One request goes on.
LEMMA OneTold ==
    ASSUME NamesInv, log \subseteq log', NEW c \in Caller, NEW q, caller' = [caller EXCEPT ![c] = q],
           q.at = "told" => Truthful(q.answer)'
    PROVE  CallersTrue'
<1>1. \A a : Truthful(a) => Truthful(a)'
  BY LogGrows
<1>2. ASSUME NEW d \in Caller, caller'[d].at = "told" PROVE Truthful(caller[d].answer)'
  <2>1. PICK a : a = caller'[d].answer
    OBVIOUS
  <2>2. Truthful(a)'
    BY <1>1, <1>2, <2>1 DEF NamesInv, CallersTrue
  <2> QED
    BY <2>1, <2>2
<1>3. caller' = [d \in Caller |-> caller'[d]]
  BY DEF NamesInv, CallersTrue
<1> QED
  BY <1>2, <1>3 DEF CallersTrue

LEMMA AskKeeps ==
    ASSUME NamesInv, NEW c \in Caller, NEW n \in Name, AskName(c, n)
    PROVE  NamesInv'
<1>0. /\ UNCHANGED <<registry, log, now, config>> /\ cache' = Got(n) /\ LogKept /\ CacheKept
      /\ \A a : Truthful(a) => Truthful(a)'
  BY LogGrows DEF AskName, NamesInv
<1>1. PICK S : cache \in Seq(S) /\ \A a \in S : Kept(a)
  BY <1>0 DEF CacheKept
<1>2. Got(n) \in Seq(S) /\ (Live(n) => Kept(cache[Place(n)]) /\ Last(Got(n)) = cache[Place(n)])
  BY <1>1, GotKept
<1>3. CacheKept' /\ ConfigKept' /\ LogKept'
  BY <1>0, <1>1, <1>2, CacheStays DEF NamesInv, ConfigKept, LogKept
<1>4. CASE Live(n)
  <2>1. PICK a : a = cache[Place(n)]
    OBVIOUS
  <2>2. Truthful([a EXCEPT !.valid = now])
    BY <1>0, <1>2, <1>4, <2>1, KeptTruthful DEF Live
  <2>3. /\ caller' = [caller EXCEPT ![c] = [at |-> "told", name |-> n, answer |-> [a EXCEPT !.valid = now]]]
        /\ UNCHANGED flight
    BY <1>0, <1>2, <1>4, <2>1 DEF AskName
  <2>4. CallersTrue'
    <3>1. PICK b : b = [a EXCEPT !.valid = now] /\ Truthful(b)'
      BY <1>0, <2>2
    <3> QED
      BY <1>0, <2>3, <3>1, OneTold
  <2>5. FlightsKept'
    BY <1>0, <2>3 DEF NamesInv, FlightsKept, FlightKept, Running
  <2> QED
    BY <1>3, <2>4, <2>5 DEF NamesInv
<1>5. CASE ~Live(n)
  <2>1. caller' = [caller EXCEPT ![c] = [at |-> "waiting", name |-> n]]
    BY <1>5 DEF AskName
  <2>2. CallersTrue'
    <3>1. PICK q : q = [at |-> "waiting", name |-> n]
      OBVIOUS
    <3> QED
      BY <1>0, <2>1, <3>1, OneTold
  <2>3. FlightsKept'
    <3>1. CASE flight' = flight
      BY <1>0, <3>1 DEF NamesInv, FlightsKept, FlightKept, Running
    <3>2. CASE flight' = [flight EXCEPT ![n] = [at |-> "starting"]]
      BY <1>0, <3>2, FlightMoves DEF FlightKept
    <3> QED
      BY <1>5, <3>1, <3>2 DEF AskName
  <2> QED
    BY <1>3, <2>2, <2>3 DEF NamesInv
<1> QED
  BY <1>4, <1>5

LEMMA StartKeeps == ASSUME NamesInv, NEW n \in Name, StartResolution(n) PROVE NamesInv'
<1>0. UNCHANGED <<registry, log, now, config>> /\ cache' = Got(n) /\ LogKept /\ CacheKept
  BY DEF StartResolution, NamesInv
<1>1. PICK S : cache \in Seq(S) /\ \A a \in S : Kept(a)
  BY <1>0 DEF CacheKept
<1>2. Got(n) \in Seq(S) /\ (Live(n) => Kept(cache[Place(n)]) /\ Last(Got(n)) = cache[Place(n)])
  BY <1>1, GotKept
<1>3. CacheKept' /\ ConfigKept'
  BY <1>0, <1>1, <1>2, CacheStays DEF NamesInv, ConfigKept
<1>4. CASE Live(n)
  <2>1. PICK a : a = cache[Place(n)]
    OBVIOUS
  <2>2. Truthful([a EXCEPT !.valid = now])
    BY <1>0, <1>2, <1>4, <2>1, KeptTruthful DEF Live
  <2>3. End(n, [a EXCEPT !.valid = now])
    BY <1>0, <1>2, <1>4, <2>1 DEF StartResolution
  <2> QED
    BY <1>0, <1>3, <2>2, <2>3, EndKeeps
<1>5. CASE ~Live(n)
  <2>1. PICK f : f = [at |-> "record", started |-> now]
    OBVIOUS
  <2>2. FlightKept(n, f)
    BY <1>0, <2>1 DEF FlightKept, LogKept
  <2> QED
    BY <1>0, <1>3, <1>5, <2>1, <2>2, FlightGoes DEF StartResolution
<1> QED
  BY <1>4, <1>5

LEMMA RecordKeeps == ASSUME NamesInv, NEW n \in Name, ReadRecord(n) PROVE NamesInv'
<1>0. UNCHANGED <<registry, log, now, cache, config>> /\ LogKept /\ CacheKept' /\ ConfigKept'
  BY QuietCaches DEF ReadRecord, NamesInv
<1>1. PICK r : r = registry.records[n.base]
  OBVIOUS
<1>2. CASE r = Absent
  BY <1>0, <1>1, <1>2, EndKeeps DEF ReadRecord, Truthful
<1>3. CASE r # Absent
  <2>1. flight[n].at = "record" /\ FlightKept(n, flight[n])
    BY DEF NamesInv, FlightsKept, ReadRecord
  <2>2. PICK t : t = flight[n].started /\ t \in Nat /\ t <= now
    BY <2>1 DEF FlightKept, Running
  <2>3. PICK f : f = [at |-> IF r.end = 0 THEN "ant" ELSE "lease", started |-> t, record |-> r, grace |-> 0]
    OBVIOUS
  <2>4. Running(n, f)
    <3>1. PICK l \in log : l = <<now, registry>>
      BY <1>0 DEF LogKept
    <3>2. l[1] >= f.started /\ f.record = RecordOf(l, n) /\ f.record # Absent
      BY <1>1, <1>3, <2>2, <2>3, <3>1 DEF RecordOf
    <3> QED
      BY <2>2, <2>3, <3>2 DEF Running
  <2>5. FlightKept(n, f)
    BY <2>3, <2>4 DEF FlightKept
  <2>6. flight' = [flight EXCEPT ![n] = f] /\ UNCHANGED caller
    BY <1>1, <1>3, <2>2, <2>3 DEF ReadRecord, NamesInv, FlightsKept
  <2> QED
    BY <1>0, <2>5, <2>6, FlightGoes
<1> QED
  BY <1>2, <1>3

\* A grace period that is remembered, or read now, was one of the accounts'.
LEMMA LeaseKeeps == ASSUME NamesInv, NEW n \in Name, CheckLease(n) PROVE NamesInv'
<1>0. /\ UNCHANGED <<registry, log, now, cache>> /\ LogKept
      /\ FlightKept(n, flight[n]) /\ flight[n].at = "lease" /\ ConfigKept
  BY DEF CheckLease, NamesInv, FlightsKept
<1>1. PICK f : f = flight[n] /\ Running(n, f)
  BY <1>0 DEF FlightKept
<1>2. PICK grace : grace = IF config.expires > now THEN config.grace ELSE registry.grace
  OBVIOUS
<1>3. PICK g \in log : g[2].grace = grace
  BY <1>0, <1>2 DEF ConfigKept, LogKept
<1>4. ConfigKept'
  <2>1. CASE config' = config
    BY <1>0, <2>1 DEF ConfigKept
  <2>2. CASE config' = [expires |-> now + ConfigTtl, grace |-> registry.grace]
    <3>1. config'.expires \in Nat /\ config'.grace = registry.grace
      BY <1>0, <2>2, NamesAssumption DEF LogKept
    <3> QED
      BY <1>0, <3>1 DEF ConfigKept, LogKept
  <2> QED
    BY <2>1, <2>2 DEF CheckLease
<1>5. CacheKept'
  BY <1>0, CacheStays DEF NamesInv, CacheKept
<1>6. CASE Remaining(f.record, grace, f.started) = 0
  <2>1. End(n, Absent)
    BY <1>1, <1>2, <1>6 DEF CheckLease
  <2> QED
    BY <1>0, <1>4, <1>5, <2>1, EndKeeps DEF Truthful
<1>7. CASE Remaining(f.record, grace, f.started) # 0
  <2>1. PICK h : h = [f EXCEPT !.at = "ant", !.grace = grace]
    OBVIOUS
  <2>2. /\ h = [at |-> "ant", started |-> f.started, record |-> f.record, grace |-> grace]
    BY <1>1, <2>1 DEF Running
  <2>3. f.record.end + grace > f.started
    <3>1. PICK e \in log : f.record = RecordOf(e, n) /\ f.record # Absent
      BY <1>1 DEF Running
    <3>2. f.record.end \in Int /\ grace \in Nat /\ f.started \in Nat
      BY <1>0, <1>1, <1>3, <3>1, NamesAssumption DEF LogKept, RecordOf, Running
    <3>3. PICK m \in Int : m = f.record.end + grace - f.started
      BY <3>2
    <3>4. Max({0, m}) = IF 0 >= m THEN 0 ELSE m
      BY MaxOfTwo
    <3>5. m > 0
      BY <1>7, <3>3, <3>4 DEF Remaining
    <3> QED
      BY <3>2, <3>3, <3>5
  <2>4. FlightKept(n, h)
    BY <1>1, <1>3, <2>2, <2>3 DEF FlightKept, Running
  <2>5. flight' = [flight EXCEPT ![n] = h] /\ UNCHANGED caller
    <3>1. flight' = [flight EXCEPT ![n].at = "ant", ![n].grace = grace] /\ UNCHANGED caller
      BY <1>1, <1>2, <1>7 DEF CheckLease
    <3> QED
      BY <1>1, <2>1, <3>1 DEF NamesInv, FlightsKept
  <2> QED
    BY <1>0, <1>4, <1>5, <2>4, <2>5, FlightGoes
<1> QED
  BY <1>6, <1>7

LEMMA AntKeeps == ASSUME NamesInv, NEW n \in Name, ReadAnt(n) PROVE NamesInv'
<1>0. UNCHANGED <<registry, log, now, config>> /\ LogKept /\ CacheKept /\ ConfigKept'
  BY DEF ReadAnt, NamesInv, ConfigKept
<1>1. PICK f : f = flight[n] /\ f.at = "ant"
  BY DEF ReadAnt
<1>2. PICK found : found = {r \in registry.ants[f.record.ant] : r.under = n.under}
  OBVIOUS
<1>3. CASE found = {}
  <2>1. End(n, Absent) /\ UNCHANGED cache
    BY <1>1, <1>2, <1>3 DEF ReadAnt
  <2> QED
    BY <1>0, <2>1, EndKeeps, QuietCaches DEF Truthful
<1>4. CASE found # {}
  <2>1. PICK r \in found : r = CHOOSE q \in found : TRUE
    BY <1>4
  <2>2. PICK index : index = IF n.under = "@" THEN 0 ELSE Index(registry.ants[f.record.ant], r)
    OBVIOUS
  <2>3. PICK a : a = [name |-> n, target |-> r.target, ttl |-> r.ttl, limit |-> f.record.limit,
                      index |-> index, valid |-> f.started, expires |-> Expiry(f, r.ttl)]
    OBVIOUS
  <2>4. Kept(a) /\ Truthful(a)
    <3>1. r \in registry.ants[f.record.ant] /\ r.under = n.under /\ f = flight[n] /\ f.at = "ant"
      BY <1>1, <1>2, <2>1
    <3>2. \A i, b : b = [name |-> n, target |-> r.target, ttl |-> r.ttl, limit |-> f.record.limit,
                         index |-> i, valid |-> f.started, expires |-> Expiry(f, r.ttl)]
                        => Kept(b) /\ Truthful(b)
      BY SMTT(45), <3>1, ReadKept
    <3> QED
      BY <2>3, <3>2
  <2>5. cache' = Remembered(a) /\ End(n, a)
    BY <1>1, <1>2, <1>4, <2>1, <2>2, <2>3 DEF ReadAnt
  <2>6. CacheKept'
    BY <1>0, <2>4, <2>5, RememberedKept, CacheStays
  <2> QED
    BY <1>0, <2>4, <2>5, <2>6, EndKeeps
<1> QED
  BY <1>3, <1>4

\* Accounts change, the clock goes on: the log only grows.
LEMMA MomentKeeps ==
    ASSUME NamesInv, log \subseteq log', LogKept', now' >= now, UNCHANGED <<cache, config, flight, caller>>
    PROVE  NamesInv'
<1>1. CacheKept'
  <2>1. PICK S : cache \in Seq(S) /\ \A a \in S : Kept(a)
    BY DEF NamesInv, CacheKept
  <2> QED
    BY <2>1, LogGrows DEF CacheKept
<1>2. ConfigKept'
  BY DEF NamesInv, ConfigKept
<1>3. FlightsKept'
  <2>1. ASSUME NEW n \in Name PROVE FlightKept(n, flight[n])'
    <3>1. FlightKept(n, flight[n])
      BY DEF NamesInv, FlightsKept
    <3>2. now \in Nat /\ now' \in Nat
      BY DEF NamesInv, LogKept
    <3> QED
      BY <3>1, <3>2 DEF FlightKept, Running
  <2> QED
    BY <2>1 DEF NamesInv, FlightsKept
<1>4. CallersTrue'
  BY QuietCallers
<1> QED
  BY <1>1, <1>2, <1>3, <1>4 DEF NamesInv

LEMMA NamesKeep == NamesInv /\ [NamesNext]_names => NamesInv'
<1> SUFFICES ASSUME NamesInv, [NamesNext]_names PROVE NamesInv'
  OBVIOUS
<1>0. LogKept /\ now >= now
  BY DEF NamesInv, LogKept
<1>1. CASE UNCHANGED names
  BY <1>0, <1>1, MomentKeeps DEF names, LogKept
<1>2. ASSUME NEW c \in Caller, LeaveName(c) PROVE NamesInv'
  <2>1. UNCHANGED <<registry, log, now, cache, config>> /\ LogKept'
    BY <1>0, <1>2 DEF LeaveName, LogKept
  <2>2. CallersTrue'
    BY <1>2, <2>1, OneTold DEF LeaveName, Unasked
  <2>3. FlightsKept'
    BY <1>2, <2>1 DEF LeaveName, Unasked, NamesInv, FlightsKept, FlightKept, Running
  <2> QED
    BY <2>1, <2>2, <2>3, QuietCaches DEF NamesInv
<1>3. ASSUME NEW c \in Caller, AskAgain(c) PROVE NamesInv'
  <2>1. UNCHANGED <<registry, log, now, cache, config, flight>> /\ LogKept'
    BY <1>0, <1>3 DEF AskAgain, LogKept
  <2>2. CallersTrue'
    BY <1>3, <2>1, OneTold DEF AskAgain, Unasked
  <2>3. FlightsKept'
    BY <2>1 DEF NamesInv, FlightsKept, FlightKept, Running
  <2> QED
    BY <2>1, <2>2, <2>3, QuietCaches DEF NamesInv
<1>4. ASSUME NEW n \in Name, ResolutionFails(n) PROVE NamesInv'
  BY <1>4, QuietCaches, EndKeeps DEF ResolutionFails, Truthful
<1>5. CASE Tick
  <2>1. log \subseteq log' /\ LogKept' /\ now' >= now
    BY <1>0, <1>5 DEF Tick, Logged, LogKept
  <2> QED
    BY <1>5, <2>1, MomentKeeps DEF Tick
<1>6. ASSUME NEW r \in Registries, Transfer(r) PROVE NamesInv'
  <2>1. log \subseteq log' /\ LogKept' /\ now' = now
    BY SMTT(45), <1>0, <1>6 DEF Transfer, Logged, LogKept
  <2> QED
    BY <1>0, <1>6, <2>1, MomentKeeps DEF Transfer
<1> QED
  BY <1>1, <1>2, <1>3, <1>4, <1>5, <1>6, AskKeeps, StartKeeps, RecordKeeps, LeaseKeeps, AntKeeps
     DEF NamesNext, Resolution

\* What a request is told of a name was on record, for an answer out of the
\* cache less than its time to live ago and within the lease, in whatever
\* order accounts, clock, resolutions and callers move.
THEOREM NamesAlwaysCurrent == NamesSpec => []NameCurrent
<1>1. NamesInv => NameCurrent
  BY DEF NamesInv, CallersTrue, Truthful, Current, RecordOf, NameCurrent
<1> QED
  BY <1>1, NamesStart, NamesKeep, PTL DEF NamesSpec

-----------------------------------------------------------------------------
(* Requests for a chunk under permits.                                     *)

\* The shape of what the argument reads.
Shape ==
    /\ phase \in [Req -> {"polled", "done"}]
    /\ outcome \in [Req -> {"none", "found", "timeout", "cancelled"}]
    /\ admission \in [Req -> {"off", "queued", "trying", "waiting"}]
    /\ attempted \in [Req -> SUBSET Source]
    /\ untried \in [Req -> SUBSET Source]
    /\ full \in [Req -> SUBSET Source]
    /\ exhausted \in [Req -> BOOLEAN]
    /\ notified \in [Req -> BOOLEAN]
    /\ silent \in [Req -> BOOLEAN]
    /\ slots \in [Source -> Int]

\* A fetch that listens, not only one that waits, has found full only
\* origins that still are, or will be notified.
Alert(r) ==
    /\ admission[r] = "off" => full[r] = {}
    /\ admission[r] \in Listening /\ ~notified[r] =>
         (\A s \in full[r] : slots[s] = 0) \/ (\E q \in Req : silent[q])

\* Every source was asked, or is still to be tried for, or was found full.
Asked(r) ==
    /\ admission[r] = "trying" => Source = untried[r] \cup full[r] \cup attempted[r]
    /\ exhausted[r] /\ outcome[r] = "none" => attempted[r] = Source
    /\ phase[r] = "done" => /\ admission[r] = "off"
                            /\ exhausted[r] \/ outcome[r] # "none"

FetchInv == Shape /\ \A r \in Req : Alert(r) /\ Asked(r)

LEMMA FetchInit == Init => FetchInv
BY HedgeAssumption DEF Init, FetchInv, Shape, Alert, Asked, Listening

\* A step that changes the fields of one fetch and none of the slots.
LEMMA OwnStep ==
    ASSUME FetchInv, NEW r \in Req, Shape',
           \A q \in Req \ {r} :
              /\ phase'[q] = phase[q] /\ outcome'[q] = outcome[q] /\ exhausted'[q] = exhausted[q]
              /\ admission'[q] = admission[q] /\ attempted'[q] = attempted[q]
              /\ untried'[q] = untried[q] /\ full'[q] = full[q] /\ notified'[q] = notified[q],
           \A s \in Source : slots[s] = 0 => slots'[s] = 0,
           (\E q \in Req : silent[q]) => \E q \in Req : silent'[q],
           Alert(r)', Asked(r)'
    PROVE  FetchInv'
<1>1. ASSUME NEW q \in Req, q # r PROVE Alert(q)' /\ Asked(q)'
  <2>1. /\ admission'[q] = admission[q] /\ full'[q] = full[q] /\ notified'[q] = notified[q]
        /\ Alert(q) /\ full[q] \subseteq Source
    BY <1>1 DEF FetchInv, Shape
  <2>2. Alert(q)'
    BY <2>1 DEF Alert, Listening
  <2>3. Asked(q)'
    BY <1>1 DEF FetchInv, Asked
  <2> QED
    BY <2>2, <2>3
<1> QED
  BY <1>1 DEF FetchInv

\* The admission: listening begins before the slots are looked at.
LEMMA AdmitKeeps ==
    ASSUME FetchInv, NEW r \in Req, Admit(r) \/ Acquire(r) \/ NoSlot(r) \/ Wake(r)
    PROVE  FetchInv'
<1>1. Shape /\ Alert(r) /\ Asked(r)
  BY DEF FetchInv
<1>2. UNCHANGED <<phase, outcome, attempted, silent, slots>>
  BY DEF Admit, Acquire, NoSlot, Wake, request, drops, limits
<1>3. CASE Admit(r)
  <2>1. /\ admission' = [admission EXCEPT ![r] = "queued"] /\ admission[r] = "off"
        /\ phase[r] = "polled" /\ UNCHANGED <<untried, full, exhausted, notified>>
    BY <1>3 DEF Admit, request, Polled
  <2>2. Shape'
    BY <1>1, <1>2, <2>1 DEF Shape
  <2>3. Alert(r)' /\ Asked(r)'
    BY <1>1, <1>2, <2>1 DEF Shape, Alert, Asked
  <2> QED
    BY <1>2, <2>1, <2>2, <2>3, OwnStep, <1>1 DEF Shape
<1>4. CASE Acquire(r)
  <2>1. /\ admission' = [admission EXCEPT ![r] = "trying"] /\ admission[r] = "queued"
        /\ untried' = [untried EXCEPT ![r] = Source \ attempted[r]]
        /\ UNCHANGED <<full, exhausted, notified>>
    BY <1>4 DEF Acquire, request
  <2>2. Shape'
    BY <1>1, <1>2, <2>1 DEF Shape
  <2>3. Alert(r)' /\ Asked(r)'
    BY <1>1, <1>2, <2>1 DEF Shape, Alert, Asked, Listening
  <2> QED
    BY <1>2, <2>1, <2>2, <2>3, OwnStep, <1>1 DEF Shape
<1>5. CASE NoSlot(r)
  <2>1. /\ admission' = [admission EXCEPT ![r] = IF full[r] = {} THEN "off" ELSE "waiting"]
        /\ admission[r] = "trying" /\ untried[r] = {}
        /\ exhausted' = [exhausted EXCEPT ![r] = (full[r] = {})]
        /\ notified' = [notified EXCEPT ![r] = @ /\ full[r] # {}]
        /\ UNCHANGED <<untried, full>>
    BY <1>5 DEF NoSlot, NoneLeft
  <2>2. Shape'
    BY <1>1, <1>2, <2>1 DEF Shape
  <2>3. /\ full[r] = {} => admission'[r] = "off"
        /\ full[r] # {} => admission'[r] = "waiting" /\ (notified[r] => notified'[r])
        /\ exhausted'[r] = (full[r] = {})
    BY <1>1, <2>1 DEF Shape
  <2>4. Alert(r)'
    BY <1>1, <1>2, <2>1, <2>3 DEF Alert, Listening
  <2>5. Asked(r)'
    BY <1>1, <1>2, <2>1, <2>3 DEF Asked
  <2> QED
    BY <1>2, <2>1, <2>2, <2>4, <2>5, OwnStep, <1>1 DEF Shape
<1>6. CASE Wake(r)
  <2>1. /\ admission' = [admission EXCEPT ![r] = "off"] /\ full' = [full EXCEPT ![r] = {}]
        /\ notified' = [notified EXCEPT ![r] = FALSE] /\ UNCHANGED <<untried, exhausted>>
    BY <1>6 DEF Wake, request
  <2>2. Shape'
    BY <1>1, <1>2, <2>1 DEF Shape
  <2>3. Alert(r)' /\ Asked(r)'
    BY <1>1, <1>2, <2>1 DEF Shape, Alert, Asked, Listening
  <2> QED
    BY <1>2, <2>1, <2>2, <2>3, OwnStep, <1>1 DEF Shape
<1> QED
  BY <1>3, <1>4, <1>5, <1>6

\* One origin is tried: taken, or found full and remembered.
LEMMA TryKeeps ==
    ASSUME FetchInv, NEW r \in Req, NEW s \in Source, Try(r, s)
    PROVE  FetchInv'
<1>1. Shape /\ Alert(r) /\ Asked(r)
  BY DEF FetchInv
<1>2. UNCHANGED <<phase, outcome, exhausted, silent>> /\ admission[r] = "trying"
  BY DEF Try, drops
<1>3. CASE slots[s] > 0
  <2>1. /\ slots' = [slots EXCEPT ![s] = @ - 1]
        /\ attempted' = [attempted EXCEPT ![r] = @ \cup {s}]
        /\ admission' = [admission EXCEPT ![r] = "off"]
        /\ untried' = [untried EXCEPT ![r] = {}] /\ full' = [full EXCEPT ![r] = {}]
        /\ notified' = [notified EXCEPT ![r] = FALSE]
    BY <1>1, <1>3 DEF Try, Shape
  <2>2. Shape'
    BY <1>1, <1>2, <2>1 DEF Shape
  <2>3. \A q \in Source : slots[q] = 0 => slots'[q] = 0
    BY <1>1, <1>3, <2>1 DEF Shape
  <2>4. Alert(r)' /\ Asked(r)'
    BY <1>1, <1>2, <2>1 DEF Shape, Alert, Asked, Listening
  <2> QED
    BY <1>2, <2>1, <2>2, <2>3, <2>4, OwnStep, <1>1 DEF Shape
<1>4. CASE slots[s] = 0
  <2>1. /\ untried' = [untried EXCEPT ![r] = @ \ {s}]
        /\ full' = [full EXCEPT ![r] = @ \cup {s}]
        /\ UNCHANGED <<slots, attempted, admission, notified>>
    BY <1>1, <1>4 DEF Try, Shape
  <2>2. Shape'
    BY <1>1, <1>2, <2>1 DEF Shape
  <2>3. Alert(r)' /\ Asked(r)'
    BY <1>1, <1>2, <1>4, <2>1 DEF Shape, Alert, Asked, Listening
  <2> QED
    BY <1>2, <2>1, <2>2, <2>3, OwnStep, <1>1 DEF Shape
<1> QED
  BY <1>3, <1>4 DEF Try

\* A result, the deadline or a cancellation drops the admission under way.
LEMMA AbandonKeeps ==
    ASSUME FetchInv, NEW r \in Req, Found(r) \/ Rejected(r) \/ TimeOut(r) \/ Cancel(r)
    PROVE  FetchInv'
<1>1. Shape /\ Asked(r) /\ outcome[r] = "none" /\ phase[r] = "polled"
  BY DEF FetchInv, Found, Rejected, TimeOut, Cancel, Polled
<1>2. /\ UNCHANGED <<phase, attempted, untried, silent, slots>>
      /\ admission' = [admission EXCEPT ![r] = "off"] /\ full' = [full EXCEPT ![r] = {}]
      /\ notified' = [notified EXCEPT ![r] = FALSE]
  BY DEF Found, Rejected, TimeOut, Cancel, Abandon
<1>3. \/ UNCHANGED <<outcome, exhausted>>
      \/ /\ \E o \in {"found", "cancelled"} : outcome' = [outcome EXCEPT ![r] = o]
         /\ UNCHANGED exhausted
      \/ outcome' = [outcome EXCEPT ![r] = "timeout"] /\ exhausted' = [exhausted EXCEPT ![r] = TRUE]
  BY DEF Found, Rejected, TimeOut, Cancel
<1>4. Shape'
  BY <1>1, <1>2, <1>3 DEF Shape
<1>5. Alert(r)' /\ Asked(r)'
  BY <1>1, <1>2, <1>3 DEF Shape, Alert, Asked, Listening
<1>6. \A q \in Req \ {r} : outcome'[q] = outcome[q] /\ exhausted'[q] = exhausted[q]
  BY <1>1, <1>3 DEF Shape
<1> QED
  BY <1>1, <1>2, <1>4, <1>5, <1>6, OwnStep DEF Shape

\* A slot comes back and the notification is due; then all who listen get it.
LEMMA DropKeeps ==
    ASSUME FetchInv, NEW r \in Req, DropPermit(r) \/ Notify(r)
    PROVE  FetchInv'
<1>1. Shape /\ UNCHANGED <<phase, outcome, exhausted, attempted, admission, untried, full>>
  BY DEF FetchInv, DropPermit, Notify, request, admitting
<1>2. \A q \in Req : Asked(q)'
  BY <1>1 DEF FetchInv, Asked
<1>3. CASE DropPermit(r)
  <2>1. /\ silent' = [silent EXCEPT ![r] = TRUE] /\ notified' = notified
        /\ \E s \in dropping[r] : slots' = [slots EXCEPT ![s] = @ + 1]
    BY <1>3 DEF DropPermit
  <2>2. Shape'
    <3>1. slots' \in [Source -> Int]
      <4>1. PICK s : slots' = [slots EXCEPT ![s] = slots[s] + 1]
        BY <2>1
      <4>2. slots \in [Source -> Int]
        BY <1>1 DEF Shape
      <4>3. CASE s \in Source
        BY <4>1, <4>2, <4>3
      <4>4. CASE s \notin Source
        BY <4>1, <4>2, <4>4
      <4> QED
        BY <4>3, <4>4
    <3> QED
      BY <1>1, <2>1, <3>1 DEF Shape
  <2>3. \E q \in Req : silent'[q]
    BY <1>1, <2>1 DEF Shape
  <2>4. \A q \in Req : Alert(q)'
    BY <1>1, <2>3 DEF FetchInv, Alert
  <2> QED
    BY <1>2, <2>2, <2>4 DEF FetchInv
<1>4. CASE Notify(r)
  <2>1. /\ silent' = [silent EXCEPT ![r] = FALSE] /\ slots' = slots
        /\ notified' = [q \in Req |-> notified[q] \/ admission[q] \in Listening]
    BY <1>4 DEF Notify, Notified, limits
  <2>2. Shape'
    BY <1>1, <2>1 DEF Shape
  <2>3. \A q \in Req : Alert(q)'
    BY <1>1, <2>1 DEF FetchInv, Alert
  <2> QED
    BY <1>2, <2>2, <2>3 DEF FetchInv
<1> QED
  BY <1>3, <1>4

\* The stream ends.
LEMMA EndFetchKeeps == ASSUME FetchInv, NEW r \in Req, EndFetch(r) PROVE FetchInv'
<1>1. /\ phase' = [phase EXCEPT ![r] = "done"] /\ Shape /\ Asked(r) /\ Alert(r)
      /\ (exhausted[r] \/ outcome[r] # "none") /\ admission[r] = "off"
      /\ UNCHANGED <<attempted, exhausted, outcome, admission, untried, full, notified, silent, slots>>
  BY DEF EndFetch, FetchInv, admitting, drops, limits
<1>2. Shape'
  BY <1>1 DEF Shape
<1>3. Alert(r)' /\ Asked(r)'
  BY <1>1 DEF Alert, Asked, Shape
<1> QED
  BY <1>1, <1>2, <1>3, OwnStep DEF Shape

\* The invariant of every reachable state.
THEOREM FetchInvariant == Spec => []FetchInv
<1>1. FetchInv /\ Next => FetchInv'
  BY AdmitKeeps, TryKeeps, AbandonKeeps, DropKeeps, EndFetchKeeps DEF Next, Local
<1>2. FetchInv /\ UNCHANGED vars => FetchInv'
  BY DEF vars, request, admitting, drops, limits, FetchInv, Shape, Alert, Asked
<1> QED
  BY <1>1, <1>2, FetchInit, PTL DEF Spec

\* A chunk fetch never sleeps while a slot it found taken is free again,
\* unless the notification of CHUNK_CAPACITY is on its way.
THEOREM NeverOversleeps == Spec => []NoLostWakeup
<1>1. FetchInv => NoLostWakeup
  BY DEF FetchInv, Alert, NoLostWakeup, Listening
<1> QED
  BY <1>1, FetchInvariant, PTL

\* A chunk is reported missing only after every source was asked.
THEOREM MissMeansAllAsked == Spec => []AllAsked
<1>1. FetchInv => AllAsked
  BY DEF FetchInv, Asked, AllAsked
<1> QED
  BY <1>1, FetchInvariant, PTL

-----------------------------------------------------------------------------
(* Chunk proofs: a fold is the last of a run of steps.                     *)

\* One step of either descent.
Descend(kind, s, b) == IF kind = "narrow" THEN Narrow(s, b) ELSE Rebase(s, b)
Folding(g, kind, base, seq, n) ==
    g = [S \in SUBSET (1 .. n) |-> IF S = {} THEN base ELSE Descend(kind, g[S \ {Max(S)}], seq[Max(S)])]

LEMMA MaxEnd == ASSUME NEW n \in Nat, NEW S \in SUBSET (1 .. n + 1), n + 1 \in S PROVE Max(S) = n + 1
<1>1. \A y \in S : n + 1 >= y
  OBVIOUS
<1>2. \A x \in S : (\A y \in S : x >= y) => x = n + 1
  BY <1>1
<1> QED
  BY <1>1, <1>2 DEF Max

\* The function that a fold defines exists.
LEMMA FoldingRuns == ASSUME NEW kind, NEW base, NEW seq, NEW n \in Nat PROVE \E g : Folding(g, kind, base, seq, n)
<1> DEFINE Runs == {k \in Nat : \E g : Folding(g, kind, base, seq, k)}
<1>1. 0 \in Runs
  <2> DEFINE g == [S \in SUBSET (1 .. 0) |-> base]
  <2>1. \A S \in SUBSET (1 .. 0) : S = {}
    OBVIOUS
  <2>2. Folding(g, kind, base, seq, 0)
    BY <2>1 DEF Folding
  <2> QED
    BY <2>2
<1>2. ASSUME NEW k \in Nat, k \in Runs PROVE k + 1 \in Runs
  <2>1. PICK g : Folding(g, kind, base, seq, k)
    BY <1>2
  <2> DEFINE h == [S \in SUBSET (1 .. k + 1) |-> IF k + 1 \in S THEN Descend(kind, g[S \ {k + 1}], seq[k + 1]) ELSE g[S]]
  <2>2. ASSUME NEW S \in SUBSET (1 .. k + 1) PROVE h[S] = IF S = {} THEN base ELSE Descend(kind, h[S \ {Max(S)}], seq[Max(S)])
    <3>1. \A T \in SUBSET (1 .. k + 1) : k + 1 \notin T => T \in SUBSET (1 .. k) /\ h[T] = g[T]
      OBVIOUS
    <3>2. \A T \in SUBSET (1 .. k) : g[T] = IF T = {} THEN base ELSE Descend(kind, g[T \ {Max(T)}], seq[Max(T)])
      BY <2>1 DEF Folding
    <3>3. CASE k + 1 \in S
      <4>1. Max(S) = k + 1
        BY <3>3, MaxEnd
      <4>2. h[S \ {k + 1}] = g[S \ {k + 1}]
        BY <3>1
      <4>3. h[S] = Descend(kind, g[S \ {k + 1}], seq[k + 1])
        BY <3>3
      <4> HIDE DEF h
      <4> QED
        BY <3>3, <4>1, <4>2, <4>3
    <3>4. CASE k + 1 \notin S
      <4>1. S \in SUBSET (1 .. k) /\ h[S] = g[S]
        BY <3>1, <3>4
      <4>2. PICK T : T = S \ {Max(S)}
        OBVIOUS
      <4>3. h[T] = g[T]
        BY <3>1, <3>4, <4>2
      <4> HIDE DEF h
      <4> QED
        BY <3>2, <4>1, <4>2, <4>3
    <3> QED
      BY <3>3, <3>4
  <2>3. h = [S \in SUBSET (1 .. k + 1) |-> h[S]]
    OBVIOUS
  <2> HIDE DEF h
  <2>4. Folding(h, kind, base, seq, k + 1)
    BY <2>2, <2>3 DEF Folding
  <2> QED
    BY <2>4
<1>3. Nat \subseteq Runs
  <2> HIDE DEF Runs
  <2> QED
    BY <1>1, <1>2, NaturalsReached
<1> QED
  BY <1>3

\* What a descent has found after each branch.
Steps(f, kind, base, seq) ==
    f[0] = base /\ \A k \in 0 .. Len(seq) - 1 : f[k + 1] = Descend(kind, f[k], seq[k + 1])

LEMMA FoldingSteps ==
    ASSUME NEW kind, NEW base, NEW seq, Len(seq) \in Nat, NEW g, Folding(g, kind, base, seq, Len(seq))
    PROVE  \E f : Steps(f, kind, base, seq) /\ f[Len(seq)] = g[1 .. Len(seq)]
<1>1. PICK n : n = Len(seq)
  OBVIOUS
<1> DEFINE f == [k \in 0 .. n |-> g[1 .. k]]
<1>2. n \in Nat
  BY <1>1
<1>3. \A S \in SUBSET (1 .. n) : g[S] = IF S = {} THEN base ELSE Descend(kind, g[S \ {Max(S)}], seq[Max(S)])
  BY <1>1 DEF Folding
<1>4. f[0] = base
  <2>1. {} \in SUBSET (1 .. n) /\ 0 \in 0 .. n
    BY <1>2
  <2>2. f[0] = g[1 .. 0]
    BY <2>1
  <2>3. 1 .. 0 = {}
    OBVIOUS
  <2>4. f[0] = g[{}]
    BY <2>2, <2>3
  <2> HIDE DEF f
  <2> QED
    BY <1>3, <2>1, <2>4
<1>5. ASSUME NEW k \in 0 .. n - 1 PROVE f[k + 1] = Descend(kind, f[k], seq[k + 1])
  <2>1. PICK S : S = 1 .. k + 1
    OBVIOUS
  <2>2. k \in Nat /\ S \in SUBSET (1 .. n) /\ k + 1 \in S /\ S \ {k + 1} = 1 .. k /\ S # {}
    <3>1. k \in Nat /\ k + 1 <= n
      BY <1>2
    <3>2. \A i \in 1 .. k + 1 : i \in 1 .. n
      BY <1>2, <3>1
    <3>3. k + 1 \in 1 .. k + 1
      BY <3>1
    <3>4. (1 .. k + 1) \ {k + 1} = 1 .. k
      BY <3>1
    <3> HIDE DEF f
    <3> QED
      BY <2>1, <3>1, <3>2, <3>3, <3>4
  <2>3. Max(S) = k + 1
    BY <2>1, <2>2, MaxEnd
  <2>4. g[S] = Descend(kind, g[1 .. k], seq[k + 1])
    BY <1>3, <2>2, <2>3
  <2>5. f[k + 1] = g[S] /\ f[k] = g[1 .. k]
    BY <1>2, <2>1
  <2> QED
    BY <2>4, <2>5
<1>6. f[n] = g[1 .. n]
  BY <1>2
<1> HIDE DEF f
<1> QED
  BY <1>1, <1>4, <1>5, <1>6 DEF Steps

LEMMA NarrowSteps ==
    ASSUME NEW base, NEW seq \in Seq(AnyBranch)
    PROVE  \E f : Steps(f, "narrow", base, seq) /\ FoldLeft(Narrow, base, seq) = f[Len(seq)]
<1>1. PICK n : n = Len(seq)
  OBVIOUS
<1>2. n \in Nat /\ DOMAIN seq = 1 .. n
  BY <1>1
<1> DEFINE Is(g) == g = [S \in SUBSET (1 .. n) |-> IF S = {} THEN base ELSE Narrow(g[S \ {Max(S)}], seq[Max(S)])]
<1>3. \A g : Is(g) <=> Folding(g, "narrow", base, seq, n)
  BY DEF Folding, Descend
<1>4. FoldLeft(Narrow, base, seq) = (CHOOSE g : Is(g))[1 .. n]
  BY <1>2 DEF FoldLeft, MapThenFoldSet
<1> HIDE DEF Is
<1>5. PICK g : Is(g) /\ FoldLeft(Narrow, base, seq) = g[1 .. n]
  <2>1. \E g : Is(g)
    BY <1>2, <1>3, FoldingRuns
  <2> QED
    BY <1>4, <2>1
<1> QED
  BY <1>1, <1>2, <1>3, <1>5, FoldingSteps

LEMMA RebaseSteps ==
    ASSUME NEW base, NEW seq \in Seq(AnyBranch)
    PROVE  \E f : Steps(f, "rebase", base, seq) /\ FoldLeft(Rebase, base, seq) = f[Len(seq)]
<1>1. PICK n : n = Len(seq)
  OBVIOUS
<1>2. n \in Nat /\ DOMAIN seq = 1 .. n
  BY <1>1
<1> DEFINE Is(g) == g = [S \in SUBSET (1 .. n) |-> IF S = {} THEN base ELSE Rebase(g[S \ {Max(S)}], seq[Max(S)])]
<1>3. \A g : Is(g) <=> Folding(g, "rebase", base, seq, n)
  BY DEF Folding, Descend
<1>4. FoldLeft(Rebase, base, seq) = (CHOOSE g : Is(g))[1 .. n]
  BY <1>2 DEF FoldLeft, MapThenFoldSet
<1> HIDE DEF Is
<1>5. PICK g : Is(g) /\ FoldLeft(Rebase, base, seq) = g[1 .. n]
  <2>1. \E g : Is(g)
    BY <1>2, <1>3, FoldingRuns
  <2> QED
    BY <1>4, <2>1
<1> QED
  BY <1>1, <1>2, <1>3, <1>5, FoldingSteps

-----------------------------------------------------------------------------
(* The branches of a path.                                                 *)

LEMMA MaxTwo == ASSUME NEW a \in Int, NEW b \in Int PROVE Max({a, b}) = IF a >= b THEN a ELSE b
<1>1. \A x \in {a, b} : (\A y \in {a, b} : x >= y) <=> x = IF a >= b THEN a ELSE b
  OBVIOUS
<1> QED
  BY <1>1 DEF Max

LEMMA MinTwo == ASSUME NEW a \in Int, NEW b \in Int PROVE Min({a, b}) = IF a <= b THEN a ELSE b
<1>1. \A x \in {a, b} : (\A y \in {a, b} : x <= y) <=> x = IF a <= b THEN a ELSE b
  OBVIOUS
<1> QED
  BY <1>1 DEF Min

\* What one branch makes of the bounds.
Fields == {"target", "left", "right", "ok", "rightmost"}
WentLeft(s, b, w) ==
    /\ DOMAIN w = Fields /\ w.target = s.target /\ w.left = s.left /\ w.right = Min({s.right, b.note})
    /\ w.ok = (s.ok /\ Hashes(b, "left")) /\ w.rightmost = "no"
WentRight(s, b, w) ==
    /\ DOMAIN w = Fields /\ w.target = s.target /\ w.right = s.right /\ w.left = Max({s.left, b.note})
    /\ w.ok = (s.ok /\ Hashes(b, "right")) /\ w.rightmost = IF s.rightmost = "unknown" THEN "yes" ELSE s.rightmost

LEMMA NarrowLeft ==
    ASSUME NEW s, DOMAIN s = Fields, NEW b, s.target < b.note PROVE WentLeft(s, b, Narrow(s, b))
<1>1. PICK m, p : m = Min({s.right, b.note}) /\ p = (s.ok /\ Hashes(b, "left"))
  OBVIOUS
<1>2. PICK w : w = [s EXCEPT !.right = m, !.ok = p, !.rightmost = "no"]
  OBVIOUS
<1>3. w.right = m /\ w.ok = p /\ w.rightmost = "no" /\ w.target = s.target /\ w.left = s.left /\ DOMAIN w = DOMAIN s
  BY <1>2, Zenon DEF Fields
<1>4. Narrow(s, b) = w
  BY <1>1, <1>2, Zenon DEF Narrow
<1> QED
  BY <1>1, <1>3, <1>4, Zenon DEF WentLeft

LEMMA NarrowRight ==
    ASSUME NEW s, DOMAIN s = Fields, NEW b, ~(s.target < b.note) PROVE WentRight(s, b, Narrow(s, b))
<1>1. PICK m, p, q : m = Max({s.left, b.note}) /\ p = (s.ok /\ Hashes(b, "right"))
                     /\ q = IF s.rightmost = "unknown" THEN "yes" ELSE s.rightmost
  OBVIOUS
<1>2. PICK w : w = [s EXCEPT !.left = m, !.ok = p, !.rightmost = q]
  OBVIOUS
<1>3. w.left = m /\ w.ok = p /\ w.rightmost = q /\ w.target = s.target /\ w.right = s.right /\ DOMAIN w = DOMAIN s
  BY <1>2, Zenon DEF Fields
<1>4. Narrow(s, b) = w
  BY <1>1, <1>2, Zenon DEF Narrow
<1> QED
  BY <1>1, <1>3, <1>4, Zenon DEF WentRight

\* The descents for two bytes: the second has taken the same branches if its
\* byte is within the bounds of the first.
Alike(s, v) == s.left = v.left /\ s.right = v.right /\ s.ok = v.ok /\ s.rightmost = v.rightmost
Bounded(s, t, size) ==
    DOMAIN s = Fields /\ s.target = t /\ s.left \in Int /\ s.right \in Int /\ 0 <= s.left /\ s.right <= size
Inside(s, u) == s.left <= u /\ u < s.right
Together(s, v, t, u, size) == Bounded(s, t, size) /\ Bounded(v, u, size) /\ (Inside(s, u) => Alike(s, v))

LEMMA NarrowBounded ==
    ASSUME NEW t \in Int, NEW size \in Int, NEW b \in AnyBranch, NEW s, Bounded(s, t, size)
    PROVE  Bounded(Narrow(s, b), t, size)
<1>1. PICK l, r, c, w : l = s.left /\ r = s.right /\ c = b.note /\ w = Narrow(s, b)
  OBVIOUS
<1>2. DOMAIN s = Fields /\ s.target = t /\ l \in Int /\ r \in Int /\ 0 <= l /\ r <= size /\ c \in Int
  BY <1>1 DEF Bounded, AnyBranch
<1>3. CASE t < c
  <2>1. DOMAIN w = Fields /\ w.target = t /\ w.left = l /\ w.right = Min({r, c})
    BY <1>1, <1>2, <1>3, NarrowLeft, Zenon DEF WentLeft
  <2>2. Min({r, c}) \in Int /\ Min({r, c}) <= size
    BY <1>2, MinTwo
  <2> QED
    BY <1>1, <1>2, <2>1, <2>2 DEF Bounded
<1>4. CASE ~(t < c)
  <2>1. DOMAIN w = Fields /\ w.target = t /\ w.right = r /\ w.left = Max({l, c})
    BY <1>1, <1>2, <1>4, NarrowRight, Zenon DEF WentRight
  <2>2. Max({l, c}) \in Int /\ 0 <= Max({l, c})
    BY <1>2, MaxTwo
  <2> QED
    BY <1>1, <1>2, <2>1, <2>2 DEF Bounded
<1> QED
  BY <1>3, <1>4

LEMMA NarrowTogether ==
    ASSUME NEW t \in Int, NEW u \in Int, NEW size \in Int, NEW b \in AnyBranch, NEW s, NEW v, Together(s, v, t, u, size)
    PROVE  Together(Narrow(s, b), Narrow(v, b), t, u, size)
<1>1. PICK l, r, c : l = s.left /\ r = s.right /\ c = b.note
  OBVIOUS
<1>2. PICK w, x : w = Narrow(s, b) /\ x = Narrow(v, b)
  OBVIOUS
<1>3. DOMAIN s = Fields /\ DOMAIN v = Fields /\ s.target = t /\ v.target = u /\ l \in Int /\ r \in Int /\ c \in Int
  BY <1>1 DEF Together, Bounded, AnyBranch
<1>4. Inside(s, u) => Alike(s, v)
  BY DEF Together
<1>5. Bounded(w, t, size) /\ Bounded(x, u, size)
  BY <1>2, NarrowBounded DEF Together
<1>6. ASSUME Inside(w, u) PROVE Alike(w, x)
  <2>1. CASE t < c
    <3>1. WentLeft(s, b, w)
      BY <1>1, <1>2, <1>3, <2>1, NarrowLeft, Zenon
    <3>2. w.left = l /\ w.right = Min({r, c})
      BY <1>1, <3>1 DEF WentLeft
    <3>3. l <= u /\ u < r /\ u < c
      <4>1. l <= u /\ u < Min({r, c})
        BY <1>6, <3>2 DEF Inside
      <4>2. Min({r, c}) = IF r <= c THEN r ELSE c
        BY <1>3, MinTwo
      <4> QED
        BY <1>3, <4>1, <4>2
    <3>4. Alike(s, v)
      BY <1>1, <1>4, <3>3 DEF Inside
    <3>5. WentLeft(v, b, x)
      BY <1>1, <1>2, <1>3, <3>3, NarrowLeft, Zenon
    <3> QED
      BY <3>1, <3>4, <3>5, Zenon DEF WentLeft, Alike
  <2>2. CASE ~(t < c)
    <3>1. WentRight(s, b, w)
      BY <1>1, <1>2, <1>3, <2>2, NarrowRight, Zenon
    <3>2. w.right = r /\ w.left = Max({l, c})
      BY <1>1, <3>1 DEF WentRight
    <3>3. l <= u /\ u < r /\ ~(u < c)
      <4>1. u < r /\ Max({l, c}) <= u
        BY <1>6, <3>2 DEF Inside
      <4>2. Max({l, c}) = IF l >= c THEN l ELSE c
        BY <1>3, MaxTwo
      <4> QED
        BY <1>3, <4>1, <4>2
    <3>4. Alike(s, v)
      BY <1>1, <1>4, <3>3 DEF Inside
    <3>5. WentRight(v, b, x)
      BY <1>1, <1>2, <1>3, <3>3, NarrowRight, Zenon
    <3> QED
      BY <3>1, <3>4, <3>5, Zenon DEF WentRight, Alike
  <2> QED
    BY <2>1, <2>2
<1> QED
  BY <1>2, <1>5, <1>6 DEF Together

LEMMA NarrowFolds ==
    ASSUME NEW t \in Int, NEW u \in Int, NEW size \in Int, NEW seq \in Seq(AnyBranch)
    PROVE  Together(FoldLeft(Narrow, Bounds(t, size), seq), FoldLeft(Narrow, Bounds(u, size), seq), t, u, size)
<1>1. PICK f, n : n = Len(seq) /\ Steps(f, "narrow", Bounds(t, size), seq) /\ FoldLeft(Narrow, Bounds(t, size), seq) = f[n]
  BY NarrowSteps
<1>2. PICK g : Steps(g, "narrow", Bounds(u, size), seq) /\ FoldLeft(Narrow, Bounds(u, size), seq) = g[n]
  BY <1>1, NarrowSteps
<1>3. n \in Nat /\ \A k \in 1 .. n : seq[k] \in AnyBranch
  BY <1>1
<1> DEFINE S == {k \in Nat : k > n \/ Together(f[k], g[k], t, u, size)}
<1>4. 0 \in S
  <2>1. f[0] = Bounds(t, size) /\ g[0] = Bounds(u, size)
    BY <1>1, <1>2 DEF Steps
  <2>2. Together(Bounds(t, size), Bounds(u, size), t, u, size)
    BY DEF Together, Bounded, Alike, Inside, Fields, Bounds
  <2> QED
    BY <2>1, <2>2
<1>5. ASSUME NEW k \in Nat, k \in S PROVE k + 1 \in S
  <2>1. CASE k + 1 <= n
    <3>1. k \in 0 .. n - 1 /\ k + 1 \in 1 .. n /\ ~(k > n)
      BY <1>3, <2>1
    <3>2. f[k + 1] = Narrow(f[k], seq[k + 1]) /\ g[k + 1] = Narrow(g[k], seq[k + 1])
      BY <1>1, <1>2, <3>1 DEF Steps, Descend
    <3>3. Together(f[k], g[k], t, u, size)
      BY <1>5, <3>1
    <3>4. Together(Narrow(f[k], seq[k + 1]), Narrow(g[k], seq[k + 1]), t, u, size)
      BY <1>3, <3>1, <3>3, NarrowTogether
    <3> QED
      BY <3>2, <3>4
  <2> QED
    BY <1>3, <2>1
<1>6. Nat \subseteq S
  <2> HIDE DEF S
  <2> QED
    BY <1>4, <1>5, NaturalsReached
<1>7. Together(f[n], g[n], t, u, size)
  BY <1>3, <1>6
<1> QED
  BY <1>1, <1>2, <1>7

-----------------------------------------------------------------------------
(* The branches of rebased trees.                                          *)

\* What one rebase branch makes of a tree.
TreeFields == {"target", "right", "shift", "ok"}
StaysHere(s, b, w) ==
    /\ DOMAIN w = TreeFields /\ w.target = s.target /\ w.shift = s.shift /\ w.right = Min({s.right, b.note})
    /\ w.ok = (s.ok /\ Hashes(b, "left"))
GoesBehind(s, b, w) ==
    /\ DOMAIN w = TreeFields /\ w.target = s.target - b.note /\ w.right = s.right - b.note /\ w.shift = s.shift + b.note
    /\ w.ok = (s.ok /\ Hashes(b, "right") /\ s.right >= b.note)

LEMMA RebaseHere ==
    ASSUME NEW s, DOMAIN s = TreeFields, NEW b, s.target < b.note PROVE StaysHere(s, b, Rebase(s, b))
<1>1. PICK m, p : m = Min({s.right, b.note}) /\ p = (s.ok /\ Hashes(b, "left"))
  OBVIOUS
<1>2. PICK w : w = [s EXCEPT !.right = m, !.ok = p]
  OBVIOUS
<1>3. w.right = m /\ w.ok = p /\ w.target = s.target /\ w.shift = s.shift /\ DOMAIN w = DOMAIN s
  BY <1>2, Zenon DEF TreeFields
<1>4. Rebase(s, b) = w
  BY <1>1, <1>2, Zenon DEF Rebase
<1> QED
  BY <1>1, <1>3, <1>4, Zenon DEF StaysHere

LEMMA RebaseBehind ==
    ASSUME NEW s, DOMAIN s = TreeFields, NEW b, ~(s.target < b.note) PROVE GoesBehind(s, b, Rebase(s, b))
<1>1. PICK t, m, h, p : t = s.target - b.note /\ m = s.right - b.note /\ h = s.shift + b.note
                        /\ p = (s.ok /\ Hashes(b, "right") /\ s.right >= b.note)
  OBVIOUS
<1>2. PICK w : w = [s EXCEPT !.target = t, !.right = m, !.shift = h, !.ok = p]
  OBVIOUS
<1>3. w.target = t /\ w.right = m /\ w.shift = h /\ w.ok = p /\ DOMAIN w = DOMAIN s
  BY <1>2, Zenon DEF TreeFields
<1>4. Rebase(s, b) = w
  BY <1>1, <1>2, Zenon DEF Rebase
<1> QED
  BY <1>1, <1>3, <1>4, Zenon DEF GoesBehind

\* The descents through the rebase branches for two bytes.
SameTree(s, v) == s.right = v.right /\ s.shift = v.shift /\ s.ok = v.ok
Shifted(s, t) ==
    DOMAIN s = TreeFields /\ s.right \in Int /\ s.shift \in Nat /\ s.target = t - s.shift
Within(s, u) == s.shift <= u /\ u - s.shift < s.right
OneTree(s, v, t, u) == Shifted(s, t) /\ Shifted(v, u) /\ (Within(s, u) => SameTree(s, v))

LEMMA RebaseShifted ==
    ASSUME NEW t \in Int, NEW b \in AnyBranch, NEW s, Shifted(s, t) PROVE Shifted(Rebase(s, b), t)
<1>1. PICK a, r, h, c, w : a = s.target /\ r = s.right /\ h = s.shift /\ c = b.note /\ w = Rebase(s, b)
  OBVIOUS
<1>2. DOMAIN s = TreeFields /\ r \in Int /\ h \in Nat /\ a = t - h /\ c \in Nat
  BY <1>1 DEF Shifted, AnyBranch
<1>3. CASE a < c
  <2>1. DOMAIN w = TreeFields /\ w.target = a /\ w.shift = h /\ w.right = Min({r, c})
    BY <1>1, <1>2, <1>3, RebaseHere, Zenon DEF StaysHere
  <2>2. Min({r, c}) \in Int
    BY <1>2, MinTwo
  <2> QED
    BY <1>1, <1>2, <2>1, <2>2 DEF Shifted
<1>4. CASE ~(a < c)
  <2>1. DOMAIN w = TreeFields /\ w.target = a - c /\ w.right = r - c /\ w.shift = h + c
    BY <1>1, <1>2, <1>4, RebaseBehind, Zenon DEF GoesBehind
  <2> QED
    BY <1>1, <1>2, <2>1 DEF Shifted
<1> QED
  BY <1>3, <1>4

LEMMA RebaseOneTree ==
    ASSUME NEW t \in Int, NEW u \in Int, NEW b \in AnyBranch, NEW s, NEW v, OneTree(s, v, t, u)
    PROVE  OneTree(Rebase(s, b), Rebase(v, b), t, u)
<1>1. PICK r, h, c : r = s.right /\ h = s.shift /\ c = b.note
  OBVIOUS
<1>2. PICK w, x : w = Rebase(s, b) /\ x = Rebase(v, b)
  OBVIOUS
<1>3. /\ DOMAIN s = TreeFields /\ DOMAIN v = TreeFields /\ s.target = t - h /\ v.target = u - v.shift
      /\ r \in Int /\ h \in Nat /\ c \in Nat
  BY <1>1 DEF OneTree, Shifted, AnyBranch
<1>4. Within(s, u) => SameTree(s, v)
  BY DEF OneTree
<1>5. Shifted(w, t) /\ Shifted(x, u)
  BY <1>2, RebaseShifted DEF OneTree
<1>6. ASSUME Within(w, u) PROVE SameTree(w, x)
  <2>1. CASE t - h < c
    <3>1. StaysHere(s, b, w)
      BY <1>1, <1>2, <1>3, <2>1, RebaseHere, Zenon
    <3>2. w.shift = h /\ w.right = Min({r, c})
      BY <1>1, <3>1 DEF StaysHere
    <3>3. h <= u /\ u - h < r /\ u - h < c
      <4>1. h <= u /\ u - h < Min({r, c})
        BY <1>6, <3>2 DEF Within
      <4>2. Min({r, c}) = IF r <= c THEN r ELSE c
        BY <1>3, MinTwo
      <4> QED
        BY <1>3, <4>1, <4>2
    <3>4. SameTree(s, v)
      BY <1>1, <1>4, <3>3 DEF Within
    <3>5. v.target < b.note
      BY <1>1, <1>3, <3>3, <3>4 DEF SameTree
    <3>6. StaysHere(v, b, x)
      BY <1>2, <1>3, <3>5, RebaseHere, Zenon
    <3> QED
      BY <3>1, <3>4, <3>6, Zenon DEF StaysHere, SameTree
  <2>2. CASE ~(t - h < c)
    <3>1. GoesBehind(s, b, w)
      BY <1>1, <1>2, <1>3, <2>2, RebaseBehind, Zenon
    <3>2. w.shift = h + c /\ w.right = r - c
      BY <1>1, <3>1 DEF GoesBehind
    <3>3. h <= u /\ u - h < r /\ ~(u - h < c)
      <4>1. h + c <= u /\ u - (h + c) < r - c
        BY <1>6, <3>2 DEF Within
      <4> QED
        BY <1>3, <4>1
    <3>4. SameTree(s, v)
      BY <1>1, <1>4, <3>3 DEF Within
    <3>5. ~(v.target < b.note)
      BY <1>1, <1>3, <3>3, <3>4 DEF SameTree
    <3>6. GoesBehind(v, b, x)
      BY <1>2, <1>3, <3>5, RebaseBehind, Zenon
    <3> QED
      BY <3>1, <3>4, <3>6, Zenon DEF GoesBehind, SameTree
  <2> QED
    BY <2>1, <2>2
<1> QED
  BY <1>2, <1>5, <1>6 DEF OneTree

Tree(t, size) == [target |-> t, right |-> size, shift |-> 0, ok |-> TRUE]

LEMMA RebaseFolds ==
    ASSUME NEW t \in Int, NEW u \in Int, NEW size \in Int, NEW seq \in Seq(AnyBranch)
    PROVE  OneTree(FoldLeft(Rebase, Tree(t, size), seq), FoldLeft(Rebase, Tree(u, size), seq), t, u)
<1>1. PICK f, n : n = Len(seq) /\ Steps(f, "rebase", Tree(t, size), seq) /\ FoldLeft(Rebase, Tree(t, size), seq) = f[n]
  BY RebaseSteps
<1>2. PICK g : Steps(g, "rebase", Tree(u, size), seq) /\ FoldLeft(Rebase, Tree(u, size), seq) = g[n]
  BY <1>1, RebaseSteps
<1>3. n \in Nat /\ \A k \in 1 .. n : seq[k] \in AnyBranch
  BY <1>1
<1> DEFINE S == {k \in Nat : k > n \/ OneTree(f[k], g[k], t, u)}
<1>4. 0 \in S
  <2>1. f[0] = Tree(t, size) /\ g[0] = Tree(u, size)
    BY <1>1, <1>2 DEF Steps
  <2>2. OneTree(Tree(t, size), Tree(u, size), t, u)
    BY DEF OneTree, Shifted, SameTree, TreeFields, Tree
  <2> QED
    BY <2>1, <2>2
<1>5. ASSUME NEW k \in Nat, k \in S PROVE k + 1 \in S
  <2>1. CASE k + 1 <= n
    <3>1. k \in 0 .. n - 1 /\ k + 1 \in 1 .. n /\ ~(k > n)
      BY <1>3, <2>1
    <3>2. f[k + 1] = Rebase(f[k], seq[k + 1]) /\ g[k + 1] = Rebase(g[k], seq[k + 1])
      BY <1>1, <1>2, <3>1 DEF Steps, Descend
    <3>3. OneTree(f[k], g[k], t, u)
      BY <1>5, <3>1
    <3>4. OneTree(Rebase(f[k], seq[k + 1]), Rebase(g[k], seq[k + 1]), t, u)
      BY <1>3, <3>1, <3>3, RebaseOneTree
    <3> QED
      BY <3>2, <3>4
  <2> QED
    BY <1>3, <2>1
<1>6. Nat \subseteq S
  <2> HIDE DEF S
  <2> QED
    BY <1>4, <1>5, NaturalsReached
<1>7. OneTree(f[n], g[n], t, u)
  BY <1>3, <1>6
<1> QED
  BY <1>1, <1>2, <1>7

-----------------------------------------------------------------------------
(* Both paths.                                                             *)

PathOf(t, tx) == FoldLeft(Narrow, Bounds(t, BlockSize), tx.branches)
TreeOf(t, size, data) == FoldLeft(Rebase, Tree(t, size), data.rebases)
LeafOf(t, size, data) == FoldLeft(Narrow, Bounds(t, size), data.branches)

LEMMA TransactionIs ==
    ASSUME NEW tx, NEW weave, NEW offset, NEW s, s = PathOf(offset - weave - 1, tx)
    PROVE  Transaction(tx, weave, offset)
               = [ok |-> s.ok /\ tx.leaf > s.left /\ tx.leaf <= s.right, first |-> weave + s.left + 1, size |-> tx.leaf - s.left]
BY Zenon DEF Transaction, PathOf

LEMMA TransactionSpan ==
    ASSUME NEW tx, NEW weave, NEW offset, NEW s, s = PathOf(offset - weave - 1, tx), NEW t, t = Transaction(tx, weave, offset)
    PROVE  t.first = weave + s.left + 1 /\ t.size = tx.leaf - s.left
<1>1. PICK g, a, e : g = (s.ok /\ tx.leaf > s.left /\ tx.leaf <= s.right) /\ a = weave + s.left + 1 /\ e = tx.leaf - s.left
  OBVIOUS
<1>2. t = [ok |-> g, first |-> a, size |-> e]
  BY <1>1, TransactionIs, Zenon
<1> QED
  BY <1>1, <1>2

\* Two bytes of one transaction have the same transaction.
LEMMA OneTransaction ==
    ASSUME NEW tx \in TxPath, NEW weave \in Nat, NEW offset \in Int, Transaction(tx, weave, offset).ok,
           NEW i \in Nat, i < Transaction(tx, weave, offset).size
    PROVE  /\ Transaction(tx, weave, Transaction(tx, weave, offset).first + i) = Transaction(tx, weave, offset)
           /\ Transaction(tx, weave, offset).first \in Int /\ Transaction(tx, weave, offset).size \in Int
           /\ weave < Transaction(tx, weave, offset).first + i
           /\ Transaction(tx, weave, offset).first + i <= weave + BlockSize
<1>1. PICK t, s : t = offset - weave - 1 /\ s = PathOf(t, tx)
  OBVIOUS
<1>2. PICK T : T = Transaction(tx, weave, offset)
  OBVIOUS
<1>3. T = [ok |-> s.ok /\ tx.leaf > s.left /\ tx.leaf <= s.right, first |-> weave + s.left + 1, size |-> tx.leaf - s.left]
  BY <1>1, <1>2, TransactionIs
<1>4. PICK l, r, z : l = s.left /\ r = s.right /\ z = tx.leaf
  OBVIOUS
<1>5. T.first = weave + l + 1 /\ T.size = z - l /\ z <= r
  <2>1. T.first = weave + l + 1 /\ T.size = z - l /\ T.ok = (s.ok /\ z > l /\ z <= r)
    BY <1>3, <1>4, Zenon
  <2> QED
    BY <1>2, <2>1
<1>6. PICK u, o : o = T.first + i /\ u = o - weave - 1
  OBVIOUS
<1>7. PICK v : v = PathOf(u, tx)
  OBVIOUS
<1>8. t \in Int /\ BlockSize \in Int /\ tx.branches \in Seq(AnyBranch) /\ z \in Nat
  BY <1>1, <1>4, ProofAssumption
<1>9. l \in Int /\ r \in Int /\ 0 <= l /\ r <= BlockSize
  <2>1. Together(s, s, t, t, BlockSize)
    BY <1>1, <1>8, NarrowFolds DEF PathOf
  <2> QED
    BY <1>4, <2>1 DEF Together, Bounded
<1>10. u = l + i /\ o \in Int /\ weave < o /\ o <= weave + BlockSize
  <2>1. i < z - l
    BY <1>2, <1>5
  <2> QED
    BY <1>5, <1>6, <1>8, <1>9, <2>1
<1>11. Alike(s, v)
  <2>1. Together(s, v, t, u, BlockSize)
    BY <1>1, <1>7, <1>8, <1>9, <1>10, NarrowFolds DEF PathOf
  <2>2. Inside(s, u)
    <3>1. i < z - l
      BY <1>2, <1>5
    <3>2. l <= u /\ u < r
      BY <1>5, <1>8, <1>9, <1>10, <3>1
    <3> QED
      BY <1>4, <3>2 DEF Inside
  <2> QED
    BY <2>1, <2>2 DEF Together
<1>12. Transaction(tx, weave, o) = T
  <2>1. Transaction(tx, weave, o)
            = [ok |-> v.ok /\ tx.leaf > v.left /\ tx.leaf <= v.right, first |-> weave + v.left + 1, size |-> tx.leaf - v.left]
    BY <1>6, <1>7, TransactionIs
  <2>2. s.left = v.left /\ s.right = v.right /\ s.ok = v.ok
    BY <1>11 DEF Alike
  <2> QED
    BY <1>3, <2>1, <2>2, Zenon
<1>13. T.first \in Int /\ T.size \in Int
  BY <1>5, <1>8, <1>9
<1> QED
  BY <1>2, <1>6, <1>10, <1>12, <1>13

DataOk(data, size, band, r, s) ==
    /\ r.ok /\ s.ok /\ r.right > 0
    /\ data.rebases # << >> => band = "relaxed"
    /\ Borders(band, s, data.leaf) /\ Split(band, size, r.shift, s, data.leaf)
DataFrom(data, size, band, r, s) ==
    [ok |-> DataOk(data, size, band, r, s),
     start |-> r.shift + s.left, end |-> r.shift + EndOf(s, data.leaf)]

LEMMA DataIs ==
    ASSUME NEW data, NEW size, NEW offset, NEW byte, NEW r, r = TreeOf(byte, size, data),
           NEW s, s = LeafOf(r.target, r.right, data)
    PROVE  Data(data, size, offset, byte) = DataFrom(data, size, Band(offset), r, s)
BY Zenon DEF Data, TreeOf, Tree, LeafOf, DataFrom, DataOk

LEMMA DataEnds ==
    ASSUME NEW data, NEW size, NEW band, NEW r, NEW s, NEW d, d = DataFrom(data, size, band, r, s)
    PROVE  d.start = r.shift + s.left /\ d.end = r.shift + EndOf(s, data.leaf)
<1>1. PICK g, a, e : g = DataOk(data, size, band, r, s) /\ a = r.shift + s.left /\ e = r.shift + EndOf(s, data.leaf)
  OBVIOUS
<1>2. d = [ok |-> g, start |-> a, end |-> e]
  BY <1>1, Zenon DEF DataFrom
<1> QED
  BY <1>1, <1>2

LEMMA DataSame ==
    ASSUME NEW data, NEW size, NEW band, NEW r, NEW s, NEW q, NEW v, SameTree(r, q), Alike(s, v)
    PROVE  DataFrom(data, size, band, r, s) = DataFrom(data, size, band, q, v)
<1>1. r.right = q.right /\ r.shift = q.shift /\ r.ok = q.ok
  BY DEF SameTree
<1>2. s.left = v.left /\ s.right = v.right /\ s.ok = v.ok /\ s.rightmost = v.rightmost
  BY DEF Alike
<1>3. EndOf(s, data.leaf) = EndOf(v, data.leaf)
  BY <1>2, Zenon DEF EndOf
<1>4. Borders(band, s, data.leaf) <=> Borders(band, v, data.leaf)
  BY <1>2, Zenon DEF Borders
<1>5. Split(band, size, r.shift, s, data.leaf) <=> Split(band, size, q.shift, v, data.leaf)
  BY <1>1, <1>2 DEF Split
<1>6. DataOk(data, size, band, r, s) = DataOk(data, size, band, q, v)
  BY <1>1, <1>2, <1>4, <1>5, Zenon DEF DataOk
<1> QED
  BY <1>1, <1>2, <1>3, <1>6, Zenon DEF DataFrom

\* Two bytes of one chunk have the same chunk.
LEMMA OneChunk ==
    ASSUME NEW data \in DataPath, NEW size \in Int, NEW offset, NEW other, Band(offset) = Band(other),
           NEW t \in Int, NEW i \in Int, NEW d, d = Data(data, size, offset, t),
           d.start <= t, t < d.end, d.start <= i, i < d.end, i # t
    PROVE  Data(data, size, other, i) = d
<1>1. PICK r, q : r = TreeOf(t, size, data) /\ q = TreeOf(i, size, data)
  OBVIOUS
<1>2. PICK s, v : s = LeafOf(r.target, r.right, data) /\ v = LeafOf(q.target, q.right, data)
  OBVIOUS
<1>3. data.rebases \in Seq(AnyBranch) /\ data.branches \in Seq(AnyBranch) /\ data.leaf \in Int
  BY ProofAssumption
<1>4. OneTree(r, q, t, i)
  BY <1>1, <1>3, RebaseFolds DEF TreeOf
<1>5. PICK h, m, l, e, z : h = r.shift /\ m = r.right /\ l = s.left /\ e = s.right /\ z = data.leaf
  OBVIOUS
<1>6. h \in Nat /\ m \in Int /\ r.target = t - h /\ q.target = i - q.shift
  BY <1>4, <1>5 DEF OneTree, Shifted
<1>7. Together(s, s, t - h, t - h, m)
  BY <1>2, <1>3, <1>5, <1>6, NarrowFolds DEF LeafOf
<1>8. l \in Int /\ e \in Int /\ 0 <= l /\ e <= m
  BY <1>5, <1>7 DEF Together, Bounded
<1>9. d = DataFrom(data, size, Band(offset), r, s)
  BY <1>1, <1>2, DataIs
<1>10. d.start = h + l /\ d.end = h + EndOf(s, z)
  <2>1. d.start = r.shift + s.left /\ d.end = r.shift + EndOf(s, data.leaf)
    BY <1>9, DataEnds
  <2> QED
    BY <1>5, <2>1
<1>11. EndOf(s, z) = Max({Min({e, z}), l + 1})
  BY <1>5 DEF EndOf
<1>12. h + l <= i /\ i < h + e
  <2>1. PICK k : k = Min({e, z})
    OBVIOUS
  <2>2. k \in Int /\ k <= e
    BY <1>3, <1>5, <1>8, <2>1, MinTwo
  <2>3. EndOf(s, z) = IF k >= l + 1 THEN k ELSE l + 1
    <3>1. Max({k, l + 1}) = IF k >= l + 1 THEN k ELSE l + 1
      BY <1>8, <2>2, MaxTwo
    <3>2. EndOf(s, z) = Max({k, l + 1})
      BY <1>11, <2>1, Zenon
    <3> QED
      BY <3>1, <3>2
  <2>4. PICK j : j = EndOf(s, z)
    OBVIOUS
  <2>5. h + l <= t /\ t < h + j /\ h + l <= i /\ i < h + j
    BY <1>10, <2>4
  <2>6. j = IF k >= l + 1 THEN k ELSE l + 1
    BY <2>3, <2>4
  <2> QED
    BY <1>6, <1>8, <2>2, <2>5, <2>6
<1>13. SameTree(r, q)
  <2>1. h <= i /\ i - h < m
    BY <1>6, <1>8, <1>12
  <2> QED
    BY <1>4, <1>5, <2>1 DEF OneTree, Within
<1>14. Alike(s, v)
  <2>1. q.target = i - h /\ q.right = m
    BY <1>5, <1>6, <1>13 DEF SameTree
  <2>2. Together(s, v, t - h, i - h, m)
    BY <1>2, <1>3, <1>5, <1>6, <2>1, NarrowFolds DEF LeafOf
  <2>3. Inside(s, i - h)
    <3>1. l <= i - h /\ i - h < e
      BY <1>6, <1>8, <1>12
    <3> QED
      BY <1>5, <3>1 DEF Inside
  <2> QED
    BY <2>2, <2>3 DEF Together
<1>15. Data(data, size, other, i) = DataFrom(data, size, Band(offset), q, v)
  BY <1>1, <1>2, DataIs
<1> QED
  BY <1>9, <1>13, <1>14, <1>15, DataSame

LEMMA DataInts ==
    ASSUME NEW data \in DataPath, NEW size \in Int, NEW offset, NEW t \in Int, NEW d, d = Data(data, size, offset, t)
    PROVE  d.start \in Nat /\ d.end \in Int
<1>1. PICK r : r = TreeOf(t, size, data)
  OBVIOUS
<1>2. PICK s : s = LeafOf(r.target, r.right, data)
  OBVIOUS
<1>3. data.rebases \in Seq(AnyBranch) /\ data.branches \in Seq(AnyBranch) /\ data.leaf \in Int
  BY ProofAssumption
<1>4. OneTree(r, r, t, t)
  BY <1>1, <1>3, RebaseFolds DEF TreeOf
<1>5. PICK h, l, e, z : h = r.shift /\ l = s.left /\ e = s.right /\ z = data.leaf
  OBVIOUS
<1>6. h \in Nat /\ r.right \in Int /\ r.target \in Int
  BY <1>4, <1>5 DEF OneTree, Shifted
<1>7. Together(s, s, r.target, r.target, r.right)
  BY <1>2, <1>3, <1>6, NarrowFolds DEF LeafOf
<1>8. l \in Int /\ e \in Int /\ 0 <= l
  BY <1>5, <1>7 DEF Together, Bounded
<1>9. d = DataFrom(data, size, Band(offset), r, s)
  BY <1>1, <1>2, DataIs
<1>10. d.start = h + l /\ d.end = h + EndOf(s, z)
  <2>1. d.start = r.shift + s.left /\ d.end = r.shift + EndOf(s, data.leaf)
    BY <1>9, DataEnds
  <2> QED
    BY <1>5, <2>1
<1>11. EndOf(s, z) \in Int
  <2>1. PICK k : k = Min({e, z})
    OBVIOUS
  <2>2. k \in Int
    BY <1>3, <1>5, <1>8, <2>1, MinTwo
  <2>3. EndOf(s, z) = Max({k, l + 1})
    BY <1>5, <2>1 DEF EndOf
  <2> QED
    BY <1>8, <2>2, <2>3, MaxTwo
<1> QED
  BY <1>6, <1>8, <1>10, <1>11

\* What a proof says is what the two paths say.
Proven(offset, weave, t, byte, d) ==
    /\ offset > weave /\ offset <= weave + BlockSize
    /\ t.ok /\ byte >= 0 /\ byte < t.size
    /\ d.ok /\ d.start <= byte /\ byte < d.end /\ d.end <= t.size
    /\ d.end - d.start <= MaxChunk
ProvenAs(tx, data, weave, t, d, band) ==
    [tx |-> tx, data |-> data, weave |-> weave, first |-> t.first, size |-> t.size,
     start |-> d.start, end |-> d.end, band |-> band]

LEMMA ProofIs ==
    ASSUME NEW tx, NEW data, NEW weave, NEW offset, NEW t, t = Transaction(tx, weave, offset),
           NEW d, d = Data(data, t.size, offset, offset - t.first)
    PROVE  Proof(tx, data, weave, offset) = IF Proven(offset, weave, t, offset - t.first, d)
                                            THEN ProvenAs(tx, data, weave, t, d, Band(offset)) ELSE NoProof
BY Zenon DEF Proof, Proven, ProvenAs

LEMMA ProvenInts ==
    ASSUME NEW tx \in TxPath, NEW data \in DataPath, NEW weave \in Nat, NEW offset \in Int,
           NEW t, t = Transaction(tx, weave, offset), NEW byte, byte = offset - t.first,
           NEW d, d = Data(data, t.size, offset, byte), Proven(offset, weave, t, byte, d)
    PROVE  t.size \in Int /\ byte \in Int /\ t.first \in Int /\ d.start \in Nat /\ d.end \in Int
<1>1. PICK at, s : at = offset - weave - 1 /\ s = PathOf(at, tx)
  OBVIOUS
<1>2. t.first = weave + s.left + 1 /\ t.size = tx.leaf - s.left
  BY <1>1, TransactionSpan
<1>3. at \in Int /\ BlockSize \in Int /\ tx.branches \in Seq(AnyBranch) /\ tx.leaf \in Int
  BY <1>1, ProofAssumption
<1>4. Together(s, s, at, at, BlockSize)
  BY <1>1, <1>3, NarrowFolds DEF PathOf
<1>5. s.left \in Int
  BY <1>4 DEF Together, Bounded
<1>6. t.size \in Int /\ byte \in Int /\ t.first \in Int
  BY <1>2, <1>3, <1>5
<1> QED
  BY <1>6, DataInts

LEMMA ProofInts ==
    ASSUME NEW tx \in TxPath, NEW data \in DataPath, NEW weave \in Nat, NEW offset \in Int,
           NEW p, p = Proof(tx, data, weave, offset), p # NoProof
    PROVE  p.start \in Nat /\ p.end \in Int
<1>1. PICK t : t = Transaction(tx, weave, offset)
  OBVIOUS
<1>2. PICK byte : byte = offset - t.first
  OBVIOUS
<1>3. PICK d : d = Data(data, t.size, offset, byte)
  OBVIOUS
<1>4. Proven(offset, weave, t, byte, d) /\ p = ProvenAs(tx, data, weave, t, d, Band(offset))
  BY <1>1, <1>2, <1>3, ProofIs
<1>5. p.start = d.start /\ p.end = d.end
  BY <1>4 DEF ProvenAs
<1> QED
  BY <1>1, <1>2, <1>3, <1>4, <1>5, ProvenInts

LEMMA ProofCovers ==
    ASSUME NEW tx \in TxPath, NEW data \in DataPath, NEW weave \in Nat, NEW offset \in Int,
           NEW p, p = Proof(tx, data, weave, offset), p # NoProof,
           NEW i \in Int, p.start <= i, i < p.end, Band(p.first + i) = p.band
    PROVE  Proof(p.tx, p.data, p.weave, p.first + i) = p
<1>1. PICK t : t = Transaction(tx, weave, offset)
  OBVIOUS
<1>2. PICK byte : byte = offset - t.first
  OBVIOUS
<1>3. PICK d : d = Data(data, t.size, offset, byte)
  OBVIOUS
<1>4. Proven(offset, weave, t, byte, d) /\ p = ProvenAs(tx, data, weave, t, d, Band(offset))
  BY <1>1, <1>2, <1>3, ProofIs
<1>5. /\ p.tx = tx /\ p.data = data /\ p.weave = weave /\ p.first = t.first
      /\ p.start = d.start /\ p.end = d.end /\ p.band = Band(offset)
  BY <1>4 DEF ProvenAs
<1>6. t.ok /\ byte >= 0 /\ byte < t.size /\ d.ok /\ d.start <= byte /\ byte < d.end /\ d.end <= t.size /\ d.end - d.start <= MaxChunk
  BY <1>4 DEF Proven
<1>7. t.size \in Int /\ byte \in Int /\ t.first \in Int
  BY <1>1, <1>2, <1>3, <1>4, ProvenInts
<1>8. d.start \in Nat /\ d.end \in Int
  BY <1>1, <1>2, <1>3, <1>4, ProvenInts
<1>9. i \in Nat /\ i < t.size /\ d.start <= i /\ i < d.end
  BY <1>5, <1>6, <1>7, <1>8
<1>10. PICK o : o = t.first + i
  OBVIOUS
<1>11. Transaction(tx, weave, o) = t /\ weave < o /\ o <= weave + BlockSize
  BY <1>1, <1>6, <1>9, <1>10, OneTransaction
<1>12. o - t.first = i /\ Band(o) = Band(offset)
  BY <1>5, <1>7, <1>10
<1>13. Data(data, t.size, o, i) = d
  <2>1. CASE i = byte
    <3>1. o = offset
      BY <1>2, <1>7, <1>10, <2>1
    <3> QED
      BY <1>3, <2>1, <3>1
  <2>2. CASE i # byte
    BY <1>3, <1>6, <1>7, <1>9, <1>12, <2>2, OneChunk
  <2> QED
    BY <2>1, <2>2
<1>14. Proven(o, weave, t, i, d)
  <2>1. o > weave /\ o <= weave + BlockSize
    <3>1. o \in Int
      BY <1>7, <1>10
    <3> QED
      BY <1>11, <3>1
  <2> QED
    BY <1>6, <1>9, <2>1 DEF Proven
<1>15. Proof(tx, data, weave, o) = ProvenAs(tx, data, weave, t, d, Band(o))
  BY <1>11, <1>12, <1>13, <1>14, ProofIs
<1> QED
  BY <1>4, <1>5, <1>10, <1>12, <1>15

\* The chunk kept was proven for some byte of the block.
ProvenInv ==
    chunk # NoProof =>
        \E tx \in TxPath, data \in DataPath, weave \in Nat, offset \in Int : chunk = Proof(tx, data, weave, offset)

LEMMA ProvenStep == ASSUME ProvenInv, [ProofNext]_chunk PROVE ProvenInv'
<1> SUFFICES ASSUME chunk' # NoProof
             PROVE  \E tx \in TxPath, data \in DataPath, weave \in Nat, offset \in Int : chunk' = Proof(tx, data, weave, offset)
  BY DEF ProvenInv
<1>1. CASE chunk' = chunk
  BY <1>1 DEF ProvenInv
<1>2. CASE chunk' # chunk
  <2>1. PICK tx \in TxPath, data \in DataPath, weave \in Weave :
            \E offset \in weave + 1 .. weave + BlockSize : VerifyChunk(tx, data, weave, offset)
    BY <1>2 DEF ProofNext, Released
  <2>2. PICK offset \in weave + 1 .. weave + BlockSize : VerifyChunk(tx, data, weave, offset)
    BY <2>1
  <2>3. weave \in Nat /\ offset \in Int
    BY ProofAssumption
  <2>4. chunk' = Proof(tx, data, weave, offset)
    BY <2>2 DEF VerifyChunk
  <2> QED
    BY <2>3, <2>4
<1> QED
  BY <1>1, <1>2

\* Whatever byte of the block a chunk was proven for, the same two paths prove
\* the same chunk for every byte of it under the same rules (verify_chunk_proof):
\* a chunk found in the cache by any of its bytes passes the verification again.
THEOREM IntervalAlwaysProven == ProofSpec => []IntervalProven
<1>1. ProofInit => ProvenInv
  BY DEF ProofInit, ProvenInv
<1>2. ProvenInv /\ [ProofNext]_chunk => ProvenInv'
  BY ProvenStep
<1>3. ProvenInv => IntervalProven
  <2> SUFFICES ASSUME ProvenInv, chunk # NoProof,
                      NEW i \in chunk.start .. chunk.end - 1, Band(chunk.first + i) = chunk.band
               PROVE  Proof(chunk.tx, chunk.data, chunk.weave, chunk.first + i) = chunk
    BY DEF IntervalProven
  <2>1. PICK tx \in TxPath, data \in DataPath, weave \in Nat, offset \in Int : chunk = Proof(tx, data, weave, offset)
    BY DEF ProvenInv
  <2>2. i \in Int /\ chunk.start <= i /\ i < chunk.end
    <3>1. chunk.start \in Int /\ chunk.end \in Int
      BY <2>1, ProofInts
    <3> QED
      BY <3>1
  <2> QED
    BY <2>1, <2>2, ProofCovers
<1> QED
  BY <1>1, <1>2, <1>3, PTL DEF ProofSpec
================================================================================
