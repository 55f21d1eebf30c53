------------------------------- MODULE ArnsNames -------------------------------
(***************************************************************************)
(* ArNS names (server.rs): a name is a basename, whose record leads to an  *)
(* ANT and may be a lease, and one of the undernames that the ANT records. *)
(* The accounts are read from Solana one after the other while they        *)
(* change; what they say is remembered for the time to live of the record, *)
(* at most to the end of the lease, and requests for one name share one    *)
(* resolution.                                                             *)
(***************************************************************************)
EXTENDS Integers, Sequences, SequencesExt, FiniteSetsExt

CONSTANTS
    Caller,       \* requests that resolve a name
    Name,         \* [base, under] of the names asked for
    Registries,   \* what the accounts may say, see Registry
    ConfigTtl,    \* ARNS_CONFIG_TTL
    MaxCached,    \* MAX_CACHED_ARNS_RESOLUTIONS
    MaxTime,      \* bound of the clock
    MaxTransfers  \* bound: changes of the accounts

\* Registry: records [basename -> its record], ants [ANT -> its records] and
\* the grace period; a record that is Absent does not exist.
Absent == [at |-> "absent"]
Failed == [at |-> "failed"]
ASSUME NamesAssumption ==
    /\ {ConfigTtl, MaxCached, MaxTime, MaxTransfers} \subseteq Nat /\ MaxCached > 0
    /\ \A r \in Registries :
          /\ r.grace \in Nat /\ \A ant \in DOMAIN r.ants : \A row \in r.ants[ant] : row.ttl \in Nat
          /\ \A n \in Name : r.records[n.base] # Absent =>
                /\ r.records[n.base].end \in Int
                /\ \A q \in Registries : r.records[n.base].ant \in DOMAIN q.ants

VARIABLES
    registry,     \* the accounts, finalized
    log,          \* [time, registry] of every moment so far
    now,
    cache,        \* ArnsCache.entries, the least recently used first
    config,       \* ArnsCache.grace_period
    flight,       \* arns_flights: the resolution of each name that is under way
    caller        \* what each request waits for or was told

names == <<registry, log, now, cache, config, flight, caller>>

Unasked == [at |-> "idle"]
NoConfig == [expires |-> 0, grace |-> 0]

-----------------------------------------------------------------------------
(* The cache.                                                              *)

\* The entries are a map: a name has one at most.
InCache(n) == \E i \in DOMAIN cache : cache[i].name = n
Place(n) == CHOOSE i \in DOMAIN cache : cache[i].name = n
Live(n) == InCache(n) /\ cache[Place(n)].expires > now
Without(n) == IF InCache(n) THEN RemoveAt(cache, Place(n)) ELSE cache

\* ArnsCache::get: what has expired goes, what is used becomes the newest.
Got(n) == IF Live(n) THEN Append(Without(n), cache[Place(n)]) ELSE Without(n)

Remembered(e) ==
    IF e.expires <= now THEN cache
    ELSE LET all == Append(Without(e.name), e)
         IN IF Len(all) > MaxCached THEN Tail(all) ELSE all

-----------------------------------------------------------------------------
(* The accounts.                                                           *)

\* select_ant_record: the root comes first, then what has a priority, in its
\* order, then the rest by name.
Rank(r) == <<IF r.under = "@" THEN 0 ELSE 1, IF r.priority < 0 THEN 1 ELSE 0, r.priority, r.order>>
Earlier(a, b) == \E i \in 1 .. 4 : Rank(a)[i] < Rank(b)[i] /\ \A j \in 1 .. i - 1 : Rank(a)[j] = Rank(b)[j]
Index(records, r) == Cardinality({o \in records : Earlier(o, r)})
Rooted(records) == records = {} \/ \E r \in records : r.under = "@"

\* arns_lease_remaining, seen at the time the resolution started.
Remaining(record, grace, time) == Max({0, record.end + grace - time})
FromFinish(f, ttl) ==                                    \* mutant: counted from the answer
    now + IF f.record.end = 0 THEN ttl ELSE Min({ttl, Remaining(f.record, f.grace, f.started)})
Expiry(f, ttl) ==
    f.started + IF f.record.end = 0 THEN ttl ELSE Min({ttl, Remaining(f.record, f.grace, f.started)})

-----------------------------------------------------------------------------
(* resolve_arns.                                                           *)

Told(n, answer) ==
    caller' = [c \in Caller |->
        IF caller[c].at = "waiting" /\ caller[c].name = n
        THEN [at |-> "told", name |-> n, answer |-> answer] ELSE caller[c]]

AskName(c, n) ==
    /\ caller[c].at = "idle" /\ cache' = Got(n)
    /\ \/ /\ Live(n)
          /\ caller' = [caller EXCEPT ![c] =
                [at |-> "told", name |-> n, answer |-> [Last(cache') EXCEPT !.valid = now]]]
          /\ UNCHANGED flight
       \/ /\ ~Live(n)
          /\ caller' = [caller EXCEPT ![c] = [at |-> "waiting", name |-> n]]
          /\ flight' = IF flight[n].at = "idle" THEN [flight EXCEPT ![n] = [at |-> "starting"]]
                       ELSE flight
    /\ UNCHANGED <<registry, log, now, config>>

End(n, answer) == flight' = [flight EXCEPT ![n] = Unasked] /\ Told(n, answer)

\* Another resolution may have ended since the caller looked.
StartResolution(n) ==
    /\ flight[n].at = "starting" /\ cache' = Got(n)
    /\ IF Live(n) THEN End(n, [Last(cache') EXCEPT !.valid = now])
       ELSE flight' = [flight EXCEPT ![n] = [at |-> "record", started |-> now]] /\ UNCHANGED caller
    /\ UNCHANGED <<registry, log, now, config>>

ReadRecord(n) ==
    LET record == registry.records[n.base] IN
    /\ flight[n].at = "record"
    /\ IF record = Absent THEN End(n, Absent)
       ELSE /\ flight' = [flight EXCEPT ![n] = [at |-> IF record.end = 0 THEN "ant" ELSE "lease",
                                                started |-> @.started, record |-> record, grace |-> 0]]
            /\ UNCHANGED caller
    /\ UNCHANGED <<registry, log, now, cache, config>>

\* arns_grace_period, read again when what is remembered is too old.
CheckLease(n) ==
    LET f == flight[n]
        grace == IF config.expires > now THEN config.grace ELSE registry.grace IN
    /\ f.at = "lease"
    /\ config' = IF config.expires > now THEN config
                 ELSE [expires |-> now + ConfigTtl, grace |-> registry.grace]
    /\ IF Remaining(f.record, grace, f.started) = 0 THEN End(n, Absent)
       ELSE flight' = [flight EXCEPT ![n].at = "ant", ![n].grace = grace] /\ UNCHANGED caller
    /\ UNCHANGED <<registry, log, now, cache>>

ReadAnt(n) ==
    LET f == flight[n]
        records == registry.ants[f.record.ant]
        found == {r \in records : r.under = n.under} IN
    /\ f.at = "ant"
    /\ n.under # "@" => Rooted(records)
    /\ IF found = {} THEN End(n, Absent) /\ UNCHANGED cache
       ELSE LET r == CHOOSE r \in found : TRUE
                e == [name |-> n, target |-> r.target, ttl |-> r.ttl, limit |-> f.record.limit,
                      index |-> IF n.under = "@" THEN 0 ELSE Index(records, r),
                      valid |-> f.started, expires |-> Expiry(f, r.ttl)]
            IN cache' = Remembered(e) /\ End(n, e)
    /\ UNCHANGED <<registry, log, now, config>>

\* A request or an account that does not read: every caller gets the error.
ResolutionFails(n) ==
    /\ flight[n].at \in {"record", "lease", "ant"} /\ End(n, Failed)
    /\ UNCHANGED <<registry, log, now, cache, config>>

\* The callers hold the resolution; it ends with the last of them.
LeaveName(c) ==
    LET n == caller[c].name IN
    /\ caller[c].at = "waiting"
    /\ caller' = [caller EXCEPT ![c] = Unasked]
    /\ flight' = IF \E o \in Caller \ {c} : caller[o].at = "waiting" /\ caller[o].name = n THEN flight
                 ELSE [flight EXCEPT ![n] = Unasked]
    /\ UNCHANGED <<registry, log, now, cache, config>>

Resolution(n) ==
    StartResolution(n) \/ ReadRecord(n) \/ CheckLease(n) \/ ReadAnt(n) \/ ResolutionFails(n)

-----------------------------------------------------------------------------
(* Solana and the clock.                                                   *)

Logged(time, accounts) == log' = log \cup {<<time, accounts>>}
Transfer(r) ==
    /\ Cardinality({e[2] : e \in log}) <= MaxTransfers /\ r # registry /\ registry' = r /\ Logged(now, r)
    /\ UNCHANGED <<now, cache, config, flight, caller>>
Tick ==
    /\ now < MaxTime /\ now' = now + 1 /\ Logged(now + 1, registry)
    /\ UNCHANGED <<registry, cache, config, flight, caller>>

NamesInit ==
    /\ registry \in Registries /\ now = 0 /\ log = {<<now, registry>>}
    /\ cache = << >> /\ config = NoConfig
    /\ flight = [n \in Name |-> Unasked] /\ caller = [c \in Caller |-> Unasked]

\* A request resolves another name once it was told.
AskAgain(c) ==
    /\ caller[c].at = "told" /\ caller' = [caller EXCEPT ![c] = Unasked]
    /\ UNCHANGED <<registry, log, now, cache, config, flight>>

NamesNext ==
    \/ \E c \in Caller : LeaveName(c) \/ AskAgain(c) \/ \E n \in Name : AskName(c, n)
    \/ \E n \in Name : Resolution(n)
    \/ Tick \/ \E r \in Registries : Transfer(r)

NamesSpec == NamesInit /\ [][NamesNext]_names

-----------------------------------------------------------------------------
\* What a request is told was on record: the record of the basename and the
\* record that its ANT, at that time or later, had for the undername; for an
\* answer out of the cache less than its time to live ago, and within the
\* lease.
NameCurrent ==
    \A c \in Caller : caller[c].at = "told" /\ caller[c].answer \notin {Absent, Failed} =>
        LET a == caller[c].answer
            Recent == {e \in log : e[1] > a.valid - Max({1, a.ttl})} IN
        \E e \in Recent : \E f \in {g \in Recent : g[1] >= e[1]} :
            LET record == e[2].records[a.name.base] IN
            /\ record # Absent /\ record.limit = a.limit
            /\ \E r \in f[2].ants[record.ant] : r.under = a.name.under /\ r.target = a.target
            /\ record.end # 0 => \E g \in log : a.valid < record.end + g[2].grace
=============================================================================
