--------------------------------- MODULE Peers ---------------------------------
(***************************************************************************)
(* The peer registry (peers.rs): nodes that the trusted node advertises,   *)
(* with what they store and how far they are trusted, the order in which   *)
(* sources are asked for a chunk or a header, and the gateways of the      *)
(* network, which are read from accounts one after the other.              *)
(*                                                                         *)
(* A source is a number, in the order of the URLs; that of a node is its   *)
(* address.  What a node stores is a share of each bucket of offsets.  Its *)
(* height, when it was last seen, and the weights of gateways, which       *)
(* nothing moves, are shown and not used: left out.  The two counters of   *)
(* requests are arguments of the lists that depend on them.                *)
(***************************************************************************)
EXTENDS Integers, FiniteSets, Sequences, FiniteSetsExt

CONSTANTS
    Public,         \* addresses of nodes
    Configured,     \* sources for chunks beside them
    Bucket,
    Advertised,     \* what the trusted node may list
    Claims,         \* what a node may say it stores: shares of Whole per bucket
    Whole,
    Times,          \* what a request of a chunk may take
    UsualTime,      \* of a source that nobody timed
    Default, WeightStep, Lowest, Highest,     \* of weights
    ChunkOriginLimit, ProbeEvery,
    MaxPeers,
    Ledger,         \* the accounts of the network, slot by slot
    Own,            \* operators of wallets of this gateway
    GatewayBatch,
    MaxAge, MaxEvents,  \* bounds
    Unknown

Says(stored) == [share |-> stored, age |-> 0]
Saying == [share : Claims, age : Nat]
ASSUME PeersAssumption ==
    /\ Public \cup Configured \subseteq Nat /\ IsFiniteSet(Public \cup Configured)
    /\ Claims \subseteq [Bucket -> 0 .. Whole] /\ Whole \in Nat \ {0}
    /\ Times \subseteq Nat /\ UsualTime \in Nat /\ MaxAge \in Nat
    /\ {Default, WeightStep, Lowest, Highest, ChunkOriginLimit, ProbeEvery} \subseteq Nat \ {0}
    /\ Unknown \notin Saying \cup Times

VARIABLES
    nodes, stats,   \* State: nodes, chunk_stats
    refresh,        \* refresh_nodes
    busy,           \* slots taken of each origin (external)
    events,
    gateways,       \* State: gateways
    survey          \* fetch_gateways

nodeVars == <<nodes, stats, refresh, busy, events>>
gatewayVars == <<gateways, survey>>
peers == <<nodeVars, gatewayVars>>

AnySource == Public \cup Configured
Resting == [at |-> "idle"]
Happens == events < MaxEvents /\ events' = events + 1

-----------------------------------------------------------------------------
(* Nodes: a list, a request to each of them, and one critical section that *)
(* brings what they said together with what was known.                     *)

First(S) == {a \in S : Cardinality({b \in S : b < a}) < MaxPeers}
PublicOf(hosts) == hosts \cap Public
ListNodes(hosts) ==
    LET addresses == First(PublicOf(hosts)) IN
    /\ refresh.at = "idle" /\ Happens
    /\ hosts = {} \/ addresses # {}
    /\ refresh' = [at |-> "observing", addresses |-> addresses, left |-> addresses, found |-> << >>]
    /\ UNCHANGED <<nodes, stats, busy>>

\* What it stores is asked for twice, and either may fail.
Heard(a, bytes, footprints) ==
    [x \in DOMAIN refresh.found \cup {a} |->
        IF x = a THEN [weight |-> Default, bytes |-> bytes, footprints |-> footprints]
        ELSE refresh.found[x]]
Observe(a, bytes, footprints) ==
    /\ refresh.at = "observing" /\ a \in refresh.left
    /\ refresh' = [refresh EXCEPT !.left = @ \ {a}, !.found = Heard(a, bytes, footprints)]
    /\ UNCHANGED <<nodes, stats, busy, events>>
Silent(a) ==
    /\ refresh.at = "observing" /\ a \in refresh.left
    /\ refresh' = [refresh EXCEPT !.left = @ \ {a}]
    /\ UNCHANGED <<nodes, stats, busy, events>>

Either(new, old) == IF new = Unknown THEN old ELSE new
KnownBefore(a) ==
    [weight |-> nodes[a].weight,
     bytes |-> Either(refresh.found[a].bytes, nodes[a].bytes),
     footprints |-> Either(refresh.found[a].footprints, nodes[a].footprints)]
Merged(a) ==
    IF a \notin DOMAIN refresh.found THEN nodes[a]
    ELSE IF a \notin DOMAIN nodes THEN refresh.found[a] ELSE KnownBefore(a)
MergeNodes ==
    LET found == DOMAIN refresh.found IN
    /\ refresh.at = "observing" /\ refresh.left = {}
    /\ refresh' = Resting
    /\ nodes' = IF found = {} /\ refresh.addresses # {} THEN nodes
                ELSE [a \in found \cup (refresh.addresses \cap DOMAIN nodes) |-> Merged(a)]
    /\ UNCHANGED <<stats, busy, events>>
\* The deadline of a refresh.
RefreshFails ==
    /\ refresh.at = "observing" /\ refresh' = Resting
    /\ UNCHANGED <<nodes, stats, busy, events>>

Older(c) == IF c = Unknown THEN c ELSE [c EXCEPT !.age = Min({@ + 1, MaxAge})]
Age == \* the time between two refreshes passes
    /\ refresh.at = "idle" /\ Happens
    /\ nodes' = [a \in DOMAIN nodes |->
                    [nodes[a] EXCEPT !.bytes = Older(@), !.footprints = Older(@)]]
    /\ UNCHANGED <<stats, refresh, busy>>

-----------------------------------------------------------------------------
(* What is known about a bucket.  Numbers with a fraction are pairs.       *)

Under(x, y) == x[1] * y[2] < y[1] * x[2]
Nil == <<0, 1>>
\* An old one moves towards one half.
RankedShare(c, o) ==
    IF c = Unknown THEN Nil
    ELSE IF c.share[o] = 0 THEN Nil
    ELSE LET missed == Max({c.age - 1, 0})
         IN <<2 * c.share[o] + missed * Whole, 2 * Whole * (1 + missed)>>
CoverageShare(a, o) ==
    LET b == RankedShare(nodes[a].bytes, o)
        f == RankedShare(nodes[a].footprints, o)
    IN IF Under(b, f) THEN f ELSE b

Covering(o) == {a \in DOMAIN nodes : CoverageShare(a, o) # Nil}
ChunkSources(o) == Configured \cup Covering(o)
ShareOf(s, o) == IF s \in Covering(o) THEN CoverageShare(s, o) ELSE <<1, 2>>

Untried == [timing |-> Unknown, weight |-> Default]
StatsOf(s) == IF s \in DOMAIN stats THEN stats[s] ELSE Untried
Cost(s, o) ==
    LET w == StatsOf(s).weight
        time == IF StatsOf(s).timing = Unknown THEN UsualTime ELSE StatsOf(s).timing
        share == ShareOf(s, o)
    IN <<(WeightStep * time * Default + w * Max({Default - w, 0})) * (ChunkOriginLimit + busy[s]) * share[2],
         WeightStep * w * ChunkOriginLimit * share[1]>>
Full(s) == busy[s] = ChunkOriginLimit

\* The elements of a set by a relation that orders them.
InOrder(S, R) ==
    [k \in 1 .. Cardinality(S) |->
        CHOOSE x \in S : Cardinality({y \in S : <<y, x>> \in R}) = k - 1]
\* The n-th list: equals, by their places, take turns.
Rotated(ranked, n, equals) ==
    [k \in DOMAIN ranked |->
        LET first == Min(equals[k])
        IN ranked[first + ((k - first + n) % Cardinality(equals[k]))].source]

\* For a chunk: by cost, full ones last, and now and then another one than the
\* best comes first.
Even(x, y) == x.full = y.full /\ ~Under(x.cost, y.cost) /\ ~Under(y.cost, x.cost)
Cheaper(x, y) ==
    \/ y.full /\ ~x.full
    \/ x.full = y.full /\ Under(x.cost, y.cost)
    \/ Even(x, y) /\ x.source < y.source
Offers(o) == {[source |-> s, full |-> Full(s), cost |-> Cost(s, o)] : s \in ChunkSources(o)}
RankedChunks(o) == InOrder(Offers(o), {p \in Offers(o) \X Offers(o) : Cheaper(p[1], p[2])})
SameProbe(n, available) == available - (n % available)  \* mutant: counts lists, not probes
Probe(n, available) == available - ((n \div ProbeEvery) % available)
Swapped(list, k) == [list EXCEPT ![1] = list[k], ![k] = list[1]]
ChunkList(ranked, n) ==
    LET evens == [k \in DOMAIN ranked |-> {j \in DOMAIN ranked : Even(ranked[j], ranked[k])}]
        rotated == Rotated(ranked, n, evens)
        available == Cardinality({k \in DOMAIN ranked : ~ranked[k].full})
    IN IF available > 0 /\ n % ProbeEvery = 0 THEN Swapped(rotated, Probe(n, available)) ELSE rotated
ChunkCandidates(o) ==
    /\ stats' = [s \in ChunkSources(o) |-> StatsOf(s)]
    /\ UNCHANGED <<nodes, refresh, busy, events>>

\* For a header: those that store its offset, then by weight.
Alike(x, y) == x.covered = y.covered /\ x.weight = y.weight
Better(x, y) ==
    \/ x.covered /\ ~y.covered
    \/ x.covered = y.covered /\ x.weight > y.weight
    \/ Alike(x, y) /\ x.source < y.source
Holders(o, exclude) ==
    {[source |-> a, covered |-> a \in Covering(o), weight |-> nodes[a].weight] :
        a \in DOMAIN nodes \ exclude}
RankedNodes(o, exclude) ==
    LET S == Holders(o, exclude) IN InOrder(S, {p \in S \X S : Better(p[1], p[2])})
NodeList(ranked, n) ==
    Rotated(ranked, n, [k \in DOMAIN ranked |-> {j \in DOMAIN ranked : Alike(ranked[j], ranked[k])}])

-----------------------------------------------------------------------------
(* What becomes of a request.                                              *)

Moved(w, ok) == IF ok THEN Min({w + WeightStep, Highest}) ELSE Max({w - WeightStep, Lowest})
WithResult(s, ok) ==
    IF s \in DOMAIN nodes THEN [nodes EXCEPT ![s].weight = Moved(@, ok)] ELSE nodes
RecordResult(s, ok) ==
    /\ Happens /\ nodes' = WithResult(s, ok)
    /\ UNCHANGED <<stats, refresh, busy>>
\* A sample moves the timing a part of the way; one that is empty does not.
Timed(old, sample) ==
    IF sample = Unknown THEN {old}
    ELSE IF old = Unknown THEN {sample}
    ELSE {t \in Times : Min({old, sample}) <= t /\ t <= Max({old, sample})}
RecordChunkResult(s, ok, sample) ==
    /\ Happens /\ nodes' = WithResult(s, ok)
    /\ IF s \notin DOMAIN stats THEN UNCHANGED stats
       ELSE \E t \in Timed(stats[s].timing, IF ok THEN sample ELSE Unknown) :
              stats' = [stats EXCEPT ![s] = [timing |-> t, weight |-> Moved(@.weight, ok)]]
    /\ UNCHANGED <<refresh, busy>>
Occupy(s, n) ==
    /\ Happens /\ busy' = [busy EXCEPT ![s] = n]
    /\ UNCHANGED <<nodes, stats, refresh>>

-----------------------------------------------------------------------------
(* Gateways: the registry at one slot, then their accounts in batches, each*)
(* answered by a slot of its own.                                          *)

Slots == DOMAIN Ledger
Operators(slot) == Ledger[slot].registry
\* Entries with their places: empty ones and our own are left out.
Members(slot) ==
    {[index |-> k, operator |-> Operators(slot)[k]] :
        k \in {k \in DOMAIN Operators(slot) : Operators(slot)[k] \notin Own \cup {Unknown}}}
Readable(slot) ==
    \A j, k \in DOMAIN Operators(slot) :
       Operators(slot)[j] = Operators(slot)[k] => j = k \/ Operators(slot)[j] = Unknown
ReadRegistry(slot) ==
    /\ survey.at = "idle" /\ Readable(slot)
    /\ survey' = [at |-> "accounts", slot |-> slot, left |-> Members(slot), found |-> {}]
    /\ UNCHANGED gateways

\* An answer may not be older than the registry.
Recent(slot) == slot >= survey.slot
\* One that does not fit its place ends the refresh.
Genuine(account, entry) ==
    account.sound /\ account.operator = entry.operator /\ account.index = entry.index
Batch(left) == {e \in left : Cardinality({d \in left : d.index < e.index}) < GatewayBatch}
ReadAccounts(slot) ==
    LET batch == Batch(survey.left)
        account(e) == Ledger[slot].account[e.operator]
        open == {e \in batch : account(e) # Unknown}
    IN /\ survey.at = "accounts" /\ survey.left # {}
       /\ survey' = IF Recent(slot) /\ \A e \in open : Genuine(account(e), e)
                    THEN [survey EXCEPT !.left = @ \ batch,
                                         !.found = @ \cup {account(e).host : e \in open}]
                    ELSE Resting
       /\ UNCHANGED gateways
ShowGateways ==
    /\ survey.at = "accounts" /\ survey.left = {}
    /\ gateways' = survey.found /\ survey' = Resting
ReadingFails ==
    /\ survey.at = "accounts" /\ survey' = Resting /\ UNCHANGED gateways

-----------------------------------------------------------------------------
PeersInit ==
    /\ nodes = << >> /\ stats = << >> /\ refresh = Resting
    /\ busy = [s \in AnySource |-> 0] /\ events = 0
    /\ gateways = {} /\ survey = Resting
NodesNext ==
    /\ \/ \E hosts \in Advertised : ListNodes(hosts)
       \/ \E a \in Public : Silent(a)
       \/ \E a \in Public, bytes, footprints \in {Unknown} \cup {Says(c) : c \in Claims} :
            Observe(a, bytes, footprints)
       \/ MergeNodes \/ RefreshFails \/ Age
       \/ \E o \in Bucket : ChunkCandidates(o)
       \/ \E a \in Public, ok \in BOOLEAN : RecordResult(a, ok)
       \/ \E s \in AnySource, ok \in BOOLEAN, sample \in Times \cup {Unknown} :
            RecordChunkResult(s, ok, sample)
       \/ \E s \in AnySource, n \in 0 .. ChunkOriginLimit : Occupy(s, n)
    /\ UNCHANGED gatewayVars
GatewaysNext ==
    /\ (\E slot \in Slots : ReadRegistry(slot) \/ ReadAccounts(slot)) \/ ShowGateways \/ ReadingFails
    /\ UNCHANGED nodeVars
PeersNext == NodesNext \/ GatewaysNext
PeersSpec == PeersInit /\ [][PeersNext]_peers

-----------------------------------------------------------------------------
\* A source that has a free slot comes first in some list, however dear it is,
\* or one that costs as much does (the probes of chunk_candidates); and a node
\* comes first among its equals, whatever its URL (candidates).
Explored ==
    \A o \in Bucket :
       /\ LET ranked == RankedChunks(o) IN
          \A k \in DOMAIN ranked : ranked[k].full \/
             \E n \in 0 .. ProbeEvery * Len(ranked), j \in DOMAIN ranked :
                Even(ranked[j], ranked[k]) /\ ChunkList(ranked, n)[1] = ranked[j].source
       /\ LET ranked == RankedNodes(o, {}) IN
          \A k \in DOMAIN ranked : Alike(ranked[k], ranked[1]) =>
             \E n \in DOMAIN ranked : NodeList(ranked, n)[1] = ranked[k].source

\* The gateways are those of one registry, by accounts no older than it, and all
\* of them whose accounts stayed open.
GatewaysReal ==
    gateways = {} \/ \E slot \in Slots :
       LET later == {s \in Slots : s >= slot}
           of(e) == {Ledger[s].account[e.operator] : s \in later}
           entries == Members(slot)
       IN /\ gateways \subseteq {a.host : a \in (UNION {of(e) : e \in entries}) \ {Unknown}}
          /\ \A e \in entries : Unknown \in of(e) \/ \E a \in of(e) : a.host \in gateways

\* No step but a report changes a result, none forgets what a node said.
NoneForgotten ==
    /\ \A a \in DOMAIN nodes \cap DOMAIN nodes' :
         /\ nodes'[a].weight # nodes[a].weight => refresh' = refresh
         /\ nodes'[a].bytes = Unknown => nodes[a].bytes = Unknown
         /\ nodes'[a].footprints = Unknown => nodes[a].footprints = Unknown
    /\ \A a \in DOMAIN nodes \ DOMAIN nodes' : a \notin refresh.addresses
Kept ==
    /\ NoneForgotten
    /\ UNCHANGED <<nodes, stats, busy>> \/ Explored
    /\ UNCHANGED gateways \/ GatewaysReal'

\* A refresh takes no result away that was recorded while it was asking, loses
\* nothing that is known of a node that is still advertised, and no cost and no
\* URL keeps a source away (refresh_nodes, chunk_candidates); the gateways that are shown
\* are of one time (fetch_gateways).
PeersKept == [][Kept]_peers
================================================================================
