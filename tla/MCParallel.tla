------------------------------ MODULE MCParallel ------------------------------
(***************************************************************************)
(* What is done side by side: two importers on one block index, chunks     *)
(* looked up while an importer follows the chain, requests that resolve    *)
(* ArNS names, and requests on their way to content; and the peers that    *)
(* requests choose among while they are refreshed.  These share no         *)
(* variable: a behaviour moves one focus.                                  *)
(***************************************************************************)
EXTENDS ChunkAnchors, ArnsNames, Routes, Peers, TLC

\* A block is the path from genesis to it: one label per height, the label 1
\* marking a fork.  Its transactions go by the label: 1 has more data than 0.
MCBlock == {p \in UNION {[1 .. n -> {0, 1}] : n \in 1 .. MaxHeight + 1} :
              p[1] = 0 /\ Cardinality({i \in DOMAIN p : p[i] = 1}) <= 1}
MCGenesis == <<0>>
MCHeightOf(b) == Len(b) - 1
MCAt(b, h) == SubSeq(b, 1, h + 1)
MCRootOf(b) == Last(b)
MCWeaveOf(b) == FoldLeft(LAMBDA n, label : n + 1 + label, 0, b)

\* A name and one of its undernames; the name goes from one owner to the
\* next, who holds it as a lease and leads it elsewhere.
MCName == {[base |-> "a", under |-> "@"], [base |-> "a", under |-> "u"]}
Leads(under, target, ttl) ==
    [under |-> under, target |-> target, ttl |-> ttl, priority |-> -1, order |-> 0]
Held(ant, end, limit) == "a" :> [ant |-> ant, end |-> end, limit |-> limit]
Sold == [x |-> {Leads("@", "t1", 2), Leads("u", "t2", 1)},
         y |-> {Leads("@", "t3", 3), Leads("u", "t1", 1)}]
MCRegistries ==
    {[records |-> Held("x", 0, 1), ants |-> Sold, grace |-> 1],
     [records |-> Held("y", 2, 0), ants |-> Sold, grace |-> 1]}

\* A manifest that leads to another and to two IDs of the same bytes.
MCHashOf == "m1" :> "hm" @@ "m2" :> "hn" @@ "c1" :> "h1" @@ "c2" :> "h1"
MCManifests ==
    "hm" :> [version |-> 2, index |-> "", indexPath |-> "a", fallback |-> "c2",
             paths |-> ("a" :> "c1" @@ "b" :> "m2")]
    @@ "hn" :> [version |-> 1, index |-> "c1", indexPath |-> "a", fallback |-> "c1",
                paths |-> ("a" :> "c2")]
MCTargets == "n" :> {[id |-> "m1", index |-> 0, limit |-> 0], [id |-> "c1", index |-> 1, limit |-> 0]}
Way(name, id, path, follow, slash) ==
    [name |-> name, id |-> id, path |-> path, follow |-> follow, slash |-> slash]
MCRequested ==
    {Way("n", "m1", "", TRUE, FALSE), Way("", "m1", "b", TRUE, FALSE), Way("", "m1", "z", TRUE, FALSE),
     Way("", "m2", "", TRUE, TRUE), Way("", "c2", "", FALSE, FALSE)}

\* The network at three slots: two gateways join, and one of them leaves while
\* the other moves.  One of the operators is our own.
Account(operator, index, host) ==
    [sound |-> TRUE, operator |-> operator, index |-> index, host |-> host]
AtSlot(members, p, q, r) == [registry |-> members, account |-> ("p" :> p @@ "q" :> q @@ "r" :> r)]
MCLedger ==
    LET p == Account("p", 1, "hp")
        q == Account("q", 3, "hq")
        r == Account("r", 4, "hr")
    IN <<AtSlot(<<"p", "us">>, p, Unknown, Unknown),
         AtSlot(<<"p", "us", "q", "r">>, p, q, r),
         AtSlot(<<"p", "us", Unknown, "r">>, [p EXCEPT !.host = "hp2"], Unknown, r)>>
MCClaims == {[o \in Bucket |-> Whole]}

Symmetric == Permutations(Request) \cup Permutations(Caller)

VARIABLE focus
parallel == <<focus, vars, anchoring, names, routes, peers>>

Focus == {"importers", "chunks", "names", "routes", "nodes", "gateways"}
ParallelInit ==
    /\ focus \in Focus /\ Init /\ AnchorsInit /\ NamesInit /\ RoutesInit /\ PeersInit
    /\ focus # "importers" => node = Genesis
    /\ focus # "names" => registry = CHOOSE r \in Registries : TRUE
    /\ focus # "routes" => blocked = {}

\* The node's chain does not get shorter beside two importers; beside one, in
\* MCChainFollow.cfg, it does.
Importing == Next /\ HeightOf(node') >= HeightOf(node)

\* One importer follows the chain beside the requests for chunks; the chain
\* forks at its second block or later.
Following ==
    \/ FollowChainStep("svc") \/ Work("svc")
    \/ \E b \in Block : (Len(b) > 1 => b[2] = 0) /\ NodeMoves(b)

ParallelNext ==
    /\ UNCHANGED focus
    /\ \/ focus = "importers" /\ Importing /\ UNCHANGED <<anchoring, names, routes, peers>>
       \/ focus = "chunks" /\ Following /\ UNCHANGED <<anchoring, names, routes, peers>>
       \/ focus = "chunks" /\ AnchorsNext /\ UNCHANGED <<vars, names, routes, peers>>
       \/ focus = "names" /\ NamesNext /\ UNCHANGED <<vars, anchoring, routes, peers>>
       \/ focus = "routes" /\ RoutesNext /\ UNCHANGED <<vars, anchoring, names, peers>>
       \/ focus = "nodes" /\ NodesNext /\ UNCHANGED <<vars, anchoring, names, routes>>
       \/ focus = "gateways" /\ GatewaysNext /\ UNCHANGED <<vars, anchoring, names, routes>>

ParallelSpec == ParallelInit /\ [][ParallelNext]_parallel
===============================================================================
