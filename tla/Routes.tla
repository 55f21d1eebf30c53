-------------------------------- MODULE Routes --------------------------------
(***************************************************************************)
(* How a request finds what it serves (server.rs): a name leads to an ID,  *)
(* a manifest to the ID of one of its paths, and the blocklist, which an   *)
(* operator edits at any time, is asked before and after each retrieval.   *)
(* The paths of manifests that were resolved are remembered.               *)
(*                                                                         *)
(* What ArNS says of a name is ArnsNames'; here a name leads to any of its *)
(* targets.  A lookup of the policy that fails refuses the request, like   *)
(* everything else that fails.                                             *)
(***************************************************************************)
EXTENDS Integers, Sequences, SequencesExt, FiniteSetsExt

CONSTANTS
    Request,
    HashOf,       \* [content ID -> hash of its bytes]
    Manifests,    \* [hash of a manifest -> what it says, see Resolve]
    Targets,      \* [name -> set of [id, index, limit]]
    Requested,    \* routes of requests: [name, id, path, follow, slash]
    MaxPaths,     \* MAX_CACHED_MANIFEST_PATHS
    MaxEdits      \* bound: edits of the blocklist

Id == DOMAIN HashOf
Rows == {<<"name", n>> : n \in DOMAIN Targets} \cup {<<"id", i>> : i \in Id}
        \cup {<<"hash", HashOf[i]>> : i \in Id}

ASSUME RoutesAssumption ==
    /\ MaxPaths \in Nat \ {0} /\ MaxEdits \in Nat
    /\ \A q \in Requested : q.id \in Id \/ q.name \in DOMAIN Targets
    /\ "" \notin DOMAIN Targets

VARIABLES
    blocked,     \* content_blocklist
    edits,
    manifests,   \* ManifestCache.entries, the least recently used first
    route        \* what each request is about to do

routes == <<blocked, edits, manifests, route>>

NoRoute == [at |-> "idle"]

-----------------------------------------------------------------------------
(* resolve_manifest.                                                       *)

NoTarget == ""
Listed(m, path) == IF path \in DOMAIN m.paths THEN m.paths[path] ELSE NoTarget

\* index, fallback: IDs, or NoTarget; indexPath: a path, or NoTarget.
Resolve(m, path) ==
    LET index == IF m.version = 2 /\ m.index # NoTarget THEN m.index ELSE Listed(m, m.indexPath)
        found == IF path = "" THEN index ELSE Listed(m, path)
    IN IF found = NoTarget /\ m.version = 2 THEN m.fallback ELSE found

-----------------------------------------------------------------------------
(* ManifestCache.                                                          *)

Cached(id) == {i \in DOMAIN manifests : manifests[i].id = id}
Answers(id, path) ==
    {i \in Cached(id) : manifests[i].digest = HashOf[id] /\ path \in DOMAIN manifests[i].paths}

Used(i) == manifests' = Append(RemoveAt(manifests, i), manifests[i])

\* ManifestCache::paths.
Paths(s) == FoldLeft(LAMBDA n, m : n + Cardinality(DOMAIN m.paths), 0, s)

\* The oldest manifests go until the paths fit.
Fitting(s) ==
    LET Rest(k) == SubSeq(s, k + 1, Len(s))
    IN Rest(Min({k \in 0 .. Len(s) : Paths(Rest(k)) <= MaxPaths}))

Remember(id, path, target) ==
    LET same == {i \in Cached(id) : manifests[i].digest = HashOf[id]}
        old == IF same = {} THEN [id |-> id, digest |-> HashOf[id], paths |-> << >>]
               ELSE manifests[Min(same)]
        entry == [old EXCEPT !.paths = [p \in DOMAIN @ \cup {path} |->
                                          IF p = path THEN target ELSE @[p]]]
    IN manifests' = Fitting(Append(SelectSeq(manifests, LAMBDA m : m.id # id), entry))

-----------------------------------------------------------------------------
(* A request, from its arrival to its answer.                              *)

To(r, at) == route' = [route EXCEPT ![r].at = at]
Refuse(r) == route' = [route EXCEPT ![r] = NoRoute]

\* since: the rows that are on the list since then.
Arrive(r, q) ==
    /\ route[r].at = "idle"
    /\ route' = [route EXCEPT ![r] =
          [at |-> IF q.name = "" THEN "id" ELSE "name", name |-> q.name, id |-> q.id, path |-> q.path,
           follow |-> q.follow, slash |-> q.slash, via |-> {}, since |-> blocked]]
    /\ UNCHANGED <<blocked, edits>> /\ UNCHANGED manifests

CheckName(r) ==
    /\ route[r].at = "name"
    /\ IF <<"name", route[r].name>> \in blocked THEN Refuse(r) ELSE To(r, "resolve")
    /\ UNCHANGED <<blocked, edits>> /\ UNCHANGED manifests

\* The undername limit counts the records before this one.
ResolveName(r) ==
    /\ route[r].at = "resolve"
    /\ \E t \in Targets[route[r].name] :
          IF t.index > t.limit THEN Refuse(r)
          ELSE route' = [route EXCEPT ![r].at = "id", ![r].id = t.id]
    /\ UNCHANGED <<blocked, edits>> /\ UNCHANGED manifests

CheckId(r) ==
    /\ route[r].at = "id"
    /\ IF <<"id", route[r].id>> \in blocked THEN Refuse(r)
       ELSE route' = [route EXCEPT ![r].at = "hash", ![r].via = @ \cup {route[r].id}]
    /\ UNCHANGED <<blocked, edits>> /\ UNCHANGED manifests

\* The content has been retrieved and verified.  A manifest is followed,
\* once, unless its bytes were asked for.
IdRow(r) == {<<"id", route[r].id>>}                      \* mutant: not by its bytes
HashRows(r) == {<<"id", route[r].id>>, <<"hash", HashOf[route[r].id]>>}
CheckHash(r) ==
    /\ route[r].at = "hash"
    /\ IF HashRows(r) \cap blocked # {} THEN Refuse(r)
       ELSE To(r, IF route[r].follow /\ HashOf[route[r].id] \in DOMAIN Manifests THEN "manifest" ELSE "served")
    /\ UNCHANGED <<blocked, edits>> /\ UNCHANGED manifests

Followed(r, target) ==
    IF target = NoTarget \/ route[r].slash THEN Refuse(r)      \* 404, 301
    ELSE route' = [route EXCEPT ![r].at = "id", ![r].id = target, ![r].follow = FALSE]

LookUpPath(r) ==
    LET id == route[r].id  path == route[r].path  hits == Answers(id, path) IN
    /\ route[r].at = "manifest"
    /\ IF hits # {} THEN Used(Min(hits)) /\ Followed(r, manifests[Min(hits)].paths[path])
       ELSE To(r, "parse") /\ UNCHANGED manifests
    /\ UNCHANGED <<blocked, edits>>

ResolveManifest(r) ==
    LET target == Resolve(Manifests[HashOf[route[r].id]], route[r].path) IN
    /\ route[r].at = "parse"
    /\ Remember(route[r].id, route[r].path, target) /\ Followed(r, target)
    /\ UNCHANGED <<blocked, edits>>

Fails(r) ==
    /\ route[r].at \in {"name", "resolve", "id", "hash", "manifest", "parse", "served"}
    /\ Refuse(r) /\ UNCHANGED <<blocked, edits>> /\ UNCHANGED manifests

-----------------------------------------------------------------------------
Edit ==
    /\ edits < MaxEdits /\ edits' = edits + 1
    /\ \E row \in Rows : blocked' = IF row \in blocked THEN blocked \ {row} ELSE blocked \cup {row}
    /\ route' = [r \in Request |-> IF route[r].at = "idle" THEN NoRoute
                                   ELSE [route[r] EXCEPT !.since = @ \cap blocked']]
    /\ UNCHANGED manifests

RoutesInit ==
    /\ blocked \in {{}} \cup {{row} : row \in Rows} /\ edits = 0
    /\ manifests = << >> /\ route = [r \in Request |-> NoRoute]

Step(r) ==
    \/ CheckName(r) \/ ResolveName(r) \/ CheckId(r) \/ CheckHash(r)
    \/ LookUpPath(r) \/ ResolveManifest(r) \/ Fails(r)

RoutesNext == Edit \/ \E r \in Request : Step(r) \/ \E q \in Requested : Arrive(r, q)
RoutesSpec == RoutesInit /\ [][RoutesNext]_routes

-----------------------------------------------------------------------------
\* What an operator has blocked before a request came is not served to it,
\* by whichever of its names, by an ID on the way to it, or by its bytes,
\* which other IDs may have too (blocked_response).
BlockedHidden ==
    \A r \in Request : route[r].at = "served" =>
        route[r].since \cap ({<<"name", route[r].name>>} \cup {<<"id", i>> : i \in route[r].via}
                             \cup {<<"hash", HashOf[i]>> : i \in route[r].via}) = {}
=============================================================================
