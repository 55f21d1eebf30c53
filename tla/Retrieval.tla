------------------------------ MODULE Retrieval ------------------------------
(***************************************************************************)
(* The verified retrieval of one data ID (lib.rs): callers who ask the     *)
(* caches and share a flight, the discovery among the GraphQL sources, the *)
(* authentication of a root against the archive, the trusted node and the  *)
(* local index, and what is remembered as missing.                         *)
(*                                                                         *)
(* The blocks that have been canonical at the height of the data are       *)
(* numbered; each reorganisation brings the next one.  A root is looked    *)
(* for at that height.  Parents of parents are left out.                   *)
(***************************************************************************)
EXTENDS Integers, FiniteSets

CONSTANTS
    Asker,
    Source,     \* graphql_sources
    Knowing,    \* the sets of sources that may know a bundle of the item
    Depth,      \* CONSENSUS_DEPTH
    MaxBlocks   \* bound: blocks at the height of the data

ASSUME RetrievalAssumption ==
    /\ Depth \in Nat \ {0} /\ MaxBlocks \in Nat \ {0} /\ Knowing \subseteq SUBSET Source
    /\ {"none", "item", "direct"} \cap Source = {}

VARIABLES
    node,       \* the trusted node: the block at the height, and its depth
    local,      \* the block index here: its block, and whether it is stable
    indexed,    \* what the local index knows: "none", "tx" or "item"
    holders,    \* the sources that know a bundle of the item
    asker,
    flight,
    cached,     \* the cache in memory
    saved,      \* the block that the persistent cache entry belongs to
    parked,     \* parked_sources
    missing     \* not_found: "none", "confirmed" or "unconfirmed"

chains == <<node, local, indexed, holders>>
caches == <<cached, saved, parked, missing>>
retrieving == <<chains, asker, flight, caches>>

NoBlock == 0
NoAnswer == [block |-> NoBlock, stable |-> FALSE]
NoAttempt == [via |-> "none", at |-> "none", block |-> NoBlock, depth |-> 0]
NoFlight == [at |-> "none", by |-> "none", got |-> [s \in Source |-> "wait"],
             attempt |-> NoAttempt, answer |-> NoAnswer]

Done(at) == [at |-> at, since |-> NoBlock, answer |-> NoAnswer]

RetrievalInit ==
    /\ node = [block |-> 1, depth |-> 0] /\ local = NoAnswer
    /\ indexed \in {"none", "tx", "item"} /\ holders \in Knowing
    /\ indexed = "tx" => holders = {}
    /\ asker = [c \in Asker |-> Done("new")]
    /\ flight = NoFlight /\ cached = NoAnswer /\ saved = NoBlock
    /\ parked = {} /\ missing = "none"

-----------------------------------------------------------------------------
(* The chain, and the local index that follows it.                         *)

NodeGrows ==
    /\ node.depth < Depth /\ node' = [node EXCEPT !.depth = @ + 1]
    /\ UNCHANGED <<local, indexed, holders, asker, flight, caches>>

NodeReorganises ==
    /\ node.depth < Depth /\ node.block < MaxBlocks
    /\ node' = [node EXCEPT !.block = @ + 1]
    /\ UNCHANGED <<local, indexed, holders, asker, flight, caches>>

\* It rewinds, or imports what the node says.
LocalFollows ==
    /\ ~local.stable
    /\ local' \in {NoAnswer, [block |-> node.block, stable |-> node.depth >= Depth]}
    /\ UNCHANGED <<node, indexed, holders, asker, flight, caches>>

\* transaction_placement or bundle_location.
Placed(kinds) == local.block # NoBlock /\ indexed \in kinds

\* current_anchor: the answer, promoted once its block is stable here, or none.
\* The node may be out of reach.
Anchors(a) ==
    IF a.stable THEN {a}
    ELSE IF local.stable
    THEN {IF local.block = a.block THEN [a EXCEPT !.stable = TRUE] ELSE NoAnswer}
    ELSE {NoAnswer, IF node.block = a.block THEN a ELSE NoAnswer}

-----------------------------------------------------------------------------
(* Callers.                                                                *)

Joined == IF flight.at = "none" THEN [NoFlight EXCEPT !.at = "start"] ELSE flight

Ask(c) ==
    /\ asker[c].at = "new"
    /\ \/ /\ missing # "none" /\ asker' = [asker EXCEPT ![c] = Done("missing")] /\ UNCHANGED flight
       \/ /\ missing = "none" /\ cached # NoAnswer
          /\ asker' = [asker EXCEPT ![c] = [at |-> "hit", since |-> node.block, answer |-> cached]]
          /\ UNCHANGED flight
       \/ /\ missing = "none" /\ cached = NoAnswer /\ flight' = Joined
          /\ asker' = [asker EXCEPT ![c].at = "waiting", ![c].since = node.block]
    /\ UNCHANGED <<chains, caches>>

Answer(c) == asker' = [asker EXCEPT ![c] = Done("answered")]

\* A hit whose block has gone is evicted, and the caller takes the long way.
CheckHit(c) ==
    /\ asker[c].at = "hit"
    /\ \E a \in Anchors(asker[c].answer) :
         \/ a # NoAnswer /\ Answer(c) /\ UNCHANGED <<flight, cached>>
         \/ /\ a = NoAnswer /\ cached' = NoAnswer /\ flight' = Joined
            /\ asker' = [asker EXCEPT ![c].at = "waiting", ![c].answer = NoAnswer]
    /\ UNCHANGED <<chains, saved, parked, missing>>

\* What a flight brought is looked at once more by each who shared it.
Unasked(a) == {a}                               \* mutant: the flight has looked already
Coalesced(a) == Anchors(a)
Recheck(c) ==
    /\ asker[c].at = "recheck"
    /\ \E a \in Coalesced(asker[c].answer) :
         \/ a # NoAnswer /\ Answer(c)
         \/ a = NoAnswer /\ asker' = [asker EXCEPT ![c] = Done("failed")]
    /\ UNCHANGED <<chains, flight, caches>>

Waiting == {c \in Asker : asker[c].at = "waiting"}

\* A deadline or a caller who leaves; the last one drops the flight.
Abandon(c) ==
    /\ c \in Waiting
    /\ asker' = [asker EXCEPT ![c] = Done("failed")]
    /\ flight' = IF Waiting = {c} THEN NoFlight ELSE flight
    /\ UNCHANGED <<chains, caches>>

Deliver(a) ==
    /\ asker' = [c \in Asker |-> IF c \in Waiting THEN a[c] ELSE asker[c]]
    /\ flight' = NoFlight
Report(at) == Deliver([c \in Asker |-> Done(at)])

-----------------------------------------------------------------------------
(* The flight: the persistent cache, the index, the sources, the archive.  *)

Unmoved == UNCHANGED <<chains, asker, caches>>

LoadSaved ==
    /\ flight.at = "start" /\ saved # NoBlock /\ saved = local.block
    /\ flight' = [flight EXCEPT !.at = "check", !.answer = [block |-> saved, stable |-> FALSE]]
    /\ Unmoved

Start(via) == [NoAttempt EXCEPT !.via = via, !.at = "status"]

\* An indexed item has its bundle, an indexed transaction has none to look for.
Lookup ==
    /\ flight.at = "start" /\ (saved = NoBlock \/ saved # local.block)
    /\ flight' = [flight EXCEPT
         !.at = IF Placed({"tx", "item"}) THEN "attempt" ELSE "discover",
         !.by = IF Placed({"tx", "item"}) THEN indexed ELSE "sources",
         !.attempt = IF Placed({"item"}) THEN Start("item")
                     ELSE IF Placed({"tx"}) THEN Start("direct") ELSE NoAttempt]
    /\ Unmoved

\* One source is asked, unless it is parked; 429 parks it.
Discover(s) ==
    /\ flight.at = "discover" /\ flight.got[s] = "wait"
    /\ \/ /\ s \in parked /\ flight' = [flight EXCEPT !.got[s] = "parked"]
          /\ UNCHANGED parked
       \/ /\ s \notin parked /\ UNCHANGED parked
          /\ \E g \in {IF s \in holders THEN "location" ELSE "none", "failed"} :
               flight' = [flight EXCEPT !.got[s] = g]
       \/ /\ s \notin parked /\ parked' = parked \cup {s}
          /\ flight' = [flight EXCEPT !.got[s] = "parked"]
    /\ UNCHANGED <<chains, asker, cached, saved, missing>>

Unpark(s) ==
    /\ s \in parked /\ parked' = parked \ {s}
    /\ UNCHANGED <<chains, asker, flight, cached, saved, missing>>

TryLocation(s) ==
    /\ flight.at = "discover" /\ flight.attempt = NoAttempt /\ flight.got[s] = "location"
    /\ flight' = [flight EXCEPT !.attempt = Start(s)]
    /\ Unmoved

\* Nothing came of the sources: it may be a transaction.
Directly ==
    /\ flight.at = "discover" /\ flight.attempt = NoAttempt
    /\ \A s \in Source : flight.got[s] \notin {"wait", "location"}
    /\ flight' = [flight EXCEPT !.at = "attempt", !.attempt = Start("direct")]
    /\ Unmoved

\* An attempt that fails is a failure of its source; after that of the index
\* the archive is asked; nothing comes after that.
AttemptFails ==
    LET via == flight.attempt.via
    IN \/ via = "item" /\ flight' = [flight EXCEPT !.attempt = Start("direct")] /\ UNCHANGED asker
       \/ via = "direct" /\ Report("failed")
       \/ via \in Source /\ UNCHANGED asker
          /\ flight' = [flight EXCEPT !.got[via] = "failed", !.attempt = NoAttempt]

Attempting(at) == flight.attempt.at = at

Breaks ==
    /\ flight.attempt # NoAttempt /\ AttemptFails
    /\ UNCHANGED <<chains, caches>>

\* The placement in the local index, or what the archive says.
Status ==
    /\ Attempting("status")
    /\ \E b \in IF Placed({"tx", "item"}) THEN {local.block} ELSE 1 .. node.block :
         flight' = [flight EXCEPT !.attempt.at = "anchor", !.attempt.block = b]
    /\ Unmoved

\* Stable blocks are known here.  For others the height of the node is asked
\* for first, then its block.
Anchored ==
    /\ Attempting("anchor") /\ local.stable /\ local.block = flight.attempt.block
    /\ flight' = [flight EXCEPT !.attempt.at = "body", !.attempt.depth = Depth]
    /\ UNCHANGED <<chains, asker, caches>>
Info ==
    /\ Attempting("anchor") /\ ~local.stable
    /\ flight' = [flight EXCEPT !.attempt.at = "index", !.attempt.depth = node.depth]
    /\ Unmoved
BlockIndex ==
    /\ Attempting("index") /\ node.block = flight.attempt.block
    /\ flight' = [flight EXCEPT !.attempt.at = "body"]
    /\ Unmoved

\* The content is fetched, verified and, if its block is canonical here, saved.
Body ==
    /\ Attempting("body")
    /\ LET b == flight.attempt.block
       IN /\ flight' = [flight EXCEPT !.at = "check", !.attempt = NoAttempt,
                          !.answer = [block |-> b, stable |-> flight.attempt.depth >= Depth]]
          /\ saved' \in {saved, IF b = local.block THEN b ELSE saved}
    /\ UNCHANGED <<chains, asker, cached, parked, missing>>

\* The node answers, and the answer arrives later.
Check ==
    /\ flight.at = "check"
    /\ \E a \in Anchors(flight.answer) :
         \/ a # NoAnswer /\ UNCHANGED asker
            /\ flight' = [flight EXCEPT !.at = "checked", !.answer = a]
         \/ a = NoAnswer /\ Report("failed")
    /\ UNCHANGED <<chains, caches>>

Arrive ==
    /\ flight.at = "checked"
    /\ cached' = flight.answer
    /\ Deliver([c \in Asker |-> [asker[c] EXCEPT !.at = "recheck", !.answer = flight.answer]])
    /\ UNCHANGED <<chains, saved, parked, missing>>

\* The failures of the sources.
Tolerant(got) == {s \in Source : got[s] = "failed"}     \* mutant: a parked source has answered
Failures(got) == {s \in Source : got[s] \in {"failed", "parked"}}
OnlyParked(got) ==
    /\ Failures(got) # Source
    /\ \A s \in Failures(got) : got[s] = "parked"

\* 404 of the archive: confirmed when nothing failed, unconfirmed when parked
\* sources were passed over; any other failure is reported as it is.
NotThere ==
    /\ Attempting("status") /\ ~Placed({"tx", "item"})
    /\ \/ /\ flight.attempt.via = "direct"
          /\ LET got == flight.got
                 sure == flight.by = "tx" \/ (flight.by = "sources" /\ Failures(got) = {})
                 unsure == flight.by = "sources" /\ OnlyParked(got)
             IN \/ sure /\ missing' = "confirmed" /\ Report("missing")
                \/ ~sure /\ unsure /\ missing' = "unconfirmed" /\ Report("missing")
                \/ ~sure /\ ~unsure /\ Report("failed") /\ UNCHANGED missing
       \/ flight.attempt.via # "direct" /\ AttemptFails /\ UNCHANGED missing
    /\ UNCHANGED <<chains, cached, saved, parked>>

Forget ==
    /\ missing # "none" /\ missing' = "none"
    /\ UNCHANGED <<chains, asker, flight, cached, saved, parked>>

-----------------------------------------------------------------------------
RetrievalNext ==
    \/ NodeGrows \/ NodeReorganises \/ LocalFollows \/ Forget
    \/ \E c \in Asker : Ask(c) \/ CheckHit(c) \/ Recheck(c) \/ Abandon(c)
    \/ \E s \in Source : Discover(s) \/ Unpark(s) \/ TryLocation(s)
    \/ LoadSaved \/ Lookup \/ Directly \/ Breaks \/ NotThere
    \/ Status \/ Anchored \/ Info \/ BlockIndex \/ Body \/ Check \/ Arrive

RetrievalSpec == RetrievalInit /\ [][RetrievalNext]_retrieving

-----------------------------------------------------------------------------
\* The block of an answer was canonical at some time after its caller asked,
\* whichever cache or flight it came from.
Current ==
    \A c \in Asker :
      asker'[c].at = "answered" /\ asker'[c] # asker[c] => asker[c].answer.block >= asker[c].since
AnswersCurrent == [][Current]_retrieving

\* What is remembered as missing for certain is known to no source, parked
\* ones included.
MissingHonest == missing = "confirmed" => holders = {}

\* What a caller is told was so after it asked, of an item that is there and of
\* one that is not (lib.rs, the flights of one item and their caches).
RetrievalSound == [][MissingHonest' /\ Current]_retrieving
=============================================================================
