---------------------------- MODULE GatewayProofs ----------------------------
(***************************************************************************)
(* The parts behind the routes of the gateway.  For any callers, sources   *)
(* and depth: an answer is as young as the question, and what is           *)
(* remembered as missing is known to no source.  For any operator, clock   *)
(* and faults: what a request is served has the digest it is served under, *)
(* and what a pass shows is fresh.  For any clients and deadlines: a body  *)
(* is cut only when nobody has read from it for the idle time.  For any    *)
(* nodes, sources and answers: a refresh of the peers undoes nothing, and  *)
(* no cost and no URL keeps a source away.                                 *)
(***************************************************************************)
EXTENDS Serving, IndexPublication, Retrieval, Peers, Tallies

(* Verified retrieval.                                                     *)

Answers == [block : Nat, stable : BOOLEAN]
Attempts == [via : {"none", "item", "direct"} \cup Source,
             at : {"none", "status", "anchor", "index", "body"}, block : Nat, depth : Nat]
Gots == {"wait", "none", "location", "failed", "parked"}
FlightType == [at : {"none", "start", "discover", "attempt", "check", "checked"},
               by : {"none", "tx", "item", "sources"}, got : [Source -> Gots],
               attempt : Attempts, answer : Answers]
AskerType == [at : {"new", "hit", "waiting", "recheck", "missing", "failed", "answered"},
              since : Nat, answer : Answers]

RetrievalTypes ==
    /\ node \in [block : Nat, depth : Nat] /\ local \in Answers
    /\ indexed \in {"none", "tx", "item"} /\ holders \subseteq Source
    /\ asker \in [Asker -> AskerType] /\ flight \in FlightType
    /\ cached \in Answers /\ saved \in Nat /\ parked \subseteq Source
    /\ missing \in {"none", "confirmed", "unconfirmed"}

\* A stable block is the one the node has, and will have for good.
Final == node.depth >= Depth
SettledAnswer(a) == a.stable => a.block = node.block /\ Final


\* An attempt that found its block deep enough found the final one.
AttemptSound(t) ==
    /\ t.at = "index" /\ t.depth >= Depth => Final
    /\ t.at = "body" /\ t.depth >= Depth => t.block = node.block /\ Final

\* Who has been asked: the archive is the last one after all of the sources.
FlightAsked(f) ==
    /\ f.by = "tx" => indexed = "tx"
    /\ f.at = "discover" => f.attempt.via \in {"none"} \cup Source
    /\ f.at # "discover" => f.attempt.via \in {"none", "item", "direct"}
    /\ f.attempt.via = "item" => f.by = "item"
    /\ f.attempt.via = "direct" /\ f.by = "sources" =>
         \A s \in Source : f.got[s] \notin {"wait", "location"}
    /\ \A s \in Source : f.got[s] = "none" => s \notin holders

FlightSound(f) == SettledAnswer(f.answer) /\ AttemptSound(f.attempt) /\ FlightAsked(f)
AskerSound(a) == SettledAnswer(a.answer) /\ a.since <= node.block

RetrievalInv ==
    /\ RetrievalTypes
    /\ SettledAnswer(local) /\ SettledAnswer(cached)
    /\ \A c \in Asker : AskerSound(asker[c])
    /\ FlightSound(flight)
    /\ indexed = "tx" => holders = {}
    /\ MissingHonest

LEMMA Constants ==
    /\ NoAnswer \in Answers /\ SettledAnswer(NoAnswer) /\ NoAnswer.block = 0 /\ ~NoAnswer.stable
    /\ NoAttempt \in Attempts /\ NoAttempt.via = "none" /\ NoAttempt.at = "none" /\ AttemptSound(NoAttempt)
    /\ NoFlight \in FlightType /\ FlightSound(NoFlight) /\ NoFlight.attempt = NoAttempt
    /\ NoFlight.answer = NoAnswer /\ NoFlight.by = "none"
BY DEF NoAnswer, NoBlock, Answers, SettledAnswer, NoAttempt, Attempts, NoFlight, FlightType, Gots,
       FlightSound, FlightAsked, AttemptSound

LEMMA DoneSound ==
    ASSUME RetrievalTypes, NEW at \in {"new", "missing", "failed", "answered"}
    PROVE  Done(at) \in AskerType /\ AskerSound(Done(at)) /\ Done(at).at = at
BY Constants DEF Done, AskerType, AskerSound, NoBlock, RetrievalTypes

LEMMA RetrievalStarts == RetrievalInit => RetrievalInv
<1> SUFFICES ASSUME RetrievalInit PROVE RetrievalInv
  OBVIOUS
<1>1. Done("new") \in AskerType /\ Done("new").since = 0 /\ Done("new").answer = NoAnswer
  BY Constants DEF Done, AskerType, NoBlock
<1>2. RetrievalTypes
  BY <1>1, Constants, RetrievalAssumption DEF RetrievalInit, RetrievalTypes, NoBlock
<1>3. \A c \in Asker : AskerSound(asker[c])
  BY <1>1, Constants DEF RetrievalInit, AskerSound
<1> QED
  BY <1>2, <1>3, Constants DEF RetrievalInit, RetrievalInv, MissingHonest

-----------------------------------------------------------------------------
(* The chain.                                                              *)

\* What was settled stays so while the chain grows or changes its tip.
LEMMA ChainMoves ==
    ASSUME RetrievalInv, UNCHANGED <<indexed, holders, asker, flight, caches>>,
           node' \in [block : Nat, depth : Nat], node.block <= node'.block,
           Final => node'.block = node.block /\ Final',
           local' \in Answers, SettledAnswer(local)'
    PROVE  RetrievalInv'
<1>1. RetrievalTypes'
  BY DEF RetrievalInv, RetrievalTypes, caches
<1>2. \A x : SettledAnswer(x) => (x.stable => x.block = node'.block /\ Final')
  BY DEF SettledAnswer
<1>3. SettledAnswer(cached)' /\ SettledAnswer(flight.answer)'
  BY <1>2 DEF RetrievalInv, FlightSound, SettledAnswer, caches
<1>4. \A c \in Asker : AskerSound(asker[c])'
  BY <1>2 DEF RetrievalInv, AskerSound, SettledAnswer, RetrievalTypes, AskerType
<1>5. AttemptSound(flight.attempt)' /\ FlightAsked(flight)'
  BY DEF RetrievalInv, FlightSound, AttemptSound, FlightAsked
<1> QED
  BY <1>1, <1>3, <1>4, <1>5 DEF RetrievalInv, FlightSound, MissingHonest, caches

LEMMA EnvironmentKeeps ==
    ASSUME RetrievalInv, NodeGrows \/ NodeReorganises \/ LocalFollows PROVE RetrievalInv'
<1>1. RetrievalTypes /\ SettledAnswer(local) /\ node.block \in Nat /\ node.depth \in Nat
      /\ Depth \in Nat /\ node \in [block : Nat, depth : Nat]
  BY RetrievalAssumption DEF RetrievalInv, RetrievalTypes
<1>2. CASE NodeGrows
  <2>1. /\ UNCHANGED <<local, indexed, holders, asker, flight, caches>>
        /\ node' \in [block : Nat, depth : Nat] /\ node'.block = node.block /\ node'.depth = node.depth + 1
    BY <1>1, <1>2 DEF NodeGrows
  <2> QED
    BY <1>1, <2>1, ChainMoves DEF SettledAnswer, Final, RetrievalTypes
<1>3. CASE NodeReorganises
  <2>1. /\ UNCHANGED <<local, indexed, holders, asker, flight, caches>> /\ ~Final
        /\ node' \in [block : Nat, depth : Nat] /\ node'.block = node.block + 1 /\ node'.depth = node.depth
    BY <1>1, <1>3 DEF NodeReorganises, Final
  <2> QED
    BY <1>1, <2>1, ChainMoves DEF SettledAnswer, Final, RetrievalTypes
<1>4. CASE LocalFollows
  <2>1. /\ UNCHANGED <<node, indexed, holders, asker, flight, caches>>
        /\ local' \in {NoAnswer, [block |-> node.block, stable |-> node.depth >= Depth]}
    BY <1>4 DEF LocalFollows
  <2>2. local' \in Answers /\ SettledAnswer(local)'
    <3>1. CASE local' = NoAnswer
      BY <3>1, Constants DEF SettledAnswer
    <3>2. CASE local' = [block |-> node.block, stable |-> node.depth >= Depth]
      <4> DEFINE deep == node.depth >= Depth
      <4>1. deep \in BOOLEAN /\ (deep <=> Final)
        BY <1>1 DEF Final
      <4>2. local' = [block |-> node.block, stable |-> deep]
        BY <3>2
      <4> HIDE DEF deep
      <4>3. local' \in Answers /\ local'.block = node.block /\ local'.stable = deep
        BY <1>1, <4>1, <4>2 DEF Answers
      <4>4. Final' = Final /\ node'.block = node.block
        BY <2>1 DEF Final
      <4> QED
        BY <4>1, <4>3, <4>4, Zenon DEF SettledAnswer
    <3> QED
      BY <2>1, <3>1, <3>2
  <2> QED
    BY <1>1, <2>1, <2>2, ChainMoves DEF Final
<1> QED
  BY <1>2, <1>3, <1>4

-----------------------------------------------------------------------------
(* Steps that leave the chain alone.                                       *)

LEMMA Frame ==
    ASSUME RetrievalInv, UNCHANGED chains,
           asker' \in [Asker -> AskerType], \A c \in Asker : AskerSound(asker'[c]),
           flight' \in FlightType, FlightSound(flight'),
           cached' \in Answers, SettledAnswer(cached'), saved' \in Nat, parked' \subseteq Source,
           missing' \in {"none", "confirmed", "unconfirmed"}, missing' = "confirmed" => holders = {}
    PROVE  RetrievalInv'
<1>1. UNCHANGED <<node, local, indexed, holders>>
  BY DEF chains
<1>2. RetrievalTypes'
  BY <1>1 DEF RetrievalInv, RetrievalTypes
<1>3. SettledAnswer(local)' /\ SettledAnswer(cached)' /\ \A c \in Asker : AskerSound(asker[c])'
  BY <1>1 DEF RetrievalInv, SettledAnswer, AskerSound, Final
<1>4. FlightSound(flight)'
  BY <1>1 DEF FlightSound, SettledAnswer, AttemptSound, FlightAsked, Final
<1> QED
  BY <1>1, <1>2, <1>3, <1>4 DEF RetrievalInv, MissingHonest

\* The frame of a step of the flight alone.
LEMMA FlightFrame ==
    ASSUME RetrievalInv, UNCHANGED <<chains, asker, caches>>, flight' \in FlightType, FlightSound(flight')
    PROVE  RetrievalInv'
<1>1. UNCHANGED <<chains, asker, cached, saved, parked, missing>>
  BY DEF caches
<1>2. /\ RetrievalTypes /\ SettledAnswer(cached) /\ MissingHonest
      /\ \A c \in Asker : AskerSound(asker[c])
  BY DEF RetrievalInv
<1> QED
  BY <1>1, <1>2, Frame DEF RetrievalTypes, MissingHonest

\* The frame of a step of one caller, who may join the flight or drop it.
LEMMA AskerFrame ==
    ASSUME RetrievalInv, UNCHANGED <<chains, saved, parked, missing>>,
           NEW c \in Asker, NEW a \in AskerType, AskerSound(a), asker' = [asker EXCEPT ![c] = a],
           flight' \in {flight, Joined, NoFlight}, cached' \in {cached, NoAnswer}
    PROVE  RetrievalInv'
<1>1. /\ RetrievalTypes /\ SettledAnswer(cached) /\ MissingHonest /\ FlightSound(flight)
      /\ \A d \in Asker : AskerSound(asker[d])
  BY DEF RetrievalInv
<1>2. asker' \in [Asker -> AskerType] /\ \A d \in Asker : AskerSound(asker'[d])
  BY <1>1 DEF RetrievalTypes
<1>3. Joined \in FlightType /\ FlightSound(Joined)
  <2>1. CASE flight.at = "none"
    <3> DEFINE f == [NoFlight EXCEPT !.at = "start"]
    <3>1. /\ Joined = f /\ f \in FlightType /\ f.at = "start" /\ f.by = "none" /\ f.got = NoFlight.got
          /\ f.attempt = NoAttempt /\ f.answer = NoAnswer
      BY <2>1, Constants DEF Joined, FlightType
    <3> HIDE DEF f
    <3> QED
      BY <3>1, Constants DEF FlightSound, FlightAsked
  <2>2. CASE flight.at # "none"
    BY <1>1, <2>2 DEF Joined, RetrievalTypes
  <2> QED
    BY <2>1, <2>2
<1>4. flight' \in FlightType /\ FlightSound(flight')
  BY <1>1, <1>3, Constants DEF RetrievalTypes
<1>5. cached' \in Answers /\ SettledAnswer(cached')
  BY <1>1, Constants DEF RetrievalTypes
<1> QED
  BY <1>1, <1>2, <1>4, <1>5, Frame DEF RetrievalTypes, MissingHonest

\* current_anchor says yes only to the block that is canonical now, and says
\* that it is final only when it is.
LEMMA AnchorsSound ==
    ASSUME RetrievalInv, NEW a \in Answers, SettledAnswer(a), NEW b \in Anchors(a)
    PROVE  b \in Answers /\ SettledAnswer(b) /\ (b # NoAnswer => a.block = node.block /\ b.block = a.block)
<1>1. SettledAnswer(local) /\ node.block \in Nat
  BY DEF RetrievalInv, RetrievalTypes
<1>2. CASE a.stable
  BY <1>2 DEF Anchors, SettledAnswer
<1>3. CASE ~a.stable /\ local.stable
  <2>1. [a EXCEPT !.stable = TRUE] \in Answers /\ [a EXCEPT !.stable = TRUE].block = a.block
    BY DEF Answers
  <2>2. b = NoAnswer \/ (b = [a EXCEPT !.stable = TRUE] /\ local.block = a.block)
    BY <1>3 DEF Anchors
  <2> QED
    BY <1>1, <1>3, <2>1, <2>2, Constants DEF SettledAnswer
<1>4. CASE ~a.stable /\ ~local.stable
  <2>1. b = NoAnswer \/ (b = a /\ node.block = a.block)
    BY <1>4 DEF Anchors
  <2> QED
    BY <1>4, <2>1, Constants DEF SettledAnswer
<1> QED
  BY <1>2, <1>3, <1>4

-----------------------------------------------------------------------------
(* Callers.                                                                *)

LEMMA AskKeeps ==
    ASSUME RetrievalInv, NEW c \in Asker, Ask(c) PROVE RetrievalInv'
<1>1. /\ RetrievalTypes /\ SettledAnswer(cached) /\ AskerSound(asker[c]) /\ asker[c] \in AskerType
      /\ node.block \in Nat /\ cached \in Answers
      /\ UNCHANGED <<chains, cached, saved, parked, missing>>
  BY DEF RetrievalInv, RetrievalTypes, Ask, caches
<1>2. CASE asker' = [asker EXCEPT ![c] = Done("missing")] /\ UNCHANGED flight
  BY <1>1, <1>2, DoneSound, AskerFrame
<1>3. CASE /\ asker' = [asker EXCEPT ![c] = [at |-> "hit", since |-> node.block, answer |-> cached]]
           /\ UNCHANGED flight
  <2> DEFINE a == [at |-> "hit", since |-> node.block, answer |-> cached]
  <2>1. a \in AskerType /\ AskerSound(a)
    BY <1>1 DEF AskerType, AskerSound
  <2> HIDE DEF a
  <2> QED
    BY <1>1, <1>3, <2>1, AskerFrame DEF a
<1>4. CASE /\ asker' = [asker EXCEPT ![c].at = "waiting", ![c].since = node.block]
           /\ flight' = Joined
  <2> DEFINE a == [asker[c] EXCEPT !.at = "waiting", !.since = node.block]
  <2>1. a \in AskerType /\ a.answer = asker[c].answer /\ a.since = node.block
    BY <1>1 DEF AskerType
  <2>2. asker' = [asker EXCEPT ![c] = a]
    BY <1>1, <1>4 DEF RetrievalTypes, AskerType
  <2>3. AskerSound(a)
    BY <1>1, <2>1 DEF AskerSound
  <2> HIDE DEF a
  <2> QED
    BY <1>1, <1>4, <2>1, <2>2, <2>3, AskerFrame
<1> QED
  BY <1>2, <1>3, <1>4 DEF Ask

LEMMA CheckHitKeeps ==
    ASSUME RetrievalInv, NEW c \in Asker, CheckHit(c) PROVE RetrievalInv'
<1>1. /\ RetrievalTypes /\ AskerSound(asker[c]) /\ asker[c] \in AskerType
      /\ UNCHANGED <<chains, saved, parked, missing>>
  BY DEF RetrievalInv, RetrievalTypes, CheckHit
<1>2. CASE Answer(c) /\ UNCHANGED <<flight, cached>>
  BY <1>1, <1>2, DoneSound, AskerFrame DEF Answer
<1>3. CASE /\ cached' = NoAnswer /\ flight' = Joined
           /\ asker' = [asker EXCEPT ![c].at = "waiting", ![c].answer = NoAnswer]
  <2> DEFINE a == [asker[c] EXCEPT !.at = "waiting", !.answer = NoAnswer]
  <2>1. a \in AskerType /\ a.answer = NoAnswer /\ a.since = asker[c].since
    BY <1>1, Constants DEF AskerType
  <2>2. asker' = [asker EXCEPT ![c] = a]
    BY <1>1, <1>3 DEF RetrievalTypes, AskerType
  <2>3. AskerSound(a)
    BY <1>1, <2>1, Constants DEF AskerSound
  <2> HIDE DEF a
  <2> QED
    BY <1>1, <1>3, <2>1, <2>2, <2>3, AskerFrame
<1> QED
  BY <1>2, <1>3 DEF CheckHit

LEMMA RecheckKeeps ==
    ASSUME RetrievalInv, NEW c \in Asker, Recheck(c) PROVE RetrievalInv'
BY DoneSound, AskerFrame DEF Recheck, Answer, caches, RetrievalInv

LEMMA AbandonKeeps ==
    ASSUME RetrievalInv, NEW c \in Asker, Abandon(c) PROVE RetrievalInv'
BY DoneSound, AskerFrame DEF Abandon, caches, RetrievalInv

-----------------------------------------------------------------------------
(* The flight.                                                             *)

LEMMA ReportKeeps ==
    ASSUME RetrievalInv, UNCHANGED <<chains, cached, saved, parked>>,
           NEW at \in {"missing", "failed"}, Report(at),
           missing' \in {"none", "confirmed", "unconfirmed"}, missing' = "confirmed" => holders = {}
    PROVE  RetrievalInv'
<1>1. RetrievalTypes /\ SettledAnswer(cached) /\ \A c \in Asker : AskerSound(asker[c])
  BY DEF RetrievalInv
<1>2. asker' = [c \in Asker |-> IF c \in Waiting THEN Done(at) ELSE asker[c]] /\ flight' = NoFlight
  BY DEF Report, Deliver, Waiting
<1>3. asker' \in [Asker -> AskerType] /\ \A c \in Asker : AskerSound(asker'[c])
  BY <1>1, <1>2, DoneSound DEF RetrievalTypes
<1> QED
  BY <1>1, <1>2, <1>3, Frame, Constants DEF RetrievalTypes

LEMMA LoadSavedKeeps == RetrievalInv /\ LoadSaved => RetrievalInv'
<1> SUFFICES ASSUME RetrievalInv, LoadSaved PROVE RetrievalInv'
  OBVIOUS
<1> DEFINE a == [block |-> saved, stable |-> FALSE]
<1> DEFINE f == [flight EXCEPT !.at = "check", !.answer = a]
<1>1. RetrievalTypes /\ FlightSound(flight) /\ flight.at = "start" /\ flight' = f
      /\ UNCHANGED <<chains, asker, caches>>
  BY DEF RetrievalInv, LoadSaved, Unmoved
<1>2. a \in Answers /\ SettledAnswer(a)
  BY <1>1 DEF RetrievalTypes, Answers, SettledAnswer
<1> HIDE DEF a
<1>3. /\ f \in FlightType /\ f.at = "check" /\ f.by = flight.by /\ f.got = flight.got
      /\ f.attempt = flight.attempt /\ f.answer = a
  BY <1>1, <1>2 DEF RetrievalTypes, FlightType
<1> HIDE DEF f
<1>4. FlightSound(f)
  BY <1>1, <1>2, <1>3 DEF FlightSound, FlightAsked
<1> QED
  BY <1>1, <1>3, <1>4, FlightFrame

LEMMA StartSound ==
    ASSUME NEW via \in {"none", "item", "direct"} \cup Source
    PROVE  Start(via) \in Attempts /\ Start(via).via = via /\ Start(via).at = "status" /\ AttemptSound(Start(via))
BY Constants DEF Start, Attempts, AttemptSound

LEMMA LookupKeeps == RetrievalInv /\ Lookup => RetrievalInv'
<1> SUFFICES ASSUME RetrievalInv, Lookup PROVE RetrievalInv'
  OBVIOUS
<1>1. RetrievalTypes /\ FlightSound(flight) /\ flight.at = "start" /\ flight \in FlightType
      /\ UNCHANGED <<chains, asker, caches>>
  BY DEF RetrievalInv, Lookup, Unmoved, RetrievalTypes
<1> DEFINE placed == Placed({"tx", "item"})
<1> DEFINE t == IF Placed({"item"}) THEN Start("item") ELSE IF Placed({"tx"}) THEN Start("direct") ELSE NoAttempt
<1> DEFINE f == [flight EXCEPT !.at = IF placed THEN "attempt" ELSE "discover",
                               !.by = IF placed THEN indexed ELSE "sources", !.attempt = t]
<1>2. /\ t \in Attempts /\ AttemptSound(t)
      /\ placed => t.via \in {"item", "direct"} /\ indexed \in {"tx", "item"}
      /\ placed /\ t.via = "item" => indexed = "item"
      /\ ~placed => t.via = "none"
  BY Constants, StartSound DEF Placed
<1>3. flight' = f
  BY DEF Lookup
<1> HIDE DEF t, placed
<1>4. /\ f \in FlightType /\ f.at = (IF placed THEN "attempt" ELSE "discover") /\ f.got = flight.got
      /\ f.by = (IF placed THEN indexed ELSE "sources") /\ f.attempt = t /\ f.answer = flight.answer
  BY <1>1, <1>2 DEF FlightType, RetrievalTypes
<1> HIDE DEF f
<1>5. FlightSound(f)
  BY <1>1, <1>2, <1>4 DEF FlightSound, FlightAsked
<1> QED
  BY <1>1, <1>3, <1>4, <1>5, FlightFrame

LEMMA DiscoverKeeps ==
    ASSUME RetrievalInv, NEW s \in Source, Discover(s) PROVE RetrievalInv'
<1>1. /\ RetrievalTypes /\ FlightSound(flight) /\ flight \in FlightType
      /\ flight.at = "discover" /\ SettledAnswer(cached) /\ MissingHonest
      /\ \A c \in Asker : AskerSound(asker[c])
      /\ UNCHANGED <<chains, asker, cached, saved, missing>> /\ parked' \subseteq Source
  BY DEF RetrievalInv, RetrievalTypes, Discover
<1>2. PICK g \in {"parked", "location", "none", "failed"} :
        flight' = [flight EXCEPT !.got[s] = g] /\ (g = "none" => s \notin holders)
  BY DEF Discover
<1>3. /\ flight' \in FlightType /\ flight'.at = "discover" /\ flight'.by = flight.by
      /\ flight'.attempt = flight.attempt /\ flight'.answer = flight.answer
      /\ flight'.got = [flight.got EXCEPT ![s] = g] /\ flight.got \in [Source -> Gots]
  BY <1>1, <1>2 DEF FlightType, Gots
<1>4. flight.attempt.via # "direct"
  BY <1>1, RetrievalAssumption DEF FlightSound, FlightAsked
<1>5. FlightSound(flight')
  BY <1>1, <1>2, <1>3, <1>4 DEF FlightSound, FlightAsked
<1> QED
  BY <1>1, <1>3, <1>5, Frame DEF RetrievalTypes, MissingHonest

LEMMA UnparkKeeps ==
    ASSUME RetrievalInv, NEW s \in Source, Unpark(s) PROVE RetrievalInv'
BY Frame DEF RetrievalInv, RetrievalTypes, Unpark, MissingHonest

LEMMA ForgetKeeps == RetrievalInv /\ Forget => RetrievalInv'
BY Frame DEF RetrievalInv, RetrievalTypes, Forget

\* The flight takes up another attempt.
LEMMA AttemptStarts ==
    ASSUME RetrievalInv, NEW f \in FlightType, f.by = flight.by, f.got = flight.got,
           f.answer = flight.answer, AttemptSound(f.attempt),
           f.at = "discover" => f.attempt.via \in {"none"} \cup Source,
           f.at # "discover" => f.attempt.via \in {"none", "direct"},
           f.attempt.via = "direct" => f.by # "sources" \/ \A s \in Source : f.got[s] \notin {"wait", "location"}
    PROVE  FlightSound(f)
BY RetrievalAssumption DEF RetrievalInv, FlightSound, FlightAsked

LEMMA TryLocationKeeps ==
    ASSUME RetrievalInv, NEW s \in Source, TryLocation(s) PROVE RetrievalInv'
<1>1. RetrievalTypes /\ flight \in FlightType /\ flight.at = "discover"
      /\ UNCHANGED <<chains, asker, caches>> /\ flight' = [flight EXCEPT !.attempt = Start(s)]
  BY DEF RetrievalInv, RetrievalTypes, TryLocation, Unmoved
<1>2. /\ flight' \in FlightType /\ flight'.at = "discover" /\ flight'.by = flight.by /\ flight'.got = flight.got
      /\ flight'.answer = flight.answer /\ flight'.attempt = Start(s)
  BY <1>1, StartSound DEF FlightType
<1>3. FlightSound(flight')
  BY <1>2, StartSound, AttemptStarts, RetrievalAssumption
<1> QED
  BY <1>1, <1>2, <1>3, FlightFrame

LEMMA DirectlyKeeps == RetrievalInv /\ Directly => RetrievalInv'
<1> SUFFICES ASSUME RetrievalInv, Directly PROVE RetrievalInv'
  OBVIOUS
<1> DEFINE t == Start("direct")
<1>1. flight \in FlightType /\ UNCHANGED <<chains, asker, caches>>
      /\ flight' = [flight EXCEPT !.at = "attempt", !.attempt = t]
  BY DEF RetrievalInv, RetrievalTypes, Directly, Unmoved
<1>2. t \in Attempts /\ t.via = "direct" /\ AttemptSound(t)
  BY StartSound
<1> HIDE DEF t
<1>3. /\ flight' \in FlightType /\ flight'.at = "attempt" /\ flight'.by = flight.by /\ flight'.got = flight.got
      /\ flight'.answer = flight.answer /\ flight'.attempt = t
  BY <1>1, <1>2 DEF FlightType
<1>4. \A s \in Source : flight'.got[s] \notin {"wait", "location"}
  BY <1>3 DEF Directly
<1>5. FlightSound(flight')
  BY <1>2, <1>3, <1>4, AttemptStarts
<1> QED
  BY <1>1, <1>3, <1>5, FlightFrame

LEMMA AttemptFailsKeeps ==
    ASSUME RetrievalInv, AttemptFails, UNCHANGED <<chains, caches>> PROVE RetrievalInv'
<1>1. RetrievalTypes /\ FlightSound(flight) /\ flight \in FlightType
      /\ UNCHANGED <<cached, saved, parked, missing>> /\ MissingHonest
  BY DEF RetrievalInv, RetrievalTypes, caches
<1>2. CASE flight.attempt.via = "item" /\ flight' = [flight EXCEPT !.attempt = Start("direct")] /\ UNCHANGED asker
  <2> DEFINE t == Start("direct")
  <2>1. t \in Attempts /\ t.via = "direct" /\ AttemptSound(t)
    BY StartSound
  <2>2. flight' = [flight EXCEPT !.attempt = t]
    BY <1>2
  <2> HIDE DEF t
  <2>3. /\ flight' \in FlightType /\ flight'.at = flight.at /\ flight'.by = flight.by
        /\ flight'.got = flight.got /\ flight'.answer = flight.answer /\ flight'.attempt = t
    BY <1>1, <2>1, <2>2 DEF FlightType
  <2>4. flight.at # "discover" /\ flight.by = "item"
    BY <1>1, <1>2, RetrievalAssumption DEF FlightSound, FlightAsked
  <2>5. FlightSound(flight')
    BY <2>1, <2>3, <2>4, AttemptStarts
  <2> QED
    BY <1>2, <2>3, <2>5, FlightFrame
<1>3. CASE Report("failed")
  BY <1>1, <1>3, ReportKeeps DEF RetrievalTypes, MissingHonest
<1>4. CASE /\ flight.attempt.via \in Source /\ UNCHANGED asker
           /\ flight' = [flight EXCEPT !.got[flight.attempt.via] = "failed", !.attempt = NoAttempt]
  <2> DEFINE s == flight.attempt.via
  <2>1. s \in Source /\ flight.got \in [Source -> Gots] /\ flight.attempt.via = s
    BY <1>1, <1>4 DEF FlightType
  <2>2. flight' = [flight EXCEPT !.got[s] = "failed", !.attempt = NoAttempt]
    BY <1>4
  <2> HIDE DEF s
  <2>3. /\ flight' \in FlightType /\ flight'.at = flight.at /\ flight'.by = flight.by
        /\ flight'.got = [flight.got EXCEPT ![s] = "failed"] /\ flight'.answer = flight.answer
        /\ flight'.attempt = NoAttempt
    BY <1>1, <2>1, <2>2, Constants DEF FlightType, Gots
  <2>4. FlightSound(flight')
    BY <1>1, <2>1, <2>3, Constants, RetrievalAssumption DEF FlightSound, FlightAsked
  <2> QED
    BY <1>4, <2>3, <2>4, FlightFrame
<1> QED
  BY <1>2, <1>3, <1>4 DEF AttemptFails

\* An attempt that goes on has passed the source it came by.
LEMMA AttemptGoesOn ==
    ASSUME RetrievalInv, UNCHANGED <<chains, asker, caches>>, NEW t \in Attempts,
           t.via = flight.attempt.via, AttemptSound(t), flight' = [flight EXCEPT !.attempt = t]
    PROVE  RetrievalInv'
<1>1. FlightSound(flight) /\ flight \in FlightType
  BY DEF RetrievalInv, RetrievalTypes
<1>2. /\ flight' \in FlightType /\ flight'.at = flight.at /\ flight'.by = flight.by
      /\ flight'.got = flight.got /\ flight'.answer = flight.answer /\ flight'.attempt = t
  BY <1>1 DEF FlightType
<1>3. FlightSound(flight')
  BY <1>1, <1>2 DEF FlightSound, FlightAsked
<1> QED
  BY <1>2, <1>3, FlightFrame

LEMMA StatusKeeps == RetrievalInv /\ Status => RetrievalInv'
<1> SUFFICES ASSUME RetrievalInv, Status PROVE RetrievalInv'
  OBVIOUS
<1>1. /\ flight \in FlightType /\ flight.attempt \in Attempts /\ UNCHANGED <<chains, asker, caches>>
      /\ node.block \in Nat /\ local.block \in Nat
  BY DEF RetrievalInv, RetrievalTypes, Status, Unmoved, FlightType, Answers
<1>2. PICK b \in IF Placed({"tx", "item"}) THEN {local.block} ELSE 1 .. node.block :
        flight' = [flight EXCEPT !.attempt.at = "anchor", !.attempt.block = b]
  BY DEF Status
<1> DEFINE t == [flight.attempt EXCEPT !.at = "anchor", !.block = b]
<1>3. b \in Nat
  BY <1>1
<1>4. t \in Attempts /\ t.via = flight.attempt.via /\ t.at = "anchor"
  BY <1>1, <1>3 DEF Attempts
<1>5. flight' = [flight EXCEPT !.attempt = t]
  BY <1>1, <1>2 DEF FlightType
<1> HIDE DEF t
<1>6. AttemptSound(t)
  BY <1>4 DEF AttemptSound
<1> QED
  BY <1>1, <1>4, <1>5, <1>6, AttemptGoesOn

\* A block that is stable here is final there.
LEMMA AnchoredKeeps == RetrievalInv /\ Anchored => RetrievalInv'
<1> SUFFICES ASSUME RetrievalInv, Anchored PROVE RetrievalInv'
  OBVIOUS
<1>1. /\ flight \in FlightType /\ flight.attempt \in Attempts /\ UNCHANGED <<chains, asker, caches>>
      /\ Depth \in Nat /\ flight' = [flight EXCEPT !.attempt.at = "body", !.attempt.depth = Depth]
      /\ flight.attempt.block = node.block /\ Final
  BY RetrievalAssumption DEF RetrievalInv, RetrievalTypes, Anchored, FlightType, SettledAnswer
<1> DEFINE t == [flight.attempt EXCEPT !.at = "body", !.depth = Depth]
<1>2. t \in Attempts /\ t.via = flight.attempt.via /\ t.block = flight.attempt.block
  BY <1>1 DEF Attempts
<1>3. flight' = [flight EXCEPT !.attempt = t]
  BY <1>1 DEF FlightType
<1> HIDE DEF t
<1>4. AttemptSound(t)
  BY <1>1, <1>2 DEF AttemptSound
<1> QED
  BY <1>1, <1>2, <1>3, <1>4, AttemptGoesOn

\* The height was asked for first: what was deep enough then is deep enough now.
LEMMA InfoKeeps == RetrievalInv /\ Info => RetrievalInv'
<1> SUFFICES ASSUME RetrievalInv, Info PROVE RetrievalInv'
  OBVIOUS
<1>1. /\ flight \in FlightType /\ flight.attempt \in Attempts /\ UNCHANGED <<chains, asker, caches>>
      /\ node.depth \in Nat /\ flight' = [flight EXCEPT !.attempt.at = "index", !.attempt.depth = node.depth]
  BY DEF RetrievalInv, RetrievalTypes, Info, Unmoved, FlightType
<1> DEFINE t == [flight.attempt EXCEPT !.at = "index", !.depth = node.depth]
<1>2. t \in Attempts /\ t.via = flight.attempt.via /\ t.at = "index" /\ t.depth = node.depth
  BY <1>1 DEF Attempts
<1>3. flight' = [flight EXCEPT !.attempt = t]
  BY <1>1 DEF FlightType
<1> HIDE DEF t
<1>4. AttemptSound(t)
  BY <1>1, <1>2 DEF AttemptSound, Final
<1> QED
  BY <1>1, <1>2, <1>3, <1>4, AttemptGoesOn

LEMMA BlockIndexKeeps == RetrievalInv /\ BlockIndex => RetrievalInv'
<1> SUFFICES ASSUME RetrievalInv, BlockIndex PROVE RetrievalInv'
  OBVIOUS
<1>1. /\ flight \in FlightType /\ flight.attempt \in Attempts /\ UNCHANGED <<chains, asker, caches>>
      /\ AttemptSound(flight.attempt) /\ flight.attempt.at = "index" /\ node.block = flight.attempt.block
      /\ flight' = [flight EXCEPT !.attempt.at = "body"]
  BY DEF RetrievalInv, RetrievalTypes, BlockIndex, Unmoved, FlightType, FlightSound, Attempting
<1> DEFINE t == [flight.attempt EXCEPT !.at = "body"]
<1>2. /\ t \in Attempts /\ t.via = flight.attempt.via /\ t.at = "body"
      /\ t.depth = flight.attempt.depth /\ t.block = flight.attempt.block
  BY <1>1 DEF Attempts
<1>3. flight' = [flight EXCEPT !.attempt = t]
  BY <1>1 DEF FlightType
<1> HIDE DEF t
<1>4. AttemptSound(t)
  BY <1>1, <1>2 DEF AttemptSound
<1> QED
  BY <1>1, <1>2, <1>3, <1>4, AttemptGoesOn

LEMMA BodyKeeps == RetrievalInv /\ Body => RetrievalInv'
<1> SUFFICES ASSUME RetrievalInv, Body PROVE RetrievalInv'
  OBVIOUS
<1> DEFINE deep == flight.attempt.depth >= Depth
<1> DEFINE a == [block |-> flight.attempt.block, stable |-> deep]
<1>1. /\ RetrievalTypes /\ flight \in FlightType /\ flight.attempt \in Attempts /\ local.block \in Nat
      /\ FlightSound(flight) /\ flight.attempt.at = "body" /\ SettledAnswer(cached) /\ MissingHonest
      /\ \A c \in Asker : AskerSound(asker[c])
      /\ UNCHANGED <<chains, asker, cached, parked, missing>>
  BY DEF RetrievalInv, RetrievalTypes, Body, Attempting, FlightType, Answers
<1>2. flight' = [flight EXCEPT !.at = "check", !.attempt = NoAttempt, !.answer = a]
      /\ saved' \in {saved, IF flight.attempt.block = local.block THEN flight.attempt.block ELSE saved}
  BY DEF Body
<1>3. deep \in BOOLEAN /\ (deep => flight.attempt.block = node.block /\ Final)
  BY <1>1, RetrievalAssumption DEF Attempts, FlightSound, AttemptSound
<1> HIDE DEF deep
<1>4. a \in Answers /\ a.block = flight.attempt.block /\ a.stable = deep
  BY <1>1, <1>3 DEF Answers, Attempts
<1>5. SettledAnswer(a)
  BY <1>3, <1>4, Zenon DEF SettledAnswer
<1> HIDE DEF a
<1>6. /\ flight' \in FlightType /\ flight'.at = "check" /\ flight'.by = flight.by /\ flight'.got = flight.got
      /\ flight'.attempt = NoAttempt /\ flight'.answer = a
  BY <1>1, <1>2, <1>4, Constants DEF FlightType
<1>7. FlightSound(flight')
  BY <1>1, <1>5, <1>6, Constants DEF FlightSound, FlightAsked
<1>8. saved' \in Nat
  BY <1>1, <1>2 DEF RetrievalTypes, Attempts
<1> QED
  BY <1>1, <1>6, <1>7, <1>8, Frame DEF RetrievalTypes, MissingHonest

LEMMA CheckKeeps == RetrievalInv /\ Check => RetrievalInv'
<1> SUFFICES ASSUME RetrievalInv, Check PROVE RetrievalInv'
  OBVIOUS
<1>1. /\ RetrievalTypes /\ flight \in FlightType /\ flight.answer \in Answers /\ FlightSound(flight)
      /\ SettledAnswer(flight.answer) /\ flight.at = "check" /\ UNCHANGED <<chains, caches>>
      /\ UNCHANGED <<cached, saved, parked, missing>> /\ MissingHonest
  BY DEF RetrievalInv, RetrievalTypes, Check, FlightType, FlightSound, caches
<1>2. CASE Report("failed")
  BY <1>1, <1>2, ReportKeeps DEF RetrievalTypes, MissingHonest
<1>3. ASSUME NEW a \in Anchors(flight.answer), UNCHANGED asker,
             flight' = [flight EXCEPT !.at = "checked", !.answer = a]
      PROVE  RetrievalInv'
  <2>1. a \in Answers /\ SettledAnswer(a)
    BY <1>1, AnchorsSound
  <2>2. /\ flight' \in FlightType /\ flight'.at = "checked" /\ flight'.by = flight.by
        /\ flight'.got = flight.got /\ flight'.attempt = flight.attempt /\ flight'.answer = a
    BY <1>1, <1>3, <2>1 DEF FlightType
  <2>3. FlightSound(flight')
    BY <1>1, <2>1, <2>2 DEF FlightSound, FlightAsked
  <2> QED
    BY <1>1, <1>3, <2>2, <2>3, FlightFrame
<1> QED
  BY <1>2, <1>3 DEF Check

LEMMA ArriveKeeps == RetrievalInv /\ Arrive => RetrievalInv'
<1> SUFFICES ASSUME RetrievalInv, Arrive PROVE RetrievalInv'
  OBVIOUS
<1> DEFINE a(c) == [asker[c] EXCEPT !.at = "recheck", !.answer = flight.answer]
<1>1. /\ RetrievalTypes /\ flight.answer \in Answers /\ SettledAnswer(flight.answer) /\ MissingHonest
      /\ \A c \in Asker : AskerSound(asker[c]) /\ asker[c] \in AskerType
      /\ UNCHANGED <<chains, saved, parked, missing>> /\ cached' = flight.answer
  BY DEF RetrievalInv, RetrievalTypes, Arrive, FlightType, FlightSound
<1>2. asker' = [c \in Asker |-> IF c \in Waiting THEN a(c) ELSE asker[c]] /\ flight' = NoFlight
  BY DEF Arrive, Deliver, Waiting
<1>3. \A c \in Asker : a(c) \in AskerType /\ a(c).answer = flight.answer /\ a(c).since = asker[c].since
  BY <1>1 DEF AskerType
<1>4. \A c \in Asker : AskerSound(a(c))
  BY <1>1, <1>3 DEF AskerSound
<1> HIDE DEF a
<1>5. asker' \in [Asker -> AskerType] /\ \A c \in Asker : AskerSound(asker'[c])
  BY <1>1, <1>2, <1>3, <1>4
<1> QED
  BY <1>1, <1>2, <1>5, Frame, Constants DEF RetrievalTypes, MissingHonest

\* The archive's 404 after every source has said that it knows of no bundle.
LEMMA NotThereKeeps == RetrievalInv /\ NotThere => RetrievalInv'
<1> SUFFICES ASSUME RetrievalInv, NotThere PROVE RetrievalInv'
  OBVIOUS
<1>1. /\ RetrievalTypes /\ FlightSound(flight) /\ flight \in FlightType /\ holders \subseteq Source
      /\ (indexed = "tx" => holders = {}) /\ MissingHonest /\ UNCHANGED <<chains, cached, saved, parked>>
  BY DEF RetrievalInv, RetrievalTypes, NotThere
<1>2. CASE flight.attempt.via # "direct"
  <2>1. AttemptFails /\ UNCHANGED missing
    BY <1>2 DEF NotThere
  <2> QED
    BY <1>1, <2>1, AttemptFailsKeeps DEF caches
<1>3. CASE flight.attempt.via = "direct"
  <2>1. CASE missing' = "unconfirmed" /\ Report("missing")
    BY <1>1, <2>1, ReportKeeps
  <2>2. CASE UNCHANGED missing /\ Report("failed")
    BY <1>1, <2>2, ReportKeeps DEF RetrievalTypes, MissingHonest
  <2>3. CASE /\ flight.by = "tx" \/ (flight.by = "sources" /\ Failures(flight.got) = {})
             /\ missing' = "confirmed" /\ Report("missing")
    <3>1. CASE flight.by = "tx"
      BY <1>1, <2>3, <3>1, ReportKeeps DEF FlightSound, FlightAsked
    <3>2. CASE flight.by = "sources" /\ Failures(flight.got) = {}
      <4>1. flight.got \in [Source -> Gots]
        BY <1>1 DEF FlightType
      <4>2. \A s \in Source : flight.got[s] = "none"
        BY <1>1, <1>3, <3>2, <4>1 DEF FlightSound, FlightAsked, Failures, Gots
      <4>3. holders = {}
        BY <1>1, <4>2 DEF FlightSound, FlightAsked
      <4> QED
        BY <1>1, <2>3, <4>3, ReportKeeps
    <3> QED
      BY <2>3, <3>1, <3>2
  <2> QED
    BY <1>3, <2>1, <2>2, <2>3 DEF NotThere
<1> QED
  BY <1>2, <1>3

-----------------------------------------------------------------------------
LEMMA RetrievalStutters == RetrievalInv /\ UNCHANGED retrieving => RetrievalInv'
BY Frame DEF RetrievalInv, RetrievalTypes, MissingHonest, retrieving, caches

LEMMA RetrievalKeeps == RetrievalInv /\ [RetrievalNext]_retrieving => RetrievalInv'
<1> SUFFICES ASSUME RetrievalInv, [RetrievalNext]_retrieving PROVE RetrievalInv'
  OBVIOUS
<1>1. CASE NodeGrows \/ NodeReorganises \/ LocalFollows
  BY <1>1, EnvironmentKeeps
<1>2. CASE Forget
  BY <1>2, ForgetKeeps
<1>3. ASSUME NEW c \in Asker, Ask(c) \/ CheckHit(c) \/ Recheck(c) \/ Abandon(c) PROVE RetrievalInv'
  BY <1>3, AskKeeps, CheckHitKeeps, RecheckKeeps, AbandonKeeps
<1>4. ASSUME NEW s \in Source, Discover(s) \/ Unpark(s) \/ TryLocation(s) PROVE RetrievalInv'
  BY <1>4, DiscoverKeeps, UnparkKeeps, TryLocationKeeps
<1>5. CASE LoadSaved \/ Lookup \/ Directly
  BY <1>5, LoadSavedKeeps, LookupKeeps, DirectlyKeeps
<1>6. CASE Breaks
  BY <1>6, AttemptFailsKeeps DEF Breaks
<1>7. CASE NotThere
  BY <1>7, NotThereKeeps
<1>8. CASE Status \/ Anchored \/ Info \/ BlockIndex
  BY <1>8, StatusKeeps, AnchoredKeeps, InfoKeeps, BlockIndexKeeps
<1>9. CASE Body \/ Check \/ Arrive
  BY <1>9, BodyKeeps, CheckKeeps, ArriveKeeps
<1>10. CASE UNCHANGED retrieving
  BY <1>10, RetrievalStutters
<1> QED
  BY <1>1, <1>2, <1>3, <1>4, <1>5, <1>6, <1>7, <1>8, <1>9, <1>10 DEF RetrievalNext

LEMMA RetrievalInvariant == RetrievalSpec => []RetrievalInv
BY RetrievalStarts, RetrievalKeeps, PTL DEF RetrievalSpec

\* An ID is remembered as missing for certain only while no source knows it.
THEOREM MissingAlwaysHonest == RetrievalSpec => []MissingHonest
<1>1. RetrievalInv => MissingHonest
  BY DEF RetrievalInv
<1> QED
  BY <1>1, RetrievalInvariant, PTL

LEMMA AnswerIsCurrent ==
    ASSUME RetrievalInv, NEW c \in Asker, NEW a \in Anchors(asker[c].answer), a # NoAnswer
    PROVE  asker[c].answer.block >= asker[c].since
<1>1. /\ AskerSound(asker[c]) /\ asker[c] \in AskerType /\ asker[c].answer \in Answers
      /\ SettledAnswer(asker[c].answer)
  BY DEF RetrievalInv, RetrievalTypes, AskerType, AskerSound
<1>2. asker[c].answer.block = node.block
  BY <1>1, AnchorsSound
<1> QED
  BY <1>1, <1>2 DEF AskerSound, RetrievalInv, RetrievalTypes, AskerType

\* One caller moves, and is answered only by an anchor that holds.
LEMMA OnlyByAnchor ==
    ASSUME RetrievalInv, NEW d \in Asker, NEW a \in AskerType, asker' = [asker EXCEPT ![d] = a],
           a.at = "answered" => \E b \in Anchors(asker[d].answer) : b # NoAnswer
    PROVE  Current
<1> SUFFICES ASSUME NEW c \in Asker, asker'[c].at = "answered", asker'[c] # asker[c]
             PROVE  asker[c].answer.block >= asker[c].since
  BY DEF Current
<1>1. asker \in [Asker -> AskerType]
  BY DEF RetrievalInv, RetrievalTypes
<1>2. c = d /\ asker'[c] = a
  BY <1>1
<1> QED
  BY <1>2, AnswerIsCurrent

LEMMA StepCurrent == RetrievalInv /\ [RetrievalNext]_retrieving => [Current]_retrieving
<1> SUFFICES ASSUME RetrievalInv, RetrievalNext PROVE Current
  OBVIOUS
<1>1. RetrievalTypes /\ asker \in [Asker -> AskerType] /\ \A c \in Asker : asker[c] \in AskerType
  BY DEF RetrievalInv, RetrievalTypes
<1>2. CASE UNCHANGED asker
  BY <1>2 DEF Current
<1>3. ASSUME NEW d \in Asker, Ask(d) PROVE Current
  <2>1. CASE asker' = [asker EXCEPT ![d] = Done("missing")]
    BY <1>1, <2>1, DoneSound DEF Current
  <2>2. CASE asker' = [asker EXCEPT ![d] = [at |-> "hit", since |-> node.block, answer |-> cached]]
    BY <1>1, <2>2 DEF Current
  <2>3. CASE asker' = [asker EXCEPT ![d].at = "waiting", ![d].since = node.block]
    BY <1>1, <2>3 DEF Current, AskerType
  <2> QED
    BY <1>3, <2>1, <2>2, <2>3 DEF Ask
<1>4. ASSUME NEW d \in Asker, CheckHit(d) PROVE Current
  <2>1. CASE Answer(d) /\ \E b \in Anchors(asker[d].answer) : b # NoAnswer
    BY <1>1, <2>1, DoneSound, OnlyByAnchor DEF Answer
  <2>2. CASE asker' = [asker EXCEPT ![d].at = "waiting", ![d].answer = NoAnswer]
    BY <1>1, <2>2 DEF Current, AskerType
  <2> QED
    BY <1>4, <2>1, <2>2 DEF CheckHit
<1>5. ASSUME NEW d \in Asker, Recheck(d) PROVE Current
  <2>1. CASE Answer(d) /\ \E b \in Anchors(asker[d].answer) : b # NoAnswer
    BY <1>1, <2>1, DoneSound, OnlyByAnchor DEF Answer
  <2>2. CASE asker' = [asker EXCEPT ![d] = Done("failed")]
    BY <1>1, <2>2, DoneSound DEF Current
  <2> QED
    BY <1>5, <2>1, <2>2 DEF Recheck, Coalesced
<1>6. ASSUME NEW d \in Asker, Abandon(d) PROVE Current
  BY <1>1, <1>6, DoneSound DEF Abandon, Current
<1>7. ASSUME NEW at \in {"missing", "failed"}, Report(at) PROVE Current
  BY <1>1, <1>7, DoneSound DEF Report, Deliver, Current
<1>8. CASE Arrive
  BY <1>1, <1>8 DEF Arrive, Deliver, Current, AskerType
<1>9. ASSUME ~UNCHANGED asker, NodeGrows \/ NodeReorganises \/ LocalFollows \/ Forget \/ LoadSaved \/ Lookup
               \/ Directly \/ Status \/ Anchored \/ Info \/ BlockIndex \/ Body
      PROVE  FALSE
  BY <1>9 DEF NodeGrows, NodeReorganises, LocalFollows, Forget, LoadSaved, Lookup, Directly, Status,
     Anchored, Info, BlockIndex, Body, Unmoved
<1>10. ASSUME NEW s \in Source, ~UNCHANGED asker, Discover(s) \/ Unpark(s) \/ TryLocation(s)
       PROVE  FALSE
  BY <1>10 DEF Discover, Unpark, TryLocation, Unmoved
<1>11. CASE Breaks \/ NotThere \/ Check
  BY <1>2, <1>7, <1>11 DEF Breaks, NotThere, Check, AttemptFails
<1> QED
  BY <1>2, <1>3, <1>4, <1>5, <1>6, <1>8, <1>9, <1>10, <1>11 DEF RetrievalNext

\* A caller is answered with a block that was canonical after it asked, out of
\* whatever cache and however many shared the flight.
THEOREM AnswersAlwaysCurrent == RetrievalSpec => AnswersCurrent
<1>1. RetrievalInv /\ [RetrievalNext]_retrieving => [Current]_retrieving
  BY StepCurrent
<1> QED
  BY <1>1, RetrievalInvariant, PTL DEF RetrievalSpec, AnswersCurrent

\* Both: what a caller is told, that there is an item or that there is none.
THEOREM RetrievalAlwaysSound == RetrievalSpec => RetrievalSound
BY MissingAlwaysHonest, AnswersAlwaysCurrent, PTL DEF RetrievalSound, AnswersCurrent

-----------------------------------------------------------------------------
(* Index publication.                                                      *)

Version == [Files -> Nat]
Band == [stat : Version, hash : Version]
Steps == {"idle", "manifest", "stat", "hash", "sign", "save", "show", "clean", "empty", "last"}
Document == [band : Band, records : Nat, issued : Nat]

PublicationTypes ==
    /\ disk \in Version /\ writes \in Nat /\ now \in Nat
    /\ pass \in [at : Steps, now : Nat, cached : Band, issued : Nat, records : Nat,
                 band : Band, todo : SUBSET Files]
    /\ state \in [band : Band, issued : Nat]
    /\ publication \in Document /\ view \in Document
    /\ reader \in [at : {"none", "taken", "body"}, file : Files, stat : Nat, hash : Nat, bytes : Nat]

\* Of the version on disk: the hash is that of the version with the time s, or
\* that version is gone, and as no time is used twice it will not come back.
Faithful(s, h, d, w) == s <= w /\ (h = s \/ (s # Absent /\ d # s))
FaithfulBand(band, d, w) == \A f \in Files : Faithful(band.stat[f], band.hash[f], d[f], w)

\* The file times and digests of a pass, as far as it has come.
Describing ==
    /\ \A f \in Files : disk[f] <= writes
    /\ pass.at \in {"idle", "manifest", "empty", "last"} => pass.band = NoBand
    /\ pass.at = "stat" => /\ pass.band.hash = Nothing
                           /\ \A f \in Files : pass.band.stat[f] <= writes
                           /\ \A f \in Files \ pass.todo : pass.band.stat[f] # Absent
    /\ pass.at = "hash" => /\ \A f \in Files : pass.band.stat[f] # Absent /\ pass.band.stat[f] <= writes
                           /\ \A f \in Files \ pass.todo :
                                Faithful(pass.band.stat[f], pass.band.hash[f], disk[f], writes)
    /\ pass.at \in {"sign", "save", "show", "clean"} => FaithfulBand(pass.band, disk, writes)

Keeping ==
    /\ FaithfulBand(state.band, disk, writes)
    /\ FaithfulBand(pass.cached, disk, writes)
    /\ FaithfulBand(view.band, disk, writes)

Reading ==
    /\ reader.at = "taken" => Faithful(reader.stat, reader.hash, disk[reader.file], writes)
    /\ ServedAsHashed

\* The state never claims a document younger than the one there is.
Issuing ==
    /\ state.issued <= publication.issued /\ pass.issued <= publication.issued
    /\ publication.issued <= now
    /\ pass.at # "idle" => publication.issued <= pass.now /\ pass.now <= now
    /\ pass.at \in {"save", "show"} => pass.now - publication.issued < Half

PublicationInv == PublicationTypes /\ Describing /\ Keeping /\ Reading /\ Issuing

LEMMA PublicationStarts == PublicationInit => PublicationInv
BY PublicationAssumption
DEF PublicationInit, PublicationInv, PublicationTypes, Describing, Keeping, Reading, Issuing,
    FaithfulBand, Faithful, ServedAsHashed, Asleep, NoBand, NoDocument, NoReader, Nothing, Absent,
    Version, Band, Steps, Document, Files, Data, Manifest

-----------------------------------------------------------------------------
(* The operator and time.                                                  *)

LEMMA FaithfulStays ==
    ASSUME NEW s \in Nat, NEW h \in Nat, NEW d \in Nat, NEW w \in Nat, NEW e \in {d, w + 1, Absent},
           Faithful(s, h, d, w)
    PROVE  Faithful(s, h, e, w + 1)
BY DEF Faithful, Absent

LEMMA OperateKeeps ==
    ASSUME PublicationInv, NEW f \in Files, Operate(f) PROVE PublicationInv'
<1>1. /\ PublicationTypes /\ Describing /\ Keeping /\ Reading /\ Issuing
      /\ UNCHANGED <<now, pass, state, publication, view, reader>>
  BY DEF PublicationInv, Operate, publisher
<1>2. /\ writes' = writes + 1 /\ writes' \in Nat /\ disk' \in Version
      /\ \A g \in Files : disk'[g] \in {disk[g], writes + 1, Absent}
  BY <1>1 DEF Operate, PublicationTypes, Version, Absent
<1>3. \A g \in Files : disk'[g] <= writes'
  BY <1>1, <1>2 DEF Describing, PublicationTypes, Version, Absent
<1>4. ASSUME NEW s \in Nat, NEW h \in Nat, NEW g \in Files, Faithful(s, h, disk[g], writes)
      PROVE  Faithful(s, h, disk'[g], writes')
  BY <1>1, <1>2, <1>4, FaithfulStays DEF PublicationTypes, Version
<1>5. ASSUME NEW band \in Band, FaithfulBand(band, disk, writes)
      PROVE  FaithfulBand(band, disk', writes')
  BY <1>4, <1>5 DEF FaithfulBand, Band, Version
<1>6. PublicationTypes' /\ Issuing'
  BY <1>1, <1>2 DEF PublicationTypes, Issuing
<1>7. Keeping'
  BY <1>1, <1>5 DEF Keeping, PublicationTypes, Document
<1>8. Reading'
  BY <1>1, <1>4 DEF Reading, PublicationTypes, ServedAsHashed
<1>9. Describing'
  <2>1. pass.band \in Band /\ pass.band.stat \in Version /\ pass.band.hash \in Version
    BY <1>1 DEF PublicationTypes, Band
  <2>2. \A g \in Files : pass.band.stat[g] \in Nat /\ pass.band.hash[g] \in Nat
    BY <2>1 DEF Version
  <2>3. pass.at = "hash" => \A g \in Files \ pass.todo :
                              Faithful(pass.band.stat[g], pass.band.hash[g], disk'[g], writes')
    BY <1>1, <1>4, <2>2 DEF Describing
  <2>4. pass.at \in {"sign", "save", "show", "clean"} => FaithfulBand(pass.band, disk', writes')
    BY <1>1, <1>5, <2>1 DEF Describing
  <2>5. pass.at \in {"stat", "hash"} => \A g \in Files : pass.band.stat[g] <= writes'
    BY <1>1, <1>2, <2>2 DEF Describing, PublicationTypes
  <2> QED
    BY <1>1, <1>3, <2>3, <2>4, <2>5 DEF Describing
<1> QED
  BY <1>6, <1>7, <1>8, <1>9 DEF PublicationInv

LEMMA TockKeeps == PublicationInv /\ Tock => PublicationInv'
<1> SUFFICES ASSUME PublicationInv, Tock PROVE PublicationInv'
  OBVIOUS
<1>1. /\ PublicationTypes /\ Describing /\ Keeping /\ Reading /\ Issuing
      /\ UNCHANGED <<disk, writes, pass, state, publication, view, reader>> /\ now' = now + 1
  BY DEF PublicationInv, Tock, publisher
<1>2. PublicationTypes' /\ Issuing'
  BY <1>1 DEF PublicationTypes, Issuing, Document
<1>3. Describing' /\ Keeping' /\ Reading'
  BY <1>1 DEF Describing, Keeping, Reading, FaithfulBand, Faithful, ServedAsHashed
<1> QED
  BY <1>2, <1>3 DEF PublicationInv

-----------------------------------------------------------------------------
(* A pass.  What it leaves alone is in one lemma.                          *)

PassType == [at : Steps, now : Nat, cached : Band, issued : Nat, records : Nat,
             band : Band, todo : SUBSET Files]

LEMMA PassKeeps ==
    ASSUME PublicationInv, Quiet, pass' \in PassType,
           state' \in [band : Band, issued : Nat], publication' \in Document, view' \in Document,
           Describing', Issuing',
           state'.band = state.band \/ FaithfulBand(state'.band, disk, writes),
           pass'.cached = pass.cached \/ FaithfulBand(pass'.cached, disk, writes),
           view'.band = view.band \/ FaithfulBand(view'.band, disk, writes)
    PROVE  PublicationInv'
<1>1. /\ PublicationTypes /\ Keeping /\ Reading /\ UNCHANGED <<disk, writes, now, reader>>
  BY DEF PublicationInv, Quiet
<1>2. PublicationTypes'
  BY <1>1 DEF PublicationTypes, PassType
<1>3. Keeping' /\ Reading'
  BY <1>1 DEF Keeping, Reading, FaithfulBand, Faithful, ServedAsHashed
<1> QED
  BY <1>2, <1>3 DEF PublicationInv

LEMMA NoBandFaithful ==
    ASSUME PublicationTypes
    PROVE  /\ NoBand \in Band /\ FaithfulBand(NoBand, disk, writes)
           /\ NoDocument \in Document /\ Asleep \in PassType /\ NoDocument.band = NoBand
BY DEF PublicationTypes, NoBand, Nothing, Absent, FaithfulBand, Faithful, Band, Version, Asleep,
       PassType, Steps, NoDocument, Document

\* A pass that only moves on: to the description p.
LEMMA PassMoves ==
    ASSUME PublicationInv, OnlyPass, NEW p \in PassType, pass' = p, Describing',
           p.at \notin {"save", "show"},
           \/ p.now = pass.now /\ p.issued = pass.issued /\ p.cached = pass.cached /\ pass.at # "idle"
           \/ p = Asleep
           \/ p.now = now /\ p.issued = state.issued /\ p.cached = state.band
    PROVE  PublicationInv'
<1>1. /\ PublicationTypes /\ Issuing /\ Keeping /\ Quiet /\ UNCHANGED <<now, state, publication, view>>
  BY DEF PublicationInv, OnlyPass, Quiet
<1>2. Issuing'
  <2>1. p = Asleep => p.at = "idle" /\ p.issued = 0
    BY DEF Asleep
  <2> QED
    BY <1>1, <2>1 DEF Issuing, PublicationTypes, PassType, Document
<1>3. pass'.cached = pass.cached \/ FaithfulBand(pass'.cached, disk, writes)
  BY <1>1, NoBandFaithful DEF Keeping, Asleep
<1> QED
  BY <1>1, <1>2, <1>3, PassKeeps DEF PublicationTypes

LEMMA BeginKeeps == PublicationInv /\ Begin => PublicationInv'
<1> SUFFICES ASSUME PublicationInv, Begin PROVE PublicationInv'
  OBVIOUS
<1> DEFINE p == [Asleep EXCEPT !.at = "manifest", !.now = now, !.cached = state.band, !.issued = state.issued]
<1>1. PublicationTypes /\ Describing /\ OnlyPass /\ Quiet /\ pass' = p
  BY DEF PublicationInv, Begin, OnlyPass
<1>2. /\ p \in PassType /\ p.at = "manifest" /\ p.now = now /\ p.issued = state.issued
      /\ p.cached = state.band /\ p.band = NoBand
  BY <1>1, NoBandFaithful DEF PublicationTypes, PassType, Asleep, Steps
<1>3. Describing'
  BY <1>1, <1>2 DEF Describing, Quiet
<1> HIDE DEF p
<1> QED
  BY <1>1, <1>2, <1>3, PassMoves

LEMMA NotPublishableKeeps ==
    ASSUME PublicationInv, OnlyPass, NotPublishable, pass.at # "idle" PROVE PublicationInv'
<1> DEFINE p == [pass EXCEPT !.at = "empty", !.band = NoBand]
<1>1. PublicationTypes /\ Describing /\ Quiet /\ pass' = p
  BY DEF PublicationInv, NotPublishable, OnlyPass
<1>2. /\ p \in PassType /\ p.at = "empty" /\ p.now = pass.now /\ p.issued = pass.issued
      /\ p.cached = pass.cached /\ p.band = NoBand
  BY <1>1, NoBandFaithful DEF PublicationTypes, PassType, Steps
<1>3. Describing'
  BY <1>1, <1>2 DEF Describing, Quiet
<1> HIDE DEF p
<1> QED
  BY <1>1, <1>2, <1>3, PassMoves

LEMMA ReadManifestKeeps == PublicationInv /\ ReadManifest => PublicationInv'
<1> SUFFICES ASSUME PublicationInv, ReadManifest PROVE PublicationInv'
  OBVIOUS
<1>1. PublicationTypes /\ Describing /\ OnlyPass /\ Quiet /\ pass.at = "manifest" /\ pass \in PassType
  BY DEF PublicationInv, ReadManifest, OnlyPass, PublicationTypes, PassType
<1>2. CASE disk[Manifest] = Absent
  BY <1>1, <1>2, NotPublishableKeeps DEF ReadManifest
<1>3. CASE disk[Manifest] # Absent
  <2> DEFINE p == [pass EXCEPT !.at = "stat", !.records = disk[Manifest], !.todo = Files]
  <2>1. /\ pass' = p /\ p \in PassType /\ p.at = "stat" /\ p.now = pass.now /\ p.issued = pass.issued
        /\ p.cached = pass.cached /\ p.band = NoBand /\ p.todo = Files
    BY <1>1, <1>3 DEF ReadManifest, PublicationTypes, PassType, Steps, Version, Files, Describing
  <2>2. Describing'
    BY <1>1, <2>1 DEF Describing, Quiet, NoBand, Nothing, Absent, PublicationTypes
  <2> HIDE DEF p
  <2> QED
    BY <1>1, <2>1, <2>2, PassMoves
<1> QED
  BY <1>2, <1>3

LEMMA StatKeeps ==
    ASSUME PublicationInv, NEW f \in Files, Stat(f) PROVE PublicationInv'
<1>1. PublicationTypes /\ Describing /\ OnlyPass /\ Quiet /\ pass.at = "stat" /\ pass \in PassType
  BY DEF PublicationInv, Stat, OnlyPass, PublicationTypes, PassType
<1>2. CASE disk[f] = Absent
  BY <1>1, <1>2, NotPublishableKeeps DEF Stat
<1>3. CASE disk[f] # Absent
  <2> DEFINE p == [pass EXCEPT !.band.stat[f] = disk[f], !.todo = @ \ {f}]
  <2>1. /\ pass.band \in Band /\ pass.band.stat \in Version /\ disk[f] \in Nat
        /\ disk[f] <= writes /\ pass.todo \subseteq Files
    BY <1>1 DEF PassType, PublicationTypes, Band, Version, Describing
  <2>2. /\ pass' = p /\ p.at = "stat" /\ p.now = pass.now /\ p.issued = pass.issued
        /\ p.cached = pass.cached /\ p.todo = pass.todo \ {f} /\ p.records = pass.records
        /\ p.band = [pass.band EXCEPT !.stat[f] = disk[f]]
    BY <1>1, <1>3 DEF Stat, PassType
  <2>3. p.band \in Band /\ p.band.hash = pass.band.hash /\ p.band.stat = [pass.band.stat EXCEPT ![f] = disk[f]]
    BY <2>1, <2>2 DEF Band, Version
  <2>4. p \in PassType
    BY <1>1, <2>1, <2>2, <2>3 DEF PassType
  <2>5. Describing'
    BY <1>1, <1>3, <2>1, <2>2, <2>3 DEF Describing, Quiet, Version
  <2> HIDE DEF p
  <2> QED
    BY <1>1, <2>2, <2>4, <2>5, PassMoves
<1> QED
  BY <1>2, <1>3

LEMMA CompareKeeps == PublicationInv /\ Compare => PublicationInv'
<1> SUFFICES ASSUME PublicationInv, Compare PROVE PublicationInv'
  OBVIOUS
<1>1. /\ PublicationTypes /\ Describing /\ Keeping /\ OnlyPass /\ Quiet
      /\ pass.at = "stat" /\ pass.todo = {} /\ pass \in PassType
  BY DEF PublicationInv, Compare, OnlyPass, PublicationTypes, PassType
<1>2. CASE Reusable
  <2> DEFINE p == [pass EXCEPT !.at = "sign", !.band = pass.cached]
  <2>1. /\ pass' = p /\ p \in PassType /\ p.at = "sign" /\ p.now = pass.now /\ p.issued = pass.issued
        /\ p.cached = pass.cached /\ p.band = pass.cached
    BY <1>1, <1>2 DEF Compare, PassType, Steps
  <2>2. FaithfulBand(p.band, disk, writes)
    BY <1>1, <2>1 DEF Keeping
  <2> HIDE DEF p
  <2>3. Describing'
    BY <1>1, <2>1, <2>2 DEF Describing, Quiet, FaithfulBand, Faithful
  <2> QED
    BY <1>1, <2>1, <2>3, PassMoves
<1>3. CASE ~Reusable
  <2> DEFINE p == [pass EXCEPT !.at = "hash", !.todo = Files]
  <2>1. /\ pass' = p /\ p \in PassType /\ p.at = "hash" /\ p.now = pass.now /\ p.issued = pass.issued
        /\ p.cached = pass.cached /\ p.band = pass.band /\ p.todo = Files
    BY <1>1, <1>3 DEF Compare, PassType, Steps
  <2> HIDE DEF p
  <2>2. Describing'
    BY <1>1, <2>1 DEF Describing, Quiet
  <2> QED
    BY <1>1, <2>1, <2>2, PassMoves
<1> QED
  BY <1>2, <1>3

\* The file that is hashed has the version of its stat, or that version is
\* gone for good.
LEMMA HashFileKeeps ==
    ASSUME PublicationInv, NEW f \in Files, HashFile(f) PROVE PublicationInv'
<1>1. PublicationTypes /\ Describing /\ OnlyPass /\ Quiet /\ pass.at = "hash" /\ pass \in PassType
  BY DEF PublicationInv, HashFile, OnlyPass, PublicationTypes, PassType
<1>2. CASE NotPublishable
  BY <1>1, <1>2, NotPublishableKeeps
<1>3. CASE Hashed(f)
  <2> DEFINE p == [pass EXCEPT !.band.hash[f] = disk[f], !.todo = @ \ {f}]
  <2>1. /\ pass.band \in Band /\ pass.band.hash \in Version /\ pass.band.stat \in Version
        /\ disk[f] \in Nat /\ pass.todo \subseteq Files
    BY <1>1 DEF PassType, PublicationTypes, Band, Version
  <2>2. /\ pass' = p /\ p.at = "hash" /\ p.now = pass.now /\ p.issued = pass.issued
        /\ p.cached = pass.cached /\ p.todo = pass.todo \ {f} /\ p.records = pass.records
        /\ p.band = [pass.band EXCEPT !.hash[f] = disk[f]]
    BY <1>1, <1>3 DEF Hashed, PassType
  <2>3. p.band \in Band /\ p.band.stat = pass.band.stat /\ p.band.hash = [pass.band.hash EXCEPT ![f] = disk[f]]
    BY <2>1, <2>2 DEF Band, Version
  <2>4. p \in PassType
    BY <1>1, <2>1, <2>2, <2>3 DEF PassType
  <2>5. Faithful(p.band.stat[f], p.band.hash[f], disk[f], writes)
    BY <1>1, <2>1, <2>3 DEF Describing, Faithful, Version
  <2>6. \A g \in Files \ p.todo : Faithful(p.band.stat[g], p.band.hash[g], disk[g], writes)
    BY <1>1, <2>1, <2>2, <2>3, <2>5 DEF Describing, Version
  <2> HIDE DEF p
  <2>7. Describing'
    BY <1>1, <2>2, <2>3, <2>6 DEF Describing, Quiet, Faithful
  <2> QED
    BY <1>1, <2>2, <2>4, <2>7, PassMoves
<1> QED
  BY <1>2, <1>3 DEF HashFile

LEMMA WriteTorrentKeeps == PublicationInv /\ WriteTorrent => PublicationInv'
<1> SUFFICES ASSUME PublicationInv, WriteTorrent PROVE PublicationInv'
  OBVIOUS
<1>1. /\ PublicationTypes /\ Describing /\ Issuing /\ Quiet /\ pass.at = "hash" /\ pass.todo = {}
      /\ pass' = [pass EXCEPT !.at = "sign"] /\ UNCHANGED <<state, publication, view>>
  BY DEF PublicationInv, WriteTorrent
<1>2. pass' \in PassType /\ pass'.at = "sign" /\ pass'.band = pass.band /\ pass'.cached = pass.cached
      /\ pass'.now = pass.now /\ pass'.issued = pass.issued
  BY <1>1 DEF PublicationTypes, PassType, Steps
<1>3. Describing'
  BY <1>1, <1>2 DEF Describing, Quiet, FaithfulBand, Faithful
<1>4. Issuing'
  BY <1>1, <1>2 DEF Issuing, Quiet
<1> QED
  BY <1>1, <1>2, <1>3, <1>4, PassKeeps DEF PublicationTypes

LEMMA ShowNothingKeeps == PublicationInv /\ ShowNothing => PublicationInv'
<1> SUFFICES ASSUME PublicationInv, ShowNothing PROVE PublicationInv'
  OBVIOUS
<1>1. /\ PublicationTypes /\ Describing /\ Issuing /\ Quiet /\ pass.at = "empty" /\ view' = NoDocument
      /\ pass' = [pass EXCEPT !.at = "last"] /\ UNCHANGED <<state, publication>>
  BY DEF PublicationInv, ShowNothing
<1>2. pass' \in PassType /\ pass'.at = "last" /\ pass'.band = pass.band /\ pass'.cached = pass.cached
      /\ pass'.now = pass.now /\ pass'.issued = pass.issued
  BY <1>1 DEF PublicationTypes, PassType, Steps
<1>3. Describing' /\ Issuing'
  BY <1>1, <1>2 DEF Describing, Issuing, Quiet
<1> QED
  BY <1>1, <1>2, <1>3, PassKeeps, NoBandFaithful DEF PublicationTypes

\* The document that is kept was issued no earlier than the state says.
LEMMA SignKeeps == PublicationInv /\ Sign => PublicationInv'
<1> SUFFICES ASSUME PublicationInv, Sign PROVE PublicationInv'
  OBVIOUS
<1>1. /\ PublicationTypes /\ Describing /\ Issuing /\ Quiet /\ pass.at = "sign" /\ UNCHANGED <<state, view>>
      /\ pass \in PassType /\ pass.now \in Nat /\ pass.issued \in Nat /\ publication.issued \in Nat
  BY DEF PublicationInv, Sign, PublicationTypes, PassType, Document
<1>2. /\ pass' \in PassType /\ pass'.at = "save" /\ pass'.band = pass.band /\ pass'.cached = pass.cached
      /\ pass'.now = pass.now /\ pass'.issued \in {pass.issued, pass.now}
  BY <1>1 DEF Sign, PassType, Steps
<1>3. Describing'
  BY <1>1, <1>2 DEF Describing, Quiet, FaithfulBand, Faithful
<1>4. CASE Unchanged /\ pass'.issued = pass.issued /\ UNCHANGED publication
  <2>1. pass.now - publication.issued < Half
    BY <1>1, <1>4, PublicationAssumption DEF Unchanged, Fresh, Issuing
  <2>2. Issuing'
    BY <1>1, <1>2, <1>4, <2>1 DEF Issuing, Quiet
  <2> QED
    BY <1>1, <1>2, <1>3, <1>4, <2>2, PassKeeps DEF PublicationTypes
<1>5. CASE publication' = Described /\ pass'.issued = pass.now
  <2>1. publication' \in Document /\ publication'.issued = pass.now
    BY <1>1, <1>5 DEF Described, Document, PassType
  <2>2. Issuing'
    BY <1>1, <1>2, <1>5, <2>1, PublicationAssumption DEF Issuing, Quiet, PublicationTypes
  <2> QED
    BY <1>1, <1>2, <1>3, <2>1, <2>2, PassKeeps DEF PublicationTypes
<1> QED
  BY <1>1, <1>4, <1>5 DEF Sign, PassType

LEMMA SaveStateKeeps == PublicationInv /\ SaveState => PublicationInv'
<1> SUFFICES ASSUME PublicationInv, SaveState PROVE PublicationInv'
  OBVIOUS
<1>1. /\ PublicationTypes /\ Describing /\ Issuing /\ Quiet /\ pass.at \in {"save", "last"}
      /\ UNCHANGED <<publication, view>> /\ pass \in PassType
      /\ state' = [band |-> pass.band, issued |-> pass.issued]
  BY DEF PublicationInv, SaveState, PublicationTypes, PassType, IssuedAt
<1>2. FaithfulBand(pass.band, disk, writes)
  BY <1>1, NoBandFaithful DEF Describing
<1>3. state' \in [band : Band, issued : Nat] /\ state'.band = pass.band /\ state'.issued = pass.issued
  BY <1>1 DEF PassType
<1>4. CASE pass.at = "save" /\ pass' = [pass EXCEPT !.at = "show"]
  <2>1. pass' \in PassType /\ pass'.at = "show" /\ pass'.band = pass.band /\ pass'.cached = pass.cached
        /\ pass'.now = pass.now /\ pass'.issued = pass.issued
    BY <1>1, <1>4 DEF PassType, Steps
  <2>2. Describing'
    BY <1>1, <1>2, <2>1 DEF Describing, Quiet, FaithfulBand, Faithful
  <2>3. Issuing'
    BY <1>1, <1>3, <1>4, <2>1 DEF Issuing, Quiet
  <2> QED
    BY <1>1, <1>2, <1>3, <2>1, <2>2, <2>3, PassKeeps DEF PublicationTypes
<1>5. CASE pass' = Asleep
  <2>1. Asleep.at = "idle" /\ Asleep.issued = 0 /\ Asleep.cached = NoBand /\ Asleep.band = NoBand
    BY DEF Asleep
  <2>2. Describing' /\ Issuing'
    BY <1>1, <1>3, <1>5, <2>1 DEF Describing, Issuing, Quiet, PublicationTypes, Document
  <2> QED
    BY <1>1, <1>2, <1>3, <1>5, <2>1, <2>2, PassKeeps, NoBandFaithful DEF PublicationTypes
<1> QED
  BY <1>1, <1>4, <1>5 DEF SaveState

LEMMA ShowKeeps == PublicationInv /\ Show => PublicationInv'
<1> SUFFICES ASSUME PublicationInv, Show PROVE PublicationInv'
  OBVIOUS
<1>1. /\ PublicationTypes /\ Describing /\ Issuing /\ Quiet /\ pass.at = "show" /\ pass \in PassType
      /\ UNCHANGED <<state, publication>> /\ view' = [publication EXCEPT !.band = pass.band]
      /\ pass' = [pass EXCEPT !.at = "clean"]
  BY DEF PublicationInv, Show, PublicationTypes, PassType
<1>2. view' \in Document /\ view'.band = pass.band /\ FaithfulBand(pass.band, disk, writes)
  BY <1>1 DEF PublicationTypes, Document, PassType, Describing
<1>3. pass' \in PassType /\ pass'.at = "clean" /\ pass'.band = pass.band /\ pass'.cached = pass.cached
      /\ pass'.now = pass.now /\ pass'.issued = pass.issued
  BY <1>1 DEF PassType, Steps
<1>4. Describing'
  BY <1>1, <1>2, <1>3 DEF Describing, Quiet, FaithfulBand, Faithful
<1>5. Issuing'
  BY <1>1, <1>3 DEF Issuing, Quiet
<1> QED
  BY <1>1, <1>2, <1>3, <1>4, <1>5, PassKeeps DEF PublicationTypes

\* A pass that ends, or a process that is restarted.
LEMMA AsleepKeeps ==
    ASSUME PublicationInv, Quiet, UNCHANGED <<state, publication, view>>, pass' = Asleep
    PROVE  PublicationInv'
<1>1. PublicationTypes /\ Describing /\ Issuing
  BY DEF PublicationInv
<1>2. Asleep.at = "idle" /\ Asleep.issued = 0 /\ Asleep.cached = NoBand /\ Asleep.band = NoBand
  BY DEF Asleep
<1>3. Describing' /\ Issuing'
  BY <1>1, <1>2 DEF Describing, Issuing, Quiet, PublicationTypes, Document
<1> QED
  BY <1>1, <1>2, <1>3, PassKeeps, NoBandFaithful DEF PublicationTypes

LEMMA WriteFailsKeeps == PublicationInv /\ PassFails => PublicationInv'
<1> SUFFICES ASSUME PublicationInv, PassFails PROVE PublicationInv'
  OBVIOUS
<1>1. PublicationTypes /\ Describing /\ Issuing /\ Keeping /\ Reading
      /\ UNCHANGED <<disk, writes, now, state, publication, view, reader>>
  BY DEF PublicationInv, PassFails
<1>2. CASE pass' = Asleep
  <2>1. /\ Asleep.at = "idle" /\ Asleep.issued = 0 /\ Asleep.cached = NoBand /\ Asleep.band = NoBand
        /\ Asleep \in PassType /\ FaithfulBand(NoBand, disk, writes)
    BY <1>1, NoBandFaithful DEF Asleep
  <2>2. PublicationTypes' /\ Describing' /\ Issuing'
    BY <1>1, <1>2, <2>1 DEF Describing, Issuing, PublicationTypes, PassType, Document
  <2>3. Keeping' /\ Reading'
    BY <1>1, <1>2, <2>1 DEF Keeping, Reading, FaithfulBand, Faithful, ServedAsHashed
  <2> QED
    BY <2>2, <2>3 DEF PublicationInv
<1>3. CASE pass.at = "hash" /\ NotPublishable
  <2>1. /\ pass' \in PassType /\ pass'.at = "empty" /\ pass'.now = pass.now /\ pass'.issued = pass.issued
        /\ pass'.cached = pass.cached /\ pass'.band = NoBand
    BY <1>1, <1>3, NoBandFaithful DEF NotPublishable, PublicationTypes, PassType, Steps
  <2>2. PublicationTypes' /\ Describing' /\ Issuing'
    BY <1>1, <1>3, <2>1 DEF Describing, Issuing, PublicationTypes, PassType
  <2>3. Keeping' /\ Reading'
    BY <1>1, <2>1 DEF Keeping, Reading, FaithfulBand, Faithful, ServedAsHashed
  <2> QED
    BY <2>2, <2>3 DEF PublicationInv
<1> QED
  BY <1>2, <1>3 DEF PassFails

LEMMA PublisherCrashKeeps == PublicationInv /\ PublisherCrash => PublicationInv'
<1> SUFFICES ASSUME PublicationInv, PublisherCrash PROVE PublicationInv'
  OBVIOUS
<1>1. /\ PublicationTypes /\ Describing /\ Issuing /\ Keeping
      /\ UNCHANGED <<disk, writes, now, state, publication>>
      /\ pass' = Asleep /\ view' = NoDocument /\ reader' = NoReader
  BY DEF PublicationInv, PublisherCrash
<1>2. /\ Asleep.at = "idle" /\ Asleep.issued = 0 /\ Asleep.cached = NoBand /\ Asleep.band = NoBand
      /\ Asleep \in PassType /\ NoDocument \in Document /\ NoDocument.band = NoBand
      /\ FaithfulBand(NoBand, disk, writes)
  BY <1>1, NoBandFaithful DEF Asleep
<1>3. PublicationTypes'
  BY <1>1, <1>2 DEF PublicationTypes, PassType, NoReader, Files, Absent
<1>4. Describing' /\ Issuing'
  BY <1>1, <1>2 DEF Describing, Issuing, PublicationTypes, Document
<1>5. Keeping' /\ Reading'
  BY <1>1, <1>2 DEF Keeping, Reading, FaithfulBand, Faithful, ServedAsHashed, NoReader
<1> QED
  BY <1>3, <1>4, <1>5 DEF PublicationInv

-----------------------------------------------------------------------------
(* Readers.                                                                *)

LEMMA ReaderKeeps ==
    ASSUME PublicationInv, OnlyReader, Reading',
           reader' \in [at : {"none", "taken", "body"}, file : Files, stat : Nat, hash : Nat, bytes : Nat]
    PROVE  PublicationInv'
BY DEF PublicationInv, OnlyReader, publisher, PublicationTypes, Describing, Keeping, Issuing,
       FaithfulBand, Faithful

LEMMA NoReaderKeeps ==
    ASSUME PublicationInv, OnlyReader, reader' = NoReader PROVE PublicationInv'
<1>1. Reading'
  BY DEF NoReader, Reading, ServedAsHashed
<1> QED
  BY <1>1, ReaderKeeps DEF NoReader, Files, Absent

LEMMA TakeEntryKeeps ==
    ASSUME PublicationInv, NEW f \in Files, TakeEntry(f) PROVE PublicationInv'
<1>1. /\ PublicationTypes /\ Keeping /\ OnlyReader /\ UNCHANGED <<disk, writes>>
      /\ reader' = [at |-> "taken", file |-> f, stat |-> view.band.stat[f],
                    hash |-> view.band.hash[f], bytes |-> Absent]
  BY DEF PublicationInv, TakeEntry, OnlyReader
<1>2. view.band.stat[f] \in Nat /\ view.band.hash[f] \in Nat
  BY <1>1 DEF PublicationTypes, Document, Band, Version
<1>3. Reading'
  BY <1>1, <1>2 DEF Reading, Keeping, FaithfulBand, Faithful, ServedAsHashed
<1> QED
  BY <1>1, <1>2, <1>3, ReaderKeeps DEF Absent

\* The time on disk is the one that was hashed, so these are the bytes.
LEMMA OpenFileKeeps == PublicationInv /\ OpenFile => PublicationInv'
<1> SUFFICES ASSUME PublicationInv, OpenFile PROVE PublicationInv'
  OBVIOUS
<1>1. PublicationTypes /\ Reading /\ OnlyReader /\ reader.at = "taken"
  BY DEF PublicationInv, OpenFile
<1>2. CASE reader' = NoReader
  BY <1>1, <1>2, NoReaderKeeps
<1>3. CASE Matches /\ reader' = [reader EXCEPT !.at = "body", !.bytes = disk[reader.file]]
  <2>1. reader.file \in Files /\ disk[reader.file] \in Nat /\ disk[reader.file] = reader.hash
    BY <1>1, <1>3 DEF Reading, Faithful, Matches, PublicationTypes, Version
  <2>2. Reading'
    BY <1>1, <1>3, <2>1 DEF Reading, ServedAsHashed, PublicationTypes
  <2> QED
    BY <1>1, <1>3, <2>1, <2>2, ReaderKeeps DEF PublicationTypes
<1> QED
  BY <1>2, <1>3 DEF OpenFile

-----------------------------------------------------------------------------
LEMMA StutterKeeps == PublicationInv /\ UNCHANGED publishing => PublicationInv'
BY DEF PublicationInv, publishing, publisher, PublicationTypes, Describing, Keeping, Reading,
       Issuing, FaithfulBand, Faithful, ServedAsHashed

LEMMA PublicationStep == PublicationInv /\ [PublicationNext]_publishing => PublicationInv'
<1> SUFFICES ASSUME PublicationInv, [PublicationNext]_publishing PROVE PublicationInv'
  OBVIOUS
<1>1. CASE Begin
  BY <1>1, BeginKeeps
<1>2. CASE ReadManifest
  BY <1>2, ReadManifestKeeps
<1>3. CASE Compare
  BY <1>3, CompareKeeps
<1>4. CASE WriteTorrent
  BY <1>4, WriteTorrentKeeps
<1>5. CASE ShowNothing
  BY <1>5, ShowNothingKeeps
<1>6. CASE Sign
  BY <1>6, SignKeeps
<1>7. CASE SaveState
  BY <1>7, SaveStateKeeps
<1>8. CASE Show
  BY <1>8, ShowKeeps
<1>9. CASE Clean
  BY <1>9, AsleepKeeps DEF Clean
<1>10. ASSUME NEW f \in Files, Stat(f) PROVE PublicationInv'
  BY <1>10, StatKeeps
<1>11. ASSUME NEW f \in Files, HashFile(f) PROVE PublicationInv'
  BY <1>11, HashFileKeeps
<1>12. CASE PassFails
  BY <1>12, WriteFailsKeeps
<1>13. CASE PublisherCrash
  BY <1>13, PublisherCrashKeeps
<1>14. CASE Tock
  BY <1>14, TockKeeps
<1>15. CASE OpenFile
  BY <1>15, OpenFileKeeps
<1>16. CASE EndBody
  BY <1>16, NoReaderKeeps DEF EndBody
<1>17. ASSUME NEW f \in Files, Operate(f) PROVE PublicationInv'
  BY <1>17, OperateKeeps
<1>18. ASSUME NEW f \in Files, TakeEntry(f) PROVE PublicationInv'
  BY <1>18, TakeEntryKeeps
<1>19. CASE UNCHANGED publishing
  BY <1>19, StutterKeeps
<1> QED
  BY <1>1, <1>2, <1>3, <1>4, <1>5, <1>6, <1>7, <1>8, <1>9, <1>10, <1>11, <1>12, <1>13, <1>14,
     <1>15, <1>16, <1>17, <1>18, <1>19 DEF PublicationNext, PublisherStep

LEMMA PublicationInvariant == PublicationSpec => []PublicationInv
BY PublicationStarts, PublicationStep, PTL DEF PublicationSpec

\* A body has the bytes of the digest it is served under, in every state.
THEOREM ServedAlwaysAsHashed == PublicationSpec => []ServedAsHashed
<1>1. PublicationInv => ServedAsHashed
  BY DEF PublicationInv, Reading
<1> QED
  BY <1>1, PublicationInvariant, PTL

LEMMA StepRenews == PublicationInv /\ [PublicationNext]_publishing => [Renewed]_publishing
<1> SUFFICES ASSUME PublicationInv, PublicationNext, view' \notin {view, NoDocument}
             PROVE  pass.now - view'.issued < Half
  BY DEF Renewed
<1>1. CASE Show
  BY <1>1 DEF Show, PublicationInv, PublicationTypes, Document, Issuing
<1>2. CASE ~Show
  <2>1. view' \in {view, NoDocument}
    BY <1>2 DEF PublicationNext, PublisherStep, Begin, ReadManifest, Compare, WriteTorrent, ShowNothing,
       Sign, SaveState, Clean, Stat, HashFile, PassFails, PublisherCrash, Tock, OpenFile, EndBody,
       Operate, TakeEntry, OnlyPass, OnlyReader, publisher
  <2> QED
    BY <2>1
<1> QED
  BY <1>1, <1>2

\* Whatever a pass puts before the routes was not halfway through its time to
\* live when the pass began.
THEOREM PassAlwaysRenews == PublicationSpec => PassRenews
<1>1. PublicationInv /\ [PublicationNext]_publishing => [Renewed]_publishing
  BY StepRenews
<1> QED
  BY <1>1, PublicationInvariant, PTL DEF PublicationSpec, PassRenews

\* Both: the bytes under a digest, and the age of a document at the start of the
\* pass that shows it.
THEOREM PublicationAlwaysSound == PublicationSpec => PublicationSound
BY ServedAlwaysAsHashed, PassAlwaysRenews, PTL DEF PublicationSound, PassRenews

-----------------------------------------------------------------------------
(* Responses and the spool.                                                *)

RequestPhases == {"new", "retrieving", "body", "ended", "cut"}
Clocks == [expires : Nat, total : Nat, wake : Nat]

BodyTypes ==
    /\ phase \in [Request -> RequestPhases]
    /\ clock \in [Request -> Clocks] /\ quiet \in [Request -> Nat]

\* A deadline is the idle time after the last read, or the end of the total
\* time.
DeadlineKept ==
    \A r \in Request : phase[r] = "body" =>
        clock[r].expires + quiet[r] >= Idle \/ clock[r].expires = clock[r].total

StallInv == BodyTypes /\ DeadlineKept

\* What one step may cut.
Stalled ==
    \A r \in Request : phase[r] = "body" /\ phase'[r] = "cut" => quiet[r] >= Idle \/ clock[r].total = 0

\* Phases move on and clocks stand still: nothing but a body that is overdue
\* is cut.
LEMMA BodiesFrame ==
    ASSUME StallInv, clock' = clock, quiet' = quiet, phase' \in [Request -> RequestPhases],
           \A r \in Request : phase'[r] = "body" => phase[r] = "body",
           \A r \in Request : phase'[r] = "cut" /\ phase[r] = "body" => Expired(r)
    PROVE  StallInv' /\ Stalled
<1>1. StallInv'
  BY DEF StallInv, BodyTypes, DeadlineKept
<1>2. Stalled
  BY ServingAssumption DEF StallInv, BodyTypes, DeadlineKept, Stalled, Expired, Clocks
<1> QED
  BY <1>1, <1>2

\* One body gets another deadline.
LEMMA BodyMoves ==
    ASSUME StallInv, NEW r \in Request, NEW c \in Clocks, NEW q \in Nat,
           phase' = phase \/ phase' = [phase EXCEPT ![r] = "body"],
           clock' = [clock EXCEPT ![r] = c], quiet' = [quiet EXCEPT ![r] = q],
           c.expires + q >= Idle \/ c.expires = c.total \/ phase'[r] # "body"
    PROVE  StallInv' /\ Stalled
<1>1. StallInv'
  BY DEF StallInv, BodyTypes, DeadlineKept, RequestPhases
<1>2. Stalled
  BY DEF StallInv, BodyTypes, Stalled
<1> QED
  BY <1>1, <1>2

LEMMA DeadlineFits ==
    ASSUME NEW t \in Nat
    PROVE  Deadline(t) \in Nat /\ (Deadline(t) >= Idle \/ Deadline(t) = t)
BY ServingAssumption DEF Deadline, Less

LEMMA TicksKeep == ASSUME StallInv, Tick PROVE StallInv' /\ Stalled
<1>1. /\ phase' = phase
      /\ clock' = [r \in Request |->
                     [expires |-> Down(clock[r].expires), total |-> Down(clock[r].total),
                      wake |-> Down(clock[r].wake)]]
      /\ quiet' = [r \in Request |-> IF phase[r] = "body" THEN quiet[r] + 1 ELSE quiet[r]]
  BY DEF Tick
<1>2. \A n \in Nat : Down(n) \in Nat /\ Down(n) + 1 >= n
  BY DEF Down
<1>3. BodyTypes'
  BY <1>1, <1>2 DEF StallInv, BodyTypes, Clocks
<1>4. DeadlineKept'
  <2> SUFFICES ASSUME NEW r \in Request, phase[r] = "body"
               PROVE  clock'[r].expires + quiet'[r] >= Idle \/ clock'[r].expires = clock'[r].total
    BY <1>1 DEF DeadlineKept
  <2>1. /\ clock'[r].expires = Down(clock[r].expires) /\ clock'[r].total = Down(clock[r].total)
        /\ quiet'[r] = quiet[r] + 1 /\ quiet[r] \in Nat /\ clock[r].expires \in Nat
    BY <1>1 DEF StallInv, BodyTypes, Clocks
  <2>2. Down(clock[r].expires) \in Nat /\ Down(clock[r].expires) + 1 >= clock[r].expires
    BY <1>2, <2>1
  <2> QED
    BY <2>1, <2>2, ServingAssumption DEF StallInv, DeadlineKept
<1> QED
  BY <1>1, <1>3, <1>4 DEF StallInv, Stalled

LEMMA ServingStarts == ServingInit => StallInv
BY DEF ServingInit, StallInv, BodyTypes, DeadlineKept, RequestPhases, Clocks

LEMMA ServingKeeps == ASSUME StallInv, ServingNext PROVE StallInv' /\ Stalled
<1>0. phase \in [Request -> RequestPhases] /\ clock \in [Request -> Clocks] /\ quiet \in [Request -> Nat]
  BY DEF StallInv, BodyTypes
<1>1. ASSUME UNCHANGED <<phase, clock, quiet>> PROVE StallInv' /\ Stalled
  BY <1>0, <1>1, BodiesFrame
<1>2. CASE RetrievalStep
  <2>1. CASE UNCHANGED bodies
    BY <1>1, <2>1 DEF bodies
  <2>2. CASE Fail(0)
    BY <1>0, <2>2, BodiesFrame DEF Fail, FailRequests, RequestPhases
  <2> QED
    BY <1>2, <2>1, <2>2 DEF RetrievalStep, Schedule, ScanJoins, ScanKeeps, JobEnds, OrphanEnds,
       NewWriter, Created, Finish
<1>3. CASE FetchFails \/ WriteFails
  BY <1>0, <1>3, BodiesFrame DEF FetchFails, WriteFails, Fail, FailRequests, RequestPhases
<1>4. CASE ScanFails
  BY <1>1, <1>4 DEF ScanFails, bodies
<1>5. ASSUME NEW r \in Request, GiveUp(r) \/ ReadFails(r) PROVE StallInv' /\ Stalled
  BY <1>0, <1>5, BodiesFrame DEF GiveUp, ReadFails, RequestPhases
<1>6. CASE Tick
  BY <1>6, TicksKeep
<1>7. ASSUME NEW r \in Request, RequestStep(r) PROVE StallInv' /\ Stalled
  <2>1. CASE RequestJoins(r)
    BY <1>1, <2>1 DEF RequestJoins, bodies
  <2>2. CASE NoBody(r)
    BY <1>0, <2>2, BodiesFrame DEF NoBody, RequestPhases
  <2>3. CASE Open(r)
    <3>1. Deadline(Total) \in Nat /\ (Deadline(Total) >= Idle \/ Deadline(Total) = Total)
      BY DeadlineFits, ServingAssumption
    <3>2. PICK c : c = [expires |-> Deadline(Total), total |-> Total, wake |-> Deadline(Total)]
      OBVIOUS
    <3>3. c \in Clocks /\ (c.expires + 0 >= Idle \/ c.expires = c.total)
      BY <3>1, <3>2, ServingAssumption DEF Clocks
    <3>4. /\ phase' = [phase EXCEPT ![r] = "body"] /\ clock' = [clock EXCEPT ![r] = c]
          /\ quiet' = [quiet EXCEPT ![r] = 0]
      BY <2>3, <3>2 DEF Open
    <3> QED
      BY <3>3, <3>4, BodyMoves
  <2> QED
    BY <1>7, <2>1, <2>2, <2>3 DEF RequestStep
<1>8. ASSUME NEW r \in Request, BodyStep(r) PROVE StallInv' /\ Stalled
  <2>1. CASE Watchdog(r)
    BY <1>0, <2>1, BodiesFrame DEF Watchdog, Close, Overdue, RequestPhases
  <2>2. CASE WatchdogWaits(r)
    <3>1. PICK c : c = [clock[r] EXCEPT !.wake = AtDeadline(r)]
      OBVIOUS
    <3>2. c \in Clocks /\ c.expires = clock[r].expires /\ c.total = clock[r].total
      BY <1>0, <3>1 DEF Clocks, AtDeadline
    <3>3. /\ phase' = phase /\ clock' = [clock EXCEPT ![r] = c] /\ phase[r] = "body"
          /\ quiet' = [quiet EXCEPT ![r] = quiet[r]] /\ quiet[r] \in Nat
      BY <1>0, <2>2, <3>1 DEF WatchdogWaits
    <3>4. c.expires + quiet[r] >= Idle \/ c.expires = c.total
      BY <3>2, <3>3 DEF StallInv, DeadlineKept
    <3> QED
      BY <3>2, <3>3, <3>4, BodyMoves
  <2>3. CASE ReadEnds(r)
    BY <1>1, <2>3 DEF ReadEnds
  <2> QED
    BY <1>8, <2>1, <2>2, <2>3 DEF BodyStep
<1>9. ASSUME NEW r \in Request, ClientStep(r) PROVE StallInv' /\ Stalled
  <2>1. CASE Admit(r)
    BY <1>0, <2>1, BodiesFrame DEF Admit, RequestPhases
  <2>2. CASE PollExpired(r) \/ PollEnds(r) \/ ClientDrops(r)
    BY <1>0, <2>2, BodiesFrame DEF PollExpired, PollEnds, ClientDrops, Close, RequestPhases
  <2>3. CASE PollStarts(r)
    BY <1>1, <2>3 DEF PollStarts
  <2>4. CASE PollReads(r)
    <3>1. clock[r].total \in Nat
      BY <1>0 DEF Clocks
    <3>2. PICK c : c = [clock[r] EXCEPT !.expires = Deadline(clock[r].total)]
      OBVIOUS
    <3>3. c \in Clocks /\ (c.expires + 0 >= Idle \/ c.expires = c.total)
      BY <1>0, <3>1, <3>2, DeadlineFits DEF Clocks
    <3>4. /\ phase' = phase /\ clock' = [clock EXCEPT ![r] = c]
          /\ quiet' = [quiet EXCEPT ![r] = 0]
      BY <1>0, <2>4, <3>2 DEF PollReads
    <3> QED
      BY <3>3, <3>4, BodyMoves
  <2> QED
    BY <1>9, <2>1, <2>2, <2>3, <2>4 DEF ClientStep
<1> QED
  BY <1>2, <1>3, <1>4, <1>5, <1>6, <1>7, <1>8, <1>9 DEF ServingNext, Fault

\* A body is cut, by its watchdog or at its next read, only when nobody has
\* read from it for the idle time, or at the end of the total time.
THEOREM OnlyStallsCut == ServingSpec => StallOnly
<1>1. StallInv /\ [ServingNext]_serving => StallInv' /\ [Stalled]_serving
  <2>1. StallInv /\ UNCHANGED serving => StallInv'
    BY DEF serving, bodies, StallInv, BodyTypes, DeadlineKept
  <2> QED
    BY <2>1, ServingKeeps
<1> QED
  BY <1>1, ServingStarts, PTL DEF ServingSpec, StallOnly, Stalled

-----------------------------------------------------------------------------
(* The peer registry: lists in order.                                      *)

\* A relation that orders a finite set.
Orders(S, R) ==
    /\ IsFiniteSet(S)
    /\ \A x \in S : <<x, x>> \notin R
    /\ \A x, y, z \in S : <<x, y>> \in R /\ <<y, z>> \in R => <<x, z>> \in R
    /\ \A x, y \in S : x # y => <<x, y>> \in R \/ <<y, x>> \in R

Earlier(S, R, x) == {y \in S : <<y, x>> \in R}

LEMMA EarlierCounted ==
    ASSUME NEW S, NEW R, Orders(S, R), NEW x \in S
    PROVE  Cardinality(Earlier(S, R, x)) \in 0 .. Cardinality(S) - 1
<1>1. Earlier(S, R, x) \subseteq S /\ Earlier(S, R, x) # S
  BY DEF Earlier, Orders
<1>2. IsFiniteSet(S)
  BY DEF Orders
<1>3. /\ IsFiniteSet(Earlier(S, R, x))
      /\ Cardinality(Earlier(S, R, x)) <= Cardinality(S)
      /\ Cardinality(Earlier(S, R, x)) # Cardinality(S)
  BY <1>1, <1>2, FS_Subset
<1>4. Cardinality(S) \in Nat /\ Cardinality(Earlier(S, R, x)) \in Nat
  BY <1>2, <1>3, FS_CardinalityType
<1> QED
  BY <1>3, <1>4

LEMMA EarlierGrows ==
    ASSUME NEW S, NEW R, Orders(S, R), NEW x \in S, NEW y \in S, <<x, y>> \in R
    PROVE  Cardinality(Earlier(S, R, x)) < Cardinality(Earlier(S, R, y))
<1>1. Earlier(S, R, x) \subseteq Earlier(S, R, y)
  BY DEF Earlier, Orders
<1>2. Earlier(S, R, x) # Earlier(S, R, y)
  BY DEF Earlier, Orders
<1>3. IsFiniteSet(Earlier(S, R, y))
  <2>1. Earlier(S, R, y) \subseteq S /\ IsFiniteSet(S)
    BY DEF Earlier, Orders
  <2> QED
    BY <2>1, FS_Subset
<1>4. /\ Cardinality(Earlier(S, R, x)) <= Cardinality(Earlier(S, R, y))
      /\ Cardinality(Earlier(S, R, x)) # Cardinality(Earlier(S, R, y))
  BY <1>1, <1>2, <1>3, FS_Subset
<1> QED
  BY <1>4, EarlierCounted

\* Each number of elements comes before one of them.
LEMMA EveryPlaceTaken ==
    ASSUME NEW S, NEW R, Orders(S, R), NEW k \in 1 .. Cardinality(S)
    PROVE  \E x \in S : Cardinality(Earlier(S, R, x)) = k - 1
<1> DEFINE n == Cardinality(S)
           f == [x \in S |-> Cardinality(Earlier(S, R, x))]
<1>1. IsFiniteSet(S) /\ n \in Nat
  BY FS_CardinalityType DEF Orders
<1>2. f \in [S -> 0 .. n - 1]
  BY EarlierCounted
<1>3. ASSUME NEW x \in S, NEW y \in S, f[x] = f[y] PROVE x = y
  <2> SUFFICES ASSUME x # y PROVE FALSE
    OBVIOUS
  <2>1. f[x] < f[y] \/ f[y] < f[x]
    BY EarlierGrows DEF Orders
  <2>2. f[x] \in Int /\ f[y] \in Int
    BY <1>1, <1>2
  <2> QED
    BY <1>3, <2>1, <2>2
<1>4. f \in Injection(S, 0 .. n - 1)
  BY <1>2, <1>3 DEF Injection, IsInjective
<1>5. IsFiniteSet(0 .. n - 1) /\ Cardinality(0 .. n - 1) = n
  <2>1. IsFiniteSet(0 .. n - 1) /\ Cardinality(0 .. n - 1) = IF 0 > n - 1 THEN 0 ELSE n - 1 - 0 + 1
    <3>1. n - 1 \in Int
      BY <1>1
    <3> HIDE DEF n
    <3> QED
      BY <3>1, FS_Interval
  <2> QED
    BY <1>1, <2>1
<1>6. f \in Surjection(S, 0 .. n - 1)
  BY <1>4, <1>5, FS_Injection
<1>7. k - 1 \in 0 .. n - 1
  BY <1>1
<1>8. PICK x \in S : f[x] = k - 1
  BY <1>6, <1>7 DEF Surjection
<1> QED
  BY <1>8

\* A list of a set has its elements, each after those that come before it.
Listed(S, R, L) ==
    /\ L \in [1 .. Cardinality(S) -> S] /\ Cardinality(S) \in Nat
    /\ \A x \in S : \E k \in DOMAIN L : L[k] = x
    /\ \A j, k \in DOMAIN L : j < k => <<L[j], L[k]>> \in R

LEMMA OrderLists == ASSUME NEW S, NEW R, Orders(S, R) PROVE Listed(S, R, InOrder(S, R))
<1> DEFINE n == Cardinality(S)
           L == InOrder(S, R)
<1>0. n \in Nat
  BY FS_CardinalityType DEF Orders
<1>1. L = [k \in 1 .. n |-> CHOOSE x \in S : Cardinality(Earlier(S, R, x)) = k - 1]
  BY DEF InOrder, Earlier
<1>2. ASSUME NEW k \in 1 .. n PROVE L[k] \in S /\ Cardinality(Earlier(S, R, L[k])) = k - 1
  <2>1. \E x \in S : Cardinality(Earlier(S, R, x)) = k - 1
    BY <1>2, EveryPlaceTaken
  <2>2. L[k] = CHOOSE x \in S : Cardinality(Earlier(S, R, x)) = k - 1
    BY <1>1, <1>2
  <2> QED
    BY <2>1, <2>2
<1>3. L \in [1 .. n -> S] /\ DOMAIN L = 1 .. n
  BY <1>1, <1>2
<1>4. ASSUME NEW x \in S PROVE \E k \in DOMAIN L : L[k] = x
  <2> DEFINE k == Cardinality(Earlier(S, R, x)) + 1
  <2>1. k \in 1 .. n /\ k - 1 = Cardinality(Earlier(S, R, x))
    <3>1. Cardinality(Earlier(S, R, x)) \in 0 .. n - 1
      BY EarlierCounted
    <3> QED
      BY <1>0, <3>1
  <2>2. L[k] \in S /\ Cardinality(Earlier(S, R, L[k])) = Cardinality(Earlier(S, R, x))
    BY <1>2, <2>1
  <2>3. L[k] = x
    <3>1. ASSUME NEW y \in S, y # x, Cardinality(Earlier(S, R, y)) = Cardinality(Earlier(S, R, x))
          PROVE  FALSE
      <4>1. \/ Cardinality(Earlier(S, R, x)) < Cardinality(Earlier(S, R, y))
            \/ Cardinality(Earlier(S, R, y)) < Cardinality(Earlier(S, R, x))
        BY <3>1, EarlierGrows DEF Orders
      <4>2. Cardinality(Earlier(S, R, x)) \in Int
        BY <2>1
      <4> QED
        BY <3>1, <4>1, <4>2
    <3> QED
      BY <2>2, <3>1
  <2> QED
    BY <1>3, <2>1, <2>3
<1>5. ASSUME NEW j \in 1 .. n, NEW k \in 1 .. n, j < k PROVE <<L[j], L[k]>> \in R
  <2>1. L[j] # L[k]
    BY <1>2, <1>5
  <2>2. CASE <<L[k], L[j]>> \in R
    <3>1. Cardinality(Earlier(S, R, L[k])) < Cardinality(Earlier(S, R, L[j]))
      BY <1>2, <1>5, <2>2, EarlierGrows
    <3> QED
      BY <1>2, <1>5, <3>1
  <2> QED
    BY <1>2, <1>5, <2>1, <2>2 DEF Orders
<1> QED
  BY <1>0, <1>3, <1>4, <1>5 DEF Listed

(* Costs are fractions, and lists of sources go by cost.                   *)

Fraction == Nat \X (Nat \ {0})

LEMMA Scaled == ASSUME NEW a \in Nat, NEW b \in Nat, NEW c \in Nat, a <= b PROVE a * c <= b * c
<1>1. PICK d \in Nat : b = a + d
  <2>1. b - a \in Nat /\ b = a + (b - a)
    OBVIOUS
  <2> QED
    BY <2>1
<1>2. b * c = a * c + d * c
  BY <1>1
<1>3. d * c \in Nat /\ a * c \in Nat
  BY <1>1
<1> QED
  BY <1>2, <1>3

LEMMA Unscaled ==
    ASSUME NEW a \in Nat, NEW b \in Nat, NEW c \in Nat \ {0}, a * c <= b * c
    PROVE  a <= b
<1> SUFFICES ASSUME b + 1 <= a PROVE FALSE
  OBVIOUS
<1>1. (b + 1) * c <= a * c
  BY Scaled
<1>2. (b + 1) * c = b * c + c
  OBVIOUS
<1>3. a * c \in Nat /\ b * c \in Nat
  OBVIOUS
<1> QED
  BY <1>1, <1>2, <1>3

LEMMA FractionsOrdered ==
    ASSUME NEW x \in Fraction, NEW y \in Fraction, NEW z \in Fraction, ~Under(y, x), ~Under(z, y)
    PROVE  ~Under(z, x)
<1> DEFINE a == x[1]
           b == x[2]
           c == y[1]
           d == y[2]
           e == z[1]
           f == z[2]
<1>1. a \in Nat /\ b \in Nat /\ c \in Nat /\ d \in Nat \ {0} /\ e \in Nat /\ f \in Nat
  BY DEF Fraction
<1>2. a * d <= c * b /\ c * f <= e * d
  BY <1>1 DEF Under
<1> SUFFICES a * f <= e * b
  BY <1>1 DEF Under
<1> HIDE DEF a, b, c, d, e, f
<1>3. (a * d) * f <= (c * b) * f
  BY <1>1, <1>2, Scaled
<1>4. (c * f) * b <= (e * d) * b
  BY <1>1, <1>2, Scaled
<1>5. (a * d) * f = (a * f) * d /\ (c * b) * f = (c * f) * b /\ (e * d) * b = (e * b) * d
  BY <1>1
<1>6. (a * f) * d <= (e * b) * d
  BY <1>1, <1>3, <1>4, <1>5
<1> QED
  BY <1>1, <1>6, Unscaled

Offer == [source : Nat, full : BOOLEAN, cost : Fraction]
ByCost(S) == {p \in S \X S : Cheaper(p[1], p[2])}

LEMMA UnderOneWay == ASSUME NEW x \in Fraction, NEW y \in Fraction, Under(x, y) PROVE ~Under(y, x)
<1> DEFINE a == x[1] * y[2]
           b == y[1] * x[2]
<1>1. a \in Nat /\ b \in Nat
  BY DEF Fraction
<1> QED
  BY <1>1 DEF Under

\* What comes before another costs no more.
LEMMA CheaperTells ==
    ASSUME NEW x \in Offer, NEW y \in Offer, Cheaper(x, y)
    PROVE  /\ x.full => y.full
           /\ x.full = y.full => ~Under(y.cost, x.cost)
<1>1. x.cost \in Fraction /\ y.cost \in Fraction /\ x.full \in BOOLEAN /\ y.full \in BOOLEAN
  BY DEF Offer
<1> QED
  BY <1>1, UnderOneWay DEF Cheaper, Even

LEMMA EvenTells ==
    ASSUME NEW x \in Offer, NEW y \in Offer, NEW z \in Offer, Even(x, z), Even(y, z)
    PROVE  Even(x, y) /\ Even(z, x) /\ Even(x, x)
<1>1. x.cost \in Fraction /\ y.cost \in Fraction /\ z.cost \in Fraction
  BY DEF Offer
<1>2. ~Under(x.cost, z.cost) /\ ~Under(z.cost, x.cost) /\ ~Under(y.cost, z.cost) /\ ~Under(z.cost, y.cost)
  BY DEF Even
<1>3. ~Under(x.cost, y.cost) /\ ~Under(y.cost, x.cost) /\ ~Under(x.cost, x.cost)
  BY <1>1, <1>2, FractionsOrdered
<1> QED
  BY <1>2, <1>3 DEF Even

\* Sources stand for their offers.
Single(S) == \A x, y \in S : x.source = y.source => x = y

LEMMA CostOrders == ASSUME NEW S, IsFiniteSet(S), S \subseteq Offer, Single(S) PROVE Orders(S, ByCost(S))
<1>1. \A x, y \in S : <<x, y>> \in ByCost(S) <=> Cheaper(x, y)
  BY DEF ByCost
<1>2. ASSUME NEW x \in S PROVE ~Cheaper(x, x)
  <2>1. x.cost \in Fraction /\ x.source \in Nat
    BY DEF Offer
  <2>2. ~Under(x.cost, x.cost)
    BY <2>1, UnderOneWay
  <2> QED
    BY <2>1, <2>2 DEF Cheaper
<1>3. ASSUME NEW x \in S, NEW y \in S, x # y PROVE Cheaper(x, y) \/ Cheaper(y, x)
  <2>1. x.source # y.source /\ x.source \in Nat /\ y.source \in Nat
    BY <1>3 DEF Single, Offer
  <2>2. x.source < y.source \/ y.source < x.source
    BY <2>1
  <2>3. x.full \in BOOLEAN /\ y.full \in BOOLEAN
    BY DEF Offer
  <2> QED
    BY <2>2, <2>3 DEF Cheaper, Even
<1>4. ASSUME NEW x \in S, NEW y \in S, NEW z \in S, Cheaper(x, y), Cheaper(y, z) PROVE Cheaper(x, z)
  <2>1. x \in Offer /\ y \in Offer /\ z \in Offer
    OBVIOUS
  <2>0. /\ x.full \in BOOLEAN /\ y.full \in BOOLEAN /\ z.full \in BOOLEAN
        /\ x.cost \in Fraction /\ y.cost \in Fraction /\ z.cost \in Fraction
        /\ x.source \in Nat /\ y.source \in Nat /\ z.source \in Nat
    BY <2>1 DEF Offer
  <2>2. /\ x.full => y.full
        /\ y.full => z.full
        /\ x.full = y.full => ~Under(y.cost, x.cost)
        /\ y.full = z.full => ~Under(z.cost, y.cost)
    BY <1>4, <2>1, CheaperTells
  <2>3. CASE x.full # z.full
    BY <2>0, <2>2, <2>3 DEF Cheaper
  <2>4. CASE x.full = z.full
    <3>1. x.full = y.full /\ y.full = z.full
      BY <2>0, <2>2, <2>4
    <3>2. ~Under(y.cost, x.cost) /\ ~Under(z.cost, y.cost)
      BY <2>2, <3>1
    <3>3. ~Under(z.cost, x.cost)
      BY <2>0, <3>2, FractionsOrdered
    <3>4. CASE Under(x.cost, z.cost)
      BY <2>4, <3>4 DEF Cheaper
    <3>5. CASE ~Under(x.cost, z.cost)
      <4>1. ~Under(x.cost, y.cost)
        BY <2>0, <3>2, <3>5, FractionsOrdered
      <4>2. ~Under(y.cost, z.cost)
        BY <2>0, <3>2, <3>5, FractionsOrdered
      <4>3. x.source < y.source /\ y.source < z.source
        BY <1>4, <3>1, <4>1, <4>2 DEF Cheaper
      <4>4. x.source < z.source
        BY <2>0, <4>3
      <4> QED
        BY <2>4, <3>3, <3>5, <4>4 DEF Cheaper, Even
    <3> QED
      BY <3>4, <3>5
  <2> QED
    BY <2>3, <2>4
<1>5. \A x \in S : <<x, x>> \notin ByCost(S)
  BY <1>1, <1>2
<1>6. \A x, y, z \in S : <<x, y>> \in ByCost(S) /\ <<y, z>> \in ByCost(S) => <<x, z>> \in ByCost(S)
  BY <1>1, <1>4
<1>7. \A x, y \in S : x # y => <<x, y>> \in ByCost(S) \/ <<y, x>> \in ByCost(S)
  BY <1>1, <1>3
<1> QED
  BY <1>5, <1>6, <1>7 DEF Orders

(* Equals stand together, and take turns.                                  *)

Together(E) == \A i, g \in E : \A j \in Nat : i < j /\ j < g => j \in E

LEMMA SpanOf ==
    ASSUME NEW E, E \subseteq Nat, IsFiniteSet(E), E # {}, Together(E)
    PROVE  /\ Min(E) \in Nat /\ Cardinality(E) \in Nat \ {0}
           /\ E = Min(E) .. (Min(E) + Cardinality(E) - 1)
<1>1. PICK f \in E : \A y \in E : f <= y
  BY LeastNatural
<1>2. PICK g \in E : \A y \in E : y <= g
  BY GreatestNatural
<1>3. Min(E) \in E /\ \A y \in E : Min(E) <= y
  BY <1>1 DEF Min
<1>4. Min(E) \in Nat /\ g \in Nat /\ Min(E) <= g
  BY <1>2, <1>3
<1> DEFINE m == Min(E)
<1>5. m \in E /\ m \in Nat /\ \A y \in E : m <= y
  BY <1>3, <1>4
<1>6. m <= g
  BY <1>4
<1> HIDE DEF m
<1>7. E = m .. g
  <2>1. ASSUME NEW j \in m .. g PROVE j \in E
    BY <1>2, <1>4, <1>5, <2>1 DEF Together
  <2>2. ASSUME NEW j \in E PROVE j \in m .. g
    BY <1>2, <1>4, <1>5, <2>2
  <2> QED
    BY <2>1, <2>2
<1>8. Cardinality(E) = g - m + 1
  <2>1. m \in Int /\ g \in Int
    BY <1>4, <1>5
  <2>2. Cardinality(m .. g) = IF m > g THEN 0 ELSE g - m + 1
    BY <2>1, FS_Interval
  <2> QED
    BY <1>4, <1>5, <1>6, <1>7, <2>2
<1>9. Cardinality(E) \in Nat \ {0} /\ E = m .. (m + Cardinality(E) - 1)
  BY <1>4, <1>5, <1>6, <1>7, <1>8
<1> QED
  BY <1>5, <1>9 DEF m

LEMMA SmallRemainder == \A c \in Nat \ {0} : \A r \in 0 .. c - 1 : r % c = r
BY SMTT(30)
LEMMA Remainders == \A c \in Nat \ {0} : \A x \in Int : x % c \in 0 .. c - 1
BY SMTT(30)

LEMMA TurnTaken ==
    ASSUME NEW E, E \subseteq Nat, IsFiniteSet(E), Together(E), NEW k \in E, NEW n \in Nat
    PROVE  Min(E) + ((k - Min(E) + n) % Cardinality(E)) \in E
<1>1. PICK m \in Nat, c \in Nat \ {0} : m = Min(E) /\ c = Cardinality(E) /\ E = m .. (m + c - 1)
  BY SpanOf
<1>2. k - m + n \in Int /\ m + c - 1 \in Int
  BY <1>1
<1>3. PICK r \in 0 .. c - 1 : r = (k - m + n) % c
  BY <1>2, Remainders
<1>4. m + r \in m .. (m + c - 1)
  BY <1>2, <1>3
<1> QED
  BY <1>1, <1>3, <1>4

\* Whoever is first among equals at the head of a list may be any of them.
LEMMA TurnReached ==
    ASSUME NEW E, NEW N \in Nat, E \subseteq 1 .. N, Together(E), 1 \in E, NEW k \in E
    PROVE  \E n \in 1 .. N : Min(E) + ((1 - Min(E) + n) % Cardinality(E)) = k
<1>0. IsFiniteSet(E) /\ E \subseteq Nat
  <2>1. IsFiniteSet(1 .. N)
    BY FS_Interval
  <2>2. IsFiniteSet(E)
    BY <2>1, FS_Subset
  <2> QED
    BY <2>2
<1>1. PICK m \in Nat, c \in Nat \ {0} : m = Min(E) /\ c = Cardinality(E) /\ E = m .. (m + c - 1)
  BY <1>0, SpanOf
<1>10. \A x : x \in E <=> x \in m .. (m + c - 1)
  BY <1>1
<1>2. m = 1
  <2>1. m \in E /\ 1 \in m .. (m + c - 1)
    BY <1>10
  <2> QED
    BY <2>1
<1>3. c \in 1 .. N /\ k \in 1 .. c
  <2>1. c \in m .. (m + c - 1) /\ k \in m .. (m + c - 1)
    BY <1>2, <1>10
  <2>2. c \in E
    BY <1>10, <2>1
  <2> QED
    BY <1>2, <2>1, <2>2
<1>4. CASE k = 1
  <2>1. (1 - m + c) % c = 0
    <3>1. 1 - m + c = c
      BY <1>1, <1>2
    <3>2. c % c = 0
      BY <1>1
    <3> QED
      BY <3>1, <3>2
  <2>2. m + ((1 - m + c) % c) = k
    BY <1>1, <1>2, <1>4, <2>1
  <2> QED
    BY <1>1, <1>3, <2>2
<1>5. CASE k # 1
  <2>1. k - 1 \in 1 .. N /\ k - 1 \in 0 .. c - 1
    BY <1>3, <1>5
  <2>2. (1 - m + (k - 1)) % c = k - 1
    <3>1. 1 - m + (k - 1) = k - 1
      BY <1>1, <1>2, <1>3
    <3>2. (k - 1) % c = k - 1
      <4>1. PICK r \in 0 .. c - 1 : r = k - 1
        BY <2>1
      <4>2. r % c = r
        BY SmallRemainder
      <4> QED
        BY <4>1, <4>2
    <3> QED
      BY <3>1, <3>2
  <2>3. m + ((1 - m + (k - 1)) % c) = k
    BY <1>1, <1>2, <1>3, <2>2
  <2> QED
    BY <1>1, <2>1, <2>3
<1> QED
  BY <1>4, <1>5

LEMMA EqualsTogether ==
    ASSUME NEW S, S \subseteq Offer, NEW L, Listed(S, ByCost(S), L), NEW k \in DOMAIN L
    PROVE  Together({j \in DOMAIN L : Even(L[j], L[k])})
<1> DEFINE E == {j \in DOMAIN L : Even(L[j], L[k])}
<1>1. PICK N \in Nat : DOMAIN L = 1 .. N /\ \A j \in 1 .. N : L[j] \in S
  BY DEF Listed
<1> SUFFICES ASSUME NEW i \in E, NEW g \in E, NEW j \in Nat, i < j, j < g PROVE j \in E
  BY DEF Together
<1>2. i \in 1 .. N /\ g \in 1 .. N /\ j \in 1 .. N
  BY <1>1
<1>3. Cheaper(L[i], L[j]) /\ Cheaper(L[j], L[g])
  <2>1. <<L[i], L[j]>> \in ByCost(S) /\ <<L[j], L[g]>> \in ByCost(S)
    BY <1>1, <1>2 DEF Listed
  <2> QED
    BY <2>1 DEF ByCost
<1>4. PICK x \in Offer, y \in Offer, z \in Offer, w \in Offer : x = L[i] /\ y = L[j] /\ z = L[g] /\ w = L[k]
  BY <1>1, <1>2
<1>5. Even(x, w) /\ Even(z, w) /\ Cheaper(x, y) /\ Cheaper(y, z)
  BY <1>3, <1>4
<1>6. /\ x.cost \in Fraction /\ y.cost \in Fraction /\ z.cost \in Fraction /\ w.cost \in Fraction
      /\ x.full \in BOOLEAN /\ y.full \in BOOLEAN /\ z.full \in BOOLEAN /\ w.full \in BOOLEAN
  BY DEF Offer
<1>7. /\ x.full => y.full
      /\ y.full => z.full
      /\ x.full = y.full => ~Under(y.cost, x.cost)
      /\ y.full = z.full => ~Under(z.cost, y.cost)
  BY <1>5, CheaperTells
<1>8. /\ x.full = w.full /\ z.full = w.full
      /\ ~Under(w.cost, x.cost) /\ ~Under(x.cost, w.cost)
      /\ ~Under(z.cost, w.cost) /\ ~Under(w.cost, z.cost)
  BY <1>5 DEF Even
<1>9. y.full = w.full /\ ~Under(y.cost, x.cost) /\ ~Under(z.cost, y.cost)
  BY <1>6, <1>7, <1>8
<1>10. ~Under(y.cost, w.cost)
  BY <1>6, <1>8, <1>9, FractionsOrdered
<1>11. ~Under(w.cost, y.cost)
  BY <1>6, <1>8, <1>9, FractionsOrdered
<1>12. Even(y, w)
  BY <1>9, <1>10, <1>11 DEF Even
<1> QED
  BY <1>1, <1>2, <1>4, <1>12

(* Every cost is probed.                                                   *)

\* The free ones are the first in a list.
LEMMA FreeFirst ==
    ASSUME NEW S, S \subseteq Offer, NEW L, Listed(S, ByCost(S), L), NEW k \in DOMAIN L, ~L[k].full
    PROVE  /\ Cardinality({j \in DOMAIN L : ~L[j].full}) \in Nat
           /\ k <= Cardinality({j \in DOMAIN L : ~L[j].full})
           /\ Cardinality({j \in DOMAIN L : ~L[j].full}) <= Cardinality(S)
<1> DEFINE F == {j \in DOMAIN L : ~L[j].full}
<1>1. PICK N \in Nat : N = Cardinality(S) /\ DOMAIN L = 1 .. N /\ \A j \in 1 .. N : L[j] \in Offer
  BY DEF Listed
<1>2. IsFiniteSet(1 .. N) /\ Cardinality(1 .. N) = N /\ IsFiniteSet(1 .. k) /\ Cardinality(1 .. k) = k
  <2>1. 1 \in Int /\ N \in Int /\ k \in Int /\ k >= 1 /\ N >= 1
    BY <1>1
  <2>2. Cardinality(1 .. N) = IF 1 > N THEN 0 ELSE N - 1 + 1
    BY <2>1, FS_Interval
  <2>3. Cardinality(1 .. k) = IF 1 > k THEN 0 ELSE k - 1 + 1
    BY <2>1, FS_Interval
  <2>4. IsFiniteSet(1 .. N) /\ IsFiniteSet(1 .. k)
    BY <2>1, FS_Interval
  <2> QED
    BY <2>1, <2>2, <2>3, <2>4
<1>3. 1 .. k \subseteq F
  <2> SUFFICES ASSUME NEW j \in 1 .. k, j # k PROVE ~L[j].full
    BY <1>1
  <2>1. j \in 1 .. N /\ k \in 1 .. N /\ j < k
    BY <1>1
  <2>2. Cheaper(L[j], L[k])
    <3>1. <<L[j], L[k]>> \in ByCost(S)
      BY <1>1, <2>1 DEF Listed
    <3> QED
      BY <3>1 DEF ByCost
  <2>3. L[j] \in Offer /\ L[k] \in Offer
    BY <1>1, <2>1
  <2> QED
    BY <2>2, <2>3, CheaperTells
<1>4. F \subseteq 1 .. N
  BY <1>1
<1> HIDE DEF F
<1>5. IsFiniteSet(F) /\ Cardinality(F) <= N
  BY <1>2, <1>4, FS_Subset
<1>6. k <= Cardinality(F) /\ Cardinality(F) \in Nat
  BY <1>2, <1>3, <1>5, FS_Subset, FS_CardinalityType
<1> QED
  BY <1>1, <1>5, <1>6 DEF F

\* The list in which the probe falls on a place.
LEMMA ProbeFalls ==
    ASSUME NEW a \in Nat, NEW k \in 1 .. a, PeersAssumption
    PROVE  \E n \in 0 .. ProbeEvery * a : n % ProbeEvery = 0 /\ Probe(n, a) = k
<1>1. PICK p \in Nat \ {0} : p = ProbeEvery
  BY DEF PeersAssumption
<1>2. PICK m \in Nat : m = a - k /\ m < a
  <2>1. a - k \in Nat /\ a - k < a
    OBVIOUS
  <2> QED
    BY <2>1
<1>3. p * m \in Nat /\ p * m <= p * a
  <2>1. m * p <= a * p
    BY <1>1, <1>2, Scaled
  <2> QED
    BY <1>1, <2>1
<1>4. (p * m) % p = 0 /\ (p * m) \div p = m
  BY <1>1
<1>5. m % a = m
  BY <1>2
<1>6. a - m = k
  BY <1>2
<1> QED
  BY <1>1, <1>3, <1>4, <1>5, <1>6 DEF Probe

LEMMA EveryCostProbed ==
    ASSUME PeersAssumption, NEW S, S \subseteq Offer, IsFiniteSet(S),
           NEW L, Listed(S, ByCost(S), L), NEW k \in DOMAIN L, ~L[k].full
    PROVE  \E n \in 0 .. ProbeEvery * Len(L), j \in DOMAIN L :
              Even(L[j], L[k]) /\ ChunkList(L, n)[1] = L[j].source
<1> DEFINE a == Cardinality({j \in DOMAIN L : ~L[j].full})
           evens == [i \in DOMAIN L |-> {j \in DOMAIN L : Even(L[j], L[i])}]
<1>1. PICK N \in Nat : /\ N = Cardinality(S) /\ DOMAIN L = 1 .. N /\ Len(L) = N
                       /\ \A j \in 1 .. N : L[j] \in Offer
  <2>1. PICK N \in Nat : N = Cardinality(S) /\ L \in [1 .. N -> S]
    BY DEF Listed
  <2>2. Len(L) = N
    BY <2>1
  <2> QED
    BY <2>1, <2>2
<1>2. a \in Nat /\ k \in 1 .. a /\ a <= N
  <2>1. a \in Nat /\ k <= a /\ a <= Cardinality(S)
    BY FreeFirst
  <2> HIDE DEF a
  <2>2. k \in 1 .. N
    BY <1>1
  <2> QED
    BY <1>1, <2>1, <2>2
<1> HIDE DEF a
<1>3. PICK n \in 0 .. ProbeEvery * a : n % ProbeEvery = 0 /\ Probe(n, a) = k
  BY <1>2, ProbeFalls
<1>4. n \in 0 .. ProbeEvery * Len(L) /\ n \in Nat
  <2>1. PICK p \in Nat : p = ProbeEvery
    BY DEF PeersAssumption
  <2>2. a * p <= N * p
    BY <1>1, <1>2, <2>1, Scaled
  <2>3. p * a <= p * N
    BY <1>1, <1>2, <2>1, <2>2
  <2>4. p * a \in Nat /\ p * N \in Nat
    BY <1>1, <1>2, <2>1
  <2> QED
    BY <1>1, <1>3, <2>1, <2>3, <2>4
<1> DEFINE E == evens[k]
           j == Min(E) + ((k - Min(E) + n) % Cardinality(E))
<1>5. E = {i \in DOMAIN L : Even(L[i], L[k])}
  OBVIOUS
<1>6. j \in E
  <2>1. Together(E)
    BY <1>5, EqualsTogether
  <2>2. E \subseteq Nat /\ IsFiniteSet(E)
    <3>1. E \subseteq 1 .. N /\ 1 \in Int /\ N \in Int
      BY <1>1
    <3>2. IsFiniteSet(1 .. N)
      BY <3>1, FS_Interval
    <3> HIDE DEF E
    <3>3. IsFiniteSet(E)
      BY <3>1, <3>2, FS_Subset
    <3> QED
      BY <3>1, <3>3
  <2>3. k \in E
    <3>1. L[k] \in Offer
      BY <1>1
    <3>2. L[k].cost \in Fraction
      BY <3>1 DEF Offer
    <3>3. ~Under(L[k].cost, L[k].cost)
      BY <3>2, UnderOneWay
    <3> QED
      BY <3>3 DEF Even
  <2> HIDE DEF E
  <2> QED
    BY <1>4, <2>1, <2>2, <2>3, TurnTaken
<1>7. j \in DOMAIN L /\ Even(L[j], L[k])
  BY <1>5, <1>6
<1>8. Rotated(L, n, evens)[k] = L[j].source
  BY DEF Rotated
<1>9. 1 \in DOMAIN L /\ DOMAIN Rotated(L, n, evens) = DOMAIN L
  BY <1>1 DEF Rotated
<1> HIDE DEF j, E
<1>10. ChunkList(L, n) = Swapped(Rotated(L, n, evens), k)
  <2>1. a > 0
    BY <1>2
  <2> QED
    BY <1>3, <2>1 DEF ChunkList, a
<1>11. Swapped(Rotated(L, n, evens), k)[1] = Rotated(L, n, evens)[k]
  <2>1. PICK f : f = Rotated(L, n, evens)
    OBVIOUS
  <2>2. 1 \in DOMAIN f /\ DOMAIN f = DOMAIN L
    BY <1>9, <2>1
  <2>3. [f EXCEPT ![1] = f[k], ![k] = f[1]][1] = f[k]
    BY <2>2
  <2> QED
    BY <2>1, <2>3 DEF Swapped
<1> QED
  BY <1>4, <1>7, <1>8, <1>10, <1>11

(* Nodes for a header.                                                     *)

Holder == [source : Nat, covered : BOOLEAN, weight : Nat]
ByWeight(S) == {p \in S \X S : Better(p[1], p[2])}

LEMMA WeightOrders == ASSUME NEW S, IsFiniteSet(S), S \subseteq Holder, Single(S) PROVE Orders(S, ByWeight(S))
<1>1. \A x, y \in S : <<x, y>> \in ByWeight(S) <=> Better(x, y)
  BY DEF ByWeight
<1>2. \A x \in S : x.source \in Nat /\ x.weight \in Nat /\ x.covered \in BOOLEAN
  BY DEF Holder
<1>3. \A x, y \in S : x.source = y.source => x = y
  BY DEF Single
<1>4. \A x \in S : ~Better(x, x)
  BY <1>2 DEF Better, Alike
<1>5. \A x, y, z \in S : Better(x, y) /\ Better(y, z) => Better(x, z)
  BY <1>2 DEF Better, Alike
<1>6. \A x, y \in S : x # y => Better(x, y) \/ Better(y, x)
  BY <1>2, <1>3 DEF Better, Alike
<1> HIDE DEF ByWeight
<1>7. \A x \in S : <<x, x>> \notin ByWeight(S)
  BY <1>1, <1>4
<1>8. \A x, y, z \in S : <<x, y>> \in ByWeight(S) /\ <<y, z>> \in ByWeight(S) => <<x, z>> \in ByWeight(S)
  BY <1>1, <1>5
<1>9. \A x, y \in S : x # y => <<x, y>> \in ByWeight(S) \/ <<y, x>> \in ByWeight(S)
  BY <1>1, <1>6
<1> QED
  BY <1>7, <1>8, <1>9 DEF Orders

LEMMA EveryEqualFirst ==
    ASSUME NEW S, S \subseteq Holder, NEW L, Listed(S, ByWeight(S), L),
           NEW k \in DOMAIN L, Alike(L[k], L[1])
    PROVE  \E n \in DOMAIN L : NodeList(L, n)[1] = L[k].source
<1>1. PICK N \in Nat : DOMAIN L = 1 .. N /\ \A j \in 1 .. N : L[j] \in S /\ L[j] \in Holder
  BY DEF Listed
<1> DEFINE E == {j \in DOMAIN L : Alike(L[j], L[1])}
<1>2. Together(E)
  <2> SUFFICES ASSUME NEW i \in E, NEW g \in E, NEW j \in Nat, i < j, j < g PROVE j \in E
    BY DEF Together
  <2>1. i \in 1 .. N /\ g \in 1 .. N /\ j \in 1 .. N
    BY <1>1
  <2>2. Better(L[i], L[j]) /\ Better(L[j], L[g])
    <3>1. <<L[i], L[j]>> \in ByWeight(S) /\ <<L[j], L[g]>> \in ByWeight(S)
      BY <1>1, <2>1 DEF Listed
    <3> QED
      BY <3>1 DEF ByWeight
  <2>3. PICK x \in Holder, y \in Holder, z \in Holder : x = L[i] /\ y = L[j] /\ z = L[g]
    BY <1>1, <2>1
  <2>4. Alike(x, z)
    BY <2>3 DEF Alike
  <2>5. Better(x, y) /\ Better(y, z)
    BY <2>2, <2>3
  <2>6. Alike(y, x)
    BY <2>4, <2>5 DEF Better, Alike, Holder
  <2> QED
    BY <1>1, <2>1, <2>3, <2>6 DEF Alike
<1>3. E \subseteq 1 .. N /\ 1 \in E /\ k \in E
  BY <1>1 DEF Alike
<1>4. PICK n \in 1 .. N : Min(E) + ((1 - Min(E) + n) % Cardinality(E)) = k
  <2> HIDE DEF E
  <2> QED
    BY <1>2, <1>3, TurnReached
<1>5. NodeList(L, n)[1] = L[k].source
  BY <1>1, <1>3, <1>4 DEF NodeList, Rotated
<1> QED
  BY <1>1, <1>5

(* What the registry holds.                                                *)

LEMMA GreaterOf == \A a, b \in Int : Max({a, b}) = IF a >= b THEN a ELSE b
<1> SUFFICES ASSUME NEW a \in Int, NEW b \in Int PROVE Max({a, b}) = IF a >= b THEN a ELSE b
  OBVIOUS
<1> DEFINE m == IF a >= b THEN a ELSE b
<1>1. m \in {a, b} /\ \A y \in {a, b} : m >= y
  OBVIOUS
<1>2. \A x \in {a, b} : (\A y \in {a, b} : x >= y) => x = m
  OBVIOUS
<1> QED
  BY <1>1, <1>2 DEF Max

LEMMA LesserOf == \A a, b \in Int : Min({a, b}) = IF a <= b THEN a ELSE b
<1> SUFFICES ASSUME NEW a \in Int, NEW b \in Int PROVE Min({a, b}) = IF a <= b THEN a ELSE b
  OBVIOUS
<1> DEFINE m == IF a <= b THEN a ELSE b
<1>1. m \in {a, b} /\ \A y \in {a, b} : m <= y
  OBVIOUS
<1>2. \A x \in {a, b} : (\A y \in {a, b} : x <= y) => x = m
  OBVIOUS
<1> QED
  BY <1>1, <1>2 DEF Min

Positive == Nat \ {0}
Told == {Unknown} \cup Saying
NodeType == [weight : Positive, bytes : Told, footprints : Told]
StatsType == [timing : Times \cup {Unknown}, weight : Positive]
Observing ==
    [at : {"observing"}, addresses : SUBSET Public, left : SUBSET Public,
     found : UNION {[F -> NodeType] : F \in SUBSET Public}]

NodesInv ==
    /\ DOMAIN nodes \subseteq Public /\ nodes \in [DOMAIN nodes -> NodeType]
    /\ DOMAIN stats \subseteq AnySource /\ stats \in [DOMAIN stats -> StatsType]
    /\ busy \in [AnySource -> 0 .. ChunkOriginLimit]
    /\ refresh = Resting \/ refresh \in Observing

LEMMA ShareProper ==
    ASSUME PeersAssumption, NEW c \in Told, NEW o \in Bucket
    PROVE  RankedShare(c, o) = Nil \/ RankedShare(c, o) \in Positive \X Positive
<1> SUFFICES ASSUME c # Unknown, c.share[o] # 0 PROVE RankedShare(c, o) \in Positive \X Positive
  BY DEF RankedShare
<1>1. c.share \in Claims /\ c.age \in Nat
  BY DEF Told, Saying
<1>2. PICK n \in Nat \ {0} : n = c.share[o]
  BY <1>1 DEF PeersAssumption
<1>3. PICK w \in Nat \ {0} : w = Whole
  BY DEF PeersAssumption
<1>4. PICK m \in Nat : m = Max({c.age - 1, 0})
  <2>1. PICK a \in Int : a = c.age - 1
    BY <1>1
  <2>2. Max({a, 0}) = IF a >= 0 THEN a ELSE 0
    BY GreaterOf
  <2> QED
    BY <2>1, <2>2
<1>5. RankedShare(c, o) = <<2 * n + m * w, 2 * w * (1 + m)>>
  BY <1>2, <1>3, <1>4 DEF RankedShare
<1>6. m * w \in Nat /\ w * m \in Nat
  OBVIOUS
<1>7. 2 * n + m * w \in Nat \ {0}
  BY <1>6
<1>8. 2 * w * (1 + m) \in Nat \ {0}
  <2>1. 2 * w * (1 + m) = 2 * w + 2 * (w * m)
    OBVIOUS
  <2> QED
    BY <1>6, <2>1
<1> QED
  BY <1>5, <1>7, <1>8 DEF Positive

LEMMA CoverageProper ==
    ASSUME PeersAssumption, NodesInv, NEW a \in DOMAIN nodes, NEW o \in Bucket, CoverageShare(a, o) # Nil
    PROVE  CoverageShare(a, o) \in Positive \X Positive
<1>1. nodes[a].bytes \in Told /\ nodes[a].footprints \in Told
  BY DEF NodesInv, NodeType
<1> QED
  BY <1>1, ShareProper DEF CoverageShare

LEMMA ProductsPositive ==
    /\ \A a, b \in Positive : a * b \in Positive
    /\ \A a, b \in Nat : a * b \in Nat
<1>1. ASSUME NEW a \in Positive, NEW b \in Positive PROVE a * b \in Positive
  <2>1. 1 * b <= a * b
    BY Scaled DEF Positive
  <2>2. a * b \in Nat
    BY DEF Positive
  <2> QED
    BY <2>1, <2>2 DEF Positive
<1> QED
  BY <1>1

LEMMA CostProper ==
    ASSUME PeersAssumption, NodesInv, NEW o \in Bucket, NEW s \in ChunkSources(o)
    PROVE  Cost(s, o) \in Fraction
<1>1. s \in AnySource
  BY DEF ChunkSources, Covering, AnySource, NodesInv
<1>2. StatsOf(s) \in StatsType
  BY DEF StatsOf, Untried, StatsType, NodesInv, PeersAssumption, Positive
<1>3. PICK w \in Positive : w = StatsOf(s).weight
  BY <1>2 DEF StatsType
<1>4. PICK t \in Nat : t = IF StatsOf(s).timing = Unknown THEN UsualTime ELSE StatsOf(s).timing
  BY <1>2 DEF StatsType, PeersAssumption
<1>5. ShareOf(s, o) \in Positive \X Positive
  <2>1. CASE s \in Covering(o)
    BY <2>1, CoverageProper DEF ShareOf, Covering
  <2>2. CASE s \notin Covering(o)
    BY <2>2 DEF ShareOf, Positive
  <2> QED
    BY <2>1, <2>2
<1>6. PICK p \in Positive, q \in Positive : p = ShareOf(s, o)[1] /\ q = ShareOf(s, o)[2]
  BY <1>5
<1>7. PICK step \in Positive, d \in Positive, limit \in Positive :
         step = WeightStep /\ d = Default /\ limit = ChunkOriginLimit
  BY DEF PeersAssumption, Positive
<1>8. PICK b \in Nat : b = busy[s]
  BY <1>1 DEF NodesInv
<1>9. PICK less \in Nat : less = Max({d - w, 0})
  <2>1. PICK a \in Int : a = d - w
    BY DEF Positive
  <2>2. Max({a, 0}) = IF a >= 0 THEN a ELSE 0
    BY GreaterOf
  <2> QED
    BY <2>1, <2>2
<1>10. Cost(s, o) = <<(step * t * d + w * less) * (limit + b) * q, step * w * limit * p>>
  BY <1>3, <1>4, <1>6, <1>7, <1>8, <1>9 DEF Cost
<1>11. step * w * limit * p \in Positive
  <2>1. step * w \in Positive
    BY ProductsPositive
  <2>2. step * w * limit \in Positive
    BY <2>1, ProductsPositive
  <2> QED
    BY <2>2, ProductsPositive
<1>12. (step * t * d + w * less) * (limit + b) * q \in Nat
  <2>0. step \in Nat /\ d \in Nat /\ w \in Nat /\ limit \in Nat /\ q \in Nat
    BY DEF Positive
  <2>1. step * t \in Nat /\ w * less \in Nat
    BY <2>0, ProductsPositive
  <2>2. step * t * d \in Nat
    BY <2>0, <2>1, ProductsPositive
  <2>3. step * t * d + w * less \in Nat /\ limit + b \in Nat
    BY <2>0, <2>1, <2>2
  <2>4. (step * t * d + w * less) * (limit + b) \in Nat
    BY <2>3, ProductsPositive
  <2> QED
    BY <2>0, <2>4, ProductsPositive
<1> QED
  BY <1>10, <1>11, <1>12 DEF Fraction, Positive

LEMMA SourcesExplored == ASSUME PeersAssumption, NodesInv PROVE Explored
<1> SUFFICES ASSUME NEW o \in Bucket
             PROVE /\ \A k \in DOMAIN RankedChunks(o) : RankedChunks(o)[k].full \/
                         \E n \in 0 .. ProbeEvery * Len(RankedChunks(o)), j \in DOMAIN RankedChunks(o) :
                            /\ Even(RankedChunks(o)[j], RankedChunks(o)[k])
                            /\ ChunkList(RankedChunks(o), n)[1] = RankedChunks(o)[j].source
                   /\ \A k \in DOMAIN RankedNodes(o, {}) : Alike(RankedNodes(o, {})[k], RankedNodes(o, {})[1]) =>
                         \E n \in DOMAIN RankedNodes(o, {}) :
                            NodeList(RankedNodes(o, {}), n)[1] = RankedNodes(o, {})[k].source
  BY DEF Explored
<1>1. IsFiniteSet(AnySource) /\ AnySource \subseteq Nat
  BY DEF PeersAssumption, AnySource
<1>2. \A k \in DOMAIN RankedChunks(o) : RankedChunks(o)[k].full \/
         \E n \in 0 .. ProbeEvery * Len(RankedChunks(o)), j \in DOMAIN RankedChunks(o) :
            /\ Even(RankedChunks(o)[j], RankedChunks(o)[k])
            /\ ChunkList(RankedChunks(o), n)[1] = RankedChunks(o)[j].source
  <2> DEFINE C == ChunkSources(o)
             f == [s \in C |-> [source |-> s, full |-> Full(s), cost |-> Cost(s, o)]]
  <2>1. C \subseteq AnySource
    BY DEF ChunkSources, Covering, AnySource, NodesInv
  <2>2. IsFiniteSet(C)
    BY <1>1, <2>1, FS_Subset
  <2>3. Offers(o) \subseteq Offer
    <3> SUFFICES ASSUME NEW s \in C PROVE [source |-> s, full |-> Full(s), cost |-> Cost(s, o)] \in Offer
      BY DEF Offers
    <3>1. s \in Nat /\ Full(s) \in BOOLEAN /\ Cost(s, o) \in Fraction
      BY <1>1, <2>1, CostProper DEF Full
    <3> QED
      BY <3>1 DEF Offer
  <2>4. Single(Offers(o))
    BY DEF Single, Offers
  <2>5. IsFiniteSet(Offers(o))
    <3>1. f \in Surjection(C, Offers(o))
      BY DEF Offers, Surjection
    <3> QED
      BY <2>2, <3>1, FS_Surjection
  <2>6. Orders(Offers(o), ByCost(Offers(o)))
    BY <2>3, <2>4, <2>5, CostOrders
  <2>7. Listed(Offers(o), ByCost(Offers(o)), RankedChunks(o))
    BY <2>6, OrderLists DEF RankedChunks, ByCost
  <2> QED
    BY <2>3, <2>5, <2>7, EveryCostProbed
<1>3. \A k \in DOMAIN RankedNodes(o, {}) : Alike(RankedNodes(o, {})[k], RankedNodes(o, {})[1]) =>
         \E n \in DOMAIN RankedNodes(o, {}) :
            NodeList(RankedNodes(o, {}), n)[1] = RankedNodes(o, {})[k].source
  <2> DEFINE H == Holders(o, {})
             f == [a \in DOMAIN nodes |-> [source |-> a, covered |-> a \in Covering(o), weight |-> nodes[a].weight]]
  <2>1. DOMAIN nodes \subseteq AnySource /\ DOMAIN nodes \ {} = DOMAIN nodes
    BY DEF AnySource, NodesInv
  <2>2. IsFiniteSet(DOMAIN nodes)
    BY <1>1, <2>1, FS_Subset
  <2>3. H \subseteq Holder
    <3> SUFFICES ASSUME NEW a \in DOMAIN nodes
                 PROVE  [source |-> a, covered |-> a \in Covering(o), weight |-> nodes[a].weight] \in Holder
      BY DEF Holders
    <3>1. a \in Nat /\ nodes[a].weight \in Nat
      BY <1>1, <2>1 DEF NodesInv, NodeType, Positive
    <3> QED
      BY <3>1 DEF Holder
  <2>4. Single(H)
    BY DEF Single, Holders
  <2>5. IsFiniteSet(H)
    <3>1. f \in Surjection(DOMAIN nodes, H)
      BY <2>1 DEF Holders, Surjection
    <3> QED
      BY <2>2, <3>1, FS_Surjection
  <2>6. Orders(H, ByWeight(H))
    BY <2>3, <2>4, <2>5, WeightOrders
  <2>7. Listed(H, ByWeight(H), RankedNodes(o, {}))
    BY <2>6, OrderLists DEF RankedNodes, ByWeight
  <2> QED
    BY <2>3, <2>7, EveryEqualFirst
<1> QED
  BY <1>2, <1>3

LEMMA NodesStart == ASSUME PeersAssumption, PeersInit PROVE NodesInv
<1>1. DOMAIN nodes = {} /\ DOMAIN stats = {} /\ refresh = Resting
  BY DEF PeersInit
<1>2. busy \in [AnySource -> 0 .. ChunkOriginLimit]
  BY DEF PeersInit, PeersAssumption
<1>3. nodes \in [{} -> NodeType] /\ stats \in [{} -> StatsType]
  BY DEF PeersInit
<1> QED
  BY <1>1, <1>2, <1>3 DEF NodesInv

LEMMA WeightsProper ==
    ASSUME PeersAssumption, NEW w \in Positive, NEW ok \in BOOLEAN
    PROVE  Moved(w, ok) \in Positive
<1>1. PICK step \in Nat, low \in Positive, high \in Positive :
         step = WeightStep /\ low = Lowest /\ high = Highest
  BY DEF PeersAssumption, Positive
<1>2. w + step \in Positive /\ w + step \in Int /\ high \in Int /\ w - step \in Int /\ low \in Int
  BY DEF Positive
<1>3. /\ Min({w + step, high}) = IF w + step <= high THEN w + step ELSE high
      /\ Max({w - step, low}) = IF w - step >= low THEN w - step ELSE low
  BY <1>2, LesserOf, GreaterOf
<1>4. Min({w + step, high}) \in Positive
  BY <1>2, <1>3
<1>5. Max({w - step, low}) \in Positive
  BY <1>2, <1>3 DEF Positive
<1> QED
  BY <1>1, <1>4, <1>5 DEF Moved

LEMMA ResultKept ==
    ASSUME PeersAssumption, NodesInv, NEW s, NEW ok \in BOOLEAN, nodes' = WithResult(s, ok)
    PROVE  /\ DOMAIN nodes' = DOMAIN nodes /\ nodes' \in [DOMAIN nodes -> NodeType]
           /\ \A a \in DOMAIN nodes : /\ nodes'[a].bytes = nodes[a].bytes
                                     /\ nodes'[a].footprints = nodes[a].footprints
<1>1. CASE s \in DOMAIN nodes
  <2>1. nodes' = [nodes EXCEPT ![s].weight = Moved(@, ok)]
    BY <1>1 DEF WithResult
  <2>2. nodes[s] \in NodeType /\ Moved(nodes[s].weight, ok) \in Positive
    BY <1>1, WeightsProper DEF NodesInv, NodeType
  <2>3. [nodes[s] EXCEPT !.weight = Moved(@, ok)] \in NodeType
    BY <2>2 DEF NodeType
  <2>4. \A a \in DOMAIN nodes : nodes'[a] = IF a = s THEN [nodes[s] EXCEPT !.weight = Moved(@, ok)] ELSE nodes[a]
    BY <2>1
  <2>5. DOMAIN nodes' = DOMAIN nodes
    BY <2>1
  <2>6. \A a \in DOMAIN nodes : nodes[a] \in NodeType /\ nodes'[a] \in NodeType
    BY <2>3, <2>4 DEF NodesInv
  <2>7. nodes' \in [DOMAIN nodes -> NodeType]
    BY <2>1, <2>5, <2>6
  <2>8. ASSUME NEW a \in DOMAIN nodes
        PROVE  nodes'[a].bytes = nodes[a].bytes /\ nodes'[a].footprints = nodes[a].footprints
    BY <2>2, <2>4 DEF NodeType
  <2> QED
    BY <2>5, <2>7, <2>8
<1>2. CASE s \notin DOMAIN nodes
  BY <1>2 DEF WithResult, NodesInv
<1> QED
  BY <1>1, <1>2

LEMMA AgeKept ==
    ASSUME PeersAssumption, NEW c \in Told
    PROVE  Older(c) \in Told /\ (Older(c) = Unknown => c = Unknown)
<1>1. CASE c = Unknown
  BY <1>1 DEF Older, Told
<1>2. CASE c # Unknown
  <2>1. c \in Saying
    BY <1>2 DEF Told
  <2>2. PICK n \in Nat : n = c.age
    BY <2>1 DEF Saying
  <2>3. PICK m \in Nat : m = MaxAge
    BY DEF PeersAssumption
  <2>4. Min({n + 1, m}) \in Nat
    <3>1. n + 1 \in Int /\ m \in Int
      OBVIOUS
    <3>2. Min({n + 1, m}) = IF n + 1 <= m THEN n + 1 ELSE m
      BY <3>1, LesserOf
    <3> QED
      BY <3>2
  <2>5. [c EXCEPT !.age = Min({@ + 1, MaxAge})] \in Saying
    BY <2>1, <2>2, <2>3, <2>4 DEF Saying
  <2> QED
    BY <1>2, <2>5 DEF Older, Told, PeersAssumption
<1> QED
  BY <1>1, <1>2

\* What a merge makes of a node.
LEMMA MergeKept ==
    ASSUME NodesInv, refresh.at = "observing", NEW a \in DOMAIN refresh.found \cup DOMAIN nodes
    PROVE  /\ Merged(a) \in NodeType
           /\ a \in DOMAIN nodes =>
                 /\ Merged(a).weight = nodes[a].weight
                 /\ Merged(a).bytes = Unknown => nodes[a].bytes = Unknown
                 /\ Merged(a).footprints = Unknown => nodes[a].footprints = Unknown
<1>1. refresh \in Observing
  BY DEF NodesInv, Resting
<1>2. a \in DOMAIN refresh.found => refresh.found[a] \in NodeType
  BY <1>1 DEF Observing
<1>3. a \in DOMAIN nodes => nodes[a] \in NodeType
  BY DEF NodesInv
<1>4. CASE a \notin DOMAIN refresh.found
  BY <1>3, <1>4 DEF Merged
<1>5. CASE a \in DOMAIN refresh.found /\ a \notin DOMAIN nodes
  BY <1>2, <1>5 DEF Merged
<1>6. CASE a \in DOMAIN refresh.found /\ a \in DOMAIN nodes
  <2>1. Merged(a) = KnownBefore(a)
    BY <1>6 DEF Merged
  <2> QED
    BY <1>2, <1>3, <1>6, <2>1 DEF KnownBefore, Either, NodeType
<1> QED
  BY <1>4, <1>5, <1>6

LEMMA NodesKept == ASSUME PeersAssumption, NodesInv, NodesNext PROVE NodesInv' /\ NoneForgotten
<1>1. CASE UNCHANGED nodes /\ UNCHANGED stats /\ UNCHANGED busy /\ (refresh' = Resting \/ refresh' \in Observing)
  <2>1. NodesInv'
    BY <1>1 DEF NodesInv
  <2> QED
    BY <1>1, <2>1 DEF NoneForgotten
<1>2. CASE \E hosts \in Advertised : ListNodes(hosts)
  <2>1. PICK hosts : ListNodes(hosts)
    BY <1>2
  <2>2. First(PublicOf(hosts)) \subseteq Public
    BY DEF First, PublicOf
  <2>3. << >> \in [{} -> NodeType]
    OBVIOUS
  <2>4. refresh' \in Observing
    BY <2>1, <2>2, <2>3 DEF ListNodes, Observing
  <2> QED
    BY <1>1, <2>1, <2>4 DEF ListNodes
<1>3. CASE \E a \in Public : Silent(a)
  <2>1. PICK a : Silent(a)
    BY <1>3
  <2>2. refresh \in Observing
    BY <2>1 DEF Silent, NodesInv, Resting
  <2>3. refresh' \in Observing
    BY <2>1, <2>2 DEF Silent, Observing
  <2> QED
    BY <1>1, <2>1, <2>3 DEF Silent
<1>4. CASE \E a \in Public, bytes, footprints \in {Unknown} \cup {Says(c) : c \in Claims} :
              Observe(a, bytes, footprints)
  <2>1. PICK a \in Public, bytes \in Told, footprints \in Told : Observe(a, bytes, footprints)
    BY <1>4 DEF Told, Saying, Says
  <2>2. refresh \in Observing
    BY <2>1 DEF Observe, NodesInv, Resting
  <2>3. PICK F \in SUBSET Public : refresh.found \in [F -> NodeType]
    BY <2>2 DEF Observing
  <2>4. [weight |-> Default, bytes |-> bytes, footprints |-> footprints] \in NodeType
    BY DEF NodeType, Positive, PeersAssumption
  <2>5. Heard(a, bytes, footprints) \in [F \cup {a} -> NodeType]
    BY <2>3, <2>4 DEF Heard
  <2>6. refresh' \in Observing
    <3>1. F \cup {a} \in SUBSET Public
      OBVIOUS
    <3>2. refresh' = [refresh EXCEPT !.left = @ \ {a}, !.found = Heard(a, bytes, footprints)]
      BY <2>1 DEF Observe
    <3>3. Heard(a, bytes, footprints) \in UNION {[G -> NodeType] : G \in SUBSET Public}
      BY <2>5, <3>1
    <3> QED
      BY <2>2, <3>2, <3>3 DEF Observing
  <2> QED
    BY <1>1, <2>1, <2>6 DEF Observe
<1>5. CASE MergeNodes
  <2>1. refresh \in Observing /\ refresh.at = "observing" /\ refresh' = Resting
    BY <1>5 DEF MergeNodes, NodesInv, Resting
  <2>2. PICK F \in SUBSET Public : refresh.found \in [F -> NodeType]
    BY <2>1 DEF Observing
  <2>3. CASE DOMAIN refresh.found = {} /\ refresh.addresses # {}
    BY <1>1, <1>5, <2>3 DEF MergeNodes
  <2>4. CASE ~(DOMAIN refresh.found = {} /\ refresh.addresses # {})
    <3> DEFINE D == DOMAIN refresh.found \cup (refresh.addresses \cap DOMAIN nodes)
    <3>1. nodes' = [a \in D |-> Merged(a)] /\ UNCHANGED <<stats, busy>>
      BY <1>5, <2>4 DEF MergeNodes
    <3>2. D \subseteq Public /\ D \subseteq DOMAIN refresh.found \cup DOMAIN nodes
      BY <2>2 DEF NodesInv
    <3>3. \A a \in D : nodes'[a] = Merged(a) /\ Merged(a) \in NodeType
      BY <2>1, <3>1, <3>2, MergeKept
    <3>4. DOMAIN nodes' = D
      BY <3>1
    <3>5. NodesInv'
      <4>1. nodes' \in [D -> NodeType]
        BY <3>1, <3>3
      <4> QED
        BY <2>1, <3>1, <3>2, <3>4, <4>1 DEF NodesInv
    <3>6. NoneForgotten
      <4>1. ASSUME NEW a \in DOMAIN nodes \cap D
            PROVE  /\ nodes'[a].weight = nodes[a].weight
                   /\ nodes'[a].bytes = Unknown => nodes[a].bytes = Unknown
                   /\ nodes'[a].footprints = Unknown => nodes[a].footprints = Unknown
        <5>1. nodes'[a] = Merged(a)
          BY <3>3
        <5> QED
          BY <2>1, <5>1, MergeKept
      <4> QED
        BY <3>4, <4>1 DEF NoneForgotten
    <3> QED
      BY <3>5, <3>6
  <2> QED
    BY <2>3, <2>4
<1>6. CASE RefreshFails
  BY <1>1, <1>6 DEF RefreshFails
<1>7. CASE Age
  <2>1. nodes' = [a \in DOMAIN nodes |->
                    [nodes[a] EXCEPT !.bytes = Older(@), !.footprints = Older(@)]]
    BY <1>7 DEF Age
  <2>2. ASSUME NEW a \in DOMAIN nodes
        PROVE  /\ nodes'[a] \in NodeType
               /\ nodes'[a].weight = nodes[a].weight
               /\ nodes'[a].bytes = Unknown => nodes[a].bytes = Unknown
               /\ nodes'[a].footprints = Unknown => nodes[a].footprints = Unknown
    <3>1. nodes[a] \in NodeType
      BY DEF NodesInv
    <3>2. nodes'[a] = [nodes[a] EXCEPT !.bytes = Older(@), !.footprints = Older(@)]
      BY <2>1
    <3>3. nodes[a].bytes \in Told /\ nodes[a].footprints \in Told
      BY <3>1 DEF NodeType
    <3>4. /\ Older(nodes[a].bytes) \in Told
          /\ Older(nodes[a].bytes) = Unknown => nodes[a].bytes = Unknown
      BY <3>3, AgeKept
    <3>5. /\ Older(nodes[a].footprints) \in Told
          /\ Older(nodes[a].footprints) = Unknown => nodes[a].footprints = Unknown
      BY <3>3, AgeKept
    <3>6. /\ nodes'[a].bytes = Older(nodes[a].bytes)
          /\ nodes'[a].footprints = Older(nodes[a].footprints)
          /\ nodes'[a].weight = nodes[a].weight /\ nodes'[a] \in NodeType
      BY <3>1, <3>2, <3>4, <3>5 DEF NodeType
    <3> QED
      BY <3>4, <3>5, <3>6
  <2>3. DOMAIN nodes' = DOMAIN nodes /\ nodes' \in [DOMAIN nodes -> NodeType]
    BY <2>1, <2>2
  <2>4. NodesInv'
    BY <1>7, <2>3 DEF Age, NodesInv
  <2> QED
    BY <2>2, <2>3, <2>4 DEF NoneForgotten
<1>8. CASE \E o \in Bucket : ChunkCandidates(o)
  <2>1. PICK o \in Bucket : ChunkCandidates(o)
    BY <1>8
  <2>2. ChunkSources(o) \subseteq AnySource
    BY DEF ChunkSources, Covering, AnySource, NodesInv
  <2>3. \A s \in ChunkSources(o) : StatsOf(s) \in StatsType
    BY DEF StatsOf, Untried, StatsType, NodesInv, PeersAssumption, Positive
  <2>4. DOMAIN stats' = ChunkSources(o) /\ stats' \in [ChunkSources(o) -> StatsType]
    BY <2>1, <2>3 DEF ChunkCandidates
  <2> QED
    BY <2>1, <2>2, <2>4 DEF ChunkCandidates, NodesInv, NoneForgotten
<1>9. CASE \E a \in Public, ok \in BOOLEAN : RecordResult(a, ok)
  <2>1. PICK a \in Public, ok \in BOOLEAN : RecordResult(a, ok)
    BY <1>9
  <2>2. nodes' = WithResult(a, ok) /\ UNCHANGED <<stats, refresh, busy>>
    BY <2>1 DEF RecordResult
  <2> QED
    BY <2>2, ResultKept DEF NodesInv, NoneForgotten
<1>10. CASE \E s \in AnySource, ok \in BOOLEAN, sample \in Times \cup {Unknown} :
              RecordChunkResult(s, ok, sample)
  <2>1. PICK s \in AnySource, ok \in BOOLEAN, sample \in Times \cup {Unknown} : RecordChunkResult(s, ok, sample)
    BY <1>10
  <2>2. nodes' = WithResult(s, ok) /\ UNCHANGED <<refresh, busy>>
    BY <2>1 DEF RecordChunkResult
  <2>3. DOMAIN stats' = DOMAIN stats /\ stats' \in [DOMAIN stats -> StatsType]
    <3>1. CASE s \notin DOMAIN stats
      BY <2>1, <3>1 DEF RecordChunkResult, NodesInv
    <3>2. CASE s \in DOMAIN stats
      <4>1. PICK t \in Timed(stats[s].timing, IF ok THEN sample ELSE Unknown) :
               stats' = [stats EXCEPT ![s] = [timing |-> t, weight |-> Moved(@.weight, ok)]]
        BY <2>1, <3>2 DEF RecordChunkResult
      <4>2. stats[s] \in StatsType
        BY <3>2 DEF NodesInv
      <4>3. t \in Times \cup {Unknown}
        BY <4>1, <4>2 DEF Timed, StatsType
      <4>4. Moved(stats[s].weight, ok) \in Positive
        BY <4>2, WeightsProper DEF StatsType
      <4> QED
        BY <4>1, <4>3, <4>4 DEF NodesInv, StatsType
    <3> QED
      BY <3>1, <3>2
  <2> QED
    BY <2>2, <2>3, ResultKept DEF NodesInv, NoneForgotten
<1>11. CASE \E s \in AnySource, n \in 0 .. ChunkOriginLimit : Occupy(s, n)
  <2>1. PICK s \in AnySource, n \in 0 .. ChunkOriginLimit : Occupy(s, n)
    BY <1>11
  <2> QED
    BY <2>1 DEF Occupy, NodesInv, NoneForgotten
<1> QED
  BY <1>2, <1>3, <1>4, <1>5, <1>6, <1>7, <1>8, <1>9, <1>10, <1>11 DEF NodesNext

(* Gateways.                                                               *)

\* What the accounts of an entry are from a slot on.
LaterOf(t, e) == {Ledger[s].account[e.operator] : s \in {s \in Slots : s >= t}}
HostsOf(t) == {a.host : a \in (UNION {LaterOf(t, e) : e \in Members(t)}) \ {Unknown}}
Answered(t, e, found) == Unknown \in LaterOf(t, e) \/ \E a \in LaterOf(t, e) : a.host \in found
SurveyInv ==
    survey.at # "idle" =>
       /\ survey = [at |-> "accounts", slot |-> survey.slot, left |-> survey.left, found |-> survey.found]
       /\ survey.slot \in Slots /\ survey.left \subseteq Members(survey.slot)
       /\ survey.found \subseteq HostsOf(survey.slot)
       /\ \A e \in Members(survey.slot) \ survey.left : Answered(survey.slot, e, survey.found)

LEMMA SurveyKept == ASSUME SurveyInv, GatewaysNext PROVE SurveyInv' /\ (UNCHANGED gateways \/ GatewaysReal')
<1>1. CASE UNCHANGED gateways /\ survey' = Resting
  BY <1>1 DEF SurveyInv, Resting
<1>2. CASE \E t \in Slots : ReadRegistry(t)
  BY <1>2 DEF ReadRegistry, SurveyInv
<1>3. CASE \E t \in Slots : ReadAccounts(t)
  <2>1. PICK t \in Slots : ReadAccounts(t)
    BY <1>3
  <2> DEFINE batch == Batch(survey.left)
             account(e) == Ledger[t].account[e.operator]
             open == {e \in batch : account(e) # Unknown}
             found == survey.found \cup {account(e).host : e \in open}
  <2>2. CASE survey' = Resting
    BY <1>1, <2>1, <2>2 DEF ReadAccounts
  <2>3. CASE survey' # Resting
    <3>1. /\ survey.at = "accounts" /\ UNCHANGED gateways /\ t >= survey.slot
          /\ survey' = [survey EXCEPT !.left = @ \ batch, !.found = found]
      BY <2>1, <2>3 DEF ReadAccounts, Recent
    <3>2. batch \subseteq survey.left
      BY DEF Batch
    <3> HIDE DEF batch
    <3>3. survey' = [at |-> "accounts", slot |-> survey.slot, left |-> survey.left \ batch, found |-> found]
      BY <3>1 DEF SurveyInv
    <3>4. \A e \in batch : account(e) \in LaterOf(survey.slot, e) /\ e \in Members(survey.slot)
      BY <3>1, <3>2 DEF SurveyInv, LaterOf
    <3>5. found \subseteq HostsOf(survey.slot)
      <4>1. ASSUME NEW e \in open PROVE account(e).host \in HostsOf(survey.slot)
        <5>1. PICK a : a = account(e)
          OBVIOUS
        <5>2. e \in Members(survey.slot) /\ a \in LaterOf(survey.slot, e) /\ a # Unknown
          BY <3>4, <4>1, <5>1
        <5>3. a \in (UNION {LaterOf(survey.slot, d) : d \in Members(survey.slot)}) \ {Unknown}
          <6> DEFINE All == {LaterOf(survey.slot, d) : d \in Members(survey.slot)}
          <6>1. LaterOf(survey.slot, e) \in All
            BY <5>2
          <6> HIDE DEF All
          <6>2. a \in UNION All
            BY <5>2, <6>1
          <6>3. a \in (UNION All) \ {Unknown}
            BY <5>2, <6>2
          <6> QED
            BY <6>3 DEF All
        <5> QED
          BY <5>1, <5>3 DEF HostsOf
      <4>2. survey.found \subseteq HostsOf(survey.slot)
        BY <3>1 DEF SurveyInv
      <4> HIDE DEF open, account
      <4> QED
        BY <4>1, <4>2
    <3>6. ASSUME NEW e \in Members(survey.slot) \ (survey.left \ batch) PROVE Answered(survey.slot, e, found)
      <4>1. CASE e \notin survey.left
        BY <3>1, <3>6, <4>1 DEF SurveyInv, Answered
      <4>2. CASE e \in batch
        BY <3>4, <4>2 DEF Answered
      <4> QED
        BY <3>6, <4>1, <4>2
    <3> HIDE DEF found
    <3> QED
      BY <3>1, <3>3, <3>5, <3>6 DEF SurveyInv
  <2> QED
    BY <2>2, <2>3
<1>4. CASE ShowGateways
  <2>1. /\ survey.at = "accounts" /\ survey.left = {} /\ gateways' = survey.found /\ survey' = Resting
    BY <1>4 DEF ShowGateways
  <2>2. SurveyInv'
    BY <2>1 DEF SurveyInv, Resting
  <2>3. PICK t \in Slots :
           /\ gateways' \subseteq HostsOf(t)
           /\ \A e \in Members(t) : Answered(t, e, gateways')
    BY <2>1 DEF SurveyInv
  <2>4. GatewaysReal'
    BY <2>3 DEF GatewaysReal, HostsOf, LaterOf, Answered
  <2> QED
    BY <2>2, <2>4
<1>5. CASE ReadingFails
  BY <1>1, <1>5 DEF ReadingFails
<1> QED
  BY <1>2, <1>3, <1>4, <1>5 DEF GatewaysNext

PeersInv == NodesInv /\ SurveyInv

LEMMA PeersInvariant == PeersSpec => []PeersInv
<1>1. PeersInit => PeersInv
  BY NodesStart, PeersAssumption DEF PeersInv, SurveyInv, PeersInit, Resting
<1>2. PeersInv /\ [PeersNext]_peers => PeersInv'
  <2> SUFFICES ASSUME PeersInv, [PeersNext]_peers PROVE PeersInv'
    OBVIOUS
  <2>1. CASE NodesNext
    <3>1. NodesInv' /\ UNCHANGED survey
      BY <2>1, NodesKept, PeersAssumption DEF PeersInv, NodesNext, gatewayVars
    <3> QED
      BY <3>1 DEF PeersInv, SurveyInv
  <2>2. CASE GatewaysNext
    <3>1. SurveyInv' /\ UNCHANGED nodeVars
      BY <2>2, SurveyKept DEF PeersInv, GatewaysNext
    <3> QED
      BY <3>1 DEF PeersInv, NodesInv, nodeVars
  <2>3. CASE UNCHANGED peers
    BY <2>3 DEF PeersInv, NodesInv, SurveyInv, peers, nodeVars, gatewayVars
  <2> QED
    BY <2>1, <2>2, <2>3 DEF PeersNext
<1> QED
  BY <1>1, <1>2, PTL DEF PeersSpec

LEMMA StepKept == PeersInv /\ [PeersNext]_peers => [Kept]_peers
<1> SUFFICES ASSUME PeersInv, PeersNext PROVE Kept
  OBVIOUS
<1>1. Explored
  BY SourcesExplored, PeersAssumption DEF PeersInv
<1>2. CASE NodesNext
  BY <1>1, <1>2, NodesKept, PeersAssumption DEF PeersInv, Kept, NodesNext, gatewayVars
<1>3. CASE GatewaysNext
  <2>1. UNCHANGED nodeVars /\ (UNCHANGED gateways \/ GatewaysReal')
    BY <1>3, SurveyKept DEF PeersInv, GatewaysNext
  <2>2. NoneForgotten
    BY <2>1 DEF NoneForgotten, nodeVars
  <2> QED
    BY <1>1, <2>1, <2>2 DEF Kept
<1> QED
  BY <1>2, <1>3 DEF PeersNext

\* For any nodes, sources, answers and accounts: a refresh undoes no result that
\* was recorded meanwhile and forgets nothing that is known of a node which is still
\* advertised (refresh_nodes); among the sources that have a free t each cost gets
\* the first place in some list, and each of the best nodes does (chunk_candidates,
\* candidates); and the gateways that are shown are those of one registry
\* (fetch_gateways).
THEOREM PeersAlwaysKept == PeersSpec => PeersKept
<1>1. PeersInv /\ [PeersNext]_peers => [Kept]_peers
  BY StepKept
<1> QED
  BY <1>1, PeersInvariant, PTL DEF PeersSpec, PeersKept
=============================================================================
