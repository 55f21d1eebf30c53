------------------------------ MODULE WorkProofs ------------------------------
(***************************************************************************)
(* Work that is to be done once and not forgotten.                         *)
(* Shared work, for any callers, keys and number of flights: work with     *)
(* callers is found by the next caller, and knows whether a foreground     *)
(* request waits for it.                                                   *)
(* The bundle scan, for any chains, reorgs, page sizes and restarts: a     *)
(* pass ends with every root proposed that was pending all through it, and *)
(* a saved position replays the oldest root that is outstanding.           *)
(***************************************************************************)
EXTENDS BundleScan, Flights, Tallies, SequenceTheorems

Phases == {"begin", "joined", "waiting", "done", "dropped"}

Shape ==
    /\ \E n \in Nat : Started = 1 .. n
    /\ entry \in [Key -> {None} \cup Started]
    /\ key \in [Started -> Key]
    /\ phase \in [Started -> Phases]
    /\ inner \in [Started -> {None} \cup Started]
    /\ foreground \in [Started -> Int]
    /\ parents \in [Started -> SUBSET Started]
    /\ at \in [Caller -> {None} \cup Started]
    /\ counted \subseteq {c \in Caller : at[c] # None}

\* The map finds every flight that somebody still holds.
Listed ==
    /\ \A k \in Key : entry[k] # None => key[entry[k]] = k
    /\ \A f \in Started : Holders(f) # {} => entry[key[f]] = f

\* A demand counts the foreground callers of its flight.
Wanting(f) == {c \in counted \cap Foreground : at[c] = f}
Tallied == \A f \in Started : foreground[f] = Cardinality(Wanting(f))

\* Work that waits for inner work is known to it.
Linked ==
    \A g \in Started :
        /\ phase[g] \in {"joined", "waiting"} => inner[g] \in Started
        /\ phase[g] = "waiting" => g \in parents[inner[g]]

FlightsInv == Shape /\ Listed /\ Tallied /\ Linked

LEMMA NoneIsNoFlight == Shape => None \notin Started
BY DEF Shape, None

\* What a call finds: the flight of the map, or a new one in its place.
LEMMA Finds ==
    ASSUME Shape, Listed, NEW k \in Key, NEW f, Find(k, f)
    PROVE  /\ \E n \in Nat : Started' = 1 .. n
           /\ Started' = Started \cup {f} /\ f # None
           /\ key' \in [Started' -> Key] /\ key'[f] = k
           /\ \A g \in Started : key'[g] = key[g]
           /\ entry' \in [Key -> {None} \cup Started'] /\ entry'[k] = f
           /\ \A j \in Key \ {k} : entry'[j] = entry[j]
           /\ entry[k] # None /\ entry[k] # f => Holders(entry[k]) = {}
           /\ f \notin Started \/ f = entry[k]
<1>1. PICK n \in Nat : Started = 1 .. n
  BY DEF Shape
<1>2. entry \in [Key -> {None} \cup Started] /\ key \in [Started -> Key]
  BY DEF Shape
<1>3. CASE Joinable(k) /\ f = entry[k] /\ UNCHANGED <<entry, key>>
  <2>1. f \in Started /\ f # None /\ key[f] = k /\ Started' = Started
    BY <1>2, <1>3 DEF Joinable, Listed, Started
  <2> QED
    BY <1>1, <1>2, <1>3, <2>1
<1>4. CASE ~Joinable(k) /\ f = Next1 /\ StartFlight(k)
  <2>1. Next1 = n + 1
    <3>1. Cardinality(1 .. n) = n
      <4>1. 1 \in Int /\ n \in Int
        OBVIOUS
      <4>2. Cardinality(1 .. n) = IF 1 > n THEN 0 ELSE n - 1 + 1
        BY <4>1, FS_Interval
      <4> QED
        BY <4>2
    <3> QED
      BY <1>1, <3>1 DEF Next1
  <2>2. f = n + 1 /\ f \notin Started /\ f # None
    BY <1>1, <1>4, <2>1 DEF None
  <2>3. /\ entry' = [entry EXCEPT ![k] = f]
        /\ key' = [g \in Started \cup {f} |-> IF g = f THEN k ELSE key[g]]
    BY <1>4 DEF StartFlight
  <2>4. Started' = Started \cup {f}
    BY <2>3 DEF Started
  <2>5. Started' = 1 .. n + 1
    BY <1>1, <2>2, <2>4
  <2>6. entry[k] # None => Holders(entry[k]) = {}
    BY <1>4 DEF Joinable
  <2> QED
    BY <1>2, <2>2, <2>3, <2>4, <2>5, <2>6
<1> QED
  BY <1>3, <1>4 DEF Find

\* Once the caller or the work has found its flight, the map is right.
LEMMA ListedAfterFind ==
    ASSUME FlightsInv, NEW k \in Key, NEW f, Find(k, f),
           \A g \in Started \ {f} : Holders(g)' # {} => Holders(g) # {}
    PROVE  Listed'
<1>1. /\ Shape /\ Listed /\ Started' = Started \cup {f} /\ f # None
      /\ key'[f] = k /\ \A g \in Started : key'[g] = key[g]
      /\ entry'[k] = f /\ \A j \in Key \ {k} : entry'[j] = entry[j]
      /\ entry[k] # None /\ entry[k] # f => Holders(entry[k]) = {}
  BY Finds DEF FlightsInv
<1>2. entry \in [Key -> {None} \cup Started] /\ key \in [Started -> Key]
  BY <1>1 DEF Shape
<1>3. ASSUME NEW j \in Key, entry'[j] # None PROVE key'[entry'[j]] = j
  <2>1. CASE j = k
    BY <1>1, <2>1
  <2>2. CASE j # k
    <3>1. entry'[j] = entry[j] /\ entry[j] \in Started /\ key[entry[j]] = j
      BY <1>1, <1>2, <1>3, <2>2 DEF Listed
    <3> QED
      BY <1>1, <3>1
  <2> QED
    BY <2>1, <2>2
<1>4. ASSUME NEW g \in Started', Holders(g)' # {} PROVE entry'[key'[g]] = g
  <2>1. CASE g = f
    BY <1>1, <2>1
  <2>2. CASE g # f
    <3>1. g \in Started /\ Holders(g) # {} /\ key'[g] = key[g] /\ key[g] \in Key
      BY <1>1, <1>2, <1>4, <2>2
    <3>2. entry[key[g]] = g /\ g # None
      BY <1>1, <3>1, NoneIsNoFlight DEF Listed
    <3>3. key[g] # k
      BY <1>1, <2>2, <3>1, <3>2
    <3> QED
      BY <1>1, <3>1, <3>2, <3>3
  <2> QED
    BY <2>1, <2>2
<1> QED
  BY <1>3, <1>4 DEF Listed

\* A caller joins a flight or starts one.
LEMMA CallKeeps ==
    ASSUME FlightsInv, NEW c \in Caller, NEW k \in Key, Call(c, k)
    PROVE  FlightsInv'
<1>1. PICK f \in Flight :
        /\ Find(k, f)
        /\ at' = [at EXCEPT ![c] = f]
        /\ phase' = Grown(phase, f, "begin")
        /\ inner' = Grown(inner, f, None)
        /\ foreground' = Grown(foreground, f, 0)
        /\ parents' = Grown(parents, f, {})
  BY DEF Call
<1>2. at[c] = None /\ counted' = counted /\ Shape /\ Listed /\ Tallied /\ Linked
  BY DEF Call, FlightsInv
<1>3. /\ \E n \in Nat : Started' = 1 .. n
      /\ Started' = Started \cup {f} /\ f # None
      /\ key' \in [Started' -> Key] /\ entry' \in [Key -> {None} \cup Started']
  BY <1>1, <1>2, Finds
<1>4. /\ phase' \in [Started' -> Phases] /\ \A g \in Started : phase'[g] = phase[g]
      /\ f \notin Started => phase'[f] = "begin"
  <2>1. phase \in [Started -> Phases] /\ "begin" \in Phases
    BY <1>2 DEF Shape, Phases
  <2>2. /\ Grown(phase, f, "begin") \in [Started \cup {f} -> Phases]
        /\ \A g \in Started : Grown(phase, f, "begin")[g] = phase[g]
        /\ f \notin Started => Grown(phase, f, "begin")[f] = "begin"
    BY <2>1 DEF Grown
  <2> QED
    BY <1>1, <1>3, <2>2
<1>5. /\ inner' \in [Started' -> {None} \cup Started] /\ \A g \in Started : inner'[g] = inner[g]
      /\ f \notin Started => inner'[f] = None
  <2>1. inner \in [Started -> ({None} \cup Started)] /\ None \in ({None} \cup Started)
    BY <1>2 DEF Shape
  <2>2. /\ Grown(inner, f, None) \in [Started \cup {f} -> ({None} \cup Started)]
        /\ \A g \in Started : Grown(inner, f, None)[g] = inner[g]
        /\ f \notin Started => Grown(inner, f, None)[f] = None
    BY <2>1 DEF Grown
  <2> QED
    BY <1>1, <1>3, <2>2
<1>6. /\ foreground' \in [Started' -> Int] /\ \A g \in Started : foreground'[g] = foreground[g]
      /\ f \notin Started => foreground'[f] = 0
  <2>1. foreground \in [Started -> Int] /\ 0 \in Int
    BY <1>2 DEF Shape
  <2>2. /\ Grown(foreground, f, 0) \in [Started \cup {f} -> Int]
        /\ \A g \in Started : Grown(foreground, f, 0)[g] = foreground[g]
        /\ f \notin Started => Grown(foreground, f, 0)[f] = 0
    BY <2>1 DEF Grown
  <2> QED
    BY <1>1, <1>3, <2>2
<1>7. /\ parents' \in [Started' -> SUBSET Started] /\ \A g \in Started : parents'[g] = parents[g]
  <2>1. parents \in [Started -> (SUBSET Started)] /\ {} \in (SUBSET Started)
    BY <1>2 DEF Shape
  <2>2. /\ Grown(parents, f, {}) \in [Started \cup {f} -> (SUBSET Started)]
        /\ \A g \in Started : Grown(parents, f, {})[g] = parents[g]
        /\ f \notin Started => Grown(parents, f, {})[f] = {}
    BY <2>1 DEF Grown
  <2> QED
    BY <1>1, <1>3, <2>2
<1>8. /\ at \in [Caller -> {None} \cup Started] /\ at' \in [Caller -> {None} \cup Started']
      /\ at' = [at EXCEPT ![c] = f] /\ c \notin counted
      /\ counted \subseteq {d \in Caller : at[d] # None}
  BY <1>1, <1>2, <1>3 DEF Shape
<1>9. Shape'
  <2>1. inner' \in [Started' -> {None} \cup Started'] /\ parents' \in [Started' -> SUBSET Started']
    BY <1>3, <1>5, <1>7
  <2>2. counted' \subseteq {d \in Caller : at'[d] # None}
    BY <1>2, <1>3, <1>8
  <2> QED
    BY <1>3, <1>4, <1>6, <1>8, <2>1, <2>2 DEF Shape
<1>10. Listed'
  <2>1. ASSUME NEW g \in Started \ {f} PROVE Holders(g)' \subseteq Holders(g)
    BY <1>2, <1>3, <1>5, <1>8, NoneIsNoFlight DEF Holders
  <2>2. \A g \in Started \ {f} : Holders(g)' # {} => Holders(g) # {}
    BY <2>1
  <2> QED
    BY <1>1, <2>2, ListedAfterFind
<1>11. Tallied'
  <2>1. ASSUME NEW g \in Started' PROVE Wanting(g)' = Wanting(g)
    BY <1>2, <1>8 DEF Wanting
  <2>2. f \notin Started => Wanting(f) = {}
    BY <1>3, <1>8 DEF Wanting
  <2> QED
    BY <1>2, <1>3, <1>6, <2>1, <2>2, FS_EmptySet DEF Tallied
<1>12. Linked'
  BY SMTT(45), <1>2, <1>3, <1>4, <1>5, <1>7 DEF Linked
<1> QED
  BY <1>9, <1>10, <1>11, <1>12 DEF FlightsInv

\* The work of a flight joins the inner work or starts it.
LEMMA CallInnerKeeps ==
    ASSUME FlightsInv, NEW g \in Started, CallInner(g)
    PROVE  FlightsInv'
<1>1. PICK f \in Flight :
        /\ Find(Inner, f)
        /\ inner' = [Grown(inner, f, None) EXCEPT ![g] = f]
        /\ phase' = [Grown(phase, f, "begin") EXCEPT ![g] = "joined"]
        /\ foreground' = Grown(foreground, f, 0)
        /\ parents' = Grown(parents, f, {})
  BY DEF CallInner
<1>2. /\ at' = at /\ counted' = counted /\ phase[g] = "begin" /\ Inner \in Key
      /\ Shape /\ Listed /\ Tallied /\ Linked
  BY DEF CallInner, FlightsInv, Key
<1>3. /\ \E n \in Nat : Started' = 1 .. n
      /\ Started' = Started \cup {f} /\ f # None
      /\ key' \in [Started' -> Key] /\ entry' \in [Key -> {None} \cup Started']
  BY <1>1, <1>2, Finds
<1>4. /\ phase' \in [Started' -> Phases] /\ phase'[g] = "joined"
      /\ \A h \in Started \ {g} : phase'[h] = phase[h]
      /\ f \notin Started => phase'[f] = "begin"
  <2>1. phase \in [Started -> Phases] /\ {"begin", "joined"} \subseteq Phases
    BY <1>2 DEF Shape, Phases
  <2> QED
    BY <1>1, <1>3, <2>1 DEF Grown
<1>5. /\ inner' \in [Started' -> {None} \cup Started'] /\ inner'[g] = f
      /\ \A h \in Started \ {g} : inner'[h] = inner[h]
      /\ f \notin Started => inner'[f] = None
  <2>1. inner \in [Started -> {None} \cup Started]
    BY <1>2 DEF Shape
  <2> QED
    BY <1>1, <1>3, <2>1 DEF Grown
<1>6. /\ foreground' \in [Started' -> Int] /\ \A h \in Started : foreground'[h] = foreground[h]
      /\ f \notin Started => foreground'[f] = 0
  <2>1. foreground \in [Started -> Int]
    BY <1>2 DEF Shape
  <2> QED
    BY <1>1, <1>3, <2>1 DEF Grown
<1>7. /\ parents' \in [Started' -> SUBSET Started'] /\ \A h \in Started : parents'[h] = parents[h]
  <2>1. parents \in [Started -> SUBSET Started]
    BY <1>2 DEF Shape
  <2> QED
    BY <1>1, <1>3, <2>1 DEF Grown
<1>8. at \in [Caller -> {None} \cup Started]
  BY <1>2 DEF Shape
<1>9. Shape'
  <2>1. at' \in [Caller -> {None} \cup Started'] /\ counted' \subseteq {d \in Caller : at'[d] # None}
    BY <1>2, <1>3 DEF Shape
  <2> QED
    BY <1>3, <1>4, <1>5, <1>6, <1>7, <2>1 DEF Shape
<1>10. Listed'
  <2>1. ASSUME NEW h \in Started \ {f} PROVE Holders(h)' \subseteq Holders(h)
    BY <1>2, <1>3, <1>5, NoneIsNoFlight DEF Holders
  <2>2. \A h \in Started \ {f} : Holders(h)' # {} => Holders(h) # {}
    BY <2>1
  <2> QED
    BY <1>1, <1>2, <2>2, ListedAfterFind
<1>11. Tallied'
  <2>1. ASSUME NEW h \in Started' PROVE Wanting(h)' = Wanting(h)
    BY <1>2 DEF Wanting
  <2>2. f \notin Started => Wanting(f) = {}
    BY <1>2, <1>3, <1>8 DEF Wanting, Shape
  <2> QED
    BY <1>2, <1>3, <1>6, <2>1, <2>2, FS_EmptySet DEF Tallied
<1>12. Linked'
  <2> SUFFICES ASSUME NEW h \in Started'
               PROVE  /\ phase'[h] \in {"joined", "waiting"} => inner'[h] \in Started'
                      /\ phase'[h] = "waiting" => h \in parents'[inner'[h]]
    BY DEF Linked
  <2>1. CASE h = g
    BY <1>3, <1>4, <1>5, <2>1
  <2>2. CASE h \in Started \ {g}
    BY <1>2, <1>3, <1>4, <1>5, <1>7, <2>2 DEF Linked
  <2>3. CASE h \notin Started
    BY <1>3, <1>4, <2>3
  <2> QED
    BY <2>1, <2>2, <2>3
<1> QED
  BY <1>9, <1>10, <1>11, <1>12 DEF FlightsInv

\* The sets of callers that want a flight are finite.
LEMMA WantingFinite == \A f : IsFiniteSet(Wanting(f)) /\ Cardinality(Wanting(f)) \in Nat
<1> SUFFICES ASSUME NEW f PROVE IsFiniteSet(Wanting(f)) /\ Cardinality(Wanting(f)) \in Nat
  OBVIOUS
<1>1. Wanting(f) \subseteq Caller
  BY FlightsAssumption DEF Wanting
<1> QED
  BY <1>1, FlightsAssumption, FS_Subset, FS_CardinalityType

\* Nobody gains a flight: the map stays right.
LEMMA ListedStays ==
    ASSUME FlightsInv, UNCHANGED <<entry, key>>,
           \A f \in Started : Holders(f)' \subseteq Holders(f)
    PROVE  Listed'
BY DEF FlightsInv, Listed, Started

\* The interest of a caller is counted.
LEMMA CountKeeps ==
    ASSUME FlightsInv, NEW c \in Caller, Count(c)
    PROVE  FlightsInv'
<1>1. /\ Shape /\ Listed /\ Tallied /\ Linked
      /\ at[c] # None /\ c \notin counted /\ counted' = counted \cup {c}
      /\ UNCHANGED <<entry, key, phase, inner, parents, at>> /\ Started' = Started
  BY DEF Count, FlightsInv, Started
<1>2. at[c] \in Started /\ foreground \in [Started -> Int]
  BY <1>1 DEF Shape
<1>3. foreground' = [foreground EXCEPT ![at[c]] = IF c \in Foreground THEN @ + 1 ELSE @]
  BY <1>2 DEF Count
<1>4. Shape'
  <2>1. foreground' \in [Started -> Int]
    BY <1>2, <1>3
  <2>2. counted' \subseteq {d \in Caller : at'[d] # None}
    BY <1>1 DEF Shape
  <2> QED
    BY <1>1, <2>1, <2>2 DEF Shape
<1>5. Listed'
  BY <1>1, ListedStays DEF Holders
<1>6. Tallied'
  <2> SUFFICES ASSUME NEW f \in Started PROVE foreground'[f] = Cardinality(Wanting(f)')
    BY <1>1 DEF Tallied
  <2>1. CASE f = at[c] /\ c \in Foreground
    <3>1. Wanting(f)' = Wanting(f) \cup {c} /\ c \notin Wanting(f)
      BY <1>1, <2>1 DEF Wanting
    <3>2. Cardinality(Wanting(f) \cup {c}) = Cardinality(Wanting(f)) + 1
      BY <3>1, WantingFinite, FS_AddElement
    <3> QED
      BY <1>1, <1>2, <1>3, <2>1, <3>1, <3>2 DEF Tallied
  <2>2. CASE ~(f = at[c] /\ c \in Foreground)
    <3>1. Wanting(f)' = Wanting(f)
      BY <1>1, <2>2 DEF Wanting
    <3> QED
      BY <1>1, <1>2, <1>3, <2>2, <3>1 DEF Tallied
  <2> QED
    BY <2>1, <2>2
<1>7. Linked'
  BY <1>1 DEF Linked
<1> QED
  BY <1>4, <1>5, <1>6, <1>7 DEF FlightsInv

\* A caller leaves, answered or cancelled.
LEMMA LeaveKeeps ==
    ASSUME FlightsInv, NEW c \in Caller, Answer(c) \/ Cancel(c)
    PROVE  FlightsInv'
<1>1. /\ Shape /\ Listed /\ Tallied /\ Linked
      /\ c \in counted /\ counted' = counted \ {c} /\ at' = [at EXCEPT ![c] = None]
      /\ UNCHANGED <<entry, key, phase, inner, parents>> /\ Started' = Started
  BY DEF Answer, Cancel, Leave, FlightsInv, Started
<1>2. at[c] \in Started /\ foreground \in [Started -> Int] /\ at \in [Caller -> {None} \cup Started]
  BY <1>1 DEF Shape
<1>3. foreground' = [foreground EXCEPT ![at[c]] = IF c \in Foreground THEN @ - 1 ELSE @]
  BY <1>2 DEF Answer, Cancel, Discount
<1>4. Shape'
  <2>1. foreground' \in [Started -> Int]
    BY <1>2, <1>3
  <2>2. /\ at' \in [Caller -> {None} \cup Started]
        /\ counted' \subseteq {d \in Caller : at'[d] # None}
    BY <1>1, <1>2 DEF Shape
  <2> QED
    BY <1>1, <2>1, <2>2 DEF Shape
<1>5. Listed'
  <2>1. \A f \in Started : Holders(f)' \subseteq Holders(f)
    BY <1>1, <1>2, NoneIsNoFlight DEF Holders
  <2> QED
    BY <1>1, <2>1, ListedStays
<1>6. Tallied'
  <2> SUFFICES ASSUME NEW f \in Started PROVE foreground'[f] = Cardinality(Wanting(f)')
    BY <1>1 DEF Tallied
  <2>1. CASE f = at[c] /\ c \in Foreground
    <3>1. Wanting(f)' = Wanting(f) \ {c} /\ c \in Wanting(f)
      BY <1>1, <1>2, <2>1 DEF Wanting
    <3>2. Cardinality(Wanting(f) \ {c}) = Cardinality(Wanting(f)) - 1
      BY <3>1, WantingFinite, FS_RemoveElement
    <3> QED
      BY <1>1, <1>2, <1>3, <2>1, <3>1, <3>2 DEF Tallied
  <2>2. CASE ~(f = at[c] /\ c \in Foreground)
    <3>1. Wanting(f)' = Wanting(f)
      BY <1>1, <1>2, <2>2 DEF Wanting
    <3> QED
      BY <1>1, <1>2, <1>3, <2>2, <3>1 DEF Tallied
  <2> QED
    BY <2>1, <2>2
<1>7. Linked'
  BY <1>1 DEF Linked
<1> QED
  BY <1>4, <1>5, <1>6, <1>7 DEF FlightsInv

\* The inner work learns who waits for it; those whose demand is gone are
\* forgotten, and nobody who still waits is among them.
LEMMA AddParentKeeps ==
    ASSUME FlightsInv, NEW g \in Started, AddParent(g)
    PROVE  FlightsInv'
<1> DEFINE f == inner[g]
<1>1. /\ Shape /\ Listed /\ Tallied /\ Linked /\ phase[g] = "joined"
      /\ phase' = [phase EXCEPT ![g] = "waiting"]
      /\ parents' = [parents EXCEPT ![f] = WithParent(f, g)]
      /\ UNCHANGED <<entry, key, inner, foreground, at, counted>> /\ Started' = Started
  BY DEF AddParent, FlightsInv, Started
<1>2. /\ f \in Started /\ WithParent(f, g) \in SUBSET Started /\ g \in WithParent(f, g)
      /\ parents \in [Started -> SUBSET Started] /\ phase \in [Started -> Phases]
  BY <1>1 DEF Shape, Linked, WithParent
<1>3. \A h \in Started : phase[h] = "waiting" /\ inner[h] = f => h \in WithParent(f, g)
  BY <1>1 DEF Linked, WithParent, DemandLives, Unfinished
<1> HIDE DEF f
<1>4. Shape'
  <2>1. parents' \in [Started -> SUBSET Started] /\ phase' \in [Started -> Phases]
    BY <1>1, <1>2 DEF Phases
  <2> QED
    BY <1>1, <2>1 DEF Shape
<1>5. Listed' /\ Tallied'
  BY <1>1 DEF Listed, Tallied, Holders, Wanting
<1>6. Linked'
  <2> SUFFICES ASSUME NEW h \in Started
               PROVE  /\ phase'[h] \in {"joined", "waiting"} => inner'[h] \in Started
                      /\ phase'[h] = "waiting" => h \in parents'[inner'[h]]
    BY <1>1 DEF Linked
  <2>1. CASE h = g
    BY <1>1, <1>2, <2>1 DEF f
  <2>2. CASE h # g /\ inner[h] = f
    BY <1>1, <1>2, <1>3, <2>2 DEF Linked
  <2>3. CASE h # g /\ inner[h] # f
    BY <1>1, <1>2, <2>3 DEF Linked
  <2> QED
    BY <2>1, <2>2, <2>3
<1> QED
  BY <1>4, <1>5, <1>6 DEF FlightsInv

\* Work ends or is dropped.
LEMMA EndKeeps ==
    ASSUME FlightsInv, NEW g \in Started, Finish(g) \/ GiveUp(g) \/ Drop(g)
    PROVE  FlightsInv'
<1>1. /\ Shape /\ Listed /\ Tallied /\ Linked
      /\ \E s \in {"done", "dropped"} : phase' = [phase EXCEPT ![g] = s]
      /\ inner' = [inner EXCEPT ![g] = None]
      /\ UNCHANGED <<entry, key, foreground, parents, at, counted>> /\ Started' = Started
  BY DEF Finish, GiveUp, End, Drop, FlightsInv, Started
<1>2. /\ phase \in [Started -> Phases] /\ inner \in [Started -> {None} \cup Started]
      /\ phase' \in [Started -> Phases] /\ inner' \in [Started -> {None} \cup Started]
  BY <1>1 DEF Shape, Phases
<1>3. Shape'
  BY <1>1, <1>2 DEF Shape
<1>4. Listed'
  <2>1. \A f \in Started : Holders(f)' \subseteq Holders(f)
    BY <1>1, <1>2, NoneIsNoFlight DEF Holders
  <2> QED
    BY <1>1, <2>1, ListedStays
<1>5. Tallied'
  BY <1>1 DEF Tallied, Wanting
<1>6. Linked'
  BY <1>1, <1>2 DEF Linked
<1> QED
  BY <1>3, <1>4, <1>5, <1>6 DEF FlightsInv

LEMMA FlightsInit == Init => FlightsInv
<1> SUFFICES ASSUME Init PROVE FlightsInv
  OBVIOUS
<1>1. Started = {}
  BY DEF Init, Started
<1>2. Started = 1 .. 0
  BY <1>1
<1> QED
  BY <1>1, <1>2 DEF Init, FlightsInv, Shape, Listed, Tallied, Linked, Key, None

\* The invariant of every reachable state.
THEOREM FlightsInvariant == Spec => []FlightsInv
<1>1. FlightsInv /\ Next => FlightsInv'
  BY CallKeeps, CallInnerKeeps, CountKeeps, LeaveKeeps, AddParentKeeps, EndKeeps DEF Next
<1>2. FlightsInv /\ UNCHANGED vars => FlightsInv'
  BY DEF vars, FlightsInv, Shape, Listed, Tallied, Linked, Holders, Wanting, Started
<1> QED
  BY <1>1, <1>2, FlightsInit, PTL DEF Spec

\* No two flights of one key run with callers: work is done once.
THEOREM AlwaysOneFlight == Spec => []OneFlight
<1>1. FlightsInv => OneFlight
  BY DEF FlightsInv, Listed, OneFlight
<1> QED
  BY <1>1, FlightsInvariant, PTL

\* A demand that counts somebody is not zero, and only then.
LEMMA CountsSomebody ==
    ASSUME FlightsInv, NEW f \in Started
    PROVE  foreground[f] # 0 <=> Wanting(f) # {}
<1>1. Cardinality(Wanting(f)) = 0 <=> Wanting(f) = {}
  BY WantingFinite, FS_EmptySet
<1> QED
  BY <1>1 DEF FlightsInv, Tallied

\* A foreground request is seen by the work it waits for and by the inner
\* work of that, however they were joined.
THEOREM AlwaysSeen == Spec => []DemandSeen
<1>1. ASSUME FlightsInv, NEW c \in counted \cap Foreground
      PROVE  /\ Unfinished(at[c]) => Active(at[c])
             /\ phase[at[c]] = "waiting" => Active(inner[at[c]])
  <2>1. at[c] \in Started /\ c \in Wanting(at[c])
    BY <1>1 DEF FlightsInv, Shape, Wanting
  <2>2. foreground[at[c]] # 0
    BY <1>1, <2>1, CountsSomebody
  <2>3. phase[at[c]] = "waiting" => at[c] \in parents[inner[at[c]]] /\ DemandLives(at[c])
    BY <1>1, <2>1 DEF FlightsInv, Linked, DemandLives, Unfinished
  <2> QED
    BY <2>2, <2>3 DEF Active
<1>2. FlightsInv => DemandSeen
  BY <1>1 DEF DemandSeen
<1> QED
  BY <1>2, FlightsInvariant, PTL

\* No demand outlives the foreground requests that made it.
THEOREM DemandAlwaysEnds == Spec => []DemandEnds
<1>1. ASSUME FlightsInv, NEW f \in Started, Active(f)
      PROVE  \E c \in counted \cap Foreground : at[c] \in {f} \cup parents[f]
  <2>1. PICK g \in {f} \cup parents[f] : foreground[g] # 0
    BY <1>1 DEF Active
  <2>2. g \in Started
    BY <1>1 DEF FlightsInv, Shape
  <2>3. PICK c : c \in Wanting(g)
    BY <1>1, <2>1, <2>2, CountsSomebody
  <2> QED
    BY <2>1, <2>3 DEF Wanting
<1>2. FlightsInv => DemandEnds
  BY <1>1 DEF DemandEnds
<1> QED
  BY <1>2, FlightsInvariant, PTL

-----------------------------------------------------------------------------
(* The bundle scan: slots and heights.                                     *)

LEMMA TimesGrows == ASSUME NEW a \in Int, NEW b \in Int, NEW w \in Nat PROVE a <= b => a * w <= b * w
<1> SUFFICES ASSUME a <= b PROVE a * w <= b * w
  OBVIOUS
<1>1. PICK d \in Nat : b = a + d
  <2>1. b - a \in Nat /\ b = a + (b - a)
    OBVIOUS
  <2> QED
    BY <2>1
<1>2. d * w >= 0
  OBVIOUS
<1>3. b * w = a * w + d * w
  BY <1>1
<1>4. a * w \in Int /\ d * w \in Int
  OBVIOUS
<1> QED
  BY <1>2, <1>3, <1>4

\* Slots and heights are in the same order.
LEMMA SlotsByHeight ==
    ASSUME ScanAssumption, NEW s \in Nat, NEW h \in Int
    PROVE  /\ HeightOf(s) \in Nat
           /\ HeightOf(s) <= h <=> s <= LastSlot(h)
           /\ HeightOf(s) >= h <=> s >= FirstSlot(h)
           /\ LastSlot(h) \in Int /\ FirstSlot(h) = LastSlot(h - 1) + 1
<1>1. Width \in Nat /\ Width > 0
  BY DEF ScanAssumption
<1>2. PICK q : q = (s - 1) \div Width
  OBVIOUS
<1>3. q \in Int /\ q * Width <= s - 1 /\ s - 1 < q * Width + Width
  BY <1>1, <1>2
<1>4. (q + 1) * Width = q * Width + Width /\ q * Width \in Int /\ q >= -1
  <2>1. (q + 1) * Width = q * Width + Width /\ q * Width \in Int
    BY <1>1, <1>3
  <2>2. ~(q + 1 <= -1)
    <3>1. q + 1 <= -1 => (q + 1) * Width <= (-1) * Width
      BY <1>1, <1>3, TimesGrows
    <3>2. (-1) * Width = -Width
      BY <1>1
    <3>3. PICK x, y : x = (q + 1) * Width /\ y = q * Width
      OBVIOUS
    <3>4. x = y + Width /\ y \in Int /\ s - 1 < y + Width
      BY <1>3, <2>1, <3>3
    <3>5. q + 1 <= -1 => x <= -Width
      BY <3>1, <3>2, <3>3
    <3>6. ~(x <= -Width)
      BY <1>1, <3>4
    <3> QED
      BY <3>5, <3>6
  <2> QED
    BY <1>3, <2>1, <2>2
<1>5. ASSUME NEW g \in Int PROVE (q + 1 <= g <=> s <= g * Width) /\ g * Width \in Int
  <2>1. g * Width \in Int
    BY <1>1
  <2>2. q + 1 <= g => (q + 1) * Width <= g * Width
    BY <1>1, <1>3, TimesGrows
  <2>3. g <= q => g * Width <= q * Width
    BY <1>1, <1>3, TimesGrows
  <2>4. PICK x, y, z : x = g * Width /\ y = q * Width /\ z = (q + 1) * Width
    OBVIOUS
  <2>5. x \in Int /\ y \in Int /\ z = y + Width /\ y <= s - 1 /\ s - 1 < y + Width
    BY <1>3, <1>4, <2>1, <2>4
  <2>6. (q + 1 <= g => z <= x) /\ (g <= q => x <= y)
    BY <2>2, <2>3, <2>4
  <2>7. q + 1 <= g => s <= x
    BY <1>1, <2>5, <2>6
  <2>8. g <= q => ~(s <= x)
    BY <2>5, <2>6
  <2> QED
    BY <1>3, <2>1, <2>4, <2>7, <2>8
<1>6. HeightOf(s) = q + 1
  BY <1>2 DEF HeightOf
<1>7. HeightOf(s) >= h <=> ~(q + 1 <= h - 1)
  BY <1>3, <1>6
<1>8. (q + 1 <= h - 1 <=> s <= (h - 1) * Width) /\ (h - 1) * Width \in Int /\ h * Width \in Int
      /\ (q + 1 <= h <=> s <= h * Width)
  BY <1>5
<1>9. LastSlot(h) = h * Width /\ FirstSlot(h) = (h - 1) * Width + 1 /\ LastSlot(h - 1) = (h - 1) * Width
  BY DEF LastSlot, FirstSlot
<1>10. PICK a, b : a = h * Width /\ b = (h - 1) * Width
  OBVIOUS
<1> QED
  BY <1>3, <1>4, <1>6, <1>7, <1>8, <1>9, <1>10

LEMMA SlotsAre == ASSUME ScanAssumption PROVE \E n \in Nat : Slot = 1 .. n
<1>1. 1 \in DOMAIN Forks /\ Forks[1] \in Seq(Root \cup {Empty})
  BY DEF ScanAssumption
<1> QED
  BY <1>1 DEF Slot

LEMMA SlotHeights == ASSUME ScanAssumption, NEW s \in Slot PROVE s \in Nat /\ s > 0 /\ HeightOf(s) \in Nat
<1>1. PICK n \in Nat : Slot = 1 .. n
  BY SlotsAre
<1>2. s \in Nat /\ s > 0
  BY <1>1
<1>3. HeightOf(s) \in Nat
  BY <1>2, SlotsByHeight
<1> QED
  BY <1>2, <1>3

LEMMA HeightsGrow == ASSUME ScanAssumption, NEW s \in Nat, NEW t \in Nat, s <= t PROVE HeightOf(s) <= HeightOf(t)
<1>1. PICK h : h = HeightOf(t)
  OBVIOUS
<1>2. h \in Nat
  BY <1>1, SlotsByHeight
<1>3. t <= LastSlot(h) /\ LastSlot(h) \in Int
  BY <1>1, <1>2, SlotsByHeight
<1>4. s <= LastSlot(h)
  BY <1>3
<1> QED
  BY <1>1, <1>2, <1>4, SlotsByHeight

-----------------------------------------------------------------------------
Unproposed == Nat \cup {Unset}
Cursors == [boundary : Nat, live : Unproposed, backfill : Unproposed]

\* A slot that the pass has still to come to, at its stage.
ToCome(s) ==
    \/ HeightOf(s) > cursor.boundary /\ discovery # "backfill" /\ (cursor.live = Unset \/ s > cursor.live)
    \/ HeightOf(s) <= cursor.boundary /\ (cursor.backfill = Unset \/ s < cursor.backfill)

\* What was below this height when the pass began has been there ever since.
Places(r, h) == {s \in Slot : RootAt(s) = r /\ HeightOf(s) \in Start .. h}
Awaited(r, h) ==
    /\ discovery \in {"live", "backfill"} => h <= described
    /\ Places(r, h) # {} /\ \A s \in Places(r, h) : ToCome(s)

Cursored ==
    /\ stored \in Cursors \cup {Unset} /\ cursor \in Cursors \cup {Unset} /\ pageStart \in Cursors \cup {Unset}
    /\ cursor = Unset => discovery = "none"
Chained ==
    /\ fork \in DOMAIN Forks /\ tip \in Nat /\ stable \in Nat /\ metadata \in Nat /\ described \in Nat
    /\ metadata <= tip
PassInv ==
    /\ unseen # {} => cursor # Unset
    /\ \A r \in unseen : r \in Root \ complete /\ \E h \in 0 .. metadata : Awaited(r, h)
ScanInv == Chained /\ Cursored /\ PassInv

LEMMA LeastIs == ASSUME NEW S, S \subseteq Nat, S # {} PROVE Min(S) \in S /\ \A y \in S : Min(S) <= y
<1>1. \E x \in S : \A y \in S : x <= y
  BY LeastNatural
<1> QED
  BY <1>1 DEF Min

LEMMA GreatestIs == ASSUME NEW S, S \subseteq Nat, IsFiniteSet(S), S # {} PROVE Max(S) \in S /\ \A y \in S : y <= Max(S)
<1>1. \E x \in S : \A y \in S : x >= y
  <2>1. PICK x \in S : \A y \in S : y <= x
    BY GreatestNatural
  <2>2. \A y \in S : x >= y
    BY <2>1
  <2> QED
    BY <2>2
<1>2. Max(S) \in S /\ \A y \in S : Max(S) >= y
  BY <1>1 DEF Max
<1> QED
  BY <1>2

\* A page is what comes next, and is empty only if nothing does.
LEMMA LowestTells ==
    ASSUME ScanAssumption, NEW S, S \subseteq Nat, IsFiniteSet(S)
    PROVE  /\ Lowest(S) \subseteq S /\ (S # {} => Lowest(S) # {})
           /\ \A s \in S \ Lowest(S), p \in Lowest(S) : p < s
<1>1. PageSize \in Nat /\ PageSize > 0
  BY DEF ScanAssumption
<1>2. Lowest(S) \subseteq S
  BY DEF Lowest
<1>3. ASSUME S # {} PROVE Lowest(S) # {}
  <2>1. PICK s \in S : \A y \in S : s <= y
    BY <1>3, LeastNatural
  <2>2. {x \in S : x < s} = {}
    <3>1. s \in Nat /\ \A y \in S : y \in Nat
      OBVIOUS
    <3>2. \A y \in S : ~(y < s)
      BY <2>1, <3>1
    <3> QED
      BY <3>2
  <2>3. Cardinality({x \in S : x < s}) = 0
    BY <2>2, FS_EmptySet
  <2> QED
    BY <1>1, <2>3 DEF Lowest
<1>4. ASSUME NEW s \in S, s \notin Lowest(S), NEW p \in Lowest(S) PROVE p < s
  <2>1. PICK A, B : A = {x \in S : x < s} /\ B = {x \in S : x < p}
    OBVIOUS
  <2>2. p \in S /\ Cardinality(B) < PageSize /\ ~(Cardinality(A) < PageSize)
    BY <1>4, <2>1 DEF Lowest
  <2>3. IsFiniteSet(A) /\ IsFiniteSet(B)
    BY <2>1, FS_Subset
  <2>4. Cardinality(A) \in Nat /\ Cardinality(B) \in Nat
    BY <2>3, FS_CardinalityType
  <2>8. p \in Nat /\ s \in Nat
    BY <2>2
  <2>5. SUFFICES ASSUME s <= p PROVE FALSE
    BY <2>8
  <2>6. A \subseteq B
    <3>1. s \in Nat /\ p \in Nat /\ \A y \in S : y \in Nat
      BY <2>2
    <3>2. \A y \in S : y < s => y < p
      BY <2>5, <3>1
    <3> QED
      BY <2>1, <3>2
  <2>7. Cardinality(A) <= Cardinality(B)
    BY <2>3, <2>6, FS_Subset
  <2> QED
    BY <1>1, <2>2, <2>4, <2>7
<1> QED
  BY <1>2, <1>3, <1>4

LEMMA HighestTells ==
    ASSUME ScanAssumption, NEW S, S \subseteq Nat, IsFiniteSet(S)
    PROVE  /\ Highest(S) \subseteq S /\ (S # {} => Highest(S) # {})
           /\ \A s \in S \ Highest(S), p \in Highest(S) : s < p
<1>1. PageSize \in Nat /\ PageSize > 0
  BY DEF ScanAssumption
<1>2. Highest(S) \subseteq S
  BY DEF Highest
<1>3. ASSUME S # {} PROVE Highest(S) # {}
  <2>1. PICK s \in S : \A y \in S : y <= s
    BY <1>3, GreatestNatural
  <2>2. {x \in S : x > s} = {}
    <3>1. s \in Nat /\ \A y \in S : y \in Nat
      OBVIOUS
    <3>2. \A y \in S : ~(y > s)
      BY <2>1, <3>1
    <3> QED
      BY <3>2
  <2>3. Cardinality({x \in S : x > s}) = 0
    BY <2>2, FS_EmptySet
  <2> QED
    BY <1>1, <2>3 DEF Highest
<1>4. ASSUME NEW s \in S, s \notin Highest(S), NEW p \in Highest(S) PROVE s < p
  <2>1. PICK A, B : A = {x \in S : x > s} /\ B = {x \in S : x > p}
    OBVIOUS
  <2>2. p \in S /\ Cardinality(B) < PageSize /\ ~(Cardinality(A) < PageSize)
    BY <1>4, <2>1 DEF Highest
  <2>3. IsFiniteSet(A) /\ IsFiniteSet(B)
    BY <2>1, FS_Subset
  <2>4. Cardinality(A) \in Nat /\ Cardinality(B) \in Nat
    BY <2>3, FS_CardinalityType
  <2>8. p \in Nat /\ s \in Nat
    BY <2>2
  <2>5. SUFFICES ASSUME p <= s PROVE FALSE
    BY <2>8
  <2>6. A \subseteq B
    <3>1. s \in Nat /\ p \in Nat /\ \A y \in S : y \in Nat
      BY <2>2
    <3>2. \A y \in S : y > s => y > p
      BY <2>5, <3>1
    <3> QED
      BY <2>1, <3>2
  <2>7. Cardinality(A) <= Cardinality(B)
    BY <2>3, <2>6, FS_Subset
  <2> QED
    BY <1>1, <2>2, <2>4, <2>7
<1> QED
  BY <1>2, <1>3, <1>4

\* The heights that the two queries cover.
LEMMA LiveWindow ==
    ASSUME ScanAssumption, Chained, cursor \in Cursors
    PROVE  /\ cursor.boundary \in Nat /\ LiveLow \in Nat /\ LiveLow > cursor.boundary
           /\ LiveLow = High(Start, cursor.boundary + 1)
           /\ LiveHigh \in Nat /\ LiveHigh <= described
           /\ \A g \in Nat : g >= Start /\ g > cursor.boundary => g >= LiveLow
<1>1. PICK b, l : b = cursor.boundary /\ l = cursor.live
  OBVIOUS
<1>2. b \in Nat /\ l \in Nat \cup {Unset} /\ Start \in Nat /\ Span \in Nat /\ Span > 1 /\ described \in Nat
  BY <1>1 DEF Cursors, Unproposed, ScanAssumption, Chained
<1>3. LiveLow = High(Start, b + 1) /\ LiveLow \in Nat /\ LiveLow > b /\ \A g \in Nat : g >= Start /\ g > b => g >= LiveLow
  BY <1>1, <1>2 DEF LiveLow, High
<1>4. PICK f : f = IF l = Unset THEN LiveLow ELSE High(HeightOf(l), LiveLow)
  OBVIOUS
<1>5. f \in Nat
  <2>1. l # Unset => HeightOf(l) \in Nat
    BY <1>2, SlotsByHeight
  <2> QED
    BY <1>3, <1>4, <2>1 DEF High
<1>6. LiveHigh = Low(described, f + Span - 1)
  BY <1>1, <1>4 DEF LiveHigh
<1>7. LiveHigh \in Nat /\ LiveHigh <= described
  BY <1>2, <1>5, <1>6 DEF Low
<1> QED
  BY <1>1, <1>2, <1>3, <1>7

LEMMA BackWindow ==
    ASSUME ScanAssumption, Chained, cursor \in Cursors
    PROVE  /\ cursor.boundary \in Nat /\ BackLow \in Nat /\ BackLow >= Start
           /\ BackEnd \in Nat /\ BackEnd <= cursor.boundary /\ BackEnd <= described
           /\ \A g \in Nat : g <= cursor.boundary /\ g <= described => g <= BackEnd
<1>1. PICK b, l : b = cursor.boundary /\ l = cursor.backfill
  OBVIOUS
<1>2. b \in Nat /\ l \in Nat \cup {Unset} /\ Start \in Nat /\ Span \in Nat /\ Span > 1 /\ described \in Nat
  BY <1>1 DEF Cursors, Unproposed, ScanAssumption, Chained
<1>3. /\ BackEnd \in Nat /\ BackEnd <= b /\ BackEnd <= described
      /\ \A g \in Nat : g <= b /\ g <= described => g <= BackEnd
  BY <1>1, <1>2 DEF BackEnd, Low
<1>4. PICK t : t = IF l = Unset THEN BackEnd ELSE Low(HeightOf(l), BackEnd)
  OBVIOUS
<1>5. t \in Nat
  <2>1. l # Unset => HeightOf(l) \in Nat
    BY <1>2, SlotsByHeight
  <2> QED
    BY <1>3, <1>4, <2>1 DEF Low
<1>6. BackLow = High(Start, High(0, t - (Span - 1)))
  BY <1>1, <1>4 DEF BackLow
<1>7. BackLow \in Nat /\ BackLow >= Start
  BY <1>2, <1>5, <1>6 DEF High
<1> QED
  BY <1>1, <1>2, <1>3, <1>7

LEMMA CursorMoves ==
    ASSUME NEW c \in Cursors, NEW x \in Unproposed
    PROVE  /\ [c EXCEPT !.live = x] \in Cursors /\ [c EXCEPT !.live = x].live = x
           /\ [c EXCEPT !.live = x].boundary = c.boundary /\ [c EXCEPT !.live = x].backfill = c.backfill
           /\ [c EXCEPT !.backfill = x] \in Cursors /\ [c EXCEPT !.backfill = x].live = c.live
           /\ [c EXCEPT !.backfill = x].boundary = c.boundary /\ [c EXCEPT !.backfill = x].backfill = x
           /\ c \in Cursors /\ c.boundary \in Nat /\ c.live \in Unproposed /\ c.backfill \in Unproposed
BY DEF Cursors

LEMMA CursorsReal == ASSUME ScanAssumption PROVE Unset \notin Cursors
BY DEF ScanAssumption, Cursors, Unproposed

Querying == discovery \in {"live", "backfill"}

\* What a step of the scan or of a job has to leave.
LEMMA ScanKept ==
    ASSUME ScanInv, Chained', Cursored', fork' = fork, tip' = tip, metadata' = metadata, unseen' \subseteq unseen,
           \A r \in unseen' : r \notin complete', cursor' = Unset => unseen' = {},
           \A h \in 0 .. metadata : (Querying => h <= described) => (Querying' => h <= described'),
           \A h \in 0 .. metadata, s \in Slot :
               (Querying => h <= described) /\ RootAt(s) \in unseen' /\ HeightOf(s) \in Start .. h /\ ToCome(s) => ToCome(s)'
    PROVE  ScanInv'
<1>1. \A s \in Slot : RootAt(s)' = RootAt(s)
  BY DEF RootAt
<1>2. ASSUME NEW r \in unseen' PROVE r \in Root \ complete' /\ \E h \in 0 .. metadata' : Awaited(r, h)'
  <2>1. r \in unseen /\ r \in Root \ complete'
    BY DEF ScanInv, PassInv
  <2>2. PICK h \in 0 .. metadata : Awaited(r, h)
    BY <2>1 DEF ScanInv, PassInv
  <2>3. (Querying => h <= described) /\ Places(r, h) # {} /\ \A s \in Places(r, h) : ToCome(s)
    BY <2>2 DEF Awaited, Querying
  <2>4. Places(r, h)' = Places(r, h)
    BY <1>1 DEF Places
  <2>5. \A s \in Places(r, h) : ToCome(s)'
    BY <2>3 DEF Places
  <2>6. Querying' => h <= described'
    BY <2>3
  <2>7. Awaited(r, h)'
    BY <2>3, <2>4, <2>5, <2>6 DEF Awaited, Querying
  <2> QED
    BY <2>1, <2>7
<1> QED
  BY <1>2 DEF ScanInv, PassInv

\* A pass begins: all that it has to find is before it.
LEMMA PassBegins ==
    ASSUME ScanAssumption, Chained, Chained', Cursored', fork' = fork, tip' = tip, metadata' = metadata, complete' = complete,
           unseen' = ToFind, discovery' = "none", cursor' \in Cursors, cursor'.live = Unset, cursor'.backfill = Unset
    PROVE  ScanInv'
<1>1. \A s \in Slot : RootAt(s)' = RootAt(s)
  BY DEF RootAt
<1>2. cursor' # Unset
  BY CursorsReal
<1>3. \A s \in Slot : ToCome(s)'
  <2>1. ASSUME NEW s \in Slot PROVE ToCome(s)'
    <3>1. PICK g, b : g = HeightOf(s) /\ b = cursor'.boundary
      OBVIOUS
    <3>2. g \in Nat /\ b \in Nat
      BY <3>1, SlotHeights DEF Cursors
    <3>3. g > b \/ g <= b
      BY <3>2
    <3> QED
      BY <3>1, <3>3 DEF ToCome
  <2> QED
    BY <2>1
<1>4. ASSUME NEW r \in unseen' PROVE r \in Root \ complete' /\ \E h \in 0 .. metadata' : Awaited(r, h)'
  <2>1. PICK s \in Slot : Pending(s) /\ HeightOf(s) \in Start .. metadata /\ r = RootAt(s)
    BY <1>4 DEF ToFind
  <2>2. r \in Root \ complete
    BY <2>1 DEF Pending
  <2>3. s \in Places(r, metadata)'
    BY <1>1, <2>1 DEF Places
  <2>4. \A t \in Places(r, metadata)' : ToCome(t)'
    BY <1>3 DEF Places
  <2>5. Awaited(r, metadata)'
    BY <2>3, <2>4 DEF Awaited
  <2>6. metadata' \in 0 .. metadata' /\ metadata \in 0 .. metadata'
    BY DEF Chained
  <2> QED
    BY <2>2, <2>5, <2>6
<1> QED
  BY <1>2, <1>4 DEF ScanInv, PassInv

\* The chain changes above what stays described.
LEMMA ChainMoves ==
    ASSUME ScanAssumption, ScanInv, Chained', UNCHANGED <<complete, stored, scan>>, unseen' = unseen \cap ToFind',
           \A s \in Slot : HeightOf(s) <= metadata /\ HeightOf(s) <= metadata' => RootAt(s)' = RootAt(s)
    PROVE  ScanInv'
<1>1. /\ complete' = complete /\ cursor' = cursor /\ discovery' = discovery /\ described' = described
      /\ pageStart' = pageStart /\ stored' = stored
  BY DEF scan, query
<1>2. Cursored'
  BY <1>1 DEF ScanInv, Cursored
<1>3. \A s \in Slot : ToCome(s)' <=> ToCome(s)
  BY <1>1 DEF ToCome
<1>4. \A s \in Slot : HeightOf(s) \in Nat
  BY SlotHeights
<1>5. Start \in Nat /\ metadata \in Nat /\ metadata' \in Nat
  BY DEF ScanAssumption, ScanInv, Chained
<1>6. ASSUME NEW r \in unseen' PROVE r \in Root \ complete' /\ \E h \in 0 .. metadata' : Awaited(r, h)'
  <2>1. r \in unseen /\ r \in ToFind' /\ r \in Root \ complete'
    BY <1>1 DEF ScanInv, PassInv
  <2>2. PICK h \in 0 .. metadata : Awaited(r, h)
    BY <2>1 DEF ScanInv, PassInv
  <2>3. (Querying => h <= described) /\ Places(r, h) # {} /\ \A s \in Places(r, h) : ToCome(s)
    BY <2>2 DEF Awaited, Querying
  <2>4. PICK x : x \in Slot /\ RootAt(x)' = r /\ HeightOf(x) \in Start .. metadata'
    BY <2>1 DEF ToFind
  <2>5. PICK k : k \in 0 .. h /\ k <= metadata' /\ (k = h \/ k = metadata')
    <3>1. CASE h <= metadata'
      <4>1. h \in 0 .. h
        OBVIOUS
      <4> QED
        BY <3>1, <4>1
    <3>2. CASE ~(h <= metadata')
      <4>1. metadata' \in 0 .. h /\ metadata' <= metadata'
        BY <1>5, <3>2
      <4> QED
        BY <4>1
    <3> QED
      BY <3>1, <3>2
  <2>6. k \in 0 .. metadata' /\ k <= h /\ k <= metadata
    BY <1>5, <2>5
  <2>7. \A s \in Slot : HeightOf(s) \in Start .. k => RootAt(s)' = RootAt(s) /\ HeightOf(s) \in Start .. h
    BY <1>4, <1>5, <2>5, <2>6
  <2>8. Places(r, k)' \subseteq Places(r, h)
    BY <2>7 DEF Places
  <2>9. Places(r, k)' # {}
    <3>1. CASE k = h
      <4>1. Places(r, k)' = Places(r, h)
        BY <2>7, <3>1 DEF Places
      <4> QED
        BY <2>3, <4>1
    <3>2. CASE k = metadata'
      <4>1. x \in Places(r, k)'
        BY <2>4, <3>2 DEF Places
      <4> QED
        BY <4>1
    <3> QED
      BY <2>5, <3>1, <3>2
  <2>10. \A s \in Places(r, k)' : ToCome(s)'
    <3>1. \A s \in Places(r, h) : s \in Slot
      BY DEF Places
    <3> QED
      BY <1>3, <2>3, <2>8, <3>1
  <2>11. Querying' => k <= described'
    <3>1. described \in Nat /\ h \in Nat /\ k \in Nat
      BY <1>5, <2>5, <2>6 DEF ScanInv, Chained
    <3> QED
      BY <1>1, <2>3, <2>6, <3>1 DEF Querying
  <2>12. Awaited(r, k)'
    BY <2>9, <2>10, <2>11 DEF Awaited, Querying
  <2> QED
    BY <2>1, <2>6, <2>12
<1>7. unseen' # {} => cursor' # Unset
  BY <1>1 DEF ScanInv, PassInv
<1> QED
  BY <1>2, <1>6, <1>7 DEF ScanInv, PassInv

\* What the steps of the chain leave.
LEMMA ForksShared ==
    ASSUME ScanAssumption, Chained, Reorg
    PROVE  /\ described' = described => Chained'
           /\ \A s \in Slot : HeightOf(s) <= metadata /\ HeightOf(s) <= metadata' => RootAt(s)' = RootAt(s)
<1>1. PICK t : t = tip' /\ t \in stable .. tip
  BY DEF Reorg
<1>2. fork \in DOMAIN Forks /\ tip \in Nat /\ stable \in Nat /\ metadata \in Nat /\ described \in Nat /\ metadata <= tip
  BY DEF Chained
<1>3. t \in Nat /\ t <= tip
  BY <1>1, <1>2
<1>4. metadata' = Low(metadata, t) /\ metadata' \in Nat /\ metadata' <= t /\ metadata' <= metadata
  BY <1>1, <1>2, <1>3 DEF Reorg, Low
<1>5. fork' \in DOMAIN Forks
  <2>1. Forks \in Seq(Seq(Root \cup {Empty})) /\ fork < Len(Forks) /\ fork' = fork + 1
    BY DEF ScanAssumption, Reorg
  <2> QED
    BY <1>2, <2>1
<1>6. \A s \in Slot : HeightOf(s) <= t => Forks[fork][s] = Forks[fork'][s]
  BY <1>1 DEF Reorg
<1>7. \A s \in Slot : HeightOf(s) <= metadata' => HeightOf(s) <= t /\ HeightOf(s) <= tip
  <2>1. ASSUME NEW s \in Slot, HeightOf(s) <= metadata' PROVE HeightOf(s) <= t /\ HeightOf(s) <= tip
    <3>1. PICK g : g = HeightOf(s) /\ g \in Nat
      BY SlotHeights
    <3> QED
      BY <1>2, <1>3, <1>4, <2>1, <3>1
  <2> QED
    BY <2>1
<1>8. \A s \in Slot : HeightOf(s) <= metadata' => RootAt(s)' = RootAt(s)
  BY <1>1, <1>6, <1>7 DEF RootAt
<1>9. described' = described => Chained'
  <2>1. stable' = stable
    BY DEF Reorg
  <2> QED
    BY <1>1, <1>2, <1>3, <1>4, <1>5, <2>1 DEF Chained
<1> QED
  BY <1>8, <1>9

LEMMA ChainStepKeeps == ASSUME ScanAssumption, ScanInv, ChainStep PROVE ScanInv'
<1>1. /\ UNCHANGED <<complete, stored, scan>> /\ unseen' = unseen \cap ToFind' /\ described' = described
      /\ Extend \/ Reorg \/ Describe
  BY DEF ChainStep, scan, query
<1>2. Chained
  BY DEF ScanInv
<1>3. fork \in DOMAIN Forks /\ tip \in Nat /\ stable \in Nat /\ metadata \in Nat /\ described \in Nat /\ metadata <= tip
  BY <1>2 DEF Chained
<1>4. CASE Extend
  <2>1. tip' = tip + 1 /\ fork' = fork /\ stable' = stable /\ metadata' = metadata
    BY <1>4 DEF Extend
  <2>2. Chained'
    BY <1>1, <1>3, <2>1 DEF Chained
  <2>3. ASSUME NEW s \in Slot, HeightOf(s) <= metadata PROVE RootAt(s)' = RootAt(s)
    <3>1. PICK g : g = HeightOf(s) /\ g \in Nat
      BY SlotHeights
    <3>2. g <= tip /\ g <= tip + 1
      BY <1>3, <2>3, <3>1
    <3> QED
      BY <2>1, <3>1, <3>2 DEF RootAt
  <2> QED
    BY <1>1, <2>2, <2>3, ChainMoves
<1>5. CASE Describe
  <2>1. metadata < tip /\ metadata' = metadata + 1 /\ fork' = fork /\ stable' = stable /\ tip' = tip
    BY <1>5 DEF Describe
  <2>2. Chained'
    BY <1>1, <1>3, <2>1 DEF Chained
  <2>3. \A s \in Slot : RootAt(s)' = RootAt(s)
    BY <2>1 DEF RootAt
  <2> QED
    BY <1>1, <2>2, <2>3, ChainMoves
<1>6. CASE Reorg
  <2>1. Chained' /\ \A s \in Slot : HeightOf(s) <= metadata /\ HeightOf(s) <= metadata' => RootAt(s)' = RootAt(s)
    BY <1>1, <1>2, <1>6, ForksShared
  <2> QED
    BY <1>1, <2>1, ChainMoves
<1> QED
  BY <1>1, <1>4, <1>5, <1>6

\* Steps that leave the chain, the stage and the cursors of the pass.
LEMMA AsideKeeps ==
    ASSUME ScanInv, UNCHANGED <<fork, tip, metadata, cursor, query>>, stable' \in Nat,
           stored' \in Cursors \cup {Unset}, pageStart' \in Cursors \cup {Unset},
           unseen' \subseteq unseen, \A r \in unseen' : r \notin complete'
    PROVE  ScanInv'
<1>1. /\ fork' = fork /\ tip' = tip /\ metadata' = metadata /\ cursor' = cursor /\ discovery' = discovery /\ described' = described
  BY DEF query
<1>2. Chained' /\ Cursored'
  BY <1>1 DEF ScanInv, Chained, Cursored
<1>3. \A s \in Slot : ToCome(s)' <=> ToCome(s)
  BY <1>1 DEF ToCome
<1>4. Querying' <=> Querying
  BY <1>1 DEF Querying
<1>5. cursor' = Unset => unseen' = {}
  BY <1>1 DEF ScanInv, PassInv
<1> QED
  BY <1>1, <1>2, <1>3, <1>4, <1>5, ScanKept

LEMMA EligibleFinite ==
    ASSUME ScanAssumption, NEW S, S \subseteq Slot PROVE S \subseteq Nat /\ IsFiniteSet(S)
<1>1. PICK n \in Nat : Slot = 1 .. n
  BY SlotsAre
<1>2. IsFiniteSet(1 .. n)
  BY FS_Interval
<1>3. S \subseteq 1 .. n /\ S \subseteq Nat
  BY <1>1
<1>4. IsFiniteSet(S)
  BY <1>2, <1>3, FS_Subset
<1> QED
  BY <1>3, <1>4

\* What the live query returns.
LEMMA LiveTells ==
    ASSUME ScanAssumption, Chained, cursor \in Cursors
    PROVE  /\ LiveRows \subseteq Slot
           /\ \A p \in LiveRows : HeightOf(p) > cursor.boundary /\ HeightOf(p) <= LiveHigh
                                  /\ (cursor.live = Unset \/ p > cursor.live)
           /\ \A s \in Slot \ LiveRows :
                  Pending(s) /\ HeightOf(s) >= Start /\ HeightOf(s) > cursor.boundary /\ HeightOf(s) <= LiveHigh
                  /\ (cursor.live = Unset \/ s > cursor.live)
                  => LiveRows # {} /\ \A p \in LiveRows : p < s
<1>1. PICK S : S = {s \in Between(LiveLow, LiveHigh) : cursor.live = Unset \/ s > cursor.live}
  OBVIOUS
<1>2. LiveRows = Lowest(S)
  BY <1>1 DEF LiveRows
<1>3. S \subseteq Slot /\ S \subseteq Nat /\ IsFiniteSet(S)
  <2>1. S \subseteq Slot
    BY <1>1 DEF Between
  <2> QED
    BY <2>1, EligibleFinite
<1>4. /\ Lowest(S) \subseteq S /\ (S # {} => Lowest(S) # {})
      /\ \A s \in S \ Lowest(S), p \in Lowest(S) : p < s
  BY <1>3, LowestTells
<1>5. PICK lo, hi, b : lo = LiveLow /\ hi = LiveHigh /\ b = cursor.boundary
  OBVIOUS
<1>6. /\ b \in Nat /\ lo \in Nat /\ hi \in Nat /\ lo > b
      /\ \A g \in Nat : g >= Start /\ g > b => g >= lo
  BY <1>5, LiveWindow
<1>7. ASSUME NEW p \in S PROVE p \in Slot /\ HeightOf(p) > b /\ HeightOf(p) <= hi /\ (cursor.live = Unset \/ p > cursor.live)
  <2>1. p \in Slot /\ HeightOf(p) \in lo .. hi /\ (cursor.live = Unset \/ p > cursor.live)
    BY <1>1, <1>5 DEF Between
  <2>2. PICK g : g = HeightOf(p) /\ g \in Nat
    BY <2>1, SlotHeights
  <2>3. g > b /\ g <= hi
    BY <1>6, <2>1, <2>2
  <2> QED
    BY <2>1, <2>2, <2>3
<1>8. ASSUME NEW s \in Slot, Pending(s), HeightOf(s) >= Start, HeightOf(s) > b, HeightOf(s) <= hi,
             cursor.live = Unset \/ s > cursor.live
      PROVE  s \in S
  <2>1. PICK g : g = HeightOf(s) /\ g \in Nat
    BY SlotHeights
  <2>2. g \in lo .. hi
    <3>1. g >= Start /\ g > b /\ g <= hi
      BY <1>8, <2>1
    <3>2. g >= lo
      BY <1>6, <2>1, <3>1
    <3> QED
      BY <1>6, <2>1, <3>1, <3>2
  <2> QED
    BY <1>1, <1>5, <1>8, <2>1, <2>2 DEF Between
<1>9. \A p \in LiveRows : p \in S
  BY <1>2, <1>4
<1>10. \A s \in S \ LiveRows : LiveRows # {} /\ \A p \in LiveRows : p < s
  BY <1>2, <1>4
<1> QED
  BY <1>5, <1>7, <1>8, <1>9, <1>10

LEMMA BackTells ==
    ASSUME ScanAssumption, Chained, cursor \in Cursors
    PROVE  /\ BackRows \subseteq Slot
           /\ \A p \in BackRows : HeightOf(p) <= cursor.boundary /\ HeightOf(p) >= BackLow
                                  /\ (cursor.backfill = Unset \/ p < cursor.backfill)
           /\ \A s \in Slot \ BackRows :
                  Pending(s) /\ HeightOf(s) >= BackLow /\ HeightOf(s) <= BackEnd
                  /\ (cursor.backfill = Unset \/ s < cursor.backfill)
                  => BackRows # {} /\ \A p \in BackRows : s < p
<1>1. PICK S : S = {s \in Between(BackLow, BackEnd) : cursor.backfill = Unset \/ s < cursor.backfill}
  OBVIOUS
<1>2. BackRows = Highest(S)
  BY <1>1 DEF BackRows
<1>3. S \subseteq Slot /\ S \subseteq Nat /\ IsFiniteSet(S)
  <2>1. S \subseteq Slot
    BY <1>1 DEF Between
  <2> QED
    BY <2>1, EligibleFinite
<1>4. /\ Highest(S) \subseteq S /\ (S # {} => Highest(S) # {})
      /\ \A s \in S \ Highest(S), p \in Highest(S) : s < p
  BY <1>3, HighestTells
<1>5. PICK lo, hi, b : lo = BackLow /\ hi = BackEnd /\ b = cursor.boundary
  OBVIOUS
<1>6. b \in Nat /\ lo \in Nat /\ hi \in Nat /\ hi <= b
  BY <1>5, BackWindow
<1>7. ASSUME NEW p \in S
      PROVE  p \in Slot /\ HeightOf(p) <= b /\ HeightOf(p) >= lo /\ (cursor.backfill = Unset \/ p < cursor.backfill)
  <2>1. p \in Slot /\ HeightOf(p) \in lo .. hi /\ (cursor.backfill = Unset \/ p < cursor.backfill)
    BY <1>1, <1>5 DEF Between
  <2>2. PICK g : g = HeightOf(p) /\ g \in Nat
    BY <2>1, SlotHeights
  <2>3. g <= b /\ g >= lo
    BY <1>6, <2>1, <2>2
  <2> QED
    BY <2>1, <2>2, <2>3
<1>8. ASSUME NEW s \in Slot, Pending(s), HeightOf(s) >= lo, HeightOf(s) <= hi,
             cursor.backfill = Unset \/ s < cursor.backfill
      PROVE  s \in S
  <2>1. PICK g : g = HeightOf(s) /\ g \in Nat
    BY SlotHeights
  <2>2. g \in lo .. hi
    BY <1>6, <1>8, <2>1
  <2> QED
    BY <1>1, <1>5, <1>8, <2>1, <2>2 DEF Between
<1>9. \A p \in BackRows : p \in S
  BY <1>2, <1>4
<1>10. \A s \in S \ BackRows : BackRows # {} /\ \A p \in BackRows : s < p
  BY <1>2, <1>4
<1> QED
  BY <1>5, <1>7, <1>8, <1>9, <1>10

\* What the pass awaits is pending, and within the heights that it reads.
LEMMA AwaitedPending ==
    ASSUME ScanAssumption, ScanInv, NEW h \in 0 .. metadata, NEW s \in Slot, RootAt(s) \in unseen
    PROVE  Pending(s)
BY DEF ScanInv, PassInv, Pending

\* A cursor passes nothing that is awaited: the page has arrived.
LEMMA LivePasses ==
    ASSUME ScanAssumption, ScanInv, discovery = "live", cursor \in Cursors,
           UNCHANGED <<fork, tip, stable, metadata, complete, stored>>,
           NEW M \in Nat, cursor' = [cursor EXCEPT !.live = M], discovery' = "none", described' = 0, pageStart' = cursor,
           unseen' \subseteq unseen,
           \A h \in 0 .. metadata, s \in Slot :
               h <= described /\ RootAt(s) \in unseen' /\ HeightOf(s) \in Start .. h /\ ToCome(s)
               /\ HeightOf(s) > cursor.boundary => s > M
    PROVE  ScanInv'
<1>1. PICK b : b = cursor.boundary
  OBVIOUS
<1>2. /\ cursor' \in Cursors /\ cursor'.live = M /\ cursor'.boundary = b /\ cursor'.backfill = cursor.backfill
      /\ b \in Nat
  <2>1. M \in Unproposed
    BY DEF Unproposed
  <2>2. /\ [cursor EXCEPT !.live = M] \in Cursors /\ [cursor EXCEPT !.live = M].live = M
        /\ [cursor EXCEPT !.live = M].boundary = cursor.boundary
        /\ [cursor EXCEPT !.live = M].backfill = cursor.backfill /\ cursor.boundary \in Nat
    BY <2>1, CursorMoves
  <2> QED
    BY <1>1, <2>2
<1>3. cursor' # Unset
  BY <1>2, CursorsReal
<1>4. Chained' /\ Cursored'
  BY <1>2 DEF ScanInv, Chained, Cursored
<1>5. ASSUME NEW h \in 0 .. metadata, NEW s \in Slot,
             (Querying => h <= described) /\ RootAt(s) \in unseen' /\ HeightOf(s) \in Start .. h /\ ToCome(s)
      PROVE  ToCome(s)'
  <2>1. PICK g : g = HeightOf(s) /\ g \in Nat
    BY SlotHeights
  <2>2. CASE g > b
    <3>1. h <= described
      BY <1>5 DEF Querying
    <3>2. s > M
      BY <1>1, <1>5, <2>1, <2>2, <3>1
    <3> QED
      BY <1>2, <2>1, <2>2, <3>2 DEF ToCome
  <2>3. CASE ~(g > b)
    <3>1. g <= b
      BY <1>2, <2>1, <2>3
    <3>2. cursor.backfill = Unset \/ s < cursor.backfill
      BY <1>1, <1>5, <2>1, <2>3 DEF ToCome
    <3> QED
      BY <1>2, <2>1, <3>1, <3>2 DEF ToCome
  <2> QED
    BY <2>2, <2>3
<1>6. ~Querying'
  BY DEF Querying
<1>7. \A r \in unseen' : r \notin complete'
  BY DEF ScanInv, PassInv
<1> QED
  BY <1>3, <1>4, <1>5, <1>6, <1>7, ScanKept

\* The live cursor moves, and the stage is over or comes to the backfill.
LEMMA ReadLiveKeeps == ASSUME ScanAssumption, ScanInv, cursor # Unset, ReadLive PROVE ScanInv'
<1>1. /\ discovery = "live" /\ cursor \in Cursors /\ Chained
      /\ UNCHANGED <<fork, tip, stable, metadata, complete, stored>>
  BY DEF ReadLive, ScanInv, Cursored, chain
<1>2. PICK rows : rows = IF HasLive THEN LiveRows ELSE {}
  OBVIOUS
<1>3. \/ /\ rows # {} /\ Arrive(rows, Ascending(rows)) /\ cursor' = [cursor EXCEPT !.live = Max(rows)]
      \/ /\ HasLive /\ rows = {} /\ LiveHigh < described
         /\ Arrive({}, << >>) /\ cursor' = [cursor EXCEPT !.live = LastSlot(LiveHigh)]
      \/ /\ rows = {} /\ (HasLive => LiveHigh = described) /\ discovery' = "backfill"
         /\ UNCHANGED <<candidates, unseen, pageStart, cursor, described>>
  BY <1>2 DEF ReadLive
<1>4. PICK b, l, hi : b = cursor.boundary /\ l = cursor.live /\ hi = LiveHigh
  OBVIOUS
<1>5. b \in Nat /\ hi \in Nat /\ hi <= described /\ described \in Nat /\ l \in Nat \cup {Unset} /\ Unset \notin Nat
  BY <1>1, <1>4, LiveWindow DEF Chained, Cursors, Unproposed, ScanAssumption
<1>6. Querying /\ \A h \in 0 .. metadata : h \in Nat
  BY <1>1 DEF Querying, Chained
\* A slot that is awaited is in the page or behind it.
<1>7. ASSUME NEW h \in 0 .. metadata, h <= described, NEW s \in Slot, RootAt(s) \in unseen,
             HeightOf(s) \in Start .. h, ToCome(s), HeightOf(s) > b
      PROVE  /\ HasLive /\ (l = Unset \/ s > l) /\ HeightOf(s) <= described
             /\ HeightOf(s) <= hi => s \in rows \/ (rows # {} /\ \A p \in rows : p < s)
  <2>1. PICK g : g = HeightOf(s) /\ g \in Nat
    BY SlotHeights
  <2>2. Start \in Nat /\ g >= Start /\ g <= h /\ g > b /\ g <= described /\ b < described /\ Start <= described
    BY <1>5, <1>6, <1>7, <2>1 DEF ScanAssumption
  <2>3. HasLive
    BY <1>4, <2>2 DEF HasLive
  <2>4. l = Unset \/ s > l
    <3>1. ~(HeightOf(s) <= b)
      BY <1>5, <2>1, <2>2
    <3> QED
      BY <1>4, <1>7, <3>1 DEF ToCome
  <2>5. Pending(s)
    BY <1>7, AwaitedPending
  <2>6. rows = LiveRows
    BY <1>2, <2>3
  <2>7. g <= hi => s \in LiveRows \/ (LiveRows # {} /\ \A p \in LiveRows : p < s)
    BY <1>1, <1>4, <2>1, <2>2, <2>4, <2>5, LiveTells
  <2> QED
    BY <2>1, <2>2, <2>3, <2>4, <2>6, <2>7
<1>8. CASE rows # {} /\ Arrive(rows, Ascending(rows)) /\ cursor' = [cursor EXCEPT !.live = Max(rows)]
  <2>1. rows = LiveRows /\ rows # {}
    BY <1>2, <1>8
  <2>2. rows \subseteq Slot /\ \A p \in rows : HeightOf(p) <= hi
    BY <1>1, <1>4, <2>1, LiveTells
  <2>3. rows \subseteq Nat /\ IsFiniteSet(rows)
    BY <2>2, EligibleFinite
  <2>4. PICK M : M = Max(rows)
    OBVIOUS
  <2>5. M \in rows /\ M \in Nat
    BY <2>1, <2>3, <2>4, GreatestIs
  <2>6. discovery' = "none" /\ described' = 0 /\ pageStart' = cursor /\ unseen' = unseen \ {RootAt(s) : s \in rows}
    BY <1>8 DEF Arrive
  <2>7. ASSUME NEW h \in 0 .. metadata, NEW s \in Slot, h <= described, RootAt(s) \in unseen',
               HeightOf(s) \in Start .. h, ToCome(s), HeightOf(s) > cursor.boundary
        PROVE  s > M
    <3>1. RootAt(s) \in unseen /\ s \notin rows
      BY <2>6, <2>7
    <3>2. HeightOf(s) <= hi => \A p \in rows : p < s
      BY <1>4, <1>7, <2>7, <3>1
    <3>3. PICK g, k : g = HeightOf(s) /\ k = HeightOf(M) /\ g \in Nat /\ k \in Nat /\ s \in Nat
      BY <2>2, <2>5, SlotHeights
    <3>4. CASE g <= hi
      BY <2>5, <3>2, <3>3, <3>4
    <3>5. CASE ~(g <= hi)
      <4>1. k <= hi
        BY <2>2, <2>5, <3>3
      <4>2. s <= M => g <= k
        BY <2>5, <3>3, HeightsGrow
      <4> QED
        BY <1>5, <2>5, <3>3, <3>5, <4>1, <4>2
    <3> QED
      BY <3>4, <3>5
  <2>8. cursor' = [cursor EXCEPT !.live = M] /\ unseen' \subseteq unseen
    BY <1>8, <2>4, <2>6
  <2> QED
    BY <1>1, <2>5, <2>6, <2>7, <2>8, LivePasses
<1>9. CASE /\ HasLive /\ rows = {} /\ LiveHigh < described
           /\ Arrive({}, << >>) /\ cursor' = [cursor EXCEPT !.live = LastSlot(LiveHigh)]
  <2>1. PICK M : M = LastSlot(hi) /\ M \in Nat
    BY <1>5 DEF LastSlot, ScanAssumption
  <2>2. discovery' = "none" /\ described' = 0 /\ pageStart' = cursor /\ unseen' = unseen
    BY <1>9 DEF Arrive
  <2>3. ASSUME NEW h \in 0 .. metadata, NEW s \in Slot, h <= described, RootAt(s) \in unseen',
               HeightOf(s) \in Start .. h, ToCome(s), HeightOf(s) > cursor.boundary
        PROVE  s > M
    <3>1. ~(HeightOf(s) <= hi)
      BY <1>4, <1>7, <1>9, <2>2, <2>3
    <3>2. s \in Nat
      BY SlotHeights
    <3>3. ~(s <= M)
      BY <1>5, <2>1, <3>1, <3>2, SlotsByHeight
    <3> QED
      BY <2>1, <3>2, <3>3
  <2>4. cursor' = [cursor EXCEPT !.live = M] /\ unseen' \subseteq unseen
    BY <1>4, <1>9, <2>1, <2>2
  <2> QED
    BY <1>1, <2>1, <2>2, <2>3, <2>4, LivePasses
<1>10. CASE /\ rows = {} /\ (HasLive => LiveHigh = described) /\ discovery' = "backfill"
            /\ UNCHANGED <<candidates, unseen, pageStart, cursor, described>>
  <2>1. Chained' /\ Cursored'
    BY <1>1, <1>10 DEF ScanInv, Chained, Cursored
  <2>2. Querying'
    BY <1>10 DEF Querying
  <2>3. ASSUME NEW h \in 0 .. metadata, NEW s \in Slot,
               (Querying => h <= described) /\ RootAt(s) \in unseen' /\ HeightOf(s) \in Start .. h /\ ToCome(s)
        PROVE  ToCome(s)'
    <3>1. PICK g : g = HeightOf(s) /\ g \in Nat
      BY SlotHeights
    <3>2. h <= described /\ RootAt(s) \in unseen
      BY <1>6, <1>10, <2>3
    <3>3. ~(g > b)
      <4>1. SUFFICES ASSUME g > b PROVE FALSE
        OBVIOUS
      <4>2. HasLive /\ g <= described /\ (g <= hi => rows # {})
        BY <1>7, <2>3, <3>1, <3>2, <4>1
      <4> QED
        BY <1>4, <1>10, <4>2
    <3>4. g <= b
      BY <1>5, <3>1, <3>3
    <3>5. cursor.backfill = Unset \/ s < cursor.backfill
      BY <1>4, <2>3, <3>1, <3>3 DEF ToCome
    <3>6. cursor' = cursor
      BY <1>10
    <3> QED
      BY <1>4, <3>1, <3>4, <3>5, <3>6 DEF ToCome
  <2>4. cursor' # Unset /\ unseen' = unseen /\ described' = described /\ \A r \in unseen' : r \notin complete'
    BY <1>1, <1>10 DEF ScanInv, PassInv
  <2> QED
    BY <1>1, <1>6, <2>1, <2>2, <2>3, <2>4, ScanKept
<1> QED
  BY <1>3, <1>8, <1>9, <1>10

LEMMA BackPasses ==
    ASSUME ScanAssumption, ScanInv, discovery = "backfill", cursor \in Cursors,
           UNCHANGED <<fork, tip, stable, metadata, complete, stored>>,
           NEW M \in Nat, cursor' = [cursor EXCEPT !.backfill = M], discovery' = "none", described' = 0, pageStart' = cursor,
           unseen' \subseteq unseen,
           \A h \in 0 .. metadata, s \in Slot :
               h <= described /\ RootAt(s) \in unseen' /\ HeightOf(s) \in Start .. h /\ ToCome(s)
               /\ HeightOf(s) <= cursor.boundary => s < M
    PROVE  ScanInv'
<1>1. PICK b : b = cursor.boundary
  OBVIOUS
<1>2. /\ cursor' \in Cursors /\ cursor'.live = cursor.live /\ cursor'.boundary = b /\ cursor'.backfill = M
      /\ b \in Nat
  <2>1. M \in Unproposed
    BY DEF Unproposed
  <2>2. /\ [cursor EXCEPT !.backfill = M] \in Cursors /\ [cursor EXCEPT !.backfill = M].live = cursor.live
        /\ [cursor EXCEPT !.backfill = M].boundary = cursor.boundary
        /\ [cursor EXCEPT !.backfill = M].backfill = M /\ cursor.boundary \in Nat
    BY <2>1, CursorMoves
  <2> QED
    BY <1>1, <2>2
<1>3. cursor' # Unset
  BY <1>2, CursorsReal
<1>4. Chained' /\ Cursored'
  BY <1>2 DEF ScanInv, Chained, Cursored
<1>5. ASSUME NEW h \in 0 .. metadata, NEW s \in Slot,
             (Querying => h <= described) /\ RootAt(s) \in unseen' /\ HeightOf(s) \in Start .. h /\ ToCome(s)
      PROVE  ToCome(s)'
  <2>1. h <= described
    BY <1>5 DEF Querying
  <2>2. HeightOf(s) <= b
    BY <1>1, <1>5 DEF ToCome
  <2>3. s < M
    BY <1>1, <1>5, <2>1, <2>2
  <2> QED
    BY <1>2, <2>2, <2>3 DEF ToCome
<1>6. ~Querying'
  BY DEF Querying
<1>7. \A r \in unseen' : r \notin complete'
  BY DEF ScanInv, PassInv
<1> QED
  BY <1>3, <1>4, <1>5, <1>6, <1>7, ScanKept

\* At the backfill, what is awaited is in the page or behind it.
LEMMA BackAwaited ==
    ASSUME ScanAssumption, ScanInv, discovery = "backfill", cursor \in Cursors,
           NEW h \in 0 .. metadata, h <= described, NEW s \in Slot, RootAt(s) \in unseen, HeightOf(s) \in Start .. h, ToCome(s)
    PROVE  /\ HeightOf(s) <= BackEnd /\ HeightOf(s) >= Start /\ HeightOf(s) \in Nat
           /\ HeightOf(s) >= BackLow => s \in BackRows \/ (BackRows # {} /\ \A p \in BackRows : s < p)
<1>1. PICK g, b, e, l : g = HeightOf(s) /\ b = cursor.boundary /\ e = BackEnd /\ l = BackLow
  OBVIOUS
<1>2. Chained
  BY DEF ScanInv
<1>3. g \in Nat /\ h \in Nat /\ described \in Nat /\ Start \in Nat
  BY <1>1, <1>2, SlotHeights DEF Chained, ScanAssumption
<1>4. b \in Nat /\ e \in Nat /\ l \in Nat /\ \A k \in Nat : k <= b /\ k <= described => k <= e
  BY <1>1, <1>2, BackWindow
<1>5. g <= b /\ (cursor.backfill = Unset \/ s < cursor.backfill)
  BY <1>1 DEF ToCome
<1>6. g <= described /\ g >= Start
  BY <1>1, <1>3
<1>7. g <= e
  BY <1>3, <1>4, <1>5, <1>6
<1>8. Pending(s)
  BY AwaitedPending
<1>9. g >= l => s \in BackRows \/ (BackRows # {} /\ \A p \in BackRows : s < p)
  BY <1>1, <1>2, <1>5, <1>7, <1>8, BackTells
<1> QED
  BY <1>1, <1>3, <1>6, <1>7, <1>9

LEMMA ReadBackfillKeeps == ASSUME ScanAssumption, ScanInv, ReadBackfill PROVE ScanInv'
<1>1. /\ discovery = "backfill" /\ cursor \in Cursors /\ Chained
      /\ UNCHANGED <<fork, tip, stable, metadata, complete, stored>>
  BY DEF ReadBackfill, ScanInv, Cursored, chain
<1>2. PICK rows : rows = BackRows
  OBVIOUS
<1>3. \/ /\ rows # {} /\ Arrive(rows, Reverse(Ascending(rows))) /\ cursor' = [cursor EXCEPT !.backfill = Min(rows)]
      \/ /\ rows = {} /\ Arrive({}, << >>) /\ cursor' = [cursor EXCEPT !.backfill = FirstSlot(BackLow)]
         /\ BackLow > Start
  BY <1>2 DEF ReadBackfill
<1>4. PICK lo : lo = BackLow /\ lo \in Nat /\ lo >= Start /\ Start \in Nat
  BY <1>1, BackWindow DEF ScanAssumption
<1>5. CASE rows # {} /\ Arrive(rows, Reverse(Ascending(rows))) /\ cursor' = [cursor EXCEPT !.backfill = Min(rows)]
  <2>1. rows \subseteq Slot /\ \A p \in rows : HeightOf(p) >= lo
    BY <1>1, <1>2, <1>4, BackTells
  <2>2. rows \subseteq Nat
    BY <2>1, EligibleFinite
  <2>3. PICK M : M = Min(rows)
    OBVIOUS
  <2>4. M \in rows /\ M \in Nat
    BY <1>5, <2>2, <2>3, LeastIs
  <2>5. discovery' = "none" /\ described' = 0 /\ pageStart' = cursor /\ unseen' = unseen \ {RootAt(s) : s \in rows}
    BY <1>5 DEF Arrive
  <2>6. ASSUME NEW h \in 0 .. metadata, NEW s \in Slot, h <= described, RootAt(s) \in unseen',
               HeightOf(s) \in Start .. h, ToCome(s)
        PROVE  s < M
    <3>1. RootAt(s) \in unseen /\ s \notin rows
      BY <2>5, <2>6
    <3>2. HeightOf(s) >= lo => \A p \in rows : s < p
      BY <1>1, <1>2, <1>4, <2>6, <3>1, BackAwaited
    <3>3. PICK g, k : g = HeightOf(s) /\ k = HeightOf(M) /\ g \in Nat /\ k \in Nat /\ s \in Nat
      BY <2>1, <2>4, SlotHeights
    <3>4. CASE g >= lo
      BY <2>4, <3>2, <3>3, <3>4
    <3>5. CASE ~(g >= lo)
      <4>1. k >= lo
        BY <2>1, <2>4, <3>3
      <4>2. M <= s => k <= g
        BY <2>4, <3>3, HeightsGrow
      <4> QED
        BY <1>4, <2>4, <3>3, <3>5, <4>1, <4>2
    <3> QED
      BY <3>4, <3>5
  <2>7. cursor' = [cursor EXCEPT !.backfill = M] /\ unseen' \subseteq unseen
    BY <1>5, <2>3, <2>5
  <2> QED
    BY <1>1, <2>4, <2>5, <2>6, <2>7, BackPasses
<1>6. CASE /\ rows = {} /\ Arrive({}, << >>) /\ cursor' = [cursor EXCEPT !.backfill = FirstSlot(BackLow)]
           /\ BackLow > Start
  <2>1. PICK M : M = FirstSlot(lo) /\ M \in Nat
    <3>1. lo - 1 \in Nat /\ Width \in Nat
      BY <1>4, <1>6 DEF ScanAssumption
    <3>2. FirstSlot(lo) \in Nat
      BY <3>1 DEF FirstSlot
    <3> QED
      BY <3>2
  <2>2. discovery' = "none" /\ described' = 0 /\ pageStart' = cursor /\ unseen' = unseen
    BY <1>6 DEF Arrive
  <2>3. ASSUME NEW h \in 0 .. metadata, NEW s \in Slot, h <= described, RootAt(s) \in unseen',
               HeightOf(s) \in Start .. h, ToCome(s)
        PROVE  s < M
    <3>1. ~(HeightOf(s) >= lo)
      BY <1>1, <1>2, <1>4, <1>6, <2>2, <2>3, BackAwaited
    <3>2. s \in Nat
      BY SlotHeights
    <3>3. ~(s >= M)
      BY <1>4, <2>1, <3>1, <3>2, SlotsByHeight
    <3> QED
      BY <2>1, <3>2, <3>3
  <2>4. cursor' = [cursor EXCEPT !.backfill = M] /\ unseen' \subseteq unseen
    BY <1>4, <1>6, <2>1, <2>2
  <2> QED
    BY <1>1, <2>1, <2>2, <2>3, <2>4, BackPasses
<1> QED
  BY <1>3, <1>5, <1>6

\* A pass ends when nothing that it awaits can be left.
LEMMA ExhaustedFinds == ASSUME ScanAssumption, ScanInv, Exhausted PROVE unseen = {}
<1>1. discovery = "backfill" /\ (Start > BackEnd \/ (BackRows = {} /\ BackLow <= Start))
  BY DEF Exhausted
<1>2. cursor \in Cursors /\ Chained
  BY <1>1 DEF ScanInv, Cursored
<1>3. PICK lo, e : lo = BackLow /\ e = BackEnd /\ lo \in Nat /\ e \in Nat /\ Start \in Nat
  BY <1>2, BackWindow DEF ScanAssumption
<1>4. SUFFICES ASSUME NEW r \in unseen PROVE FALSE
  OBVIOUS
<1>5. PICK h \in 0 .. metadata : Awaited(r, h)
  BY DEF ScanInv, PassInv
<1>6. PICK s \in Places(r, h) : ToCome(s)
  BY <1>5 DEF Awaited
<1>7. h <= described /\ s \in Slot /\ RootAt(s) \in unseen /\ HeightOf(s) \in Start .. h
  BY <1>1, <1>5, <1>6 DEF Awaited, Places
<1>8. PICK g : g = HeightOf(s) /\ g \in Nat /\ g <= e /\ g >= Start /\ (g >= lo => BackRows # {})
  BY <1>1, <1>2, <1>3, <1>6, <1>7, BackAwaited
<1> QED
  BY <1>1, <1>3, <1>8

-----------------------------------------------------------------------------
\* A finite set of numbers can be listed in order.
LEMMA AscendingLists ==
    ASSUME NEW S, S \subseteq Nat, IsFiniteSet(S)
    PROVE  Ascending(S) \in [1 .. Cardinality(S) -> S]
<1> DEFINE Listable == {n \in Nat : \A T \in SUBSET Nat : IsFiniteSet(T) /\ Cardinality(T) = n
                                       => \E q \in [1 .. n -> T] : \A i, j \in 1 .. n : i < j => q[i] < q[j]}
<1>1. 0 \in Listable
  <2>1. ASSUME NEW T \in SUBSET Nat, IsFiniteSet(T), Cardinality(T) = 0
        PROVE  \E q \in [1 .. 0 -> T] : \A i, j \in 1 .. 0 : i < j => q[i] < q[j]
    <3>1. T = {}
      BY <2>1, FS_EmptySet
    <3>2. [i \in 1 .. 0 |-> i] \in [1 .. 0 -> T]
      BY <3>1
    <3> QED
      BY <3>2
  <2> QED
    BY <2>1
<1>2. ASSUME NEW n \in Nat, n \in Listable PROVE n + 1 \in Listable
  <2>1. ASSUME NEW T \in SUBSET Nat, IsFiniteSet(T), Cardinality(T) = n + 1
        PROVE  \E q \in [1 .. n + 1 -> T] : \A i, j \in 1 .. n + 1 : i < j => q[i] < q[j]
    <3>1. T # {}
      BY <2>1, FS_EmptySet
    <3>2. PICK m \in T : \A y \in T : y <= m
      BY <2>1, <3>1, GreatestNatural
    <3>3. IsFiniteSet(T \ {m}) /\ Cardinality(T \ {m}) = n
      <4>1. IsFiniteSet(T \ {m}) /\ Cardinality(T \ {m}) = Cardinality(T) - 1
        BY <2>1, <3>2, FS_RemoveElement
      <4>2. n + 1 - 1 = n
        OBVIOUS
      <4> QED
        BY <2>1, <4>1, <4>2
    <3>4. PICK p \in [1 .. n -> T \ {m}] : \A i, j \in 1 .. n : i < j => p[i] < p[j]
      BY <1>2, <3>3
    <3>5. \A i \in 1 .. n : p[i] \in T /\ p[i] # m /\ p[i] \in Nat /\ p[i] <= m /\ m \in Nat
      BY <3>2
    <3> DEFINE q == [i \in 1 .. n + 1 |-> IF i = n + 1 THEN m ELSE p[i]]
    <3>6. \A i \in 1 .. n + 1 : i = n + 1 \/ i \in 1 .. n
      OBVIOUS
    <3>7. q \in [1 .. n + 1 -> T]
      BY <3>2, <3>5, <3>6
    <3>8. ASSUME NEW i \in 1 .. n + 1, NEW j \in 1 .. n + 1, i < j PROVE q[i] < q[j]
      <4>1. i \in 1 .. n /\ i # n + 1 /\ q[i] = p[i]
        BY <3>8
      <4>2. CASE j = n + 1
        <5>1. q[j] = m
          BY <4>2
        <5>2. p[i] < m
          BY <3>5, <4>1
        <5> QED
          BY <4>1, <5>1, <5>2
      <4>3. CASE j # n + 1
        <5>1. j \in 1 .. n /\ q[j] = p[j]
          BY <4>3
        <5>2. p[i] < p[j]
          BY <3>4, <3>8, <4>1, <5>1
        <5> QED
          BY <4>1, <5>1, <5>2
      <4> QED
        BY <4>2, <4>3
    <3> HIDE DEF q
    <3> QED
      BY <3>7, <3>8
  <2> QED
    BY <2>1
<1> HIDE DEF Listable
<1>3. PICK n \in Nat : n = Cardinality(S)
  BY FS_CardinalityType
<1>4. n \in Listable
  BY <1>1, <1>2, <1>3, NaturalsReached
<1>5. \E q \in [1 .. n -> S] : \A i, j \in 1 .. n : i < j => q[i] < q[j]
  BY <1>3, <1>4 DEF Listable
<1>6. \E q \in [1 .. n -> S] : \A i, j \in DOMAIN q : i < j => q[i] < q[j]
  BY <1>5
<1> QED
  BY <1>3, <1>6 DEF Ascending

\* What is left of a sequence was in it.
LEMMA ElementRemoved ==
    ASSUME NEW T, NEW q \in Seq(T), NEW i \in DOMAIN q
    PROVE  /\ RemoveAt(q, i) \in Seq(T)
           /\ \A j \in DOMAIN RemoveAt(q, i) : \E k \in DOMAIN q : RemoveAt(q, i)[j] = q[k]
<1>1. PICK a, b : a = SubSeq(q, 1, i - 1) /\ b = SubSeq(q, i + 1, Len(q))
  OBVIOUS
<1>2. i \in Nat /\ i >= 1 /\ i <= Len(q) /\ Len(q) \in Nat /\ DOMAIN q = 1 .. Len(q)
  OBVIOUS
<1>3. a \in Seq(T) /\ Len(a) = i - 1 /\ \A j \in 1 .. i - 1 : a[j] = q[j]
  BY <1>1, <1>2
<1>0. Len(q) - i \in Nat /\ Len(q) - i < Len(q) /\ i + 1 \in Nat
  BY <1>2
<1>4. b \in Seq(T) /\ Len(b) = Len(q) - i /\ \A j \in 1 .. Len(q) - i : b[j] = q[i + j]
  <2>1. b \in Seq(T) /\ Len(b) = IF i + 1 <= Len(q) THEN Len(q) - (i + 1) + 1 ELSE 0
    BY <1>1, <1>2, <1>0
  <2>2. Len(b) = Len(q) - i
    BY <1>2, <2>1
  <2>3. ASSUME NEW j \in 1 .. Len(q) - i PROVE b[j] = q[i + j]
    <3>1. b[j] = q[(i + 1) + j - 1]
      BY <1>1, <1>2, <2>3
    <3>2. (i + 1) + j - 1 = i + j
      BY <1>2
    <3> QED
      BY <3>1, <3>2
  <2> QED
    BY <2>1, <2>2, <2>3
<1>5. RemoveAt(q, i) = a \o b
  BY <1>1 DEF RemoveAt
<1>6. a \o b \in Seq(T) /\ Len(a \o b) = Len(q) - 1 /\ DOMAIN (a \o b) = 1 .. Len(q) - 1
  <2>1. a \o b \in Seq(T) /\ Len(a \o b) = Len(a) + Len(b)
    BY <1>3, <1>4, ConcatProperties
  <2>2. Len(a) + Len(b) = Len(q) - 1
    BY <1>2, <1>3, <1>4
  <2> QED
    BY <2>1, <2>2
<1>7. ASSUME NEW j \in 1 .. Len(q) - 1 PROVE \E k \in DOMAIN q : (a \o b)[j] = q[k]
  <2>1. CASE j <= i - 1
    <3>1. (a \o b)[j] = a[j] /\ a[j] = q[j] /\ j \in DOMAIN q
      BY <1>2, <1>3, <1>4, <2>1
    <3> QED
      BY <3>1
  <2>2. CASE j > i - 1
    <3>1. (a \o b)[j] = b[j - (i - 1)] /\ j - (i - 1) \in 1 .. Len(q) - i
      BY <1>2, <1>3, <1>4, <2>2
    <3>2. b[j - (i - 1)] = q[j + 1] /\ j + 1 \in DOMAIN q
      <4>1. i + (j - (i - 1)) = j + 1 /\ j + 1 \in 1 .. Len(q)
        BY <1>2
      <4>2. PICK x : x = j - (i - 1)
        OBVIOUS
      <4>3. b[x] = q[i + x]
        BY <1>4, <3>1, <4>2
      <4> QED
        BY <1>2, <4>1, <4>2, <4>3
    <3> QED
      BY <3>1, <3>2
  <2>3. j <= i - 1 \/ j > i - 1
    BY <1>2
  <2> QED
    BY <2>1, <2>2, <2>3
<1> QED
  BY <1>5, <1>6, <1>7

-----------------------------------------------------------------------------
\* What is tracked, and what is left of a page, is still ahead of the cursor
\* that was taken before its page.
Proposal == [root : Root, slot : Slot]
Proposed == [root : Root, slot : Slot, after : Cursors]
PageInv ==
    /\ candidates \in Seq(Proposal) /\ tracked \in Seq(Proposed)
    /\ candidates # << >> => pageStart \in Cursors
    /\ \A i \in DOMAIN candidates : Ahead(pageStart, candidates[i].slot)
    /\ \A i \in DOMAIN tracked : Ahead(tracked[i].after, tracked[i].slot)

LEMMA PagesKept == ASSUME PageInv, UNCHANGED <<candidates, tracked, pageStart>> PROVE PageInv'
BY DEF PageInv, Ahead

LEMMA JobsEnd == ASSUME PageInv, NEW r \in Root, EndJob(r), UNCHANGED <<candidates, pageStart>> PROVE PageInv'
<1>1. CASE tracked' = tracked
  BY <1>1, PagesKept
<1>2. CASE r \in Tracked
  <2>1. PICK k : k = CHOOSE i \in DOMAIN tracked : tracked[i].root = r
    OBVIOUS
  <2>2. k \in DOMAIN tracked
    BY <1>2, <2>1 DEF Tracked
  <2>3. tracked' = RemoveAt(tracked, k)
    BY <1>2, <2>1 DEF EndJob
  <2>4. tracked' \in Seq(Proposed) /\ \A j \in DOMAIN tracked' : \E i \in DOMAIN tracked : tracked'[j] = tracked[i]
    BY <2>2, <2>3, ElementRemoved DEF PageInv
  <2>5. \A j \in DOMAIN tracked' : Ahead(tracked'[j].after, tracked'[j].slot)
    BY <2>4 DEF PageInv
  <2> QED
    BY <2>4, <2>5 DEF PageInv, Ahead
<1> QED
  BY <1>1, <1>2 DEF EndJob

LEMMA SchedulePages == ASSUME PageInv, Schedule PROVE PageInv'
<1>1. PICK c : c = Head(candidates)
  OBVIOUS
<1>2. /\ candidates # << >> /\ candidates' = Tail(candidates) /\ pageStart' = pageStart
      /\ tracked' = IF c.root \in Tracked THEN tracked
                    ELSE Append(tracked, [root |-> c.root, slot |-> c.slot, after |-> pageStart])
  BY <1>1 DEF Schedule
<1>3. candidates \in Seq(Proposal) /\ tracked \in Seq(Proposed) /\ pageStart \in Cursors
  BY <1>2 DEF PageInv
<1>4. c \in Proposal /\ Ahead(pageStart, c.slot)
  <2>1. c = candidates[1] /\ 1 \in DOMAIN candidates
    BY <1>1, <1>2, <1>3
  <2> QED
    BY <1>3, <2>1 DEF PageInv
<1>5. candidates' \in Seq(Proposal) /\ \A i \in DOMAIN candidates' : candidates'[i] = candidates[i + 1] /\ i + 1 \in DOMAIN candidates
  BY <1>2, <1>3
<1>6. \A i \in DOMAIN candidates' : Ahead(pageStart, candidates'[i].slot)
  BY <1>5 DEF PageInv
<1>7. PICK e : e = [root |-> c.root, slot |-> c.slot, after |-> pageStart]
  OBVIOUS
<1>8. e \in Proposed /\ Ahead(e.after, e.slot)
  BY <1>3, <1>4, <1>7 DEF Proposed, Proposal
<1>9. tracked' \in Seq(Proposed) /\ \A i \in DOMAIN tracked' : tracked'[i] = e \/ (i \in DOMAIN tracked /\ tracked'[i] = tracked[i])
  <2>1. CASE tracked' = tracked
    BY <1>3, <2>1
  <2>2. CASE tracked' = Append(tracked, e)
    BY <1>3, <1>8, <2>2
  <2> QED
    BY <1>2, <1>7, <2>1, <2>2
<1>10. \A i \in DOMAIN tracked' : Ahead(tracked'[i].after, tracked'[i].slot)
  BY <1>8, <1>9 DEF PageInv
<1> QED
  BY <1>2, <1>3, <1>5, <1>6, <1>9, <1>10 DEF PageInv, Ahead

LEMMA PagesArrive ==
    ASSUME NEW rows, NEW order, Arrive(rows, order), tracked' = tracked, PageInv, cursor \in Cursors,
           NEW n \in Nat, DOMAIN order = 1 .. n,
           \A i \in 1 .. n : order[i] \in Slot /\ RootAt(order[i]) \in Root /\ Ahead(cursor, order[i])
    PROVE  PageInv'
<1>1. candidates' = [i \in 1 .. n |-> [root |-> RootAt(order[i]), slot |-> order[i]]] /\ pageStart' = cursor
  BY DEF Arrive
<1>2. \A i \in 1 .. n : [root |-> RootAt(order[i]), slot |-> order[i]] \in Proposal
  BY DEF Proposal
<1>3. candidates' \in Seq(Proposal) /\ DOMAIN candidates' = 1 .. n
  BY <1>1, <1>2
<1>4. \A i \in 1 .. n : candidates'[i].slot = order[i]
  BY <1>1
<1>5. \A i \in DOMAIN candidates' : Ahead(pageStart', candidates'[i].slot)
  BY <1>1, <1>3, <1>4
<1> QED
  BY <1>1, <1>3, <1>5 DEF PageInv, Ahead

\* The order of a page does not matter here.
LEMMA InOrder ==
    ASSUME ScanAssumption, NEW rows, rows \subseteq Slot
    PROVE  \E n \in Nat : /\ DOMAIN Ascending(rows) = 1 .. n /\ \A i \in 1 .. n : Ascending(rows)[i] \in rows
                          /\ DOMAIN Reverse(Ascending(rows)) = 1 .. n
                          /\ \A i \in 1 .. n : Reverse(Ascending(rows))[i] \in rows
<1>1. rows \subseteq Nat /\ IsFiniteSet(rows)
  BY EligibleFinite
<1>2. PICK n \in Nat : n = Cardinality(rows)
  BY <1>1, FS_CardinalityType
<1>3. PICK q : q = Ascending(rows)
  OBVIOUS
<1>4. q \in [1 .. n -> rows]
  BY <1>1, <1>2, <1>3, AscendingLists
<1>5. q \in Seq(rows) /\ Len(q) = n
  <2>1. q \in Seq(rows)
    BY <1>2, <1>4, IsASeq
  <2>2. DOMAIN q = 1 .. n /\ DOMAIN q = 1 .. Len(q) /\ Len(q) \in Nat
    BY <1>4, <2>1, LenProperties
  <2> QED
    BY <1>2, <2>1, <2>2
<1>6. Reverse(q) = [i \in 1 .. n |-> q[(n - i) + 1]]
  BY <1>5 DEF Reverse
<1>7. \A i \in 1 .. n : (n - i) + 1 \in 1 .. n
  OBVIOUS
<1> QED
  BY <1>3, <1>4, <1>6, <1>7

LEMMA PendingRoot == ASSUME NEW s, Pending(s) PROVE RootAt(s) \in Root
BY DEF Pending

LEMMA RowsPending == LiveRows \subseteq {s \in Slot : Pending(s)} /\ BackRows \subseteq {s \in Slot : Pending(s)}
BY DEF LiveRows, BackRows, Lowest, Highest, Between

LEMMA ReadLivePages == ASSUME ScanAssumption, ScanInv, PageInv, ReadLive PROVE PageInv'
<1>1. /\ discovery = "live" /\ cursor \in Cursors /\ Chained /\ tracked' = tracked
  BY DEF ReadLive, ScanInv, Cursored, jobs
<1>2. PICK rows : rows = IF HasLive THEN LiveRows ELSE {}
  OBVIOUS
<1>3. Arrive(rows, Ascending(rows)) \/ Arrive({}, << >>) \/ UNCHANGED <<candidates, pageStart>>
  BY <1>2 DEF ReadLive
<1>4. rows \subseteq Slot /\ \A p \in rows : RootAt(p) \in Root
  BY <1>2, RowsPending, PendingRoot
<1>5. \A p \in rows : Ahead(cursor, p)
  BY <1>1, <1>2, LiveTells DEF Ahead
<1>6. CASE Arrive(rows, Ascending(rows))
  <2>1. PICK q : q = Ascending(rows)
    OBVIOUS
  <2>2. PICK n \in Nat : DOMAIN q = 1 .. n /\ \A i \in 1 .. n : q[i] \in rows
    BY <1>4, <2>1, InOrder
  <2>3. \A i \in 1 .. n : q[i] \in Slot /\ RootAt(q[i]) \in Root /\ Ahead(cursor, q[i])
    BY <1>4, <1>5, <2>2
  <2> QED
    BY <1>1, <1>6, <2>1, <2>2, <2>3, PagesArrive
<1>7. CASE Arrive({}, << >>)
  <2>1. DOMAIN << >> = 1 .. 0
    OBVIOUS
  <2> QED
    BY <1>1, <1>7, <2>1, PagesArrive
<1>8. CASE UNCHANGED <<candidates, pageStart>>
  BY <1>1, <1>8, PagesKept
<1> QED
  BY <1>3, <1>6, <1>7, <1>8

LEMMA ReadBackfillPages == ASSUME ScanAssumption, ScanInv, PageInv, ReadBackfill PROVE PageInv'
<1>1. /\ discovery = "backfill" /\ cursor \in Cursors /\ Chained /\ tracked' = tracked
  BY DEF ReadBackfill, ScanInv, Cursored, jobs
<1>2. PICK rows : rows = BackRows
  OBVIOUS
<1>3. Arrive(rows, Reverse(Ascending(rows))) \/ Arrive({}, << >>)
  BY <1>2 DEF ReadBackfill
<1>4. rows \subseteq Slot /\ \A p \in rows : RootAt(p) \in Root
  BY <1>2, RowsPending, PendingRoot
<1>5. \A p \in rows : Ahead(cursor, p)
  BY <1>1, <1>2, BackTells DEF Ahead
<1>6. CASE Arrive(rows, Reverse(Ascending(rows)))
  <2>1. PICK q : q = Reverse(Ascending(rows))
    OBVIOUS
  <2>2. PICK n \in Nat : DOMAIN q = 1 .. n /\ \A i \in 1 .. n : q[i] \in rows
    BY <1>4, <2>1, InOrder
  <2>3. \A i \in 1 .. n : q[i] \in Slot /\ RootAt(q[i]) \in Root /\ Ahead(cursor, q[i])
    BY <1>4, <1>5, <2>2
  <2> QED
    BY <1>1, <1>6, <2>1, <2>2, <2>3, PagesArrive
<1>7. CASE Arrive({}, << >>)
  <2>1. DOMAIN << >> = 1 .. 0
    OBVIOUS
  <2> QED
    BY <1>1, <1>7, <2>1, PagesArrive
<1> QED
  BY <1>3, <1>6, <1>7

-----------------------------------------------------------------------------
\* The saved position is a cursor that has what is outstanding ahead.
LEMMA CheckpointReplays ==
    ASSUME ScanAssumption, ScanInv, PageInv, cursor # Unset
    PROVE  /\ Checkpoint \in Cursors
           /\ IF tracked # << >> THEN Ahead(Checkpoint, Head(tracked).slot)
              ELSE \A i \in DOMAIN candidates : Ahead(Checkpoint, candidates[i].slot)
<1>1. cursor \in Cursors
  BY DEF ScanInv, Cursored
<1>2. Position \in Cursors /\ (candidates # << >> => Position = pageStart)
  BY <1>1 DEF Position, PageInv
<1>3. CASE tracked = << >>
  <2>1. Checkpoint = Position
    BY <1>3 DEF Checkpoint
  <2>2. \A i \in DOMAIN candidates : candidates # << >>
    OBVIOUS
  <2>3. \A i \in DOMAIN candidates : Ahead(Checkpoint, candidates[i].slot)
    BY <1>2, <2>1, <2>2 DEF PageInv
  <2> QED
    BY <1>2, <1>3, <2>1, <2>3
<1>4. CASE tracked # << >>
  <2>1. PICK o, s : o = Head(tracked).after /\ s = Head(tracked).slot
    OBVIOUS
  <2>2. Head(tracked) = tracked[1] /\ 1 \in DOMAIN tracked /\ tracked[1] \in Proposed
    BY <1>4 DEF PageInv
  <2>3. o \in Cursors /\ Ahead(o, s) /\ s \in Slot
    BY <2>1, <2>2 DEF PageInv, Proposed
  <2>4. PICK e : e = EarlierLive(o.live, Position.live)
    OBVIOUS
  <2>5. o.live \in Unproposed /\ Position.live \in Unproposed /\ Unset \notin Nat
    BY <1>2, <2>3 DEF Cursors, Unproposed, ScanAssumption
  <2>6. e \in Unproposed /\ (e = Unset \/ (o.live # Unset /\ e <= o.live))
    BY <2>4, <2>5 DEF EarlierLive, Low, Unproposed
  <2>7. PICK c : c = Checkpoint
    OBVIOUS
  <2>8. c = [o EXCEPT !.live = e]
    BY <1>4, <2>1, <2>4, <2>7 DEF Checkpoint
  <2>9. c \in Cursors /\ c.live = e /\ c.boundary = o.boundary /\ c.backfill = o.backfill
    BY <2>3, <2>6, <2>8, CursorMoves
  <2>10. o # Unset
    BY <2>3, CursorsReal
  <2>11. o.live # Unset => o.live \in Nat
    BY <2>5 DEF Unproposed
  <2>12. e # Unset => e \in Nat
    BY <2>6 DEF Unproposed
  <2>13. s \in Nat
    BY <2>3, SlotHeights
  <2>14. (o.live = Unset \/ s > o.live) => (e = Unset \/ s > e)
    <3>1. PICK l : l = o.live
      OBVIOUS
    <3> QED
      BY <2>6, <2>11, <2>12, <2>13, <3>1
  <2>15. Ahead(c, s)
    BY <2>3, <2>9, <2>10, <2>14 DEF Ahead
  <2> QED
    BY <1>4, <2>1, <2>7, <2>9, <2>15
<1> QED
  BY <1>3, <1>4

LEMMA SaveReplays ==
    ASSUME ScanAssumption, ScanInv, PageInv, Save
    PROVE  /\ stored' \in Cursors
           /\ IF tracked # << >> THEN Ahead(stored', Head(tracked).slot)
              ELSE \A i \in DOMAIN candidates : Ahead(stored', candidates[i].slot)
<1>1. cursor # Unset /\ stored' = Checkpoint
  BY DEF Save
<1> QED
  BY <1>1, CheckpointReplays

PassesInv == ScanInv /\ PageInv

LEMMA PassesBegin == ASSUME ScanAssumption, ScanInit PROVE PassesInv
<1>1. Chained /\ Cursored
  BY DEF ScanInit, Chained, Cursored, ScanAssumption
<1>2. PassInv
  BY DEF ScanInit, PassInv
<1>3. PageInv
  BY DEF ScanInit, PageInv
<1> QED
  BY <1>1, <1>2, <1>3 DEF PassesInv, ScanInv

\* A rewind of the live cursor only takes it back.
LEMMA StartPageKeeps == ASSUME ScanAssumption, ScanInv, StartPage PROVE ScanInv'
<1>1. /\ cursor \in Cursors /\ discovery = "none" /\ discovery' = "metadata" /\ described' = described
      /\ cursor' = IF rewindLive THEN [cursor EXCEPT !.live = RewindLive(cursor.live)] ELSE cursor
      /\ UNCHANGED <<fork, tip, stable, metadata, complete, stored, pageStart, unseen>>
  BY DEF StartPage, chain, ScanInv, Cursored
<1>2. PICK b, l, r : b = cursor.boundary /\ l = cursor.live /\ r = RewindLive(l)
  OBVIOUS
<1>3. b \in Nat /\ l \in Unproposed /\ stable \in Nat /\ Unset \notin Nat
  BY <1>1, <1>2 DEF Cursors, ScanInv, Chained, ScanAssumption
<1>4. r \in Unproposed /\ (l # Unset => l \in Nat /\ r \in Nat /\ r <= l) /\ (l = Unset => r = Unset)
  <2>1. CASE l # Unset /\ HeightOf(l) > stable
    <3>1. PICK m : m = LastSlot(stable)
      OBVIOUS
    <3>2. r = m /\ l \in Nat
      BY <1>2, <1>3, <2>1, <3>1 DEF RewindLive, Unproposed
    <3>3. m \in Int /\ ~(l <= m)
      <4>1. /\ HeightOf(l) \in Nat /\ LastSlot(stable) \in Int
            /\ HeightOf(l) <= stable <=> l <= LastSlot(stable)
        <5>1. l \in Nat /\ stable \in Int
          BY <1>3, <3>2
        <5> QED
          BY <5>1, SlotsByHeight
      <4>2. PICK g : g = HeightOf(l)
        OBVIOUS
      <4>3. g \in Nat /\ g > stable /\ m \in Int /\ (g <= stable <=> l <= m)
        BY <2>1, <3>1, <4>1, <4>2
      <4> QED
        BY <1>3, <4>3
    <3>4. m >= 0
      BY <1>3, <3>1 DEF LastSlot, ScanAssumption
    <3> QED
      BY <2>1, <3>2, <3>3, <3>4 DEF Unproposed
  <2>2. CASE ~(l # Unset /\ HeightOf(l) > stable)
    <3>1. r = l
      BY <1>2, <2>2 DEF RewindLive
    <3> QED
      BY <1>3, <3>1 DEF Unproposed
  <2> QED
    BY <2>1, <2>2
<1>5. /\ cursor' \in Cursors /\ cursor'.boundary = b /\ cursor'.backfill = cursor.backfill
      /\ cursor'.live = l \/ cursor'.live = r
  <2>1. CASE rewindLive
    <3>1. cursor' = [cursor EXCEPT !.live = r]
      BY <1>1, <1>2, <2>1
    <3>2. /\ [cursor EXCEPT !.live = r] \in Cursors /\ [cursor EXCEPT !.live = r].live = r
          /\ [cursor EXCEPT !.live = r].boundary = cursor.boundary
          /\ [cursor EXCEPT !.live = r].backfill = cursor.backfill
      BY <1>1, <1>4, CursorMoves
    <3> QED
      BY <1>2, <3>1, <3>2
  <2>2. CASE ~rewindLive
    BY <1>1, <1>2, <2>2
  <2> QED
    BY <2>1, <2>2
<1>6. cursor' # Unset
  BY <1>5, CursorsReal
<1>7. Chained' /\ Cursored'
  BY <1>1, <1>5, <1>6 DEF ScanInv, Chained, Cursored
<1>8. ASSUME NEW s \in Slot, ToCome(s) PROVE ToCome(s)'
  <2>1. PICK k : k = cursor'.live
    OBVIOUS
  <2>2. s \in Nat /\ (k = l \/ k = r)
    BY <1>5, <2>1, SlotHeights
  <2>3. (l = Unset \/ s > l) => (k = Unset \/ s > k)
    BY <1>4, <2>2
  <2>4. \/ HeightOf(s) > b /\ (l = Unset \/ s > l)
        \/ HeightOf(s) <= b /\ (cursor.backfill = Unset \/ s < cursor.backfill)
    BY <1>2, <1>8 DEF ToCome
  <2> QED
    BY <1>1, <1>5, <2>1, <2>3, <2>4 DEF ToCome
<1>9. ~Querying' /\ \A x \in unseen' : x \notin complete'
  BY <1>1 DEF Querying, ScanInv, PassInv
<1> QED
  BY <1>1, <1>6, <1>7, <1>8, <1>9, ScanKept

LEMMA ReadMetadataKeeps == ASSUME ScanAssumption, ScanInv, ReadMetadata PROVE ScanInv'
<1>1. /\ discovery = "metadata" /\ discovery' = "live" /\ described' = metadata
      /\ UNCHANGED <<fork, tip, stable, metadata, complete, stored, cursor, pageStart, unseen>>
  BY DEF ReadMetadata, chain
<1>2. cursor # Unset
  BY <1>1 DEF ScanInv, Cursored
<1>3. Chained' /\ Cursored'
  BY <1>1, <1>2 DEF ScanInv, Chained, Cursored
<1>4. \A s \in Slot : ToCome(s) => ToCome(s)'
  BY <1>1 DEF ToCome
<1>5. \A h \in 0 .. metadata : h <= described'
  BY <1>1 DEF ScanInv, Chained
<1>6. \A x \in unseen' : x \notin complete'
  BY <1>1 DEF ScanInv, PassInv
<1> QED
  BY <1>1, <1>2, <1>3, <1>4, <1>5, <1>6, ScanKept

LEMMA QueryFailsKeeps == ASSUME ScanAssumption, ScanInv, QueryFails PROVE ScanInv'
<1>1. /\ discovery # "none" /\ discovery' = "none" /\ described' = 0
      /\ UNCHANGED <<fork, tip, stable, metadata, complete, stored, cursor, pageStart, unseen>>
  BY DEF QueryFails, chain
<1>2. cursor # Unset
  BY <1>1 DEF ScanInv, Cursored
<1>3. Chained' /\ Cursored'
  BY <1>1 DEF ScanInv, Chained, Cursored
<1>4. \A s \in Slot : ToCome(s) => ToCome(s)'
  BY <1>1 DEF ToCome
<1>5. ~Querying'
  BY <1>1 DEF Querying
<1>6. \A x \in unseen' : x \notin complete'
  BY <1>1 DEF ScanInv, PassInv
<1> QED
  BY <1>1, <1>2, <1>3, <1>4, <1>5, <1>6, ScanKept

LEMMA SetBoundaryKeeps == ASSUME ScanAssumption, ScanInv, SetBoundary PROVE ScanInv'
<1>1. /\ cursor' = [boundary |-> Low(tip, stable), live |-> Unset, backfill |-> Unset] /\ unseen' = ToFind
      /\ UNCHANGED <<fork, tip, stable, metadata, complete, stored, pageStart, discovery, described>>
      /\ cursor = Unset
  BY DEF SetBoundary, chain, query
<1>2. discovery' = "none" /\ Chained
  BY <1>1 DEF ScanInv, Cursored
<1>3. Low(tip, stable) \in Nat
  BY <1>2 DEF Chained, Low
<1>4. cursor' \in Cursors /\ cursor'.live = Unset /\ cursor'.backfill = Unset
  BY <1>1, <1>3 DEF Cursors, Unproposed
<1>5. Chained' /\ Cursored'
  BY <1>1, <1>2, <1>4 DEF ScanInv, Chained, Cursored
<1> QED
  BY <1>1, <1>2, <1>4, <1>5, PassBegins

LEMMA ExhaustedKeeps == ASSUME ScanAssumption, ScanInv, Exhausted PROVE ScanInv'
<1>1. /\ cursor' = FreshCursor(cursor) /\ unseen' = ToFind /\ discovery' = "none" /\ described' = 0
      /\ UNCHANGED <<fork, tip, stable, metadata, complete, stored, pageStart>>
      /\ discovery = "backfill"
  BY DEF Exhausted, chain
<1>2. cursor \in Cursors /\ Chained
  BY <1>1 DEF ScanInv, Cursored
<1>3. PICK c : c = [cursor EXCEPT !.live = Unset]
  OBVIOUS
<1>4. Unset \in Unproposed
  BY DEF Unproposed
<1>5. c \in Cursors /\ c.live = Unset
  BY <1>2, <1>3, <1>4, CursorMoves
<1>6. cursor' = [c EXCEPT !.backfill = Unset]
  BY <1>1, <1>3 DEF FreshCursor
<1>7. cursor' \in Cursors /\ cursor'.live = Unset /\ cursor'.backfill = Unset
  BY ZenonT(60), <1>4, <1>5, <1>6, CursorMoves
<1>8. Chained' /\ Cursored'
  BY <1>1, <1>2, <1>7 DEF ScanInv, Chained, Cursored
<1> QED
  BY <1>1, <1>2, <1>7, <1>8, PassBegins

LEMMA RestartKeeps == ASSUME ScanAssumption, PassesInv, Restart PROVE PassesInv'
<1>1. /\ cursor' = stored /\ pageStart' = stored /\ candidates' = << >> /\ tracked' = << >>
      /\ discovery' = "none" /\ described' = 0 /\ unseen' = {}
      /\ UNCHANGED <<fork, tip, stable, metadata, complete, stored>>
  BY DEF Restart, chain
<1>2. Chained' /\ Cursored' /\ PassInv'
  BY <1>1 DEF PassesInv, ScanInv, Chained, Cursored, PassInv
<1>3. PageInv'
  BY <1>1 DEF PageInv
<1> QED
  BY <1>2, <1>3 DEF PassesInv, ScanInv

-----------------------------------------------------------------------------
\* A step that is not of the chain's leaves the invariant.
LEMMA JobsAside ==
    ASSUME ScanAssumption, PassesInv, NEW r \in Root, Indexed(r) \/ Failed(r) \/ Request(r)
    PROVE  PassesInv'
<1>1. /\ UNCHANGED <<fork, tip, stable, metadata, stored, cursor, query, pageStart, candidates>>
      /\ EndJob(r) \/ tracked' = tracked
      /\ \/ unseen' = unseen /\ complete' = complete
         \/ unseen' = unseen \ {r} /\ complete' = complete \cup {r}
  <2>1. CASE Indexed(r)
    BY <2>1 DEF Indexed, chain, scan
  <2>2. CASE Failed(r)
    BY <2>2 DEF Failed, chain, scan
  <2>3. CASE Request(r)
    BY <2>3 DEF Request, chain, scan
  <2> QED
    BY <2>1, <2>2, <2>3
<1>2. unseen' \subseteq unseen /\ \A x \in unseen' : x \notin complete'
  BY <1>1 DEF PassesInv, ScanInv, PassInv
<1>3. stable' \in Nat /\ stored' \in Cursors \cup {Unset} /\ pageStart' \in Cursors \cup {Unset}
  BY <1>1 DEF PassesInv, ScanInv, Chained, Cursored
<1>4. ScanInv'
  BY <1>1, <1>2, <1>3, AsideKeeps DEF PassesInv
<1>5. PageInv'
  BY <1>1, JobsEnd, PagesKept DEF PassesInv
<1> QED
  BY <1>4, <1>5 DEF PassesInv

LEMMA ScannerKeeps == ASSUME ScanAssumption, PassesInv, Scanner PROVE PassesInv'
<1>0. ScanInv /\ PageInv
  BY DEF PassesInv
<1>1. CASE SetBoundary
  <2>1. UNCHANGED <<candidates, tracked, pageStart>>
    BY <1>1 DEF SetBoundary, jobs
  <2> QED
    BY <1>0, <1>1, <2>1, SetBoundaryKeeps, PagesKept DEF PassesInv
<1>2. CASE Schedule
  <2>1. UNCHANGED <<fork, tip, stable, metadata, stored, cursor, query, pageStart, unseen, complete>>
    BY <1>2 DEF Schedule, chain
  <2>2. /\ stable' \in Nat /\ stored' \in Cursors \cup {Unset} /\ pageStart' \in Cursors \cup {Unset}
        /\ \A x \in unseen' : x \notin complete'
    BY <1>0, <2>1 DEF ScanInv, Chained, Cursored, PassInv
  <2>3. ScanInv'
    BY <1>0, <2>1, <2>2, AsideKeeps
  <2> QED
    BY <1>0, <1>2, <2>3, SchedulePages DEF PassesInv
<1>3. CASE StartPage
  <2>1. UNCHANGED <<candidates, tracked, pageStart>>
    BY <1>3 DEF StartPage, jobs
  <2> QED
    BY <1>0, <1>3, <2>1, StartPageKeeps, PagesKept DEF PassesInv
<1>4. CASE ReadMetadata
  <2>1. UNCHANGED <<candidates, tracked, pageStart>>
    BY <1>4 DEF ReadMetadata, jobs
  <2> QED
    BY <1>0, <1>4, <2>1, ReadMetadataKeeps, PagesKept DEF PassesInv
<1>5. CASE ReadLive
  <2>1. cursor # Unset
    BY <1>0, <1>5 DEF ReadLive, ScanInv, Cursored
  <2> QED
    BY <1>0, <1>5, <2>1, ReadLiveKeeps, ReadLivePages DEF PassesInv
<1>6. CASE ReadBackfill
  BY <1>0, <1>6, ReadBackfillKeeps, ReadBackfillPages DEF PassesInv
<1>7. CASE Exhausted
  <2>1. UNCHANGED <<candidates, tracked, pageStart>>
    BY <1>7 DEF Exhausted, jobs
  <2> QED
    BY <1>0, <1>7, <2>1, ExhaustedKeeps, PagesKept DEF PassesInv
<1> QED
  BY <1>1, <1>2, <1>3, <1>4, <1>5, <1>6, <1>7 DEF Scanner

LEMMA PassesKept == ASSUME ScanAssumption, PassesInv, [ScanNext]_scanVars PROVE PassesInv'
<1>0. ScanInv /\ PageInv
  BY DEF PassesInv
<1>1. CASE ChainStep
  <2>1. UNCHANGED <<candidates, tracked, pageStart>>
    BY <1>1 DEF ChainStep, scan, jobs
  <2> QED
    BY <1>0, <1>1, <2>1, ChainStepKeeps, PagesKept DEF PassesInv
<1>2. CASE Pin \/ Signal \/ UNCHANGED scanVars
  <2>1. /\ UNCHANGED <<fork, tip, metadata, stored, cursor, query, pageStart, unseen, complete, candidates, tracked>>
        /\ stable' = stable \/ stable' = stable + 1
    BY <1>2 DEF Pin, Signal, scanVars, chain, scan, jobs
  <2>2. /\ stable' \in Nat /\ stored' \in Cursors \cup {Unset} /\ pageStart' \in Cursors \cup {Unset}
        /\ \A x \in unseen' : x \notin complete'
    BY <1>0, <2>1 DEF ScanInv, Chained, Cursored, PassInv
  <2>3. ScanInv'
    BY <1>0, <2>1, <2>2, AsideKeeps
  <2>4. PageInv'
    BY <1>0, <2>1, PagesKept
  <2> QED
    BY <2>3, <2>4 DEF PassesInv
<1>3. CASE Scanner
  BY <1>3, ScannerKeeps
<1>4. CASE Save
  <2>1. UNCHANGED <<fork, tip, stable, metadata, cursor, query, pageStart, unseen, complete, candidates, tracked>>
    BY <1>4 DEF Save, chain, jobs
  <2>2. stored' \in Cursors
    BY <1>0, <1>4, SaveReplays
  <2>3. /\ stable' \in Nat /\ stored' \in Cursors \cup {Unset} /\ pageStart' \in Cursors \cup {Unset}
        /\ \A x \in unseen' : x \notin complete'
    BY <1>0, <2>1, <2>2 DEF ScanInv, Chained, Cursored, PassInv
  <2>4. ScanInv'
    BY <1>0, <2>1, <2>3, AsideKeeps
  <2>5. PageInv'
    BY <1>0, <2>1, PagesKept
  <2> QED
    BY <2>4, <2>5 DEF PassesInv
<1>5. CASE QueryFails
  <2>1. UNCHANGED <<candidates, tracked, pageStart>>
    BY <1>5 DEF QueryFails, jobs
  <2> QED
    BY <1>0, <1>5, <2>1, QueryFailsKeeps, PagesKept DEF PassesInv
<1>6. CASE Restart
  BY <1>6, RestartKeeps
<1>7. ASSUME NEW r \in Root, Indexed(r) \/ Failed(r) \/ Request(r) PROVE PassesInv'
  BY <1>7, JobsAside
<1> QED
  BY <1>1, <1>2, <1>3, <1>4, <1>5, <1>6, <1>7 DEF ScanNext

\* Only a save changes what is stored.
LEMMA StoredBySave == ASSUME ScanNext, stored' # stored PROVE Save
BY DEF ScanNext, ChainStep, Pin, Signal, Scanner, QueryFails, Restart, Indexed, Failed, Request,
       SetBoundary, Schedule, StartPage, ReadMetadata, ReadLive, ReadBackfill, Exhausted

\* A pass ends with every root proposed that it had to find.
THEOREM PassAlwaysComplete == ScanSpec => PassComplete
<1>1. ScanInit => PassesInv
  BY ScanAssumption, PassesBegin
<1>2. PassesInv /\ [ScanNext]_scanVars => PassesInv'
  BY ScanAssumption, PassesKept
<1>3. PassesInv /\ [ScanNext]_scanVars => [Exhausted => unseen = {}]_scanVars
  BY ScanAssumption, ExhaustedFinds DEF PassesInv
<1> QED
  BY <1>1, <1>2, <1>3, PTL DEF ScanSpec, PassComplete

\* A saved position replays the oldest outstanding root.
THEOREM OldestAlwaysReplayed == ScanSpec => OldestReplayed
<1> DEFINE Replayed ==
        stored' # stored => IF tracked # << >> THEN Ahead(stored', Head(tracked).slot)
                            ELSE \A i \in DOMAIN candidates : Ahead(stored', candidates[i].slot)
<1>1. ScanInit => PassesInv
  BY ScanAssumption, PassesBegin
<1>2. PassesInv /\ [ScanNext]_scanVars => PassesInv'
  BY ScanAssumption, PassesKept
<1>3. PassesInv /\ [ScanNext]_scanVars => [Replayed]_scanVars
  <2> SUFFICES ASSUME PassesInv, ScanNext, stored' # stored PROVE Replayed
    OBVIOUS
  <2> QED
    BY ScanAssumption, StoredBySave, SaveReplays DEF PassesInv
<1> QED
  BY <1>1, <1>2, <1>3, PTL DEF ScanSpec, OldestReplayed
====
