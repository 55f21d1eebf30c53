------------------------------- MODULE Flights -------------------------------
(***************************************************************************)
(* Shared work (shared.rs): callers of run with one key share one future,  *)
(* kept alive by its callers alone.  A map of weak references finds it.    *)
(* The work may call run itself: the server's requests share transactions, *)
(* and transactions share chunks.  Demand tells the work, while it runs,   *)
(* whether a foreground request waits for it, so that content fetched only *)
(* for the index is kept out of the caches.                                *)
(*                                                                         *)
(* A reference count is the number of holders that exist.  Dropping the    *)
(* last one makes the weak reference fail at once; the future's own state, *)
(* and what it holds, goes a moment later (Drop).                          *)
(***************************************************************************)
EXTENDS Integers, FiniteSets

CONSTANTS
    Caller,      \* requests and background jobs, each with one call at a time
    Foreground,  \* the callers outside BACKGROUND_CPU
    Outer,       \* keys whose work calls run for Inner
    Inner,       \* the key of the shared inner work
    MaxFlights   \* bound: works started

ASSUME FlightsAssumption ==
    /\ Foreground \subseteq Caller /\ Inner \notin Outer /\ MaxFlights \in Nat
    /\ IsFiniteSet(Caller)

Key == Outer \cup {Inner}
Flight == 1 .. MaxFlights
None == 0

VARIABLES
    entry,    \* flights: the weak reference of each key, or None
    key,      \* the key of each flight, of those started
    phase,    \* "begin", "joined" or "waiting" for the inner work, "done", "dropped"
    inner,    \* the inner flight that the work of a flight holds, or None
    foreground, \* Demand::foreground
    parents,  \* Demand::parents
    at,       \* the flight each caller holds, or None
    counted   \* callers that hold an Interest

vars == <<entry, key, phase, inner, foreground, parents, at, counted>>

Started == DOMAIN key
Next1 == Cardinality(Started) + 1

\* Strong references to the future of a flight.
CallersOnly(f) == {c \in Caller : at[c] = f}     \* mutant: outer work holds nothing
Holders(f) == {c \in Caller : at[c] = f} \cup {g \in Started : inner[g] = f}
Unfinished(f) == phase[f] \in {"begin", "joined", "waiting"}

\* A Demand is held by the callers too, and by the work that runs in it.
DemandLives(f) == Unfinished(f) \/ Holders(f) # {}

\* Demand::active, for a flight and its parents.
Active(f) ==
    \/ foreground[f] # 0
    \/ \E g \in parents[f] : DemandLives(g) /\ foreground[g] # 0

-----------------------------------------------------------------------------
(* run: under the mutex join the flight of the key or start one.           *)

OnlyDemanded(k) == entry[k] # None /\ Active(entry[k])     \* mutant: joins only demanded work
Joinable(k) == entry[k] # None /\ Holders(entry[k]) # {}

StartFlight(k) ==
    /\ Next1 \in Flight
    /\ entry' = [entry EXCEPT ![k] = Next1]
    /\ key' = [f \in Started \cup {Next1} |-> IF f = Next1 THEN k ELSE key[f]]

\* The flight a call for k finds, by Join a new state of the map.
Find(k, f) ==
    \/ Joinable(k) /\ f = entry[k] /\ UNCHANGED <<entry, key>>
    \/ ~Joinable(k) /\ f = Next1 /\ StartFlight(k)

Grown(old, f, new) ==
    [g \in Started \cup {f} |-> IF g \in Started THEN old[g] ELSE new]

\* The bound leaves room for the inner work of every flight started.
Room == Cardinality(Started) + Cardinality({g \in Started : phase[g] = "begin"}) + 1 < MaxFlights

Call(c, k) ==
    /\ at[c] = None /\ (Joinable(k) \/ Room)
    /\ \E f \in Flight :
         /\ Find(k, f)
         /\ at' = [at EXCEPT ![c] = f]
         /\ phase' = Grown(phase, f, "begin")
         /\ inner' = Grown(inner, f, None)
         /\ foreground' = Grown(foreground, f, 0)
         /\ parents' = Grown(parents, f, {})
    /\ UNCHANGED counted

\* Then, outside the mutex, its interest is counted.
Count(c) ==
    /\ at[c] # None /\ c \notin counted
    /\ counted' = counted \cup {c}
    /\ foreground' = IF c \in Foreground THEN [foreground EXCEPT ![at[c]] = @ + 1]
                                         ELSE foreground
    /\ UNCHANGED <<entry, key, phase, inner, parents, at>>

\* An Interest is dropped with its caller, answered or cancelled.
CountKept(c) == foreground                       \* mutant: counted down only by cancellation
Discount(c) == IF c \in Foreground THEN [foreground EXCEPT ![at[c]] = @ - 1]
                                   ELSE foreground

Leave(c) ==
    /\ at' = [at EXCEPT ![c] = None] /\ counted' = counted \ {c}
    /\ UNCHANGED <<entry, key, phase, inner, parents>>

Answer(c) ==
    /\ c \in counted /\ phase[at[c]] = "done"
    /\ foreground' = Discount(c)
    /\ Leave(c)

Cancel(c) ==
    /\ c \in counted /\ phase[at[c]] # "done"
    /\ foreground' = IF c \in Foreground THEN [foreground EXCEPT ![at[c]] = @ - 1]
                                         ELSE foreground
    /\ Leave(c)

-----------------------------------------------------------------------------
(* The work of a flight; it is polled only while a caller holds it.        *)

CallInner(g) ==
    /\ Holders(g) # {} /\ key[g] \in Outer /\ phase[g] = "begin"
    /\ \E f \in Flight :
         /\ Find(Inner, f)
         /\ inner' = [Grown(inner, f, None) EXCEPT ![g] = f]
         /\ phase' = [Grown(phase, f, "begin") EXCEPT ![g] = "joined"]
         /\ foreground' = Grown(foreground, f, 0)
         /\ parents' = Grown(parents, f, {})
    /\ UNCHANGED <<at, counted>>

\* Dead parents go, the new one is pushed once.
FirstParent(f, g) == IF parents[f] = {} THEN {g} ELSE parents[f]   \* mutant: later parents lost
WithParent(f, g) == {p \in parents[f] : DemandLives(p)} \cup {g}

AddParent(g) ==
    /\ phase[g] = "joined" /\ Holders(g) # {}
    /\ phase' = [phase EXCEPT ![g] = "waiting"]
    /\ parents' = [parents EXCEPT ![inner[g]] = WithParent(inner[g], g)]
    /\ UNCHANGED <<entry, key, inner, foreground, at, counted>>

\* The work ends, the outer one with the result of the inner; its future and
\* what it holds are dropped, the result is kept.
End(g) ==
    /\ phase' = [phase EXCEPT ![g] = "done"]
    /\ inner' = [inner EXCEPT ![g] = None]
    /\ UNCHANGED <<entry, key, foreground, parents, at, counted>>

Finish(g) ==
    /\ Holders(g) # {}
    /\ \/ key[g] = Inner /\ phase[g] = "begin"
       \/ phase[g] = "waiting" /\ phase[inner[g]] = "done"
    /\ End(g)

\* A deadline or another source ends the outer work first.
GiveUp(g) == Holders(g) # {} /\ phase[g] = "waiting" /\ End(g)

Drop(g) ==
    /\ Unfinished(g) /\ Holders(g) = {}
    /\ phase' = [phase EXCEPT ![g] = "dropped"]
    /\ inner' = [inner EXCEPT ![g] = None]
    /\ UNCHANGED <<entry, key, foreground, parents, at, counted>>

Init ==
    /\ entry = [k \in Key |-> None]
    /\ key = << >> /\ phase = << >> /\ inner = << >> /\ foreground = << >> /\ parents = << >>
    /\ at = [c \in Caller |-> None] /\ counted = {}

Next ==
    \/ \E c \in Caller : \/ \E k \in Key : Call(c, k)
                         \/ Count(c) \/ Answer(c) \/ Cancel(c)
    \/ \E g \in Started : CallInner(g) \/ AddParent(g) \/ Finish(g) \/ GiveUp(g) \/ Drop(g)

Spec == Init /\ [][Next]_vars

FairSpec ==
    /\ Spec
    /\ \A c \in Caller : WF_vars(Count(c)) /\ WF_vars(Answer(c))
    /\ \A g \in Flight :
         WF_vars(g \in Started /\ (CallInner(g) \/ AddParent(g) \/ Finish(g) \/ Drop(g)))

-----------------------------------------------------------------------------
FlightsTypeOK ==
    /\ entry \in [Key -> {None} \cup Started] /\ Started = 1 .. Cardinality(Started)
    /\ key \in [Started -> Key] /\ inner \in [Started -> {None} \cup Started]
    /\ phase \in [Started -> {"begin", "joined", "waiting", "done", "dropped"}]
    /\ foreground \in [Started -> 0 .. Cardinality(Foreground)]
    /\ parents \in [Started -> SUBSET Started]
    /\ at \in [Caller -> {None} \cup Started] /\ counted \subseteq Caller

\* Work is done once: no two flights of one key run with callers.
OneFlight ==
    \A f, g \in Started :
        f # g /\ key[f] = key[g] /\ Unfinished(f) /\ Unfinished(g) => {} \in {Holders(f), Holders(g)}

\* A foreground request is seen by the work it waits for, and by the inner
\* work of that, however the two were joined: content it wants is cached.
DemandSeen ==
    \A c \in counted \cap Foreground :
        /\ Unfinished(at[c]) => Active(at[c])
        /\ phase[at[c]] = "waiting" => Active(inner[at[c]])

\* No demand outlives the requests: with no foreground request on a flight or
\* on a live parent, work fetches for the index alone and is not cached.
DemandEnds ==
    \A f \in Started :
        Active(f) => \E c \in counted \cap Foreground : at[c] \in {f} \cup parents[f]

\* A caller that does not leave is answered, whoever else leaves: cancelling
\* one caller never cancels the work of another.
CallersAnswered == \A c \in Caller : at[c] # None ~> at[c] = None
=============================================================================
