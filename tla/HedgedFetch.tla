----------------------------- MODULE HedgedFetch -----------------------------
(***************************************************************************)
(* A chunk is asked of several sources, one after the other and up to      *)
(* Hedges at a time (peers.rs: hedged_requests, admit_chunk).  A request   *)
(* for one source needs a permit of its pool, handed out in order, and a   *)
(* slot of the origin, which it only tries for.  Who finds every origin    *)
(* full waits for CHUNK_CAPACITY, a notification that is not remembered    *)
(* for those who do not listen yet.                                        *)
(*                                                                         *)
(* One poll of the stream is one select: a result, the deadline or an      *)
(* admission.  A result ends the poll, and with it an admission under way. *)
(* How sources are ranked and how long a hedge is delayed only chooses     *)
(* among the steps here.                                                   *)
(***************************************************************************)
EXTENDS Integers, FiniteSets, Sequences, SequencesExt

CONSTANTS
    Req,         \* chunk fetches
    Pool,        \* [Req -> pools]: BACKGROUND_CPU or HTTP
    Source,      \* origins of the candidates
    Permits,     \* CHUNK_FETCHES, HTTP_CHUNK_FETCHES: 192 in the code
    OriginLimit, \* CHUNK_ORIGIN_LIMIT: 48 in the code
    Hedges       \* 3 in the code

ASSUME HedgeAssumption == {Permits, OriginLimit, Hedges} \subseteq Nat \ {0}

Pools == {Pool[r] : r \in Req}

VARIABLES
    phase,      \* "polled" or "done"
    attempted,  \* sources tried
    active,     \* sources with a request under way: they hold permit and slot
    exhausted,  \* no source is left
    outcome,    \* "none", "found", "timeout" or "cancelled"
    admission,  \* admit_chunk: "off", "queued", "trying" or "waiting"
    untried,    \* candidates it still has to try for
    full,       \* candidates it found full
    notified,   \* CHUNK_CAPACITY has been signalled since it listens
    dropping,   \* sources whose permits are being dropped
    silent,     \* a permit has been given back, the notification is to come

    queue,      \* [Pools -> waiters for a permit]
    permits,    \* [Pools -> permits left]
    slots       \* [Source -> slots left]

request == <<phase, attempted, active, exhausted, outcome>>
admitting == <<admission, untried, full>>
drops == <<dropping, silent>>
limits == <<queue, permits, slots>>
vars == <<request, admitting, notified, drops, limits>>

Busy(r) == dropping[r] # {} \/ silent[r]
Polled(r) == phase[r] = "polled" /\ ~Busy(r) /\ outcome[r] = "none"

-----------------------------------------------------------------------------
(* admit_chunk: it listens before it looks.                                *)

TooLate == {"waiting"}                           \* mutant: it listens once it waits
Listening == {"queued", "trying", "waiting"}

Admit(r) ==
    /\ Polled(r) /\ admission[r] = "off"
    /\ Cardinality(active[r]) < Hedges /\ ~exhausted[r]
    /\ admission' = [admission EXCEPT ![r] = "queued"]
    /\ queue' = [queue EXCEPT ![Pool[r]] = Append(@, r)]
    /\ UNCHANGED <<request, untried, full, notified, drops, permits, slots>>

Acquire(r) ==
    /\ admission[r] = "queued" /\ Head(queue[Pool[r]]) = r /\ permits[Pool[r]] > 0
    /\ queue' = [queue EXCEPT ![Pool[r]] = Tail(@)]
    /\ permits' = [permits EXCEPT ![Pool[r]] = @ - 1]
    /\ admission' = [admission EXCEPT ![r] = "trying"]
    /\ untried' = [untried EXCEPT ![r] = Source \ attempted[r]]
    /\ UNCHANGED <<request, full, notified, drops, slots>>

\* try_acquire_owned of one origin; the first that has a slot is asked.
Try(r, s) ==
    /\ admission[r] = "trying" /\ s \in untried[r]
    /\ \/ /\ slots[s] > 0
          /\ slots' = [slots EXCEPT ![s] = @ - 1]
          /\ attempted' = [attempted EXCEPT ![r] = @ \cup {s}]
          /\ active' = [active EXCEPT ![r] = @ \cup {s}]
          /\ admission' = [admission EXCEPT ![r] = "off"]
          /\ untried' = [untried EXCEPT ![r] = {}] /\ full' = [full EXCEPT ![r] = {}]
          /\ notified' = [notified EXCEPT ![r] = FALSE]
       \/ /\ slots[s] = 0
          /\ untried' = [untried EXCEPT ![r] = @ \ {s}]
          /\ full' = [full EXCEPT ![r] = @ \cup {s}]
          /\ UNCHANGED <<slots, attempted, active, admission, notified>>
    /\ UNCHANGED <<phase, exhausted, outcome, drops, queue, permits>>

GiveBack(p) == permits' = [permits EXCEPT ![p] = @ + 1]

NoneFree(r) == TRUE                              \* mutant: a full origin counts as asked
NoneLeft(r) == full[r] = {}

\* No slot: the permit goes back; with no candidate left the sources are
\* exhausted.
NoSlot(r) ==
    /\ admission[r] = "trying" /\ untried[r] = {}
    /\ GiveBack(Pool[r])
    /\ admission' = [admission EXCEPT ![r] = IF NoneLeft(r) THEN "off" ELSE "waiting"]
    /\ exhausted' = [exhausted EXCEPT ![r] = NoneLeft(r)]
    /\ notified' = [notified EXCEPT ![r] = @ /\ ~NoneLeft(r)]
    /\ UNCHANGED <<phase, attempted, active, outcome, untried, full, drops, queue, slots>>

Wake(r) ==
    /\ admission[r] = "waiting" /\ notified[r]
    /\ admission' = [admission EXCEPT ![r] = "off"]
    /\ full' = [full EXCEPT ![r] = {}] /\ notified' = [notified EXCEPT ![r] = FALSE]
    /\ UNCHANGED <<request, untried, drops, limits>>

-----------------------------------------------------------------------------
(* The other branches of the select.  An admission under way is dropped.   *)

Abandon(r) ==
    /\ admission' = [admission EXCEPT ![r] = "off"]
    /\ full' = [full EXCEPT ![r] = {}] /\ notified' = [notified EXCEPT ![r] = FALSE]
    /\ queue' = [queue EXCEPT ![Pool[r]] = SelectSeq(@, LAMBDA x : x # r)]

Drop(r, gone) ==
    /\ active' = [active EXCEPT ![r] = @ \ gone]
    /\ dropping' = [dropping EXCEPT ![r] = gone]

\* A source answers.  A verified chunk ends the stream, which drops the others.
Found(r) ==
    /\ Polled(r) /\ admission[r] # "trying" /\ active[r] # {}
    /\ outcome' = [outcome EXCEPT ![r] = "found"]
    /\ Drop(r, active[r]) /\ Abandon(r)
    /\ UNCHANGED <<phase, attempted, exhausted, untried, silent, permits, slots>>

Rejected(r) ==
    /\ Polled(r) /\ admission[r] # "trying"
    /\ \E s \in active[r] : Drop(r, {s})
    /\ Abandon(r)
    /\ UNCHANGED <<phase, attempted, exhausted, outcome, untried, silent, permits, slots>>

\* The deadline runs only while a request is under way, but may be noticed
\* after the last one has answered.
TimeOut(r) ==
    /\ Polled(r) /\ admission[r] # "trying" /\ attempted[r] # {}
    /\ outcome' = [outcome EXCEPT ![r] = "timeout"]
    /\ exhausted' = [exhausted EXCEPT ![r] = TRUE]
    /\ Drop(r, active[r]) /\ Abandon(r)
    /\ UNCHANGED <<phase, attempted, untried, silent, permits, slots>>

\* The last caller of the fetch leaves.
Cancel(r) ==
    /\ Polled(r) /\ admission[r] # "trying"
    /\ outcome' = [outcome EXCEPT ![r] = "cancelled"]
    /\ Drop(r, active[r]) /\ Abandon(r)
    /\ UNCHANGED <<phase, attempted, exhausted, untried, silent, permits, slots>>

\* ChunkPermit::drop: the slot and the permit, then the notification.
DropPermit(r) ==
    /\ ~silent[r] /\ silent' = [silent EXCEPT ![r] = TRUE]
    /\ \E s \in dropping[r] :
         /\ slots' = [slots EXCEPT ![s] = @ + 1]
         /\ dropping' = [dropping EXCEPT ![r] = @ \ {s}]
    /\ GiveBack(Pool[r])
    /\ UNCHANGED <<request, admitting, notified, queue>>

Notified == {q \in Req : admission[q] \in Listening}

Notify(r) ==
    /\ silent[r] /\ silent' = [silent EXCEPT ![r] = FALSE]
    /\ notified' = [q \in Req |-> notified[q] \/ q \in Notified]
    /\ UNCHANGED <<request, admitting, dropping, limits>>

EndFetch(r) ==
    /\ phase[r] = "polled" /\ ~Busy(r) /\ active[r] = {} /\ admission[r] = "off"
    /\ exhausted[r] \/ outcome[r] # "none"
    /\ phase' = [phase EXCEPT ![r] = "done"]
    /\ UNCHANGED <<attempted, active, exhausted, outcome, admitting, notified, drops, limits>>

Init ==
    /\ phase = [r \in Req |-> "polled"] /\ outcome = [r \in Req |-> "none"]
    /\ admission = [r \in Req |-> "off"]
    /\ attempted = [r \in Req |-> {}] /\ active = attempted /\ untried = attempted
    /\ full = attempted /\ dropping = attempted
    /\ exhausted = [r \in Req |-> FALSE] /\ notified = exhausted /\ silent = exhausted
    /\ queue = [p \in Pools |-> << >>] /\ permits = [p \in Pools |-> Permits]
    /\ slots = [s \in Source |-> OriginLimit]

Local(r) ==
    \/ Admit(r) \/ Acquire(r) \/ NoSlot(r) \/ Wake(r) \/ EndFetch(r)
    \/ DropPermit(r) \/ Notify(r)
    \/ \E s \in Source : Try(r, s)

Next == \E r \in Req : Local(r) \/ Found(r) \/ Rejected(r) \/ TimeOut(r) \/ Cancel(r)

Spec == Init /\ [][Next]_vars

Answered(r) == active[r] # {} /\ (Found(r) \/ Rejected(r) \/ TimeOut(r))

\* Tasks run on, and a request that is under way answers or times out.
FairSpec ==
    /\ Spec
    /\ \A r \in Req : WF_vars(Local(r)) /\ WF_vars(Answered(r))

-----------------------------------------------------------------------------
HedgeTypeOK ==
    /\ phase \in [Req -> {"polled", "done"}]
    /\ outcome \in [Req -> {"none", "found", "timeout", "cancelled"}]
    /\ admission \in [Req -> {"off", "queued", "trying", "waiting"}]
    /\ {attempted, active, untried, full, dropping} \subseteq [Req -> SUBSET Source]
    /\ {exhausted, notified, silent} \subseteq [Req -> BOOLEAN]
    /\ queue \in [Pools -> Seq(Req)] /\ permits \in [Pools -> 0 .. Permits]
    /\ slots \in [Source -> 0 .. OriginLimit]

\* Every slot and every permit is held by a request that is under way, being
\* dropped, or, for a permit, looking for a slot: none is lost, whichever
\* branch of the select drops what.
HoldsPermit(r) ==
    Cardinality(active[r] \cup dropping[r])
        + (IF admission[r] = "trying" THEN 1 ELSE 0)

PermitsConserved ==
    /\ \A s \in Source :
         slots[s] + Cardinality({r \in Req : s \in active[r] \cup dropping[r]}) = OriginLimit
    /\ \A p \in Pools :
         permits[p] + FoldSet(LAMBDA r, n : HoldsPermit(r) + n, 0, {r \in Req : Pool[r] = p}) = Permits

\* Nobody sleeps while a slot it found taken is free again, unless the
\* notification is on its way.
NoLostWakeup ==
    \A r \in Req : admission[r] = "waiting" /\ ~notified[r] =>
        (\A s \in full[r] : slots[s] = 0) \/ (\E q \in Req : silent[q])

\* A chunk is reported missing only after every source was asked.
AllAsked ==
    \A r \in Req : phase[r] = "done" /\ outcome[r] = "none" => attempted[r] = Source

\* Every fetch ends although permits and slots are short.
FetchEnds == \A r \in Req : <>(phase[r] = "done")
=============================================================================
