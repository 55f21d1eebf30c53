------------------------------ MODULE Admission ------------------------------
(***************************************************************************)
(* The admission counters of the bundle worker (background.rs): every root *)
(* that is downloaded, queued or indexed holds one reservation of a job    *)
(* slot and of bytes.  HTTP requests and the scheduled scan share the      *)
(* slots; the scheduled scan leaves RequestSlots slots and half the bytes  *)
(* to the requests.                                                        *)
(*                                                                         *)
(* The state is behind one mutex, so each critical section is one action.  *)
(* Profiles and status counters only report and are left out.              *)
(***************************************************************************)
EXTENDS Integers, FiniteSets

CONSTANTS
    Root,          \* bundle roots, by ID
    Size,          \* the byte sizes a job may have
    MaxBytes,      \* max_bytes
    MaxJobs,       \* max_jobs
    RequestSlots,  \* MAX_JOBS, 8 in the code
    Headroom,      \* request_headroom: TRUE in the service, FALSE in import
    NoJob          \* the root holds no reservation

ASSUME AdmissionAssumption ==
    /\ Size \subseteq Nat
    /\ MaxBytes \in Nat /\ MaxJobs \in Nat /\ RequestSlots \in Nat
    /\ RequestSlots <= MaxJobs
    /\ Headroom \in BOOLEAN
    /\ IsFiniteSet(Root)

MaxScheduledJobs == IF Headroom THEN MaxJobs - RequestSlots ELSE MaxJobs
MaxScheduledBytes == IF Headroom THEN MaxBytes \div 2 ELSE MaxBytes

Reservation == [bytes : Size, scheduled : BOOLEAN]

ASSUME NoJobAssumption == NoJob \notin Reservation

VARIABLES
    held,             \* ids: the reservation of each root, or NoJob
    bytes,            \* bytes reserved
    scheduledBytes,   \* of them, by the scan
    scheduledJobs,    \* slots held by the scan
    closed,           \* the worker was cancelled
    paused            \* the chain is behind: no admission, no new writer

counters == <<held, bytes, scheduledBytes, scheduledJobs>>
avars == <<held, bytes, scheduledBytes, scheduledJobs, closed, paused>>

Held == {r \in Root : held[r] # NoJob}
Scheduled == {r \in Held : held[r].scheduled}

\* The conditions of reserve_inner, contention aside.
Fits(b) == b <= MaxBytes - bytes

BytesOnly(b) == b <= MaxScheduledBytes - scheduledBytes      \* mutant: slots not kept
SlotsOnly(b) == scheduledJobs # MaxScheduledJobs             \* mutant: bytes not kept
FitsScheduled(b) ==
    /\ b <= MaxScheduledBytes - scheduledBytes
    /\ scheduledJobs # MaxScheduledJobs

Open == ~paused /\ ~closed

Admissible(r, b, scheduled) ==
    /\ Open
    /\ Cardinality(Held) # MaxJobs
    /\ held[r] = NoJob
    /\ Fits(b)
    /\ scheduled => FitsScheduled(b)

\* reserve_inner succeeds.
Reserve(r, b, scheduled) ==
    /\ Admissible(r, b, scheduled)
    /\ held' = [held EXCEPT ![r] = [bytes |-> b, scheduled |-> scheduled]]
    /\ bytes' = bytes + b
    /\ scheduledBytes' = IF scheduled THEN scheduledBytes + b ELSE scheduledBytes
    /\ scheduledJobs' = IF scheduled THEN scheduledJobs + 1 ELSE scheduledJobs
    /\ UNCHANGED <<closed, paused>>

\* Reservation::shrink: the job kept fewer bytes than it reserved.
ScheduledAfterShrink(r, b) ==
    IF held[r].scheduled THEN scheduledBytes - (held[r].bytes - b) ELSE scheduledBytes

Shrink(r, b) ==
    /\ held[r] # NoJob /\ b <= held[r].bytes
    /\ bytes' = bytes - (held[r].bytes - b)
    /\ scheduledBytes' = ScheduledAfterShrink(r, b)
    /\ held' = [held EXCEPT ![r].bytes = b]
    /\ UNCHANGED <<scheduledJobs, closed, paused>>

\* Drop for Reservation, on every path a job can end.
JobsAfterRelease(r) ==
    IF held[r].scheduled THEN scheduledJobs - 1 ELSE scheduledJobs

Release(r) ==
    /\ held[r] # NoJob
    /\ held' = [held EXCEPT ![r] = NoJob]
    /\ bytes' = bytes - held[r].bytes
    /\ scheduledBytes' = IF held[r].scheduled THEN scheduledBytes - held[r].bytes
                                              ELSE scheduledBytes
    /\ scheduledJobs' = JobsAfterRelease(r)
    /\ UNCHANGED <<closed, paused>>

\* follow_chain: paused is the negation of what the last step reported.
SetPaused(p) ==
    /\ paused' = p /\ paused' # paused
    /\ UNCHANGED <<counters, closed>>

\* BundleWorker::cancel, by shutdown or by Drop.
Close ==
    /\ ~closed /\ closed' = TRUE
    /\ UNCHANGED <<counters, paused>>

AdmissionInit ==
    /\ held = [r \in Root |-> NoJob]
    /\ bytes = 0 /\ scheduledBytes = 0 /\ scheduledJobs = 0
    /\ closed = FALSE /\ paused \in BOOLEAN

AdmissionNext ==
    \/ \E r \in Root, b \in Size, s \in BOOLEAN : Reserve(r, b, s)
    \/ \E r \in Root, b \in Size : Shrink(r, b)
    \/ \E r \in Root : Release(r)
    \/ \E p \in BOOLEAN : SetPaused(p)
    \/ Close

AdmissionSpec == AdmissionInit /\ [][AdmissionNext]_avars

-----------------------------------------------------------------------------
AdmissionTypeOK ==
    /\ held \in [Root -> Reservation \cup {NoJob}]
    /\ bytes \in Int /\ scheduledBytes \in Int /\ scheduledJobs \in Int
    /\ closed \in BOOLEAN /\ paused \in BOOLEAN

\* The slots count the reservations, whichever way each of them ended.
SlotsCounted == scheduledJobs = Cardinality(Scheduled)

\* No more jobs than slots, and the scan never takes the slots kept for
\* requests: with no request in flight, RequestSlots of them are free.
SlotsBounded ==
    /\ Cardinality(Held) <= MaxJobs
    /\ Cardinality(Scheduled) <= MaxScheduledJobs
=============================================================================
