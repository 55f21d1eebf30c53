------------------------------- MODULE Serving -------------------------------
(***************************************************************************)
(* Responses and the spool: requests hold a permit from admission to the   *)
(* end of their body (server.rs), large content lies in anonymous files    *)
(* within a byte budget (content.rs), and the scan of bundles waits for    *)
(* the same budget (background.rs).                                        *)
(*                                                                         *)
(* One root, larger than the memory limit, and no chunk cache: each        *)
(* retrieval of it is shared by who asks while it runs and ends in a file  *)
(* of one unit of the budget.  Permits and reservations are released by    *)
(* Drop, so the spool in use is written out at every drop.                 *)
(***************************************************************************)
EXTENDS Integers, FiniteSets

CONSTANTS
    Request,
    Scan,        \* the scheduled download of the root
    MaxPermits,  \* request_permits
    MaxSpool,    \* max_spool_bytes, in files
    Length,      \* reads that a body takes
    Idle,        \* stream_idle_timeout, in ticks
    Total,       \* stream_timeout
    MaxFails     \* bound: failures of disk, network and deadlines

ASSUME ServingAssumption ==
    /\ MaxPermits \in Nat \ {0} /\ MaxSpool \in Nat \ {0} /\ Length \in Nat \ {0}
    /\ Idle \in Nat \ {0} /\ Total \in Nat \ {0} /\ MaxFails \in Nat
    /\ Scan \notin Request

None == 0
File == 1 .. MaxSpool
Caller == Request \cup {Scan}

VARIABLES
    phase,      \* of each request
    permits,    \* permits left
    clock,      \* ticks to expires_at, total_deadline and the watchdog's wake-up
    quiet,      \* ghost: ticks since the body was opened or read from
    left,       \* reads left in the body
    reading,    \* the blocking read of a body: what it is doing and its file
    scan,       \* the scheduled download
    slot,       \* DOWNLOAD_SPOOL holds its reservation
    work,       \* the shared retrieval: its stage and who waits for it
    orphans,    \* blocking tasks of retrievals that were dropped
    file,       \* the spool file that a caller owns
    used,       \* used_bytes
    fails

bodies == <<phase, permits, clock, quiet, left, reading>>
downloads == <<scan, slot, work, orphans>>
serving == <<bodies, downloads, file, used, fails>>

NoWork == [stage |-> "none", holders |-> {}]
NoRead == [at |-> "none", file |-> None]
Less(a, b) == IF a <= b THEN a ELSE b

ServingInit ==
    /\ phase = [r \in Request |-> "new"] /\ permits = MaxPermits
    /\ clock = [r \in Request |-> [expires |-> 0, total |-> 0, wake |-> 0]]
    /\ quiet = [r \in Request |-> 0] /\ left = [r \in Request |-> 0]
    /\ reading = [r \in Request |-> NoRead]
    /\ scan = "candidate" /\ slot = FALSE /\ work = NoWork /\ orphans = 0
    /\ file = [c \in Caller |-> None] /\ used = 0 /\ fails = 0

-----------------------------------------------------------------------------
(* The spool.  A file goes with its last owner, blocking reads included.   *)

Owned(f, files, reads) ==
    \/ \E c \in Caller : files[c] = f
    \/ \E r \in Request : reads[r].file = f
Live(files, reads) == {f \in File : Owned(f, files, reads)}

\* The budget after some owners have changed, and other reservations by n.
Dropped(files, reads, n) ==
    used' = used + n - Cardinality(Live(file, reading) \ Live(files, reads))

Reserved == work.stage \in {"create", "write"}

\* A retrieval is dropped with its last holder.  A blocking task it waits for
\* runs on and owns the reservation till it ends.
Leave(c) ==
    LET rest == work.holders \ {c}
    IN \/ rest # {} /\ work' = [work EXCEPT !.holders = rest] /\ UNCHANGED <<orphans, used>>
       \/ rest = {} /\ work' = NoWork
          /\ \/ Reserved /\ orphans' = orphans + 1 /\ UNCHANGED used
             \/ work.stage # "create" /\ UNCHANGED orphans
                /\ used' = used - (IF Reserved THEN 1 ELSE 0)

OrphanEnds ==
    /\ orphans > 0
    /\ orphans' = orphans - 1 /\ used' = used - 1
    /\ UNCHANGED <<bodies, scan, slot, work, file, fails>>

-----------------------------------------------------------------------------
(* The scheduled download.                                                 *)

\* A candidate without room stays pending until capacity is released or the
\* poll interval is over.
Schedule ==
    /\ scan = "candidate" /\ used < MaxSpool
    /\ used' = used + 1 /\ slot' = TRUE /\ scan' = "downloading"
    /\ UNCHANGED <<bodies, work, orphans, file, fails>>

\* shared::run: the retrieval under way or a new one.
Join(c) ==
    /\ c \notin work.holders
    /\ work' = IF work.stage = "none" THEN [stage |-> "fetch", holders |-> {c}]
               ELSE [work EXCEPT !.holders = @ \cup {c}]

ScanJoins ==
    /\ scan = "downloading" /\ file[Scan] = None /\ Join(Scan)
    /\ UNCHANGED <<bodies, scan, slot, orphans, file, used, fails>>

\* The scope of the reservation ends with the download.
Unslotted == slot' = FALSE /\ used' = used - (IF slot THEN 1 ELSE 0)
ScanKeeps ==
    /\ scan = "downloading" /\ file[Scan] # None
    /\ scan' = "job" /\ Unslotted
    /\ UNCHANGED <<bodies, work, orphans, file, fails>>

\* The question whether the bundle is complete fails or times out.  The
\* retrieval itself has no deadline in the background.
ScanFails ==
    /\ scan = "downloading" /\ file[Scan] = None /\ Scan \notin work.holders
    /\ fails < MaxFails /\ fails' = fails + 1
    /\ scan' = "candidate" /\ Unslotted
    /\ UNCHANGED <<bodies, work, orphans, file>>

\* The job ends and its root is dropped.
JobEnds ==
    /\ scan = "job" /\ scan' = "done"
    /\ file' = [file EXCEPT ![Scan] = None] /\ Dropped(file', reading, 0)
    /\ UNCHANGED <<bodies, slot, work, orphans, fails>>

-----------------------------------------------------------------------------
(* The shared retrieval.                                                   *)

\* What happens to the callers when it fails: a request is answered, the scan
\* proposes its root again in its next pass.
FailRequests ==
    LET losers == work.holders \cap Request
    IN /\ phase' = [r \in Request |-> IF r \in losers THEN "ended" ELSE phase[r]]
       /\ permits' = permits + Cardinality(losers)
       /\ UNCHANGED <<clock, quiet, left, reading>>
FailScan(extra) ==
    IF Scan \in work.holders
    THEN scan' = "candidate" /\ slot' = FALSE /\ used' = used - extra - (IF slot THEN 1 ELSE 0)
    ELSE used' = used - extra /\ UNCHANGED <<scan, slot>>
Fail(extra) ==
    /\ FailRequests /\ FailScan(extra)
    /\ work' = NoWork /\ UNCHANGED <<orphans, file>>

FetchFails ==
    /\ work.stage = "fetch" /\ fails < MaxFails /\ fails' = fails + 1
    /\ Fail(0)

\* ContentWriter::new, run by whichever holder polls the retrieval: in the
\* scope of the download its reservation is there, elsewhere one is made.
ReservesAgain(c) == FALSE                               \* mutant: the task local is not looked at
TakeSlot(c) == c = Scan
NewWriter(c) ==
    /\ work.stage = "fetch" /\ c \in work.holders
    /\ \/ /\ TakeSlot(c) /\ slot /\ slot' = FALSE
          /\ work' = [work EXCEPT !.stage = "create"]
          /\ UNCHANGED <<bodies, scan, orphans, file, used>>
       \/ /\ ~TakeSlot(c) /\ used < MaxSpool
          /\ work' = [work EXCEPT !.stage = "create"] /\ used' = used + 1
          /\ UNCHANGED <<bodies, scan, slot, orphans, file>>
       \/ /\ TakeSlot(c) => ~slot
          /\ ~TakeSlot(c) => used >= MaxSpool
          /\ Fail(0)
    /\ UNCHANGED fails

Created ==
    /\ work.stage = "create" /\ work' = [work EXCEPT !.stage = "write"]
    /\ UNCHANGED <<bodies, scan, slot, orphans, file, used, fails>>

\* The file or the network fails: the writer is dropped with its reservation.
WriteFails ==
    /\ Reserved /\ fails < MaxFails /\ fails' = fails + 1
    /\ Fail(1)

\* finish: every holder owns the file.
Finish ==
    LET f == CHOOSE x \in File : x \notin Live(file, reading)
    IN /\ work.stage = "write"
       /\ file' = [c \in Caller |-> IF c \in work.holders THEN f ELSE file[c]]
       /\ work' = NoWork
       /\ UNCHANGED <<bodies, scan, slot, orphans, used, fails>>

-----------------------------------------------------------------------------
(* Requests.  The retrieval of a request runs in a task that a client who  *)
(* goes away does not stop.                                                *)

Admit(r) ==
    /\ phase[r] = "new"
    /\ \/ /\ permits > 0 /\ permits' = permits - 1
          /\ phase' = [phase EXCEPT ![r] = "retrieving"]
       \/ /\ permits = 0 /\ phase' = [phase EXCEPT ![r] = "ended"] /\ UNCHANGED permits
    /\ UNCHANGED <<clock, quiet, left, reading, downloads, file, used, fails>>

RequestJoins(r) ==
    /\ phase[r] = "retrieving" /\ file[r] = None /\ Join(r)
    /\ UNCHANGED <<bodies, scan, slot, orphans, file, used, fails>>

\* retrieval_deadline.
GiveUp(r) ==
    /\ r \in work.holders /\ fails < MaxFails /\ fails' = fails + 1
    /\ Leave(r)
    /\ phase' = [phase EXCEPT ![r] = "ended"] /\ permits' = permits + 1
    /\ UNCHANGED <<clock, quiet, left, reading, scan, slot, file>>

\* The resources of a response go: its file, unless a read holds it, and its
\* permit.
Release(r, reads) ==
    /\ permits' = permits + 1
    /\ file' = [file EXCEPT ![r] = None] /\ Dropped(file', reads, 0)

\* A response without a body, or nobody left to read it.
NoBody(r) ==
    /\ phase[r] = "retrieving" /\ file[r] # None
    /\ Release(r, reading)
    /\ phase' = [phase EXCEPT ![r] = "ended"]
    /\ UNCHANGED <<clock, quiet, left, reading, downloads, fails>>

Deadline(total) == Less(Idle, total)
Open(r) ==
    /\ phase[r] = "retrieving" /\ file[r] # None
    /\ phase' = [phase EXCEPT ![r] = "body"]
    /\ clock' = [clock EXCEPT ![r] = [expires |-> Deadline(Total), total |-> Total,
                                      wake |-> Deadline(Total)]]
    /\ quiet' = [quiet EXCEPT ![r] = 0] /\ left' = [left EXCEPT ![r] = Length]
    /\ UNCHANGED <<permits, reading, downloads, file, used, fails>>

-----------------------------------------------------------------------------
(* A body.  A client reads when it likes, if at all.                       *)

\* The read under way runs on without its body.
Detached(r) == [reading EXCEPT ![r] = IF @.at = "ready" THEN NoRead ELSE @]
Close(r, to) ==
    /\ phase' = [phase EXCEPT ![r] = to] /\ reading' = Detached(r)
    /\ Release(r, reading')
    /\ UNCHANGED <<clock, quiet, left, downloads, fails>>

Expired(r) == clock[r].expires = 0

\* ResponseReader::poll_read.
PollExpired(r) ==
    /\ phase[r] = "body" /\ Expired(r)
    /\ Close(r, "cut")

PollStarts(r) ==
    /\ phase[r] = "body" /\ ~Expired(r) /\ left[r] > 0 /\ reading[r].at = "none"
    /\ reading' = [reading EXCEPT ![r] = [at |-> "task", file |-> file[r]]]
    /\ UNCHANGED <<phase, permits, clock, quiet, left, downloads, file, used, fails>>

PollReads(r) ==
    /\ phase[r] = "body" /\ ~Expired(r) /\ reading[r].at = "ready"
    /\ reading' = [reading EXCEPT ![r] = NoRead]
    /\ left' = [left EXCEPT ![r] = @ - 1] /\ quiet' = [quiet EXCEPT ![r] = 0]
    /\ clock' = [clock EXCEPT ![r].expires = Deadline(clock[r].total)]
    /\ UNCHANGED <<phase, permits, downloads, file, used, fails>>

\* The end of the body drops its reader; so does a client that goes away.
PollEnds(r) == phase[r] = "body" /\ ~Expired(r) /\ left[r] = 0 /\ Close(r, "ended")
ClientDrops(r) == phase[r] = "body" /\ Close(r, "ended")

ReadEnds(r) ==
    /\ reading[r].at = "task"
    /\ reading' = [reading EXCEPT ![r] = IF phase[r] = "body" THEN [@ EXCEPT !.at = "ready"] ELSE NoRead]
    /\ Dropped(file, reading', 0)
    /\ UNCHANGED <<phase, permits, clock, quiet, left, downloads, file, fails>>

ReadFails(r) ==
    /\ phase[r] = "body" /\ reading[r].at = "task" /\ fails < MaxFails /\ fails' = fails + 1
    /\ phase' = [phase EXCEPT ![r] = "ended"] /\ reading' = [reading EXCEPT ![r] = NoRead]
    /\ Release(r, reading')
    /\ UNCHANGED <<clock, quiet, left, downloads>>

\* The watchdog wakes at the deadline it knows and looks at the one there is.
OwnDeadline(r) == clock[r].wake = 0                     \* mutant: it trusts the deadline it knows
Overdue(r) == Expired(r)
Watchdog(r) ==
    /\ phase[r] = "body" /\ clock[r].wake = 0 /\ Overdue(r)
    /\ Close(r, "cut")

AtDeadline(r) == clock[r].expires
WatchdogWaits(r) ==
    /\ phase[r] = "body" /\ clock[r].wake = 0 /\ ~Overdue(r)
    /\ clock' = [clock EXCEPT ![r].wake = AtDeadline(r)]
    /\ UNCHANGED <<phase, permits, quiet, left, reading, downloads, file, used, fails>>

Down(n) == IF n > 0 THEN n - 1 ELSE 0
Tick ==
    /\ \E r \in Request : phase[r] = "body" /\ clock[r].total > 0
    /\ clock' = [r \in Request |->
                   [expires |-> Down(clock[r].expires), total |-> Down(clock[r].total),
                    wake |-> Down(clock[r].wake)]]
    /\ quiet' = [r \in Request |-> IF phase[r] = "body" THEN quiet[r] + 1 ELSE quiet[r]]
    /\ UNCHANGED <<phase, permits, left, reading, downloads, file, used, fails>>

-----------------------------------------------------------------------------
RetrievalStep ==
    \/ Schedule \/ ScanJoins \/ ScanKeeps \/ JobEnds \/ OrphanEnds
    \/ \E c \in Caller : NewWriter(c)
    \/ Created \/ Finish
RequestStep(r) == RequestJoins(r) \/ NoBody(r) \/ Open(r)
BodyStep(r) == Watchdog(r) \/ WatchdogWaits(r) \/ ReadEnds(r)
Fault ==
    \/ FetchFails \/ WriteFails \/ ScanFails
    \/ \E r \in Request : GiveUp(r) \/ ReadFails(r)
ClientStep(r) ==
    \/ Admit(r) \/ PollExpired(r) \/ PollStarts(r) \/ PollReads(r) \/ PollEnds(r) \/ ClientDrops(r)

ServingNext ==
    \/ RetrievalStep \/ Fault \/ Tick
    \/ \E r \in Request : RequestStep(r) \/ BodyStep(r) \/ ClientStep(r)

\* Clients are not fair.
ServingFairness ==
    /\ WF_serving(RetrievalStep) /\ WF_serving(Tick)
    /\ \A r \in Request : WF_serving(RequestStep(r)) /\ WF_serving(BodyStep(r))

ServingSpec == ServingInit /\ [][ServingNext]_serving /\ ServingFairness

-----------------------------------------------------------------------------
\* Every file, task and reservation that lives is in the budget, once.
SpoolOwned ==
    used = Cardinality(Live(file, reading)) + orphans
             + (IF slot THEN 1 ELSE 0) + (IF Reserved THEN 1 ELSE 0)

\* A body is cut by its watchdog or at its next read only after the idle time
\* without a read, or at the end of the total time.
StallOnly ==
    [][\A r \in Request :
         phase[r] = "body" /\ phase'[r] = "cut" => quiet[r] >= Idle \/ clock[r].total = 0]_serving

\* Whatever its client does, a request that was admitted gives its permit back.
BodiesEnd ==
    \A r \in Request : phase[r] \in {"retrieving", "body"} ~> phase[r] \in {"ended", "cut"}

\* The scan gets the space it waits for, and its root, in the end.
ScanServed == <>(scan = "done")
=============================================================================
