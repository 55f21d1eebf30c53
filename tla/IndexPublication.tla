-------------------------- MODULE IndexPublication --------------------------
(***************************************************************************)
(* The index publisher (index_publication.rs) and the routes that serve    *)
(* what it publishes (server.rs).  An operator replaces the files of one   *)
(* band by renames; a pass describes them, signs a document when it has to *)
(* and shows a view; a request opens a file by the view it took.           *)
(*                                                                         *)
(* A version stands for the bytes and the modification time of a file; no  *)
(* time is used twice.  Versions may agree in their size.                  *)
(***************************************************************************)
EXTENDS Integers, FiniteSets

CONSTANTS
    Half,        \* half the time to live of a document, in ticks
    MaxWrites,   \* bound: files put or removed by the operator
    MaxTime,     \* bound: ticks
    MaxFaults    \* bound: crashes and failed writes

ASSUME PublicationAssumption ==
    /\ Half \in Nat \ {0} /\ MaxWrites \in Nat /\ MaxTime \in Nat /\ MaxFaults \in Nat

Manifest == "manifest.json"
Data == "data"
Files == {Manifest, Data}
Absent == 0
Nothing == [f \in Files |-> Absent]

VARIABLES
    disk,         \* the band directory: the version of each file
    writes,       \* versions handed out
    now,
    pass,         \* the pass of the publisher
    state,        \* state.json: what was hashed and when the document was issued
    publication,  \* publication.json
    torrents,     \* the files of torrents/
    view,         \* what the routes serve
    reader,       \* a request for a file, one after the other
    faults

publisher == <<pass, state, publication, torrents>>
publishing == <<disk, writes, now, publisher, view, reader, faults>>

\* A band as state.json keeps it: the stats it was hashed under, and the
\* versions that were hashed.
NoBand == [stat |-> Nothing, hash |-> Nothing]
NoDocument == [band |-> NoBand, records |-> Absent, issued |-> 0]
Asleep == [at |-> "idle", now |-> 0, cached |-> NoBand, issued |-> 0, records |-> Absent,
          band |-> NoBand, todo |-> {}]
NoReader == [at |-> "none", file |-> Data, stat |-> Absent, hash |-> Absent, bytes |-> Absent]

PublicationInit ==
    /\ disk = [f \in Files |-> 1] /\ writes = 1 /\ now = Half
    /\ pass = Asleep /\ state = [band |-> NoBand, issued |-> 0]
    /\ publication = NoDocument /\ torrents = {} /\ view = NoDocument
    /\ reader = NoReader /\ faults = 0

\* What a document says of a band: the digests and the number of records.
Entries(d) == <<d.band.hash, d.records>>

-----------------------------------------------------------------------------
(* The operator, and time.                                                 *)

Operate(f) ==
    /\ writes < MaxWrites /\ writes' = writes + 1
    /\ disk' \in {[disk EXCEPT ![f] = writes'], [disk EXCEPT ![f] = Absent]}
    /\ UNCHANGED <<now, publisher, view, reader, faults>>

Tock ==
    /\ now < MaxTime /\ now' = now + 1
    /\ UNCHANGED <<disk, writes, publisher, view, reader, faults>>

-----------------------------------------------------------------------------
(* A pass: publish_once and describe.                                      *)

Quiet == UNCHANGED <<disk, writes, now, reader, faults>>
OnlyPass == Quiet /\ UNCHANGED <<state, publication, torrents, view>>

Begin ==
    /\ pass.at = "idle"
    /\ pass' = [Asleep EXCEPT !.at = "manifest", !.now = now, !.cached = state.band, !.issued = state.issued]
    /\ OnlyPass

\* A band that cannot be described is left out, and it is the only one.
NotPublishable == pass' = [pass EXCEPT !.at = "empty", !.band = NoBand]

ReadManifest ==
    /\ pass.at = "manifest"
    /\ IF disk[Manifest] = Absent THEN NotPublishable
       ELSE pass' = [pass EXCEPT !.at = "stat", !.records = disk[Manifest], !.todo = Files]
    /\ OnlyPass

Stat(f) ==
    /\ pass.at = "stat" /\ f \in pass.todo
    /\ IF disk[f] = Absent THEN NotPublishable
       ELSE pass' = [pass EXCEPT !.band.stat[f] = disk[f], !.todo = @ \ {f}]
    /\ OnlyPass

NamesOnly(band, stat) == band # NoBand          \* mutant: times are not compared
SameStats(band, stat) == band.stat = stat
Reusable == SameStats(pass.cached, pass.band.stat) /\ pass.cached.hash \in torrents

Compare ==
    /\ pass.at = "stat" /\ pass.todo = {}
    /\ pass' = IF Reusable THEN [pass EXCEPT !.at = "sign", !.band = pass.cached]
               ELSE [pass EXCEPT !.at = "hash", !.todo = Files]
    /\ OnlyPass

\* build_torrent opens the file anew.  What it reads may have been replaced;
\* it notices when the size is another one.
Hashed(f) == pass' = [pass EXCEPT !.band.hash[f] = disk[f], !.todo = @ \ {f}]
HashFile(f) ==
    /\ pass.at = "hash" /\ f \in pass.todo
    /\ IF disk[f] = Absent THEN NotPublishable
       ELSE Hashed(f) \/ (disk[f] # pass.band.stat[f] /\ NotPublishable)
    /\ OnlyPass

WriteTorrent ==
    /\ pass.at = "hash" /\ pass.todo = {}
    /\ torrents' = torrents \cup {pass.band.hash}
    /\ pass' = [pass EXCEPT !.at = "sign"]
    /\ Quiet /\ UNCHANGED <<state, publication, view>>

\* Nothing to publish: the view goes, then the state is written.
ShowNothing ==
    /\ pass.at = "empty" /\ view' = NoDocument
    /\ pass' = [pass EXCEPT !.at = "last"]
    /\ Quiet /\ UNCHANGED <<state, publication, torrents>>

Described == [band |-> pass.band, records |-> pass.records, issued |-> pass.now]
Fresh == pass.now - pass.issued < Half
Unchanged ==
    publication # NoDocument /\ Entries(publication) = Entries(Described) /\ Fresh

\* The document is replaced before the state that says when it was issued.
Sign ==
    /\ pass.at = "sign"
    /\ \/ /\ Unchanged
          /\ pass' = [pass EXCEPT !.at = "save"] /\ UNCHANGED publication
       \/ /\ ~Unchanged /\ publication' = Described
          /\ pass' = [pass EXCEPT !.at = "save", !.issued = pass.now]
    /\ Quiet /\ UNCHANGED <<state, torrents, view>>

Touched == pass.now                             \* mutant: every pass counts as an issue
IssuedAt == pass.issued
SaveState ==
    /\ pass.at \in {"save", "last"}
    /\ state' = [band |-> pass.band, issued |-> IssuedAt]
    /\ pass' = IF pass.at = "save" THEN [pass EXCEPT !.at = "show"] ELSE Asleep
    /\ Quiet /\ UNCHANGED <<publication, torrents, view>>

\* build_view, then remove_unlisted_torrents.
Show ==
    /\ pass.at = "show"
    /\ view' = [publication EXCEPT !.band = pass.band]
    /\ pass' = [pass EXCEPT !.at = "clean"]
    /\ Quiet /\ UNCHANGED <<state, publication, torrents>>

Clean ==
    /\ pass.at = "clean" /\ torrents' = torrents \cap {pass.band.hash}
    /\ pass' = Asleep
    /\ Quiet /\ UNCHANGED <<state, publication, view>>

\* A failed write ends the pass, or leaves the band out; so does a torrent that
\* build_view cannot read, when document and state are written: the old view stays.
PassFails ==
    /\ faults < MaxFaults /\ faults' = faults + 1
    /\ \/ pass.at \in {"sign", "save", "show", "last"} /\ pass' = Asleep
       \/ pass.at = "hash" /\ pass.todo = {} /\ NotPublishable
    /\ UNCHANGED <<disk, writes, now, state, publication, torrents, view, reader>>

PublisherCrash ==
    /\ faults < MaxFaults /\ faults' = faults + 1
    /\ pass' = Asleep /\ view' = NoDocument /\ reader' = NoReader
    /\ UNCHANGED <<disk, writes, now, state, publication, torrents>>

-----------------------------------------------------------------------------
(* serve_index_path and serve_index_file.                                  *)

OnlyReader == UNCHANGED <<disk, writes, now, publisher, view, faults>>

TakeEntry(f) ==
    /\ reader.at = "none" /\ view # NoDocument
    /\ reader' = [at |-> "taken", file |-> f, stat |-> view.band.stat[f],
                  hash |-> view.band.hash[f], bytes |-> Absent]
    /\ OnlyReader

SizeOnly == disk[reader.file] # Absent          \* mutant: the time is not looked at
Matches == disk[reader.file] = reader.stat

\* What was opened stays open: a rename does not reach the body.
OpenFile ==
    /\ reader.at = "taken"
    /\ \/ Matches /\ reader' = [reader EXCEPT !.at = "body", !.bytes = disk[reader.file]]
       \/ ~Matches /\ reader' = NoReader
    /\ OnlyReader

EndBody == reader.at = "body" /\ reader' = NoReader /\ OnlyReader

-----------------------------------------------------------------------------
PublisherStep ==
    \/ Begin \/ ReadManifest \/ Compare \/ WriteTorrent \/ ShowNothing
    \/ Sign \/ SaveState \/ Show \/ Clean
    \/ \E f \in Files : Stat(f) \/ HashFile(f)

PublicationNext ==
    \/ PublisherStep \/ PassFails \/ PublisherCrash \/ Tock
    \/ OpenFile \/ EndBody
    \/ \E f \in Files : Operate(f) \/ TakeEntry(f)

\* The publisher is a loop of its own.
PublicationFairness == WF_publishing(PublisherStep)

PublicationSpec == PublicationInit /\ [][PublicationNext]_publishing /\ PublicationFairness

-----------------------------------------------------------------------------
\* A body under a digest has the bytes of that digest, whatever was replaced
\* while the band was described and while the request was under way.
ServedAsHashed == reader.at = "body" => reader.bytes = reader.hash

\* What a pass shows was not halfway through its time to live when that pass
\* began, crashes and failures between the two writes included.  A pass takes the
\* time once (publish_once(SystemTime::now())): while it hashes, a document that
\* it then keeps grows older, and is renewed by the next.
Renewed == view' \notin {view, NoDocument} => pass.now - view'.issued < Half
PassRenews == [][Renewed]_publishing

\* What is served is what its document says, and a pass shows no document that
\* was halfway through its time to live when it began.
PublicationSound == [][ServedAsHashed' /\ Renewed]_publishing

\* The operator's last files are published in the end, and nothing that is gone.
Settled ==
    IF Absent \in {disk[f] : f \in Files} THEN view = NoDocument
    ELSE view.band = [stat |-> disk, hash |-> disk] /\ view.records = disk[Manifest]
Settles == <>[]Settled
=============================================================================
