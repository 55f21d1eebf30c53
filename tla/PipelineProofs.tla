---------------------------- MODULE PipelineProofs ----------------------------
(***************************************************************************)
(* The bundle worker, for any roots, sizes, limits and numbers of writers. *)
(* The admission: its counters are the number and the bytes of the         *)
(* reservations, and the scan never holds the slots kept for requests.     *)
(* The pipeline: it uses the admission only through its own operations,    *)
(* every job owns one reservation, a finished download always finds room   *)
(* in the queue of the writers, and the scan alone cannot shut requests    *)
(* out.                                                                    *)
(* The metadata import: one job at a time records a block.                 *)
(***************************************************************************)
EXTENDS BundlePipeline, TxPipeline, Tallies, SequenceTheorems

\* The sets of reservations are finite and the scan's lie within the others.
LEMMA HeldFinite ==
    /\ IsFiniteSet(Held) /\ IsFiniteSet(Scheduled)
    /\ Cardinality(Held) \in Nat /\ Cardinality(Scheduled) \in Nat
<1>1. IsFiniteSet(Held) /\ IsFiniteSet(Scheduled)
  BY AdmissionAssumption, FS_Subset DEF Held, Scheduled
<1> QED
  BY <1>1, FS_CardinalityType

\* The limits of the scan are numbers.
LEMMA Limits == MaxScheduledJobs \in Nat /\ MaxScheduledJobs <= MaxJobs
BY AdmissionAssumption DEF MaxScheduledJobs

SlotsInv == AdmissionTypeOK /\ SlotsCounted /\ SlotsBounded

\* A new reservation takes one slot of its kind.
LEMMA ReserveKeeps ==
    ASSUME SlotsInv, NEW r \in Root, NEW b \in Size, NEW s \in BOOLEAN, Reserve(r, b, s)
    PROVE  SlotsInv'
<1> DEFINE x == [bytes |-> b, scheduled |-> s]
<1>1. /\ held \in [Root -> Reservation \cup {NoJob}] /\ held[r] = NoJob
      /\ held' = [held EXCEPT ![r] = x] /\ x \in Reservation /\ x # NoJob /\ x.scheduled = s
  BY NoJobAssumption DEF SlotsInv, AdmissionTypeOK, Reserve, Admissible, Reservation
<1> HIDE DEF x
<1>2. Held' = Held \cup {r} /\ r \notin Held
  BY <1>1 DEF Held
<1>3. Scheduled' = (IF s THEN Scheduled \cup {r} ELSE Scheduled) /\ r \notin Scheduled
  BY <1>1, <1>2 DEF Scheduled, Held
<1>4. Cardinality(Held)' = Cardinality(Held) + 1
  <2>1. Cardinality(Held \cup {r}) = Cardinality(Held) + 1
    BY <1>2, HeldFinite, FS_AddElement
  <2> QED
    BY <2>1, <1>2
<1>5. Cardinality(Scheduled)' = IF s THEN Cardinality(Scheduled) + 1 ELSE Cardinality(Scheduled)
  <2>1. Cardinality(Scheduled \cup {r}) = Cardinality(Scheduled) + 1
    BY <1>3, HeldFinite, FS_AddElement
  <2> QED
    BY <2>1, <1>3
<1>6. /\ Cardinality(Held) # MaxJobs /\ Cardinality(Held) <= MaxJobs
      /\ s => Cardinality(Scheduled) # MaxScheduledJobs
      /\ Cardinality(Scheduled) <= MaxScheduledJobs /\ scheduledJobs = Cardinality(Scheduled)
  BY DEF SlotsInv, SlotsBounded, SlotsCounted, Reserve, Admissible, FitsScheduled
<1>7. SlotsCounted' /\ SlotsBounded'
  BY <1>4, <1>5, <1>6, HeldFinite, Limits, AdmissionAssumption
     DEF SlotsCounted, SlotsBounded, Reserve, MaxScheduledJobs
<1>8. AdmissionTypeOK'
  <2>1. held' \in [Root -> Reservation \cup {NoJob}]
    BY <1>1
  <2> QED
    BY <2>1, AdmissionAssumption DEF SlotsInv, AdmissionTypeOK, Reserve
<1> QED
  BY <1>7, <1>8 DEF SlotsInv

\* A reservation that drops gives its slot back.
LEMMA ReleaseKeeps ==
    ASSUME SlotsInv, NEW r \in Root, Release(r)
    PROVE  SlotsInv'
<1>1. /\ held \in [Root -> Reservation \cup {NoJob}] /\ held[r] # NoJob
      /\ held' = [held EXCEPT ![r] = NoJob] /\ held[r] \in Reservation
  BY DEF SlotsInv, AdmissionTypeOK, Release
<1>2. Held' = Held \ {r} /\ r \in Held
  BY <1>1 DEF Held
<1>3. Scheduled' = Scheduled \ {r} /\ (r \in Scheduled <=> held[r].scheduled)
  BY <1>1, <1>2 DEF Scheduled, Held
<1>4. Cardinality(Held)' = Cardinality(Held) - 1
  <2>1. Cardinality(Held \ {r}) = Cardinality(Held) - 1
    BY <1>2, HeldFinite, FS_RemoveElement
  <2> QED
    BY <2>1, <1>2
<1>5. Cardinality(Scheduled)' = IF held[r].scheduled THEN Cardinality(Scheduled) - 1
                                                    ELSE Cardinality(Scheduled)
  <2>1. Cardinality(Scheduled \ {r}) =
          IF r \in Scheduled THEN Cardinality(Scheduled) - 1 ELSE Cardinality(Scheduled)
    BY <1>3, HeldFinite, FS_RemoveElement
  <2> QED
    BY <2>1, <1>3
<1>6. scheduledJobs' = IF held[r].scheduled THEN scheduledJobs - 1 ELSE scheduledJobs
  BY DEF Release, JobsAfterRelease
<1>7. SlotsCounted' /\ SlotsBounded'
  BY <1>4, <1>5, <1>6, HeldFinite, Limits, AdmissionAssumption
     DEF SlotsInv, SlotsCounted, SlotsBounded, MaxScheduledJobs
<1>8. AdmissionTypeOK'
  <2>1. held' \in [Root -> Reservation \cup {NoJob}]
    BY <1>1
  <2>2. held[r].bytes \in Size
    BY <1>1 DEF Reservation
  <2>3. held[r].bytes \in Int
    <3>1. \A n \in Nat : n \in Int
      BY SMT
    <3> QED
      BY <2>2, <3>1, AdmissionAssumption
  <2> QED
    BY <2>1, <2>3, <1>6 DEF SlotsInv, AdmissionTypeOK, Release
<1> QED
  BY <1>7, <1>8 DEF SlotsInv

\* Shrinking changes bytes only.
LEMMA ShrinkKeeps ==
    ASSUME SlotsInv, NEW r \in Root, NEW b \in Size, Shrink(r, b)
    PROVE  SlotsInv'
<1>1. /\ held \in [Root -> Reservation \cup {NoJob}] /\ held[r] \in Reservation
      /\ held' = [held EXCEPT ![r] = [held[r] EXCEPT !.bytes = b]]
  BY DEF SlotsInv, AdmissionTypeOK, Shrink
<1>2. PICK x : x = [held[r] EXCEPT !.bytes = b]
  OBVIOUS
<1>3. x \in Reservation /\ x # NoJob /\ x.scheduled = held[r].scheduled
  BY <1>1, <1>2, NoJobAssumption DEF Reservation
<1>4. Held' = Held /\ Scheduled' = Scheduled
  BY <1>1, <1>2, <1>3, NoJobAssumption DEF Held, Scheduled
<1>5. SlotsCounted' /\ SlotsBounded'
  BY <1>4 DEF SlotsInv, SlotsCounted, SlotsBounded, Shrink, MaxScheduledJobs
<1>6. AdmissionTypeOK'
  <2>1. held' \in [Root -> Reservation \cup {NoJob}]
    BY <1>1, <1>2, <1>3
  <2>2. held[r].bytes \in Int /\ b \in Int
    BY <1>1, AdmissionAssumption DEF Reservation
  <2> QED
    BY <2>1, <2>2 DEF SlotsInv, AdmissionTypeOK, Shrink, ScheduledAfterShrink
<1> QED
  BY <1>5, <1>6 DEF SlotsInv

\* No reservation, no slot taken.
LEMMA AdmissionInitKeeps == AdmissionInit => SlotsInv
<1> SUFFICES ASSUME AdmissionInit PROVE SlotsInv
  OBVIOUS
<1>1. Held = {} /\ Scheduled = {}
  BY DEF AdmissionInit, Held, Scheduled
<1>2. Cardinality(Held) = 0 /\ Cardinality(Scheduled) = 0
  BY <1>1, FS_EmptySet
<1>3. SlotsCounted /\ SlotsBounded
  BY <1>2, Limits, AdmissionAssumption DEF AdmissionInit, SlotsCounted, SlotsBounded
<1>4. AdmissionTypeOK
  <2>1. held \in [Root -> Reservation \cup {NoJob}]
    BY DEF AdmissionInit
  <2>2. closed \in BOOLEAN /\ paused \in BOOLEAN
    BY Zenon DEF AdmissionInit
  <2>3. bytes \in Int /\ scheduledBytes \in Int /\ scheduledJobs \in Int
    BY DEF AdmissionInit
  <2> QED
    BY <2>1, <2>2, <2>3, Zenon DEF AdmissionTypeOK
<1> QED
  BY <1>3, <1>4 DEF SlotsInv

\* The slot counters are right after every critical section.
LEMMA AdmissionNextKeeps == SlotsInv /\ [AdmissionNext]_avars => SlotsInv'
<1> SUFFICES ASSUME SlotsInv, [AdmissionNext]_avars PROVE SlotsInv'
  OBVIOUS
<1>1. ASSUME UNCHANGED counters, closed' \in BOOLEAN, paused' \in BOOLEAN PROVE SlotsInv'
  BY <1>1 DEF counters, SlotsInv, AdmissionTypeOK, SlotsCounted, SlotsBounded, Held, Scheduled
<1>2. CASE UNCHANGED avars
  BY <1>1, <1>2 DEF avars, counters, SlotsInv, AdmissionTypeOK
<1>3. ASSUME NEW p \in BOOLEAN, SetPaused(p) PROVE SlotsInv'
  BY <1>1, <1>3 DEF SetPaused, SlotsInv, AdmissionTypeOK
<1>4. CASE Close
  BY <1>1, <1>4 DEF Close, SlotsInv, AdmissionTypeOK
<1> QED
  BY <1>2, <1>3, <1>4, ReserveKeeps, ReleaseKeeps, ShrinkKeeps DEF AdmissionNext

\* The slot counters count the reservations in every reachable state.
THEOREM SlotsAlwaysCounted == AdmissionSpec => []SlotsCounted
<1>1. SlotsInv => SlotsCounted
  BY DEF SlotsInv
<1> QED
  BY <1>1, AdmissionInitKeeps, AdmissionNextKeeps, PTL DEF AdmissionSpec

\* The scan never takes the slots kept for requests, and jobs never exceed
\* the slots.
THEOREM SlotsAlwaysBounded == AdmissionSpec => []SlotsBounded
<1>1. SlotsInv => SlotsBounded
  BY DEF SlotsInv
<1> QED
  BY <1>1, AdmissionInitKeeps, AdmissionNextKeeps, PTL DEF AdmissionSpec

-----------------------------------------------------------------------------
(* The bytes, as the tally of what each root reserves.                      *)

Amount(h) == [r \in Root |-> h[r].bytes]

BytesCounted ==
    /\ IsFiniteSet(Tally(Held, Amount(held))) /\ IsFiniteSet(Tally(Scheduled, Amount(held)))
    /\ bytes = Cardinality(Tally(Held, Amount(held)))
    /\ scheduledBytes = Cardinality(Tally(Scheduled, Amount(held)))
    /\ scheduledBytes <= MaxScheduledBytes

LEMMA NoBytes == AdmissionInit => BytesCounted
<1> SUFFICES ASSUME AdmissionInit PROVE BytesCounted
  OBVIOUS
<1>1. Held = {} /\ Scheduled = {}
  BY DEF AdmissionInit, Held, Scheduled
<1>2. IsFiniteSet(Tally({}, Amount(held))) /\ Cardinality(Tally({}, Amount(held))) = 0
  BY TallyEmpty
<1>4. 0 <= MaxScheduledBytes
  BY AdmissionAssumption DEF MaxScheduledBytes
<1>5. bytes = 0 /\ scheduledBytes = 0
  BY DEF AdmissionInit
<1> QED
  BY <1>1, <1>2, <1>4, <1>5 DEF BytesCounted

\* The bytes of a reservation are a number.
LEMMA BytesAreNumbers ==
    ASSUME AdmissionTypeOK, NEW r \in Root, held[r] # NoJob
    PROVE  held[r].bytes \in Nat /\ held[r] \in Reservation
BY AdmissionAssumption DEF AdmissionTypeOK, Reservation

\* Each critical section moves the counters by what it adds or takes.
LEMMA ReserveCounts ==
    ASSUME SlotsInv, BytesCounted, NEW r \in Root, NEW b \in Size, NEW s \in BOOLEAN, Reserve(r, b, s)
    PROVE  BytesCounted'
<1> DEFINE x == [bytes |-> b, scheduled |-> s]
<1>1. /\ held \in [Root -> Reservation \cup {NoJob}] /\ held[r] = NoJob
      /\ held' = [held EXCEPT ![r] = x] /\ x # NoJob /\ x.scheduled = s /\ x.bytes = b
  BY NoJobAssumption DEF SlotsInv, AdmissionTypeOK, Reserve, Admissible, Reservation
<1> HIDE DEF x
<1>2. Held' = Held \cup {r} /\ r \notin Held
  BY <1>1 DEF Held
<1>3. Scheduled' = (IF s THEN Scheduled \cup {r} ELSE Scheduled) /\ r \notin Scheduled
  BY <1>1, <1>2 DEF Scheduled, Held
<1>4. b \in Nat /\ Amount(held')[r] = b /\ \A q \in Held : Amount(held')[q] = Amount(held)[q]
  BY <1>1, <1>2, AdmissionAssumption DEF Held, Amount
<1>5. /\ IsFiniteSet(Tally(Held, Amount(held))')
      /\ Cardinality(Tally(Held, Amount(held))') = Cardinality(Tally(Held, Amount(held))) + b
  <2>1. IsFiniteSet(Tally(Held, Amount(held))) /\ b \in Nat /\ b = Amount(held')[r]
    BY <1>4 DEF BytesCounted
  <2>2. \A q \in Held : Amount(held')[q] = Amount(held)[q]
    BY <1>4
  <2>3. IsFiniteSet(Tally(Held \cup {r}, Amount(held')))
    BY <2>1, <2>2, TallyAddedFinite
  <2>4. Cardinality(Tally(Held \cup {r}, Amount(held'))) = Cardinality(Tally(Held, Amount(held))) + b
    BY <1>2, <2>1, <2>2, TallyAdded, SMTT(30)
  <2> QED
    BY <2>3, <2>4, <1>2, <1>4
<1>6. /\ IsFiniteSet(Tally(Scheduled, Amount(held))')
      /\ Cardinality(Tally(Scheduled, Amount(held))')
           = IF s THEN Cardinality(Tally(Scheduled, Amount(held))) + b ELSE Cardinality(Tally(Scheduled, Amount(held)))
  <2>1. \A q \in Scheduled : Amount(held')[q] = Amount(held)[q]
    BY <1>4 DEF Scheduled
  <2>2. CASE s
    <3>1. IsFiniteSet(Tally(Scheduled, Amount(held))) /\ b \in Nat /\ b = Amount(held')[r]
      BY <1>4 DEF BytesCounted
    <3>2. IsFiniteSet(Tally(Scheduled \cup {r}, Amount(held')))
      BY <2>1, <3>1, TallyAddedFinite
    <3>3. Cardinality(Tally(Scheduled \cup {r}, Amount(held')))
            = Cardinality(Tally(Scheduled, Amount(held))) + b
      BY <2>1, <3>1, <1>3, TallyAdded
    <3> QED
      BY <2>2, <3>2, <3>3, <1>3, <1>4
  <2>3. CASE ~s
    BY <2>1, <2>3, <1>3, TallySame DEF BytesCounted
  <2> QED
    BY <2>2, <2>3
<1>7. /\ bytes' = bytes + b /\ scheduledBytes' = IF s THEN scheduledBytes + b ELSE scheduledBytes
      /\ s => b <= MaxScheduledBytes - scheduledBytes
  BY DEF Reserve, Admissible, FitsScheduled
<1>8. scheduledBytes' <= MaxScheduledBytes
  BY <1>4, <1>7, AdmissionAssumption DEF BytesCounted, SlotsInv, AdmissionTypeOK, MaxScheduledBytes
<1> QED
  BY <1>5, <1>6, <1>7, <1>8 DEF BytesCounted, MaxScheduledBytes

LEMMA ReleaseCounts ==
    ASSUME SlotsInv, BytesCounted, NEW r \in Root, Release(r)
    PROVE  BytesCounted'
<1>1. /\ held \in [Root -> Reservation \cup {NoJob}] /\ held[r] # NoJob
      /\ held' = [held EXCEPT ![r] = NoJob] /\ held[r].bytes \in Nat
  BY BytesAreNumbers DEF SlotsInv, AdmissionTypeOK, Release
<1>0. PICK n \in Nat : n = Amount(held)[r] /\ n = held[r].bytes
  BY <1>1 DEF Amount
<1>2. Held' = Held \ {r} /\ r \in Held
  BY <1>1 DEF Held
<1>3. Scheduled' = Scheduled \ {r} /\ (r \in Scheduled <=> held[r].scheduled)
  BY <1>1, <1>2 DEF Scheduled, Held
<1>4. \A q \in Held \ {r} : Amount(held')[q] = Amount(held)[q]
  BY <1>1 DEF Held, Amount
<1>5. /\ IsFiniteSet(Tally(Held, Amount(held))')
      /\ Cardinality(Tally(Held, Amount(held))') = Cardinality(Tally(Held, Amount(held))) - n
  <2>1. IsFiniteSet(Tally(Held, Amount(held)))
    BY DEF BytesCounted
  <2>2. IsFiniteSet(Tally(Held \ {r}, Amount(held')))
    BY <2>1, <1>4, TallyRemovedFinite
  <2>3. Cardinality(Tally(Held \ {r}, Amount(held'))) = Cardinality(Tally(Held, Amount(held))) - n
    BY ZenonT(60), <2>1, <1>0, <1>2, <1>4, TallyRemoved
  <2> QED
    BY <2>2, <2>3, <1>2
<1>6. /\ IsFiniteSet(Tally(Scheduled, Amount(held))')
      /\ Cardinality(Tally(Scheduled, Amount(held))')
           = IF held[r].scheduled THEN Cardinality(Tally(Scheduled, Amount(held))) - n
                                  ELSE Cardinality(Tally(Scheduled, Amount(held)))
  <2>1. \A q \in Scheduled \ {r} : Amount(held')[q] = Amount(held)[q]
    BY <1>4 DEF Scheduled
  <2>2. CASE held[r].scheduled
    <3>1. IsFiniteSet(Tally(Scheduled, Amount(held))) /\ r \in Scheduled
      BY <2>2, <1>3 DEF BytesCounted
    <3>2. IsFiniteSet(Tally(Scheduled \ {r}, Amount(held')))
      BY <2>1, <3>1, TallyRemovedFinite
    <3>3. Cardinality(Tally(Scheduled \ {r}, Amount(held')))
            = Cardinality(Tally(Scheduled, Amount(held))) - n
      BY ZenonT(60), <2>1, <3>1, <1>0, TallyRemoved
    <3> QED
      BY <2>2, <3>2, <3>3, <1>3
  <2>3. CASE ~held[r].scheduled
    <3>1. Scheduled' = Scheduled /\ \A q \in Scheduled : Amount(held')[q] = Amount(held)[q]
      BY <2>1, <2>3, <1>3
    <3> QED
      BY <3>1, <2>3, TallySame DEF BytesCounted
  <2> QED
    BY <2>2, <2>3
<1>7. /\ bytes' = bytes - held[r].bytes
      /\ scheduledBytes' = IF held[r].scheduled THEN scheduledBytes - held[r].bytes ELSE scheduledBytes
  BY DEF Release
<1>8. scheduledBytes' <= MaxScheduledBytes
  BY <1>1, <1>7, AdmissionAssumption DEF BytesCounted, SlotsInv, AdmissionTypeOK, MaxScheduledBytes
<1> QED
  BY <1>0, <1>5, <1>6, <1>7, <1>8 DEF BytesCounted, MaxScheduledBytes

LEMMA ShrinkCounts ==
    ASSUME SlotsInv, BytesCounted, NEW r \in Root, NEW b \in Size, Shrink(r, b)
    PROVE  BytesCounted'
<1>1. /\ held \in [Root -> Reservation \cup {NoJob}] /\ held[r] # NoJob /\ b <= held[r].bytes
      /\ held' = [held EXCEPT ![r] = [held[r] EXCEPT !.bytes = b]]
      /\ held[r].bytes \in Nat /\ held[r] \in Reservation /\ b \in Nat
  BY BytesAreNumbers, AdmissionAssumption DEF SlotsInv, AdmissionTypeOK, Shrink
<1>0. PICK n \in Nat : n = Amount(held)[r] /\ n = held[r].bytes
  BY <1>1 DEF Amount
<1>2. PICK x : x = [held[r] EXCEPT !.bytes = b]
  OBVIOUS
<1>3. x # NoJob /\ x.scheduled = held[r].scheduled /\ x.bytes = b
  BY <1>1, <1>2, NoJobAssumption DEF Reservation
<1>4. Held' = Held /\ Scheduled' = Scheduled /\ r \in Held /\ (r \in Scheduled <=> held[r].scheduled)
  BY <1>1, <1>2, <1>3, NoJobAssumption DEF Held, Scheduled
<1>5. Amount(held')[r] = b /\ \A q \in Held \ {r} : Amount(held')[q] = Amount(held)[q]
  BY <1>1, <1>2, <1>3 DEF Held, Amount
<1>6. ASSUME NEW S, S \subseteq Held, r \in S, IsFiniteSet(Tally(S, Amount(held)))
      PROVE  /\ IsFiniteSet(Tally(S, Amount(held')))
             /\ Cardinality(Tally(S, Amount(held'))) = Cardinality(Tally(S, Amount(held))) - (held[r].bytes - b)
  <2>1. b = Amount(held')[r] /\ \A q \in S \ {r} : Amount(held')[q] = Amount(held)[q]
    BY <1>5, <1>6
  <2>2. /\ IsFiniteSet(Tally(S, Amount(held')))
        /\ Cardinality(Tally(S, Amount(held'))) + n = Cardinality(Tally(S, Amount(held))) + b
    <3>1. IsFiniteSet(Tally(S, Amount(held')))
      BY <2>1, <1>1, <1>6, TallyChangedFinite
    <3>2. PICK m \in Nat : m = Amount(held')[r] /\ m = b
      BY <2>1, <1>1
    <3>3. Cardinality(Tally(S, Amount(held'))) + n = Cardinality(Tally(S, Amount(held))) + m
      <4>1. PICK f, g : f = Amount(held) /\ g = Amount(held')
        OBVIOUS
      <4>2. /\ r \in S /\ n \in Nat /\ n = f[r] /\ m \in Nat /\ m = g[r]
            /\ \A q \in S \ {r} : g[q] = f[q]
            /\ IsFiniteSet(Tally(S, f))
        BY <4>1, <2>1, <3>2, <1>0, <1>6
      <4>3. Cardinality(Tally(S, g)) + n = Cardinality(Tally(S, f)) + m
        BY <4>2, TallyChanged
      <4> QED
        BY <4>1, <4>3
    <3> QED
      BY <3>1, <3>2, <3>3
  <2>3. Cardinality(Tally(S, Amount(held))) \in Nat
    BY <1>6, FS_CardinalityType
  <2>4. Cardinality(Tally(S, Amount(held'))) \in Nat
    BY <2>2, FS_CardinalityType
  <2> QED
    BY <2>2, <2>3, <2>4, <1>0, <1>1
<1>7. /\ IsFiniteSet(Tally(Held, Amount(held))')
      /\ Cardinality(Tally(Held, Amount(held))') = Cardinality(Tally(Held, Amount(held))) - (held[r].bytes - b)
  BY <1>4, <1>6 DEF BytesCounted
<1>8. /\ IsFiniteSet(Tally(Scheduled, Amount(held))')
      /\ Cardinality(Tally(Scheduled, Amount(held))')
           = IF held[r].scheduled THEN Cardinality(Tally(Scheduled, Amount(held))) - (held[r].bytes - b)
                                  ELSE Cardinality(Tally(Scheduled, Amount(held)))
  <2>1. CASE held[r].scheduled
    BY <2>1, <1>4, <1>6 DEF BytesCounted, Scheduled
  <2>2. CASE ~held[r].scheduled
    <3>1. \A q \in Scheduled : Amount(held')[q] = Amount(held)[q]
      BY <2>2, <1>4, <1>5 DEF Scheduled
    <3> QED
      BY <3>1, <2>2, <1>4, TallySame DEF BytesCounted
  <2> QED
    BY <2>1, <2>2
<1>9. /\ bytes' = bytes - (held[r].bytes - b)
      /\ scheduledBytes' = IF held[r].scheduled THEN scheduledBytes - (held[r].bytes - b) ELSE scheduledBytes
  BY DEF Shrink, ScheduledAfterShrink
<1>10. scheduledBytes' <= MaxScheduledBytes
  BY <1>1, <1>9, AdmissionAssumption DEF BytesCounted, SlotsInv, AdmissionTypeOK, MaxScheduledBytes
<1> QED
  BY <1>7, <1>8, <1>9, <1>10 DEF BytesCounted, MaxScheduledBytes

\* The byte counters are right after every critical section.
LEMMA AdmissionCounts == SlotsInv /\ BytesCounted /\ [AdmissionNext]_avars => BytesCounted'
<1> SUFFICES ASSUME SlotsInv, BytesCounted, [AdmissionNext]_avars PROVE BytesCounted'
  OBVIOUS
<1>1. ASSUME UNCHANGED counters PROVE BytesCounted'
  BY <1>1 DEF counters, BytesCounted, Held, Scheduled, MaxScheduledBytes
<1>2. CASE UNCHANGED avars \/ Close \/ \E p \in BOOLEAN : SetPaused(p)
  BY <1>1, <1>2 DEF avars, counters, Close, SetPaused
<1> QED
  BY <1>2, ReserveCounts, ReleaseCounts, ShrinkCounts DEF AdmissionNext

\* The byte counters count the bytes of the reservations, and the scan never
\* reserves the half kept for requests.
THEOREM BytesAlwaysCounted == AdmissionSpec => []BytesCounted
BY AdmissionInitKeeps, AdmissionNextKeeps, NoBytes, AdmissionCounts, PTL DEF AdmissionSpec

-----------------------------------------------------------------------------
(* Every step of the pipeline is a critical section of the admission.      *)

LEMMA StepAdmits == [Next]_vars => [AdmissionNext]_avars
<1>1. ASSUME NEW r \in Root, NEW b \in Size, Submit(r, b) \/ Schedule(r, b)
      PROVE  AdmissionNext
  BY <1>1 DEF Submit, Schedule, AdmissionNext
<1>2. ASSUME NEW r \in Root, Enqueue(r) \/ Downloaded(r) \/ Finish(r) \/ DropJob(r)
      PROVE  AdmissionNext \/ UNCHANGED avars
  BY <1>2 DEF Enqueue, Downloaded, Forget, Finish, DropJob, AdmissionNext
<1>3. ASSUME TakeRequest \/ TakeReady \/ Tick \/ Stop \/ WorkerFails
      PROVE  UNCHANGED avars
  BY <1>3 DEF TakeRequest, TakeReady, Tick, Stop, WorkerFails, Ends
<1>4. ASSUME Cancel \/ \E p \in BOOLEAN : Pause(p) PROVE AdmissionNext
  BY <1>4 DEF Cancel, Pause, AdmissionNext
<1>5. CASE UNCHANGED vars
  BY <1>5 DEF vars
<1> QED
  BY <1>1, <1>2, <1>3, <1>4, <1>5 DEF Next

\* The threads of the worker implement the admission: what is proved of its
\* critical sections holds of the whole pipeline.
THEOREM PipelineAdmits == Spec => AdmissionSpec
<1>1. Init => AdmissionInit
  BY DEF Init
<1> QED
  BY <1>1, StepAdmits, PTL DEF Spec, AdmissionSpec

\* Whatever the threads do, jobs never exceed the slots and the scan never
\* takes those kept for requests.
THEOREM PipelineSlotsBounded == Spec => []SlotsBounded
BY PipelineAdmits, SlotsAlwaysBounded, PTL

-----------------------------------------------------------------------------
(* A queue holds each job of its stage at most once.                       *)

QueueOK(q, st, s) ==
    /\ q \in Seq(Root)
    /\ \A i \in 1 .. Len(q) : st[q[i]] = s
    /\ \A i, j \in 1 .. Len(q) : q[i] = q[j] => i = j

LEMMA QueueEmpty == ASSUME NEW st, NEW s PROVE QueueOK(<< >>, st, s)
BY DEF QueueOK

\* A job that is not queued moves on.
LEMMA QueueKept ==
    ASSUME NEW q, NEW st \in [Root -> Stages], NEW s, NEW r \in Root, NEW t,
           QueueOK(q, st, s), st[r] # s
    PROVE  QueueOK(q, [st EXCEPT ![r] = t], s)
<1>1. \A i \in 1 .. Len(q) : q[i] \in Root /\ q[i] # r
  BY DEF QueueOK
<1> QED
  BY <1>1 DEF QueueOK

\* A job is appended.
LEMMA QueueAppended ==
    ASSUME NEW q, NEW st \in [Root -> Stages], NEW s, NEW r \in Root,
           QueueOK(q, st, s), st[r] # s
    PROVE  QueueOK(Append(q, r), [st EXCEPT ![r] = s], s)
<1> DEFINE q2 == Append(q, r)
           st2 == [st EXCEPT ![r] = s]
<1>1. q \in Seq(Root) /\ \A i \in 1 .. Len(q) : q[i] \in Root /\ q[i] # r /\ st[q[i]] = s
  BY DEF QueueOK
<1>2. /\ q2 \in Seq(Root) /\ Len(q2) = Len(q) + 1 /\ Len(q) \in Nat
      /\ \A i \in 1 .. Len(q) : q2[i] = q[i]
      /\ q2[Len(q) + 1] = r
  BY <1>1, AppendProperties, LenProperties
<1> HIDE DEF q2
<1>3. \A i \in 1 .. Len(q2) : i \in 1 .. Len(q) \/ i = Len(q) + 1
  BY <1>2
<1>4. \A i \in 1 .. Len(q2) : st2[q2[i]] = s
  BY <1>1, <1>2, <1>3
<1>5. \A i, j \in 1 .. Len(q2) : q2[i] = q2[j] => i = j
  BY <1>1, <1>2, <1>3 DEF QueueOK
<1>6. QueueOK(q2, st2, s)
  BY <1>2, <1>4, <1>5 DEF QueueOK
<1> QED
  BY <1>6 DEF q2

\* The first job is taken.
LEMMA QueueTaken ==
    ASSUME NEW q, NEW st \in [Root -> Stages], NEW s, NEW t, QueueOK(q, st, s), q # << >>
    PROVE  /\ Head(q) \in Root /\ st[Head(q)] = s
           /\ QueueOK(Tail(q), [st EXCEPT ![Head(q)] = t], s)
<1>1. /\ q \in Seq(Root) /\ Head(q) \in Root /\ Tail(q) \in Seq(Root)
      /\ Len(Tail(q)) = Len(q) - 1 /\ Len(q) \in Nat /\ Len(q) >= 1 /\ Head(q) = q[1]
      /\ \A i \in 1 .. Len(Tail(q)) : Tail(q)[i] = q[i + 1]
  BY HeadTailProperties, LenProperties, EmptySeq DEF QueueOK
<1>2. \A i \in 1 .. Len(Tail(q)) : i + 1 \in 1 .. Len(q) /\ i + 1 # 1
  BY <1>1
<1>3. \A i \in 1 .. Len(Tail(q)) : /\ Tail(q)[i] \in Root /\ Tail(q)[i] # Head(q)
                                   /\ st[Tail(q)[i]] = s
  BY <1>1, <1>2 DEF QueueOK
<1>4. \A i, j \in 1 .. Len(Tail(q)) : Tail(q)[i] = Tail(q)[j] => i = j
  <2> SUFFICES ASSUME NEW i \in 1 .. Len(Tail(q)), NEW j \in 1 .. Len(Tail(q)),
                      Tail(q)[i] = Tail(q)[j]
               PROVE  i = j
    OBVIOUS
  <2>1. q[i + 1] = q[j + 1] /\ i + 1 \in 1 .. Len(q) /\ j + 1 \in 1 .. Len(q)
    BY <1>1, <1>2
  <2>2. i + 1 = j + 1
    BY <2>1 DEF QueueOK
  <2> QED
    BY <2>2
<1>5. st[Head(q)] = s
  BY <1>1 DEF QueueOK
<1> QED
  BY <1>1, <1>3, <1>4, <1>5 DEF QueueOK

-----------------------------------------------------------------------------
(* Every job owns one reservation, of the right kind.                      *)

\* JobOwnsReservation and RoomForDownloads need to know what the queues hold,
\* and that what is downloaded or ready was reserved by the scan.
DownloadsScheduled ==
    \A r \in Root : stage[r] \in {"downloading", "ready"} => r \in Scheduled

QueuesOK ==
    /\ QueueOK(requests, stage, "requested") /\ QueueOK(ready, stage, "ready")
    /\ running \/ (requests = << >> /\ ready = << >>)

OwnsOK == stage \in [Root -> Stages] /\ JobOwnsReservation /\ DownloadsScheduled

JobsInv == OwnsOK /\ QueuesOK

\* The four ways in which jobs and reservations change together.
LEMMA OwnsReserved ==
    ASSUME OwnsOK, AdmissionTypeOK, NEW r \in Root, NEW b \in Size, NEW s \in BOOLEAN,
           Reserve(r, b, s), NEW t \in Stages \ {"none"}, Move(r, t),
           t \in {"downloading", "ready"} => s
    PROVE  OwnsOK'
<1> DEFINE x == [bytes |-> b, scheduled |-> s]
<1>1. /\ held \in [Root -> Reservation \cup {NoJob}] /\ held' = [held EXCEPT ![r] = x]
      /\ x # NoJob /\ x.scheduled = s
  BY NoJobAssumption DEF AdmissionTypeOK, Reserve, Reservation
<1> HIDE DEF x
<1>2. stage \in [Root -> Stages] /\ stage' = [stage EXCEPT ![r] = t]
  BY DEF OwnsOK, Move
<1>3. JobOwnsReservation'
  BY <1>1, <1>2 DEF OwnsOK, JobOwnsReservation
<1>4. DownloadsScheduled'
  BY <1>1, <1>2 DEF OwnsOK, DownloadsScheduled, Scheduled, Held
<1> QED
  BY <1>2, <1>3, <1>4 DEF OwnsOK

LEMMA OwnsReleased ==
    ASSUME OwnsOK, AdmissionTypeOK, NEW r \in Root, Release(r), Move(r, "none")
    PROVE  OwnsOK'
<1>1. /\ held \in [Root -> Reservation \cup {NoJob}] /\ held' = [held EXCEPT ![r] = NoJob]
      /\ stage \in [Root -> Stages] /\ stage' = [stage EXCEPT ![r] = "none"]
  BY DEF AdmissionTypeOK, Release, OwnsOK, Move
<1>2. JobOwnsReservation'
  BY <1>1 DEF OwnsOK, JobOwnsReservation
<1>3. DownloadsScheduled'
  BY <1>1 DEF OwnsOK, DownloadsScheduled, Scheduled, Held
<1>4. stage' \in [Root -> Stages]
  BY <1>1 DEF Stages
<1> QED
  BY <1>2, <1>3, <1>4 DEF OwnsOK

LEMMA OwnsShrunk ==
    ASSUME OwnsOK, AdmissionTypeOK, NEW r \in Root, NEW b \in Size, Shrink(r, b),
           stage[r] = "downloading", Move(r, "ready")
    PROVE  OwnsOK'
<1>1. PICK x : x = [held[r] EXCEPT !.bytes = b]
  OBVIOUS
<1>2. /\ held \in [Root -> Reservation \cup {NoJob}] /\ held[r] \in Reservation
      /\ held' = [held EXCEPT ![r] = x]
  BY <1>1 DEF AdmissionTypeOK, Shrink
<1>3. x # NoJob /\ x.scheduled = held[r].scheduled
  BY <1>1, <1>2, NoJobAssumption DEF Reservation
<1>4. stage \in [Root -> Stages] /\ stage' = [stage EXCEPT ![r] = "ready"]
  BY DEF OwnsOK, Move
<1>5. JobOwnsReservation'
  BY <1>2, <1>3, <1>4 DEF OwnsOK, JobOwnsReservation
<1>6. DownloadsScheduled'
  BY <1>2, <1>3, <1>4 DEF OwnsOK, DownloadsScheduled, Scheduled, Held
<1>7. stage' \in [Root -> Stages]
  BY <1>4 DEF Stages
<1> QED
  BY <1>5, <1>6, <1>7 DEF OwnsOK

LEMMA OwnsMoved ==
    ASSUME OwnsOK, UNCHANGED held, NEW r \in Root, stage[r] # "none",
           NEW t \in Stages \ {"none", "downloading", "ready"}, Move(r, t)
    PROVE  OwnsOK'
BY DEF OwnsOK, Move, JobOwnsReservation, DownloadsScheduled, Scheduled, Held

\* A job outside both queues moves to a stage outside both.
LEMMA QueuesKept ==
    ASSUME QueuesOK, stage \in [Root -> Stages], NEW r \in Root, NEW t, Move(r, t),
           stage[r] \notin {"requested", "ready"}, UNCHANGED <<requests, ready, running>>
    PROVE  QueuesOK'
<1>1. QueueOK(requests, stage', "requested") /\ QueueOK(ready, stage', "ready")
  BY QueueKept DEF QueuesOK, Move
<1> QED
  BY <1>1 DEF QueuesOK

\* Each step keeps the invariant.
LEMMA JobsStep ==
    ASSUME JobsInv, AdmissionTypeOK, Next
    PROVE  JobsInv'
<1> USE DEF JobsInv
<1>0. stage \in [Root -> Stages]
  BY DEF OwnsOK
<1>1. ASSUME NEW r \in Root, NEW b \in Size, Submit(r, b) PROVE JobsInv'
  <2>1. Reserve(r, b, FALSE) /\ Move(r, "submitting") /\ stage[r] = "none"
        /\ UNCHANGED <<requests, ready, running>>
    BY <1>0, <1>1 DEF Submit, Reserve, Admissible, OwnsOK, JobOwnsReservation
  <2> QED
    BY <2>1, <1>0, OwnsReserved, QueuesKept DEF Stages
<1>2. ASSUME NEW r \in Root, NEW b \in Size, Schedule(r, b) PROVE JobsInv'
  <2>1. Reserve(r, b, TRUE) /\ Move(r, "downloading") /\ stage[r] = "none"
        /\ UNCHANGED <<requests, ready, running>>
    BY <1>0, <1>2 DEF Schedule, Reserve, Admissible, OwnsOK, JobOwnsReservation
  <2> QED
    BY <2>1, <1>0, OwnsReserved, QueuesKept DEF Stages
<1>3. ASSUME NEW r \in Root, Enqueue(r) PROVE JobsInv'
  <2>0. stage[r] = "submitting"
    BY <1>3 DEF Enqueue
  <2>1. CASE Release(r) /\ Move(r, "none") /\ UNCHANGED <<requests, ready, running>>
    BY <2>0, <2>1, <1>0, OwnsReleased, QueuesKept
  <2>2. CASE /\ running /\ requests' = Append(requests, r) /\ Move(r, "requested")
             /\ UNCHANGED <<avars, ready, running>>
    <3>1. OwnsOK'
      BY <2>0, <2>2, OwnsMoved DEF avars, Stages
    <3>2. QueueOK(requests', stage', "requested") /\ QueueOK(ready', stage', "ready")
      BY <2>0, <2>2, <1>0, QueueAppended, QueueKept DEF QueuesOK, Move
    <3> QED
      BY <3>1, <3>2, <2>2 DEF QueuesOK
  <2> QED
    BY <1>3, <2>1, <2>2 DEF Enqueue
<1>4. ASSUME NEW r \in Root, Downloaded(r) PROVE JobsInv'
  <2>0. stage[r] = "downloading" /\ running
    BY <1>4 DEF Downloaded
  <2>1. CASE Release(r) /\ Move(r, "none") /\ UNCHANGED <<requests, ready, running>>
    BY <2>0, <2>1, <1>0, OwnsReleased, QueuesKept
  <2>2. CASE /\ \E b \in Size : Shrink(r, b)
             /\ ready' = Append(ready, r) /\ Move(r, "ready")
             /\ UNCHANGED <<requests, running>>
    <3>1. OwnsOK'
      BY <2>0, <2>2, OwnsShrunk
    <3>2. QueueOK(requests', stage', "requested") /\ QueueOK(ready', stage', "ready")
      BY <2>0, <2>2, <1>0, QueueAppended, QueueKept DEF QueuesOK, Move
    <3> QED
      BY <3>1, <3>2, <2>0, <2>2 DEF QueuesOK
  <2> QED
    BY <1>4, <2>1, <2>2 DEF Downloaded, Forget
<1>5. CASE TakeRequest
  <2> DEFINE r == Head(requests)
  <2>1. /\ running /\ running' /\ requests # << >> /\ Move(r, "writing")
        /\ requests' = Tail(requests) /\ UNCHANGED <<avars, ready>>
    BY <1>5 DEF TakeRequest
  <2>2. /\ r \in Root /\ stage[r] = "requested"
        /\ QueueOK(requests', stage', "requested")
    BY <2>1, <1>0, QueueTaken DEF QueuesOK, Move
  <2>3. QueueOK(ready', stage', "ready")
    BY <2>1, <2>2, <1>0, QueueKept DEF QueuesOK, Move
  <2>4. OwnsOK'
    BY <2>1, <2>2, OwnsMoved DEF avars, counters, Stages
  <2> QED
    BY <2>1, <2>2, <2>3, <2>4 DEF QueuesOK
<1>6. CASE TakeReady
  <2> DEFINE r == Head(ready)
  <2>1. /\ running /\ running' /\ ready # << >> /\ Move(r, "writing")
        /\ ready' = Tail(ready) /\ UNCHANGED <<avars, requests>>
    BY <1>6 DEF TakeReady
  <2>2. r \in Root /\ stage[r] = "ready" /\ QueueOK(ready', stage', "ready")
    BY <2>1, <1>0, QueueTaken DEF QueuesOK, Move
  <2>3. QueueOK(requests', stage', "requested")
    BY <2>1, <2>2, <1>0, QueueKept DEF QueuesOK, Move
  <2>4. OwnsOK'
    BY <2>1, <2>2, OwnsMoved DEF avars, counters, Stages
  <2> QED
    BY <2>1, <2>2, <2>3, <2>4 DEF QueuesOK
<1>7. ASSUME NEW r \in Root, Finish(r) PROVE JobsInv'
  BY <1>0, <1>7, OwnsReleased, QueuesKept DEF Finish
<1>8. ASSUME NEW r \in Root, DropJob(r) PROVE JobsInv'
  <2>1. /\ Release(r) /\ Move(r, "none") /\ ~running /\ ~running'
        /\ UNCHANGED <<requests, ready, running>>
    BY <1>8 DEF DropJob
  <2>2. QueuesOK'
    BY <2>1, QueueEmpty DEF QueuesOK
  <2> QED
    BY <2>1, <2>2, OwnsReleased
<1>9. CASE Stop \/ WorkerFails
  <2>1. UNCHANGED <<avars, stage>> /\ requests' = << >> /\ ready' = << >>
    BY <1>9 DEF Stop, WorkerFails, Ends
  <2>2. OwnsOK'
    BY <2>1 DEF avars, counters, OwnsOK, JobOwnsReservation, DownloadsScheduled, Scheduled, Held
  <2> QED
    BY <2>1, <2>2, QueueEmpty DEF QueuesOK
<1>10. ASSUME UNCHANGED <<held, stage, requests, ready, running>> PROVE JobsInv'
  BY <1>10 DEF OwnsOK, JobOwnsReservation, DownloadsScheduled, Scheduled, Held, QueuesOK
<1>11. ASSUME Tick \/ Cancel \/ \E p \in BOOLEAN : Pause(p) PROVE JobsInv'
  BY <1>11, <1>10 DEF Tick, Cancel, Close, Pause, SetPaused, avars, counters, pvars
<1> QED
  BY <1>1, <1>2, <1>3, <1>4, <1>5, <1>6, <1>7, <1>8, <1>9, <1>11 DEF Next

\* The invariant of every reachable state.
THEOREM PipelineInvariant == Spec => [](JobsInv /\ SlotsInv)
<1>1. Init => JobsInv
  BY QueueEmpty
     DEF Init, AdmissionInit, JobsInv, OwnsOK, JobOwnsReservation, DownloadsScheduled, QueuesOK, Stages
<1>2. Init => SlotsInv
  BY AdmissionInitKeeps DEF Init
<1>3. JobsInv /\ SlotsInv /\ [Next]_vars => JobsInv'
  <2>1. ASSUME JobsInv, UNCHANGED vars PROVE JobsInv'
    BY <2>1 DEF vars, avars, counters, pvars, JobsInv, OwnsOK, JobOwnsReservation,
            DownloadsScheduled, Scheduled, Held, QueuesOK
  <2> QED
    BY <2>1, JobsStep DEF SlotsInv
<1>4. SlotsInv /\ [Next]_vars => SlotsInv'
  BY StepAdmits, AdmissionNextKeeps
<1> QED
  BY <1>1, <1>2, <1>3, <1>4, PTL DEF Spec

\* No path of a job leaks its reservation or frees it under a live job.
THEOREM JobsAlwaysOwn == Spec => []JobOwnsReservation
<1>1. JobsInv => JobOwnsReservation
  BY DEF JobsInv, OwnsOK
<1> QED
  BY <1>1, PipelineInvariant, PTL

-----------------------------------------------------------------------------
(* A finished download always finds room.                                  *)

QueuedJobs(q) == {q[i] : i \in 1 .. Len(q)}

\* A queue is as long as the set of its jobs is large.
LEMMA QueueCounted ==
    ASSUME NEW q, NEW st, NEW s, QueueOK(q, st, s)
    PROVE  IsFiniteSet(QueuedJobs(q)) /\ Cardinality(QueuedJobs(q)) = Len(q)
<1>1. q \in [1 .. Len(q) -> QueuedJobs(q)] /\ Len(q) \in Nat
  BY DEF QueueOK, QueuedJobs
<1>2. q \in Bijection(1 .. Len(q), QueuedJobs(q))
  BY <1>1 DEF QueueOK, QueuedJobs, Bijection, Injection, Surjection, IsInjective
<1>3. ExistsBijection(1 .. Len(q), QueuedJobs(q))
  BY <1>2 DEF ExistsBijection
<1> QED
  BY <1>1, <1>3, FS_CountingElements, FS_NatBijection

\* Downloads under way and jobs in the queue all hold scheduled slots.
LEMMA RoomKept ==
    ASSUME JobsInv, SlotsInv
    PROVE  RoomForDownloads
<1> DEFINE D == At("downloading")
           Q == QueuedJobs(ready)
<1>1. /\ QueueOK(ready, stage, "ready") /\ stage \in [Root -> Stages]
      /\ D \subseteq Scheduled
  BY DEF JobsInv, QueuesOK, OwnsOK, DownloadsScheduled, At
<1>2. Q \subseteq Scheduled /\ Q \cap D = {}
  BY DEF JobsInv, QueuesOK, OwnsOK, DownloadsScheduled, QueueOK, QueuedJobs, At
<1>3. IsFiniteSet(D) /\ IsFiniteSet(Q) /\ Cardinality(Q) = Len(ready)
  BY <1>1, HeldFinite, FS_Subset, QueueCounted
<1>4. Cardinality(Q \cup D) = Cardinality(Q) + Cardinality(D)
  <2>1. Cardinality(Q \cap D) = 0
    BY <1>2, FS_EmptySet
  <2>2. Cardinality(Q \cup D) = Cardinality(Q) + Cardinality(D) - Cardinality(Q \cap D)
    BY <1>3, FS_Union
  <2>3. Cardinality(Q) \in Nat /\ Cardinality(D) \in Nat
    BY <1>3, FS_CardinalityType
  <2> HIDE DEF D, Q
  <2> QED
    BY <2>1, <2>2, <2>3
<1>5. Cardinality(Q \cup D) <= Cardinality(Scheduled)
  BY <1>1, <1>2, HeldFinite, FS_Subset
<1>6. Cardinality(Scheduled) <= Downloads
  BY HeldFinite, AdmissionAssumption, PipelineAssumption
     DEF SlotsInv, SlotsBounded, MaxScheduledJobs
<1>7. Cardinality(D) \in Nat /\ Cardinality(Q) \in Nat /\ Downloads \in Nat
  BY <1>3, FS_CardinalityType, PipelineAssumption
<1> QED
  BY <1>3, <1>4, <1>5, <1>6, <1>7, HeldFinite DEF RoomForDownloads

\* download_pending never waits to hand over a finished download, whatever
\* the writers do.
THEOREM RoomAlwaysLeft == Spec => []RoomForDownloads
BY PipelineInvariant, RoomKept, PTL

-----------------------------------------------------------------------------
(* The scan alone cannot shut requests out.                                *)

\* A job on its way through the channel of requests is no job of the scan.
RequestsOwn ==
    \A r \in Root : stage[r] \in {"submitting", "requested"} => r \in Held \ Scheduled

\* The job that moves is the only one whose reservation changes.
LEMMA RequestsMoved ==
    ASSUME RequestsOwn, stage \in [Root -> Stages], held \in [Root -> Reservation \cup {NoJob}],
           NEW r \in Root, NEW x, held' = [held EXCEPT ![r] = x], NEW t, Move(r, t),
           t \in {"submitting", "requested"} => x # NoJob /\ ~x.scheduled
    PROVE  RequestsOwn'
<1> SUFFICES ASSUME NEW q \in Root, stage'[q] \in {"submitting", "requested"}
             PROVE  held'[q] # NoJob /\ ~held'[q].scheduled
  BY DEF RequestsOwn, Held, Scheduled
<1>1. CASE q = r
  BY <1>1 DEF Move
<1>2. CASE q # r
  BY <1>2 DEF Move, RequestsOwn, Held, Scheduled
<1> QED
  BY <1>1, <1>2

LEMMA RequestsStep ==
    ASSUME RequestsOwn, JobsInv, AdmissionTypeOK, Next
    PROVE  RequestsOwn'
<1>0. /\ stage \in [Root -> Stages] /\ held \in [Root -> Reservation \cup {NoJob}]
      /\ QueueOK(requests, stage, "requested") /\ QueueOK(ready, stage, "ready")
  BY DEF JobsInv, OwnsOK, QueuesOK, AdmissionTypeOK
<1>1. ASSUME NEW r \in Root, NEW b \in Size, Submit(r, b) PROVE RequestsOwn'
  <2> DEFINE x == [bytes |-> b, scheduled |-> FALSE]
  <2>1. held' = [held EXCEPT ![r] = x] /\ Move(r, "submitting")
    BY <1>1 DEF Submit, Reserve
  <2>2. x # NoJob /\ ~x.scheduled
    <3>1. x \in Reservation /\ ~x.scheduled
      BY DEF Reservation
    <3> QED
      BY <3>1, NoJobAssumption
  <2> HIDE DEF x
  <2> QED
    BY <2>1, <2>2, <1>0, RequestsMoved
<1>2. ASSUME NEW r \in Root, NEW b \in Size, Schedule(r, b) PROVE RequestsOwn'
  <2>1. PICK x : held' = [held EXCEPT ![r] = x] /\ Move(r, "downloading")
    BY <1>2 DEF Schedule, Reserve
  <2>2. "downloading" \notin {"submitting", "requested"}
    OBVIOUS
  <2> QED
    BY <2>1, <2>2, <1>0, RequestsMoved
<1>3. ASSUME NEW r \in Root, Release(r), Move(r, "none") PROVE RequestsOwn'
  <2>1. held' = [held EXCEPT ![r] = NoJob]
    BY <1>3 DEF Release
  <2>2. "none" \notin {"submitting", "requested"}
    OBVIOUS
  <2> QED
    BY <1>3, <2>1, <2>2, <1>0, RequestsMoved
<1>4. ASSUME NEW r \in Root, UNCHANGED held, NEW t, Move(r, t),
             (t = "requested" /\ stage[r] = "submitting") \/ t \in {"ready", "writing"}
      PROVE  RequestsOwn'
  <2>1. held' = [held EXCEPT ![r] = held[r]]
    BY <1>0, <1>4
  <2>2. t = "requested" => held[r] # NoJob /\ ~held[r].scheduled
    BY <1>4 DEF RequestsOwn, Held, Scheduled
  <2> QED
    BY <2>1, <2>2, <1>0, <1>4, RequestsMoved
<1>5. ASSUME NEW r \in Root, Enqueue(r) PROVE RequestsOwn'
  BY <1>3, <1>4, <1>5 DEF Enqueue, avars
<1>6. ASSUME NEW r \in Root, Downloaded(r) PROVE RequestsOwn'
  <2>1. CASE Release(r) /\ Move(r, "none")
    BY <2>1, <1>3
  <2>2. CASE Move(r, "ready") /\ \E b \in Size : Shrink(r, b)
    <3>1. PICK x : held' = [held EXCEPT ![r] = x]
      BY <2>2 DEF Shrink
    <3>2. "ready" \notin {"submitting", "requested"}
      OBVIOUS
    <3> QED
      BY <2>2, <3>1, <3>2, <1>0, RequestsMoved
  <2> QED
    BY <1>6, <2>1, <2>2 DEF Downloaded, Forget
<1>7. CASE TakeRequest
  <2>1. requests # << >> /\ Move(Head(requests), "writing") /\ UNCHANGED held
    BY <1>7 DEF TakeRequest, avars
  <2>2. Head(requests) \in Root
    BY <2>1, <1>0, QueueTaken
  <2> QED
    BY <2>1, <2>2, <1>4
<1>8. CASE TakeReady
  <2>1. ready # << >> /\ Move(Head(ready), "writing") /\ UNCHANGED held
    BY <1>8 DEF TakeReady, avars
  <2>2. Head(ready) \in Root
    BY <2>1, <1>0, QueueTaken
  <2> QED
    BY <2>1, <2>2, <1>4
<1>9. ASSUME NEW r \in Root, Finish(r) \/ DropJob(r) PROVE RequestsOwn'
  BY <1>9, <1>3 DEF Finish, DropJob
<1>10. ASSUME UNCHANGED <<held, stage>> PROVE RequestsOwn'
  BY <1>10 DEF RequestsOwn, Held, Scheduled
<1>11. ASSUME Tick \/ Cancel \/ Stop \/ WorkerFails \/ \E p \in BOOLEAN : Pause(p) PROVE RequestsOwn'
  BY <1>11, <1>10 DEF Tick, Cancel, Close, Stop, WorkerFails, Ends, Pause, SetPaused, avars, counters, pvars
<1> QED
  BY <1>1, <1>2, <1>5, <1>6, <1>7, <1>8, <1>9, <1>11 DEF Next

\* Only the scan holds jobs: then the channel of requests is empty, a slot is
\* free, and all bytes taken are the scan's.
LEMMA AdmittedKept ==
    ASSUME RequestsOwn, JobsInv, SlotsInv, BytesCounted
    PROVE  RequestsAdmitted
<1> SUFFICES ASSUME \A r \in Held : held[r].scheduled, running, ~closed, ~paused
             PROVE  /\ Room
                    /\ \A r \in Root \ Held, b \in Size :
                         b <= MaxBytes - MaxScheduledBytes => Admissible(r, b, FALSE)
  BY DEF RequestsAdmitted
<1>1. Held = Scheduled
  BY DEF Scheduled
<1>2. Room
  <2>1. QueueOK(requests, stage, "requested")
    BY DEF JobsInv, QueuesOK
  <2>2. \A i \in 1 .. Len(requests) : FALSE
    BY <1>1, <2>1 DEF QueueOK, RequestsOwn
  <2>3. Len(requests) \in Nat
    BY <2>1 DEF QueueOK
  <2> QED
    BY <2>2, <2>3, PipelineAssumption, AdmissionAssumption DEF Room
<1>3. Cardinality(Held) # MaxJobs
  BY <1>1, HeldFinite, PipelineAssumption, AdmissionAssumption
     DEF SlotsInv, SlotsBounded, MaxScheduledJobs
<1>4. bytes = scheduledBytes /\ scheduledBytes <= MaxScheduledBytes
      /\ bytes \in Int /\ MaxScheduledBytes \in Int /\ MaxBytes \in Nat
  BY <1>1, AdmissionAssumption DEF BytesCounted, SlotsInv, AdmissionTypeOK, MaxScheduledBytes
<1>5. ASSUME NEW r \in Root \ Held, NEW b \in Size, b <= MaxBytes - MaxScheduledBytes
      PROVE  Admissible(r, b, FALSE)
  <2>1. b \in Nat /\ held[r] = NoJob
    BY AdmissionAssumption DEF Held
  <2>2. Fits(b)
    BY <1>4, <1>5, <2>1 DEF Fits
  <2> QED
    BY <1>3, <2>1, <2>2 DEF Admissible, Open
<1> QED
  BY <1>2, <1>5

\* While only the scan holds jobs, a request for what the scan may not take is
\* admitted and its channel has room.
THEOREM RequestsAlwaysAdmitted == Spec => []RequestsAdmitted
<1>1. Init => RequestsOwn /\ BytesCounted
  BY NoBytes DEF Init, RequestsOwn
<1>2. RequestsOwn /\ JobsInv /\ SlotsInv /\ [Next]_vars => RequestsOwn'
  <2>1. ASSUME RequestsOwn, UNCHANGED vars PROVE RequestsOwn'
    BY <2>1 DEF vars, avars, pvars, RequestsOwn, Held, Scheduled
  <2> QED
    BY <2>1, RequestsStep DEF SlotsInv
<1>3. SlotsInv /\ BytesCounted /\ [Next]_vars => BytesCounted'
  BY StepAdmits, AdmissionCounts
<1>4. RequestsOwn /\ JobsInv /\ SlotsInv /\ BytesCounted => RequestsAdmitted
  BY AdmittedKept
<1> QED
  BY <1>1, <1>2, <1>3, <1>4, PipelineInvariant, PTL DEF Spec

-----------------------------------------------------------------------------
(* Metadata: one job per block.                                            *)

BlockJob == UNION {[height : {h}, ids : SUBSET Tx(h)] : h \in Height}
HeightsIn(s) == {s[i].height : i \in DOMAIN s}
Apart(s) == \A i, k \in DOMAIN s : s[i].height = s[k].height => i = k
BeingFetched == {j.height : j \in fetching}
BeingSent == UNION {HeightsIn(batches[b]) : b \in DOMAIN batches}
Written == recorded \cup objects
Fresh(s) == \A i \in DOMAIN s : s[i].ids \cap Written = {}

\* Jobs, wherever they are.
JobsTyped ==
    /\ described \subseteq Height
    /\ fetching \subseteq BlockJob /\ queued \subseteq BlockJob
    /\ fetched \in Seq(BlockJob) /\ batches \in Seq(Seq(BlockJob)) /\ batch \in Seq(BlockJob)

\* No two jobs of one block, in one place or in two.
JobsApart ==
    /\ \A j, k \in fetching : j.height = k.height => j = k
    /\ \A j, k \in queued : j.height = k.height => j = k
    /\ Apart(fetched) /\ Apart(batch) /\ \A b \in DOMAIN batches : Apart(batches[b])
    /\ BeingFetched \cap HeightsIn(fetched) = {} /\ BeingFetched \cap HeightsIn(batch) = {}
    /\ HeightsIn(fetched) \cap HeightsIn(batch) = {}
    /\ BeingSent \cap (BeingFetched \cup HeightsIn(fetched) \cup HeightsIn(batch)) = {}
    /\ \A b, c \in DOMAIN batches : b # c => HeightsIn(batches[b]) \cap HeightsIn(batches[c]) = {}

InWindow == BeingFetched \cup HeightsIn(fetched) \cup BeingSent \cup HeightsIn(batch)
WindowKept ==
    /\ active = InWindow \cup completed /\ InWindow \cap completed = {}
    /\ \A j \in queued : j.height \notin active
    /\ stream = "query" => active \subseteq excluded

\* What a job still has to record is neither recorded nor collected.
JobsFresh ==
    /\ \A j \in fetching \cup queued : j.ids \cap Written = {}
    /\ Fresh(fetched) /\ Fresh(batch) /\ \A b \in DOMAIN batches : Fresh(batches[b])
    /\ objects \cap recorded = {}
    /\ \A t \in objects : t[1] \in completed \/ (batch # << >> /\ t[1] = Head(batch).height)
    /\ ~busy => batch = << >>

TxInv == JobsTyped /\ JobsApart /\ WindowKept /\ JobsFresh

LEMMA TxStart == ImportInit => TxInv
BY DEF ImportInit, TxInv, JobsTyped, JobsApart, WindowKept, JobsFresh, InWindow, BeingFetched,
   BeingSent, HeightsIn, Apart, Fresh

\* The places in the words of OneJobPerBlock.
LEMMA TxMeans == TxInv => OneJobPerBlock
<1> SUFFICES ASSUME TxInv PROVE OneJobPerBlock
  OBVIOUS
<1>0. fetched \in Seq(BlockJob) /\ batches \in Seq(Seq(BlockJob)) /\ batch \in Seq(BlockJob)
  BY DEF TxInv, JobsTyped
<1>1. /\ \A j : JobAt(<<"fetching", j, 0>>) = j
      /\ \A i : JobAt(<<"fetched", i, 0>>) = fetched[i]
      /\ \A b, i : JobAt(<<"batches", b, i>>) = batches[b][i]
      /\ \A i : JobAt(<<"batch", i, 0>>) = batch[i]
  BY DEF JobAt
<1>2. ASSUME NEW p \in Places
      PROVE  \/ \E j \in fetching : p = <<"fetching", j, 0>>
             \/ \E i \in DOMAIN fetched : p = <<"fetched", i, 0>>
             \/ \E b \in DOMAIN batches : \E i \in DOMAIN batches[b] : p = <<"batches", b, i>>
             \/ \E i \in DOMAIN batch : p = <<"batch", i, 0>>
  <2>1. CASE p \in UNION {PlacesSent(b) : b \in DOMAIN batches}
    <3>1. PICK b \in DOMAIN batches : p \in PlacesSent(b)
      BY <2>1
    <3> QED
      BY <3>1 DEF PlacesSent
  <2>2. CASE p \in PlacesFetching
    BY <2>2 DEF PlacesFetching
  <2>3. CASE p \in PlacesFetched
    BY <2>3 DEF PlacesFetched
  <2>4. CASE p \in PlacesBatch
    BY <2>4 DEF PlacesBatch
  <2> QED
    BY <2>1, <2>2, <2>3, <2>4 DEF Places
<1>3. /\ \A j \in fetching : <<"fetching", j, 0>> \in Places
      /\ \A i \in DOMAIN fetched : <<"fetched", i, 0>> \in Places
      /\ \A b \in DOMAIN batches : \A i \in DOMAIN batches[b] : <<"batches", b, i>> \in Places
      /\ \A i \in DOMAIN batch : <<"batch", i, 0>> \in Places
  <2>1. /\ \A b \in DOMAIN batches : PlacesSent(b) \subseteq Places
        /\ PlacesFetching \subseteq Places /\ PlacesFetched \subseteq Places
        /\ PlacesBatch \subseteq Places
    BY DEF Places
  <2>2. /\ \A j \in fetching : <<"fetching", j, 0>> \in PlacesFetching
        /\ \A i \in DOMAIN fetched : <<"fetched", i, 0>> \in PlacesFetched
        /\ \A b \in DOMAIN batches :
              \A i \in DOMAIN batches[b] : <<"batches", b, i>> \in PlacesSent(b)
        /\ \A i \in DOMAIN batch : <<"batch", i, 0>> \in PlacesBatch
    BY Zenon DEF PlacesFetching, PlacesFetched, PlacesSent, PlacesBatch
  <2> QED
    BY <2>1, <2>2
<1>4. Heights = InWindow
  <2>1. ASSUME NEW p \in Places PROVE JobAt(p).height \in InWindow
    BY <1>1, <1>2 DEF InWindow, BeingFetched, BeingSent, HeightsIn
  <2>2. ASSUME NEW h \in InWindow PROVE \E p \in Places : JobAt(p).height = h
    <3>1. CASE h \in BeingFetched
      BY <1>1, <1>3, <3>1 DEF BeingFetched
    <3>2. CASE h \in HeightsIn(fetched)
      BY <1>1, <1>3, <3>2 DEF HeightsIn
    <3>3. CASE h \in BeingSent
      <4>1. PICK b \in DOMAIN batches : h \in HeightsIn(batches[b])
        BY <3>3 DEF BeingSent
      <4>2. PICK i \in DOMAIN batches[b] : h = batches[b][i].height
        BY <4>1 DEF HeightsIn
      <4> QED
        BY <1>1, <1>3, <4>2
    <3>4. CASE h \in HeightsIn(batch)
      BY <1>1, <1>3, <3>4 DEF HeightsIn
    <3> QED
      BY <3>1, <3>2, <3>3, <3>4 DEF InWindow
  <2> QED
    BY <2>1, <2>2 DEF Heights
<1>5. ASSUME NEW p \in Places, NEW q \in Places, JobAt(p).height = JobAt(q).height PROVE p = q
  <2>0. JobsApart
    BY DEF TxInv
  <2>1. CASE \E j \in fetching : p = <<"fetching", j, 0>>
    BY <1>1, <1>2, <1>5, <2>0, <2>1 DEF JobsApart, BeingFetched, BeingSent, HeightsIn
  <2>2. CASE \E i \in DOMAIN fetched : p = <<"fetched", i, 0>>
    BY <1>1, <1>2, <1>5, <2>0, <2>2 DEF JobsApart, BeingFetched, BeingSent, HeightsIn, Apart
  <2>3. CASE \E b \in DOMAIN batches : \E i \in DOMAIN batches[b] : p = <<"batches", b, i>>
    <3>0. PICK b \in DOMAIN batches : \E i \in DOMAIN batches[b] : p = <<"batches", b, i>>
      BY <2>3
    <3>1. PICK i \in DOMAIN batches[b] : p = <<"batches", b, i>>
      BY <3>0
    <3>2. /\ JobAt(p).height \in HeightsIn(batches[b]) /\ JobAt(p).height \in BeingSent
          /\ b \in DOMAIN batches
      BY <1>1, <3>1 DEF HeightsIn, BeingSent
    <3>7. PICK c \in DOMAIN batches : \E k \in DOMAIN batches[c] : q = <<"batches", c, k>>
      BY <1>1, <1>2, <1>5, <2>0, <3>2 DEF JobsApart, BeingFetched, HeightsIn
    <3>3. PICK k \in DOMAIN batches[c] : q = <<"batches", c, k>>
      BY <3>7
    <3>4. JobAt(q).height \in HeightsIn(batches[c])
      BY <1>1, <3>3 DEF HeightsIn
    <3>5. b = c
      BY <1>5, <2>0, <3>2, <3>4 DEF JobsApart
    <3>6. i = k
      BY <1>1, <1>5, <2>0, <3>1, <3>3, <3>5 DEF JobsApart, Apart
    <3> QED
      BY <3>1, <3>3, <3>5, <3>6
  <2>4. CASE \E i \in DOMAIN batch : p = <<"batch", i, 0>>
    BY <1>1, <1>2, <1>5, <2>0, <2>4 DEF JobsApart, BeingFetched, BeingSent, HeightsIn, Apart
  <2> QED
    BY <1>2, <2>1, <2>2, <2>3, <2>4
<1>6. \A p \in Places : JobAt(p).ids \cap (recorded \cup objects) = {}
  BY <1>1, <1>2 DEF TxInv, JobsFresh, Fresh, Written
<1> QED
  BY <1>4, <1>5, <1>6 DEF OneJobPerBlock, TxInv, WindowKept, JobsFresh

-----------------------------------------------------------------------------
(* Sequences of jobs.                                                      *)

LEMMA JobAdded ==
    ASSUME NEW s \in Seq(BlockJob), NEW j \in BlockJob
    PROVE  LET t == Append(s, j) IN
           /\ t \in Seq(BlockJob) /\ HeightsIn(t) = HeightsIn(s) \cup {j.height}
           /\ Apart(s) /\ j.height \notin HeightsIn(s) => Apart(t)
           /\ Fresh(s) /\ j.ids \cap Written = {} => Fresh(t)
<1>0. Append(s, j) \in Seq(BlockJob)
  OBVIOUS
<1>1. PICK t : t = Append(s, j) /\ t \in Seq(BlockJob)
  BY <1>0
<1>2. /\ Len(t) = Len(s) + 1 /\ Len(s) \in Nat /\ t[Len(s) + 1] = j
      /\ DOMAIN t = 1 .. Len(s) + 1 /\ DOMAIN s = 1 .. Len(s)
      /\ \A i \in 1 .. Len(s) : t[i] = s[i]
  BY <1>1
<1>3. \A i \in DOMAIN t : i \in DOMAIN s \/ i = Len(s) + 1
  BY <1>2
<1>4. \A i \in DOMAIN s : i \in DOMAIN t
  BY <1>2
<1>5. HeightsIn(t) = HeightsIn(s) \cup {j.height}
  BY <1>2, <1>3, <1>4 DEF HeightsIn
<1>6. ASSUME Apart(s), j.height \notin HeightsIn(s) PROVE Apart(t)
  BY <1>2, <1>3, <1>4, <1>6 DEF Apart, HeightsIn
<1>7. ASSUME Fresh(s), j.ids \cap Written = {} PROVE Fresh(t)
  BY <1>2, <1>3, <1>4, <1>7 DEF Fresh
<1> QED
  BY <1>1, <1>5, <1>6, <1>7

LEMMA JobTaken ==
    ASSUME NEW s \in Seq(BlockJob), s # << >>
    PROVE  LET t == Tail(s) IN
           /\ t \in Seq(BlockJob) /\ Head(s) \in BlockJob
           /\ HeightsIn(s) = HeightsIn(t) \cup {Head(s).height}
           /\ Apart(s) => Apart(t) /\ Head(s).height \notin HeightsIn(t)
           /\ Fresh(s) => Fresh(t) /\ Head(s).ids \cap Written = {}
<1>0. Tail(s) \in Seq(BlockJob)
  OBVIOUS
<1>1. PICK t : t = Tail(s) /\ t \in Seq(BlockJob)
  BY <1>0
<1>2. /\ Len(s) \in Nat \ {0} /\ DOMAIN s = 1 .. Len(s) /\ DOMAIN t = 1 .. Len(s) - 1
      /\ \A i \in 1 .. Len(s) - 1 : t[i] = s[i + 1]
      /\ Head(s) = s[1]
  BY <1>1
<1>3. \A i \in DOMAIN s : i = 1 \/ (i - 1 \in DOMAIN t /\ s[i] = t[i - 1])
  BY <1>2
<1>4. \A i \in DOMAIN t : i + 1 \in DOMAIN s /\ i + 1 # 1 /\ t[i] = s[i + 1]
  BY <1>2
<1>5. 1 \in DOMAIN s /\ \A i, k \in DOMAIN t : i + 1 = k + 1 => i = k
  BY <1>2
<1>6. HeightsIn(s) = HeightsIn(t) \cup {Head(s).height}
  <2>1. ASSUME NEW i \in DOMAIN s PROVE s[i].height \in HeightsIn(t) \cup {s[1].height}
    BY <1>3, <2>1 DEF HeightsIn
  <2>2. ASSUME NEW i \in DOMAIN t PROVE t[i].height \in HeightsIn(s)
    BY <1>4, <2>2 DEF HeightsIn
  <2>3. s[1].height \in HeightsIn(s)
    BY <1>5 DEF HeightsIn
  <2>4. HeightsIn(s) \subseteq HeightsIn(t) \cup {s[1].height}
    BY <2>1 DEF HeightsIn
  <2>5. HeightsIn(t) \subseteq HeightsIn(s)
    BY <2>2 DEF HeightsIn
  <2> QED
    BY <1>2, <2>3, <2>4, <2>5
<1>7. ASSUME Apart(s) PROVE Apart(t) /\ Head(s).height \notin HeightsIn(t)
  BY <1>2, <1>4, <1>5, <1>7 DEF Apart, HeightsIn
<1>8. ASSUME Fresh(s) PROVE Fresh(t) /\ Head(s).ids \cap Written = {}
  BY <1>2, <1>4, <1>5, <1>8 DEF Fresh
<1> QED
  BY <1>1, <1>2, <1>6, <1>7, <1>8

-----------------------------------------------------------------------------
(* Steps.                                                                  *)

ImportFrame ==
    UNCHANGED <<fetching, queued, fetched, batches, batch, active, completed, recorded, objects, busy>>

\* Batches under way stay as they are.
LEMMA SentStay ==
    ASSUME UNCHANGED batches, JobsApart
    PROVE  /\ UNCHANGED BeingSent /\ \A b \in DOMAIN batches' : Apart(batches[b])'
           /\ \A b, c \in DOMAIN batches' : b # c => HeightsIn(batches[b])' \cap HeightsIn(batches[c])' = {}
<1>1. \A b : HeightsIn(batches[b])' = HeightsIn(batches[b]) /\ (Apart(batches[b])' <=> Apart(batches[b]))
  BY DEF HeightsIn, Apart
<1> QED
  BY <1>1 DEF JobsApart, BeingSent

\* Steps that move no job.
LEMMA QuietImport ==
    ASSUME TxInv, ImportFrame, described' \subseteq Height, stream' = "query" => active \subseteq excluded'
    PROVE  TxInv'
<1>1. UNCHANGED <<BeingFetched, BeingSent, InWindow, HeightsIn(fetched), HeightsIn(batch), Written>>
  BY DEF ImportFrame, InWindow, BeingFetched, BeingSent, HeightsIn, Written
<1>2. JobsTyped' /\ JobsApart'
  BY <1>1, SentStay DEF TxInv, ImportFrame, JobsTyped, JobsApart, Apart
<1>3. WindowKept' /\ JobsFresh'
  BY <1>1 DEF TxInv, ImportFrame, WindowKept, JobsFresh, Fresh
<1> QED
  BY <1>2, <1>3 DEF TxInv

LEMMA BlockKeeps == ASSUME TxInv, NEW h \in Height, RecordBlock(h) PROVE TxInv'
<1>1. ImportFrame /\ described' \subseteq Height /\ (stream' = "query" => active \subseteq excluded')
  BY DEF TxInv, WindowKept, JobsTyped, ImportFrame, RecordBlock, select, persist, pipe
<1> QED
  BY <1>1, QuietImport

\* What the query returns: jobs of blocks that are not in the window, for
\* what is not recorded.
LEMMA NewJobs ==
    ASSUME TxInv, stream = "query"
    PROVE  /\ Jobs \subseteq BlockJob
           /\ \A j, k \in Jobs : j.height = k.height => j = k
           /\ \A j \in Jobs : j.height \notin active /\ j.ids \cap Written = {}
<1>1. \A t \in Selected : t \in PendingTx
  BY DEF Selected
<1>2. ASSUME NEW t \in PendingTx
      PROVE  t[1] \in described \ excluded /\ t \in Tx(t[1]) /\ t \notin recorded
  <2>1. PICK h \in described \ excluded : t \in Tx(h)
    BY DEF PendingTx
  <2>2. t[1] = h
    BY <2>1 DEF Tx
  <2>3. t \notin recorded
    BY DEF PendingTx
  <2> QED
    BY <2>1, <2>2, <2>3
<1>3. ASSUME NEW j \in Jobs
      PROVE  /\ j = [height |-> j.height, ids |-> {t \in Selected : t[1] = j.height}]
             /\ j.height \in described \ excluded
  BY <1>1, <1>2 DEF Jobs
<1>4. ASSUME NEW j \in Jobs PROVE j.height \notin active
  BY <1>3 DEF TxInv, WindowKept
<1>5. \A t \in objects : t[1] \in active
  BY DEF TxInv, WindowKept, JobsFresh, InWindow, HeightsIn, JobsTyped
<1>6. ASSUME NEW j \in Jobs PROVE j.ids \cap Written = {}
  BY <1>1, <1>2, <1>3, <1>4, <1>5 DEF Written
<1>7. ASSUME NEW j \in Jobs PROVE j \in BlockJob
  <2>1. j.ids \subseteq Tx(j.height) /\ j.height \in Height
    BY <1>1, <1>2, <1>3 DEF TxInv, JobsTyped
  <2> QED
    BY <1>3, <2>1 DEF BlockJob
<1> QED
  BY <1>3, <1>4, <1>6, <1>7

LEMMA ReturnKeeps == ASSUME TxInv, QueryReturns PROVE TxInv'
<1>0. /\ UNCHANGED <<described, fetching, fetched, batches, batch, active, completed, recorded, objects, busy>>
      /\ stream = "query" /\ stream' # "query"
  BY DEF QueryReturns, db, pipe, persist
<1>1. CASE UNCHANGED queued
  BY <1>0, <1>1, QuietImport DEF ImportFrame, TxInv, JobsTyped
<1>2. CASE queued' = Jobs
  <2>1. JobsTyped' /\ JobsApart'
    <3>1. UNCHANGED <<BeingFetched, BeingSent, HeightsIn(fetched), HeightsIn(batch)>>
      BY <1>0 DEF BeingFetched, BeingSent, HeightsIn
    <3>2. JobsTyped'
      BY <1>0, <1>2, NewJobs DEF TxInv, JobsTyped
    <3> QED
      BY <1>0, <1>2, <3>1, <3>2, NewJobs, SentStay DEF TxInv, JobsApart, Apart
  <2>2. WindowKept'
    BY <1>0, <1>2, NewJobs DEF TxInv, WindowKept, InWindow, BeingFetched, BeingSent, HeightsIn
  <2>3. JobsFresh'
    BY <1>0, <1>2, NewJobs DEF TxInv, JobsFresh, Fresh, Written
  <2> QED
    BY <2>1, <2>2, <2>3 DEF TxInv
<1> QED
  BY <1>1, <1>2 DEF QueryReturns

LEMMA StartKeeps == ASSUME TxInv, Start PROVE TxInv'
<1>1. PICK j \in queued : /\ active' = active \cup {j.height} /\ fetching' = fetching \cup {j}
                          /\ queued' = queued \ {j}
  BY DEF Start
<1>2. /\ UNCHANGED <<described, fetched, batches, batch, completed, recorded, objects, busy>>
      /\ stream' # "query"
  BY DEF Start, db, persist
<1>3. j.height \notin active /\ BeingFetched' = BeingFetched \cup {j.height} /\ j.height \notin InWindow
  BY <1>1 DEF TxInv, WindowKept, BeingFetched
<1>4. UNCHANGED BeingSent
  BY <1>2 DEF BeingSent, HeightsIn
<1>5. JobsTyped'
  BY <1>1, <1>2 DEF TxInv, JobsTyped
<1>6. JobsApart'
  <2>1. \A i, k \in fetching' : i.height = k.height => i = k
    BY <1>1, <1>3 DEF TxInv, JobsApart, InWindow, BeingFetched
  <2>2. UNCHANGED <<HeightsIn(fetched), HeightsIn(batch)>>
    BY <1>2 DEF HeightsIn
  <2>3. \A i, k \in queued' : i.height = k.height => i = k
    BY <1>1 DEF TxInv, JobsApart
  <2>4. Apart(fetched)' /\ Apart(batch)'
    BY <1>2 DEF TxInv, JobsApart, Apart
  <2>5. /\ BeingFetched' \cap HeightsIn(fetched)' = {} /\ BeingFetched' \cap HeightsIn(batch)' = {}
        /\ HeightsIn(fetched)' \cap HeightsIn(batch)' = {}
        /\ BeingSent' \cap (BeingFetched' \cup HeightsIn(fetched)' \cup HeightsIn(batch)') = {}
    BY <1>3, <1>4, <2>2 DEF TxInv, JobsApart, InWindow
  <2> QED
    BY <1>2, <2>1, <2>3, <2>4, <2>5, SentStay DEF TxInv, JobsApart
<1>7. WindowKept'
  <2>1. InWindow' = InWindow \cup {j.height}
    BY <1>2, <1>3, <1>4 DEF InWindow, HeightsIn
  <2>2. \A k \in queued' : k.height \notin active'
    BY <1>1 DEF TxInv, WindowKept, JobsApart
  <2> QED
    BY <1>1, <1>2, <1>3, <2>1, <2>2 DEF TxInv, WindowKept
<1>8. JobsFresh'
  BY <1>1, <1>2 DEF TxInv, JobsFresh, Fresh, Written
<1> QED
  BY <1>5, <1>6, <1>7, <1>8 DEF TxInv

LEMMA FetchedKeeps == ASSUME TxInv, NEW j \in fetching, Fetched(j) PROVE TxInv'
<1>1. /\ fetching' = fetching \ {j} /\ fetched' = Append(fetched, j)
      /\ UNCHANGED <<described, queued, batches, batch, active, completed, recorded, objects, busy, stream, excluded>>
  BY DEF Fetched, db, select, persist
<1>2. j \in BlockJob /\ fetched \in Seq(BlockJob)
  BY DEF TxInv, JobsTyped
<1>3. BeingFetched = BeingFetched' \cup {j.height} /\ j.height \notin BeingFetched'
  BY <1>1 DEF TxInv, JobsApart, BeingFetched
<1>4. /\ fetched' \in Seq(BlockJob) /\ HeightsIn(fetched)' = HeightsIn(fetched) \cup {j.height}
      /\ Apart(fetched) /\ j.height \notin HeightsIn(fetched) => Apart(fetched)'
      /\ Fresh(fetched) /\ j.ids \cap Written = {} => Fresh(fetched)'
  <2>1. \A s : /\ s = fetched' => HeightsIn(s) = HeightsIn(fetched)' /\ (Apart(s) <=> Apart(fetched)')
               /\ s = fetched' => (Fresh(s) <=> Fresh(fetched)')
    BY <1>1 DEF HeightsIn, Apart, Fresh, Written
  <2> QED
    BY <1>1, <1>2, <2>1, JobAdded
<1>5. UNCHANGED BeingSent /\ UNCHANGED HeightsIn(batch)
  BY <1>1 DEF BeingSent, HeightsIn
<1>6. JobsTyped'
  BY <1>1, <1>4 DEF TxInv, JobsTyped
<1>7. JobsApart'
  <2>1. Apart(fetched)'
    BY <1>3, <1>4 DEF TxInv, JobsApart
  <2>2. Apart(batch)'
    BY <1>1 DEF TxInv, JobsApart, Apart
  <2>3. /\ BeingFetched' \cap HeightsIn(fetched)' = {} /\ BeingFetched' \cap HeightsIn(batch)' = {}
        /\ HeightsIn(fetched)' \cap HeightsIn(batch)' = {}
        /\ BeingSent' \cap (BeingFetched' \cup HeightsIn(fetched)' \cup HeightsIn(batch)') = {}
    BY <1>3, <1>4, <1>5 DEF TxInv, JobsApart
  <2> QED
    BY <1>1, <2>1, <2>2, <2>3, SentStay DEF TxInv, JobsApart
<1>8. WindowKept'
  BY <1>1, <1>3, <1>4, <1>5 DEF TxInv, WindowKept, InWindow
<1>9. JobsFresh'
  BY <1>1, <1>4 DEF TxInv, JobsFresh, Fresh, Written
<1> QED
  BY <1>6, <1>7, <1>8, <1>9 DEF TxInv

\* A batch sent holds the jobs that were fetched.
LEMMA SendKeeps == ASSUME TxInv, Send PROVE TxInv'
<1>1. /\ batches' = Append(batches, fetched) /\ fetched' = << >>
      /\ UNCHANGED <<described, queued, fetching, batch, active, completed, recorded, objects, busy, stream, excluded>>
  BY DEF Send, db, select, persist
<1>2. PICK n : n = Len(batches) + 1
  OBVIOUS
<1>3. /\ batches' \in Seq(Seq(BlockJob)) /\ batches'[n] = fetched /\ n \in DOMAIN batches'
      /\ \A b \in DOMAIN batches : b \in DOMAIN batches' /\ batches'[b] = batches[b] /\ b # n
      /\ \A b \in DOMAIN batches' : b = n \/ b \in DOMAIN batches
  BY <1>1, <1>2 DEF TxInv, JobsTyped
<1>4. /\ HeightsIn(fetched') = {} /\ Apart(fetched') /\ Fresh(fetched')
      /\ UNCHANGED <<BeingFetched, HeightsIn(batch), Written>> /\ UNCHANGED <<Apart(batch), Fresh(batch)>>
  BY <1>1 DEF BeingFetched, HeightsIn, Apart, Fresh, Written
<1>5. BeingSent' = BeingSent \cup HeightsIn(fetched)
  <2>1. BeingSent' = UNION {HeightsIn(batches'[b]) : b \in DOMAIN batches'}
    BY DEF BeingSent, HeightsIn
  <2>2. ASSUME NEW h \in BeingSent' PROVE h \in BeingSent \cup HeightsIn(fetched)
    <3>1. PICK b \in DOMAIN batches' : h \in HeightsIn(batches'[b])
      BY <2>1, <2>2
    <3>2. CASE b = n
      BY <1>3, <3>1, <3>2
    <3>3. CASE b \in DOMAIN batches
      BY <1>3, <3>1, <3>3 DEF BeingSent
    <3> QED
      BY <1>3, <3>2, <3>3
  <2>3. ASSUME NEW h \in BeingSent PROVE h \in BeingSent'
    <3>1. PICK b \in DOMAIN batches : h \in HeightsIn(batches[b])
      BY <2>3 DEF BeingSent
    <3> QED
      BY <1>3, <2>1, <3>1
  <2>4. HeightsIn(fetched) \subseteq BeingSent'
    BY <1>3, <2>1
  <2> QED
    BY <2>2, <2>3, <2>4
<1>6. JobsTyped'
  BY <1>1, <1>3 DEF TxInv, JobsTyped
<1>7. JobsApart'
  <2>1. \A b \in DOMAIN batches' : Apart(batches'[b])
    BY <1>3 DEF TxInv, JobsApart
  <2>2. \A b, c \in DOMAIN batches' : b # c => HeightsIn(batches'[b]) \cap HeightsIn(batches'[c]) = {}
    <3>1. \A b \in DOMAIN batches : HeightsIn(batches[b]) \subseteq BeingSent
      BY DEF BeingSent
    <3> QED
      BY <1>3, <3>1 DEF TxInv, JobsApart
  <2>3. /\ HeightsIn(fetched)' = HeightsIn(fetched') /\ (Apart(fetched)' <=> Apart(fetched'))
        /\ \A b : HeightsIn(batches[b])' = HeightsIn(batches'[b])
        /\ \A b : Apart(batches[b])' <=> Apart(batches'[b])
    BY DEF HeightsIn, Apart
  <2> QED
    BY <1>1, <1>4, <1>5, <2>1, <2>2, <2>3 DEF TxInv, JobsApart
<1>8. WindowKept'
  <2>1. HeightsIn(fetched)' = {}
    BY <1>4 DEF HeightsIn
  <2> QED
    BY <1>1, <1>4, <1>5, <2>1 DEF TxInv, WindowKept, InWindow
<1>9. JobsFresh'
  <2>1. \A b \in DOMAIN batches' : Fresh(batches'[b])
    BY <1>3 DEF TxInv, JobsFresh
  <2>2. Fresh(fetched)' /\ \A b \in DOMAIN batches' : Fresh(batches[b])'
    BY <1>1, <1>4, <2>1 DEF Fresh, Written
  <2> QED
    BY <1>1, <1>4, <2>2 DEF TxInv, JobsFresh
<1> QED
  BY <1>6, <1>7, <1>8, <1>9 DEF TxInv

\* The batch received was the first of the channel.
LEMMA ReceiveKeeps == ASSUME TxInv, Receive PROVE TxInv'
<1>1. /\ ~busy /\ busy' = TRUE /\ batches # << >>
      /\ batch' = Head(batches) /\ batches' = Tail(batches)
      /\ UNCHANGED <<described, queued, fetching, fetched, active, completed, recorded, objects, stream, excluded>>
  BY DEF Receive, db, select
<1>2. batch = << >> /\ HeightsIn(batch) = {}
  BY <1>1 DEF TxInv, JobsFresh, HeightsIn
<1>3. /\ batches' \in Seq(Seq(BlockJob)) /\ batch' \in Seq(BlockJob)
      /\ 1 \in DOMAIN batches /\ batch' = batches[1]
      /\ \A b \in DOMAIN batches' : b + 1 \in DOMAIN batches /\ b + 1 # 1 /\ batches'[b] = batches[b + 1]
      /\ \A b \in DOMAIN batches : b = 1 \/ (b - 1 \in DOMAIN batches' /\ batches[b] = batches'[b - 1])
      /\ \A b, c \in DOMAIN batches' : b # c => b + 1 # c + 1
  <2>1. batches \in Seq(Seq(BlockJob))
    BY DEF TxInv, JobsTyped
  <2>2. /\ Len(batches) \in Nat \ {0} /\ DOMAIN batches = 1 .. Len(batches)
        /\ batches' \in Seq(Seq(BlockJob))
        /\ DOMAIN batches' = 1 .. Len(batches) - 1 /\ batch' = batches[1]
        /\ \A b \in 1 .. Len(batches) - 1 : batches'[b] = batches[b + 1]
    BY <1>1, <2>1
  <2>3. 1 \in DOMAIN batches /\ batch' \in Seq(BlockJob)
    BY <2>1, <2>2
  <2>4. \A b \in DOMAIN batches' : b + 1 \in DOMAIN batches /\ b + 1 # 1 /\ batches'[b] = batches[b + 1]
    BY <2>2
  <2>5. \A b \in DOMAIN batches : b = 1 \/ (b - 1 \in DOMAIN batches' /\ batches[b] = batches'[b - 1])
    BY <2>2
  <2>6. \A b, c \in DOMAIN batches' : b # c => b + 1 # c + 1
    BY <2>2
  <2> QED
    BY <2>2, <2>3, <2>4, <2>5, <2>6
<1>4. BeingSent = BeingSent' \cup HeightsIn(batch')
  <2>1. BeingSent' = UNION {HeightsIn(batches'[b]) : b \in DOMAIN batches'}
    BY DEF BeingSent, HeightsIn
  <2>2. ASSUME NEW h \in BeingSent PROVE h \in BeingSent' \cup HeightsIn(batch')
    <3>1. PICK b \in DOMAIN batches : h \in HeightsIn(batches[b])
      BY <2>2 DEF BeingSent
    <3> QED
      BY <1>3, <2>1, <3>1
  <2>3. ASSUME NEW h \in BeingSent' PROVE h \in BeingSent
    <3>1. PICK b \in DOMAIN batches' : h \in HeightsIn(batches'[b])
      BY <2>1, <2>3
    <3> QED
      BY <1>3, <3>1 DEF BeingSent
  <2>4. HeightsIn(batch') \subseteq BeingSent
    BY <1>3 DEF BeingSent
  <2> QED
    BY <2>2, <2>3, <2>4
<1>5. BeingSent' \cap HeightsIn(batch') = {}
  <2>1. BeingSent' = UNION {HeightsIn(batches'[b]) : b \in DOMAIN batches'}
    BY DEF BeingSent, HeightsIn
  <2> QED
    BY <1>3, <2>1 DEF TxInv, JobsApart
<1>6. /\ HeightsIn(batch)' = HeightsIn(batch') /\ (Apart(batch)' <=> Apart(batch'))
      /\ \A b : HeightsIn(batches[b])' = HeightsIn(batches'[b])
      /\ \A b : Apart(batches[b])' <=> Apart(batches'[b])
      /\ UNCHANGED <<BeingFetched, HeightsIn(fetched), Written>>
      /\ (Apart(fetched)' <=> Apart(fetched)) /\ (Fresh(fetched)' <=> Fresh(fetched))
      /\ (Fresh(batch)' <=> Fresh(batch')) /\ \A b : Fresh(batches[b])' <=> Fresh(batches'[b])
  BY <1>1 DEF HeightsIn, Apart, Fresh, Written, BeingFetched
<1>7. JobsTyped'
  BY <1>1, <1>3 DEF TxInv, JobsTyped
<1>8. JobsApart'
  <2>1. /\ Apart(batch)' /\ \A b \in DOMAIN batches' : Apart(batches[b])'
        /\ \A b, c \in DOMAIN batches' : b # c => HeightsIn(batches[b])' \cap HeightsIn(batches[c])' = {}
    BY <1>3, <1>6 DEF TxInv, JobsApart
  <2>2. /\ BeingFetched' \cap HeightsIn(fetched)' = {} /\ BeingFetched' \cap HeightsIn(batch)' = {}
        /\ HeightsIn(fetched)' \cap HeightsIn(batch)' = {}
        /\ BeingSent' \cap (BeingFetched' \cup HeightsIn(fetched)' \cup HeightsIn(batch)') = {}
    BY <1>4, <1>5, <1>6 DEF TxInv, JobsApart
  <2> QED
    BY <1>1, <1>6, <2>1, <2>2 DEF TxInv, JobsApart
<1>9. WindowKept'
  BY <1>1, <1>2, <1>4, <1>6 DEF TxInv, WindowKept, InWindow
<1>10. JobsFresh'
  <2>1. Fresh(batch)' /\ \A b \in DOMAIN batches' : Fresh(batches[b])'
    BY <1>3, <1>6 DEF TxInv, JobsFresh
  <2> QED
    BY <1>1, <1>2, <1>6, <2>1 DEF TxInv, JobsFresh
<1> QED
  BY <1>7, <1>8, <1>9, <1>10 DEF TxInv

\* A block has a first transaction left.
LEMMA FirstLeft ==
    ASSUME NEW h \in Height, NEW S, S \subseteq Tx(h), S # {}
    PROVE  \E t \in S : \A u \in S : ~Before(u, t)
<1> DEFINE I == {t[2] : t \in S}
<1>1. \A t \in S : t[1] = h /\ t[2] \in 1 .. Txs[h]
  BY DEF Tx
<1>2. Txs[h] \in Nat
  BY TxAssumption
<1>3. I \subseteq Nat /\ I # {}
  BY <1>1, <1>2
<1>4. PICK i \in I : \A k \in I : i <= k
  BY <1>3, LeastNatural
<1>5. PICK t \in S : i = t[2]
  BY <1>4
<1>6. ASSUME NEW u \in S PROVE ~Before(u, t)
  <2>1. u[2] \in I /\ u[1] = h /\ t[1] = h
    BY <1>1
  <2>2. i <= u[2] /\ h \in Nat /\ u[2] \in Nat /\ i \in Nat
    BY <1>3, <1>4, <2>1, TxAssumption
  <2> QED
    BY <1>5, <2>1, <2>2 DEF Before
<1> QED
  BY <1>6

\* A job whose transactions are collected one by one, replaced in its batch.
LEMMA JobReduced ==
    ASSUME NEW s \in Seq(BlockJob), s # << >>, NEW j \in BlockJob, j.height = Head(s).height
    PROVE  LET u == <<j>> \o Tail(s) IN
           /\ u \in Seq(BlockJob) /\ u # << >> /\ Head(u) = j
           /\ DOMAIN u = DOMAIN s /\ \A i \in DOMAIN u : i = 1 \/ u[i] = s[i]
           /\ 1 \in DOMAIN u /\ u[1] = j
           /\ \A i \in DOMAIN s : u[i].height = s[i].height
<1>1. /\ Tail(s) \in Seq(BlockJob) /\ <<j>> \in Seq(BlockJob) /\ Len(s) \in Nat \ {0}
      /\ Len(Tail(s)) = Len(s) - 1 /\ \A i \in 1 .. Len(s) - 1 : Tail(s)[i] = s[i + 1]
      /\ DOMAIN s = 1 .. Len(s) /\ Head(s) = s[1] /\ Len(<<j>>) = 1
  OBVIOUS
<1>2. PICK u : u = <<j>> \o Tail(s)
  OBVIOUS
<1>3. /\ u \in Seq(BlockJob) /\ Len(u) = Len(s) /\ u[1] = j /\ DOMAIN u = 1 .. Len(s)
      /\ \A i \in 2 .. Len(s) : u[i] = Tail(s)[i - 1]
  BY <1>1, <1>2
<1>4. u # << >> /\ Head(u) = j /\ 1 \in DOMAIN u
  BY <1>1, <1>3
<1>5. ASSUME NEW i \in DOMAIN u PROVE i = 1 \/ u[i] = s[i]
  <2>1. CASE i # 1
    <3>1. i \in 2 .. Len(s) /\ i - 1 \in 1 .. Len(s) - 1 /\ i - 1 + 1 = i
      BY <1>1, <1>3, <2>1
    <3> QED
      BY <1>1, <1>3, <3>1
  <2> QED
    BY <2>1
<1> QED
  BY <1>1, <1>2, <1>3, <1>4, <1>5

LEMMA CollectKeeps == ASSUME TxInv, Collect PROVE TxInv'
<1> DEFINE H == Head(batch)
           t == CHOOSE x \in HeadIds : \A u \in HeadIds : ~Before(u, x)
<1>1. /\ objects' = objects \cup {t} /\ batch # << >> /\ H.ids # {}
      /\ batch' = <<[H EXCEPT !.ids = @ \ {t}]>> \o Tail(batch)
      /\ UNCHANGED <<described, queued, fetching, fetched, batches, active, completed, recorded, busy, stream, excluded>>
  BY DEF Collect, HeadIds, db, select, pipe
<1>2. batch \in Seq(BlockJob) /\ H \in BlockJob
  BY <1>1, JobTaken DEF TxInv, JobsTyped
<1>3. /\ H.height \in Height /\ H.ids \subseteq Tx(H.height)
      /\ H = [height |-> H.height, ids |-> H.ids]
  BY <1>2 DEF BlockJob
<1>4. t \in H.ids
  BY <1>1, <1>3, FirstLeft DEF HeadIds
<1> DEFINE J == [H EXCEPT !.ids = @ \ {t}]
<1>5. J \in BlockJob /\ J.height = H.height /\ J.ids = H.ids \ {t} /\ t[1] = H.height
  BY <1>3, <1>4 DEF BlockJob, Tx
<1>6. batch' = <<J>> \o Tail(batch)
  BY <1>1
<1> HIDE DEF t, J
<1>7. /\ batch' \in Seq(BlockJob) /\ batch' # << >> /\ Head(batch') = J
      /\ DOMAIN batch' = DOMAIN batch /\ \A i \in DOMAIN batch' : i = 1 \/ batch'[i] = batch[i]
      /\ 1 \in DOMAIN batch' /\ batch'[1] = J
      /\ \A i \in DOMAIN batch : batch'[i].height = batch[i].height
  <2>1. batch # << >> /\ J.height = Head(batch).height
    BY <1>1, <1>5
  <2> HIDE DEF H
  <2>2. LET u == <<J>> \o Tail(batch) IN
           /\ u \in Seq(BlockJob) /\ u # << >> /\ Head(u) = J
           /\ DOMAIN u = DOMAIN batch /\ \A i \in DOMAIN u : i = 1 \/ u[i] = batch[i]
           /\ 1 \in DOMAIN u /\ u[1] = J
           /\ \A i \in DOMAIN batch : u[i].height = batch[i].height
    BY <1>2, <1>5, <2>1, JobReduced
  <2> QED
    BY <1>6, <2>2
<1> HIDE DEF H
<1>8. HeightsIn(batch') = HeightsIn(batch) /\ (Apart(batch) => Apart(batch'))
  BY <1>7 DEF HeightsIn, Apart
<1>9. /\ UNCHANGED <<BeingFetched, BeingSent, HeightsIn(fetched), HeightsIn(batch)>>
      /\ (Apart(batch)' <=> Apart(batch')) /\ (Apart(fetched)' <=> Apart(fetched))
      /\ Written' = Written \cup {t}
  <2>1. UNCHANGED <<BeingFetched, BeingSent, HeightsIn(fetched)>>
    BY <1>1 DEF BeingFetched, BeingSent, HeightsIn
  <2>2. HeightsIn(batch)' = HeightsIn(batch')
    BY DEF HeightsIn
  <2>3. (Apart(batch)' <=> Apart(batch')) /\ (Apart(fetched)' <=> Apart(fetched))
    BY <1>1 DEF Apart
  <2> QED
    BY <1>1, <1>8, <2>1, <2>2, <2>3 DEF Written
<1>10. JobsTyped'
  BY <1>1, <1>7 DEF TxInv, JobsTyped
<1>11. JobsApart'
  BY <1>1, <1>8, <1>9, SentStay DEF TxInv, JobsApart
<1>12. WindowKept'
  BY <1>1, <1>9 DEF TxInv, WindowKept, InWindow
<1>13. H.height \in HeightsIn(batch) /\ H = batch[1] /\ 1 \in DOMAIN batch
  BY <1>1, <1>2 DEF H, HeightsIn
<1>14. JobsFresh'
  <2>0. \A j \in BlockJob : t \in j.ids => j.height = H.height
    BY <1>5 DEF BlockJob, Tx
  <2>1. \A j \in fetching' \cup queued' : j.ids \cap Written' = {}
    <3>1. ASSUME NEW j \in fetching \cup queued PROVE t \notin j.ids
      <4>1. H.height \in InWindow /\ H.height \in active
        BY <1>13 DEF TxInv, WindowKept, InWindow
      <4>2. j.height # H.height
        BY <1>13, <4>1 DEF TxInv, WindowKept, JobsApart, BeingFetched
      <4> QED
        BY <2>0, <4>2 DEF TxInv, JobsTyped
    <3> QED
      BY <1>1, <1>9, <3>1 DEF TxInv, JobsFresh
  <2>2. Fresh(fetched)'
    <3>1. ASSUME NEW i \in DOMAIN fetched PROVE t \notin fetched[i].ids
      <4>1. fetched[i] \in BlockJob /\ fetched[i].height \in HeightsIn(fetched)
        BY DEF TxInv, JobsTyped, HeightsIn
      <4> QED
        BY <1>13, <2>0, <4>1 DEF TxInv, JobsApart
    <3> QED
      BY <1>1, <1>9, <3>1 DEF TxInv, JobsFresh, Fresh
  <2>3. \A b \in DOMAIN batches' : Fresh(batches[b])'
    <3>1. ASSUME NEW b \in DOMAIN batches, NEW i \in DOMAIN batches[b] PROVE t \notin batches[b][i].ids
      <4>1. batches[b] \in Seq(BlockJob)
        BY DEF TxInv, JobsTyped
      <4>2. batches[b][i] \in BlockJob /\ batches[b][i].height \in BeingSent
        BY <4>1 DEF HeightsIn, BeingSent
      <4> QED
        BY <1>13, <2>0, <4>2 DEF TxInv, JobsApart
    <3> QED
      BY <1>1, <1>9, <3>1 DEF TxInv, JobsFresh, Fresh
  <2>4. Fresh(batch)'
    <3>1. ASSUME NEW i \in DOMAIN batch' PROVE batch'[i].ids \cap Written' = {}
      <4>1. batch[1].ids \cap Written = {} /\ batch[i].ids \cap Written = {} /\ i \in DOMAIN batch
        BY <1>7, <1>13 DEF TxInv, JobsFresh, Fresh
      <4>2. CASE i = 1
        BY <1>5, <1>7, <1>9, <1>13, <4>1, <4>2
      <4>3. CASE i # 1
        <5>1. batch'[i] = batch[i] /\ batch[i] \in BlockJob /\ batch[i].height # H.height
          BY <1>2, <1>7, <1>13, <4>1, <4>3 DEF TxInv, JobsApart, Apart
        <5> QED
          BY <1>9, <2>0, <4>1, <5>1
      <4> QED
        BY <4>2, <4>3
    <3> QED
      BY <3>1 DEF Fresh, Written
  <2>5. objects' \cap recorded' = {}
    <3>1. t \notin recorded
      BY <1>4, <1>13 DEF TxInv, JobsFresh, Fresh, Written
    <3> QED
      BY <1>1, <3>1 DEF TxInv, JobsFresh
  <2>6. \A x \in objects' : x[1] \in completed' \/ (batch' # << >> /\ x[1] = Head(batch').height)
    BY <1>1, <1>5, <1>7 DEF TxInv, JobsFresh, H
  <2>7. ~busy' => batch' = << >>
    BY <1>1 DEF TxInv, JobsFresh
  <2> QED
    BY <2>1, <2>2, <2>3, <2>4, <2>5, <2>6, <2>7 DEF JobsFresh
<1> QED
  BY <1>10, <1>11, <1>12, <1>14 DEF TxInv

\* A job collected leaves the window, or waits for the batch it is in.
LEMMA CollectedKeeps == ASSUME TxInv, JobCollected PROVE TxInv'
<1> DEFINE h == Head(batch).height
<1>1. /\ batch # << >> /\ batch' = Tail(batch)
      /\ \/ objects = {} /\ active' = active \ {h} /\ completed' = completed
         \/ completed' = completed \cup {h} /\ active' = active
      /\ UNCHANGED <<described, queued, fetching, fetched, batches, recorded, objects, busy, stream, excluded>>
  BY DEF JobCollected, db, select, pipe
<1>2. /\ batch' \in Seq(BlockJob) /\ HeightsIn(batch) = HeightsIn(batch') \cup {h}
      /\ Apart(batch') /\ h \notin HeightsIn(batch') /\ Fresh(batch')
  BY <1>1, JobTaken DEF TxInv, JobsTyped, JobsApart, JobsFresh
<1>3. /\ UNCHANGED <<BeingFetched, BeingSent, HeightsIn(fetched), Written>>
      /\ HeightsIn(batch)' = HeightsIn(batch') /\ (Apart(batch)' <=> Apart(batch'))
      /\ (Fresh(batch)' <=> Fresh(batch')) /\ (Apart(fetched)' <=> Apart(fetched))
  BY <1>1 DEF BeingFetched, BeingSent, HeightsIn, Apart, Fresh, Written
<1> HIDE DEF h
<1>4. JobsTyped'
  BY <1>1, <1>2 DEF TxInv, JobsTyped
<1>5. JobsApart'
  BY <1>1, <1>2, <1>3, SentStay DEF TxInv, JobsApart
<1>6. WindowKept'
  <2>1. InWindow = InWindow' \cup {h} /\ h \notin InWindow'
    BY <1>2, <1>3 DEF TxInv, JobsApart, InWindow
  <2> QED
    BY <1>1, <2>1 DEF TxInv, WindowKept
<1>7. JobsFresh'
  <2>1. \A t \in objects' : t[1] \in completed'
    BY <1>1 DEF TxInv, JobsFresh, h
  <2>2. \A b \in DOMAIN batches' : Fresh(batches[b])'
    BY <1>1 DEF TxInv, JobsFresh, Fresh, Written
  <2>3. Fresh(fetched)' /\ Fresh(batch)' /\ (~busy' => batch' = << >>)
    BY <1>1, <1>2, <1>3 DEF TxInv, JobsFresh, Fresh, Written
  <2> QED
    BY <1>1, <1>3, <2>1, <2>2, <2>3 DEF TxInv, JobsFresh
<1> QED
  BY <1>4, <1>5, <1>6, <1>7 DEF TxInv

\* Recording a batch empties the window of the blocks completed in it.
LEMMA RecordKeeps == ASSUME TxInv, RecordFull \/ Flush PROVE TxInv'
<1>1. /\ recorded' = recorded \cup objects /\ objects' = {}
      /\ active' = active \ completed /\ completed' = {}
      /\ UNCHANGED <<described, queued, fetching, fetched, batches, batch, stream, excluded>>
      /\ busy' = busy \/ batch = << >>
  BY DEF RecordFull, Flush, InFullBatch, select, pipe
<1>2. Written' = Written
  BY <1>1 DEF Written
<1>3. UNCHANGED <<BeingFetched, BeingSent, InWindow, HeightsIn(fetched), HeightsIn(batch)>>
  BY <1>1 DEF InWindow, BeingFetched, BeingSent, HeightsIn
<1>4. JobsTyped' /\ JobsApart'
  BY <1>1, <1>3, SentStay DEF TxInv, JobsTyped, JobsApart, Apart
<1>5. WindowKept'
  BY <1>1, <1>3 DEF TxInv, WindowKept
<1>6. JobsFresh'
  BY <1>1, <1>2 DEF TxInv, JobsFresh, Fresh
<1> QED
  BY <1>4, <1>5, <1>6 DEF TxInv

\* The next call starts with nothing under way.
LEMMA FailKeeps == ASSUME TxInv, Fail PROVE TxInv'
<1>1. /\ queued' = {} /\ active' = {} /\ fetching' = {} /\ fetched' = << >> /\ batches' = << >>
      /\ batch' = << >> /\ objects' = {} /\ completed' = {} /\ stream' = "step"
      /\ UNCHANGED described
  BY DEF Fail, db
<1>2. BeingFetched' = {} /\ BeingSent' = {} /\ HeightsIn(fetched)' = {} /\ HeightsIn(batch)' = {}
  BY <1>1 DEF BeingFetched, BeingSent, HeightsIn
<1>3. JobsTyped'
  BY <1>1 DEF TxInv, JobsTyped
<1>4. JobsApart'
  BY <1>1, <1>2 DEF JobsApart, Apart
<1>5. WindowKept' /\ JobsFresh'
  BY <1>1, <1>2 DEF WindowKept, JobsFresh, InWindow, Fresh
<1> QED
  BY <1>3, <1>4, <1>5 DEF TxInv

LEMMA TxStep == ASSUME TxInv, [ImportNext]_importing PROVE TxInv'
<1>1. CASE UNCHANGED importing
  BY <1>1, QuietImport
     DEF importing, db, select, persist, pipe, ImportFrame, TxInv, JobsTyped, WindowKept
<1>2. ASSUME NEW h \in Height, RecordBlock(h) PROVE TxInv'
  BY <1>2, BlockKeeps
<1>3. CASE BlocksDone \/ LookForTx \/ ImportEnds \/ Again \/ ImportOk \/ Sleep \/ Query \/ Wake
  <2>1. /\ ImportFrame /\ described' \subseteq Height
        /\ (stream' = "query" => active \subseteq excluded')
    BY <1>3
       DEF TxInv, WindowKept, JobsTyped, ImportFrame, BlocksDone, LookForTx, ImportEnds, Again,
           ImportOk, Sleep, Query, Wake, db, select, persist, pipe
  <2> QED
    BY <2>1, QuietImport
<1>4. ASSUME NEW j \in fetching, Fetched(j) PROVE TxInv'
  BY <1>4, FetchedKeeps
<1>5. CASE Start \/ QueryReturns \/ Send \/ Receive
  BY <1>5, StartKeeps, ReturnKeeps, SendKeeps, ReceiveKeeps
<1>6. CASE Collect \/ RecordFull \/ JobCollected \/ Flush \/ Fail
  BY <1>6, CollectKeeps, RecordKeeps, CollectedKeeps, FailKeeps
<1> QED
  BY <1>1, <1>2, <1>3, <1>4, <1>5, <1>6 DEF ImportNext, Work

\* A block is in the window exactly while one job of it is under way, with what
\* is not recorded of it.
THEOREM OneJobAlways == ImportSpec => []OneJobPerBlock
<1>1. TxInv /\ [ImportNext]_importing => TxInv'
  BY TxStep
<1> QED
  BY <1>1, TxStart, TxMeans, PTL DEF ImportSpec
=============================================================================
