------------------------------- MODULE Spill -------------------------------
(***************************************************************************)
(* SpillWriter and SpillReader: the points of a streaming write are put    *)
(* into a temporary file of records of one width, and read back at random  *)
(* out of a map of it.  Both are public: a caller may go on pushing after  *)
(* a push that failed (write_streaming and convert_las_to_copc give up).   *)
(*                                                                         *)
(* The file is written through a BufWriter, which writes its buffer out    *)
(* when the next record does not fit, in pieces, and keeps what it could   *)
(* not write.  A byte is known by the record it is of and its place.       *)
(***************************************************************************)
EXTENDS Integers, SequencesExt, FiniteSetsExt

CONSTANTS
  Records,    \* the records that may be pushed
  Width,      \* record_width
  Capacity,   \* SPILL_IO_BUFFER_BYTES
  MaxPushes   \* bound: how many records are pushed

\* x stands for a coordinate; `fields` are those validate_spill_record looks at.
Record == [id : Nat, x : Int, gps_time : Int, return_number : Nat,
           fields : BOOLEAN, gps_finite : BOOLEAN]

ASSUME SpillAssumption ==
  /\ Records \subseteq Record
  /\ \A r, s \in Records : r.id = s.id => r = s
  /\ Width \in Nat \ {0} /\ Capacity \in Nat /\ Width < Capacity
  /\ MaxPushes \in Nat

VARIABLES
  phase,     \* "push", "flush", "sync", "reopen", "open", "reader", "failed"
  disk,      \* the bytes in the temporary file
  buffer,    \* those in the BufWriter
  pending,   \* the record the BufWriter makes room for, or None
  count, bounds, stats,
  accepted,  \* history: the records push has returned Ok for, in order
  pushes     \* history: how many have been pushed

summary == <<count, bounds, stats>>
vars == <<phase, disk, buffer, pending, summary, accepted, pushes>>

None == [kind |-> "none"]
NoBounds == [min |-> 0, max |-> -1]
NoStats == [gps |-> {}, returns |-> [n \in 1..15 |-> 0]]

Bytes(r) == [i \in 1..Width |-> <<r.id, i>>]

Init ==
  /\ phase = "push"
  /\ disk = <<>> /\ buffer = <<>> /\ pending = None
  /\ count = 0 /\ bounds = NoBounds /\ stats = NoStats
  /\ accepted = <<>> /\ pushes = 0

-----------------------------------------------------------------------------
\* Bounds::extend, Bounds::point
Extended(b, r) ==
  IF b = NoBounds THEN [min |-> r.x, max |-> r.x]
                  ELSE [min |-> Min({b.min, r.x}), max |-> Max({b.max, r.x})]

\* PointStats::record; gps is the set of the least and the greatest time.
Recorded(s, r) ==
  [gps |-> {Min(s.gps \cup {r.gps_time}), Max(s.gps \cup {r.gps_time})},
   returns |-> [n \in 1..15 |-> s.returns[n] + IF n = r.return_number THEN 1 ELSE 0]]

Valid(r) == r.fields /\ r.gps_finite

\* push: the record is not valid, or cannot be encoded; nothing is changed.
Refuse(r) ==
  /\ phase = "push" /\ pending = None /\ pushes < MaxPushes
  /\ ~ Valid(r)
  /\ pushes' = pushes + 1
  /\ UNCHANGED <<phase, disk, buffer, pending, summary, accepted>>

Fits == Len(buffer) + Width <= Capacity

Take(r, bytes) ==
  /\ buffer' = bytes \o Bytes(r)
  /\ count' = count + 1 /\ bounds' = Extended(bounds, r) /\ stats' = Recorded(stats, r)
  /\ accepted' = Append(accepted, r)
  /\ pending' = None

\* push, and there is room in the buffer.
Push(r) ==
  /\ phase = "push" /\ pending = None /\ pushes < MaxPushes
  /\ Valid(r)
  /\ pushes' = pushes + 1
  /\ IF Fits THEN Take(r, buffer)
             ELSE pending' = r /\ UNCHANGED <<buffer, summary, accepted>>
  /\ UNCHANGED <<phase, disk>>

\* BufWriter writes some of its buffer out.
Flushing == pending # None \/ phase = "flush"

WriteOut ==
  /\ Flushing
  /\ \E n \in 1..Len(buffer) :
       /\ disk' = disk \o SubSeq(buffer, 1, n)
       /\ buffer' = SubSeq(buffer, n + 1, Len(buffer))
  /\ UNCHANGED <<phase, pending, summary, accepted, pushes>>

\* The buffer is empty, and push goes on.
MadeRoom ==
  /\ pending # None /\ buffer = <<>>
  /\ Take(pending, buffer)
  /\ UNCHANGED <<phase, disk, pushes>>

\* Mutant (PushFails): the bounds are extended before the record is written.
PushFails_BoundsFirst ==
  /\ pending # None /\ buffer # <<>>
  /\ bounds' = Extended(bounds, pending)
  /\ pending' = None
  /\ UNCHANGED <<phase, disk, buffer, count, stats, accepted, pushes>>

\* The write fails, some of the buffer may have been written: push returns
\* Err, with the rest in the buffer, and nothing of the record.
PushFails ==
  /\ pending # None /\ buffer # <<>>
  /\ pending' = None
  /\ UNCHANGED <<phase, disk, buffer, summary, accepted, pushes>>

\* finalize: flush, into_inner, sync_all, reopen, and SpillReader::open.
Finalize ==
  /\ phase = "push" /\ pending = None
  /\ phase' = "flush"
  /\ UNCHANGED <<disk, buffer, pending, summary, accepted, pushes>>

\* Mutant (FinalStep): the buffer is not flushed, and the size not checked.
FinalStep_NoFlush ==
  /\ \/ phase = "flush" /\ phase' = "sync"
     \/ phase = "sync" /\ phase' = "reopen"
     \/ phase = "reopen" /\ phase' = "open"
     \/ phase = "open" /\ phase' = "reader"
  /\ UNCHANGED <<disk, buffer, pending, summary, accepted, pushes>>

FinalStep ==
  /\ \/ phase = "flush" /\ buffer = <<>> /\ phase' = "sync"
     \/ phase = "sync" /\ phase' = "reopen"
     \/ phase = "reopen" /\ phase' = "open"
     \/ phase = "open" /\ phase' = IF Len(disk) = Width * count THEN "reader" ELSE "failed"
  /\ UNCHANGED <<disk, buffer, pending, summary, accepted, pushes>>

\* Any of its steps may fail; the temporary file is removed.
FinalFails ==
  /\ phase \in {"flush", "sync", "reopen", "open"}
  /\ phase' = "failed"
  /\ UNCHANGED <<disk, buffer, pending, summary, accepted, pushes>>

Next ==
  \/ \E r \in Records : Refuse(r) \/ Push(r)
  \/ WriteOut \/ MadeRoom \/ PushFails
  \/ Finalize \/ FinalStep \/ FinalFails

Spec == Init /\ [][Next]_vars

-----------------------------------------------------------------------------
\* record_bytes
RecordBytes(i) == SubSeq(disk, (i - 1) * Width + 1, i * Width)

\* A reader that was opened returns, at every index, the record of the push
\* that returned Ok at that place, however the buffer was cut into writes and
\* whichever pushes failed in between; it has no other records.
RecordsFaithful ==
  phase = "reader" =>
    /\ count = Len(accepted) /\ Len(disk) = Width * count
    /\ \A i \in 1..count : RecordBytes(i) = Bytes(accepted[i])

\* The bounds and the statistics, which go into the header of the file
\* without a second look at the points, are those of the records in the
\* spill and of no others.
SummaryFaithful ==
  LET recs == Range(accepted) IN
  phase = "reader" /\ count > 0 =>
    /\ bounds = [min |-> Min({r.x : r \in recs}), max |-> Max({r.x : r \in recs})]
    /\ stats.gps = {Min({r.gps_time : r \in recs}), Max({r.gps_time : r \in recs})}
    /\ \A n \in 1..15 :
         stats.returns[n] = Cardinality({i \in DOMAIN accepted : accepted[i].return_number = n})
=============================================================================
