----------------------------- MODULE Conversion -----------------------------
(***************************************************************************)
(* One call of write_streaming_with_cancel or convert_las_to_copc_streaming*)
(* (entry "stream": the points go through a spill, in Spill) or of         *)
(* write_source_with_cancel (entry "source": points in memory, with bounds *)
(* the caller declares), up to the file at the destination.  The two check *)
(* different things at different times: the spill looks at each record as  *)
(* it comes and takes its bounds and statistics then, the other makes a    *)
(* pass of its own; whether a coordinate can be encoded is found out by    *)
(* the first only while the file is written.  Or (entry "spill") a caller  *)
(* of its own uses a SpillWriter, which is public, and goes on pushing     *)
(* after a push that failed.                                               *)
(*                                                                         *)
(* What build_lod_index and the output file do in between is in LodIndex   *)
(* and AtomicOutput: here the points keep the order of the source.  A      *)
(* coordinate is a whole number of units finer than the storage grid,      *)
(* whose step is Scale: what a file holds of it is the nearest step.       *)
(***************************************************************************)
EXTENDS Spill

CONSTANTS
  Sources,      \* sequences of records and ReadErrors a caller may hand over
  Declared,     \* the bounds a caller of write_source may declare
  Offsets,      \* metadata.offset: <<>> for none, or <<an integer>>
  Scale,        \* metadata.scale: the step of the grid of stored coordinates
  MaxQuantized, \* the greatest number of steps that can be encoded (an i32)
  Stride        \* CANCEL_POLL_STRIDE

ReadError == [kind |-> "error"]

ASSUME ConversionAssumption ==
  /\ \A s \in Sources : Len(s) <= MaxPushes /\ s \in Seq(Records \cup {ReadError})
  /\ \A b \in Declared : b \in [min : Int, max : Int] /\ b.min <= b.max
  /\ \A o \in Offsets : o = <<>> \/ (Len(o) = 1 /\ o[1] \in Int)
  /\ Scale \in Nat \ {0} /\ MaxQuantized \in Nat /\ Stride \in Nat \ {0}

VARIABLES
  entry,     \* "stream", "source" or "spill"
  has_gps,   \* layout.has_gps
  source,    \* what the caller hands over
  declared, offset,
  taken,     \* how much of the source the loop over the points is done with
  stage,     \* "intake", "validate", "encode", "publish", "done"
  header,    \* the bounds and statistics for the header of the new file
  written,   \* the file at the destination, or None
  outcome    \* "running", "ok", "err"

given == <<entry, has_gps, source, declared, offset>>
callVars == <<given, taken, stage, header, written, outcome>>
allVars == <<vars, callVars>>

CallInit ==
  /\ Init
  /\ entry \in {"stream", "source", "spill"}
  /\ has_gps \in BOOLEAN /\ (entry = "source" => has_gps)
  /\ source \in Sources /\ declared \in Declared /\ offset \in Offsets
  /\ taken = 0 /\ stage = "intake"
  /\ header = None /\ written = None /\ outcome = "running"

-----------------------------------------------------------------------------
End(result) == stage' = "done" /\ outcome' = result
Fail == End("err") /\ UNCHANGED <<given, taken, header, written>>

\* serialize_le: the layout leaves the time of a point out, and it is read back as 0.
Stored(r) == IF has_gps THEN r ELSE [r EXCEPT !.gps_time = 0]

\* SpillSource
RecordAt(i) == CHOOSE r \in Records : Bytes(r) = RecordBytes(i)
Points ==
  IF entry = "stream" THEN [i \in 1..count |-> Stored(RecordAt(i))] ELSE source

\* metadata.offset, or the least coordinate of the bounds if none is set.
Origin(b) == IF offset = <<>> THEN b.min ELSE offset[1]

\* Mutant (Steps): cut off, not rounded.
Steps_CutOff(d) == IF d >= 0 THEN d \div Scale ELSE -((-d) \div Scale)

\* f64::round of d / Scale: the nearest whole number, halves away from zero.
Steps(d) ==
  IF d >= 0 THEN (2 * d + Scale) \div (2 * Scale) ELSE -((Scale - 2 * d) \div (2 * Scale))

\* quantize_axis: does it return a number, and which.
Quantized(x, b) == Steps(x - Origin(b))
Quantizes(x, b) == Quantized(x, b) \in -MaxQuantized - 1..MaxQuantized

\* encode_point_record, as a reader of the file gets the point back.
Encoded(p, b) == [p EXCEPT !.x = Origin(b) + Scale * Quantized(@, b)]

InBounds(x, b) == b.min <= x /\ x <= b.max

\* The checks of validate_source_points on one point.
Validated(p) ==
  p # ReadError /\ Valid(p) /\ InBounds(p.x, declared) /\ Quantizes(p.x, declared)

-----------------------------------------------------------------------------
\* cancel.check, or an I/O error on the way.
AtPoll ==
  \/ stage \in {"intake", "validate"} /\ phase = "push" /\ pending = None
     /\ (taken % Stride = 0 \/ taken = Len(source))
  \/ stage = "intake" /\ phase = "reader"
  \/ stage \in {"encode", "publish"}

Cancelled == entry # "spill" /\ AtPoll /\ Fail /\ UNCHANGED vars

InIntake == entry # "source" /\ stage = "intake"
InLoop == InIntake /\ pending = None /\ taken < Len(source)

\* The loops of the library give up, a caller of its own goes on.
NextPoint == taken' = taken + 1 /\ UNCHANGED <<given, stage, header, written, outcome>>

SourceFails ==
  /\ InLoop /\ source[taken + 1] = ReadError
  /\ IF entry = "spill" THEN NextPoint ELSE Fail
  /\ UNCHANGED vars

\* Mutant (PointRefused): the loop goes on with the next point.
PointRefused_Skipped ==
  InLoop /\ source[taken + 1] # ReadError /\ Refuse(source[taken + 1]) /\ NextPoint

PointRefused ==
  /\ InLoop /\ source[taken + 1] # ReadError
  /\ Refuse(source[taken + 1])
  /\ IF entry = "spill" THEN NextPoint ELSE Fail

PointTaken ==
  /\ InLoop /\ source[taken + 1] # ReadError
  /\ Push(source[taken + 1])
  /\ NextPoint

\* Inside a call of push or of finalize.
SpillGoesOn ==
  /\ stage = "intake" /\ (WriteOut \/ MadeRoom \/ FinalStep)
  /\ UNCHANGED callVars

PushError ==
  stage = "intake" /\ PushFails /\ IF entry = "spill" THEN UNCHANGED callVars ELSE Fail

FinalizeError == stage = "intake" /\ FinalFails /\ Fail

SpillFinalized ==
  /\ InIntake /\ taken = Len(source)
  /\ Finalize
  /\ UNCHANGED callVars

\* write_copc_from_spill, to write_copc_inner with the statistics of the intake.
FromSpill ==
  /\ entry = "stream" /\ stage = "intake" /\ phase = "reader"
  /\ IF count = 0
     THEN Fail
     ELSE /\ header' = [bounds |-> bounds, stats |-> stats, count |-> count]
          /\ stage' = "encode"
          /\ UNCHANGED <<given, taken, written, outcome>>
  /\ UNCHANGED vars

\* write_source_with_cancel
FromMemory ==
  /\ entry = "source" /\ stage = "intake"
  /\ IF source = <<>>
     THEN Fail
     ELSE /\ header' = [bounds |-> declared, stats |-> NoStats, count |-> Len(source)]
          /\ stage' = "validate"
          /\ UNCHANGED <<given, taken, written, outcome>>
  /\ UNCHANGED vars

\* validate_source_points, one point.
Validate ==
  /\ stage = "validate" /\ taken < Len(source)
  /\ IF Validated(source[taken + 1])
     THEN /\ header' = [header EXCEPT !.stats = Recorded(@, source[taken + 1])]
          /\ taken' = taken + 1
          /\ UNCHANGED <<given, stage, written, outcome>>
     ELSE Fail
  /\ UNCHANGED vars

EndValidate ==
  /\ stage = "validate" /\ taken = Len(source)
  /\ stage' = "encode"
  /\ UNCHANGED <<vars, given, taken, header, written, outcome>>

\* compress_nodes: encode_point_record refuses what it cannot encode.
Encode ==
  /\ stage = "encode"
  /\ IF \A i \in DOMAIN Points : Quantizes(Points[i].x, header.bounds)
     THEN stage' = "publish" /\ UNCHANGED <<given, taken, header, written, outcome>>
     ELSE Fail
  /\ UNCHANGED vars

\* PendingOutput::commit: the file is renamed, then its directory synced or not.
Publish ==
  /\ stage = "publish"
  /\ written' = [points |-> [i \in DOMAIN Points |-> Encoded(Points[i], header.bounds)],
                 header |-> header]
  /\ \E result \in {"ok", "err"} : End(result)
  /\ UNCHANGED <<vars, given, taken, header>>

CallNext ==
  \/ Cancelled \/ SourceFails \/ PointRefused \/ PointTaken
  \/ SpillGoesOn \/ PushError \/ FinalizeError \/ SpillFinalized
  \/ FromSpill \/ FromMemory \/ Validate \/ EndValidate \/ Encode \/ Publish

CallSpec == CallInit /\ [][CallNext]_allVars

-----------------------------------------------------------------------------
\* x is above y by half a step of the grid at most.
HalfStepAbove(x, y) == 2 * (x - y) <= Scale

\* The header of a published file gives the number of its points, their return
\* counts and, if the layout has times, their range.  Its bounds are those of
\* the coordinates before they were rounded: a stored point can lie outside
\* them, by half a step at most.  (Without times in the layout the range is that
\* of the records pushed, and the points in the file have time 0.)
HeaderTrue ==
  written # None =>
    LET h == written.header
        points == written.points
        recs == Range(points)
    IN  /\ h.count = Len(points)
        /\ \A r \in recs : HalfStepAbove(h.bounds.min, r.x) /\ HalfStepAbove(r.x, h.bounds.max)
        /\ has_gps => h.stats.gps = {Min({r.gps_time : r \in recs}), Max({r.gps_time : r \in recs})}
        /\ \A n \in 1..15 :
             h.stats.returns[n] = Cardinality({i \in DOMAIN points : points[i].return_number = n})

\* The point p of a source is there in the file: at a place of the grid that an
\* i32 can name, no farther than half a step away, and with its other fields
\* as the layout keeps them.
Kept(p, stored, b) ==
  /\ [stored EXCEPT !.x = p.x] = Stored(p)
  /\ \E n \in -MaxQuantized - 1..MaxQuantized : stored.x = Origin(b) + n * Scale
  /\ HalfStepAbove(p.x, stored.x) /\ HalfStepAbove(stored.x, p.x)

\* By either way in: a file at the destination holds every point of the
\* source, each of them valid and at the nearest place that can be encoded, in
\* a file whose header is true; a source that fails, is cut short, is empty or
\* has one bad point leaves no file; and Ok is never returned without one.
ConversionWhole ==
  /\ written # None =>
       /\ source # <<>> /\ Len(written.points) = Len(source)
       /\ \A i \in DOMAIN source :
            /\ source[i] # ReadError /\ Valid(source[i])
            /\ Kept(source[i], written.points[i], written.header.bounds)
       /\ HeaderTrue
  /\ outcome = "ok" => written # None
=============================================================================
