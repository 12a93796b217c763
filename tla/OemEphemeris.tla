----------------------------- MODULE OemEphemeris -----------------------------
(***************************************************************************)
(* The OEM reader and its interpolation window, crates/gateway/src/oem.rs. *)
(* Constant-level operators: a file is a sequence of lines, an epoch a     *)
(* number of seconds in the time system of its segment.                    *)
(*                                                                         *)
(* A line is META_START, META_STOP, COVARIANCE_START, COVARIANCE_STOP, a   *)
(* keyword with its value, data at an epoch, or junk, which is none of     *)
(* these or data that does not parse.  Blank lines and comments, which the *)
(* reader filters out, are left out.                                       *)
(***************************************************************************)
EXTENDS Integers, Sequences, SequencesExt, FiniteSetsExt

CONSTANTS Absent, OutOfCoverage

Key(k, v) == [kind |-> "key", key |-> k, value |-> v]
Data(t) == [kind |-> "data", epoch |-> t]
Mark(kind) == [kind |-> kind]

-----------------------------------------------------------------------------
(* Metadata. *)

\* parse_epoch: seconds by which each time system is ahead of UTC.
Ahead == [UTC |-> 0, TAI |-> 37, TT |-> 69, GPS |-> 18]

\* The first line with a keyword counts.
Places(meta, k) == {n \in DOMAIN meta : meta[n].key = k}
Has(meta, k) == Places(meta, k) # {}
Value(meta, k) == meta[Min(Places(meta, k))].value

Frames == {"GCRF", "ICRF", "EME2000", "J2000", "TEME", "ITRF"}

TimeKeys == {"START_TIME", "STOP_TIME", "USEABLE_START_TIME", "USEABLE_STOP_TIME"}

\* SegmentBuilder::from_meta, in the order it looks.
MetaError(meta) ==
    IF ~Has(meta, "CENTER_NAME") THEN "missing"
    ELSE IF Value(meta, "CENTER_NAME") # "EARTH" THEN "unsupported"
    ELSE IF ~Has(meta, "REF_FRAME") THEN "missing"
    ELSE IF Value(meta, "REF_FRAME") \notin Frames THEN "unsupported"
    ELSE IF ~Has(meta, "TIME_SYSTEM") THEN "missing"
    ELSE IF Value(meta, "TIME_SYSTEM") \notin DOMAIN Ahead THEN "unsupported"
    ELSE IF ~Has(meta, "START_TIME") \/ ~Has(meta, "STOP_TIME") THEN "missing"
    ELSE IF \E k \in TimeKeys : Has(meta, k) /\ Value(meta, k) \notin Int THEN "bad segment"
    ELSE IF Has(meta, "INTERPOLATION_DEGREE") /\ Value(meta, "INTERPOLATION_DEGREE") \notin 1 .. 15
    THEN "bad segment"
    ELSE "none"

Degree(meta) ==
    IF Has(meta, "INTERPOLATION_DEGREE") THEN Value(meta, "INTERPOLATION_DEGREE")
    ELSE IF Has(meta, "INTERPOLATION") /\ Value(meta, "INTERPOLATION") = "LINEAR" THEN 1
    ELSE 7

\* The useable time if it is given, else the segment's.
Limit(meta, useable, plain) ==
    (IF Has(meta, useable) THEN Value(meta, useable) ELSE Value(meta, plain))
        - Ahead[Value(meta, "TIME_SYSTEM")]

Builder(meta) ==
    [degree |-> Degree(meta), ahead |-> Ahead[Value(meta, "TIME_SYSTEM")],
     start |-> Limit(meta, "USEABLE_START_TIME", "START_TIME"),
     stop |-> Limit(meta, "USEABLE_STOP_TIME", "STOP_TIME"),
     epochs |-> <<>>]

-----------------------------------------------------------------------------
(* SegmentBuilder::finish *)

Later(a, b) == IF a > b THEN a ELSE b
Earlier(a, b) == IF a < b THEN a ELSE b

\* Mutant: the window is not clipped to the states.
UnclippedSegment(b) == b

\* The usable window ends with the states.
Segment(b) == [b EXCEPT !.start = Later(@, Head(b.epochs)), !.stop = Earlier(@, Last(b.epochs))]

Finishable(b) == Len(b.epochs) >= 2 /\ Segment(b).start < Segment(b).stop

-----------------------------------------------------------------------------
(* OemEphemeris::parse *)

Reader == [segments |-> <<>>, meta |-> Absent, current |-> Absent, skipping |-> FALSE, error |-> "none"]

Fail(r, e) == [r EXCEPT !.error = e]

Finish(r) ==
    IF r.current = Absent THEN r
    ELSE IF ~Finishable(r.current) THEN Fail(r, "bad segment")
    ELSE [r EXCEPT !.segments = Append(@, Segment(r.current)), !.current = Absent]

MetaStop(r) ==
    IF r.meta = Absent THEN Fail(r, "syntax")
    ELSE IF MetaError(r.meta) # "none" THEN Fail(r, MetaError(r.meta))
    ELSE [r EXCEPT !.current = Builder(r.meta), !.meta = Absent]

\* push_data: epochs increase.
PushData(r, line) ==
    LET t == line.epoch - r.current.ahead IN
    IF r.current.epochs # <<>> /\ t <= Last(r.current.epochs) THEN Fail(r, "syntax")
    ELSE [r EXCEPT !.current.epochs = Append(@, t)]

\* In metadata everything is a keyword, after it everything is data, and before
\* it keywords inform.
Other(r, line) ==
    IF r.meta # Absent
    THEN IF line.kind = "key" THEN [r EXCEPT !.meta = Append(@, line)] ELSE Fail(r, "syntax")
    ELSE IF r.current # Absent
    THEN IF line.kind = "data" THEN PushData(r, line) ELSE Fail(r, "syntax")
    ELSE IF line.kind = "key" THEN r ELSE Fail(r, "syntax")

Read(r, line) ==
    IF r.error # "none" THEN r
    ELSE IF r.skipping THEN [r EXCEPT !.skipping = line.kind # "cov_stop"]
    ELSE CASE line.kind = "start" ->
                 LET f == Finish(r) IN IF f.error = "none" THEN [f EXCEPT !.meta = <<>>] ELSE f
           [] line.kind = "stop" -> MetaStop(r)
           [] line.kind = "cov_start" -> [r EXCEPT !.skipping = TRUE]
           [] OTHER -> Other(r, line)

AtEnd(r) ==
    LET f == IF r.meta # Absent THEN Fail(r, "syntax") ELSE Finish(r) IN
    IF r.error # "none" THEN r
    ELSE IF f.error = "none" /\ f.segments = <<>> THEN Fail(f, "empty") ELSE f

IsVersion(line) == line.kind = "key" /\ line.key = "CCSDS_OEM_VERS"

\* The reader after each line; the first one is the version.
Readings(file) ==
    LET reading[n \in DOMAIN file] ==
            IF n = 1 THEN Reader ELSE Read(reading[n - 1], file[n])
    IN  reading

Parse(file) ==
    IF file = <<>> \/ ~IsVersion(Head(file)) THEN Fail(Reader, "not oem")
    ELSE AtEnd(Readings(file)[Len(file)])

\* CG-320 or CG-321
OemCode(e) == IF e = "unsupported" THEN "CG-321" ELSE "CG-320"

-----------------------------------------------------------------------------
(* Looking up a time. *)

Coverage(segments) ==
    [start |-> Min({segments[i].start : i \in DOMAIN segments}),
     stop |-> Max({segments[i].stop : i \in DOMAIN segments})]

Covering(segments, t) ==
    {i \in DOMAIN segments : segments[i].start <= t /\ t <= segments[i].stop}

\* interpolate: as many of the segment's epochs as its degree asks for, the
\* window centred on the time and moved in at the ends.
Window(s, t) ==
    LET n == Len(s.epochs)
        k == Earlier(s.degree + 1, n)
        after == Cardinality({i \in 1 .. n : s.epochs[i] <= t})
        first == Earlier(Later(after - k \div 2, 0), n - k)
    IN SubSeq(s.epochs, first + 1, first + k)

\* state_itrf: the epochs of the states that give the answer, from the last of
\* the segments that cover the time.
Lookup(segments, t) ==
    IF Covering(segments, t) = {} THEN OutOfCoverage
    ELSE Window(segments[Max(Covering(segments, t))], t)
=============================================================================
