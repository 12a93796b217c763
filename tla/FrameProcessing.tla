--------------------------- MODULE FrameProcessing ---------------------------
(***************************************************************************)
(* What the gateway computes for a packet: process_inner of http.rs, with  *)
(* resolve_frame_time (time.rs), the lookup in the side channel (RfStore), *)
(* the throttled TrackingProvider (propagator.rs) and                      *)
(* apply_physics_validation (validate.rs).                                 *)
(*                                                                         *)
(* The gateway's pipeline is one worker.  process_frame is public and the  *)
(* provider is shared, so that an embedder may have several: each access   *)
(* to the store or to the provider's cache is a step.                      *)
(*                                                                         *)
(* The orbit: the tracking state at time t is t itself (see RfStore for    *)
(* the units).  Telemetry is made when it is received; a value reported    *)
(* with error e reads received + e.                                        *)
(***************************************************************************)
EXTENDS RfStore, FiniteSets, SequencesExt

CONSTANTS
    Workers,
    TrackingOn,    \* a TLE or an OEM was loaded
    Coverage,      \* instants the propagator can compute
    BelowHorizon,  \* instants with the craft below the minimum elevation
    MinInterval,   \* tracking.min_interval_ms
    TimeOn,        \* time.format is set
    MaxSkew,       \* time.max_skew_s; 0 trusts every time code
    NoTag, BadTag, \* packet without secondary header; with an undecodable time code
    HilChecks,     \* eps, thermal, rate
    RfTol, HilTol, \* the tolerance of each check; see Enabled
    FrameInputs,   \* packets: [valid, tag, hil, rf]
    MaxTime, MaxFrames, MaxSamples  \* bounds

ASSUME ProcessingAssumption ==
    /\ IsFiniteSet(Workers)
    /\ TrackingOn \in BOOLEAN /\ TimeOn \in BOOLEAN
    /\ Coverage \subseteq Int /\ BelowHorizon \subseteq Int
    /\ MinInterval \in Nat /\ MaxSkew \in Nat
    /\ HilChecks \subseteq {"eps", "thermal", "rate"}
    /\ RfTol \in [RfChecks -> Int] /\ HilTol \in [HilChecks -> Int]
    /\ FrameInputs \subseteq [valid : BOOLEAN, tag : Int \cup {NoTag, BadTag},
                              hil : [HilChecks -> Int] \cup {None},
                              rf : [RfChecks -> Int \cup {None}] \cup {None}]
    /\ MaxTime \in Nat /\ MaxFrames \in Nat /\ MaxSamples \in Nat

VARIABLES
    now,       \* when the last packet or sample arrived
    received,  \* packets received so far
    queue,     \* packets waiting for a worker: [frame, at]
    cache,     \* TrackingProvider.last: None or [at, state]
    pc, job,   \* what each worker does, with what it knows of its packet
    metrics,   \* GatewayMetrics
    emitted    \* the messages, with what they were computed from

vars == <<rfVars, now, received, queue, cache, pc, job, metrics, emitted>>

Init ==
    /\ RfInit
    /\ now = 0 /\ received = 0 /\ queue = <<>> /\ cache = None
    /\ pc = [w \in Workers |-> "idle"] /\ job = [w \in Workers |-> None]
    /\ metrics = [parse_errors |-> 0, tracking_errors |-> 0, anomalies |-> 0]
    /\ emitted = <<>>

-----------------------------------------------------------------------------
(* Around the workers. *)

\* Time passes between arrivals.
Passes == \E t \in now..MaxTime : now' = t

Receive ==
    /\ received < MaxFrames
    /\ received' = received + 1
    /\ Passes
    /\ \E f \in FrameInputs : queue' = Append(queue, [frame |-> f, at |-> now'])
    /\ UNCHANGED <<rfVars, cache, pc, job, metrics, emitted>>

\* Bound: samples that nobody will look for any more are left out.
SampleArrives ==
    /\ RfOn /\ rf.received < MaxSamples
    /\ received < MaxFrames \/ queue # <<>>
    /\ Passes
    /\ \E s \in RfSamples : Insert(Stamped(s, now'))
    /\ UNCHANGED <<received, queue, cache, pc, job, metrics, emitted>>

-----------------------------------------------------------------------------
(* Spacecraft time. *)

HasTime(f) == TimeOn /\ f.tag \notin {NoTag, BadTag}

Untrusted(f) == HasTime(f) /\ MaxSkew > 0 /\ Distance(f.tag, 0) > MaxSkew

PhysicsTime(f, at) == IF HasTime(f) /\ ~Untrusted(f) THEN at + f.tag ELSE at

\* physics_flags_v2
TimeFlags(f) ==
    {x \in {"time_tag_skew"} : Untrusted(f)}
        \cup {x \in {"time_code_invalid"} : TimeOn /\ f.tag = BadTag}

\* Mutant: the field's length is noted only when its time is used.
UserDataFoundTrusted(f) == f.tag = NoTag \/ (HasTime(f) /\ ~Untrusted(f))

\* user_data starts behind the time field only if that was decoded.
UserDataFound(f) == f.tag = NoTag \/ HasTime(f)

-----------------------------------------------------------------------------
(* Validation. *)

\* Link budget, pointing and the subsystem checks are off without a tolerance.
RfEnabled(c) == c = "doppler" \/ RfTol[c] > 0

RfAlarm(c, sample, state) ==
    /\ sample # None /\ sample.err[c] # None /\ RfEnabled(c)
    /\ Distance(sample.at + sample.err[c], state) > RfTol[c]

HilAlarm(c, f, at, state) ==
    /\ f.hil # None /\ UserDataFound(f) /\ HilTol[c] > 0
    /\ IF c = "rate" THEN Distance(f.hil[c], 0) > HilTol[c]
       ELSE Distance(at + f.hil[c], state) > HilTol[c]

\* physics_flags
Flags(f, at, sample, state) ==
    IF state = None THEN {}
    ELSE {x \in {"below_horizon"} : state \in BelowHorizon}
         \cup {c \in RfChecks : RfAlarm(c, sample, state)}
         \cup {c \in HilChecks : HilAlarm(c, f, at, state)}

-----------------------------------------------------------------------------
(* process_inner *)

Step(w, place, j) ==
    /\ pc' = [pc EXCEPT ![w] = place]
    /\ job' = [job EXCEPT ![w] = j]

\* A packet that does not parse is counted and gone.
ParseError(w) ==
    /\ pc[w] = "idle" /\ queue # <<>> /\ ~Head(queue).frame.valid
    /\ queue' = Tail(queue)
    /\ metrics' = [metrics EXCEPT !.parse_errors = @ + 1]
    /\ UNCHANGED <<rfVars, now, received, cache, pc, job, emitted>>

\* Measurements handed in with the packet bypass the store.
Sample(p) ==
    IF p.frame.rf # None THEN [t |-> p.at, at |-> p.at, err |-> p.frame.rf]
    ELSE Found(p.at)

Start(w) ==
    /\ pc[w] = "idle" /\ queue # <<>> /\ Head(queue).frame.valid
    /\ queue' = Tail(queue)
    /\ LET p == Head(queue) IN
       /\ IF p.frame.rf # None THEN UNCHANGED rfVars ELSE Lookup(p.at)
       /\ Step(w, "track",
               [frame |-> p.frame, at |-> p.at, time |-> PhysicsTime(p.frame, p.at),
                sample |-> Sample(p), seen |-> Len(arrived)])
    /\ UNCHANGED <<now, received, cache, metrics, emitted>>

\* The message made of a worker's packet and the state it got, or None.
Message(j, state) ==
    [frame |-> j.frame, at |-> j.at, time |-> j.time, sample |-> j.sample,
     seen |-> j.seen, state |-> state,
     flags |-> Flags(j.frame, j.at, j.sample, state), flags_v2 |-> TimeFlags(j.frame)]

\* Mutant: a failure is counted only while no state was ever computed.
EmitUncounted(w, state) ==
    LET m == Message(job[w], state) IN
    /\ emitted' = Append(emitted, m)
    /\ metrics' = [metrics EXCEPT
            !.tracking_errors = IF state = None /\ cache = None THEN @ + 1 ELSE @,
            !.anomalies = IF m.flags # {} \/ m.flags_v2 # {} THEN @ + 1 ELSE @]
    /\ Step(w, "idle", None)

\* All that follows is the worker's own, but for the counters.
Emit(w, state) ==
    LET m == Message(job[w], state) IN
    /\ emitted' = Append(emitted, m)
    /\ metrics' = [metrics EXCEPT
            !.tracking_errors = IF state = None /\ TrackingOn THEN @ + 1 ELSE @,
            !.anomalies = IF m.flags # {} \/ m.flags_v2 # {} THEN @ + 1 ELSE @]
    /\ Step(w, "idle", None)

\* Mutant: the cache answers an interval away as well.
CachedLong(t) == cache # None /\ Distance(t, cache.at) <= MinInterval

\* The throttle.
Cached(t) == cache # None /\ Distance(t, cache.at) < MinInterval

CacheHit(w) ==
    /\ pc[w] = "track" /\ TrackingOn /\ Cached(job[w].time)
    /\ Emit(w, cache.state)
    /\ UNCHANGED <<rfVars, now, received, queue, cache>>

\* Computed outside the lock; what others store meanwhile is not looked at.
Compute(w) ==
    /\ pc[w] = "track" /\ TrackingOn /\ ~Cached(job[w].time)
    /\ job[w].time \in Coverage
    /\ Step(w, "store", job[w])
    /\ UNCHANGED <<rfVars, now, received, queue, cache, metrics, emitted>>

StoreState(w) ==
    /\ pc[w] = "store"
    /\ cache' = [at |-> job[w].time, state |-> job[w].time]
    /\ Emit(w, job[w].time)
    /\ UNCHANGED <<rfVars, now, received, queue>>

\* No tracking, or a propagator that fails: the frame goes out without physics.
NoPhysics(w) ==
    /\ pc[w] = "track"
    /\ ~TrackingOn \/ (~Cached(job[w].time) /\ job[w].time \notin Coverage)
    /\ Emit(w, None)
    /\ UNCHANGED <<rfVars, now, received, queue, cache>>

Next ==
    \/ Receive \/ SampleArrives
    \/ \E w \in Workers :
        ParseError(w) \/ Start(w) \/ CacheHit(w) \/ Compute(w)
            \/ StoreState(w) \/ NoPhysics(w)

Spec == Init /\ [][Next]_vars

-----------------------------------------------------------------------------
(* Properties. *)

Jobs == [frame : FrameInputs, at : 0..MaxTime, time : Int,
         sample : Entry \cup {None}, seen : Nat]

\* The deque stays within its capacity and every packet is worked on by one
\* worker, with complete knowledge of it.
TypeOK ==
    /\ entries \in Seq(Entry) /\ Len(entries) <= Room
    /\ rf \in [{"received", "evicted", "matched", "unmatched"} -> Nat]
    /\ now \in 0..MaxTime /\ received \in 0..MaxFrames
    /\ queue \in Seq([frame : FrameInputs, at : 0..MaxTime])
    /\ cache \in [at : Int, state : Int] \cup {None}
    /\ \A w \in Workers :
        \/ pc[w] = "idle" /\ job[w] = None
        \/ pc[w] \in {"track", "store"} /\ job[w] \in Jobs
    /\ metrics \in [{"parse_errors", "tracking_errors", "anomalies"} -> Nat]

Messages == ToSet(emitted)

\* The position published in a message is that of the craft at the message's
\* physics_time, up to the throttle: a state that is handed on from frame to
\* frame never drifts further, whatever callers replace in the cache.
StateFitsTime ==
    \A m \in Messages : m.state # None =>
        Distance(m.state, m.time) < IF MinInterval = 0 THEN 1 ELSE MinInterval

\* The store was asked for it; it went out without physics although there is tracking.
Asked(j) == RfOn /\ j.frame.rf = None
Bare(m) == TrackingOn /\ m.state = None

\* The samples still in the deque when n had been stored.
Recent(n) == {arrived[i] : i \in (n - Room + 1)..n \cap DOMAIN arrived}

\* A frame gets the measurement nearest its reception among the last
\* rf.capacity samples to arrive, in whatever order they were stamped and
\* however long after the reception it is processed; none is used that is more
\* than the window away.
NearestSampleUsed ==
    \A m \in Messages : Asked(m) =>
        IF m.sample = None
        THEN \A e \in Recent(m.seen) : Distance(e.t, m.at) > Window
        ELSE /\ m.sample \in Recent(m.seen)
             /\ Distance(m.sample.t, m.at) <= Window
             /\ \A e \in Recent(m.seen) :
                    Distance(m.sample.t, m.at) <= Distance(e.t, m.at)

\* How far the craft moves between the instant of a frame's reception and the
\* instant its physics is computed at.
PhysicsSlack ==
    (IF TimeOn THEN MaxSkew ELSE 0) + (IF MinInterval = 0 THEN 0 ELSE MinInterval - 1)
RfSlack == RfDelay + Window + PhysicsSlack

SkewIsBounded == MaxSkew > 0 \/ ~TimeOn

\* The receiver checks tell a good measurement from a bad one: with a tolerance
\* larger than what the delay of the sample, the window, the clock skew and the
\* throttle can add up to, a correct measurement raises no alarm, and one that is
\* wrong by more than the tolerance and all of these together always does.  A
\* check without measurement raises none.
RfChecksExact ==
    \A m \in Messages, c \in RfChecks :
        IF m.sample = None \/ m.state = None THEN c \notin m.flags
        ELSE IF m.sample.err[c] = None THEN c \notin m.flags
        ELSE LET e == Distance(m.sample.err[c], 0) IN
             SkewIsBounded /\ RfEnabled(c) =>
                /\ e <= RfTol[c] - RfSlack => c \notin m.flags
                /\ e > RfTol[c] + RfSlack => c \in m.flags

\* The subsystem checks likewise, and when one cannot be made because the time
\* code in front of the data is unreadable, the message says so.
HilChecksExact ==
    \A m \in Messages, c \in HilChecks :
        m.frame.hil # None /\ m.state # None /\ HilTol[c] > 0 /\ TimeOn /\ SkewIsBounded =>
            LET e == Distance(m.frame.hil[c], 0)
                slack == IF c = "rate" THEN 0 ELSE PhysicsSlack IN
            /\ e <= HilTol[c] - slack => c \notin m.flags
            /\ e > HilTol[c] + slack => c \in m.flags \/ "time_code_invalid" \in m.flags_v2

Busy == {w \in Workers : pc[w] # "idle"}

\* Every packet received is waiting, being worked on, counted as a parse error or
\* emitted; every packet that asked the store is counted there as matched or not;
\* and the frames without physics are those tracking_errors counts, so that with
\* tracking configured none is emitted silently without it.
Accounted ==
    /\ received = Len(queue) + metrics.parse_errors + Cardinality(Busy) + Len(emitted)
    /\ rf.matched + rf.unmatched =
        Cardinality({w \in Busy : Asked(job[w])})
            + Cardinality({i \in DOMAIN emitted : Asked(emitted[i])})
    /\ metrics.tracking_errors = Cardinality({i \in DOMAIN emitted : Bare(emitted[i])})
    /\ rf.received = Len(entries) + rf.evicted
==============================================================================
