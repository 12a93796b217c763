----------------------- MODULE FrameProcessingProofs -----------------------
(* For every constant: the checks of a frame are exact up to the slack, the  *)
(* nearest sample is used, and every frame is accounted for.  The last part  *)
(* is about the programs that feed the same store, Simulator.                *)
EXTENDS FrameProcessing, Simulator, FiniteSetTheorems, WellFoundedInduction, TLAPS

(***************************************************************************)
(* The inductive invariant: how far apart the instants that meet in one    *)
(* message can be, for what is stored, in hand and emitted.                *)
(***************************************************************************)

\* A stored sample and how long it took to arrive.
Delayed(e) ==
    /\ e.t \in Int /\ e.at \in Int /\ e.err \in [RfChecks -> Int \cup {None}]
    /\ e.at <= e.t /\ e.t - e.at <= RfDelay

\* A packet in hand, or in a message, with the sample found for it.
Sound(j) ==
    /\ j.frame \in FrameInputs /\ j.at \in Int
    /\ j.time = PhysicsTime(j.frame, j.at)
    /\ j.sample = None \/ (Delayed(j.sample) /\ InWindow(j.sample, j.at))

Throttle == IF MinInterval = 0 THEN 1 ELSE MinInterval

Computed(m) ==
    /\ Sound(m)
    /\ m.state = None \/ (m.state \in Int /\ Distance(m.state, m.time) < Throttle)
    /\ m.flags = Flags(m.frame, m.at, m.sample, m.state)
    /\ m.flags_v2 = TimeFlags(m.frame)

StoreOK == entries \in Seq(Entry) /\ \A i \in DOMAIN entries : Delayed(entries[i])
QueueOK == now \in Int /\ queue \in Seq([frame : FrameInputs, at : Int])
CacheOK == cache = None \/ (cache.at \in Int /\ cache.state = cache.at)
JobsOK ==
    /\ DOMAIN pc = Workers /\ DOMAIN job = Workers
    /\ \A w \in Workers : pc[w] # "idle" => Sound(job[w])
EmittedOK == (\E S : emitted \in Seq(S)) /\ \A m \in Messages : Computed(m)

PInv == StoreOK /\ QueueOK /\ CacheOK /\ JobsOK /\ EmittedOK

-----------------------------------------------------------------------------
(* Facts about the operators. *)

LEMMA PhysicsTimeType ==
    ASSUME NEW f \in FrameInputs, NEW at \in Int
    PROVE  PhysicsTime(f, at) \in Int
BY ProcessingAssumption DEF PhysicsTime, HasTime

\* A clock that is trusted is at most MaxSkew off.
LEMMA SkewBound ==
    ASSUME NEW f \in FrameInputs, NEW at \in Int, SkewIsBounded
    PROVE  Distance(PhysicsTime(f, at), at) <= IF TimeOn THEN MaxSkew ELSE 0
<1>1. CASE HasTime(f) /\ ~Untrusted(f)
  <2>1. f.tag \in Int /\ TimeOn /\ MaxSkew \in Nat
    BY <1>1, ProcessingAssumption DEF HasTime
  <2>2. Distance(f.tag, 0) <= MaxSkew
    BY <1>1, <2>1 DEF Untrusted, SkewIsBounded, Distance
  <2>3. QED BY <1>1, <2>1, <2>2 DEF PhysicsTime, Distance
<1>2. CASE ~(HasTime(f) /\ ~Untrusted(f))
  BY <1>2, ProcessingAssumption DEF PhysicsTime, Distance
<1>3. QED BY <1>1, <1>2

\* What a message's physics is computed at is within the slack of its reception.
LEMMA PhysicsNearReception ==
    ASSUME NEW m, Computed(m), m.state # None, SkewIsBounded
    PROVE  /\ m.state \in Int /\ m.at \in Int /\ PhysicsSlack \in Nat
           /\ Distance(m.state, m.at) <= PhysicsSlack
<1>1. /\ m.frame \in FrameInputs /\ m.at \in Int
      /\ m.time = PhysicsTime(m.frame, m.at)
      /\ m.state \in Int /\ Distance(m.state, m.time) < Throttle
  BY DEF Computed, Sound
<1>2. m.time \in Int
  BY <1>1, PhysicsTimeType
<1>3. Distance(m.time, m.at) <= IF TimeOn THEN MaxSkew ELSE 0
  BY <1>1, SkewBound
<1>4. MaxSkew \in Nat /\ MinInterval \in Nat /\ TimeOn \in BOOLEAN
  BY ProcessingAssumption
<1>5. QED BY <1>1, <1>2, <1>3, <1>4 DEF Distance, PhysicsSlack, Throttle

LEMMA LeastNumber ==
    ASSUME NEW S \in SUBSET Nat, S # {}
    PROVE  \E n \in S : \A k \in S : n <= k
<1> DEFINE R == OpToRel(<, Nat)
<1>1. IsWellFoundedOn(R, Nat)
  BY NatLessThanWellFounded
<1>2. \A x, y \in Nat : x < y => <<x, y>> \in R
  BY DEF OpToRel
<1> HIDE DEF R
<1>3. PICK n \in S : \A k \in S : <<k, n>> \notin R
  BY <1>1, WFMin
<1>4. \A k \in S : ~(k < n)
  BY <1>2, <1>3
<1>5. QED BY <1>4

LEMMA HeadIsMember ==
    ASSUME NEW S, NEW s \in Seq(S), s # <<>>
    PROVE  Head(s) \in S
OBVIOUS

\* Of equally near samples the first is taken.
LEMMA NearestFirst ==
    ASSUME NEW S, entries \in Seq(S), \A i \in DOMAIN entries : entries[i].t \in Int,
           NEW t \in Int, Candidates(t) # {}
    PROVE  /\ Nearest(t) \in Candidates(t)
           /\ \A j \in Candidates(t) :
                 \/ Distance(entries[Nearest(t)].t, t) < Distance(entries[j].t, t)
                 \/ /\ Distance(entries[Nearest(t)].t, t) = Distance(entries[j].t, t)
                    /\ Nearest(t) <= j
<1> DEFINE C == Candidates(t)
           far(i) == Distance(entries[i].t, t)
           D == {far(i) : i \in C}
<1>1. \A i \in C : i \in Nat /\ far(i) \in Nat
  BY DEF Candidates, Distance
<1>2. D \in SUBSET Nat /\ D # {}
  BY <1>1
<1>3. PICK d \in D : \A x \in D : d <= x
  BY <1>2, LeastNumber
<1> DEFINE I == {i \in C : far(i) = d}
<1>4. I \in SUBSET Nat /\ I # {}
  BY <1>1
<1> HIDE DEF I
<1>5. PICK k \in I : \A i \in I : k <= i
  BY <1>4, LeastNumber
<1>6. k \in C /\ far(k) = d /\ d \in Nat
  BY <1>2, <1>5 DEF I
<1>7. \A j \in C : far(j) \in Nat /\ d <= far(j)
  BY <1>1, <1>3
<1>8. \A j \in C : far(k) < far(j) \/ (far(k) = far(j) /\ k <= j)
  <2> SUFFICES ASSUME NEW j \in C, ~(far(k) < far(j))
               PROVE  far(k) = far(j) /\ k <= j
    OBVIOUS
  <2>1. far(j) = d
    <3>1. far(j) \in Nat /\ d <= far(j) /\ far(k) = d /\ d \in Nat
      BY <1>6, <1>7
    <3> HIDE DEF far
    <3>2. QED BY <3>1
  <2>2. j \in I
    BY <2>1 DEF I
  <2>3. QED BY <1>5, <1>6, <2>1, <2>2
<1>9. /\ Nearest(t) \in C
      /\ \A j \in C : far(Nearest(t)) < far(j) \/ (far(Nearest(t)) = far(j) /\ Nearest(t) <= j)
  BY <1>6, <1>8 DEF Nearest
<1>10. QED BY <1>9

LEMMA NearestIsNearest ==
    ASSUME StoreOK, NEW t \in Int, Candidates(t) # {}
    PROVE  /\ Nearest(t) \in Candidates(t)
           /\ \A j \in Candidates(t) :
                 Distance(entries[Nearest(t)].t, t) <= Distance(entries[j].t, t)
<1> DEFINE far(i) == Distance(entries[i].t, t)
<1>1. entries \in Seq(Entry) /\ \A i \in DOMAIN entries : entries[i].t \in Int
  BY DEF StoreOK, Delayed
<1>2. /\ Nearest(t) \in Candidates(t)
      /\ \A j \in Candidates(t) :
            \/ far(Nearest(t)) < far(j)
            \/ far(Nearest(t)) = far(j) /\ Nearest(t) <= j
  BY <1>1, NearestFirst
<1>3. \A j \in Candidates(t) : far(j) \in Int
  BY <1>1 DEF Candidates, Distance
<1> HIDE DEF far
<1>4. \A j \in Candidates(t) : far(Nearest(t)) <= far(j)
  BY <1>2, <1>3
<1>5. QED BY <1>2, <1>4 DEF far

LEMMA FoundIsNear ==
    ASSUME StoreOK, NEW t \in Int
    PROVE  Found(t) = None \/ (Delayed(Found(t)) /\ InWindow(Found(t), t))
<1>1. \A i \in Candidates(t) : Delayed(entries[i]) /\ InWindow(entries[i], t)
  BY DEF Candidates, StoreOK
<1>2. QED BY <1>1, NearestIsNearest DEF Found

LEMMA SampleIsNear ==
    ASSUME StoreOK, NEW p, p.at \in Int, p.frame \in FrameInputs
    PROVE  Sample(p) = None \/ (Delayed(Sample(p)) /\ InWindow(Sample(p), p.at))
<1>1. CASE p.frame.rf # None
  <2>1. p.frame.rf \in [RfChecks -> Int \cup {None}]
    BY <1>1, ProcessingAssumption
  <2>2. QED BY <1>1, <2>1, RfAssumption DEF Sample, Delayed, InWindow, Distance
<1>2. CASE p.frame.rf = None
  BY <1>2, FoundIsNear DEF Sample
<1>3. QED BY <1>1, <1>2

LEMMA AppendedMessages ==
    ASSUME NEW S, NEW s \in Seq(S), NEW m
    PROVE  /\ Append(s, m) \in Seq(S \cup {m})
           /\ ToSet(Append(s, m)) = ToSet(s) \cup {m}
<1>1. s \in Seq(S \cup {m})
  OBVIOUS
<1>2. Append(s, m) \in Seq(S \cup {m}) /\ Len(Append(s, m)) = Len(s) + 1
  BY <1>1
<1>3. \A i \in 1 .. Len(s) + 1 : Append(s, m)[i] = IF i <= Len(s) THEN s[i] ELSE m
  BY <1>1
<1>4. /\ DOMAIN s = 1 .. Len(s) /\ Len(s) \in Nat
      /\ DOMAIN Append(s, m) = 1 .. Len(s) + 1
  BY <1>2
<1> DEFINE a == Append(s, m)
<1> HIDE DEF a
<1>5. {a[i] : i \in DOMAIN a} = {s[i] : i \in DOMAIN s} \cup {m}
  <2>1. \A x \in {a[i] : i \in DOMAIN a} : x \in {s[i] : i \in DOMAIN s} \cup {m}
    BY <1>3, <1>4 DEF a
  <2>2. \A i \in DOMAIN s : s[i] \in {a[k] : k \in DOMAIN a}
    BY <1>3, <1>4 DEF a
  <2>3. a[Len(s) + 1] = m /\ Len(s) + 1 \in DOMAIN a
    BY <1>3, <1>4 DEF a
  <2>4. QED BY <2>1, <2>2, <2>3
<1>6. QED BY <1>2, <1>5 DEF ToSet, a

\* A worker that ends with a state within the throttle, or with none.
LEMMA EmitKeeps ==
    ASSUME PInv, NEW w \in Workers, pc[w] # "idle", NEW state,
           state = None \/ (state \in Int /\ Distance(state, job[w].time) < Throttle),
           Emit(w, state)
    PROVE  JobsOK' /\ EmittedOK'
<1> DEFINE m == Message(job[w], state)
<1>1. Sound(job[w])
  BY DEF PInv, JobsOK
<1>2. Computed(m)
  BY <1>1 DEF Computed, Sound, Message
<1>3. emitted' = Append(emitted, m) /\ Step(w, "idle", None)
  BY DEF Emit
<1> HIDE DEF m
<1>4. PICK S : emitted \in Seq(S)
  BY DEF PInv, EmittedOK
<1>5. emitted' \in Seq(S \cup {m}) /\ Messages' = Messages \cup {m}
  BY <1>3, <1>4, AppendedMessages DEF Messages
<1>6. \A n \in Messages' : Computed(n)
  BY <1>2, <1>5 DEF PInv, EmittedOK
<1>7. EmittedOK'
  BY <1>5, <1>6 DEF EmittedOK
<1>8. JobsOK'
  BY <1>3 DEF PInv, JobsOK, Step
<1>9. QED BY <1>7, <1>8

-----------------------------------------------------------------------------
(* The invariant. *)

LEMMA InitPInv == Init => PInv
<1> SUFFICES ASSUME Init PROVE PInv
  OBVIOUS
<1>1. StoreOK
  BY DEF Init, RfInit, StoreOK
<1>2. QueueOK /\ CacheOK
  BY DEF Init, QueueOK, CacheOK
<1>3. JobsOK
  BY DEF Init, JobsOK
<1>4. EmittedOK
  <2>1. emitted \in Seq({}) /\ Messages = {}
    BY DEF Init, Messages, ToSet
  <2>2. QED BY <2>1 DEF EmittedOK
<1>5. QED BY <1>1, <1>2, <1>3, <1>4 DEF PInv

LEMMA NextPInv == PInv /\ [Next]_vars => PInv'
<1> SUFFICES ASSUME PInv, [Next]_vars PROVE PInv'
  OBVIOUS
<1> USE DEF PInv
<1>1. CASE Receive
  <2>1. now' \in Int
    BY <1>1, ProcessingAssumption DEF Receive, Passes, QueueOK
  <2>2. PICK f \in FrameInputs : queue' = Append(queue, [frame |-> f, at |-> now'])
    BY <1>1 DEF Receive
  <2>3. QueueOK'
    BY <2>1, <2>2 DEF QueueOK
  <2>4. UNCHANGED <<rfVars, cache, pc, job, emitted>>
    BY <1>1 DEF Receive
  <2>5. QED BY <2>3, <2>4 DEF rfVars, StoreOK, CacheOK, JobsOK, EmittedOK, Messages
<1>2. CASE SampleArrives
  <2>1. now' \in Int
    BY <1>2, ProcessingAssumption DEF SampleArrives, Passes, QueueOK
  <2>2. PICK s \in RfSamples : Insert(Stamped(s, now'))
    BY <1>2 DEF SampleArrives
  <2> DEFINE e == Stamped(s, now')
             kept == IF Full THEN Tail(entries) ELSE entries
  <2>3. e \in Entry /\ Delayed(e)
    BY <2>1, RfAssumption DEF Stamped, Entry, Delayed
  <2>4. kept \in Seq(Entry) /\ \A i \in DOMAIN kept : Delayed(kept[i])
    <3>1. Full => entries # <<>>
      BY RfAssumption DEF Full, Room
    <3>2. QED BY <3>1 DEF StoreOK
  <2>5. entries' = Append(kept, e)
    BY <2>2 DEF Insert
  <2> HIDE DEF e, kept
  <2>6. StoreOK'
    <3>1. entries' \in Seq(Entry) /\ Len(entries') = Len(kept) + 1
      BY <2>3, <2>4, <2>5
    <3>2. \A i \in 1 .. Len(kept) + 1 : entries'[i] = IF i <= Len(kept) THEN kept[i] ELSE e
      BY <2>3, <2>4, <2>5
    <3>3. \A i \in DOMAIN entries' : Delayed(entries'[i])
      BY <2>3, <2>4, <3>1, <3>2
    <3>4. QED BY <3>1, <3>3 DEF StoreOK
  <2>7. UNCHANGED <<queue, cache, pc, job, emitted>>
    BY <1>2 DEF SampleArrives
  <2>8. QED BY <2>1, <2>6, <2>7 DEF QueueOK, CacheOK, JobsOK, EmittedOK, Messages
<1>3. ASSUME NEW w \in Workers, ParseError(w) PROVE PInv'
  <2>1. QueueOK'
    BY <1>3 DEF ParseError, QueueOK
  <2>2. UNCHANGED <<rfVars, cache, pc, job, emitted>>
    BY <1>3 DEF ParseError
  <2>3. QED BY <2>1, <2>2 DEF rfVars, StoreOK, CacheOK, JobsOK, EmittedOK, Messages
<1>4. ASSUME NEW w \in Workers, Start(w) PROVE PInv'
  <2> DEFINE p == Head(queue)
             j == [frame |-> p.frame, at |-> p.at, time |-> PhysicsTime(p.frame, p.at),
                   sample |-> Sample(p), seen |-> Len(arrived)]
  <2>1. p.frame \in FrameInputs /\ p.at \in Int
    <3>1. queue # <<>> /\ queue \in Seq([frame : FrameInputs, at : Int])
      BY <1>4 DEF Start, QueueOK
    <3> DEFINE Q == [frame : FrameInputs, at : Int]
    <3> HIDE DEF Q
    <3>2. Head(queue) \in Q
      BY <3>1, HeadIsMember DEF Q
    <3>3. QED BY <3>2 DEF Q
  <2>2. Sound(j)
    BY <2>1, SampleIsNear DEF Sound
  <2>3. Step(w, "track", j) /\ queue' = Tail(queue) /\ UNCHANGED <<now, cache, emitted>>
    BY <1>4 DEF Start
  <2>4. UNCHANGED entries
    BY <1>4 DEF Start, Lookup, rfVars
  <2> HIDE DEF j
  <2>5. JobsOK'
    BY <2>2, <2>3 DEF JobsOK, Step
  <2>6. QueueOK'
    <3>1. queue # <<>>
      BY <1>4 DEF Start
    <3>2. Tail(queue) \in Seq([frame : FrameInputs, at : Int])
      BY <3>1 DEF QueueOK
    <3>3. QED BY <2>3, <3>2 DEF QueueOK
  <2>7. QED BY <2>3, <2>4, <2>5, <2>6 DEF StoreOK, CacheOK, EmittedOK, Messages
<1>5. ASSUME NEW w \in Workers, CacheHit(w) PROVE PInv'
  <2>1. job[w].time \in Int
    BY <1>5, PhysicsTimeType DEF CacheHit, JobsOK, Sound
  <2>2. /\ cache.state \in Int
        /\ Distance(cache.state, job[w].time) < Throttle
    BY <1>5, <2>1, ProcessingAssumption DEF CacheHit, Cached, CacheOK, Distance, Throttle
  <2>3. JobsOK' /\ EmittedOK'
    BY <1>5, <2>2, EmitKeeps DEF CacheHit
  <2>4. UNCHANGED <<rfVars, now, queue, cache>>
    BY <1>5 DEF CacheHit
  <2>5. QED BY <2>3, <2>4 DEF rfVars, StoreOK, QueueOK, CacheOK
<1>6. ASSUME NEW w \in Workers, Compute(w) PROVE PInv'
  <2>1. JobsOK'
    BY <1>6 DEF Compute, JobsOK, Step
  <2>2. UNCHANGED <<rfVars, now, queue, cache, emitted>>
    BY <1>6 DEF Compute
  <2>3. QED BY <2>1, <2>2 DEF rfVars, StoreOK, QueueOK, CacheOK, EmittedOK, Messages
<1>7. ASSUME NEW w \in Workers, StoreState(w) PROVE PInv'
  <2>1. job[w].time \in Int
    BY <1>7, PhysicsTimeType DEF StoreState, JobsOK, Sound
  <2>2. Distance(job[w].time, job[w].time) < Throttle
    BY <2>1, ProcessingAssumption DEF Distance, Throttle
  <2>3. JobsOK' /\ EmittedOK'
    BY <1>7, <2>1, <2>2, EmitKeeps DEF StoreState
  <2>4. CacheOK'
    BY <1>7, <2>1 DEF StoreState, CacheOK
  <2>5. UNCHANGED <<rfVars, now, queue>>
    BY <1>7 DEF StoreState
  <2>6. QED BY <2>3, <2>4, <2>5 DEF rfVars, StoreOK, QueueOK
<1>8. ASSUME NEW w \in Workers, NoPhysics(w) PROVE PInv'
  <2>1. JobsOK' /\ EmittedOK'
    BY <1>8, EmitKeeps DEF NoPhysics
  <2>2. UNCHANGED <<rfVars, now, queue, cache>>
    BY <1>8 DEF NoPhysics
  <2>3. QED BY <2>1, <2>2 DEF rfVars, StoreOK, QueueOK, CacheOK
<1>9. CASE UNCHANGED vars
  BY <1>9 DEF vars, rfVars, StoreOK, QueueOK, CacheOK, JobsOK, EmittedOK, Messages
<1>10. QED
  BY <1>1, <1>2, <1>3, <1>4, <1>5, <1>6, <1>7, <1>8, <1>9 DEF Next

\* Whatever is stored, in hand or emitted, its instants are as near as PInv says.
THEOREM Invariance == Spec => []PInv
BY InitPInv, NextPInv, PTL DEF Spec

-----------------------------------------------------------------------------
(* What follows from it. *)

LEMMA StatesFit == PInv => StateFitsTime
BY DEF PInv, EmittedOK, Computed, StateFitsTime, Throttle

LEMMA RfExact == PInv => RfChecksExact
<1> SUFFICES ASSUME PInv, NEW m \in Messages, NEW c \in RfChecks
             PROVE  IF m.sample = None \/ m.state = None THEN c \notin m.flags
                    ELSE IF m.sample.err[c] = None THEN c \notin m.flags
                    ELSE SkewIsBounded /\ RfEnabled(c) =>
                      /\ Distance(m.sample.err[c], 0) <= RfTol[c] - RfSlack
                            => c \notin m.flags
                      /\ Distance(m.sample.err[c], 0) > RfTol[c] + RfSlack
                            => c \in m.flags
  BY DEF RfChecksExact
<1>1. Computed(m)
  BY DEF PInv, EmittedOK
<1>2. c \notin HilChecks /\ c # "below_horizon"
  BY RfAssumption, ProcessingAssumption
<1>3. m.state # None => (c \in m.flags <=> RfAlarm(c, m.sample, m.state))
  BY <1>1, <1>2 DEF Computed, Flags
<1>4. m.state = None => c \notin m.flags
  BY <1>1 DEF Computed, Flags
<1>5. ASSUME m.sample # None, m.state # None, m.sample.err[c] # None,
             SkewIsBounded, RfEnabled(c)
      PROVE  /\ Distance(m.sample.err[c], 0) <= RfTol[c] - RfSlack => c \notin m.flags
             /\ Distance(m.sample.err[c], 0) > RfTol[c] + RfSlack => c \in m.flags
  <2> DEFINE s == m.sample
             e == s.err[c]
             d == Distance(s.at + e, m.state)
  <2>1. /\ m.state \in Int /\ m.at \in Int /\ PhysicsSlack \in Nat
        /\ Distance(m.state, m.at) <= PhysicsSlack
    BY <1>1, <1>5, PhysicsNearReception
  <2>2. /\ s.t \in Int /\ s.at \in Int /\ e \in Int
        /\ s.at <= s.t /\ s.t - s.at <= RfDelay
        /\ Distance(s.t, m.at) <= Window
    BY <1>1, <1>5 DEF Computed, Sound, Delayed, InWindow
  <2>3. RfTol[c] \in Int /\ RfDelay \in Nat /\ Window \in Nat
    BY RfAssumption, ProcessingAssumption
  <2>4. c \in m.flags <=> d > RfTol[c]
    BY <1>3, <1>5 DEF RfAlarm
  <2> HIDE DEF s, e
  <2>5. Distance(s.at, m.state) <= RfSlack /\ RfSlack \in Nat
    BY <2>1, <2>2, <2>3 DEF Distance, RfSlack
  <2>6. /\ Distance(e, 0) \in Nat /\ d \in Nat
        /\ d <= Distance(e, 0) + RfSlack /\ Distance(e, 0) <= d + RfSlack
    BY <2>1, <2>2, <2>5 DEF Distance
  <2> HIDE DEF d
  <2>7. QED BY <2>3, <2>4, <2>5, <2>6 DEF e, s
<1>6. QED BY <1>3, <1>4, <1>5 DEF RfAlarm

LEMMA HilExact == PInv => HilChecksExact
<1> SUFFICES ASSUME PInv, NEW m \in Messages, NEW c \in HilChecks,
                    m.frame.hil # None, m.state # None, HilTol[c] > 0,
                    TimeOn, SkewIsBounded
             PROVE  LET e == Distance(m.frame.hil[c], 0)
                        slack == IF c = "rate" THEN 0 ELSE PhysicsSlack IN
                    /\ e <= HilTol[c] - slack => c \notin m.flags
                    /\ e > HilTol[c] + slack
                          => c \in m.flags \/ "time_code_invalid" \in m.flags_v2
  BY DEF HilChecksExact
<1> DEFINE h == m.frame.hil[c]
           x == IF c = "rate" THEN Distance(h, 0) ELSE Distance(m.at + h, m.state)
           slack == IF c = "rate" THEN 0 ELSE PhysicsSlack
<1>1. Computed(m)
  BY DEF PInv, EmittedOK
<1>2. c \notin RfChecks /\ c # "below_horizon"
  BY RfAssumption, ProcessingAssumption
<1>3. c \in m.flags <=> HilAlarm(c, m.frame, m.at, m.state)
  BY <1>1, <1>2 DEF Computed, Flags
<1>4. m.frame \in FrameInputs
  BY <1>1 DEF Computed, Sound
<1>5. h \in Int /\ HilTol[c] \in Int
  BY <1>4, ProcessingAssumption
<1>6. UserDataFound(m.frame) \/ "time_code_invalid" \in m.flags_v2
  BY <1>1 DEF Computed, TimeFlags, UserDataFound, HasTime
<1>7. c \in m.flags <=> UserDataFound(m.frame) /\ x > HilTol[c]
  BY <1>3 DEF HilAlarm
<1>8. /\ m.state \in Int /\ m.at \in Int /\ PhysicsSlack \in Nat
      /\ Distance(m.state, m.at) <= PhysicsSlack
  BY <1>1, PhysicsNearReception
<1> HIDE DEF h
<1>9. /\ x \in Nat /\ Distance(h, 0) \in Nat /\ slack \in Nat
      /\ x <= Distance(h, 0) + slack /\ Distance(h, 0) <= x + slack
  BY <1>5, <1>8 DEF Distance
<1> HIDE DEF x
<1>10. /\ Distance(h, 0) <= HilTol[c] - slack => ~(x > HilTol[c])
       /\ Distance(h, 0) > HilTol[c] + slack => x > HilTol[c]
  BY <1>5, <1>9
<1>11. QED BY <1>6, <1>7, <1>10 DEF h

\* The published position fits the published instant, up to the throttle,
\* whatever callers store in the provider's cache.
THEOREM PositionsFitTheirTime == Spec => []StateFitsTime
BY Invariance, StatesFit, PTL

\* The receiver checks raise no false alarm and miss no error, up to what delay,
\* window, skew and throttle add up to.
THEOREM RfChecksAreExact == Spec => []RfChecksExact
BY Invariance, RfExact, PTL

\* The subsystem checks likewise, or the message says that the time code in front
\* of the data is unreadable.
THEOREM HilChecksAreExact == Spec => []HilChecksExact
BY Invariance, HilExact, PTL

-----------------------------------------------------------------------------
(***************************************************************************)
(* The inductive invariant, next to PInv.                                  *)
(***************************************************************************)

\* The deque is the newest of what arrived.
DequeOK ==
    /\ arrived \in Seq(Entry)
    /\ Len(entries) <= Room /\ Len(entries) <= Len(arrived)
    /\ Len(entries) < Room => Len(entries) = Len(arrived)
    /\ \A i \in DOMAIN entries : entries[i] = arrived[Len(arrived) - Len(entries) + i]

\* A packet in hand, or in a message, with the best sample of its time.
Picked(j) ==
    /\ j.seen \in 0 .. Len(arrived)
    /\ Asked(j) =>
        IF j.sample = None
        THEN \A e \in Recent(j.seen) : Distance(e.t, j.at) > Window
        ELSE /\ j.sample \in Recent(j.seen)
             /\ Distance(j.sample.t, j.at) <= Window
             /\ \A e \in Recent(j.seen) : Distance(j.sample.t, j.at) <= Distance(e.t, j.at)

PickedOK ==
    /\ \A w \in Workers : pc[w] # "idle" => Picked(job[w])
    /\ \A m \in Messages : Picked(m)

AInv == PInv /\ TypeOK /\ DequeOK /\ PickedOK /\ Accounted

-----------------------------------------------------------------------------
(* The deque. *)

\* What is in the deque is the recent part of what arrived.
LEMMA DequeIsRecent ==
    ASSUME DequeOK, entries \in Seq(Entry)
    PROVE  Recent(Len(arrived)) = {entries[i] : i \in DOMAIN entries}
<1> DEFINE n == Len(arrived)
           l == Len(entries)
<1>1. /\ n \in Nat /\ l \in Nat /\ DOMAIN arrived = 1 .. n /\ DOMAIN entries = 1 .. l
      /\ l <= n /\ l <= Room /\ (l < Room => l = n) /\ Room \in Nat
      /\ \A i \in 1 .. l : entries[i] = arrived[n - l + i]
  BY RfAssumption DEF DequeOK, Room
<1> HIDE DEF n, l
<1>2. (n - Room + 1) .. n \cap DOMAIN arrived = (n - l + 1) .. n
  BY <1>1
<1>3. \A i \in 1 .. l : n - l + i \in (n - l + 1) .. n /\ entries[i] = arrived[n - l + i]
  BY <1>1
<1>4. \A k \in (n - l + 1) .. n :
        k - (n - l) \in 1 .. l /\ entries[k - (n - l)] = arrived[k]
  <2> SUFFICES ASSUME NEW k \in (n - l + 1) .. n
               PROVE  k - (n - l) \in 1 .. l /\ entries[k - (n - l)] = arrived[k]
    OBVIOUS
  <2>1. k - (n - l) \in 1 .. l /\ n - l + (k - (n - l)) = k
    BY <1>1
  <2>2. QED BY <1>1, <2>1
<1>5. Recent(Len(arrived)) = {arrived[i] : i \in (n - l + 1) .. n}
  BY <1>2 DEF Recent, n
<1>6. {arrived[i] : i \in (n - l + 1) .. n} = {entries[i] : i \in 1 .. l}
  <2>1. ASSUME NEW k \in (n - l + 1) .. n
        PROVE  arrived[k] \in {entries[i] : i \in 1 .. l}
    BY <1>4
  <2>2. ASSUME NEW k \in 1 .. l
        PROVE  entries[k] \in {arrived[i] : i \in (n - l + 1) .. n}
    BY <1>3
  <2>3. QED BY <2>1, <2>2
<1>7. QED BY <1>1, <1>5, <1>6

\* What was recent when a packet was taken stays what it was.
LEMMA RecentStays ==
    ASSUME arrived \in Seq(Entry), NEW e \in Entry, arrived' = Append(arrived, e),
           NEW n \in 0 .. Len(arrived)
    PROVE  Recent(n)' = Recent(n)
<1>1. /\ arrived' \in Seq(Entry) /\ Len(arrived') = Len(arrived) + 1
      /\ \A i \in DOMAIN arrived : arrived'[i] = arrived[i]
  OBVIOUS
<1>2. ((n - Room + 1) .. n) \cap DOMAIN arrived' = ((n - Room + 1) .. n) \cap DOMAIN arrived
  BY <1>1, RfAssumption DEF Room
<1>3. QED BY <1>1, <1>2 DEF Recent, Room

LEMMA PickedStays ==
    ASSUME arrived \in Seq(Entry), NEW e \in Entry, arrived' = Append(arrived, e),
           NEW j, Picked(j)
    PROVE  /\ j.seen \in 0 .. Len(arrived')
           /\ Asked(j) =>
                IF j.sample = None
                THEN \A x \in Recent(j.seen)' : Distance(x.t, j.at) > Window
                ELSE /\ j.sample \in Recent(j.seen)'
                     /\ Distance(j.sample.t, j.at) <= Window
                     /\ \A x \in Recent(j.seen)' :
                            Distance(j.sample.t, j.at) <= Distance(x.t, j.at)
<1>1. j.seen \in 0 .. Len(arrived) /\ Len(arrived') = Len(arrived) + 1
  BY DEF Picked
<1>2. \A n \in 0 .. Len(arrived) : Recent(n)' = Recent(n)
  BY RecentStays
<1>3. QED BY <1>1, <1>2 DEF Picked

\* The lookup takes the nearest of the recent samples, if one is near enough.
LEMMA SampleIsNearest ==
    ASSUME StoreOK, DequeOK, NEW p, p.at \in Int, p.frame \in FrameInputs
    PROVE  /\ Sample(p) \in Entry \cup {None}
           /\ Asked(p) =>
                IF Sample(p) = None
                THEN \A e \in Recent(Len(arrived)) : Distance(e.t, p.at) > Window
                ELSE /\ Sample(p) \in Recent(Len(arrived))
                     /\ Distance(Sample(p).t, p.at) <= Window
                     /\ \A e \in Recent(Len(arrived)) :
                            Distance(Sample(p).t, p.at) <= Distance(e.t, p.at)
<1> DEFINE t == p.at
<1>1. entries \in Seq(Entry) /\ \A i \in DOMAIN entries : entries[i] \in Entry /\ entries[i].t \in Int
  BY DEF StoreOK, Delayed
<1>2. Recent(Len(arrived)) = {entries[i] : i \in DOMAIN entries}
  BY <1>1, DequeIsRecent
<1>3. CASE p.frame.rf # None
  <2>1. p.frame.rf \in [RfChecks -> Int \cup {None}]
    BY <1>3, ProcessingAssumption
  <2>2. QED BY <1>3, <2>1 DEF Sample, Entry, Asked
<1>4. CASE p.frame.rf = None /\ (~RfOn \/ Candidates(t) = {})
  <2>1. Sample(p) = None
    BY <1>4 DEF Sample, Found
  <2>2. RfOn => \A i \in DOMAIN entries : Distance(entries[i].t, t) > Window
    BY <1>1, <1>4, RfAssumption DEF Candidates, InWindow, Distance
  <2>3. QED BY <1>2, <2>1, <2>2 DEF Asked
<1>5. CASE p.frame.rf = None /\ RfOn /\ Candidates(t) # {}
  <2> DEFINE k == Nearest(t)
  <2>1. /\ k \in Candidates(t)
        /\ \A j \in Candidates(t) : Distance(entries[k].t, t) <= Distance(entries[j].t, t)
    BY <1>5, NearestIsNearest
  <2>2. Sample(p) = entries[k]
    BY <1>5 DEF Sample, Found
  <2>3. k \in DOMAIN entries /\ Distance(entries[k].t, t) <= Window
    BY <2>1 DEF Candidates, InWindow
  <2> HIDE DEF k
  <2>4. entries[k] \in Entry /\ entries[k] # None
    BY <1>1, <2>3, RfAssumption
  <2>5. \A j \in DOMAIN entries : Distance(entries[k].t, t) <= Distance(entries[j].t, t)
    <3> SUFFICES ASSUME NEW j \in DOMAIN entries, j \notin Candidates(t)
                 PROVE  Distance(entries[k].t, t) <= Distance(entries[j].t, t)
      BY <2>1 DEF k
    <3>1. ~(Distance(entries[j].t, t) <= Window)
      BY DEF Candidates, InWindow
    <3>2. QED BY <1>1, <2>3, <3>1, RfAssumption DEF Distance
  <2>6. QED BY <1>2, <2>2, <2>3, <2>4, <2>5
<1>6. QED BY <1>3, <1>4, <1>5

-----------------------------------------------------------------------------
(* Counting. *)

LEMMA BusyFinite ==
    /\ IsFiniteSet(Busy) /\ Cardinality(Busy) \in Nat
    /\ IsFiniteSet({w \in Busy : Asked(job[w])})
    /\ Cardinality({w \in Busy : Asked(job[w])}) \in Nat
<1>1. IsFiniteSet(Busy)
  BY FS_Subset, ProcessingAssumption DEF Busy
<1>2. IsFiniteSet({w \in Busy : Asked(job[w])})
  BY <1>1, FS_Subset
<1>3. QED BY <1>1, <1>2, FS_CardinalityType

\* A message more counts for what it is.
LEMMA CountAppended ==
    ASSUME NEW S, NEW s \in Seq(S), NEW m
    PROVE  /\ Cardinality({i \in DOMAIN s : Asked(s[i])}) \in Nat
           /\ Cardinality({i \in DOMAIN s : Bare(s[i])}) \in Nat
           /\ Cardinality({i \in DOMAIN Append(s, m) : Asked(Append(s, m)[i])})
                = Cardinality({i \in DOMAIN s : Asked(s[i])}) + (IF Asked(m) THEN 1 ELSE 0)
           /\ Cardinality({i \in DOMAIN Append(s, m) : Bare(Append(s, m)[i])})
                = Cardinality({i \in DOMAIN s : Bare(s[i])}) + (IF Bare(m) THEN 1 ELSE 0)
<1> DEFINE l == Len(s)
           a == Append(s, m)
           A == {i \in DOMAIN s : Asked(s[i])}
           B == {i \in DOMAIN s : Bare(s[i])}
<1>1. s \in Seq(S \cup {m})
  OBVIOUS
<1>2. /\ l \in Nat /\ DOMAIN s = 1 .. l /\ DOMAIN a = 1 .. l + 1
      /\ a[l + 1] = m /\ \A i \in 1 .. l : a[i] = s[i]
  BY <1>1
<1> HIDE DEF a, l
<1>3. IsFiniteSet(1 .. l)
  BY <1>2, FS_Interval
<1>4. IsFiniteSet(A) /\ IsFiniteSet(B) /\ l + 1 \notin A /\ l + 1 \notin B
  <2>1. A \subseteq 1 .. l /\ B \subseteq 1 .. l
    BY <1>2
  <2>2. l + 1 \notin 1 .. l
    BY <1>2
  <2>3. QED BY <1>3, <2>1, <2>2, FS_Subset
<1>5. Cardinality(A) \in Nat /\ Cardinality(B) \in Nat
  BY <1>4, FS_CardinalityType
<1>6. {i \in DOMAIN a : Asked(a[i])} = A \cup (IF Asked(m) THEN {l + 1} ELSE {})
  <2>1. \A i \in 1 .. l + 1 : i \in 1 .. l \/ i = l + 1
    BY <1>2
  <2>2. 1 .. l \subseteq 1 .. l + 1 /\ l + 1 \in 1 .. l + 1
    BY <1>2
  <2>3. QED BY <1>2, <2>1, <2>2
<1>7. {i \in DOMAIN a : Bare(a[i])} = B \cup (IF Bare(m) THEN {l + 1} ELSE {})
  <2>1. \A i \in 1 .. l + 1 : i \in 1 .. l \/ i = l + 1
    BY <1>2
  <2>2. 1 .. l \subseteq 1 .. l + 1 /\ l + 1 \in 1 .. l + 1
    BY <1>2
  <2>3. QED BY <1>2, <2>1, <2>2
<1>8. /\ Cardinality(A \cup {l + 1}) = Cardinality(A) + 1
      /\ Cardinality(B \cup {l + 1}) = Cardinality(B) + 1
  BY <1>4, FS_AddElement
<1> HIDE DEF A, B
<1>9. /\ Cardinality(A \cup (IF Asked(m) THEN {l + 1} ELSE {}))
            = Cardinality(A) + (IF Asked(m) THEN 1 ELSE 0)
      /\ Cardinality(B \cup (IF Bare(m) THEN {l + 1} ELSE {}))
            = Cardinality(B) + (IF Bare(m) THEN 1 ELSE 0)
  <2>1. A \cup {} = A /\ B \cup {} = B /\ Cardinality(A) + 0 = Cardinality(A)
        /\ Cardinality(B) + 0 = Cardinality(B)
    BY <1>5
  <2>2. CASE Asked(m)
    <3>1. CASE Bare(m)
      BY <1>8, <2>2, <3>1
    <3>2. CASE ~Bare(m)
      BY <1>8, <2>1, <2>2, <3>2
    <3>3. QED BY <3>1, <3>2
  <2>3. CASE ~Asked(m)
    <3>1. CASE Bare(m)
      BY <1>8, <2>1, <2>3, <3>1
    <3>2. CASE ~Bare(m)
      BY <2>1, <2>3, <3>2
    <3>3. QED BY <3>1, <3>2
  <2>4. QED BY <2>2, <2>3
<1>10. QED BY <1>5, <1>6, <1>7, <1>9 DEF A, B, a
-----------------------------------------------------------------------------
(* A worker that takes a packet, and one that ends with it. *)

LEMMA StartKeeps ==
    ASSUME AInv, NEW w \in Workers, Start(w)
    PROVE  TypeOK' /\ PickedOK' /\ Accounted'
<1> USE DEF AInv
<1> DEFINE p == Head(queue)
           j == [frame |-> p.frame, at |-> p.at, time |-> PhysicsTime(p.frame, p.at),
                 sample |-> Sample(p), seen |-> Len(arrived)]
           A == {x \in Busy : Asked(job[x])}
           Q == [frame : FrameInputs, at : 0..MaxTime]
<1>1. queue \in Seq(Q) /\ queue # <<>>
  BY DEF Start, TypeOK
<1> HIDE DEF Q
<1>2. p \in Q
  BY <1>1, HeadIsMember
<1>3. p.frame \in FrameInputs /\ p.at \in 0..MaxTime /\ p.at \in Int
  BY <1>2, ProcessingAssumption DEF Q
<1>4. StoreOK /\ DequeOK /\ arrived \in Seq(Entry)
  BY DEF PInv, DequeOK
<1>5. Len(arrived) \in Nat
  BY <1>4
<1>6. j \in Jobs /\ Picked(j)
  <2>1. j \in Jobs
    BY <1>3, <1>4, <1>5, SampleIsNearest, PhysicsTimeType DEF Jobs
  <2>2. Asked(j) <=> Asked(p)
    BY DEF Asked
  <2>3. Picked(j)
    BY <1>3, <1>4, <1>5, <2>2, SampleIsNearest DEF Picked
  <2>4. QED BY <2>1, <2>3
<1>7. /\ pc[w] = "idle" /\ queue' = Tail(queue)
      /\ IF p.frame.rf # None THEN UNCHANGED rfVars ELSE Lookup(p.at)
      /\ Step(w, "track", j)
      /\ UNCHANGED <<now, received, cache, metrics, emitted>>
  BY DEF Start
<1>8. Asked(j) <=> RfOn /\ p.frame.rf = None
  BY DEF Asked
<1> HIDE DEF j
<1>9. pc' = [pc EXCEPT ![w] = "track"] /\ job' = [job EXCEPT ![w] = j]
  BY <1>7 DEF Step
<1>10. DOMAIN pc = Workers /\ DOMAIN job = Workers
  BY DEF PInv, JobsOK
<1>11. UNCHANGED <<entries, arrived>>
  BY <1>7 DEF rfVars, Lookup
<1>12. /\ rf \in [{"received", "evicted", "matched", "unmatched"} -> Nat]
       /\ rf' \in [{"received", "evicted", "matched", "unmatched"} -> Nat]
       /\ rf'.matched + rf'.unmatched
            = rf.matched + rf.unmatched + (IF Asked(j) THEN 1 ELSE 0)
       /\ rf'.received = rf.received /\ rf'.evicted = rf.evicted
  <2>1. rf \in [{"received", "evicted", "matched", "unmatched"} -> Nat]
    BY DEF TypeOK
  <2>2. CASE Asked(j)
    <3>1. \/ rf' = [rf EXCEPT !.matched = @ + 1]
          \/ rf' = [rf EXCEPT !.unmatched = @ + 1]
      BY <1>7, <1>8, <2>2 DEF Lookup
    <3>2. QED BY <2>1, <2>2, <3>1
  <2>3. CASE ~Asked(j)
    <3>1. rf' = rf
      BY <1>7, <1>8, <2>3 DEF Lookup, rfVars
    <3>2. QED BY <2>1, <2>3, <3>1
  <2>4. QED BY <2>2, <2>3
<1>13. Tail(queue) \in Seq(Q) /\ Len(queue) = Len(Tail(queue)) + 1
  BY <1>1
<1>14. TypeOK'
  <2>1. queue' \in Seq([frame : FrameInputs, at : 0..MaxTime])
    BY <1>7, <1>13 DEF Q
  <2>2. \A x \in Workers :
            \/ pc'[x] = "idle" /\ job'[x] = None
            \/ pc'[x] \in {"track", "store"} /\ job'[x] \in Jobs
    BY <1>6, <1>9, <1>10 DEF TypeOK
  <2>3. QED BY <1>7, <1>11, <1>12, <2>1, <2>2 DEF TypeOK, Room, Jobs
<1>15. PickedOK'
  <2>1. \A x : Picked(x) => Picked(x)'
    BY <1>11 DEF Picked, Recent, Asked
  <2>2. \A x \in Workers : pc'[x] # "idle" => Picked(job'[x])
    BY <1>6, <1>9, <1>10 DEF PickedOK
  <2>3. Messages' = Messages
    BY <1>7 DEF Messages
  <2>4. QED BY <1>11, <2>2, <2>3 DEF PickedOK, Picked, Recent, Asked
<1>16. Busy' = Busy \cup {w} /\ w \notin Busy
  BY <1>7, <1>9, <1>10 DEF Busy
<1>17. Cardinality(Busy') = Cardinality(Busy) + 1
  BY <1>16, BusyFinite, FS_AddElement
<1>18. {x \in Busy' : Asked(job'[x])} = A \cup (IF Asked(j) THEN {w} ELSE {})
  BY <1>9, <1>10, <1>16 DEF Busy
<1>19. Cardinality({x \in Busy' : Asked(job'[x])})
         = Cardinality(A) + (IF Asked(j) THEN 1 ELSE 0)
  <2>1. IsFiniteSet(A) /\ Cardinality(A) \in Nat /\ w \notin A
    BY <1>16, BusyFinite
  <2> HIDE DEF A
  <2>2. Cardinality(A \cup {w}) = Cardinality(A) + 1
    BY <2>1, FS_AddElement
  <2>3. A \cup {} = A
    OBVIOUS
  <2>4. CASE Asked(j)
    BY <1>18, <2>2, <2>4
  <2>5. CASE ~Asked(j)
    BY <1>18, <2>1, <2>3, <2>5
  <2>6. QED BY <2>4, <2>5
<1>20. Accounted'
  <2>1. received' = Len(queue') + metrics'.parse_errors + Cardinality(Busy') + Len(emitted')
    <3>1. /\ metrics.parse_errors \in Nat /\ Len(Tail(queue)) \in Nat
          /\ Cardinality(Busy) \in Nat
      BY <1>13, BusyFinite DEF TypeOK
    <3>2. \E S : emitted \in Seq(S)
      BY DEF PInv, EmittedOK
    <3>3. Len(emitted) \in Nat
      BY <3>2
    <3>4. received = Len(queue) + metrics.parse_errors + Cardinality(Busy) + Len(emitted)
      BY DEF Accounted
    <3>5. /\ received' = received /\ metrics' = metrics /\ emitted' = emitted
          /\ queue' = Tail(queue)
      BY <1>7
    <3> DEFINE q == Len(Tail(queue))
               e == metrics.parse_errors
               b == Cardinality(Busy)
               l == Len(emitted)
    <3>6. Len(queue) = q + 1 /\ Cardinality(Busy') = b + 1
      BY <1>13, <1>17
    <3>7. received' = Len(queue) + e + b + l
      BY <3>4, <3>5
    <3>8. Len(queue') = q /\ metrics'.parse_errors = e /\ Len(emitted') = l
      BY <3>5
    <3>9. q \in Nat /\ e \in Nat /\ b \in Nat /\ l \in Nat
      BY <3>1, <3>3
    <3> HIDE DEF q, e, b, l
    <3>10. QED BY <3>6, <3>7, <3>8, <3>9
  <2>2. rf'.matched + rf'.unmatched =
            Cardinality({x \in Busy' : Asked(job'[x])})
                + Cardinality({i \in DOMAIN emitted' : Asked(emitted'[i])})
    <3>1. PICK S : emitted \in Seq(S)
      BY DEF PInv, EmittedOK
    <3> DEFINE C == Cardinality({i \in DOMAIN emitted : Asked(emitted[i])})
    <3>2. C \in Nat /\ Cardinality(A) \in Nat
      BY <3>1, CountAppended, BusyFinite
    <3>3. rf.matched + rf.unmatched = Cardinality(A) + C
      BY DEF Accounted
    <3>4. Cardinality({i \in DOMAIN emitted' : Asked(emitted'[i])}) = C
      BY <1>7
    <3> HIDE DEF A, C
    <3>5. QED BY <1>12, <1>19, <3>2, <3>3, <3>4
  <2>3. QED BY <1>7, <1>11, <1>12, <2>1, <2>2 DEF Accounted, Asked, Bare
<1>21. QED BY <1>14, <1>15, <1>20

LEMMA EmitAccounts ==
    ASSUME AInv, NEW w \in Workers, pc[w] # "idle", NEW state \in Int \cup {None},
           Emit(w, state), UNCHANGED <<rfVars, now, received, queue>>,
           cache' \in [at : Int, state : Int] \cup {None}
    PROVE  TypeOK' /\ PickedOK' /\ Accounted'
<1> USE DEF AInv
<1> DEFINE m == Message(job[w], state)
           A == {x \in Busy : Asked(job[x])}
<1>1. /\ m.frame = job[w].frame /\ m.at = job[w].at /\ m.sample = job[w].sample
      /\ m.seen = job[w].seen /\ m.state = state
  BY DEF Message
<1>2. /\ emitted' = Append(emitted, m)
      /\ metrics' = [metrics EXCEPT
            !.tracking_errors = IF state = None /\ TrackingOn THEN @ + 1 ELSE @,
            !.anomalies = IF m.flags # {} \/ m.flags_v2 # {} THEN @ + 1 ELSE @]
      /\ Step(w, "idle", None)
  BY DEF Emit
<1> HIDE DEF m
<1>3. pc' = [pc EXCEPT ![w] = "idle"] /\ job' = [job EXCEPT ![w] = None]
  BY <1>2 DEF Step
<1>4. DOMAIN pc = Workers /\ DOMAIN job = Workers
  BY DEF PInv, JobsOK
<1>5. PICK S : emitted \in Seq(S)
  BY DEF PInv, EmittedOK
<1>6. UNCHANGED <<entries, rf, arrived, now, received, queue>>
  BY DEF rfVars
<1>7. /\ metrics \in [{"parse_errors", "tracking_errors", "anomalies"} -> Nat]
      /\ metrics' \in [{"parse_errors", "tracking_errors", "anomalies"} -> Nat]
      /\ metrics'.parse_errors = metrics.parse_errors
      /\ metrics'.tracking_errors
            = metrics.tracking_errors + (IF state = None /\ TrackingOn THEN 1 ELSE 0)
  <2> DEFINE a == IF m.flags # {} \/ m.flags_v2 # {}
                  THEN metrics.anomalies + 1 ELSE metrics.anomalies
             t == IF state = None /\ TrackingOn
                  THEN metrics.tracking_errors + 1 ELSE metrics.tracking_errors
  <2>1. metrics \in [{"parse_errors", "tracking_errors", "anomalies"} -> Nat]
    BY DEF TypeOK
  <2>2. a \in Nat /\ t \in Nat
        /\ t = metrics.tracking_errors + (IF state = None /\ TrackingOn THEN 1 ELSE 0)
    BY <2>1
  <2>3. metrics' = [metrics EXCEPT !.tracking_errors = t, !.anomalies = a]
    BY <1>2, <2>1
  <2> HIDE DEF a, t
  <2>4. /\ metrics' \in [{"parse_errors", "tracking_errors", "anomalies"} -> Nat]
        /\ metrics'.parse_errors = metrics.parse_errors /\ metrics'.tracking_errors = t
    BY <2>1, <2>2, <2>3
  <2>5. QED BY <2>1, <2>2, <2>4
<1>8. TypeOK'
  <2>1. \A x \in Workers :
            \/ pc'[x] = "idle" /\ job'[x] = None
            \/ pc'[x] \in {"track", "store"} /\ job'[x] \in Jobs
    BY <1>3, <1>4 DEF TypeOK
  <2>2. QED BY <1>6, <1>7, <2>1 DEF TypeOK, Room, Jobs
<1>9. PickedOK'
  <2>1. Picked(m)
    BY <1>1 DEF PickedOK, Picked, Asked
  <2>2. \A x \in Messages' : Picked(x)
    <3>1. Messages' = Messages \cup {m}
      BY <1>2, <1>5, AppendedMessages DEF Messages
    <3>2. \A x \in Messages : Picked(x)
      BY DEF PickedOK
    <3>3. QED BY <2>1, <3>1, <3>2
  <2>3. \A x \in Workers : pc'[x] # "idle" => Picked(job'[x])
    BY <1>3, <1>4 DEF PickedOK
  <2>4. QED BY <1>6, <2>2, <2>3, SMTT(30) DEF PickedOK, Picked, Recent, Asked
<1>10. Busy' = Busy \ {w} /\ w \in Busy
  BY <1>3, <1>4 DEF Busy
<1>11. Cardinality(Busy) \in Nat /\ Cardinality(Busy') = Cardinality(Busy) - 1
  BY <1>10, BusyFinite, FS_RemoveElement
<1>12. {x \in Busy' : Asked(job'[x])} = A \ {w} /\ (w \in A <=> Asked(job[w]))
  BY <1>3, <1>4, <1>10 DEF Busy
<1>13. /\ Cardinality(A) \in Nat
       /\ Cardinality(A \ {w}) + (IF Asked(job[w]) THEN 1 ELSE 0) = Cardinality(A)
  <2>1. IsFiniteSet(A) /\ Cardinality(A) \in Nat
    BY BusyFinite
  <2>2. CASE w \in A
    <3> HIDE DEF A
    <3>1. Cardinality(A \ {w}) = Cardinality(A) - 1
      BY <2>1, <2>2, FS_RemoveElement
    <3>2. QED BY <1>12, <2>1, <2>2, <3>1
  <2>3. CASE w \notin A
    <3> HIDE DEF A
    <3>1. A \ {w} = A /\ Cardinality(A) + 0 = Cardinality(A)
      BY <2>1, <2>3
    <3>2. QED BY <1>12, <2>1, <2>3, <3>1
  <2>4. QED BY <2>2, <2>3
<1>14. /\ Cardinality({i \in DOMAIN emitted : Asked(emitted[i])}) \in Nat
       /\ Cardinality({i \in DOMAIN emitted : Bare(emitted[i])}) \in Nat
       /\ Cardinality({i \in DOMAIN emitted' : Asked(emitted'[i])})
            = Cardinality({i \in DOMAIN emitted : Asked(emitted[i])})
                + (IF Asked(m) THEN 1 ELSE 0)
       /\ Cardinality({i \in DOMAIN emitted' : Bare(emitted'[i])})
            = Cardinality({i \in DOMAIN emitted : Bare(emitted[i])})
                + (IF Bare(m) THEN 1 ELSE 0)
  <2> DEFINE a == Append(emitted, m)
  <2>1. /\ Cardinality({i \in DOMAIN emitted : Asked(emitted[i])}) \in Nat
        /\ Cardinality({i \in DOMAIN emitted : Bare(emitted[i])}) \in Nat
        /\ Cardinality({i \in DOMAIN a : Asked(a[i])})
             = Cardinality({i \in DOMAIN emitted : Asked(emitted[i])})
                 + (IF Asked(m) THEN 1 ELSE 0)
        /\ Cardinality({i \in DOMAIN a : Bare(a[i])})
             = Cardinality({i \in DOMAIN emitted : Bare(emitted[i])})
                 + (IF Bare(m) THEN 1 ELSE 0)
    BY <1>5, CountAppended
  <2>2. emitted' = a
    BY <1>2
  <2> HIDE DEF a
  <2>3. QED BY <2>1, <2>2
<1>15. (Asked(m) <=> Asked(job[w])) /\ (Bare(m) <=> state = None /\ TrackingOn)
  BY <1>1 DEF Asked, Bare
<1>16. Accounted'
  <2>1. received' = Len(queue') + metrics'.parse_errors + Cardinality(Busy') + Len(emitted')
    <3>1. /\ metrics.parse_errors \in Nat /\ Len(queue) \in Nat
          /\ Len(emitted) \in Nat /\ Len(emitted') = Len(emitted) + 1
      BY <1>2, <1>5 DEF TypeOK
    <3>2. QED BY <1>6, <1>7, <1>11, <3>1, SMTT(30) DEF Accounted
  <2>2. rf'.matched + rf'.unmatched =
            Cardinality({x \in Busy' : Asked(job'[x])})
                + Cardinality({i \in DOMAIN emitted' : Asked(emitted'[i])})
    <3> DEFINE C == Cardinality({i \in DOMAIN emitted : Asked(emitted[i])})
    <3>1. rf.matched + rf.unmatched = Cardinality(A) + C /\ C \in Nat
      BY <1>14 DEF Accounted
    <3>2. Cardinality(A \ {w}) \in Nat
      BY BusyFinite, FS_RemoveElement, FS_CardinalityType, FS_Subset
    <3> HIDE DEF A, C
    <3>3. Cardinality(A) + C
            = Cardinality(A \ {w}) + (C + (IF Asked(m) THEN 1 ELSE 0))
      BY <1>13, <1>15, <3>1, <3>2
    <3>4. QED BY <1>6, <1>12, <1>14, <3>1, <3>3 DEF C
  <2>3. metrics'.tracking_errors = Cardinality({i \in DOMAIN emitted' : Bare(emitted'[i])})
    BY <1>7, <1>14, <1>15 DEF Accounted
  <2>4. QED BY <1>6, <2>1, <2>2, <2>3 DEF Accounted, Asked, Bare
<1>17. QED BY <1>8, <1>9, <1>16
-----------------------------------------------------------------------------
(* The invariant. *)

LEMMA InitAInv == Init => AInv
<1> SUFFICES ASSUME Init PROVE AInv
  OBVIOUS
<1> USE DEF Init, RfInit
<1>1. PInv
  BY InitPInv
<1>2. TypeOK
  BY RfAssumption, ProcessingAssumption DEF TypeOK, Room
<1>3. DequeOK
  BY RfAssumption DEF DequeOK, Room
<1>4. Messages = {}
  BY DEF Messages, ToSet
<1>5. PickedOK
  BY <1>4 DEF PickedOK
<1>6. Accounted
  <2>1. Busy = {} /\ DOMAIN emitted = {}
    BY DEF Busy
  <2>2. {w \in Busy : Asked(job[w])} = {}
    BY <2>1
  <2>3. {i \in DOMAIN emitted : Asked(emitted[i])} = {}
    BY <2>1
  <2>4. {i \in DOMAIN emitted : Bare(emitted[i])} = {}
    BY <2>1
  <2>5. Cardinality({}) = 0
    BY FS_EmptySet
  <2>6. /\ Len(queue) = 0 /\ Len(emitted) = 0 /\ Len(entries) = 0 /\ received = 0
        /\ metrics.parse_errors = 0 /\ metrics.tracking_errors = 0
        /\ rf.matched = 0 /\ rf.unmatched = 0 /\ rf.received = 0 /\ rf.evicted = 0
    OBVIOUS
  <2> HIDE DEF Init, RfInit
  <2>7. QED BY <2>1, <2>2, <2>3, <2>4, <2>5, <2>6 DEF Accounted
<1>7. QED BY <1>1, <1>2, <1>3, <1>5, <1>6 DEF AInv

\* A sample enters the deque, and the oldest leaves a full one.
LEMMA InsertKeeps ==
    ASSUME AInv, SampleArrives, PInv'
    PROVE  AInv'
<1> USE DEF AInv
<1>1. now' \in 0..MaxTime /\ now' \in Int
  BY ProcessingAssumption DEF SampleArrives, Passes, TypeOK
<1>2. PICK s \in RfSamples : Insert(Stamped(s, now'))
  BY DEF SampleArrives
<1> DEFINE e == Stamped(s, now')
           kept == IF Full THEN Tail(entries) ELSE entries
<1>3. e \in Entry
  BY <1>1, RfAssumption DEF Stamped, Entry
<1>4. /\ entries' = Append(kept, e) /\ arrived' = Append(arrived, e)
      /\ rf' = [rf EXCEPT !.received = @ + 1, !.evicted = IF Full THEN @ + 1 ELSE @]
  BY <1>2 DEF Insert
<1> HIDE DEF e
<1>5. /\ UNCHANGED <<received, queue, cache, pc, job, metrics, emitted>>
  BY DEF SampleArrives
<1>6. /\ entries \in Seq(Entry) /\ Len(entries) <= Room /\ Room \in Nat /\ Room > 0
      /\ arrived \in Seq(Entry)
  BY RfAssumption DEF TypeOK, DequeOK, Room
<1>7. /\ kept \in Seq(Entry) /\ Len(kept) < Room
      /\ Len(kept) = IF Full THEN Len(entries) - 1 ELSE Len(entries)
      /\ \A i \in DOMAIN kept : kept[i] = IF Full THEN entries[i + 1] ELSE entries[i]
  <2>1. CASE Full
    <3>1. entries # <<>>
      BY <1>6, <2>1 DEF Full
    <3>2. QED BY <1>6, <2>1, <3>1
  <2>2. CASE ~Full
    BY <1>6, <2>2 DEF Full
  <2>3. QED BY <2>1, <2>2
<1>8. Full <=> Len(entries) = Room
  BY <1>6 DEF Full
<1> HIDE DEF kept
<1>9. /\ entries' \in Seq(Entry) /\ Len(entries') = Len(kept) + 1
      /\ arrived' \in Seq(Entry) /\ Len(arrived') = Len(arrived) + 1
      /\ \A i \in 1 .. Len(kept) + 1 : entries'[i] = IF i <= Len(kept) THEN kept[i] ELSE e
      /\ \A i \in 1 .. Len(arrived) + 1 :
            arrived'[i] = IF i <= Len(arrived) THEN arrived[i] ELSE e
  BY <1>3, <1>4, <1>6, <1>7
<1>10. DequeOK'
  <2> DEFINE n == Len(arrived)
             l == Len(entries)
             k == Len(kept)
  <2>1. /\ n \in Nat /\ l \in Nat /\ k \in Nat /\ l <= n /\ k < Room
        /\ (l < Room => l = n) /\ k = (IF l = Room THEN l - 1 ELSE l)
        /\ \A i \in 1 .. l : entries[i] = arrived[n - l + i]
        /\ \A i \in 1 .. k : kept[i] = IF l = Room THEN entries[i + 1] ELSE entries[i]
        /\ Len(entries') = k + 1 /\ Len(arrived') = n + 1
        /\ DOMAIN entries' = 1 .. k + 1
    <3>1. n \in Nat /\ l \in Nat /\ k \in Nat /\ k < Room
      BY <1>6, <1>7
    <3>2. l <= n /\ (l < Room => l = n) /\ \A i \in 1 .. l : entries[i] = arrived[n - l + i]
      <4>1. DOMAIN entries = 1 .. l
        BY <1>6
      <4>2. QED BY <4>1 DEF DequeOK
    <3>3. k = (IF l = Room THEN l - 1 ELSE l)
      BY <1>7, <1>8
    <3>4. \A i \in 1 .. k : kept[i] = IF l = Room THEN entries[i + 1] ELSE entries[i]
      <4>1. DOMAIN kept = 1 .. k
        BY <1>7
      <4>2. QED BY <1>7, <1>8, <4>1
    <3>5. Len(entries') = k + 1 /\ Len(arrived') = n + 1 /\ DOMAIN entries' = 1 .. k + 1
      BY <1>9, <3>1
    <3>6. QED BY <3>1, <3>2, <3>3, <3>4, <3>5
  <2>2. /\ \A i \in 1 .. k + 1 : entries'[i] = IF i <= k THEN kept[i] ELSE e
        /\ \A i \in 1 .. n + 1 : arrived'[i] = IF i <= n THEN arrived[i] ELSE e
    BY <1>9
  <2> HIDE DEF n, l, k
  <2>3. \A i \in 1 .. k + 1 : entries'[i] = arrived'[n - k + i]
    <3> SUFFICES ASSUME NEW i \in 1 .. k + 1
                 PROVE  entries'[i] = arrived'[n - k + i]
      OBVIOUS
    <3> /\ n \in Nat /\ l \in Nat /\ k \in Nat /\ Room \in Nat /\ l <= n
        /\ (l < Room => l = n) /\ k = IF l = Room THEN l - 1 ELSE l
      BY <1>6, <2>1
    <3>1. CASE i = k + 1
      <4>1. ~(i <= k) /\ n - k + i = n + 1 /\ n + 1 \in 1 .. n + 1 /\ ~(n + 1 <= n)
        BY <3>1
      <4>2. entries'[i] = e /\ arrived'[n + 1] = e
        BY <2>2, <4>1
      <4>3. QED BY <4>1, <4>2
    <3>2. CASE i \in 1 .. k /\ l = Room
      <4>1. i + 1 \in 1 .. l /\ n - l + (i + 1) = n - k + i /\ n - k + i \in 1 .. n
        BY <3>2
      <4>2. kept[i] = entries[i + 1] /\ entries[i + 1] = arrived[n - k + i]
        BY <2>1, <3>2, <4>1
      <4>3. i <= k /\ n - k + i <= n /\ n - k + i \in 1 .. n + 1
        BY <3>2, <4>1
      <4>4. entries'[i] = kept[i] /\ arrived'[n - k + i] = arrived[n - k + i]
        BY <2>2, <4>3
      <4>5. QED BY <4>2, <4>4
    <3>3. CASE i \in 1 .. k /\ l # Room
      <4>1. i \in 1 .. l /\ n - l + i = n - k + i /\ n - k + i \in 1 .. n
        BY <3>3
      <4>2. kept[i] = entries[i] /\ entries[i] = arrived[n - k + i]
        BY <2>1, <3>3, <4>1
      <4>3. i <= k /\ n - k + i <= n /\ n - k + i \in 1 .. n + 1
        BY <3>3, <4>1
      <4>4. entries'[i] = kept[i] /\ arrived'[n - k + i] = arrived[n - k + i]
        BY <2>2, <4>3
      <4>5. QED BY <4>2, <4>4
    <3>4. QED BY <2>1, <3>1, <3>2, <3>3
  <2>4. Len(entries) \in Nat /\ Len(entries) <= Room
    BY <1>6
  <2>5. /\ k + 1 <= Room /\ k + 1 <= n + 1 /\ (k + 1 < Room => k + 1 = n + 1)
    BY <1>6, <2>1, <2>4 DEF l
  <2>6. \A i \in DOMAIN entries' :
            entries'[i] = arrived'[Len(arrived') - Len(entries') + i]
    <3> SUFFICES ASSUME NEW i \in DOMAIN entries'
                 PROVE  entries'[i] = arrived'[Len(arrived') - Len(entries') + i]
      OBVIOUS
    <3>1. i \in 1 .. k + 1
      BY <2>1
    <3>2. Len(arrived') - Len(entries') + i = n - k + i
      BY <2>1, <3>1
    <3>3. QED BY <2>3, <3>1, <3>2
  <2>7. /\ Len(entries') <= Room /\ Len(entries') <= Len(arrived')
        /\ Len(entries') < Room => Len(entries') = Len(arrived')
    BY <2>1, <2>5
  <2>8. QED BY <1>9, <2>6, <2>7 DEF DequeOK, Room
<1>11. /\ rf \in [{"received", "evicted", "matched", "unmatched"} -> Nat]
       /\ rf' \in [{"received", "evicted", "matched", "unmatched"} -> Nat]
       /\ rf'.received = rf.received + 1
       /\ rf'.evicted = rf.evicted + (IF Full THEN 1 ELSE 0)
       /\ rf'.matched = rf.matched /\ rf'.unmatched = rf.unmatched
  <2>1. rf \in [{"received", "evicted", "matched", "unmatched"} -> Nat]
    BY DEF TypeOK
  <2>0. /\ rf.received \in Nat /\ rf.evicted \in Nat /\ rf.matched \in Nat
        /\ rf.unmatched \in Nat
        /\ rf.received + 1 \in Nat /\ rf.evicted + 1 \in Nat /\ rf.evicted + 0 = rf.evicted
    BY <2>1
  <2>2. CASE Full
    <3>1. rf' = [rf EXCEPT !.received = rf.received + 1, !.evicted = rf.evicted + 1]
      BY <1>4, <2>1, <2>2
    <3>2. /\ rf' \in [{"received", "evicted", "matched", "unmatched"} -> Nat]
          /\ rf'.received = rf.received + 1 /\ rf'.evicted = rf.evicted + 1
          /\ rf'.matched = rf.matched /\ rf'.unmatched = rf.unmatched
      BY <2>1, <2>0, <3>1
    <3>3. QED BY <2>1, <2>2, <3>2
  <2>3. CASE ~Full
    <3>1. rf' = [rf EXCEPT !.received = rf.received + 1]
      BY <1>4, <2>1, <2>3
    <3>2. /\ rf' \in [{"received", "evicted", "matched", "unmatched"} -> Nat]
          /\ rf'.received = rf.received + 1 /\ rf'.evicted = rf.evicted
          /\ rf'.matched = rf.matched /\ rf'.unmatched = rf.unmatched
      BY <2>1, <2>0, <3>1
    <3>3. QED BY <2>0, <2>1, <2>3, <3>2
  <2>4. QED BY <2>2, <2>3
<1>12. TypeOK'
  <2>1. entries' \in Seq(Entry) /\ Len(entries') <= Room
    BY <1>6, <1>7, <1>9
  <2>2. QED BY <1>1, <1>5, <1>11, <2>1 DEF TypeOK, Room, Jobs
<1>13. PickedOK'
  <2>1. Messages' = Messages
    BY <1>5 DEF Messages
  <2>2. \A j : Picked(j) => Picked(j)'
    <3> TAKE j
    <3>1. HAVE Picked(j)
    <3>2. /\ j.seen \in 0 .. Len(arrived')
          /\ Asked(j) =>
               IF j.sample = None
               THEN \A x \in Recent(j.seen)' : Distance(x.t, j.at) > Window
               ELSE /\ j.sample \in Recent(j.seen)'
                    /\ Distance(j.sample.t, j.at) <= Window
                    /\ \A x \in Recent(j.seen)' :
                           Distance(j.sample.t, j.at) <= Distance(x.t, j.at)
      BY <1>3, <1>4, <1>6, <3>1, PickedStays
    <3>3. QED BY <3>2 DEF Picked, Asked
  <2>3. \A w \in Workers : pc'[w] # "idle" => Picked(job[w])'
    BY <1>5, <2>2 DEF PickedOK
  <2>4. \A m \in Messages : Picked(m)'
    BY <2>2 DEF PickedOK
  <2>5. QED BY <1>5, <2>1, <2>3, <2>4 DEF PickedOK
<1>14. Accounted'
  <2>1. rf'.received = Len(entries') + rf'.evicted
    <3>1. rf.received = Len(entries) + rf.evicted
      BY DEF Accounted
    <3>2. Len(entries) \in Nat
      BY <1>6
    <3>3. rf.evicted \in Nat /\ rf.received \in Nat /\ rf.evicted + 0 = rf.evicted
      BY <1>11
    <3>4. CASE Full
      BY <1>7, <1>9, <1>11, <3>1, <3>2, <3>3, <3>4
    <3>5. CASE ~Full
      BY <1>7, <1>9, <1>11, <3>1, <3>2, <3>3, <3>5
    <3>6. QED BY <3>4, <3>5
  <2>2. UNCHANGED Busy
    BY <1>5 DEF Busy
  <2>3. QED BY <1>5, <1>11, <2>1, <2>2 DEF Accounted, Asked, Bare
<1>15. QED BY <1>10, <1>12, <1>13, <1>14

LEMMA NextAInv == AInv /\ [Next]_vars => AInv'
<1> SUFFICES ASSUME AInv, [Next]_vars PROVE AInv'
  OBVIOUS
<1> USE DEF AInv
<1>1. PInv'
  BY NextPInv
<1>2. \E S : emitted \in Seq(S)
  BY DEF PInv, EmittedOK
<1>3. DOMAIN pc = Workers /\ DOMAIN job = Workers
  BY DEF PInv, JobsOK
<1>4. ASSUME UNCHANGED rfVars PROVE DequeOK'
  BY <1>4 DEF rfVars, DequeOK, Room
<1>5. ASSUME UNCHANGED <<rfVars, pc, job, emitted>> PROVE PickedOK'
  BY <1>5 DEF rfVars, PickedOK, Picked, Recent, Messages, Asked
<1>6. CASE Receive
  <2>1. /\ received' = received + 1 /\ received < MaxFrames /\ Passes
        /\ UNCHANGED <<rfVars, cache, pc, job, metrics, emitted>>
    BY <1>6 DEF Receive
  <2>2. PICK f \in FrameInputs : queue' = Append(queue, [frame |-> f, at |-> now'])
    BY <1>6 DEF Receive
  <2>3. now' \in 0..MaxTime
    BY <2>1, ProcessingAssumption DEF Passes, TypeOK
  <2>4. /\ queue' \in Seq([frame : FrameInputs, at : 0..MaxTime])
        /\ Len(queue') = Len(queue) + 1 /\ Len(queue) \in Nat
    BY <2>2, <2>3 DEF TypeOK
  <2>5. TypeOK'
    BY <2>1, <2>3, <2>4, ProcessingAssumption DEF rfVars, TypeOK, Room, Jobs
  <2>6. Busy' = Busy
    BY <2>1 DEF Busy
  <2>7. received = Len(queue) + metrics.parse_errors + Cardinality(Busy) + Len(emitted)
    BY DEF Accounted
  <2>8. metrics.parse_errors \in Nat /\ Cardinality(Busy) \in Nat /\ Len(emitted) \in Nat
    BY <1>2, BusyFinite DEF TypeOK
  <2>9. received' = Len(queue') + metrics'.parse_errors + Cardinality(Busy') + Len(emitted')
    <3> DEFINE b == Cardinality(Busy)
               l == Len(emitted)
               e == metrics.parse_errors
               q == Len(queue)
    <3>1. b \in Nat /\ l \in Nat /\ e \in Nat /\ q \in Nat /\ received = q + e + b + l
      BY <2>4, <2>7, <2>8
    <3>2. /\ Cardinality(Busy') = b /\ Len(emitted') = l /\ metrics'.parse_errors = e
          /\ Len(queue') = q + 1 /\ received' = received + 1
      BY <2>1, <2>4, <2>6
    <3> HIDE DEF b, l, e, q
    <3>3. QED BY <3>1, <3>2
  <2>10. Accounted'
    BY <2>1, <2>6, <2>9 DEF rfVars, Accounted, Asked, Bare
  <2>11. QED BY <1>1, <1>4, <1>5, <2>1, <2>5, <2>10
<1>7. CASE SampleArrives
  BY <1>1, <1>7, InsertKeeps
<1>8. ASSUME NEW w \in Workers, ParseError(w) PROVE AInv'
  <2>1. /\ queue # <<>> /\ queue' = Tail(queue)
        /\ metrics' = [metrics EXCEPT !.parse_errors = @ + 1]
        /\ UNCHANGED <<rfVars, now, received, cache, pc, job, emitted>>
    BY <1>8 DEF ParseError
  <2>2. /\ queue' \in Seq([frame : FrameInputs, at : 0..MaxTime])
        /\ Len(queue) = Len(queue') + 1 /\ Len(queue') \in Nat
    BY <2>1 DEF TypeOK
  <2>3. /\ metrics' \in [{"parse_errors", "tracking_errors", "anomalies"} -> Nat]
        /\ metrics'.parse_errors = metrics.parse_errors + 1 /\ metrics.parse_errors \in Nat
        /\ metrics'.tracking_errors = metrics.tracking_errors
    <3>1. metrics \in [{"parse_errors", "tracking_errors", "anomalies"} -> Nat]
      BY DEF TypeOK
    <3>2. metrics.parse_errors \in Nat /\ metrics.parse_errors + 1 \in Nat
      BY <3>1
    <3>3. metrics' = [metrics EXCEPT !.parse_errors = metrics.parse_errors + 1]
      BY <2>1, <3>1
    <3>4. QED BY <3>1, <3>2, <3>3
  <2>4. TypeOK'
    BY <2>1, <2>2, <2>3 DEF rfVars, TypeOK, Room, Jobs
  <2>5. Busy' = Busy
    BY <2>1 DEF Busy
  <2>6. received' = Len(queue') + metrics'.parse_errors + Cardinality(Busy') + Len(emitted')
    <3> DEFINE b == Cardinality(Busy)
               l == Len(emitted)
               e == metrics.parse_errors
               q == Len(queue')
    <3>1. received = Len(queue) + e + b + l
      BY DEF Accounted
    <3>2. /\ Cardinality(Busy') = b /\ Len(emitted') = l /\ metrics'.parse_errors = e + 1
          /\ Len(queue) = q + 1 /\ received' = received
      BY <2>1, <2>2, <2>3, <2>5
    <3>3. b \in Nat /\ l \in Nat /\ e \in Nat /\ q \in Nat
      BY <1>2, <2>2, <2>3, BusyFinite
    <3> HIDE DEF b, l, e, q
    <3>4. QED BY <3>1, <3>2, <3>3 DEF q
  <2>7. Accounted'
    BY <2>1, <2>3, <2>5, <2>6 DEF rfVars, Accounted, Asked, Bare
  <2>8. QED BY <1>1, <1>4, <1>5, <2>1, <2>4, <2>7
<1>9. ASSUME NEW w \in Workers, Start(w) PROVE AInv'
  <2>1. UNCHANGED <<entries, arrived>>
    BY <1>9 DEF Start, rfVars, Lookup
  <2>2. DequeOK'
    BY <2>1 DEF DequeOK, Room
  <2>3. QED BY <1>1, <1>9, <2>2, StartKeeps
<1>10. ASSUME NEW w \in Workers, CacheHit(w) PROVE AInv'
  <2>1. /\ pc[w] # "idle" /\ Emit(w, cache.state) /\ cache # None
        /\ UNCHANGED <<rfVars, now, received, queue, cache>>
    BY <1>10 DEF CacheHit, Cached
  <2>2. cache \in [at : Int, state : Int] /\ cache.state \in Int \cup {None}
    <3>1. cache \in [at : Int, state : Int] \cup {None}
      BY DEF TypeOK
    <3>2. cache \in [at : Int, state : Int]
      BY <2>1, <3>1
    <3>3. QED BY <3>2
  <2>3. cache' = cache
    BY <2>1
  <2>4. TypeOK' /\ PickedOK' /\ Accounted'
    BY <2>1, <2>2, <2>3, EmitAccounts
  <2>5. QED BY <1>1, <1>4, <2>1, <2>4
<1>11. ASSUME NEW w \in Workers, Compute(w) PROVE AInv'
  <2>1. /\ pc[w] = "track" /\ Step(w, "store", job[w])
        /\ UNCHANGED <<rfVars, now, received, queue, cache, metrics, emitted>>
    BY <1>11 DEF Compute
  <2>2. pc' = [pc EXCEPT ![w] = "store"] /\ \A x \in Workers : job'[x] = job[x]
    BY <1>3, <2>1 DEF Step
  <2>3. TypeOK'
    <3>1. \A x \in Workers :
            \/ pc'[x] = "idle" /\ job'[x] = None
            \/ pc'[x] \in {"track", "store"} /\ job'[x] \in Jobs
      BY <1>3, <2>1, <2>2 DEF TypeOK
    <3>2. QED BY <2>1, <3>1 DEF rfVars, TypeOK, Room, Jobs
  <2>4. \A x \in Workers : pc'[x] # "idle" <=> pc[x] # "idle"
    BY <1>3, <2>1, <2>2
  <2>5. PickedOK'
    <3>1. \A x \in Workers : pc'[x] # "idle" => Picked(job'[x])
      BY <2>2, <2>4 DEF PickedOK
    <3>2. \A x \in Messages' : Picked(x)
      BY <2>1 DEF Messages, PickedOK
    <3>3. UNCHANGED <<entries, arrived>>
      BY <2>1 DEF rfVars
    <3>4. QED BY <3>1, <3>2, <3>3 DEF PickedOK, Picked, Recent, Asked
  <2>6. Busy' = Busy
    BY <2>4 DEF Busy
  <2>7. {x \in Busy' : Asked(job'[x])} = {x \in Busy : Asked(job[x])}
    BY <2>2, <2>6 DEF Busy
  <2>8. Accounted'
    BY <2>1, <2>6, <2>7 DEF rfVars, Accounted, Asked, Bare
  <2>9. DequeOK'
    BY <1>4, <2>1
  <2>10. QED BY <1>1, <2>3, <2>5, <2>8, <2>9
<1>12. ASSUME NEW w \in Workers, StoreState(w) PROVE AInv'
  <2>1. /\ pc[w] # "idle" /\ Emit(w, job[w].time)
        /\ cache' = [at |-> job[w].time, state |-> job[w].time]
        /\ UNCHANGED <<rfVars, now, received, queue>>
    BY <1>12 DEF StoreState
  <2>2. job[w].time \in Int
    BY <2>1 DEF TypeOK, Jobs
  <2>3. TypeOK' /\ PickedOK' /\ Accounted'
    BY <2>1, <2>2, EmitAccounts
  <2>4. QED BY <1>1, <1>4, <2>1, <2>3
<1>13. ASSUME NEW w \in Workers, NoPhysics(w) PROVE AInv'
  <2>1. /\ pc[w] # "idle" /\ Emit(w, None)
        /\ UNCHANGED <<rfVars, now, received, queue, cache>>
    BY <1>13 DEF NoPhysics
  <2>2. cache' \in [at : Int, state : Int] \cup {None}
    BY <2>1 DEF TypeOK
  <2>3. TypeOK' /\ PickedOK' /\ Accounted'
    BY <2>1, <2>2, EmitAccounts
  <2>4. QED BY <1>1, <1>4, <2>1, <2>3
<1>14. CASE UNCHANGED vars
  <2>1. UNCHANGED <<rfVars, entries, rf, arrived, now, received, queue, cache, pc, job, metrics, emitted>>
    BY <1>14 DEF vars, rfVars
  <2>2. TypeOK'
    BY <2>1 DEF TypeOK, Room, Jobs
  <2>3. Busy' = Busy
    BY <2>1 DEF Busy
  <2>4. Accounted'
    BY <2>1, <2>3 DEF Accounted, Asked, Bare
  <2>5. QED BY <1>1, <1>4, <1>5, <2>1, <2>2, <2>4
<1>15. QED
  BY <1>6, <1>7, <1>8, <1>9, <1>10, <1>11, <1>12, <1>13, <1>14 DEF Next

-----------------------------------------------------------------------------
(* What follows from it. *)

\* The deque is the newest of what arrived, what is in hand was picked well, and
\* nothing is missing.
THEOREM AccountInvariance == Spec => []AInv
BY InitAInv, NextAInv, PTL DEF Spec

\* The deque stays within its capacity and a packet is one worker's.
THEOREM TypeCorrect == Spec => []TypeOK
<1>1. AInv => TypeOK
  BY DEF AInv
<1>2. QED BY <1>1, AccountInvariance, PTL

\* A frame is judged by the nearest of the last rf.capacity samples, in whatever
\* order they were stamped.
THEOREM TheNearestIsUsed == Spec => []NearestSampleUsed
<1>1. AInv => NearestSampleUsed
  BY DEF AInv, PickedOK, Picked, NearestSampleUsed
<1>2. QED BY <1>1, AccountInvariance, PTL

\* No packet and no lookup goes uncounted, and none goes out silently without physics.
THEOREM NothingUncounted == Spec => []Accounted
<1>1. AInv => Accounted
  BY DEF AInv
<1>2. QED BY <1>1, AccountInvariance, PTL

(***************************************************************************)
(* The programs that stand in for a spacecraft and its receiver.  The      *)
(* inductive invariant compares what was sent for different packets after  *)
(* taking off the pauses between them: so seen, everything is sent and     *)
(* arrives in the order of the packets' numbers, up to the jitter.         *)
(***************************************************************************)

\* What the sender is about to send, and what is under way, stored or judged.
ItemType ==
    [rf : (SUBSET RfChecks) \cup {None}, place : Nat \cup {None}, hil : SUBSET Subsystems,
     datagrams : Nat, stampable : BOOLEAN]
Judgement ==
    [n : Nat, sample : Measurement \cup {None}, alarms : SUBSET (RfChecks \cup Subsystems)]

SimTypeOK ==
    /\ step \in {"load", "sample", "packet", "done", "failed"}
    /\ plan \in Plans /\ items \in Seq(ItemType)
    /\ sent \in Nat /\ wake \in Nat /\ clock \in Nat
    /\ samples \in Seq([n : Nat, at : Nat])
    /\ packets \in Seq([n : Nat, at : Nat, left : Int])
    /\ waiting \in Seq([n : Nat, at : Nat])
    /\ arrived \in Seq(Measurement) /\ entries \in Seq(Measurement)
    /\ judged \in Seq(Judgement)

\* The items are those of the command line.
ItemsOK ==
    /\ plan.tool = "sim" => \A n \in 1 .. Len(items) : items[n] = SimItem(plan, n - 1)
    /\ step = "load" => /\ samples = <<>> /\ packets = <<>> /\ waiting = <<>>
                        /\ arrived = <<>> /\ judged = <<>> /\ sent = 0
                        /\ wake = 0 /\ clock = 0
    /\ step \in {"sample", "packet"} => N <= Len(items) /\ clock <= wake + Late
    /\ sent <= Len(items)

\* Time x at packet n, less the pauses before it.
Due(p, n, x) == x - n * PauseOf(p)

\* At time x packet n has come after sample e that arrived, or r that was sent.
After(p, e, n, x) == Due(p, e.of, e.t) + LeadOf(p) <= Due(p, n, x) + Jitter
AfterSent(p, r, n, x) == Due(p, r.n, r.at) + LeadOf(p) <= Due(p, n, x)

\* The sender is past the sample of packet n.
Begun(n) == n <= sent \/ (n = N /\ step \notin {"load", "sample"})

\* The deque is the newest of what arrived.
StoredOK ==
    /\ Len(entries) <= Room /\ Len(entries) <= Len(arrived)
    /\ Len(entries) < Room => Len(entries) = Len(arrived)
    /\ \A i \in 1 .. Len(entries) : entries[i] = arrived[Len(arrived) - Len(entries) + i]

\* A sample that arrived is that of the packet it names.
EntryOK(e) ==
    /\ e.of \in 1 .. Len(items) /\ Measured(e.of) /\ Begun(e.of)
    /\ e.place = items[e.of].place /\ e.faults = items[e.of].rf
    /\ e.t <= clock /\ After(plan, e, N, wake)
    /\ e.of = N => wake - LeadOf(plan) <= e.t

ArrivedOK ==
    /\ StoredOK
    /\ \A k \in 1 .. Len(arrived) : EntryOK(arrived[k])
    /\ \A j, k \in 1 .. Len(arrived) : j < k =>
          /\ k - j <= arrived[k].of - arrived[j].of
          /\ After(plan, arrived[j], arrived[k].of, arrived[k].t)

\* So is one under way; it comes after all that arrived.
SampleOK(r) ==
    /\ r.n \in 1 .. Len(items) /\ Measured(r.n) /\ Begun(r.n)
    /\ r.at <= clock /\ clock <= r.at + Jitter /\ AfterSent(plan, r, N, wake)
    /\ r.n <= sent => r.at + LeadOf(plan) <= clock
    /\ r.n = N => r.at + LeadOf(plan) = wake

SamplesOK ==
    /\ \A i \in 1 .. Len(samples) : SampleOK(samples[i])
    /\ \A i \in 1 .. Len(samples), k \in 1 .. Len(arrived) :
          arrived[k].of < samples[i].n /\ After(plan, arrived[k], samples[i].n, samples[i].at)
    /\ \A i, j \in 1 .. Len(samples) : i < j =>
          samples[i].n < samples[j].n /\ AfterSent(plan, samples[i], samples[j].n, samples[j].at)

\* What is not lost has arrived or is under way.
Present(n) ==
    \/ \E k \in 1 .. Len(arrived) : arrived[k].of = n
    \/ \E i \in 1 .. Len(samples) : samples[i].n = n
OwnOK == \A n \in 1 .. Len(items) : Owns(n) /\ Begun(n) => Present(n)

\* Packet n, sent at b, came after the samples of its number and before, shortly after
\* its own, and before the others.
EntryTimed(p, e, n, b) ==
    /\ e.of <= n => After(p, e, n, b)
    /\ e.of = n => b - LeadOf(p) - Late <= e.t
    /\ e.of > n => Due(p, n, b) <= Due(p, e.of, e.t)
SampleTimed(p, r, n, b) ==
    /\ r.n <= n => AfterSent(p, r, n, b)
    /\ r.n = n => b - LeadOf(p) - Late <= r.at
    /\ r.n > n => Due(p, n, b) <= Due(p, r.n, r.at)
Timed(n, b) ==
    /\ Due(plan, n, b) <= Due(plan, N, wake)
    /\ \A k \in 1 .. Len(arrived) : EntryTimed(plan, arrived[k], n, b)
    /\ \A i \in 1 .. Len(samples) : SampleTimed(plan, samples[i], n, b)

PacketOK(d) ==
    /\ d.n \in 1 .. sent /\ d.at <= clock /\ clock <= d.at + Jitter
    /\ Timed(d.n, d.at)

WaitingOK(d) ==
    /\ d.n \in 1 .. sent /\ d.at <= clock /\ clock <= d.at + Lag
    /\ \E b \in Nat : b <= d.at /\ d.at <= b + Jitter /\ Timed(d.n, b)

UnderWayOK ==
    /\ \A d \in ToSet(packets) : PacketOK(d)
    /\ \A d \in ToSet(waiting) : WaitingOK(d)

JudgedOK ==
    /\ \A m \in ToSet(judged) : m.n \in 1 .. sent
    /\ JudgedByTheNearest

SimInv == SimTypeOK /\ ItemsOK /\ ArrivedOK /\ SamplesOK /\ OwnOK /\ UnderWayOK /\ JudgedOK

-----------------------------------------------------------------------------
(* Facts about the operators. *)

LEMMA Times ==
    /\ Lead \in Nat /\ Pause \in Nat /\ Jitter \in Nat /\ Late \in Nat /\ Lag \in Nat
    /\ MaxRate \in Nat /\ RfCapacity \in Nat /\ Window \in Nat
    /\ Room \in Nat /\ Room > 0 /\ (RfCapacity > 0 => Room = RfCapacity)
BY TimesAssumption, RfAssumption DEF Room

LEMMA PlanTypes ==
    ASSUME NEW p \in Plans
    PROVE  LeadOf(p) \in Nat /\ PauseOf(p) \in Nat
<1>1. CASE p \in Simulation
  BY <1>1, Times DEF Simulation, LeadOf, PauseOf
<1>2. CASE p \in Recording
  BY <1>2, Times DEF Recording, LeadOf, PauseOf
<1>3. QED BY <1>1, <1>2, PlansAssumption

LEMMA NotNegative ==
    ASSUME NEW a \in Nat, NEW b \in Nat
    PROVE  a * b \in Nat
OBVIOUS

\* A packet's due time goes with the clock, and its pause leads to the next one's.
LEMMA DueType ==
    ASSUME NEW p \in Plans, NEW n \in Nat, NEW x \in Int
    PROVE  Due(p, n, x) \in Int
BY PlanTypes DEF Due

LEMMA DueLater ==
    ASSUME NEW p \in Plans, NEW n \in Nat, NEW x \in Int, NEW y \in Int
    PROVE  Due(p, n, y) = Due(p, n, x) + (y - x)
<1>1. n * PauseOf(p) \in Int
  BY PlanTypes
<1>2. QED BY <1>1 DEF Due

LEMMA DueNext ==
    ASSUME NEW p \in Plans, NEW n \in Nat, NEW x \in Int
    PROVE  Due(p, n + 1, x + PauseOf(p)) = Due(p, n, x)
<1>1. PauseOf(p) \in Nat
  BY PlanTypes
<1>2. n * PauseOf(p) \in Nat
  BY <1>1, NotNegative
<1>3. (n + 1) * PauseOf(p) = n * PauseOf(p) + PauseOf(p)
  BY <1>1
<1>4. QED BY <1>1, <1>2, <1>3 DEF Due

\* How far apart two packets are when their due times are in order.
LEMMA DueApart ==
    ASSUME NEW p \in Plans, NEW n \in Nat, NEW m \in Nat, n <= m,
           NEW x \in Int, NEW y \in Int, NEW c \in Int, Due(p, n, x) + c <= Due(p, m, y)
    PROVE  /\ (m - n) * PauseOf(p) \in Nat
           /\ x + c + (m - n) * PauseOf(p) <= y /\ x + c <= y
<1>1. PauseOf(p) \in Nat /\ m - n \in Nat
  BY PlanTypes
<1>2. n * PauseOf(p) \in Nat /\ m * PauseOf(p) \in Nat /\ (m - n) * PauseOf(p) \in Nat
  BY <1>1, NotNegative
<1>3. m * PauseOf(p) = n * PauseOf(p) + (m - n) * PauseOf(p)
  BY <1>1
<1>4. QED BY <1>2, <1>3 DEF Due

LEMMA FaultsType ==
    ASSUME NEW K, NEW s \in Scripts(K), NEW i
    PROVE  Faults(s, i) \in SUBSET K
BY DEF Faults, Hit, Scripts

LEMMA ItemBuilt ==
    ASSUME NEW r \in (SUBSET RfChecks) \cup {None}, NEW p \in Nat \cup {None},
           NEW h \in SUBSET Subsystems, NEW d \in Nat, NEW b \in BOOLEAN
    PROVE  [rf |-> r, place |-> p, hil |-> h, datagrams |-> d, stampable |-> b] \in ItemType
BY DEF ItemType

LEMMA TableIsSequence ==
    ASSUME NEW S, NEW m \in Nat, NEW f \in [1 .. m -> S]
    PROVE  f \in Seq(S)
OBVIOUS

\* A simulation's frames, a recording's packets.
LEMMA LoadedItems ==
    ASSUME plan \in Plans, ~Refused(plan)
    PROVE  /\ plan.tool = "sim" =>
                 /\ SimItems(plan) \in Seq(ItemType)
                 /\ \A n \in 1 .. Len(SimItems(plan)) : SimItems(plan)[n] = SimItem(plan, n - 1)
           /\ plan.tool # "sim" => ReplayItems(plan) \in Seq(ItemType)
<1>1. ASSUME plan.tool = "sim"
      PROVE  /\ SimItems(plan) \in Seq(ItemType)
             /\ \A n \in 1 .. Len(SimItems(plan)) : SimItems(plan)[n] = SimItem(plan, n - 1)
  <2>1. plan \in Simulation /\ Len(plan.sky) >= plan.frames
    BY <1>1, PlansAssumption DEF Recording
  <2>2. /\ plan.frames \in Nat /\ plan.sky \in Seq(Nat \cup {None})
        /\ plan.rfScript \in Scripts(RfChecks) /\ plan.script \in Scripts(Subsystems)
    BY <2>1 DEF Simulation
  <2>3. ASSUME NEW k \in 1 .. plan.frames PROVE SimItem(plan, k - 1) \in ItemType
    <3>1. plan.sky[k - 1 + 1] \in Nat \cup {None}
      <4>1. k - 1 + 1 = k /\ k \in 1 .. Len(plan.sky)
        BY <2>1, <2>2
      <4>2. QED BY <2>2, <4>1
    <3>2. /\ Faults(plan.rfScript, k - 1) \in SUBSET RfChecks
          /\ Faults(plan.script, k - 1) \in SUBSET Subsystems
      BY <2>2, FaultsType
    <3>3. (IF k - 1 > MaxRate THEN {"rate"} ELSE {}) \in SUBSET Subsystems
      BY DEF Subsystems
    <3> DEFINE place == plan.sky[k - 1 + 1]
               r == IF plan.rfDest /\ plan.sky[k - 1 + 1] # None
                    THEN Faults(plan.rfScript, k - 1) ELSE None
               h == Faults(plan.script, k - 1) \cup (IF k - 1 > MaxRate THEN {"rate"} ELSE {})
    <3>4. r \in (SUBSET RfChecks) \cup {None} /\ h \in SUBSET Subsystems
      <4>1. r \in (SUBSET RfChecks) \cup {None}
        BY <3>2
      <4>2. h \in SUBSET Subsystems
        BY <3>2, <3>3
      <4>3. QED BY <4>1, <4>2
    <3>5. SimItem(plan, k - 1) = [rf |-> r, place |-> place, hil |-> h,
                                  datagrams |-> 1, stampable |-> TRUE]
      BY DEF SimItem
    <3>6. place \in Nat \cup {None}
      BY <3>1
    <3> HIDE DEF place, r, h
    <3>7. QED BY <3>4, <3>5, <3>6, ItemBuilt
  <2>4. QED BY <2>2, <2>3 DEF SimItems
<1>2. ASSUME plan.tool # "sim" PROVE ReplayItems(plan) \in Seq(ItemType)
  <2>1. plan \in Recording /\ Once(plan) \in Seq(RecordedLine) /\ Once(plan) # <<>>
    BY <1>2, PlansAssumption DEF Simulation, Refused, Readable
  <2> DEFINE o == Once(plan)
  <2> HIDE DEF o
  <2>2. o \in Seq(RecordedLine) /\ Len(o) \in Nat /\ Len(o) > 0 /\ plan.repeat \in Nat
    <3>1. o \in Seq(RecordedLine) /\ o # <<>> /\ plan.repeat \in Nat
      BY <2>1 DEF o, Recording
    <3>2. QED BY <3>1
  <2>3. plan.repeat * Len(o) \in Nat
    BY <2>2, NotNegative
  <2>4. ASSUME NEW k \in 1 .. plan.repeat * Len(o)
        PROVE  LineItem(plan, o[1 + ((k - 1) % Len(o))]) \in ItemType
    <3>1. k - 1 \in Int
      BY <2>3
    <3>2. (k - 1) % Len(o) \in 0 .. Len(o) - 1
      BY <3>1, <2>2
    <3>3. 1 + ((k - 1) % Len(o)) \in 1 .. Len(o)
      BY <3>2, <2>2
    <3>4. o[1 + ((k - 1) % Len(o))] \in RecordedLine
      BY <3>3, <2>2
    <3> DEFINE line == o[1 + ((k - 1) % Len(o))]
    <3>5. line \in RecordedLine
      BY <3>4
    <3> HIDE DEF line
    <3>6. /\ line.rf \in (SUBSET RfChecks) \cup {None} /\ line.place \in Nat \cup {None}
          /\ line.hil \in SUBSET Subsystems /\ line.datagrams \in Nat /\ line.stampable \in BOOLEAN
      BY <3>5 DEF RecordedLine
    <3>7. LineItem(plan, line) \in ItemType
      BY <3>6 DEF LineItem, ItemType
    <3>8. QED BY <3>7 DEF line
  <2>5. ReplayItems(plan) =
          [k \in 1 .. plan.repeat * Len(o) |-> LineItem(plan, o[1 + ((k - 1) % Len(o))])]
    BY DEF ReplayItems, o
  <2>6. ReplayItems(plan) \in [1 .. plan.repeat * Len(o) -> ItemType]
    BY <2>4, <2>5
  <2>7. QED BY <2>3, <2>6, TableIsSequence
<1>3. QED BY <1>1, <1>2

LEMMA MeasurementFields ==
    ASSUME NEW e \in Measurement
    PROVE  /\ e.t \in Nat /\ e.of \in Nat
           /\ e.place \in Nat \cup {None} /\ e.faults \in SUBSET RfChecks
BY DEF Measurement

LEMMA StampsType ==
    ASSUME NEW s \in Seq(Measurement)
    PROVE  /\ Len(s) \in Nat /\ DOMAIN s = 1 .. Len(s)
           /\ \A i \in 1 .. Len(s) : s[i] \in Measurement /\ s[i].t \in Nat
<1>1. \A i \in 1 .. Len(s) : s[i] \in Measurement
  OBVIOUS
<1>2. \A i \in 1 .. Len(s) : s[i].t \in Nat
  BY <1>1, MeasurementFields
<1>3. QED BY <1>1, <1>2

LEMMA FoundType ==
    ASSUME SimTypeOK, NEW t \in Int
    PROVE  Found(t) \in Measurement \cup {None}
<1>1. CASE ~RfOn \/ Candidates(t) = {}
  BY <1>1 DEF Found
<1>2. CASE RfOn /\ Candidates(t) # {}
  <2>1. entries \in Seq(Measurement) /\ \A i \in DOMAIN entries : entries[i].t \in Int
    <3>1. entries \in Seq(Measurement)
      BY DEF SimTypeOK
    <3>2. \A i \in DOMAIN entries : entries[i].t \in Nat
      BY <3>1, StampsType
    <3>3. QED BY <3>1, <3>2
  <2>2. Nearest(t) \in Candidates(t)
    BY <1>2, <2>1, NearestFirst
  <2>3. Nearest(t) \in DOMAIN entries
    BY <2>2 DEF Candidates
  <2>4. Found(t) = entries[Nearest(t)]
    BY <1>2 DEF Found
  <2>5. QED BY <2>1, <2>3, <2>4
<1>3. QED BY <1>1, <1>2

LEMMA DistanceType ==
    ASSUME NEW a \in Int, NEW b \in Int
    PROVE  Distance(a, b) \in Nat
BY DEF Distance

-----------------------------------------------------------------------------
(* Types. *)

LEMMA SimInitOK == SimInit => SimInv
<1> SUFFICES ASSUME SimInit PROVE SimInv
  OBVIOUS
<1> USE DEF SimInit, RfInit
<1>1. SimTypeOK
  BY DEF SimTypeOK
<1>2. Len(items) = 0 /\ Len(samples) = 0 /\ Len(arrived) = 0 /\ Len(entries) = 0
  OBVIOUS
<1>3. ItemsOK
  BY <1>2 DEF ItemsOK
<1>4. ArrivedOK
  BY <1>2, Times DEF ArrivedOK, StoredOK
<1>5. SamplesOK /\ OwnOK
  BY <1>2 DEF SamplesOK, OwnOK
<1>6. ToSet(packets) = {} /\ ToSet(waiting) = {} /\ ToSet(judged) = {}
  BY DEF ToSet
<1>7. UnderWayOK /\ JudgedOK
  BY <1>6 DEF UnderWayOK, JudgedOK, JudgedByTheNearest
<1>8. QED BY <1>1, <1>3, <1>4, <1>5, <1>7 DEF SimInv

LEMMA ElementOfSeq ==
    ASSUME NEW S, NEW s \in Seq(S), NEW i \in 1 .. Len(s)
    PROVE  s[i] \in S
OBVIOUS

\* What is sent next.
\* What is sent next.
LEMMA NextItem ==
    ASSUME SimTypeOK, ItemsOK, step \in {"sample", "packet"}
    PROVE  /\ N \in Nat /\ N \in 1 .. Len(items) /\ Item \in ItemType
           /\ clock <= wake + Late
<1>1. N \in 1 .. Len(items)
  BY DEF SimTypeOK, ItemsOK, N
<1>2. QED BY <1>1 DEF SimTypeOK, ItemsOK, Item

LEMMA ItemFields ==
    ASSUME NEW n \in 1 .. Len(items), items \in Seq(ItemType)
    PROVE  /\ items[n].rf \in (SUBSET RfChecks) \cup {None}
           /\ items[n].place \in Nat \cup {None} /\ items[n].hil \in SUBSET Subsystems
           /\ items[n].datagrams \in Nat
<1>1. items[n] \in ItemType
  OBVIOUS
<1>2. QED BY <1>1 DEF ItemType

LEMMA MeasurementBuilt ==
    ASSUME NEW t \in Nat, NEW n \in Nat, NEW p \in Nat \cup {None}, NEW f \in SUBSET RfChecks
    PROVE  [t |-> t, of |-> n, place |-> p, faults |-> f] \in Measurement
BY DEF Measurement

\* The sample that arrives is a measurement of its packet's item.
LEMMA Arrives ==
    ASSUME SimTypeOK, SamplesOK, MeasurementsArrive
    PROVE  /\ samples # <<>> /\ 1 \in 1 .. Len(samples) /\ SampleOK(samples[1])
           /\ \E e \in Measurement :
              /\ e = [t |-> clock, of |-> samples[1].n, place |-> items[samples[1].n].place,
                      faults |-> items[samples[1].n].rf]
              /\ Insert(e) /\ samples' = Tail(samples) /\ samples # <<>>
              /\ UNCHANGED <<plan, items, step, sent, wake, clock, packets, waiting, judged, lost>>
<1> DEFINE n == samples[1].n
           e == [t |-> clock, of |-> n, place |-> items[n].place, faults |-> items[n].rf]
<1>1. samples # <<>> /\ samples \in Seq([n : Nat, at : Nat]) /\ clock \in Nat
  BY DEF MeasurementsArrive, SimTypeOK
<1>2. 1 \in 1 .. Len(samples) /\ Head(samples) = samples[1] /\ samples[1] \in [n : Nat, at : Nat]
  <2>1. 1 \in 1 .. Len(samples) /\ Head(samples) = samples[1]
    BY <1>1
  <2>2. QED BY <1>1, <2>1, HeadIsMember
<1>3. SampleOK(samples[1]) /\ n \in Nat
  BY <1>2 DEF SamplesOK
<1>4. n \in 1 .. Len(items) /\ Measured(n)
  BY <1>3 DEF SampleOK
<1>5. items[n].rf \in SUBSET RfChecks /\ items[n].place \in Nat \cup {None}
  <2> HIDE DEF n
  <2>1. QED BY <1>4, ItemFields DEF SimTypeOK, Measured
<1>6. e \in Measurement
  BY <1>1, <1>3, <1>5, MeasurementBuilt
<1>7. Insert(e) /\ samples' = Tail(samples)
  BY <1>2 DEF MeasurementsArrive
<1>8. UNCHANGED <<plan, items, step, sent, wake, clock, packets, waiting, judged, lost>>
  BY DEF MeasurementsArrive
<1> HIDE DEF e
<1>9. QED BY <1>1, <1>2, <1>3, <1>6, <1>7, <1>8 DEF e, n

\* What arrived and what is kept of it, after one more sample.
LEMMA Inserted ==
    ASSUME SimTypeOK, StoredOK, NEW e \in Measurement, Insert(e)
    PROVE  /\ arrived' = Append(arrived, e) /\ arrived' \in Seq(Measurement)
           /\ Len(arrived') = Len(arrived) + 1
           /\ Len(arrived) \in Nat /\ arrived'[Len(arrived) + 1] = e
           /\ \A i \in 1 .. Len(arrived) : arrived'[i] = arrived[i]
           /\ entries' \in Seq(Measurement)
           /\ Len(entries') <= Room /\ Len(entries') <= Len(arrived')
           /\ Len(entries') < Room => Len(entries') = Len(arrived')
           /\ \A i \in 1 .. Len(entries') :
                 entries'[i] = arrived'[Len(arrived') - Len(entries') + i]
<1> DEFINE n == Len(arrived)
           l == Len(entries)
           kept == IF Full THEN Tail(entries) ELSE entries
           k == Len(kept)
<1>1. /\ arrived \in Seq(Measurement) /\ entries \in Seq(Measurement)
      /\ n \in Nat /\ l \in Nat /\ l <= n /\ l <= Room /\ Room \in Nat /\ Room > 0
      /\ l < Room => l = n
      /\ \A i \in 1 .. l : entries[i] = arrived[n - l + i]
  <2>1. arrived \in Seq(Measurement) /\ entries \in Seq(Measurement)
    BY DEF SimTypeOK
  <2>2. n \in Nat /\ l \in Nat
    BY <2>1, StampsType
  <2>3. /\ l <= n /\ l <= Room /\ (l < Room => l = n)
        /\ \A i \in 1 .. l : entries[i] = arrived[n - l + i]
    BY DEF StoredOK
  <2>4. QED BY <2>1, <2>2, <2>3, Times
<1>2. Full <=> l = Room
  BY <1>1 DEF Full
<1>3. /\ kept \in Seq(Measurement) /\ k \in Nat /\ k = (IF l = Room THEN l - 1 ELSE l)
      /\ \A i \in 1 .. k : kept[i] = IF l = Room THEN entries[i + 1] ELSE entries[i]
  <2>1. CASE Full
    <3>1. entries # <<>> /\ l = Room
      BY <1>1, <1>2, <2>1
    <3>2. QED BY <1>1, <2>1, <3>1
  <2>2. CASE ~Full
    BY <1>1, <1>2, <2>2
  <2>3. QED BY <2>1, <2>2
<1>4. entries' = Append(kept, e) /\ arrived' = Append(arrived, e)
  BY DEF Insert
<1> HIDE DEF kept
<1>5. /\ arrived' \in Seq(Measurement) /\ Len(arrived') = n + 1
      /\ arrived'[n + 1] = e /\ \A i \in 1 .. n : arrived'[i] = arrived[i]
  BY <1>1, <1>4
<1>6. /\ entries' \in Seq(Measurement) /\ Len(entries') = k + 1
      /\ \A i \in 1 .. k + 1 : entries'[i] = IF i <= k THEN kept[i] ELSE e
  BY <1>3, <1>4
<1> HIDE DEF n, l, k
<1>7. ASSUME NEW i \in 1 .. k + 1 PROVE entries'[i] = arrived'[(n + 1) - (k + 1) + i]
  <2>1. CASE i = k + 1
    <3>1. (n + 1) - (k + 1) + i = n + 1 /\ ~(i <= k)
      <4>1. n \in Nat /\ k \in Nat
        BY <1>1, <1>3
      <4>2. QED BY <4>1, <2>1
    <3>2. arrived'[n + 1] = e /\ entries'[i] = e
      BY <3>1, <1>5, <1>6
    <3>3. QED BY <3>1, <3>2
  <2>2. CASE i <= k
    <3>1. i \in 1 .. k /\ entries'[i] = kept[i]
      BY <2>2, <1>3, <1>6
    <3>2. CASE l = Room
      <4>1. i + 1 \in 1 .. l /\ kept[i] = entries[i + 1] /\ n - l + (i + 1) \in 1 .. n
        BY <3>1, <3>2, <1>1, <1>3
      <4>2. (n + 1) - (k + 1) + i = n - l + (i + 1)
        BY <3>2, <1>1, <1>3
      <4>3. arrived'[n - l + (i + 1)] = arrived[n - l + (i + 1)]
        BY <4>1, <1>1, <1>5
      <4>4. entries[i + 1] = arrived[n - l + (i + 1)]
        BY <4>1, <1>1
      <4>5. QED BY <3>1, <4>1, <4>2, <4>3, <4>4
    <3>3. CASE l # Room
      <4>1. i \in 1 .. l /\ kept[i] = entries[i] /\ n - l + i \in 1 .. n
        BY <3>1, <3>3, <1>1, <1>3
      <4>2. (n + 1) - (k + 1) + i = n - l + i
        BY <3>3, <1>1, <1>3
      <4>3. arrived'[n - l + i] = arrived[n - l + i]
        BY <4>1, <1>1, <1>5
      <4>4. QED BY <3>1, <4>1, <4>2, <4>3, <1>1
    <3>4. QED BY <3>2, <3>3
  <2>3. QED BY <2>1, <2>2, <1>3
<1>8. k + 1 <= Room /\ k + 1 <= n + 1 /\ (k + 1 < Room => k + 1 = n + 1)
  BY <1>1, <1>3
<1>9. QED BY <1>1, <1>4, <1>5, <1>6, <1>7, <1>8 DEF n

LEMMA TailOf ==
    ASSUME NEW S, NEW s \in Seq(S), s # <<>>
    PROVE  /\ Tail(s) \in Seq(S) /\ Len(Tail(s)) = Len(s) - 1 /\ Len(s) \in Nat
           /\ \A i \in 1 .. Len(s) - 1 : i + 1 \in 1 .. Len(s) /\ Tail(s)[i] = s[i + 1]
OBVIOUS

LEMMA OneReplaced ==
    ASSUME NEW S, NEW s \in Seq(S), NEW i \in 1 .. Len(s), NEW x \in S
    PROVE  /\ [s EXCEPT ![i] = x] \in Seq(S) /\ Len([s EXCEPT ![i] = x]) = Len(s)
           /\ \A j \in 1 .. Len(s) : [s EXCEPT ![i] = x][j] = IF j = i THEN x ELSE s[j]
OBVIOUS

LEMMA AlarmsType ==
    ASSUME NEW s \in Measurement \cup {None}, NEW p
    PROVE  RfAlarms(s, p) \in SUBSET RfChecks
<1>1. CASE s = None \/ p = None
  BY <1>1 DEF RfAlarms
<1>2. CASE s # None /\ p # None
  <2>1. s.faults \in SUBSET RfChecks
    BY <1>2, MeasurementFields
  <2>2. QED BY <1>2, <2>1 DEF RfAlarms
<1>3. QED BY <1>1, <1>2

\* The message made of the packet at the head of the line.
LEMMA Judges ==
    ASSUME SimInv, Process
    PROVE  LET p == Head(waiting)
               s == Found(p.at)
               a == RfAlarms(s, items[p.n].place)
                      \cup (IF items[p.n].place = None THEN {} ELSE items[p.n].hil)
           IN /\ waiting # <<>> /\ p = waiting[1] /\ p.n \in 1 .. sent /\ p.n \in 1 .. Len(items)
              /\ p.at \in Nat /\ s \in Measurement \cup {None}
              /\ [n |-> p.n, sample |-> s, alarms |-> a] \in Judgement
              /\ judged' = Append(judged, [n |-> p.n, sample |-> s, alarms |-> a])
              /\ waiting' = Tail(waiting)
              /\ UNCHANGED <<entries, arrived, plan, items, step, sent, wake, clock, samples,
                             packets, lost>>
<1> DEFINE p == Head(waiting)
           s == Found(p.at)
           a == RfAlarms(s, items[p.n].place)
                  \cup (IF items[p.n].place = None THEN {} ELSE items[p.n].hil)
<1>1. /\ SimTypeOK /\ ItemsOK /\ UnderWayOK /\ waiting \in Seq([n : Nat, at : Nat])
      /\ items \in Seq(ItemType) /\ sent \in Nat /\ sent <= Len(items)
  BY DEF SimInv, SimTypeOK, ItemsOK
<1>2. waiting # <<>> /\ p = waiting[1] /\ 1 \in 1 .. Len(waiting)
  BY <1>1 DEF Process
<1>3. p \in [n : Nat, at : Nat]
  BY <1>1, <1>2, HeadIsMember
<1>4. p.n \in 1 .. sent /\ p.at \in Nat
  <2>1. p.n \in 1 .. sent
    BY <1>1, <1>2 DEF UnderWayOK, WaitingOK, ToSet
  <2>2. QED BY <1>2, <1>3, <2>1
<1>5. p.n \in 1 .. Len(items)
  BY <1>1, <1>4
<1>6. s \in Measurement \cup {None}
  BY <1>1, <1>4, FoundType
<1>7. a \in SUBSET (RfChecks \cup Subsystems)
  <2> HIDE DEF s, p
  <2>1. items[p.n].hil \in SUBSET Subsystems
    BY <1>1, <1>5, ItemFields
  <2>2. RfAlarms(s, items[p.n].place) \in SUBSET RfChecks
    BY <1>6, AlarmsType
  <2>3. QED BY <2>1, <2>2
<1>8. [n |-> p.n, sample |-> s, alarms |-> a] \in Judgement
  <2> HIDE DEF p, s, a
  <2>1. QED BY <1>4, <1>6, <1>7 DEF Judgement
<1>9. judged' = Append(judged, [n |-> p.n, sample |-> s, alarms |-> a])
  BY DEF Process
<1>10. /\ waiting' = Tail(waiting)
       /\ UNCHANGED <<entries, arrived, plan, items, step, sent, wake, clock, samples, packets,
                      lost>>
  BY DEF Process, Lookup
<1> HIDE DEF p, s, a
<1>11. QED BY <1>2, <1>4, <1>5, <1>6, <1>8, <1>9, <1>10 DEF p, s, a

LEMMA SimTypeNext ==
    ASSUME SimInv, [SimNext]_simVars
    PROVE  SimTypeOK'
<1>1. SimTypeOK /\ ItemsOK /\ ArrivedOK /\ StoredOK /\ SamplesOK
  BY DEF SimInv, ArrivedOK
<1> USE DEF SimTypeOK
<1>a. AfterSample \in Nat
  BY <1>1, PlanTypes DEF AfterSample
<1>b. ASSUME step \in {"sample", "packet"} PROVE N \in Nat /\ Item.datagrams \in Nat
  <2>1. N \in 1 .. Len(items) /\ N \in Nat
    BY <1>1, <1>b, NextItem
  <2>2. QED BY <1>1, <2>1, ItemFields DEF Item
<1>c. clock + PauseOf(plan) \in Nat
  BY <1>1, PlanTypes
<1>2. CASE Load
  <2>1. CASE Refused(plan)
    BY <1>1, <1>2, <2>1 DEF Load, rfVars
  <2>2. CASE ~Refused(plan)
    <3>1. items' = IF plan.tool = "sim" THEN SimItems(plan) ELSE ReplayItems(plan)
      BY <1>2, <2>2 DEF Load
    <3>2. items' \in Seq(ItemType)
      BY <1>1, <2>2, <3>1, LoadedItems
    <3>3. step' \in {"done", "sample"}
      BY <1>2, <2>2 DEF Load
    <3>4. UNCHANGED <<rfVars, plan, sent, wake, clock, samples, packets, waiting, judged, lost>>
      BY <1>2 DEF Load
    <3>5. QED BY <1>1, <3>2, <3>3, <3>4 DEF rfVars
  <2>3. QED BY <2>1, <2>2
<1>3. CASE NoSample
  BY <1>1, <1>3 DEF NoSample, rfVars
<1>4. CASE SendSample
  <2>1. [n |-> N, at |-> clock] \in [n : Nat, at : Nat]
    BY <1>1, <1>4, <1>b DEF SendSample, Awake
  <2>2. samples' \in Seq([n : Nat, at : Nat])
    BY <1>1, <1>4, <2>1 DEF SendSample
  <2>3. QED BY <1>1, <1>4, <1>a, <2>2 DEF SendSample, rfVars
<1>5. CASE SendPacket
  <2>1. [n |-> N, at |-> clock, left |-> Item.datagrams] \in [n : Nat, at : Nat, left : Int]
    BY <1>1, <1>5, <1>b DEF SendPacket, Awake
  <2>2. packets' \in Seq([n : Nat, at : Nat, left : Int])
    BY <1>1, <1>5, <2>1 DEF SendPacket
  <2>3. sent' \in Nat /\ wake' \in Nat /\ step' \in {"done", "sample"}
    BY <1>1, <1>5, <1>b, <1>c DEF SendPacket, Proceed, Awake
  <2>4. UNCHANGED <<rfVars, plan, items, clock, samples, waiting, judged, lost>>
    BY <1>5 DEF SendPacket
  <2>5. QED BY <1>1, <2>2, <2>3, <2>4 DEF rfVars
<1>6. CASE CannotStamp
  BY <1>1, <1>6 DEF CannotStamp, rfVars
<1>7. CASE SendFails
  <2>1. UNCHANGED <<rfVars, plan, items, clock, samples, packets, waiting, judged>>
    BY <1>7 DEF SendFails
  <2>2. sent' \in Nat /\ wake' \in Nat /\ step' \in {"load", "sample", "packet", "done", "failed"}
    BY <1>1, <1>7, <1>a, <1>b, <1>c DEF SendFails, Proceed, Awake
  <2>3. QED BY <1>1, <2>1, <2>2 DEF rfVars
<1>8. CASE MeasurementsArrive
  <2>1. PICK e \in Measurement :
          /\ Insert(e) /\ samples' = Tail(samples) /\ samples # <<>>
          /\ UNCHANGED <<plan, items, step, sent, wake, clock, packets, waiting, judged, lost>>
    BY <1>1, <1>8, Arrives
  <2>2. arrived' \in Seq(Measurement) /\ entries' \in Seq(Measurement)
    BY <1>1, <2>1, Inserted
  <2>0. samples' \in Seq([n : Nat, at : Nat])
    BY <1>1, <2>1, TailOf
  <2>3. QED BY <1>1, <2>0, <2>1, <2>2
<1>9. CASE PacketArrives
  <2>1. UNCHANGED <<rfVars, plan, items, step, sent, wake, clock, samples, judged, lost>>
    BY <1>9 DEF PacketArrives
  <2>2. packets # <<>> /\ Head(packets) \in [n : Nat, at : Nat, left : Int]
    <3>1. packets # <<>> /\ packets \in Seq([n : Nat, at : Nat, left : Int])
      BY <1>1, <1>9 DEF PacketArrives
    <3>2. QED BY <3>1, HeadIsMember
  <2>3. CASE Head(packets).left > 1
    <3>1. packets' = [packets EXCEPT ![1].left = @ - 1] /\ waiting' = waiting
      BY <1>9, <2>3 DEF PacketArrives
    <3>2. 1 \in 1 .. Len(packets) /\ packets[1] \in [n : Nat, at : Nat, left : Int]
      <4>1. packets \in Seq([n : Nat, at : Nat, left : Int]) /\ packets # <<>>
        BY <1>1, <2>2
      <4>2. 1 \in 1 .. Len(packets) /\ packets[1] = Head(packets)
        BY <4>1
      <4>3. QED BY <2>2, <4>2
    <3> DEFINE x == [packets[1] EXCEPT !.left = @ - 1]
    <3>3. x \in [n : Nat, at : Nat, left : Int]
      BY <3>2
    <3>4. packets' = [packets EXCEPT ![1] = x]
      BY <3>1, <3>2, <1>1
    <3> HIDE DEF x
    <3>5. packets' \in Seq([n : Nat, at : Nat, left : Int])
      BY <1>1, <3>2, <3>3, <3>4, OneReplaced
    <3>6. QED BY <1>1, <2>1, <3>1, <3>5 DEF rfVars
  <2>4. CASE ~(Head(packets).left > 1)
    <3>1. /\ packets' = Tail(packets)
          /\ waiting' = Append(waiting, [n |-> Head(packets).n, at |-> clock])
      BY <1>9, <2>4 DEF PacketArrives
    <3>2. packets' \in Seq([n : Nat, at : Nat, left : Int])
      BY <1>1, <2>2, <3>1
    <3>3. [n |-> Head(packets).n, at |-> clock] \in [n : Nat, at : Nat]
      BY <1>1, <2>2
    <3>4. waiting' \in Seq([n : Nat, at : Nat])
      BY <1>1, <3>1, <3>3
    <3>5. QED BY <1>1, <2>1, <3>2, <3>4 DEF rfVars
  <2>5. QED BY <2>3, <2>4
<1>10. CASE Lose
  <2>1. /\ UNCHANGED <<rfVars, plan, items, step, sent, wake, clock, waiting, judged>>
        /\ \/ samples # <<>> /\ samples' = Tail(samples) /\ packets' = packets
           \/ packets # <<>> /\ packets' = Tail(packets) /\ samples' = samples
    BY <1>10 DEF Lose
  <2>2. samples' \in Seq([n : Nat, at : Nat])
    BY <1>1, <2>1, TailOf
  <2>0. packets' \in Seq([n : Nat, at : Nat, left : Int])
    BY <1>1, <2>1, TailOf
  <2>3. QED BY <1>1, <2>1, <2>0, <2>2 DEF rfVars
<1>11. CASE Process
  <2>1. PICK j \in Judgement :
          /\ judged' = Append(judged, j) /\ waiting # <<>> /\ waiting' = Tail(waiting)
          /\ UNCHANGED <<entries, arrived, plan, items, step, sent, wake, clock, samples, packets,
                         lost>>
    BY <1>11, Judges
  <2>2. judged' \in Seq(Judgement) /\ waiting' \in Seq([n : Nat, at : Nat])
    BY <1>1, <2>1
  <2>3. QED BY <1>1, <2>1, <2>2
<1>12. CASE Tick
  BY <1>1, <1>12 DEF Tick, rfVars
<1>13. CASE UNCHANGED simVars
  BY <1>1, <1>13 DEF simVars, rfVars
<1>14. QED
  BY <1>2, <1>3, <1>4, <1>5, <1>6, <1>7, <1>8, <1>9, <1>10, <1>11, <1>12, <1>13 DEF SimNext

-----------------------------------------------------------------------------
(* The sender. *)

LEMMA ItemsNext ==
    ASSUME SimInv, [SimNext]_simVars
    PROVE  ItemsOK'
<1>1. SimTypeOK /\ ItemsOK
  BY DEF SimInv
<1>a. /\ sent \in Nat /\ clock \in Nat /\ wake \in Nat
      /\ items \in Seq(ItemType) /\ Len(items) \in Nat
      /\ Late \in Nat /\ LeadOf(plan) \in Nat /\ PauseOf(plan) \in Nat
  BY <1>1, Times, PlanTypes DEF SimTypeOK
<1>b. clock <= clock + PauseOf(plan) /\ clock + PauseOf(plan) \in Nat
  BY <1>a
<1>c. ASSUME step \in {"sample", "packet"} PROVE N \in 1 .. Len(items) /\ N = sent + 1
  BY <1>1, <1>c, NextItem DEF N
<1>d. ASSUME UNCHANGED <<items, plan>>, step # "load", step' # "load",
             sent' <= Len(items), sent' \in Nat,
             step' \in {"sample", "packet"} => N' <= Len(items) /\ clock' <= wake' + Late
      PROVE  ItemsOK'
  BY <1>1, <1>d DEF ItemsOK, SimItem
<1>2. CASE Load
  <2>1. /\ UNCHANGED <<plan, sent, wake, clock>> /\ step = "load" /\ sent = 0
        /\ step' \in {"failed", "done", "sample"}
    BY <1>1, <1>2 DEF Load, ItemsOK
  <2>2. CASE Refused(plan)
    <3>1. items' = <<>> /\ step' = "failed"
      BY <1>2, <2>2 DEF Load
    <3>2. Len(items') = 0
      BY <3>1
    <3>3. QED BY <2>1, <3>1, <3>2 DEF ItemsOK
  <2>3. CASE ~Refused(plan)
    <3>1. /\ items' = (IF plan.tool = "sim" THEN SimItems(plan) ELSE ReplayItems(plan))
          /\ step' = "sample" => items' # <<>>
          /\ step' # "packet"
      BY <1>2, <2>3 DEF Load
    <3>2. plan \in Plans
      BY <1>1 DEF SimTypeOK
    <3>3. items' \in Seq(ItemType)
      BY <2>3, <3>1, <3>2, LoadedItems
    <3>4. plan.tool = "sim" => \A n \in 1 .. Len(items') : items'[n] = SimItem(plan, n - 1)
      BY <2>3, <3>1, <3>2, LoadedItems
    <3>5. step' = "sample" => N' <= Len(items')
      BY <2>1, <3>1, <3>3 DEF N
    <3>6. clock' <= wake' + Late
      <4>1. clock = 0 /\ wake = 0
        BY <1>1, <2>1 DEF ItemsOK
      <4>2. QED BY <2>1, <4>1, <1>a
    <3>7. sent' <= Len(items')
      BY <2>1, <3>3
    <3>8. QED BY <2>1, <3>1, <3>4, <3>5, <3>6, <3>7 DEF ItemsOK, SimItem
  <2>4. QED BY <2>2, <2>3
<1>3. CASE NoSample
  <2>1. step = "sample" /\ step' = "packet" /\ UNCHANGED <<items, plan, sent, wake, clock>>
    BY <1>3 DEF NoSample, Awake
  <2>2. N' = N /\ clock <= wake + Late /\ N <= Len(items) /\ sent <= Len(items)
    BY <1>1, <2>1 DEF N, ItemsOK
  <2>3. QED BY <1>a, <1>d, <2>1, <2>2
<1>4. CASE SendSample
  <2>1. /\ step = "sample" /\ step' = "packet" /\ UNCHANGED <<items, plan, sent, clock>>
        /\ wake' = clock + LeadOf(plan)
    BY <1>4 DEF SendSample, Awake, AfterSample
  <2>2. N' = N /\ N <= Len(items) /\ sent <= Len(items)
    BY <1>1, <2>1 DEF N, ItemsOK
  <2>3. clock' <= wake' + Late
    BY <1>a, <2>1
  <2>4. QED BY <1>a, <1>d, <2>1, <2>2, <2>3
<1>p. ASSUME Proceed, step = "packet", UNCHANGED <<items, plan, clock>> PROVE ItemsOK'
  <2>1. sent' = N /\ step' = (IF N = Len(items) THEN "done" ELSE "sample") /\ wake' = clock + PauseOf(plan)
    BY <1>p DEF Proceed
  <2>2. N \in 1 .. Len(items) /\ N = sent + 1 /\ N' = N + 1
    BY <1>c, <1>p, <2>1 DEF N
  <2>3. sent' \in Nat /\ sent' <= Len(items) /\ clock' <= wake' + Late
    BY <1>a, <1>b, <1>p, <2>1, <2>2
  <2>4. step' = "sample" => N' <= Len(items)
    BY <1>a, <2>1, <2>2
  <2>5. step' \in {"done", "sample"}
    BY <2>1
  <2>6. QED BY <1>d, <1>p, <2>3, <2>4, <2>5
<1>5. CASE SendPacket
  BY <1>5, <1>p DEF SendPacket, Awake
<1>6. CASE CannotStamp
  <2>1. step = "packet" /\ step' = "failed" /\ UNCHANGED <<items, plan, sent>>
    BY <1>6 DEF CannotStamp, Awake
  <2>2. sent <= Len(items)
    BY <1>1 DEF ItemsOK
  <2>3. QED BY <1>a, <1>d, <2>1, <2>2
<1>7. CASE SendFails
  <2>1. UNCHANGED <<items, plan, clock>> /\ step \in {"sample", "packet"}
    BY <1>7 DEF SendFails, Awake
  <2>2. sent <= Len(items) /\ N <= Len(items)
    BY <1>1, <2>1 DEF ItemsOK
  <2>3. CASE step' = "failed" /\ UNCHANGED <<sent, wake>>
    BY <1>a, <1>d, <2>1, <2>2, <2>3
  <2>4. CASE step = "sample" /\ step' = "packet" /\ wake' = AfterSample /\ UNCHANGED sent
    <3>1. N' = N /\ wake' = clock + LeadOf(plan)
      BY <2>4 DEF N, AfterSample
    <3>2. clock' <= wake' + Late
      BY <1>a, <2>1, <3>1
    <3>3. QED BY <1>a, <1>d, <2>1, <2>2, <2>4, <3>1, <3>2
  <2>5. CASE step # "sample" /\ Proceed
    BY <1>p, <2>1, <2>5
  <2>6. QED BY <1>7, <2>1, <2>3, <2>4, <2>5 DEF SendFails
<1>k. ASSUME UNCHANGED <<items, plan, step, sent, wake, clock>>, step # "load" PROVE ItemsOK'
  <2>1. N' = N /\ sent <= Len(items)
    BY <1>1, <1>k DEF N, ItemsOK
  <2>2. step \in {"sample", "packet"} => N <= Len(items) /\ clock <= wake + Late
    BY <1>1 DEF ItemsOK
  <2>3. QED BY <1>a, <1>d, <1>k, <2>1, <2>2
<1>8. CASE MeasurementsArrive
  <2>1. step # "load"
    BY <1>1, <1>8 DEF MeasurementsArrive, ItemsOK
  <2>2. QED BY <1>8, <1>k, <2>1 DEF MeasurementsArrive
<1>9. CASE PacketArrives
  <2>1. step # "load"
    BY <1>1, <1>9 DEF PacketArrives, ItemsOK
  <2>2. QED BY <1>9, <1>k, <2>1 DEF PacketArrives
<1>10. CASE Lose
  <2>1. step # "load"
    BY <1>1, <1>10 DEF Lose, ItemsOK
  <2>2. QED BY <1>10, <1>k, <2>1 DEF Lose
<1>11. CASE Process
  <2>1. step # "load"
    BY <1>1, <1>11 DEF Process, ItemsOK
  <2>2. QED BY <1>11, <1>k, <2>1 DEF Process
<1>12. CASE Tick
  <2>1. /\ UNCHANGED <<items, plan, step, sent, wake>> /\ clock' = clock + 1
        /\ step \in {"sample", "packet"} => clock < wake + Late
    BY <1>12 DEF Tick
  <2>2. step # "load"
    <3>1. ASSUME step = "load" PROVE FALSE
      <4>1. samples = <<>> /\ packets = <<>> /\ waiting = <<>>
        BY <1>1, <3>1 DEF ItemsOK
      <4>2. samples \o packets \o waiting = <<>>
        BY <4>1
      <4>3. QED BY <1>12, <3>1, <4>2 DEF Tick
    <3>2. QED BY <3>1
  <2>3. N' = N /\ sent <= Len(items) /\ (step \in {"sample", "packet"} => N <= Len(items))
    BY <1>1, <2>1 DEF N, ItemsOK
  <2>4. step \in {"sample", "packet"} => clock' <= wake' + Late
    BY <1>a, <2>1
  <2>5. QED BY <1>a, <1>d, <2>1, <2>2, <2>3, <2>4
<1>13. CASE UNCHANGED simVars
  <2>1. UNCHANGED <<items, plan, step, sent, wake, clock, samples, packets, waiting, arrived,
                    judged>>
    BY <1>13 DEF simVars, rfVars
  <2>2. CASE step # "load"
    BY <1>k, <2>1, <2>2
  <2>3. CASE step = "load"
    <3>1. plan.tool = "sim" => \A n \in 1 .. Len(items) : items[n] = SimItem(plan, n - 1)
      BY <1>1 DEF ItemsOK
    <3>2. /\ samples = <<>> /\ packets = <<>> /\ waiting = <<>> /\ arrived = <<>> /\ judged = <<>>
          /\ sent = 0 /\ wake = 0 /\ clock = 0 /\ sent <= Len(items)
      BY <1>1, <2>3 DEF ItemsOK
    <3>3. QED BY <2>1, <2>3, <3>1, <3>2 DEF ItemsOK, SimItem
  <2>4. QED BY <2>2, <2>3
<1>14. QED
  BY <1>2, <1>3, <1>4, <1>5, <1>6, <1>7, <1>8, <1>9, <1>10, <1>11, <1>12, <1>13 DEF SimNext

-----------------------------------------------------------------------------
(* What a step does once the command line is read. *)

SenderMoves ==
    \/ UNCHANGED <<sent, wake>> /\ step' \in {step, "failed"}
    \/ /\ step = "sample" /\ step' = "packet" /\ clock >= wake /\ sent' = sent
       /\ wake' \in {wake, clock + LeadOf(plan)}
    \/ /\ step = "packet" /\ clock >= wake /\ clock' = clock
       /\ sent' = N /\ wake' = clock + PauseOf(plan) /\ step' # "packet"

SampleGone ==
    /\ samples # <<>> /\ samples' = Tail(samples) /\ Head(samples).n \in lost'
    /\ UNCHANGED <<arrived, entries, sent, wake, step, clock>>

StoreMoves ==
    \/ UNCHANGED <<arrived, entries, samples>>
    \/ SendSample \/ SampleGone \/ MeasurementsArrive

LEMMA Moves ==
    ASSUME SimInv, [SimNext]_simVars, step # "load"
    PROVE  SenderMoves /\ StoreMoves /\ step' # "load"
<1>1. CASE SendFails
  BY <1>1 DEF SendFails, Proceed, Awake, AfterSample, rfVars, SenderMoves, StoreMoves
<1>2. CASE NoSample \/ SendSample
  BY <1>2 DEF NoSample, SendSample, Awake, AfterSample, rfVars, SenderMoves, StoreMoves
<1>3. CASE SendPacket \/ CannotStamp
  BY <1>3 DEF SendPacket, CannotStamp, Proceed, Awake, rfVars, SenderMoves, StoreMoves
<1>4. CASE Lose
  BY <1>4 DEF Lose, rfVars, SenderMoves, StoreMoves, SampleGone
<1>5. CASE MeasurementsArrive
  BY <1>5 DEF MeasurementsArrive, SenderMoves, StoreMoves
<1>6. CASE PacketArrives \/ Process \/ Tick \/ UNCHANGED simVars
  BY <1>6 DEF PacketArrives, Process, Tick, Lookup, simVars, rfVars, SenderMoves, StoreMoves
<1>7. QED BY <1>1, <1>2, <1>3, <1>4, <1>5, <1>6 DEF SimNext, Load

\* Nothing goes back.
LEMMA Onward ==
    ASSUME SimInv, [SimNext]_simVars, step # "load"
    PROVE  /\ UNCHANGED <<items, plan>> /\ lost \subseteq lost'
           /\ sent <= sent' /\ clock <= clock'
           /\ Due(plan, N, wake) <= Due(plan, N', wake')
           /\ \A n \in Nat : Begun(n) => Begun(n)'
<1>1. SimTypeOK /\ SimTypeOK' /\ SenderMoves /\ step' # "load"
  BY SimTypeNext, Moves DEF SimInv
<1>2. /\ sent \in Nat /\ sent' \in Nat /\ clock \in Nat /\ clock' \in Nat
      /\ wake \in Nat /\ wake' \in Nat /\ plan \in Plans
      /\ LeadOf(plan) \in Nat /\ PauseOf(plan) \in Nat
      /\ N \in Nat /\ N = sent + 1 /\ N' = sent' + 1
      /\ clock \in Int /\ wake \in Int /\ wake' \in Int
  BY <1>1, PlanTypes DEF SimTypeOK, N
<1>3. UNCHANGED <<items, plan>> /\ lost \subseteq lost' /\ clock <= clock'
  BY <1>2 DEF SimNext, simVars, Load, NoSample, SendSample, SendPacket, CannotStamp, SendFails,
              MeasurementsArrive, PacketArrives, Lose, Process, Tick
<1>4. CASE UNCHANGED <<sent, wake>> /\ step' \in {step, "failed"}
  <2>0. N' = N /\ wake' = wake /\ Due(plan, N, wake) \in Int
    BY <1>2, <1>4, DueType
  <2>1. N' = N /\ Due(plan, N, wake) <= Due(plan, N', wake')
    BY <2>0
  <2>2. ASSUME NEW n \in Nat, Begun(n) PROVE Begun(n)'
    BY <2>1, <2>2, <1>4 DEF Begun
  <2>3. QED BY <1>2, <1>3, <1>4, <2>1, <2>2
<1>5. CASE /\ step = "sample" /\ step' = "packet" /\ clock >= wake /\ sent' = sent
           /\ wake' \in {wake, clock + LeadOf(plan)}
  <2>1. N' = N /\ wake <= wake'
    BY <1>2, <1>5
  <2>2. Due(plan, N, wake') = Due(plan, N, wake) + (wake' - wake) /\ Due(plan, N, wake) \in Int
    <3>1. Due(plan, N, wake') = Due(plan, N, wake) + (wake' - wake)
      BY <1>2, DueLater
    <3>2. Due(plan, N, wake) \in Int
      BY <1>2, DueType
    <3>3. QED BY <3>1, <3>2
  <2>3. Due(plan, N, wake) <= Due(plan, N', wake')
    <3> DEFINE d == Due(plan, N, wake)
    <3>1. d \in Int /\ Due(plan, N', wake') = d + (wake' - wake)
      BY <2>1, <2>2
    <3> DEFINE a == wake
               b == wake'
    <3>2. a \in Nat /\ b \in Nat /\ a <= b
      BY <1>2, <2>1
    <3> HIDE DEF a, b, d
    <3>3. d <= d + (b - a)
      BY <3>1, <3>2
    <3>4. QED BY <3>1, <3>3 DEF a, b, d
  <2>4. ASSUME NEW n \in Nat, Begun(n) PROVE Begun(n)'
    BY <2>4, <1>5 DEF Begun
  <2>5. QED BY <1>2, <1>3, <1>5, <2>3, <2>4
<1>6. CASE /\ step = "packet" /\ clock >= wake /\ clock' = clock
           /\ sent' = N /\ wake' = clock + PauseOf(plan) /\ step' # "packet"
  <2>1. N' = N + 1 /\ sent <= sent'
    BY <1>2, <1>6
  <2>2. /\ Due(plan, N + 1, wake') = Due(plan, N, clock)
        /\ Due(plan, N, clock) = Due(plan, N, wake) + (clock - wake) /\ Due(plan, N, wake) \in Int
    <3>1. Due(plan, N + 1, clock + PauseOf(plan)) = Due(plan, N, clock)
      BY <1>2, DueNext
    <3>2. Due(plan, N, clock) = Due(plan, N, wake) + (clock - wake)
      BY <1>2, DueLater
    <3>3. Due(plan, N, wake) \in Int
      BY <1>2, DueType
    <3>4. QED BY <1>6, <3>1, <3>2, <3>3
  <2>3. Due(plan, N, wake) <= Due(plan, N', wake')
    BY <1>2, <1>6, <2>1, <2>2
  <2>4. ASSUME NEW n \in Nat, Begun(n) PROVE Begun(n)'
    BY <2>4, <1>2, <1>6 DEF Begun
  <2>5. QED BY <1>3, <2>1, <2>3, <2>4
<1>7. QED BY <1>1, <1>4, <1>5, <1>6 DEF SenderMoves

\* When the command line is read nothing has been sent.
LEMMA Loads ==
    ASSUME SimInv, [SimNext]_simVars, step = "load"
    PROVE  /\ UNCHANGED <<entries, arrived, samples, packets, waiting, judged, sent>>
           /\ Len(arrived) = 0 /\ Len(samples) = 0 /\ Len(entries) = 0
           /\ ToSet(packets) = {} /\ ToSet(waiting) = {} /\ ToSet(judged) = {}
           /\ \A n \in 1 .. Len(items') : ~Begun(n)'
<1>1. /\ samples = <<>> /\ arrived = <<>> /\ sent = 0 /\ packets = <<>> /\ waiting = <<>>
      /\ judged = <<>> /\ Len(entries) <= Len(arrived) /\ entries \in Seq(Measurement)
  BY DEF SimInv, ItemsOK, ArrivedOK, StoredOK, SimTypeOK
<1>2. samples \o packets \o waiting = <<>>
  BY <1>1
<1>3. Load \/ UNCHANGED simVars
  BY <1>1, <1>2 DEF SimNext, NoSample, SendSample, SendPacket, CannotStamp, SendFails, Awake,
                    MeasurementsArrive, PacketArrives, Lose, Process, Tick
<1>4. UNCHANGED <<entries, arrived, samples, packets, waiting, judged, sent>>
  BY <1>3 DEF Load, simVars, rfVars
<1>5. ToSet(packets) = {} /\ ToSet(waiting) = {} /\ ToSet(judged) = {}
  BY <1>1 DEF ToSet
<1>6. step' \in {"load", "sample"} \/ items' = <<>>
  BY <1>3 DEF Load, simVars
<1>7. ASSUME NEW n \in 1 .. Len(items') PROVE ~Begun(n)'
  <2>1. n >= 1 /\ ~(n <= sent')
    BY <1>1, <1>4
  <2>2. step' \in {"load", "sample"}
    BY <1>6
  <2>3. QED BY <2>1, <2>2 DEF Begun
<1>8. QED BY <1>1, <1>4, <1>5, <1>7

-----------------------------------------------------------------------------
(* Samples that arrived. *)

\* The types that every proof below uses.
LEMMA Numbers ==
    ASSUME SimInv, [SimNext]_simVars
    PROVE  /\ sent \in Nat /\ sent' \in Nat /\ clock \in Nat /\ clock' \in Nat
           /\ wake \in Nat /\ wake' \in Nat /\ plan \in Plans
           /\ LeadOf(plan) \in Nat /\ PauseOf(plan) \in Nat
           /\ N \in Nat /\ N = sent + 1 /\ N' = sent' + 1
           /\ N' \in Nat /\ clock \in Int /\ wake \in Int /\ wake' \in Int
           /\ Len(items) \in Nat
<1>1. SimTypeOK /\ SimTypeOK'
  BY SimTypeNext DEF SimInv
<1>2. /\ sent \in Nat /\ sent' \in Nat /\ clock \in Nat /\ clock' \in Nat
      /\ wake \in Nat /\ wake' \in Nat /\ plan \in Plans /\ Len(items) \in Nat
      /\ LeadOf(plan) \in Nat /\ PauseOf(plan) \in Nat
  BY <1>1, PlanTypes DEF SimTypeOK
<1>3. N \in Nat /\ N = sent + 1 /\ N' = sent' + 1 /\ N' \in Nat
  <2>1. \A k \in Nat : k + 1 \in Nat
    OBVIOUS
  <2>2. sent + 1 \in Nat /\ sent' + 1 \in Nat
    BY <1>2, <2>1, Zenon
  <2>3. QED BY <2>2 DEF N
<1>4. clock \in Int /\ wake \in Int /\ wake' \in Int
  BY <1>2
<1>5. QED BY <1>2, <1>3, <1>4

\* The sender's part of what is said of a sample for packet n.
LEMMA NumberStays ==
    ASSUME SimInv, [SimNext]_simVars, step # "load",
           NEW n \in 1 .. Len(items), Begun(n), NEW x \in Int, n = N => wake - LeadOf(plan) <= x
    PROVE  n = N' => wake' - LeadOf(plan') <= x /\ N' = N /\ wake' = wake
<1> USE Numbers
<1>1. SenderMoves /\ plan' = plan
  BY Moves, Onward
<1>2. n \in Nat /\ n <= N
  BY DEF Begun
<1>3. CASE UNCHANGED <<sent, wake>> /\ step' \in {step, "failed"}
  BY <1>1, <1>3
<1>4. CASE step = "sample" /\ sent' = sent
  <2>1. n < N'
    BY <1>2, <1>4 DEF Begun
  <2>2. QED BY <1>2, <2>1
<1>5. CASE sent' = N
  <2>1. n < N'
    BY <1>2, <1>5
  <2>2. QED BY <1>2, <2>1
<1>6. QED BY <1>1, <1>3, <1>4, <1>5 DEF SenderMoves

LEMMA EntryStays ==
    ASSUME SimInv, [SimNext]_simVars, step # "load", NEW e \in Measurement, EntryOK(e)
    PROVE  EntryOK(e)'
<1> USE Numbers
<1>1. /\ UNCHANGED <<items, plan>> /\ clock <= clock'
      /\ Due(plan, N, wake) <= Due(plan, N', wake')
      /\ \A n \in Nat : Begun(n) => Begun(n)'
  BY Onward
<1>2. e.of \in Nat /\ e.t \in Nat
  BY MeasurementFields
<1>3. /\ e.of \in 1 .. Len(items) /\ Measured(e.of) /\ Begun(e.of)
      /\ e.place = items[e.of].place /\ e.faults = items[e.of].rf
      /\ e.t <= clock /\ After(plan, e, N, wake)
      /\ e.of = N => wake - LeadOf(plan) <= e.t
  BY DEF EntryOK
<1>4. After(plan, e, N', wake')
  <2>1. /\ Due(plan, e.of, e.t) \in Int /\ Due(plan, N, wake) \in Int
        /\ Due(plan, N', wake') \in Int
    <3>1. e.t \in Int
      BY <1>2
    <3>2. Due(plan, e.of, e.t) \in Int
      BY <1>2, <3>1, DueType
    <3>3. Due(plan, N, wake) \in Int /\ Due(plan, N', wake') \in Int
      BY DueType
    <3>4. QED BY <3>2, <3>3
  <2> DEFINE a == Due(plan, e.of, e.t)
             b == Due(plan, N, wake)
             c == Due(plan, N', wake')
  <2>2. a + LeadOf(plan) <= b + Jitter /\ b <= c
    BY <1>1, <1>3 DEF After
  <2>3. a \in Int /\ b \in Int /\ c \in Int /\ Jitter \in Int
    BY <2>1, Times
  <2> HIDE DEF a, b, c
  <2>4. a + LeadOf(plan) <= c + Jitter
    BY <2>2, <2>3
  <2>5. QED BY <2>4 DEF After, a, c
<1>5. e.of = N' => wake' - LeadOf(plan') <= e.t
  BY <1>2, <1>3, NumberStays
<1>6. Begun(e.of)' /\ Measured(e.of)' /\ e.t <= clock'
  BY <1>1, <1>2, <1>3 DEF Measured
<1>7. QED BY <1>1, <1>3, <1>4, <1>5, <1>6 DEF EntryOK

\* What comes after a sample that is sent comes after it when it has arrived.
LEMMA AfterArrival ==
    ASSUME NEW p \in Plans, NEW r \in [n : Nat, at : Nat], NEW e \in Measurement, e.of = r.n,
           e.t <= r.at + Jitter, NEW n \in Nat, NEW x \in Int, AfterSent(p, r, n, x)
    PROVE  After(p, e, n, x)
<1>1. r.n \in Nat /\ r.at \in Nat /\ e.t \in Nat /\ Jitter \in Nat /\ LeadOf(p) \in Nat
  BY MeasurementFields, Times, PlanTypes
<1>2. /\ Due(p, r.n, r.at) \in Int /\ Due(p, r.n, e.t) = Due(p, r.n, r.at) + (e.t - r.at)
      /\ Due(p, n, x) \in Int
  <2>1. r.at \in Int /\ e.t \in Int
    BY <1>1
  <2>2. Due(p, r.n, r.at) \in Int /\ Due(p, n, x) \in Int
    BY <1>1, <2>1, DueType
  <2>3. Due(p, r.n, e.t) = Due(p, r.n, r.at) + (e.t - r.at)
    BY <1>1, <2>1, DueLater
  <2>4. QED BY <2>2, <2>3
<1> DEFINE a == Due(p, r.n, r.at)
           b == Due(p, n, x)
<1>3. a + LeadOf(p) <= b /\ a \in Int /\ b \in Int
  BY <1>2 DEF AfterSent
<1> HIDE DEF a, b
<1>4. a + (e.t - r.at) + LeadOf(p) <= b + Jitter
  BY <1>1, <1>3
<1>5. Due(p, e.of, e.t) = a + (e.t - r.at)
  BY <1>2 DEF a
<1>6. QED BY <1>4, <1>5 DEF After, b

\* What comes after at one time does so later.
LEMMA AfterLater ==
    ASSUME NEW p \in Plans, NEW e \in Measurement, NEW n \in Nat, NEW x \in Int,
           NEW y \in Int, x <= y, After(p, e, n, x)
    PROVE  After(p, e, n, y)
<1>1. /\ Due(p, e.of, e.t) \in Int /\ Due(p, n, x) \in Int
      /\ Due(p, n, y) = Due(p, n, x) + (y - x)
  <2>1. e.of \in Nat /\ e.t \in Int
    BY MeasurementFields
  <2>2. Due(p, e.of, e.t) \in Int /\ Due(p, n, x) \in Int
    BY <2>1, DueType
  <2>3. Due(p, n, y) = Due(p, n, x) + (y - x)
    BY DueLater
  <2>4. QED BY <2>2, <2>3
<1> DEFINE a == Due(p, e.of, e.t)
           b == Due(p, n, x)
<1>2. a + LeadOf(p) <= b + Jitter /\ a \in Int /\ b \in Int
  BY <1>1 DEF After
<1>3. LeadOf(p) \in Int /\ Jitter \in Int
  BY Times, PlanTypes
<1> HIDE DEF a, b
<1>4. a + LeadOf(p) <= b + (y - x) + Jitter
  BY <1>2, <1>3
<1>5. QED BY <1>1, <1>4 DEF After, a, b

LEMMA SentLater ==
    ASSUME NEW p \in Plans, NEW r \in [n : Nat, at : Nat], NEW n \in Nat, NEW x \in Int,
           NEW y \in Int, x <= y, AfterSent(p, r, n, x)
    PROVE  AfterSent(p, r, n, y)
<1>1. /\ Due(p, r.n, r.at) \in Int /\ Due(p, n, x) \in Int
      /\ Due(p, n, y) = Due(p, n, x) + (y - x)
  <2>1. r.n \in Nat /\ r.at \in Int
    OBVIOUS
  <2>2. Due(p, r.n, r.at) \in Int /\ Due(p, n, x) \in Int
    BY <2>1, DueType
  <2>3. Due(p, n, y) = Due(p, n, x) + (y - x)
    BY DueLater
  <2>4. QED BY <2>2, <2>3
<1> DEFINE a == Due(p, r.n, r.at)
           b == Due(p, n, x)
<1>2. a + LeadOf(p) <= b /\ a \in Int /\ b \in Int /\ LeadOf(p) \in Int
  BY <1>1, PlanTypes DEF AfterSent
<1> HIDE DEF a, b
<1>3. a + LeadOf(p) <= b + (y - x)
  BY <1>2
<1>4. QED BY <1>1, <1>3 DEF AfterSent, a, b

\* The sample at the head of those under way, as it arrives.
LEMMA HeadArrives ==
    ASSUME SimInv, MeasurementsArrive
    PROVE  \E r \in [n : Nat, at : Nat], e \in Measurement :
              /\ r = samples[1] /\ SampleOK(r) /\ 1 \in 1 .. Len(samples)
              /\ e.of = r.n /\ e.t = clock /\ r.at <= e.t /\ e.t <= r.at + Jitter
              /\ e.place = items[r.n].place /\ e.faults = items[r.n].rf
              /\ Insert(e) /\ Len(samples') = Len(samples) - 1 /\ Len(samples) \in Nat
              /\ \A i \in 1 .. Len(samples') :
                    i + 1 \in 1 .. Len(samples) /\ samples'[i] = samples[i + 1]
              /\ Len(arrived) \in Nat /\ Len(arrived') = Len(arrived) + 1
              /\ arrived'[Len(arrived) + 1] = e
              /\ \A k \in 1 .. Len(arrived) : arrived'[k] = arrived[k]
              /\ StoredOK'
              /\ UNCHANGED <<plan, items, step, sent, wake, clock, packets, waiting, judged, lost>>
<1>1. SimTypeOK /\ SamplesOK /\ StoredOK
  BY DEF SimInv, ArrivedOK
<1>2. samples # <<>> /\ 1 \in 1 .. Len(samples) /\ SampleOK(samples[1])
  BY <1>1, Arrives
<1>3. samples \in Seq([n : Nat, at : Nat])
  BY <1>1 DEF SimTypeOK
<1>4. PICK r \in [n : Nat, at : Nat] : r = samples[1]
  <2>1. samples[1] \in [n : Nat, at : Nat]
    BY <1>2, <1>3, ElementOfSeq
  <2>2. QED BY <2>1
<1>5. PICK e \in Measurement :
        /\ e = [t |-> clock, of |-> samples[1].n, place |-> items[samples[1].n].place,
                faults |-> items[samples[1].n].rf]
        /\ Insert(e) /\ samples' = Tail(samples)
        /\ UNCHANGED <<plan, items, step, sent, wake, clock, packets, waiting, judged, lost>>
  BY <1>1, Arrives
<1>6. /\ e.of = r.n /\ e.t = clock /\ e.place = items[r.n].place /\ e.faults = items[r.n].rf
  BY <1>4, <1>5
<1>7. SampleOK(r) /\ r.at <= e.t /\ e.t <= r.at + Jitter
  BY <1>2, <1>4, <1>6 DEF SampleOK
<1>8. /\ Len(samples') = Len(samples) - 1 /\ Len(samples) \in Nat
      /\ \A i \in 1 .. Len(samples') :
            i + 1 \in 1 .. Len(samples) /\ samples'[i] = samples[i + 1]
  BY <1>2, <1>3, <1>5, TailOf
<1>9. /\ Len(arrived) \in Nat /\ Len(arrived') = Len(arrived) + 1
      /\ arrived'[Len(arrived) + 1] = e
      /\ \A k \in 1 .. Len(arrived) : arrived'[k] = arrived[k]
      /\ StoredOK'
  BY <1>1, <1>5, Inserted DEF StoredOK, Room
<1>10. QED BY <1>2, <1>4, <1>5, <1>6, <1>7, <1>8, <1>9

LEMMA ArrivedNext ==
    ASSUME SimInv, [SimNext]_simVars
    PROVE  ArrivedOK'
<1> USE Numbers
<1>1. SimTypeOK /\ ArrivedOK /\ SamplesOK /\ StoredOK
  BY DEF SimInv, ArrivedOK
<1>2. arrived \in Seq(Measurement) /\ Len(arrived) \in Nat
      /\ \A k \in 1 .. Len(arrived) : arrived[k] \in Measurement /\ arrived[k].of \in Nat
  <2>1. arrived \in Seq(Measurement)
    BY <1>1 DEF SimTypeOK
  <2>2. QED BY <2>1, StampsType, MeasurementFields
<1>3. CASE step = "load"
  <2>1. UNCHANGED <<entries, arrived>> /\ Len(arrived) = 0
    BY <1>3, Loads
  <2>2. QED BY <1>1, <2>1 DEF ArrivedOK, StoredOK, Room
<1>4. CASE step # "load" /\ UNCHANGED <<entries, arrived>>
  <2>1. ASSUME NEW k \in 1 .. Len(arrived) PROVE EntryOK(arrived[k])'
    <3>1. PICK e \in Measurement : e = arrived[k]
      BY <1>2
    <3>2. EntryOK(e)'
      BY <1>1, <1>4, <3>1, EntryStays DEF ArrivedOK
    <3>3. QED BY <1>4, <3>1, <3>2 DEF EntryOK, Measured, Begun
  <2>2. plan' = plan
    BY <1>4, Onward
  <2>3. StoredOK'
    BY <1>1, <1>4 DEF StoredOK, Room
  <2>4. \A j, k \in 1 .. Len(arrived') : j < k =>
          /\ k - j <= arrived'[k].of - arrived'[j].of
          /\ After(plan', arrived'[j], arrived'[k].of, arrived'[k].t)
    BY <1>1, <1>4, <2>2 DEF ArrivedOK
  <2>5. QED BY <1>4, <2>1, <2>3, <2>4 DEF ArrivedOK
<1>5. CASE step # "load" /\ MeasurementsArrive
  <2> DEFINE n == Len(arrived)
  <2>1. PICK r \in [n : Nat, at : Nat], e \in Measurement :
              /\ r = samples[1] /\ SampleOK(r) /\ 1 \in 1 .. Len(samples)
              /\ e.of = r.n /\ e.t = clock /\ r.at <= e.t /\ e.t <= r.at + Jitter
              /\ e.place = items[r.n].place /\ e.faults = items[r.n].rf
              /\ n \in Nat /\ Len(arrived') = n + 1 /\ arrived'[n + 1] = e
              /\ \A k \in 1 .. n : arrived'[k] = arrived[k]
              /\ StoredOK'
              /\ UNCHANGED <<plan, items, step, sent, wake, clock>>
    BY <1>5, HeadArrives
  <2>2. EntryOK(e)
    <3>1. After(plan, e, N, wake)
      <4>1. AfterSent(plan, r, N, wake) /\ wake \in Int
        BY <2>1 DEF SampleOK
      <4>2. QED BY <2>1, <4>1, AfterArrival
    <3>2. r.n = N => wake - LeadOf(plan) <= e.t
      BY <2>1, MeasurementFields DEF SampleOK
    <3>3. QED BY <2>1, <3>1, <3>2 DEF EntryOK, SampleOK
  <2>3. ASSUME NEW k \in 1 .. n + 1 PROVE EntryOK(arrived[k])'
    <3>1. PICK x \in Measurement : x = arrived'[k] /\ EntryOK(x)
      <4>1. CASE k \in 1 .. n
        BY <1>1, <1>2, <2>1, <4>1 DEF ArrivedOK
      <4>2. CASE k = n + 1
        BY <2>1, <2>2, <4>2
      <4>3. QED BY <2>1, <4>1, <4>2
    <3>2. EntryOK(x)'
      BY <1>5, <3>1, EntryStays
    <3>3. QED BY <3>1, <3>2 DEF EntryOK, Measured, Begun
  <2>4. ASSUME NEW j \in 1 .. n, NEW x \in Measurement, x = arrived[j]
        PROVE  (n + 1) - j <= e.of - x.of /\ After(plan, x, e.of, e.t)
    <3>1. x.of < r.n /\ After(plan, x, r.n, r.at)
      BY <1>1, <2>1, <2>4 DEF SamplesOK
    <3>2. n - j <= arrived[n].of - x.of /\ arrived[n].of < r.n /\ arrived[n].of \in Nat
      <4>1. n \in 1 .. n /\ j <= n
        BY <2>1
      <4>2. arrived[n].of < r.n /\ arrived[n].of \in Nat
        BY <1>1, <1>2, <2>1, <4>1 DEF SamplesOK
      <4>3. CASE j = n
        BY <4>2, <4>3, <2>4, <2>1
      <4>4. CASE j < n
        BY <1>1, <4>1, <4>2, <4>4, <2>4 DEF ArrivedOK
      <4>5. QED BY <4>1, <4>3, <4>4, <2>1
    <3>3. (n + 1) - j <= e.of - x.of
      <4>1. x.of \in Nat /\ e.of \in Nat /\ j \in Nat /\ e.of = r.n
        BY <2>1, MeasurementFields
      <4> DEFINE y == arrived[n].of
                 z == x.of
                 v == e.of
      <4>2. y \in Nat /\ n - j <= y - z /\ y < v /\ z \in Nat /\ v \in Nat /\ j \in Nat
        BY <3>2, <4>1
      <4> HIDE DEF y, z, v
      <4>3. (n + 1) - j <= v - z
        BY <2>1, <4>2
      <4>4. QED BY <4>3 DEF v, z
    <3>4. After(plan, x, e.of, e.t)
      <4>1. r.at \in Int /\ e.t \in Int /\ r.n \in Nat
        BY MeasurementFields
      <4>2. QED BY <2>1, <3>1, <4>1, AfterLater
    <3>5. QED BY <3>3, <3>4
  <2>5. ASSUME NEW j \in 1 .. n + 1, NEW k \in 1 .. n + 1, j < k
        PROVE  /\ k - j <= arrived'[k].of - arrived'[j].of
               /\ After(plan, arrived'[j], arrived'[k].of, arrived'[k].t)
    <3>1. j \in 1 .. n /\ arrived'[j] = arrived[j]
      BY <2>1, <2>5
    <3>2. CASE k \in 1 .. n
      BY <1>1, <2>1, <2>5, <3>1, <3>2 DEF ArrivedOK
    <3>3. CASE k = n + 1
      BY <1>2, <2>1, <2>4, <3>1, <3>3
    <3>4. QED BY <3>2, <3>3, <2>1
  <2>6. QED BY <2>1, <2>3, <2>5 DEF ArrivedOK
<1>6. CASE step # "load" /\ ~UNCHANGED <<entries, arrived>> /\ ~MeasurementsArrive
  BY <1>6, Moves DEF StoreMoves, SampleGone, SendSample, rfVars
<1>7. QED BY <1>3, <1>4, <1>5, <1>6

-----------------------------------------------------------------------------
(* Samples under way. *)

LEMMA SampleStays ==
    ASSUME SimInv, [SimNext]_simVars, step # "load",
           NEW r \in [n : Nat, at : Nat], SampleOK(r), clock' <= r.at + Jitter
    PROVE  SampleOK(r)'
<1> USE Numbers
<1>1. /\ UNCHANGED <<items, plan>> /\ clock <= clock' /\ sent <= sent' /\ SenderMoves
      /\ Due(plan, N, wake) <= Due(plan, N', wake')
      /\ \A n \in Nat : Begun(n) => Begun(n)'
  BY Onward, Moves
<1>2. r.n \in Nat /\ r.at \in Nat
  OBVIOUS
<1>3. /\ r.n \in 1 .. Len(items) /\ Measured(r.n) /\ Begun(r.n)
      /\ r.at <= clock /\ AfterSent(plan, r, N, wake)
      /\ r.n <= sent => r.at + LeadOf(plan) <= clock
      /\ r.n = N => r.at + LeadOf(plan) = wake
  BY DEF SampleOK
<1>4. AfterSent(plan, r, N', wake')
  <2>1. r.at \in Int
    BY <1>2
  <2>2. /\ Due(plan, r.n, r.at) \in Int /\ Due(plan, N, wake) \in Int
        /\ Due(plan, N', wake') \in Int
    BY <1>2, <2>1, DueType
  <2> DEFINE a == Due(plan, r.n, r.at)
             b == Due(plan, N, wake)
             c == Due(plan, N', wake')
  <2>3. a + LeadOf(plan) <= b /\ b <= c /\ a \in Int /\ b \in Int /\ c \in Int
    BY <1>1, <1>3, <2>2 DEF AfterSent
  <2> HIDE DEF a, b, c
  <2>4. a + LeadOf(plan) <= c
    <3>1. LeadOf(plan) \in Nat
      BY Numbers
    <3>2. QED BY <2>3, <3>1
  <2>5. QED BY <2>4 DEF AfterSent, a, c
<1>5. r.n = N' => r.at + LeadOf(plan') = wake'
  <2>1. r.n = N => wake - LeadOf(plan) <= r.at
    BY <1>2, <1>3
  <2>2. r.n = N' => N' = N /\ wake' = wake
    BY <1>2, <1>3, <2>1, NumberStays
  <2>3. QED BY <1>1, <1>3, <2>2
<1>6. r.n <= sent' => r.at + LeadOf(plan) <= clock'
  <2>1. CASE r.n <= sent
    BY <1>1, <1>2, <1>3, <2>1
  <2>2. CASE ~(r.n <= sent) /\ r.n <= sent'
    <3>1. r.n = N /\ clock >= wake
      BY <1>1, <1>2, <1>3, <2>2 DEF SenderMoves, Begun
    <3>2. QED BY <1>1, <1>2, <1>3, <3>1
  <2>3. QED BY <2>1, <2>2
<1>7. Begun(r.n)' /\ Measured(r.n)' /\ r.at <= clock'
  BY <1>1, <1>2, <1>3 DEF Measured
<1>8. QED BY <1>1, <1>3, <1>4, <1>5, <1>6, <1>7 DEF SampleOK

\* Time does not pass a datagram's latest arrival.
LEMMA SamplesInTime ==
    ASSUME SimInv, [SimNext]_simVars, NEW i \in 1 .. Len(samples)
    PROVE  samples[i] \in [n : Nat, at : Nat] /\ clock' <= samples[i].at + Jitter
<1> USE Numbers
<1>1. /\ samples \in Seq([n : Nat, at : Nat]) /\ packets \in Seq([n : Nat, at : Nat, left : Int])
      /\ SamplesOK
  BY DEF SimInv, SimTypeOK
<1>2. samples[i] \in [n : Nat, at : Nat]
  BY <1>1, ElementOfSeq
<1>3. clock <= samples[i].at + Jitter
  BY <1>1 DEF SamplesOK, SampleOK
<1>4. CASE UNCHANGED clock
  BY <1>2, <1>3, <1>4
<1>5. CASE Tick
  <2>1. clock' = clock + 1 /\ \A d \in ToSet(samples \o packets) : clock < d.at + Jitter
    BY <1>5 DEF Tick
  <2>2. i \in DOMAIN (samples \o packets) /\ (samples \o packets)[i] = samples[i]
    BY <1>1
  <2>3. samples[i] \in ToSet(samples \o packets)
    BY <2>2 DEF ToSet
  <2>4. clock < samples[i].at + Jitter
    BY <2>1, <2>3
  <2>5. samples[i].at \in Nat
    BY <1>2
  <2> DEFINE x == samples[i].at
  <2>6. x \in Nat /\ clock < x + Jitter /\ clock' = clock + 1 /\ clock \in Nat /\ Jitter \in Nat
    BY <2>1, <2>4, <2>5, Times, Numbers
  <2> HIDE DEF x
  <2>7. clock' <= x + Jitter
    BY <2>6
  <2>8. QED BY <1>2, <2>7 DEF x
<1>6. QED
  BY <1>2, <1>4, <1>5
     DEF SimNext, simVars, Load, NoSample, SendSample, SendPacket, CannotStamp, SendFails,
         MeasurementsArrive, PacketArrives, Lose, Process

LEMMA SamplesNext ==
    ASSUME SimInv, [SimNext]_simVars
    PROVE  SamplesOK'
<1> USE Numbers
<1> DEFINE W == [n : Nat, at : Nat]
           m == Len(samples)
<1>1. SimTypeOK /\ ArrivedOK /\ SamplesOK
  BY DEF SimInv
<1>2. /\ samples \in Seq(W) /\ m \in Nat /\ \A i \in 1 .. m : samples[i] \in W
      /\ arrived \in Seq(Measurement) /\ Len(arrived) \in Nat
      /\ \A k \in 1 .. Len(arrived) : arrived[k] \in Measurement /\ arrived[k].of \in Nat
  <2>1. samples \in Seq(W) /\ arrived \in Seq(Measurement)
    BY <1>1 DEF SimTypeOK
  <2>2. m \in Nat /\ \A i \in 1 .. m : samples[i] \in W
    <3>1. \A i \in 1 .. m : samples[i] \in W
      BY <2>1, ElementOfSeq
    <3>2. QED BY <2>1, <3>1
  <2>3. /\ Len(arrived) \in Nat
        /\ \A k \in 1 .. Len(arrived) : arrived[k] \in Measurement /\ arrived[k].of \in Nat
    BY <2>1, StampsType, MeasurementFields
  <2>4. QED BY <2>1, <2>2, <2>3
<1>s. ASSUME step # "load", NEW i \in 1 .. m, NEW r \in W, r = samples[i] PROVE SampleOK(r)'
  BY <1>1, <1>s, SampleStays, SamplesInTime DEF SamplesOK
<1>3. CASE step = "load"
  <2>1. Len(samples') = 0
    BY <1>3, Loads
  <2>2. QED BY <2>1 DEF SamplesOK
\* Those that stay keep their order.
<1>k. ASSUME step # "load", NEW c \in Nat, Len(samples') \in Nat,
             \A i \in 1 .. Len(samples') : i + c \in 1 .. m /\ samples'[i] = samples[i + c],
             \A i \in 1 .. Len(samples'), k \in 1 .. Len(arrived') :
                /\ arrived'[k].of < samples'[i].n
                /\ After(plan', arrived'[k], samples'[i].n, samples'[i].at)
      PROVE  SamplesOK'
  <2>1. ASSUME NEW i \in 1 .. Len(samples') PROVE SampleOK(samples[i])'
    <3>1. PICK r \in W : r = samples[i + c] /\ i + c \in 1 .. m
      BY <1>2, <1>k
    <3>2. SampleOK(r)'
      BY <1>k, <1>s, <3>1
    <3>3. QED BY <1>k, <3>1, <3>2 DEF SampleOK, Measured, Begun
  <2>2. ASSUME NEW i \in 1 .. Len(samples'), NEW j \in 1 .. Len(samples'), i < j
        PROVE  /\ samples'[i].n < samples'[j].n
               /\ AfterSent(plan', samples'[i], samples'[j].n, samples'[j].at)
    <3>1. i + c \in 1 .. m /\ j + c \in 1 .. m /\ i + c < j + c
      BY <1>k, <2>2
    <3>2. plan' = plan
      BY <1>k, Onward
    <3>3. QED BY <1>1, <1>k, <3>1, <3>2 DEF SamplesOK
  <2>3. QED BY <1>k, <2>1, <2>2 DEF SamplesOK
<1>4. CASE step # "load" /\ UNCHANGED <<arrived, samples>>
  <2>1. plan' = plan
    BY <1>4, Onward
  <2>2. \A i \in 1 .. Len(samples') : i + 0 \in 1 .. m /\ samples'[i] = samples[i + 0]
    BY <1>2, <1>4
  <2>3. \A i \in 1 .. Len(samples'), k \in 1 .. Len(arrived') :
                /\ arrived'[k].of < samples'[i].n
                /\ After(plan', arrived'[k], samples'[i].n, samples'[i].at)
    BY <1>1, <1>4, <2>1 DEF SamplesOK
  <2>4. Len(samples') \in Nat
    BY <1>2, <1>4
  <2>5. QED BY <1>4, <1>k, <2>2, <2>3, <2>4
<1>5. CASE step # "load" /\ SampleGone
  <2>1. plan' = plan /\ UNCHANGED arrived
    BY <1>5, Onward DEF SampleGone
  <2>2. /\ Len(samples') \in Nat
        /\ \A i \in 1 .. Len(samples') : i + 1 \in 1 .. m /\ samples'[i] = samples[i + 1]
    BY <1>2, <1>5, TailOf DEF SampleGone
  <2>3. \A i \in 1 .. Len(samples'), k \in 1 .. Len(arrived') :
                /\ arrived'[k].of < samples'[i].n
                /\ After(plan', arrived'[k], samples'[i].n, samples'[i].at)
    BY <1>1, <2>1, <2>2 DEF SamplesOK
  <2>4. QED BY <1>5, <1>k, <2>2, <2>3
<1>6. CASE step # "load" /\ MeasurementsArrive
  <2> DEFINE l == Len(arrived)
  <2>1. PICK r \in W, e \in Measurement :
              /\ r = samples[1] /\ 1 \in 1 .. m
              /\ e.of = r.n /\ e.t = clock /\ r.at <= e.t /\ e.t <= r.at + Jitter
              /\ Len(samples') = m - 1
              /\ \A i \in 1 .. Len(samples') : i + 1 \in 1 .. m /\ samples'[i] = samples[i + 1]
              /\ l \in Nat /\ Len(arrived') = l + 1 /\ arrived'[l + 1] = e
              /\ \A k \in 1 .. l : arrived'[k] = arrived[k]
              /\ plan' = plan
    BY <1>6, HeadArrives
  <2>2. ASSUME NEW i \in 1 .. Len(samples'), NEW k \in 1 .. l + 1
        PROVE  /\ arrived'[k].of < samples'[i].n
               /\ After(plan', arrived'[k], samples'[i].n, samples'[i].at)
    <3>1. i + 1 \in 1 .. m /\ samples'[i] = samples[i + 1] /\ 1 < i + 1
      <4>1. i \in Nat /\ i >= 1
        OBVIOUS
      <4>2. QED BY <2>1, <4>1
    <3>2. CASE k \in 1 .. l
      BY <1>1, <2>1, <3>1, <3>2 DEF SamplesOK
    <3>3. CASE k = l + 1
      <4>1. PICK x \in W : x = samples[i + 1]
        <5>1. samples[i + 1] \in W
          BY <1>2, <3>1
        <5>2. QED BY <5>1
      <4>2. r.n < x.n /\ AfterSent(plan, r, x.n, x.at)
        BY <1>1, <2>1, <3>1, <4>1 DEF SamplesOK
      <4>3. x.n \in Nat /\ x.at \in Int
        OBVIOUS
      <4>4. After(plan, e, x.n, x.at)
        BY <2>1, <4>2, <4>3, AfterArrival
      <4>5. QED BY <2>1, <3>1, <3>3, <4>1, <4>2, <4>4
    <3>4. k \in 1 .. l \/ k = l + 1
      <4>1. l \in Nat
        BY <2>1
      <4> HIDE DEF l
      <4>2. QED BY <4>1
    <3>5. QED BY <3>2, <3>3, <3>4
  <2>3. Len(samples') \in Nat
    BY <1>2, <2>1
  <2>4. QED BY <1>6, <1>k, <2>1, <2>2, <2>3
<1>7. CASE step # "load" /\ SendSample
  <2>1. /\ step = "sample" /\ step' = "packet" /\ clock >= wake /\ Item.rf # None
        /\ samples' = Append(samples, [n |-> N, at |-> clock]) /\ wake' = clock + LeadOf(plan)
        /\ UNCHANGED <<arrived, items, plan, sent, clock>>
    BY <1>7 DEF SendSample, Awake, AfterSample, rfVars
  <2>2. PICK x \in W : x = [n |-> N, at |-> clock]
    OBVIOUS
  <2>3. x.n = N /\ x.at = clock /\ N' = N
    BY <2>1, <2>2 DEF N
  <2>4. /\ Len(samples') = m + 1 /\ samples'[m + 1] = x
        /\ \A i \in 1 .. m : samples'[i] = samples[i]
    BY <1>2, <2>1, <2>2
  <2>5. SampleOK(x)'
    <3>1. N \in 1 .. Len(items)
      BY <1>1, <2>1, NextItem DEF SimInv
    <3>2. Measured(x.n)' /\ Begun(x.n)'
      BY <2>1, <2>3 DEF Measured, Item, Begun
    <3>3. AfterSent(plan, x, N, wake')
      <4>1. Due(plan, N, clock + LeadOf(plan)) = Due(plan, N, clock) + ((clock + LeadOf(plan)) - clock)
        BY <2>1, DueLater
      <4>2. Due(plan, N, clock) \in Int
        BY DueType
      <4> DEFINE d == Due(plan, N, clock)
      <4> HIDE DEF d
      <4>3. d + LeadOf(plan) <= d + ((clock + LeadOf(plan)) - clock)
        BY <4>2 DEF d
      <4>4. QED BY <2>1, <2>3, <4>1, <4>3 DEF AfterSent, d
    <3>4. x.at <= clock' /\ clock' <= x.at + Jitter /\ ~(x.n <= sent')
          /\ x.at + LeadOf(plan') = wake'
      BY <2>1, <2>3, Times
    <3>5. QED BY <2>1, <2>3, <3>1, <3>2, <3>3, <3>4 DEF SampleOK
  <2>m. /\ \A i \in 1 .. m + 1 : i \in 1 .. m \/ i = m + 1
        /\ \A i \in 1 .. m + 1, j \in 1 .. m + 1 : i < j => i \in 1 .. m
    <3>1. m \in Nat
      BY <1>2
    <3> HIDE DEF m
    <3>2. QED BY <3>1
  <2>6. ASSUME NEW i \in 1 .. m + 1 PROVE SampleOK(samples[i])'
    <3>1. PICK r \in W : r = samples'[i] /\ SampleOK(r)'
      <4>1. CASE i \in 1 .. m
        BY <1>2, <1>7, <1>s, <2>4, <4>1
      <4>2. CASE i = m + 1
        BY <2>4, <2>5, <4>2
      <4>3. QED BY <2>m, <4>1, <4>2
    <3>2. QED BY <3>1 DEF SampleOK, Measured, Begun
  <2>7. ASSUME NEW i \in 1 .. m, NEW r \in W, r = samples[i]
        PROVE  r.n < x.n /\ AfterSent(plan, r, x.n, x.at)
    <3>1. Begun(r.n) /\ AfterSent(plan, r, N, wake)
      BY <1>1, <2>7 DEF SamplesOK, SampleOK
    <3>2. r.n < N
      BY <2>1, <3>1 DEF Begun
    <3>3. AfterSent(plan, r, N, clock)
      BY <2>1, <3>1, SentLater
    <3>4. QED BY <2>3, <3>2, <3>3
  <2>8. ASSUME NEW k \in 1 .. Len(arrived)
        PROVE  arrived[k].of < x.n /\ After(plan, arrived[k], x.n, x.at)
    <3>1. PICK e \in Measurement : e = arrived[k] /\ EntryOK(e) /\ e.of \in Nat
      BY <1>1, <1>2 DEF ArrivedOK
    <3>2. Begun(e.of) /\ After(plan, e, N, wake)
      BY <3>1 DEF EntryOK
    <3>3. e.of < N
      BY <2>1, <3>1, <3>2 DEF Begun
    <3>4. After(plan, e, N, clock)
      BY <2>1, <3>2, AfterLater
    <3>5. QED BY <2>3, <3>1, <3>3, <3>4
  <2>9. ASSUME NEW i \in 1 .. m + 1, NEW k \in 1 .. Len(arrived')
        PROVE  /\ arrived'[k].of < samples'[i].n
               /\ After(plan', arrived'[k], samples'[i].n, samples'[i].at)
    <3>1. CASE i \in 1 .. m
      BY <1>1, <2>1, <2>4, <3>1 DEF SamplesOK
    <3>2. CASE i = m + 1
      BY <2>1, <2>4, <2>8, <3>2
    <3>3. QED BY <2>m, <3>1, <3>2
  <2>10. ASSUME NEW i \in 1 .. m + 1, NEW j \in 1 .. m + 1, i < j
         PROVE  /\ samples'[i].n < samples'[j].n
                /\ AfterSent(plan', samples'[i], samples'[j].n, samples'[j].at)
    <3>1. i \in 1 .. m /\ samples'[i] = samples[i]
      BY <2>4, <2>m, <2>10
    <3>2. CASE j \in 1 .. m
      BY <1>1, <2>1, <2>4, <2>10, <3>1, <3>2 DEF SamplesOK
    <3>3. CASE j = m + 1
      BY <1>2, <2>1, <2>4, <2>7, <3>1, <3>3
    <3>4. QED BY <2>m, <3>2, <3>3
  <2>11. QED BY <2>4, <2>6, <2>9, <2>10 DEF SamplesOK
<1>8. QED
  BY <1>3, <1>4, <1>5, <1>6, <1>7, Moves DEF StoreMoves


LEMMA SetOfMembers ==
    ASSUME NEW S, NEW s \in Seq(S)
    PROVE  \A x \in ToSet(s) : x \in S
BY DEF ToSet

LEMMA SetOfTail ==
    ASSUME NEW S, NEW s \in Seq(S), s # <<>>
    PROVE  \A x \in ToSet(Tail(s)) : x \in ToSet(s)
BY TailOf DEF ToSet

LEMMA SetOfAppend ==
    ASSUME NEW S, NEW s \in Seq(S), NEW e \in S
    PROVE  \A x \in ToSet(Append(s, e)) : x \in ToSet(s) \/ x = e
BY DEF ToSet

LEMMA SetOfReplaced ==
    ASSUME NEW S, NEW s \in Seq(S), NEW i \in 1 .. Len(s), NEW e \in S
    PROVE  \A x \in ToSet([s EXCEPT ![i] = e]) : x \in ToSet(s) \/ x = e
BY OneReplaced DEF ToSet

-----------------------------------------------------------------------------
(* No sample is forgotten. *)

\* When the sender passes a packet's sample, it has sent it or lost it.
LEMMA SamplePassed ==
    ASSUME SimInv, [SimNext]_simVars, step # "load", NEW n \in 1 .. Len(items),
           ~Begun(n), Begun(n)'
    PROVE  n = N /\ (~Measured(n) \/ n \in lost' \/ SendSample)
<1> USE Numbers
<1>1. SimTypeOK /\ ItemsOK /\ n \in Nat /\ ~(n <= sent) /\ (n = N => step = "sample")
  BY DEF SimInv, Begun
<1>2. CASE SendPacket \/ (SendFails /\ step = "packet")
  <2>1. step = "packet"
    BY <1>2 DEF SendPacket, Awake
  <2>2. n # N
    BY <1>1, <2>1
  <2>3. CASE Proceed
    <3>1. sent' = N /\ step' = IF N = Len(items) THEN "done" ELSE "sample"
      BY <2>3 DEF Proceed
    <3>2. ~(n <= N)
      BY <1>1, <2>2
    <3>3. n = N + 1 /\ step' # "sample"
      BY <3>1, <3>2 DEF Begun, N
    <3>4. QED BY <3>1, <3>3
  <2>4. CASE UNCHANGED sent
    BY <1>1, <2>2, <2>4 DEF Begun, N
  <2>5. QED BY <1>2, <2>1, <2>3, <2>4 DEF SendPacket, SendFails
<1>3. CASE NoSample \/ (SendFails /\ step = "sample")
  <2>1. UNCHANGED sent
    BY <1>3 DEF NoSample, SendFails
  <2>2. n = N
    BY <1>1, <2>1 DEF Begun, N
  <2>3. ~Measured(N) \/ N \in lost'
    BY <1>3 DEF NoSample, SendFails, Measured, Item
  <2>4. QED BY <2>2, <2>3
<1>4. CASE SendSample
  <2>1. UNCHANGED sent
    BY <1>4 DEF SendSample
  <2>2. n = N
    BY <1>1, <2>1 DEF Begun, N
  <2>3. QED BY <1>4, <2>2
<1>5. CASE CannotStamp
  <2>1. UNCHANGED sent /\ step = "packet"
    BY <1>5 DEF CannotStamp, Awake
  <2>2. QED BY <1>1, <2>1 DEF Begun, N
<1>6. CASE UNCHANGED <<step, sent>>
  BY <1>1, <1>6 DEF Begun, N
<1>7. SendFails => step \in {"sample", "packet"}
  BY DEF SendFails, Awake
<1>8. QED
  BY <1>2, <1>3, <1>4, <1>5, <1>6, <1>7
     DEF SimNext, simVars, Load, MeasurementsArrive, PacketArrives, Lose, Process, Tick

\* What was present stays so, unless it is lost.
LEMMA PresentStays ==
    ASSUME SimInv, [SimNext]_simVars, step # "load", NEW n \in Nat, Present(n)
    PROVE  Present(n)' \/ n \in lost'
<1> DEFINE W == [n : Nat, at : Nat]
<1>1. samples \in Seq(W) /\ Len(samples) \in Nat /\ Len(arrived) \in Nat
  <2>1. samples \in Seq(W) /\ arrived \in Seq(Measurement)
    BY DEF SimInv, SimTypeOK
  <2>2. QED BY <2>1
<1>2. CASE UNCHANGED <<arrived, entries, samples>>
  BY <1>2 DEF Present
<1>3. CASE SendSample
  <2>1. arrived' = arrived /\ samples' = Append(samples, [n |-> N, at |-> clock])
    BY <1>3 DEF SendSample, rfVars
  <2>2. \A i \in 1 .. Len(samples) : i \in 1 .. Len(samples') /\ samples'[i] = samples[i]
    BY <1>1, <2>1
  <2>3. QED BY <2>1, <2>2 DEF Present
<1>4. ASSUME NEW i \in 1 .. Len(samples), i # 1, samples # <<>>, samples' = Tail(samples)
      PROVE  \E j \in 1 .. Len(samples') : samples'[j] = samples[i]
  <2>1. \A j \in 1 .. Len(samples) - 1 : samples'[j] = samples[j + 1]
    BY <1>1, <1>4, TailOf
  <2>2. Len(samples') = Len(samples) - 1
    BY <1>1, <1>4, TailOf
  <2>3. PICK j \in 1 .. Len(samples) - 1 : i = j + 1
    <3>1. i - 1 \in 1 .. Len(samples) - 1 /\ i = (i - 1) + 1
      BY <1>1, <1>4
    <3>2. QED BY <3>1
  <2>4. QED BY <2>1, <2>2, <2>3
<1>5. CASE SampleGone
  <2>1. samples # <<>> /\ samples' = Tail(samples) /\ Head(samples).n \in lost' /\ arrived' = arrived
    BY <1>5 DEF SampleGone
  <2>2. Head(samples) = samples[1]
    BY <1>1, <2>1
  <2>3. CASE \E k \in 1 .. Len(arrived) : arrived[k].of = n
    BY <2>1, <2>3 DEF Present
  <2>4. CASE \E i \in 1 .. Len(samples) : samples[i].n = n
    <3>1. PICK i \in 1 .. Len(samples) : samples[i].n = n
      BY <2>4
    <3>2. CASE i = 1
      BY <2>1, <2>2, <3>1, <3>2
    <3>3. CASE i # 1
      BY <1>4, <2>1, <3>1, <3>3 DEF Present
    <3>4. QED BY <3>2, <3>3
  <2>5. QED BY <2>3, <2>4 DEF Present
<1>6. CASE MeasurementsArrive
  <2>1. PICK r \in W, e \in Measurement :
          /\ r = samples[1] /\ e.of = r.n
          /\ Len(arrived) \in Nat /\ Len(arrived') = Len(arrived) + 1
          /\ arrived'[Len(arrived) + 1] = e
          /\ \A k \in 1 .. Len(arrived) : arrived'[k] = arrived[k]
    BY <1>6, HeadArrives
  <2>2. \A k \in 1 .. Len(arrived) : k \in 1 .. Len(arrived')
    BY <2>1
  <2>3. Len(arrived) + 1 \in 1 .. Len(arrived')
    BY <2>1
  <2>4. samples # <<>> /\ samples' = Tail(samples)
    BY <1>6 DEF MeasurementsArrive
  <2>5. CASE \E k \in 1 .. Len(arrived) : arrived[k].of = n
    BY <2>1, <2>2, <2>5 DEF Present
  <2>6. CASE \E i \in 1 .. Len(samples) : samples[i].n = n
    <3>1. PICK i \in 1 .. Len(samples) : samples[i].n = n
      BY <2>6
    <3>2. CASE i = 1
      BY <2>1, <2>3, <3>1, <3>2 DEF Present
    <3>3. CASE i # 1
      BY <1>4, <2>4, <3>1, <3>3 DEF Present
    <3>4. QED BY <3>2, <3>3
  <2>7. QED BY <2>5, <2>6 DEF Present
<1>7. QED BY <1>2, <1>3, <1>5, <1>6, Moves DEF StoreMoves

LEMMA OwnNext ==
    ASSUME SimInv, [SimNext]_simVars
    PROVE  OwnOK'
<1> USE Numbers
<1>1. CASE step = "load"
  BY <1>1, Loads DEF OwnOK
<1>2. CASE step # "load"
  <2>1. UNCHANGED items /\ lost \subseteq lost' /\ OwnOK
    BY <1>2, Onward DEF SimInv
  <2>2. ASSUME NEW n \in 1 .. Len(items), Owns(n)', Begun(n)' PROVE Present(n)'
    <3>1. Owns(n) /\ n \notin lost' /\ Measured(n) /\ n \in Nat
      BY <2>1, <2>2 DEF Owns, Measured
    <3>2. CASE Begun(n)
      BY <1>2, <2>1, <3>1, <3>2, PresentStays DEF OwnOK
    <3>3. CASE ~Begun(n)
      <4>1. n = N /\ SendSample
        BY <1>2, <2>2, <3>1, <3>3, SamplePassed
      <4>2. samples' = Append(samples, [n |-> N, at |-> clock])
        BY <4>1 DEF SendSample
      <4>3. samples \in Seq([n : Nat, at : Nat])
        BY DEF SimInv, SimTypeOK
      <4>4. Len(samples) + 1 \in 1 .. Len(samples') /\ samples'[Len(samples) + 1].n = n
        BY <4>1, <4>2, <4>3
      <4>5. QED BY <4>4 DEF Present
    <3>4. QED BY <3>2, <3>3
  <2>3. QED BY <2>1, <2>2 DEF OwnOK
<1>3. QED BY <1>1, <1>2

-----------------------------------------------------------------------------
(* Packets under way and received. *)

LEMMA OneMore ==
    ASSUME NEW l \in Nat, NEW i \in 1 .. l + 1
    PROVE  i \in 1 .. l \/ i = l + 1
OBVIOUS

LEMMA DueGrows ==
    ASSUME NEW p \in Plans, NEW n \in Nat, NEW x \in Int, NEW y \in Int, x <= y
    PROVE  Due(p, n, x) \in Int /\ Due(p, n, y) \in Int /\ Due(p, n, x) <= Due(p, n, y)
<1>1. Due(p, n, x) \in Int /\ Due(p, n, y) = Due(p, n, x) + (y - x)
  <2>1. Due(p, n, x) \in Int
    BY DueType
  <2>2. Due(p, n, y) = Due(p, n, x) + (y - x)
    BY DueLater
  <2>3. QED BY <2>1, <2>2
<1> DEFINE a == Due(p, n, x)
<1>2. a \in Int /\ Due(p, n, y) = a + (y - x)
  BY <1>1
<1> HIDE DEF a
<1>3. a + (y - x) \in Int /\ a <= a + (y - x)
  BY <1>2
<1>4. QED BY <1>2, <1>3 DEF a

LEMMA DueInOrder ==
    ASSUME NEW p \in Plans, NEW n \in Nat, NEW b \in Int, NEW m \in Nat, NEW x \in Int,
           Due(p, n, b) <= Due(p, m, x), NEW y \in Int, x <= y
    PROVE  Due(p, n, b) <= Due(p, m, y)
<1>1. Due(p, m, x) \in Int /\ Due(p, m, y) \in Int /\ Due(p, m, x) <= Due(p, m, y)
  BY DueGrows
<1>2. Due(p, n, b) \in Int
  BY DueType
<1>3. QED BY <1>1, <1>2

\* A packet that came after a sample and before others does so when the sample arrives.
LEMMA TimedOnArrival ==
    ASSUME NEW p \in Plans, NEW r \in [n : Nat, at : Nat], NEW e \in Measurement, e.of = r.n,
           r.at <= e.t, e.t <= r.at + Jitter, NEW n \in Nat, NEW b \in Nat, SampleTimed(p, r, n, b)
    PROVE  EntryTimed(p, e, n, b)
<1>1. r.n \in Nat /\ r.at \in Nat /\ e.t \in Nat /\ LeadOf(p) \in Nat /\ Late \in Nat
      /\ r.at \in Int /\ e.t \in Int /\ b \in Int
  BY MeasurementFields, PlanTypes, Times
<1>2. ASSUME e.of <= n PROVE After(p, e, n, b)
  <2>1. AfterSent(p, r, n, b)
    BY <1>2 DEF SampleTimed
  <2>2. QED BY <1>1, <2>1, AfterArrival
<1>3. ASSUME e.of = n PROVE b - LeadOf(p) - Late <= e.t
  <2>1. b - LeadOf(p) - Late <= r.at
    BY <1>3 DEF SampleTimed
  <2>2. QED BY <1>1, <2>1
<1>4. ASSUME e.of > n PROVE Due(p, n, b) <= Due(p, e.of, e.t)
  <2>1. Due(p, n, b) <= Due(p, r.n, r.at)
    BY <1>4 DEF SampleTimed
  <2>2. Due(p, n, b) <= Due(p, r.n, e.t)
    BY <1>1, <2>1, DueInOrder
  <2>3. QED BY <2>2
<1>5. QED BY <1>2, <1>3, <1>4 DEF EntryTimed

LEMMA TimedStays ==
    ASSUME SimInv, [SimNext]_simVars, step # "load",
           NEW n \in Nat, n <= sent, NEW b \in Nat, Timed(n, b)
    PROVE  Timed(n, b)'
<1> USE Numbers
<1> DEFINE W == [n : Nat, at : Nat]
<1>1. /\ plan' = plan /\ samples \in Seq(W) /\ Len(samples) \in Nat
      /\ \A k \in 1 .. Len(arrived) : EntryTimed(plan, arrived[k], n, b)
      /\ \A i \in 1 .. Len(samples) : SampleTimed(plan, samples[i], n, b)
      /\ b \in Int
  <2>1. samples \in Seq(W)
    BY DEF SimInv, SimTypeOK
  <2>2. QED BY <2>1, Onward DEF Timed
<1>2. Due(plan', n, b) <= Due(plan', N', wake')
  <2>1. Due(plan, n, b) <= Due(plan, N, wake) /\ Due(plan, N, wake) <= Due(plan, N', wake')
    BY Onward DEF Timed
  <2>2. Due(plan, n, b) \in Int /\ Due(plan, N, wake) \in Int /\ Due(plan, N', wake') \in Int
    <3>1. Due(plan, n, b) \in Int
      BY <1>1, DueType
    <3>2. Due(plan, N, wake) \in Int /\ Due(plan, N', wake') \in Int
      BY DueType
    <3>3. QED BY <3>1, <3>2
  <2>3. QED BY <1>1, <2>1, <2>2
<1>k. ASSUME \A k \in 1 .. Len(arrived') : EntryTimed(plan, arrived'[k], n, b),
             \A i \in 1 .. Len(samples') : SampleTimed(plan, samples'[i], n, b)
      PROVE  Timed(n, b)'
  BY <1>k, <1>1, <1>2 DEF Timed
<1>3. CASE UNCHANGED <<arrived, entries, samples>>
  BY <1>1, <1>3, <1>k
<1>4. CASE SendSample
  <2> DEFINE x == [n |-> N, at |-> clock]
  <2>1. arrived' = arrived /\ samples' = Append(samples, x) /\ clock >= wake
    BY <1>4 DEF SendSample, rfVars, Awake
  <2>2. /\ Len(samples') = Len(samples) + 1 /\ samples'[Len(samples) + 1] = x
        /\ \A i \in 1 .. Len(samples) : samples'[i] = samples[i]
    BY <1>1, <2>1
  <2>3. SampleTimed(plan, x, n, b)
    <3>1. x.n = N /\ x.at = clock /\ N > n
      OBVIOUS
    <3>2. Due(plan, n, b) <= Due(plan, N, wake)
      BY DEF Timed
    <3>3. wake <= clock
      BY <2>1
    <3>4. Due(plan, n, b) <= Due(plan, N, clock)
      BY <1>1, <3>2, <3>3, DueInOrder
    <3> HIDE DEF x
    <3>5. ~(x.n <= n) /\ x.n # n
      BY <3>1
    <3>6. QED BY <3>1, <3>4, <3>5 DEF SampleTimed
  <2> HIDE DEF x
  <2>4. ASSUME NEW i \in 1 .. Len(samples') PROVE SampleTimed(plan, samples'[i], n, b)
    <3>1. i \in 1 .. Len(samples) \/ i = Len(samples) + 1
      BY <1>1, <2>2, OneMore
    <3>2. QED BY <1>1, <2>2, <2>3, <3>1
  <2>5. QED BY <1>1, <1>k, <2>1, <2>4
<1>5. CASE SampleGone
  <2>1. samples # <<>> /\ samples' = Tail(samples) /\ arrived' = arrived
    BY <1>5 DEF SampleGone
  <2>2. /\ Len(samples') = Len(samples) - 1
        /\ \A i \in 1 .. Len(samples) - 1 :
              i + 1 \in 1 .. Len(samples) /\ samples'[i] = samples[i + 1]
    BY <1>1, <2>1, TailOf
  <2>3. QED BY <1>1, <1>k, <2>1, <2>2
<1>6. CASE MeasurementsArrive
  <2>1. PICK r \in W, e \in Measurement :
          /\ r = samples[1] /\ 1 \in 1 .. Len(samples)
          /\ e.of = r.n /\ r.at <= e.t /\ e.t <= r.at + Jitter
          /\ \A i \in 1 .. Len(samples') :
                i + 1 \in 1 .. Len(samples) /\ samples'[i] = samples[i + 1]
          /\ Len(arrived) \in Nat /\ Len(arrived') = Len(arrived) + 1
          /\ arrived'[Len(arrived) + 1] = e
          /\ \A k \in 1 .. Len(arrived) : arrived'[k] = arrived[k]
    BY <1>6, HeadArrives
  <2>2. EntryTimed(plan, e, n, b)
    BY <1>1, <2>1, TimedOnArrival
  <2>3. ASSUME NEW k \in 1 .. Len(arrived') PROVE EntryTimed(plan, arrived'[k], n, b)
    <3>1. k \in 1 .. Len(arrived) \/ k = Len(arrived) + 1
      BY <2>1, OneMore
    <3>2. QED BY <1>1, <2>1, <2>2, <3>1
  <2>4. QED BY <1>1, <1>k, <2>1, <2>3
<1>7. QED BY <1>3, <1>4, <1>5, <1>6, Moves DEF StoreMoves

\* It is so when a packet is sent.
LEMMA TimedWhenSent ==
    ASSUME SimInv, SendPacket, NEW m \in Nat, m = N, NEW c \in Nat, c = clock
    PROVE  Timed(m, c)'
<1>1. [SimNext]_simVars
  BY DEF SimNext
<1> USE <1>1, Numbers
<1> DEFINE W == [n : Nat, at : Nat]
<1>2. /\ step = "packet" /\ clock >= wake /\ sent' = N /\ wake' = clock + PauseOf(plan)
      /\ UNCHANGED <<plan, arrived, samples, clock>>
  BY DEF SendPacket, Awake, Proceed, rfVars
<1>3. /\ SimTypeOK /\ ItemsOK /\ ArrivedOK /\ SamplesOK /\ step # "load"
      /\ clock <= wake + Late /\ Late \in Nat
  BY <1>2, NextItem, Times DEF SimInv
<1>4. /\ \A k \in 1 .. Len(arrived) : arrived[k] \in Measurement /\ EntryOK(arrived[k])
      /\ \A i \in 1 .. Len(samples) : samples[i] \in W /\ SampleOK(samples[i])
  <2>1. arrived \in Seq(Measurement) /\ samples \in Seq(W)
    BY <1>3 DEF SimTypeOK
  <2>2. QED BY <1>3, <2>1, ElementOfSeq DEF ArrivedOK, SamplesOK
<1>5. Due(plan, N, clock) <= Due(plan', N', wake')
  <2>1. Due(plan, N + 1, clock + PauseOf(plan)) = Due(plan, N, clock)
    BY DueNext
  <2>2. N' = N + 1
    BY <1>2
  <2>3. Due(plan, N, clock) \in Int
    BY DueType
  <2>4. QED BY <1>2, <2>1, <2>2, <2>3
<1>6. ASSUME NEW e \in Measurement, EntryOK(e) PROVE EntryTimed(plan, e, N, clock)
  <2>1. e.of \in Nat /\ e.t \in Nat /\ After(plan, e, N, wake) /\ Begun(e.of)
        /\ (e.of = N => wake - LeadOf(plan) <= e.t)
    BY <1>6, MeasurementFields DEF EntryOK
  <2>2. After(plan, e, N, clock)
    BY <1>2, <2>1, AfterLater
  <2>3. e.of <= N
    BY <2>1 DEF Begun
  <2>4. ASSUME e.of = N PROVE clock - LeadOf(plan) - Late <= e.t
    <3> DEFINE t == e.t
               l == LeadOf(plan)
    <3>1. t \in Nat /\ l \in Nat /\ wake - l <= t /\ clock <= wake + Late
      BY <1>3, <2>1, <2>4
    <3> HIDE DEF t, l
    <3>2. clock - l - Late <= t
      BY <1>3, <3>1
    <3>3. QED BY <3>2 DEF t, l
  <2>5. ~(e.of > N)
    BY <2>1, <2>3
  <2>6. QED BY <2>2, <2>4, <2>5 DEF EntryTimed
<1>7. ASSUME NEW r \in W, SampleOK(r) PROVE SampleTimed(plan, r, N, clock)
  <2>1. r.n \in Nat /\ r.at \in Nat /\ AfterSent(plan, r, N, wake) /\ Begun(r.n)
        /\ (r.n = N => r.at + LeadOf(plan) = wake)
    BY <1>7 DEF SampleOK
  <2>2. AfterSent(plan, r, N, clock)
    BY <1>2, <2>1, SentLater
  <2>3. r.n <= N
    BY <2>1 DEF Begun
  <2>4. ASSUME r.n = N PROVE clock - LeadOf(plan) - Late <= r.at
    <3> DEFINE t == r.at
               l == LeadOf(plan)
    <3>1. t \in Nat /\ l \in Nat /\ t + l = wake
      BY <2>1, <2>4
    <3> HIDE DEF t, l
    <3>2. clock - l - Late <= t
      BY <1>3, <3>1
    <3>3. QED BY <3>2 DEF t, l
  <2>5. ~(r.n > N)
    BY <2>1, <2>3
  <2>6. QED BY <2>2, <2>4, <2>5 DEF SampleTimed
<1>8. \A k \in 1 .. Len(arrived') : EntryTimed(plan', arrived'[k], m, c)
  BY <1>2, <1>4, <1>6
<1>9. \A i \in 1 .. Len(samples') : SampleTimed(plan', samples'[i], m, c)
  BY <1>2, <1>4, <1>7
<1>10. QED BY <1>2, <1>5, <1>8, <1>9 DEF Timed

LEMMA PacketStays ==
    ASSUME SimInv, [SimNext]_simVars, step # "load",
           NEW d \in [n : Nat, at : Nat, left : Int], PacketOK(d), clock' <= d.at + Jitter
    PROVE  PacketOK(d)'
<1> USE Numbers
<1>1. sent <= sent' /\ clock <= clock' /\ d.at \in Nat /\ d.n \in 1 .. sent /\ d.at <= clock
      /\ d.n \in Nat /\ d.n <= sent
  BY Onward DEF PacketOK
<1>2. d.n \in 1 .. sent' /\ d.at <= clock'
  BY <1>1
<1>3. Timed(d.n, d.at)'
  BY <1>1, TimedStays DEF PacketOK
<1>4. QED BY <1>2, <1>3 DEF PacketOK

LEMMA WaitingStays ==
    ASSUME SimInv, [SimNext]_simVars, step # "load",
           NEW d \in [n : Nat, at : Nat], WaitingOK(d), clock' <= d.at + Lag
    PROVE  WaitingOK(d)'
<1> USE Numbers
<1>1. sent <= sent' /\ clock <= clock' /\ d.at \in Nat /\ d.n \in 1 .. sent /\ d.at <= clock
      /\ d.n \in Nat /\ d.n <= sent
  BY Onward DEF WaitingOK
<1>2. d.n \in 1 .. sent' /\ d.at <= clock'
  BY <1>1
<1>3. PICK b \in Nat : b <= d.at /\ d.at <= b + Jitter /\ Timed(d.n, b)
  BY DEF WaitingOK
<1>4. Timed(d.n, b)'
  BY <1>1, <1>3, TimedStays
<1>5. QED BY <1>2, <1>3, <1>4 DEF WaitingOK

LEMMA UnderWayNext ==
    ASSUME SimInv, [SimNext]_simVars
    PROVE  UnderWayOK'
<1> DEFINE P == [n : Nat, at : Nat, left : Int]
           W == [n : Nat, at : Nat]
<1>1. SimTypeOK /\ ItemsOK /\ ArrivedOK /\ UnderWayOK
  BY DEF SimInv
<1>2. /\ packets \in Seq(P) /\ waiting \in Seq(W)
      /\ clock \in Nat /\ sent \in Nat /\ Jitter \in Nat /\ Lag \in Nat
  BY <1>1, Times DEF SimTypeOK
<1> HIDE DEF P, W
<1>3. /\ \A d \in ToSet(packets) :
            /\ d \in P /\ PacketOK(d) /\ clock <= d.at + Jitter
      /\ \A d \in ToSet(waiting) :
            /\ d \in W /\ WaitingOK(d) /\ clock <= d.at + Lag
  <2>1. \A d \in ToSet(packets) : d \in P
    BY <1>2, SetOfMembers
  <2>2. \A d \in ToSet(waiting) : d \in W
    BY <1>2, SetOfMembers
  <2>3. QED BY <1>1, <2>1, <2>2 DEF UnderWayOK, PacketOK, WaitingOK
<1>4. (ToSet(packets) # {} \/ ToSet(waiting) # {}) => step # "load"
  BY <1>1 DEF ItemsOK, ToSet
<1>p. ASSUME clock' = clock, NEW d \in ToSet(packets) PROVE PacketOK(d)'
  BY <1>3, <1>4, <1>p, PacketStays DEF P
<1>w. ASSUME clock' = clock, NEW d \in ToSet(waiting) PROVE WaitingOK(d)'
  BY <1>3, <1>4, <1>w, WaitingStays DEF W
<1>k. ASSUME clock' = clock, \A d \in ToSet(packets') : d \in ToSet(packets),
             \A d \in ToSet(waiting') : d \in ToSet(waiting)
      PROVE  UnderWayOK'
  <2>1. ASSUME NEW d \in ToSet(packets') PROVE PacketOK(d)'
    BY <1>p, <1>k
  <2>2. ASSUME NEW d \in ToSet(waiting') PROVE WaitingOK(d)'
    BY <1>w, <1>k
  <2>3. QED BY <2>1, <2>2 DEF UnderWayOK, ToSet
<1>5. CASE UNCHANGED <<clock, packets, waiting>>
  BY <1>5, <1>k
<1>6. CASE SendPacket
  <2> DEFINE e == [n |-> N, at |-> clock, left |-> Item.datagrams]
  <2>1. /\ step = "packet" /\ packets' = Append(packets, e) /\ sent' = N
        /\ UNCHANGED <<clock, waiting>>
    BY <1>6 DEF SendPacket, Proceed, Awake
  <2>2. N \in Nat /\ N = sent + 1 /\ Item \in ItemType
    BY <1>1, <2>1, NextItem DEF N
  <2>3. e \in P /\ e.n = N /\ e.at = clock
    BY <1>2, <2>2 DEF ItemType, P
  <2> HIDE DEF e
  <2>4. PICK x : x = e
    OBVIOUS
  <2>5. PacketOK(x)'
    <3>1. x.n \in 1 .. sent' /\ x.at <= clock' /\ clock' <= x.at + Jitter /\ x.at \in Nat
      BY <1>2, <2>1, <2>2, <2>3, <2>4 DEF P
    <3>2. Timed(x.n, x.at)'
      <4>1. x.n \in Nat /\ x.n = N /\ x.at = clock
        BY <2>2, <2>3, <2>4
      <4>2. QED BY <3>1, <4>1, <1>6, TimedWhenSent
    <3>3. QED BY <3>1, <3>2 DEF PacketOK
  <2>6. ASSUME NEW d \in ToSet(packets') PROVE PacketOK(d)'
    <3>1. d \in ToSet(packets) \/ d = x
      BY <1>2, <2>1, <2>3, <2>4, SetOfAppend
    <3>2. QED BY <3>1, <2>1, <2>5, <1>p
  <2>7. ASSUME NEW d \in ToSet(waiting') PROVE WaitingOK(d)'
    BY <2>1, <1>w
  <2>8. QED BY <2>6, <2>7 DEF UnderWayOK, ToSet
<1>7. CASE PacketArrives
  <2>1. packets # <<>> /\ UNCHANGED clock
    BY <1>7 DEF PacketArrives
  <2>2. PICK h : h = packets[1]
    OBVIOUS
  <2>3. /\ Head(packets) = h /\ h \in ToSet(packets) /\ h \in P
        /\ 1 \in 1 .. Len(packets)
    <3>1. 1 \in 1 .. Len(packets) /\ Head(packets) = h /\ h \in P
      BY <1>2, <2>1, <2>2
    <3>2. h \in ToSet(packets)
      BY <1>2, <2>2, <3>1 DEF ToSet
    <3>3. QED BY <3>1, <3>2
  <2>4. step # "load"
    BY <2>3, <1>4
  <2>5. CASE h.left > 1
    <3>1. packets' = [packets EXCEPT ![1].left = @ - 1] /\ waiting' = waiting
      BY <1>7, <2>3, <2>5 DEF PacketArrives
    <3>2. PICK x : x = [h EXCEPT !.left = @ - 1]
      OBVIOUS
    <3>3. x \in P /\ x.n = h.n /\ x.at = h.at
      BY <2>3, <3>2 DEF P
    <3>4. packets' = [packets EXCEPT ![1] = x]
      BY <3>1, <3>2, <2>2, <2>3, <1>2
    <3>5. PacketOK(x)'
      <4>1. PacketOK(h)'
        BY <2>1, <2>3, <1>p
      <4>2. QED BY <4>1, <3>3 DEF PacketOK
    <3>6. ASSUME NEW d \in ToSet(packets') PROVE PacketOK(d)'
      <4>1. d \in ToSet(packets) \/ d = x
        BY <1>2, <2>3, <3>3, <3>4, SetOfReplaced
      <4>2. QED BY <4>1, <2>1, <3>5, <1>p
    <3>7. ASSUME NEW d \in ToSet(waiting') PROVE WaitingOK(d)'
      BY <2>1, <3>1, <1>w
    <3>8. QED BY <3>6, <3>7 DEF UnderWayOK, ToSet
  <2>6. CASE ~(h.left > 1)
    <3>1. packets' = Tail(packets) /\ waiting' = Append(waiting, [n |-> h.n, at |-> clock])
      BY <1>7, <2>3, <2>6 DEF PacketArrives
    <3>2. PICK x : x = [n |-> h.n, at |-> clock]
      OBVIOUS
    <3>3. x \in W /\ x.n = h.n /\ x.at = clock
      BY <1>2, <2>3, <3>2 DEF P, W
    <3>4. WaitingOK(x)'
      <4>1. PacketOK(h)'
        BY <2>1, <2>3, <1>p
      <4>2. /\ h.n \in 1 .. sent' /\ h.at <= clock' /\ clock' <= h.at + Jitter /\ h.at \in Nat
            /\ Timed(h.n, h.at)'
        BY <4>1, <2>3 DEF PacketOK, P
      <4>3. x.at <= clock' /\ clock' <= x.at + Lag /\ h.at <= x.at /\ x.at <= h.at + Jitter
        BY <1>2, <2>1, <3>3, <4>2
      <4>4. QED BY <3>3, <4>2, <4>3 DEF WaitingOK
    <3>5. ASSUME NEW d \in ToSet(packets') PROVE PacketOK(d)'
      <4>1. d \in ToSet(packets)
        BY <1>2, <2>1, <3>1, SetOfTail
      <4>2. QED BY <4>1, <2>1, <1>p
    <3>6. ASSUME NEW d \in ToSet(waiting') PROVE WaitingOK(d)'
      <4>1. d \in ToSet(waiting) \/ d = x
        BY <1>2, <3>1, <3>2, <3>3, SetOfAppend
      <4>2. QED BY <4>1, <2>1, <3>4, <1>w
    <3>7. QED BY <3>5, <3>6 DEF UnderWayOK, ToSet
  <2>7. QED BY <2>5, <2>6
<1>8. CASE Lose
  <2>1. /\ UNCHANGED <<clock, waiting>>
        /\ packets' = packets \/ (packets # <<>> /\ packets' = Tail(packets))
    BY <1>8 DEF Lose
  <2>2. \A d \in ToSet(packets') : d \in ToSet(packets)
    BY <1>2, <2>1, SetOfTail
  <2>3. QED BY <1>k, <2>1, <2>2
<1>9. CASE Process
  <2>1. UNCHANGED <<clock, packets>> /\ waiting # <<>> /\ waiting' = Tail(waiting)
    BY <1>9 DEF Process
  <2>2. \A d \in ToSet(waiting') : d \in ToSet(waiting)
    BY <1>2, <2>1, SetOfTail
  <2>3. QED BY <1>k, <2>1, <2>2
<1>10. CASE Tick
  <2>1. /\ clock' = clock + 1 /\ UNCHANGED <<packets, waiting>>
        /\ \A d \in ToSet(samples \o packets) : clock < d.at + Jitter
        /\ \A d \in ToSet(waiting) : clock < d.at + Lag
    BY <1>10 DEF Tick
  <2>2. ASSUME NEW d \in ToSet(packets) PROVE PacketOK(d)'
    <3>1. samples \in Seq(W)
      BY <1>1 DEF SimTypeOK, W
    <3>2. PICK i \in 1 .. Len(packets) : d = packets[i]
      BY <1>2 DEF ToSet
    <3>3. /\ Len(samples) + i \in DOMAIN (samples \o packets)
          /\ (samples \o packets)[Len(samples) + i] = d
      BY <1>2, <3>1, <3>2
    <3>4. d \in ToSet(samples \o packets)
      BY <3>3 DEF ToSet
    <3>5. clock' <= d.at + Jitter
      BY <2>1, <3>4, <1>2, <1>3 DEF P
    <3>6. QED BY <3>5, <1>3, <1>4, PacketStays DEF P
  <2>3. ASSUME NEW d \in ToSet(waiting) PROVE WaitingOK(d)'
    <3>1. clock' <= d.at + Lag
      BY <2>1, <1>2, <1>3 DEF W
    <3>2. QED BY <3>1, <1>3, <1>4, WaitingStays DEF W
  <2>4. QED BY <2>1, <2>2, <2>3 DEF UnderWayOK, ToSet
<1>11. QED
  BY <1>5, <1>6, <1>7, <1>8, <1>9, <1>10
     DEF SimNext, simVars, Load, NoSample, SendSample, CannotStamp, SendFails, MeasurementsArrive

LEMMA OfTheScript ==
    ASSUME NEW K, NEW s \in Scripts(K), NEW i \in Int, NEW c
    PROVE  c \in Faults(s, i) <=> InScript(s, c, i)
<1>1. CASE s = None
  BY <1>1 DEF Faults, Hit, InScript
<1>2. CASE s # None
  <2>1. s.first \in Nat /\ s.frames \in Nat
    BY <1>2 DEF Scripts
  <2>2. Hit(s, i) <=> i - s.first \in 0 .. s.frames - 1
    BY <1>2, <2>1 DEF Hit
  <2>3. QED BY <1>2, <2>2 DEF Faults, InScript
<1>3. QED BY <1>1, <1>2

-----------------------------------------------------------------------------
(* What a packet is joined to. *)

Held(j) == j \in 1 .. Len(arrived) /\ Len(arrived) - Len(entries) < j
Far(j, q) == Distance(arrived[j].t, q)

LEMMA Arrivals ==
    ASSUME SimInv
    PROVE  /\ Len(arrived) \in Nat /\ clock \in Nat /\ sent \in Nat /\ plan \in Plans
           /\ sent <= Len(items) /\ Len(items) \in Nat
           /\ LeadOf(plan) \in Nat /\ PauseOf(plan) \in Nat
           /\ \A k \in 1 .. Len(arrived) :
                 /\ arrived[k] \in Measurement /\ arrived[k].t \in Nat /\ arrived[k].of \in Nat
                 /\ arrived[k].t <= clock /\ EntryOK(arrived[k])
<1>1. /\ SimTypeOK /\ ItemsOK /\ \A k \in 1 .. Len(arrived) : EntryOK(arrived[k])
  BY DEF SimInv, ArrivedOK
<1>2. arrived \in Seq(Measurement) /\ plan \in Plans
  BY <1>1 DEF SimTypeOK
<1>3. ASSUME NEW k \in 1 .. Len(arrived)
      PROVE  /\ arrived[k] \in Measurement /\ arrived[k].t \in Nat /\ arrived[k].of \in Nat
             /\ arrived[k].t <= clock
  <2>1. arrived[k] \in Measurement
    BY <1>2, ElementOfSeq
  <2>2. arrived[k].t <= clock
    BY <1>1 DEF EntryOK
  <2>3. QED BY <2>1, <2>2, MeasurementFields
<1>4. LeadOf(plan) \in Nat /\ PauseOf(plan) \in Nat
  BY <1>2, PlanTypes
<1>5. clock \in Nat /\ sent \in Nat /\ items \in Seq(ItemType) /\ sent <= Len(items)
  BY <1>1 DEF SimTypeOK, ItemsOK
<1>6. Len(items) \in Nat /\ Len(arrived) \in Nat
  BY <1>2, <1>5
<1>7. QED BY <1>1, <1>2, <1>3, <1>4, <1>5, <1>6

\* The nearest of what is held is found, and of equally near ones the first.
LEMMA NearestHeld ==
    ASSUME SimInv, NEW q \in Nat
    PROVE  /\ Found(q) # None =>
                \E x \in 1 .. Len(arrived) :
                   /\ Held(x) /\ Found(q) = arrived[x] /\ Far(x, q) <= Window
                   /\ \A j \in 1 .. Len(arrived) :
                        Held(j) => Far(x, q) < Far(j, q) \/ (Far(x, q) = Far(j, q) /\ x <= j)
           /\ \A j \in 1 .. Len(arrived) :
                RfOn /\ Held(j) /\ Far(j, q) <= Window => Found(q) # None
<1> DEFINE n == Len(arrived)
           l == Len(entries)
<1>1. /\ n \in Nat /\ l \in Nat /\ l <= n /\ entries \in Seq(Measurement)
      /\ DOMAIN entries = 1 .. l /\ Window \in Nat
      /\ \A i \in 1 .. l : entries[i] = arrived[n - l + i] /\ entries[i] \in Measurement
                           /\ entries[i].t \in Nat
  <2>1. entries \in Seq(Measurement) /\ StoredOK
    BY DEF SimInv, SimTypeOK, ArrivedOK
  <2>2. \A i \in 1 .. l : entries[i] \in Measurement /\ entries[i].t \in Nat
    BY <2>1, StampsType
  <2>3. QED BY <2>1, <2>2, Arrivals, Times DEF StoredOK
<1>2. \A i \in 1 .. l : entries[i].t \in Int
  BY <1>1
<1> HIDE DEF n, l
<1>3. ASSUME NEW i \in 1 .. l PROVE n - l + i \in 1 .. n /\ n - l < n - l + i /\ i \in Int
  BY <1>1
<1>4. ASSUME NEW j \in 1 .. n, n - l < j
      PROVE  \E i \in 1 .. l : n - l + i = j
  <2>1. j - (n - l) \in 1 .. l /\ n - l + (j - (n - l)) = j
    BY <1>1, <1>4
  <2>2. QED BY <2>1
<1>5. ASSUME Found(q) # None
      PROVE  \E x \in 1 .. n :
                /\ n - l < x /\ Found(q) = arrived[x] /\ Far(x, q) <= Window
                /\ \A j \in 1 .. n :
                     n - l < j => Far(x, q) < Far(j, q) \/ (Far(x, q) = Far(j, q) /\ x <= j)
  <2>1. Candidates(q) # {} /\ Found(q) = entries[Nearest(q)]
    BY <1>5 DEF Found
  <2>2. /\ Nearest(q) \in Candidates(q)
        /\ \A i \in Candidates(q) :
              \/ Distance(entries[Nearest(q)].t, q) < Distance(entries[i].t, q)
              \/ /\ Distance(entries[Nearest(q)].t, q) = Distance(entries[i].t, q)
                 /\ Nearest(q) <= i
    <3>1. \A i \in DOMAIN entries : entries[i].t \in Int
      BY <1>1, <1>2
    <3>2. q \in Int
      OBVIOUS
    <3>3. QED BY <1>1, <2>1, <3>1, <3>2, NearestFirst
  <2>3. PICK y \in 1 .. l :
          /\ y = Nearest(q) /\ Distance(entries[y].t, q) <= Window
          /\ \A i \in Candidates(q) :
              \/ Distance(entries[y].t, q) < Distance(entries[i].t, q)
              \/ Distance(entries[y].t, q) = Distance(entries[i].t, q) /\ y <= i
    <3>1. Nearest(q) \in 1 .. l /\ Distance(entries[Nearest(q)].t, q) <= Window
      BY <1>1, <2>2 DEF Candidates, InWindow
    <3>2. QED BY <2>2, <3>1
  <2>4. PICK x \in 1 .. n : x = n - l + y /\ n - l < x /\ arrived[x] = entries[y]
    BY <1>1, <1>3
  <2>5. Found(q) = arrived[x] /\ Far(x, q) = Distance(entries[y].t, q) /\ Far(x, q) <= Window
    BY <2>1, <2>3, <2>4 DEF Far
  <2>6. ASSUME NEW j \in 1 .. n, n - l < j
        PROVE  Far(x, q) < Far(j, q) \/ (Far(x, q) = Far(j, q) /\ x <= j)
    <3>1. PICK i \in 1 .. l : n - l + i = j
      BY <1>4, <2>6
    <3>2. Far(j, q) = Distance(entries[i].t, q)
      BY <1>1, <3>1 DEF Far
    <3>3. Far(j, q) \in Nat /\ Far(x, q) \in Nat
      <4>1. entries[i].t \in Int /\ entries[y].t \in Int /\ q \in Int
        BY <1>2
      <4>2. QED BY <2>5, <3>2, <4>1, DistanceType
    <3>4. CASE i \in Candidates(q)
      <4>1. Far(x, q) < Far(j, q) \/ (Far(x, q) = Far(j, q) /\ y <= i)
        BY <2>3, <2>5, <3>2, <3>4
      <4>2. y <= i => x <= j
        BY <1>1, <2>4, <3>1
      <4>3. QED BY <4>1, <4>2
    <3>5. CASE i \notin Candidates(q)
      <4>1. ~(Far(j, q) <= Window)
        BY <1>1, <3>2, <3>5 DEF Candidates, InWindow
      <4>2. QED BY <1>1, <2>5, <3>3, <4>1
    <3>6. QED BY <3>4, <3>5
  <2>7. QED BY <2>4, <2>5, <2>6
<1>6. ASSUME NEW j \in 1 .. n, RfOn, n - l < j, Far(j, q) <= Window
      PROVE  Found(q) # None
  <2>1. PICK i \in 1 .. l : n - l + i = j
    BY <1>4, <1>6
  <2>2. i \in Candidates(q)
    BY <1>1, <1>6, <2>1 DEF Candidates, InWindow, Far
  <2>3. Found(q) = entries[Nearest(q)]
    BY <1>6, <2>2 DEF Found
  <2>4. Nearest(q) \in 1 .. l
    <3>1. \A k \in DOMAIN entries : entries[k].t \in Int
      BY <1>1, <1>2
    <3>2. q \in Int
      OBVIOUS
    <3>3. Nearest(q) \in Candidates(q)
      BY <1>1, <2>2, <3>1, <3>2, NearestFirst
    <3>4. QED BY <1>1, <3>3 DEF Candidates
  <2>5. QED BY <1>1, <2>3, <2>4, PlansAssumption
<1>7. QED BY <1>5, <1>6 DEF Held, n, l

\* A sample and what comes after it, in the time of the clock.
LEMMA EarlierByLead ==
    ASSUME NEW p \in Plans, NEW e \in Measurement, NEW n \in Nat, e.of <= n,
           NEW x \in Int, After(p, e, n, x)
    PROVE  /\ (n - e.of) * PauseOf(p) \in Nat
           /\ e.t + LeadOf(p) - Jitter + (n - e.of) * PauseOf(p) <= x
           /\ e.t + LeadOf(p) - Jitter <= x
<1>1. e.of \in Nat /\ e.t \in Int /\ LeadOf(p) \in Nat /\ Jitter \in Nat
  BY MeasurementFields, PlanTypes, Times
<1>2. Due(p, e.of, e.t) + (LeadOf(p) - Jitter) <= Due(p, n, x)
  <2>1. Due(p, e.of, e.t) \in Int /\ Due(p, n, x) \in Int
    BY <1>1, DueType
  <2> DEFINE a == Due(p, e.of, e.t)
             c == Due(p, n, x)
  <2>2. a + LeadOf(p) <= c + Jitter /\ a \in Int /\ c \in Int
    BY <2>1 DEF After
  <2> HIDE DEF a, c
  <2>3. a + (LeadOf(p) - Jitter) <= c
    BY <1>1, <2>2
  <2>4. QED BY <2>3 DEF a, c
<1>3. LeadOf(p) - Jitter \in Int
  BY <1>1
<1>4. /\ (n - e.of) * PauseOf(p) \in Nat
      /\ e.t + (LeadOf(p) - Jitter) + (n - e.of) * PauseOf(p) <= x
      /\ e.t + (LeadOf(p) - Jitter) <= x
  BY <1>1, <1>2, <1>3, DueApart
<1> DEFINE k == (n - e.of) * PauseOf(p)
<1> HIDE DEF k
<1>5. k \in Nat /\ e.t + LeadOf(p) - Jitter + k <= x /\ e.t + LeadOf(p) - Jitter <= x
  BY <1>1, <1>4 DEF k
<1>6. QED BY <1>5 DEF k

\* What was sent later than packet n.
LEMMA LaterByPauses ==
    ASSUME NEW p \in Plans, NEW e \in Measurement, NEW n \in Nat, e.of > n,
           NEW b \in Nat, Due(p, n, b) <= Due(p, e.of, e.t)
    PROVE  /\ (e.of - n) * PauseOf(p) \in Nat /\ b + (e.of - n) * PauseOf(p) <= e.t
           /\ b + PauseOf(p) <= e.t
<1>1. e.of \in Nat /\ e.t \in Int /\ b \in Int /\ PauseOf(p) \in Nat /\ n <= e.of
  BY MeasurementFields, PlanTypes
<1>2. Due(p, n, b) + 0 <= Due(p, e.of, e.t)
  <2>1. Due(p, n, b) \in Int
    BY <1>1, DueType
  <2>2. QED BY <2>1
<1>3. (e.of - n) * PauseOf(p) \in Nat /\ b + 0 + (e.of - n) * PauseOf(p) <= e.t
  BY <1>1, <1>2, DueApart
<1>4. PauseOf(p) <= (e.of - n) * PauseOf(p)
  <2>1. e.of - n \in Nat /\ e.of - n >= 1
    BY <1>1
  <2>2. \A k \in Nat, y \in Nat : k >= 1 => y <= k * y
    OBVIOUS
  <2>3. QED BY <1>1, <2>1, <2>2
<1> DEFINE k == (e.of - n) * PauseOf(p)
<1> HIDE DEF k
<1>5. k \in Nat /\ b + k <= e.t /\ b + PauseOf(p) <= e.t
  BY <1>1, <1>3, <1>4 DEF k
<1>6. QED BY <1>5 DEF k

\* Samples with a lead arrive in the order of their packets.
LEMMA InOrder ==
    ASSUME SimInv, LeadOf(plan) > Jitter, NEW j \in 1 .. Len(arrived), NEW k \in 1 .. Len(arrived),
           arrived[j].of < arrived[k].of
    PROVE  j < k /\ arrived[j].t < arrived[k].t
<1>1. /\ plan \in Plans /\ j \in Nat /\ k \in Nat
      /\ LeadOf(plan) \in Nat /\ Jitter \in Nat
      /\ arrived[j] \in Measurement /\ arrived[k] \in Measurement
      /\ arrived[j].of \in Nat /\ arrived[k].of \in Nat
      /\ arrived[j].t \in Nat /\ arrived[k].t \in Nat
  BY Arrivals, Times
<1> DEFINE a == arrived[j].of
           b == arrived[k].of
           x == arrived[j].t
           y == arrived[k].t
<1>2. ~(k < j)
  <2>1. ASSUME k < j PROVE FALSE
    <3>1. j - k <= a - b
      BY <2>1 DEF SimInv, ArrivedOK
    <3>2. a < b /\ a \in Nat /\ b \in Nat
      BY <1>1
    <3> HIDE DEF a, b
    <3>3. QED BY <1>1, <2>1, <3>1, <3>2
  <2>2. QED BY <2>1
<1>3. j # k
  BY <1>1
<1>4. j < k
  BY <1>1, <1>2, <1>3
<1>5. After(plan, arrived[j], b, y)
  BY <1>4 DEF SimInv, ArrivedOK
<1>6. x + LeadOf(plan) - Jitter <= y
  <2>1. arrived[j].of <= b /\ y \in Int
    BY <1>1
  <2>2. QED BY <1>1, <1>5, <2>1, EarlierByLead
<1> DEFINE l == LeadOf(plan)
<1>7. x \in Nat /\ y \in Nat /\ l \in Nat /\ l > Jitter /\ x + l - Jitter <= y
  BY <1>1, <1>6
<1> HIDE DEF x, y, l
<1>8. x < y
  BY <1>1, <1>7
<1>9. QED BY <1>4, <1>8 DEF x, y

\* With a lead a packet's sample is there when the packet was sent.
LEMMA OwnArrived ==
    ASSUME SimInv, LeadOf(plan) > Jitter, NEW n \in 1 .. sent, Owns(n)
    PROVE  \E j \in 1 .. Len(arrived) : arrived[j].of = n
<1>1. sent \in Nat /\ n \in 1 .. Len(items) /\ Begun(n) /\ n <= sent
  <2>1. sent \in Nat /\ Len(items) \in Nat /\ sent <= Len(items)
    BY Arrivals
  <2>2. QED BY <2>1 DEF Begun
<1>2. Present(n)
  BY <1>1 DEF SimInv, OwnOK
<1>3. ASSUME NEW i \in 1 .. Len(samples), samples[i].n = n PROVE FALSE
  <2>1. samples[i] \in [n : Nat, at : Nat] /\ SampleOK(samples[i])
    <3>1. samples \in Seq([n : Nat, at : Nat]) /\ SamplesOK
      BY DEF SimInv, SimTypeOK
    <3>2. QED BY <3>1, ElementOfSeq DEF SamplesOK
  <2> DEFINE a == samples[i].at
             l == LeadOf(plan)
  <2>2. a + l <= clock /\ clock <= a + Jitter
    BY <1>1, <1>3, <2>1 DEF SampleOK
  <2>3. a \in Nat /\ l \in Nat /\ clock \in Nat /\ Jitter \in Nat /\ l > Jitter
    BY <2>1, Arrivals, Times
  <2> HIDE DEF a, l
  <2>4. QED BY <2>2, <2>3
<1>4. QED BY <1>2, <1>3 DEF Present

\* A packet that waits to be joined, sent at b, and a sample that arrived.
LEMMA JoinedAfter ==
    ASSUME SimInv, NEW n \in Nat, NEW b \in Nat, Timed(n, b), NEW j \in 1 .. Len(arrived)
    PROVE  /\ arrived[j].of <= n =>
                 /\ (n - arrived[j].of) * PauseOf(plan) \in Nat
                 /\ arrived[j].t + LeadOf(plan) - Jitter + (n - arrived[j].of) * PauseOf(plan) <= b
                 /\ arrived[j].t + LeadOf(plan) - Jitter <= b
           /\ arrived[j].of = n => b - LeadOf(plan) - Late <= arrived[j].t
           /\ arrived[j].of > n =>
                 /\ (arrived[j].of - n) * PauseOf(plan) \in Nat
                 /\ b + (arrived[j].of - n) * PauseOf(plan) <= arrived[j].t
                 /\ b + PauseOf(plan) <= arrived[j].t
<1>1. EntryTimed(plan, arrived[j], n, b) /\ arrived[j] \in Measurement /\ plan \in Plans
  BY Arrivals DEF Timed
<1>2. b \in Int
  OBVIOUS
<1>3. ASSUME arrived[j].of <= n
      PROVE  /\ (n - arrived[j].of) * PauseOf(plan) \in Nat
             /\ arrived[j].t + LeadOf(plan) - Jitter + (n - arrived[j].of) * PauseOf(plan) <= b
             /\ arrived[j].t + LeadOf(plan) - Jitter <= b
  BY <1>1, <1>2, <1>3, EarlierByLead DEF EntryTimed
<1>4. ASSUME arrived[j].of > n
      PROVE  /\ (arrived[j].of - n) * PauseOf(plan) \in Nat
             /\ b + (arrived[j].of - n) * PauseOf(plan) <= arrived[j].t
             /\ b + PauseOf(plan) <= arrived[j].t
  BY <1>1, <1>4, LaterByPauses DEF EntryTimed
<1>5. arrived[j].of = n => b - LeadOf(plan) - Late <= arrived[j].t
  BY <1>1 DEF EntryTimed
<1>6. QED BY <1>3, <1>4, <1>5

\* Where the deque is long enough a packet's sample, and those after it, are still held.
LEMMA StillHeld ==
    ASSUME SimInv, RfCapacity > 0, RfCapacity * PauseOf(plan) > Lag + Jitter,
           NEW n \in Nat, NEW b \in Nat, Timed(n, b), clock <= b + Jitter + Lag,
           NEW j \in 1 .. Len(arrived), arrived[j].of >= n
    PROVE  Held(j)
<1> DEFINE a == Len(arrived)
           l == Len(entries)
           i == j + RfCapacity
<1>1. /\ a \in Nat /\ l \in Nat /\ l <= a /\ (l < RfCapacity => l = a) /\ l <= RfCapacity
      /\ RfCapacity \in Nat /\ j \in Nat /\ j <= a
  <2>1. StoredOK /\ entries \in Seq(Measurement)
    BY DEF SimInv, SimTypeOK, ArrivedOK
  <2>2. QED BY <2>1, Arrivals, Times DEF StoredOK
<1>2. CASE i <= a
  <2>1. i \in 1 .. a /\ j < i /\ i - j = RfCapacity
    BY <1>1, <1>2
  <2>2. RfCapacity <= arrived[i].of - arrived[j].of
    BY <2>1 DEF SimInv, ArrivedOK
  <2> DEFINE x == arrived[i].of
             y == arrived[j].of
             t == arrived[i].t
             p == PauseOf(plan)
  <2>3. x \in Nat /\ y \in Nat /\ t \in Nat /\ t <= clock /\ p \in Nat /\ clock \in Nat
        /\ Lag \in Nat /\ Jitter \in Nat
    BY <2>1, Arrivals, Times
  <2>4. x > n => b + (x - n) * p <= t
    BY <2>1, JoinedAfter
  <2>5. RfCapacity * p > Lag + Jitter /\ y >= n /\ RfCapacity <= x - y
    BY <2>2
  <2> HIDE DEF i, x, y, t, p
  <2>6. x - n \in Nat /\ RfCapacity <= x - n /\ x > n
    BY <1>1, <2>3, <2>5
  <2>7. RfCapacity * p <= (x - n) * p
    <3>1. \A u \in Nat, v \in Nat, w \in Nat : u <= v => u * w <= v * w
      <4>1. ASSUME NEW u \in Nat, NEW v \in Nat, NEW w \in Nat, u <= v PROVE u * w <= v * w
        <5>1. (v - u) * w \in Nat /\ v * w = u * w + (v - u) * w
          BY <4>1, NotNegative
        <5>2. u * w \in Nat
          BY NotNegative
        <5>3. QED BY <5>1, <5>2
      <4>2. QED BY <4>1
    <3>2. QED BY <1>1, <2>3, <2>6, <3>1
  <2> DEFINE u == RfCapacity * p
             v == (x - n) * p
  <2>8. u \in Nat /\ v \in Nat /\ u <= v /\ u > Lag + Jitter /\ b + v <= t
    BY <1>1, <2>3, <2>4, <2>5, <2>6, <2>7, NotNegative
  <2> HIDE DEF u, v
  <2>9. FALSE
    BY <2>3, <2>8
  <2>10. QED BY <2>9
<1>3. CASE ~(i <= a)
  <2> HIDE DEF a, l
  <2>1. a - l < j
    BY <1>1, <1>3
  <2>2. QED BY <2>1 DEF Held, a, l
<1>4. QED BY <1>2, <1>3

LEMMA Distances ==
    ASSUME NEW a \in Nat, NEW q \in Nat
    PROVE  /\ Distance(a, q) \in Nat
           /\ a <= q => Distance(a, q) = q - a
           /\ q <= a => Distance(a, q) = a - q
BY DEF Distance

\* What is found for a packet that waits fits it.
LEMMA JoinFits ==
    ASSUME SimInv, NEW d \in [n : Nat, at : Nat], WaitingOK(d), Found(d.at) # None
    PROVE  Fits(d.n, Found(d.at)) /\ Found(d.at) \in Measurement
<1> DEFINE n == d.n
           q == d.at
           p == PauseOf(plan)
           l == LeadOf(plan)
<1>1. /\ n \in Nat /\ q \in Nat /\ p \in Nat /\ l \in Nat /\ n \in 1 .. sent /\ sent \in Nat
      /\ clock <= q + Lag /\ clock \in Nat /\ Jitter \in Nat /\ Late \in Nat /\ Lag \in Nat
      /\ Window \in Nat /\ RfCapacity \in Nat /\ n <= sent
  <2>1. n \in 1 .. sent /\ clock <= q + Lag
    BY DEF WaitingOK
  <2>2. sent \in Nat
    BY Arrivals
  <2>3. QED BY <2>1, <2>2, Arrivals, Times
<1>2. PICK b \in Nat : b <= q /\ q <= b + Jitter /\ Timed(n, b)
  BY DEF WaitingOK
<1>3. PICK x \in 1 .. Len(arrived) :
        /\ Held(x) /\ Found(q) = arrived[x] /\ Far(x, q) <= Window
        /\ \A j \in 1 .. Len(arrived) :
             Held(j) => Far(x, q) < Far(j, q) \/ (Far(x, q) = Far(j, q) /\ x <= j)
  BY <1>1, NearestHeld
<1> DEFINE o == arrived[x].of
           t == arrived[x].t
<1>4. /\ o \in Nat /\ t \in Nat /\ arrived[x] \in Measurement /\ EntryOK(arrived[x])
      /\ x \in Nat /\ Len(arrived) \in Nat
  BY Arrivals
<1>5. /\ Far(x, q) \in Nat
      /\ t <= q => Far(x, q) = q - t
      /\ q <= t => Far(x, q) = t - q
  BY <1>1, <1>4, Distances DEF Far
<1>6. /\ o <= n => /\ (n - o) * p \in Nat /\ t + l - Jitter + (n - o) * p <= b
      /\ o > n => (o - n) * p \in Nat /\ b + (o - n) * p <= t /\ b + p <= t
  BY <1>1, <1>2, JoinedAfter
<1> DEFINE f == Far(x, q)
<1> HIDE DEF n, q, p, l, o, t, f
<1>7. Distance(o, n) * p <= Window + Jitter
  <2>1. CASE o <= n
    <3>1. Distance(o, n) = n - o
      BY <1>1, <1>4, <2>1, Distances
    <3> DEFINE k == (n - o) * p
    <3>2. k \in Nat /\ t + l - Jitter + k <= b
      BY <1>6, <2>1
    <3> HIDE DEF k
    <3>3. f \in Nat /\ f <= Window /\ (t <= q => f = q - t)
      BY <1>3, <1>5 DEF f
    <3>4. k <= Window + Jitter
      BY <1>1, <1>2, <1>4, <3>2, <3>3
    <3>5. QED BY <3>1, <3>4 DEF k
  <2>2. CASE o > n
    <3>1. Distance(o, n) = o - n
      BY <1>1, <1>4, <2>2, Distances
    <3> DEFINE k == (o - n) * p
    <3>2. k \in Nat /\ b + k <= t
      BY <1>6, <2>2
    <3> HIDE DEF k
    <3>3. f \in Nat /\ f <= Window /\ (q <= t => f = t - q)
      BY <1>3, <1>5 DEF f
    <3>4. k <= Window + Jitter
      BY <1>1, <1>2, <1>4, <3>2, <3>3
    <3>5. QED BY <3>1, <3>4 DEF k
  <2>3. QED BY <1>1, <1>4, <2>1, <2>2
\* A nearer one that is held would have been found.
<1>8. ASSUME NEW j \in 1 .. Len(arrived), Held(j), NEW g \in Nat, g = Far(j, q)
      PROVE  f < g \/ (f = g /\ x <= j)
  BY <1>3, <1>8 DEF f
<1>9. ASSUME l > Jitter, NEW k \in o + 1 .. n PROVE ~Owns(k)
  <2>1. SUFFICES ASSUME Owns(k) PROVE FALSE
    OBVIOUS
  <2>2. k \in 1 .. sent /\ k <= n /\ o < k /\ k \in Nat
    BY <1>1, <1>4
  <2>3. PICK j \in 1 .. Len(arrived) : arrived[j].of = k
    BY <1>9, <2>1, <2>2, OwnArrived DEF l
  <2>4. x < j /\ t < arrived[j].t
    BY <1>9, <2>2, <2>3, InOrder DEF o, t, l
  <2>5. Held(j)
    <3>1. Len(arrived) - Len(entries) < x /\ Len(entries) \in Nat /\ j \in Nat
      <4>1. entries \in Seq(Measurement)
        BY DEF SimInv, SimTypeOK
      <4>2. QED BY <1>3, <4>1 DEF Held
    <3>2. Len(arrived) - Len(entries) < j
      BY <1>4, <2>4, <3>1
    <3>3. QED BY <3>2 DEF Held
  <2> DEFINE y == arrived[j].t
             g == Far(j, q)
  <2>6. y \in Nat /\ t < y /\ y + l - Jitter <= b
    BY <1>1, <1>2, <2>2, <2>3, <2>4, Arrivals, JoinedAfter DEF l
  <2>7. g \in Nat /\ (y <= q => g = q - y)
    BY <1>1, <2>6, Distances DEF Far
  <2> HIDE DEF y, g
  <2>8. y <= q /\ t <= q
    BY <1>1, <1>2, <1>4, <1>9, <2>6
  <2>9. g < f
    BY <1>1, <1>4, <1>5, <2>6, <2>7, <2>8 DEF f
  <2>10. f < g \/ f = g
    BY <1>8, <2>5, <2>7 DEF g
  <2>11. f \in Nat
    BY <1>5 DEF f
  <2>12. QED BY <2>7, <2>9, <2>10, <2>11
<1>10. ASSUME Paced(plan), NEW k \in n .. o - 1 PROVE ~Owns(k)
  <2>1. SUFFICES ASSUME Owns(k) PROVE FALSE
    OBVIOUS
  <2>2. /\ l > Jitter /\ l + Late + 2 * Jitter <= p
        /\ RfCapacity > 0 /\ RfCapacity * p > Lag + Jitter
    BY <1>10 DEF Paced, l, p
  <2>3. k \in 1 .. sent /\ n <= k /\ k < o /\ k \in Nat /\ o > n
    <3>1. o <= sent \/ o = sent + 1
      BY <1>4 DEF EntryOK, Begun, N, o
    <3>2. QED BY <1>1, <1>4, <3>1
  <2>4. PICK j \in 1 .. Len(arrived) : arrived[j].of = k
    BY <2>1, <2>2, <2>3, OwnArrived DEF l
  <2>5. j < x /\ arrived[j].t < t
    BY <2>2, <2>3, <2>4, InOrder DEF o, t, l
  <2>6. Held(j)
    <3>1. clock <= b + Jitter + Lag
      BY <1>1, <1>2
    <3>2. QED BY <1>1, <1>2, <2>2, <2>3, <2>4, <3>1, StillHeld DEF p
  <2> DEFINE y == arrived[j].t
             g == Far(j, q)
  <2>7. /\ y \in Nat /\ y < t /\ b + p <= t
        /\ k = n => b - l - Late <= y /\ y + l - Jitter <= b
        /\ k > n => b + p <= y
    <3>1. y \in Nat /\ y < t /\ b + p <= t
      BY <1>6, <2>3, <2>5, Arrivals
    <3>2. ASSUME k = n PROVE b - l - Late <= y /\ y + l - Jitter <= b
      <4>1. arrived[j].of = n /\ arrived[j].of <= n
        BY <1>1, <2>4, <3>2
      <4>2. QED BY <1>1, <1>2, <4>1, JoinedAfter DEF l
    <3>3. k > n => b + p <= y
      BY <1>1, <1>2, <2>4, JoinedAfter DEF p
    <3>4. QED BY <3>1, <3>2, <3>3
  <2>8. g \in Nat /\ (y <= q => g = q - y) /\ (q <= y => g = y - q)
    BY <1>1, <2>7, Distances DEF Far
  <2>9. f < g
    <3>1. f < g \/ (f = g /\ x <= j)
      BY <1>8, <2>6, <2>8
    <3>2. j \in Nat
      BY <2>4
    <3>3. QED BY <1>4, <2>5, <3>1, <3>2
  <2> HIDE DEF y, g
  <2>10. q <= t /\ f = t - q
    <3>1. q <= t
      BY <1>1, <1>2, <1>4, <2>2, <2>7
    <3>2. QED BY <1>5, <3>1 DEF f
  <2>11. CASE k = n
    <3>1. y <= q /\ b - l - Late <= y
      BY <1>1, <1>2, <2>2, <2>7, <2>11
    <3>2. g = q - y
      BY <2>8, <3>1
    <3>3. g <= f
      BY <1>1, <1>2, <1>4, <2>2, <2>7, <2>10, <3>1, <3>2
    <3>4. QED BY <1>1, <1>4, <2>8, <2>9, <2>10, <3>3
  <2>12. CASE k > n
    <3>1. q <= y
      BY <1>1, <1>2, <2>2, <2>7, <2>12
    <3>2. g = y - q
      BY <2>8, <3>1
    <3>3. g < f
      BY <1>1, <1>4, <2>7, <2>10, <3>2
    <3>4. QED BY <1>1, <1>4, <2>8, <2>9, <2>10, <3>3
  <2>13. QED BY <1>1, <2>3, <2>11, <2>12
<1>11. QED BY <1>3, <1>4, <1>7, <1>9, <1>10 DEF Fits, n, q, p, l, o

\* Where the pacing allows it what is found is a packet's own.
LEMMA OwnIsFound ==
    ASSUME SimInv, NEW d \in [n : Nat, at : Nat], WaitingOK(d), Owns(d.n), Paced(plan)
    PROVE  /\ Found(d.at) \in Measurement /\ Found(d.at) # None /\ Found(d.at).of = d.n
           /\ Found(d.at).place = items[d.n].place /\ Found(d.at).faults = items[d.n].rf
<1> DEFINE n == d.n
           q == d.at
           p == PauseOf(plan)
           l == LeadOf(plan)
<1>1. /\ n \in Nat /\ q \in Nat /\ p \in Nat /\ l \in Nat /\ n \in 1 .. sent /\ sent \in Nat
      /\ clock <= q + Lag /\ clock \in Nat /\ Jitter \in Nat /\ Late \in Nat /\ Lag \in Nat
      /\ Window \in Nat
  <2>1. n \in 1 .. sent /\ clock <= q + Lag
    BY DEF WaitingOK
  <2>2. QED BY <2>1, Arrivals, Times
<1>2. PICK b \in Nat : b <= q /\ q <= b + Jitter /\ Timed(n, b)
  BY DEF WaitingOK
<1>3. /\ RfOn /\ l > Jitter /\ l + Late + Jitter <= Window
      /\ RfCapacity > 0 /\ RfCapacity * p > Lag + Jitter
  BY DEF Paced
<1>4. PICK j \in 1 .. Len(arrived) : arrived[j].of = n
  BY <1>1, <1>3, OwnArrived
<1>5. Held(j)
  <2>1. clock <= b + Jitter + Lag
    <3> HIDE DEF q
    <3>1. QED BY <1>1, <1>2
  <2>2. QED BY <1>1, <1>2, <1>3, <1>4, <2>1, StillHeld
<1> DEFINE y == arrived[j].t
           g == Far(j, q)
<1>6. y \in Nat /\ b - l - Late <= y /\ y + l - Jitter <= b
  BY <1>1, <1>2, <1>4, Arrivals, JoinedAfter
<1>7. g \in Nat /\ (y <= q => g = q - y)
  BY <1>1, <1>6, Distances DEF Far
<1> HIDE DEF n, q, p, l, y, g
<1>8. g <= Window
  BY <1>1, <1>2, <1>3, <1>6, <1>7
<1>9. Found(q) # None
  BY <1>1, <1>3, <1>5, <1>8, NearestHeld DEF g
<1>10. PICK x \in 1 .. Len(arrived) : Found(q) = arrived[x]
  BY <1>1, <1>9, NearestHeld
<1>11. arrived[x] \in Measurement /\ EntryOK(arrived[x]) /\ arrived[x].of \in Nat
  BY Arrivals
<1>12. Fits(n, arrived[x]) /\ Owns(n)
  BY <1>9, <1>10, JoinFits DEF n, q
<1> DEFINE o == arrived[x].of
<1>13. (\A k \in o + 1 .. n : ~Owns(k)) /\ (\A k \in n .. o - 1 : ~Owns(k))
  BY <1>3, <1>12 DEF Fits, l
<1>14. o = n
  <2> HIDE DEF o
  <2>1. o \in Nat
    BY <1>11 DEF o
  <2>2. ~(o < n)
    BY <1>1, <1>12, <1>13, <2>1
  <2>3. ~(n < o)
    BY <1>1, <1>12, <1>13, <2>1
  <2>4. QED BY <1>1, <2>1, <2>2, <2>3
<1>15. QED BY <1>9, <1>10, <1>11, <1>14 DEF EntryOK, n, q

LEMMA MessageStays ==
    ASSUME SimInv, [SimNext]_simVars, step # "load", NEW m, JudgedRight(m)
    PROVE  JudgedRight(m)'
<1>1. UNCHANGED <<items, plan>> /\ lost \subseteq lost'
  BY Onward
<1>2. \A k : ~Owns(k) => ~Owns(k)'
  BY <1>1 DEF Owns, Measured
<1>3. m.sample # None => Fits(m.n, m.sample)'
  BY <1>1, <1>2 DEF JudgedRight, Fits
<1>4. Owns(m.n)' => Owns(m.n)
  BY <1>2
<1>5. QED BY <1>1, <1>3, <1>4 DEF JudgedRight

LEMMA MessageIsRight ==
    ASSUME SimInv, NEW d \in [n : Nat, at : Nat], WaitingOK(d), NEW m,
           m = [n |-> d.n, sample |-> Found(d.at),
                alarms |-> RfAlarms(Found(d.at), items[d.n].place)
                  \cup (IF items[d.n].place = None THEN {} ELSE items[d.n].hil)]
    PROVE  JudgedRight(m)
<1>1. SimTypeOK /\ ItemsOK
  BY DEF SimInv
<1> DEFINE i == d.n - 1
           item == items[d.n]
           s == Found(d.at)
<1>2. /\ m.n = d.n /\ m.sample = s
      /\ m.alarms = RfAlarms(s, item.place) \cup (IF item.place = None THEN {} ELSE item.hil)
  OBVIOUS
<1>3. d.n \in 1 .. sent /\ d.n \in 1 .. Len(items) /\ i \in Int
  <2>1. d.n \in 1 .. sent /\ d.n \in Int
    BY DEF WaitingOK
  <2>2. sent \in Nat /\ Len(items) \in Nat /\ sent <= Len(items)
    BY <1>1 DEF SimTypeOK, ItemsOK
  <2>3. QED BY <2>1, <2>2
<1>4. /\ item.hil \in SUBSET Subsystems /\ item.rf \in (SUBSET RfChecks) \cup {None}
      /\ RfAlarms(s, item.place) \in SUBSET RfChecks
  <2>1. s \in Measurement \cup {None}
    <3>1. d.at \in Int
      OBVIOUS
    <3>2. QED BY <1>1, <3>1, FoundType
  <2>2. RfAlarms(s, item.place) \in SUBSET RfChecks
    BY <2>1, AlarmsType
  <2>3. QED BY <1>1, <1>3, <2>2, ItemFields DEF SimTypeOK
<1>5. \A c \in RfChecks : c \notin Subsystems
  BY RfAssumption DEF Subsystems
<1>6. Owns(d.n) /\ Paced(plan) =>
        s # None /\ s.of = d.n /\ s.place = item.place /\ s.faults = item.rf
  BY OwnIsFound
<1>f. s # None => Fits(d.n, s)
  BY JoinFits
<1>7. Owns(d.n) <=> item.rf # None /\ d.n \notin lost
  BY DEF Owns, Measured
<1> HIDE DEF s, item
<1>8. ASSUME plan.tool = "sim", item.place # None
      PROVE  /\ plan.rfScript \in Scripts(RfChecks) /\ plan.script \in Scripts(Subsystems)
             /\ item.rf # None => item.rf = Faults(plan.rfScript, i)
             /\ item.hil = Faults(plan.script, i) \cup (IF i > MaxRate THEN {"rate"} ELSE {})
  <2>1. plan \in Simulation
    BY <1>1, <1>8, PlansAssumption DEF SimTypeOK, Recording
  <2>2. item = SimItem(plan, i)
    BY <1>1, <1>3, <1>8 DEF ItemsOK, item
  <2>3. /\ item.rf = (IF plan.rfDest /\ plan.sky[i + 1] # None
                      THEN Faults(plan.rfScript, i) ELSE None)
        /\ item.hil = Faults(plan.script, i) \cup (IF i > MaxRate THEN {"rate"} ELSE {})
    BY <2>2 DEF SimItem
  <2>4. QED BY <2>1, <2>3 DEF Simulation
<1> HIDE DEF i
<1>9. ASSUME plan.tool = "sim", item.place # None, Owns(d.n), Paced(plan), NEW c \in RfChecks,
             ~(c = "pointing" /\ item.place \in Overhead)
      PROVE  c \in m.alarms <=> InScript(plan.rfScript, c, i)
  <2>1. s # None /\ s.place = item.place /\ s.faults = Faults(plan.rfScript, i)
    BY <1>6, <1>7, <1>8, <1>9
  <2>2. c \in RfAlarms(s, item.place) <=> c \in Faults(plan.rfScript, i)
    BY <1>9, <2>1 DEF RfAlarms
  <2>3. c \in m.alarms <=> c \in RfAlarms(s, item.place)
    BY <1>2, <1>4, <1>5
  <2>4. QED BY <1>3, <1>8, <1>9, <2>2, <2>3, OfTheScript
<1>10. ASSUME plan.tool = "sim", item.place # None, NEW c \in Subsystems,
              ~(c = "rate" /\ i > MaxRate)
       PROVE  c \in m.alarms <=> InScript(plan.script, c, i)
  <2>1. c \in m.alarms <=> c \in item.hil
    BY <1>2, <1>4, <1>5, <1>10
  <2>2. c \in item.hil <=> c \in Faults(plan.script, i)
    BY <1>8, <1>10
  <2>3. QED BY <1>3, <1>8, <1>10, <2>1, <2>2, OfTheScript
<1>11. QED BY <1>2, <1>6, <1>f, <1>9, <1>10 DEF JudgedRight, item, i

LEMMA JudgedNext ==
    ASSUME SimInv, [SimNext]_simVars
    PROVE  JudgedOK'
<1>1. SimTypeOK /\ ItemsOK /\ UnderWayOK /\ JudgedOK /\ SimTypeOK'
  BY SimTypeNext DEF SimInv
<1>2. /\ judged \in Seq(Judgement) /\ waiting \in Seq([n : Nat, at : Nat])
      /\ sent \in Nat /\ sent' \in Nat
  BY <1>1 DEF SimTypeOK
<1>3. ASSUME NEW m \in ToSet(judged), step # "load" PROVE m.n \in 1 .. sent' /\ JudgedRight(m)'
  <2>1. m.n \in 1 .. sent /\ JudgedRight(m)
    BY <1>1 DEF JudgedOK, JudgedByTheNearest
  <2>2. sent <= sent'
    BY <1>3, Onward
  <2>3. QED BY <1>2, <1>3, <2>1, <2>2, MessageStays
<1>4. ToSet(judged) # {} => step # "load"
  BY <1>1 DEF ItemsOK, ToSet
<1>k. ASSUME UNCHANGED judged PROVE JudgedOK'
  <2>1. ToSet(judged') = ToSet(judged)
    BY <1>k
  <2>2. ASSUME NEW m \in ToSet(judged') PROVE m.n \in 1 .. sent' /\ JudgedRight(m)'
    BY <2>1, <1>3, <1>4
  <2>3. QED BY <2>2 DEF JudgedOK, JudgedByTheNearest, ToSet
<1>5. CASE Process
  <2>1. PICK d : d = Head(waiting)
    OBVIOUS
  <2>2. PICK m : m = [n |-> d.n, sample |-> Found(d.at),
                      alarms |-> RfAlarms(Found(d.at), items[d.n].place)
                        \cup (IF items[d.n].place = None THEN {} ELSE items[d.n].hil)]
    OBVIOUS
  <2>3. judged' = Append(judged, m) /\ m \in Judgement /\ UNCHANGED sent
    BY <1>5, <2>1, <2>2, Judges
  <2>4. d \in ToSet(waiting) /\ d \in [n : Nat, at : Nat]
    <3>1. waiting # <<>>
      BY <1>5 DEF Process
    <3>2. d \in [n : Nat, at : Nat]
      BY <1>2, <2>1, <3>1, HeadIsMember
    <3>3. 1 \in DOMAIN waiting /\ d = waiting[1]
      BY <1>2, <2>1, <3>1
    <3>4. QED BY <3>2, <3>3 DEF ToSet
  <2>5. WaitingOK(d)
    BY <1>1, <2>4 DEF UnderWayOK
  <2>6. JudgedRight(m) /\ step # "load"
    <3>1. step # "load"
      BY <1>1, <1>5 DEF ItemsOK, Process
    <3>2. QED BY <2>2, <2>4, <2>5, <3>1, MessageIsRight
  <2>7. m.n \in 1 .. sent' /\ JudgedRight(m)'
    <3>1. m.n = d.n /\ d.n \in 1 .. sent
      BY <2>2, <2>5 DEF WaitingOK
    <3>2. QED BY <2>3, <2>6, <3>1, MessageStays
  <2>8. ASSUME NEW x \in ToSet(judged') PROVE x.n \in 1 .. sent' /\ JudgedRight(x)'
    <3>1. x \in ToSet(judged) \/ x = m
      BY <1>2, <2>3, SetOfAppend
    <3>2. QED BY <3>1, <2>6, <2>7, <1>3
  <2>9. QED BY <2>8 DEF JudgedOK, JudgedByTheNearest, ToSet
<1>6. QED
  BY <1>5, <1>k
     DEF SimNext, simVars, Load, NoSample, SendSample, SendPacket, CannotStamp, SendFails,
         MeasurementsArrive, PacketArrives, Lose, Tick

-----------------------------------------------------------------------------
(* The theorems. *)

\* What was sent and what was stored is in the order of the packets, up to the jitter,
\* once the pauses between them are taken off; nothing that is not lost is forgotten
\* (Simulator's actions; chronus-hil-sim/src/lib.rs:270-334, chronus-replay).
THEOREM SimInvariance == SimSpec => []SimInv
<1>1. SimInit => SimInv
  BY SimInitOK
<1>2. SimInv /\ [SimNext]_simVars => SimInv'
  BY SimTypeNext, ItemsNext, ArrivedNext, SamplesNext, OwnNext, UnderWayNext, JudgedNext
     DEF SimInv
<1>3. QED BY <1>1, <1>2, PTL DEF SimSpec

\* For every command line, recording, pacing and loss: a packet is judged by its own
\* sample where the pacing allows it; where it has none, or the pauses are too short,
\* by one within the window that is not older than the last before it, or by none.
THEOREM PacketsAreJudgedByTheNearest == SimSpec => []JudgedByTheNearest
<1>1. SimInv => JudgedByTheNearest
  BY DEF SimInv, JudgedOK
<1>2. QED BY <1>1, SimInvariance, PTL

=============================================================================
