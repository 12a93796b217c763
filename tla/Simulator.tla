------------------------------ MODULE Simulator ------------------------------
(***************************************************************************)
(* The two programs that stand in for a spacecraft and its receiver:       *)
(* chronus-hil-sim (lib.rs, rf.rs) and chronus-replay (main.rs).  Both     *)
(* send, for one packet after the other, the receiver's measurements to    *)
(* the gateway's side channel, wait a little, send the packet to its       *)
(* ingest, and wait again.  The gateway joins the two by arrival time      *)
(* (RfStore), whenever its pipeline comes to the packet.                   *)
(*                                                                         *)
(* Mission time is the packet's time code, which the gateway trusts        *)
(* (max_skew_s = 0).  A place is where the craft is at that time; packets  *)
(* milliseconds apart share one.                                           *)
(***************************************************************************)
EXTENDS RfStore, FiniteSets, SequencesExt

CONSTANTS
    Plans,   \* command lines of the simulator and of the replay tool
    Lead,    \* the simulator's rf_lead_ms
    Pause,   \* its frame_interval_ms where there is a receiver
    Jitter,  \* a datagram's longest way to the task that stamps it
    Late,    \* a sleep's longest overrun
    Lag,     \* the longest a packet waits for the pipeline
    Overhead,  \* places so near the zenith that an azimuth matters little
    MaxRate, \* body_rate_max_abs_deg_s, as the frame that reaches it
    MaxLost  \* bound: sends that fail and datagrams lost

ASSUME TimesAssumption ==
    \A n \in {Lead, Pause, Jitter, Late, Lag, MaxRate, MaxLost} : n \in Nat

VARIABLES
    plan,    \* the command line
    items,   \* what there is to send: [rf, place, hil, datagrams, stampable]
    step,    \* the sender: load, sample, packet, done or failed
    sent,    \* packets sent
    wake,    \* when its sleep is over
    clock,
    samples, packets, \* datagrams under way to the two sockets, with the time of sending
    waiting, \* packets received: [n, at]
    judged,  \* the gateway's messages
    lost     \* samples that were lost, or not sent, by the number of their packet

simVars == <<rfVars, plan, items, step, sent, wake, clock, samples, packets, waiting, judged, lost>>

SimInit ==
    /\ RfInit
    /\ plan \in Plans
    /\ items = <<>> /\ step = "load" /\ sent = 0 /\ wake = 0 /\ clock = 0
    /\ samples = <<>> /\ packets = <<>> /\ waiting = <<>>
    /\ judged = <<>> /\ lost = {}

\* What is checked of a packet itself.
Subsystems == {"eps", "thermal", "rate"}

\* A sample as it is stored, with the packet it was sent for.
Measurement ==
    [t : Nat, of : Nat, place : Nat \cup {None}, faults : SUBSET RfChecks]

-----------------------------------------------------------------------------
(* What is sent. *)

\* apply_scripted_anomaly and apply_rf_anomaly: frame i lies in the script's window.
Hit(script, i) ==
    /\ script # None /\ script.frames > 0
    /\ i >= script.first /\ i < script.first + script.frames

Faults(script, i) == IF Hit(script, i) THEN {script.kind} ELSE {}

\* Frame i of a simulation.  The body rate goes up by 0.001 with each; where the
\* propagator fails there are no measurements.
SimItem(p, i) ==
    [rf |-> IF p.rfDest /\ p.sky[i + 1] # None THEN Faults(p.rfScript, i) ELSE None,
     place |-> p.sky[i + 1],
     hil |-> Faults(p.script, i) \cup (IF i > MaxRate THEN {"rate"} ELSE {}),
     datagrams |-> 1, stampable |-> TRUE]

SimItems(p) == [k \in 1 .. p.frames |-> SimItem(p, k - 1)]

\* The lines of a recording that stand for a packet, over and over; a packet in
\* TM frames fills as many as it needs, the last one padded.
IsPacket(line) == line.reads = "packet"
Once(p) == SelectSeq(p.lines, IsPacket)
LineItem(p, line) ==
    [rf |-> IF p.rfDest THEN line.rf ELSE None,
     place |-> line.place, hil |-> line.hil,
     datagrams |-> IF p.framed THEN line.datagrams ELSE 1,
     stampable |-> line.stampable]
ReplayItems(p) ==
    [k \in 1 .. p.repeat * Len(Once(p)) |-> LineItem(p, Once(p)[1 + ((k - 1) % Len(Once(p)))])]

\* Command lines and recordings there can be.
Scripts(kinds) == [kind : kinds, first : Nat, frames : Nat] \cup {None}
Simulation ==
    [tool : {"sim"}, frames : Nat, rfDest : BOOLEAN, rfScript : Scripts(RfChecks),
     script : Scripts(Subsystems), sky : Seq(Nat \cup {None})]
RecordedLine ==
    [reads : {"nothing", "packet", "short"}, rf : (SUBSET RfChecks) \cup {None},
     place : Nat \cup {None}, hil : SUBSET Subsystems, datagrams : Nat, stampable : BOOLEAN]
Recording ==
    [tool : {"replay"}, lines : Seq(RecordedLine), repeat : Nat, rfDest : BOOLEAN,
     lead : Nat, delay : Nat, framed : BOOLEAN, framing : BOOLEAN]

ASSUME PlansAssumption ==
    /\ \A p \in Plans :
          \/ p \in Simulation /\ Len(p.sky) >= p.frames
          \/ p \in Recording /\ Once(p) \in Seq(RecordedLine)
    /\ None \notin Measurement

\* One line that cannot be read, or is shorter than a packet, spoils the file, and
\* so does its having none.
Readable(p) ==
    /\ \A line \in ToSet(p.lines) : line.reads \in {"nothing", "packet"}
    /\ Once(p) # <<>>

Refused(p) ==
    IF p.tool = "sim" THEN p.rfScript # None /\ ~p.rfDest
    ELSE ~Readable(p) \/ ~p.framing

Load ==
    /\ step = "load"
    /\ IF Refused(plan) THEN step' = "failed" /\ items' = <<>>
       ELSE /\ items' = IF plan.tool = "sim" THEN SimItems(plan) ELSE ReplayItems(plan)
            /\ step' = IF items' = <<>> THEN "done" ELSE "sample"
    /\ UNCHANGED <<rfVars, plan, sent, wake, clock, samples, packets, waiting, judged, lost>>

-----------------------------------------------------------------------------
(* Sending. *)

\* --rf-lead-ms and --delay-ms (0 unless given); the simulator's are its own, and
\* without a receiver it does not wait.
LeadOf(p) == IF p.tool = "sim" THEN Lead ELSE p.lead
PauseOf(p) == IF p.tool = "replay" THEN p.delay ELSE IF p.rfDest THEN Pause ELSE 0

N == sent + 1
Item == items[N]
Awake(place) == step = place /\ clock >= wake

\* Mutant: no lead.
AfterSampleAtOnce == clock

AfterSample == clock + LeadOf(plan)

\* A packet without measurements goes at once.
NoSample ==
    /\ Awake("sample") /\ Item.rf = None
    /\ step' = "packet"
    /\ UNCHANGED <<rfVars, plan, items, sent, wake, clock, samples, packets, waiting, judged, lost>>

SendSample ==
    /\ Awake("sample") /\ Item.rf # None
    /\ samples' = Append(samples, [n |-> N, at |-> clock])
    /\ step' = "packet" /\ wake' = AfterSample
    /\ UNCHANGED <<rfVars, plan, items, sent, clock, packets, waiting, judged, lost>>

Proceed ==
    /\ sent' = N
    /\ step' = IF N = Len(items) THEN "done" ELSE "sample"
    /\ wake' = clock + PauseOf(plan)

SendPacket ==
    /\ Awake("packet") /\ Item.stampable
    /\ packets' = Append(packets, [n |-> N, at |-> clock, left |-> Item.datagrams])
    /\ Proceed
    /\ UNCHANGED <<rfVars, plan, items, clock, samples, waiting, judged, lost>>

\* The replay tool encodes a packet when it is its turn.
CannotStamp ==
    /\ Awake("packet") /\ ~Item.stampable
    /\ step' = "failed"
    /\ UNCHANGED <<rfVars, plan, items, sent, wake, clock, samples, packets, waiting, judged, lost>>

\* A send fails: the replay tool gives up, the simulator takes no notice.
SendFails ==
    /\ Cardinality(lost) < MaxLost
    /\ \/ Awake("sample") /\ Item.rf # None
       \/ Awake("packet") /\ Item.stampable
    /\ lost' = IF step = "sample" THEN lost \cup {N} ELSE lost
    /\ IF plan.tool = "replay" THEN step' = "failed" /\ UNCHANGED <<sent, wake>>
       ELSE IF step = "sample" THEN step' = "packet" /\ wake' = AfterSample /\ UNCHANGED sent
       ELSE Proceed
    /\ UNCHANGED <<rfVars, plan, items, clock, samples, packets, waiting, judged>>

-----------------------------------------------------------------------------
(* The network and the gateway. *)

\* The listener stamps what carries no time.
MeasurementsArrive ==
    /\ samples # <<>>
    /\ LET n == Head(samples).n IN
       Insert([t |-> clock, of |-> n, place |-> items[n].place, faults |-> items[n].rf])
    /\ samples' = Tail(samples)
    /\ UNCHANGED <<plan, items, step, sent, wake, clock, packets, waiting, judged, lost>>

\* A packet has the receive time of the datagram that completes it.
PacketArrives ==
    /\ packets # <<>>
    /\ IF Head(packets).left > 1
       THEN packets' = [packets EXCEPT ![1].left = @ - 1] /\ UNCHANGED waiting
       ELSE /\ packets' = Tail(packets)
            /\ waiting' = Append(waiting, [n |-> Head(packets).n, at |-> clock])
    /\ UNCHANGED <<rfVars, plan, items, step, sent, wake, clock, samples, judged, lost>>

Lose ==
    /\ Cardinality(lost) < MaxLost
    /\ \/ /\ samples # <<>>
          /\ samples' = Tail(samples) /\ lost' = lost \cup {Head(samples).n}
          /\ UNCHANGED packets
       \/ /\ packets # <<>>
          /\ packets' = Tail(packets) /\ UNCHANGED <<samples, lost>>
    /\ UNCHANGED <<rfVars, plan, items, step, sent, wake, clock, waiting, judged>>

\* Where another place's measurements are compared nothing fits.
RfAlarms(sample, place) ==
    IF sample = None \/ place = None THEN {}
    ELSE IF sample.place # place THEN RfChecks
    ELSE IF place \in Overhead THEN sample.faults \ {"pointing"} ELSE sample.faults

Process ==
    /\ waiting # <<>>
    /\ LET p == Head(waiting)
           sample == Found(p.at)
           item == items[p.n]
       IN /\ Lookup(p.at)
          /\ judged' = Append(judged,
               [n |-> p.n, sample |-> sample,
                alarms |-> RfAlarms(sample, item.place)
                             \cup (IF item.place = None THEN {} ELSE item.hil)])
    /\ waiting' = Tail(waiting)
    /\ UNCHANGED <<plan, items, step, sent, wake, clock, samples, packets, lost>>

-----------------------------------------------------------------------------
(* Time, which waits for what is due at the latest. *)

Tick ==
    /\ step \in {"sample", "packet"} \/ samples \o packets \o waiting # <<>>
    /\ step \in {"sample", "packet"} => clock < wake + Late
    /\ \A d \in ToSet(samples \o packets) : clock < d.at + Jitter
    /\ \A p \in ToSet(waiting) : clock < p.at + Lag
    /\ clock' = clock + 1
    /\ UNCHANGED <<rfVars, plan, items, step, sent, wake, samples, packets, waiting, judged, lost>>

SimNext ==
    \/ Load \/ NoSample \/ SendSample \/ SendPacket \/ CannotStamp \/ SendFails
    \/ MeasurementsArrive \/ PacketArrives \/ Lose \/ Process \/ Tick

SimSpec == SimInit /\ [][SimNext]_simVars

-----------------------------------------------------------------------------
(* Properties. *)

\* What a script must do to frame i.
InScript(script, kind, i) ==
    script # None /\ script.kind = kind /\ i - script.first \in 0 .. script.frames - 1

\* The pacing that matches each sample to its own frame (lib.rs:271).
Paced(p) ==
    /\ RfOn                                                \* the gateway listens
    /\ LeadOf(p) > Jitter                                  \* the sample is there first,
    /\ LeadOf(p) + Late + Jitter <= Window                 \* found,
    /\ LeadOf(p) + Late + 2 * Jitter <= PauseOf(p)         \* nearer than the next,
    /\ RfCapacity > 0
    /\ RfCapacity * PauseOf(p) > Lag + Jitter              \* and still there

\* Packet n has measurements of its own, which are not lost.
Measured(n) == items[n].rf # None
Owns(n) == Measured(n) /\ n \notin lost

\* Packet n is joined to its own sample where it has one; otherwise to the last
\* before it or the first after it.  What was sent later is kept apart by the pauses
\* alone; the lead suffices for what was sent before.
Fits(n, sample) ==
    /\ Distance(sample.of, n) * PauseOf(plan) <= Window + Jitter
    /\ LeadOf(plan) > Jitter => \A k \in sample.of + 1 .. n : ~Owns(k)
    /\ Paced(plan) => \A k \in n .. sample.of - 1 : ~Owns(k)

\* What there is to ask of message m.
JudgedRight(m) ==
    LET item == items[m.n]
        i == m.n - 1
        own == Owns(m.n) /\ Paced(plan)
        scripted == plan.tool = "sim" /\ item.place # None
    IN /\ m.sample # None => Fits(m.n, m.sample)
       /\ own => m.sample # None /\ m.sample.of = m.n
       /\ scripted /\ own => \A c \in RfChecks :
            ~(c = "pointing" /\ item.place \in Overhead)
                => (c \in m.alarms <=> InScript(plan.rfScript, c, i))
       /\ scripted => \A c \in Subsystems :
            ~(c = "rate" /\ i > MaxRate)
                => (c \in m.alarms <=> InScript(plan.script, c, i))

\* Measurements and packets come over two sockets and are joined by arrival time
\* alone; both are late or lost, and packets are processed long after newer samples
\* have come.  Where the pacing allows it a packet is judged by its own measurements,
\* and a script "raise[s] physics_flags bits 0, 2 and 3 on exactly those frames"
\* (docs/HIL.md:73), an antenna's error near the zenith and a frame whose own sample
\* was lost excepted.  A packet that has none is joined to a neighbour's within the
\* window or to none; without pauses (--delay-ms 0, the default) a packet may get a
\* newer packet's sample, but never an older one's.
JudgedByTheNearest == \A m \in ToSet(judged) : JudgedRight(m)
=============================================================================
