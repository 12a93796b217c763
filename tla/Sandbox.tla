------------------------------- MODULE Sandbox -------------------------------
(***************************************************************************)
(* The sandbox server of crates/chronus-demo-server: the admission of      *)
(* SessionLimiter, and for one visitor the session between the guard it    *)
(* gives and the drop of the guard: the loop of run_session in server.rs   *)
(* and the simulation of sandbox.rs it drives.  The other visitors'        *)
(* sessions may end at any time.                                           *)
(*                                                                         *)
(* Time goes on by the ticker's period, 1/tick_hz, and waits for what the  *)
(* session does at once: tokio runs it when something is due, unless it    *)
(* awaits a send.                                                          *)
(***************************************************************************)
EXTENDS SessionLimiter, Integers, Sequences

CONSTANTS
    Watched,     \* the visitor whose session is followed
    Scenes,      \* who comes, how often in all, and what the watched visitor may command
    Second, SendTimeout, Life,  \* in periods: a second, SEND_TIMEOUT, session_secs
    MaxCommands, \* MAX_COMMANDS_PER_SEC
    MaxSpeed,    \* SPEED_RANGE.1, in places of the sky for a period
    Sky          \* the orbit, over and over: the places the simulation comes by

Scenarios == {"nominal", "full_power_claim", "doppler_spoof", "pointing_error", "low_signal",
              "eps_voltage", "thermal", "body_rate"}

ASSUME SandboxAssumption ==
    /\ Watched \in Visitors
    /\ \A s \in Scenes : s.visitors \subseteq Visitors
    /\ \A n \in {Second, SendTimeout, Life, MaxCommands, MaxSpeed} : n \in Nat \ {0}
    /\ Sky \in Seq([up : BOOLEAN, illum : 0 .. 10, zenith : Nat]) /\ Sky # <<>>
    \* Command, as serde reads it; what it cannot read changes nothing.
    /\ \A s \in Scenes : \A c \in s.commands :
          /\ c.cmd = "scenario" => c.value \in Scenarios
          /\ c.cmd = "speed" => c.value \in Int
          /\ c.cmd = "horizon_mask" => c.enabled \in BOOLEAN

VARIABLES scene, session

sandboxVars == <<vars, scene, session>>

AtMost(bound, n) == IF n < bound THEN n ELSE bound
Dist(x, y) == IF x > y THEN x - y ELSE y - x

-----------------------------------------------------------------------------
(* SessionSim::step: what the scenario reports, and what the gateway flags.  A
   place of the sky has the elevation's sign, tenths of sunlight and hundredths of
   a degree to the zenith. *)

\* expected_bits of SCENARIOS, by the name of the check.
ExpectedBits ==
    [nominal |-> {}, full_power_claim |-> {"eps", "thermal"}, doppler_spoof |-> {"doppler"},
     pointing_error |-> {"pointing"}, low_signal |-> {"link"}, eps_voltage |-> {"eps"},
     thermal |-> {"thermal"}, body_rate |-> {"rate"}]

\* hil_targets_from_illum, in tenths.
Targets(illum) == [volts |-> 240 + 4 * illum, heat |-> 120 + 20 * illum]

\* apply_fault: one value is replaced, always.
Faulty(scenario, sample) ==
    CASE scenario = "eps_voltage" -> [sample EXCEPT !.volts = 100]
      [] scenario = "thermal" -> [sample EXCEPT !.heat = 800]
      [] scenario = "body_rate" -> [sample EXCEPT !.rate = 990]
      [] OTHER -> sample

\* What goes into the packet, and the radio's measurements as their distance from
\* the truth, with noise n of -1 or 1: Hz, tenths of dB, hundredths of degrees.
\* An elevation ends at the zenith.
Measured(scenario, there, n) ==
    LET only(s, amount) == IF scenario = s THEN amount ELSE 0
        told == Targets(IF scenario = "full_power_claim" THEN 10 ELSE there.illum)
    IN [sample |-> Faulty(scenario, [volts |-> told.volts, heat |-> told.heat, rate |-> 2]),
        carrier |-> 30 * n + only("doppler_spoof", 2000),
        power |-> 8 * n - only("low_signal", 120),
        aside |-> 8 + AtMost(there.zenith, only("pointing_error", 200))]

\* apply_physics_validation with the default tolerances.
Flags(m, mask, there) ==
    LET expected == Targets(there.illum)
        is(check, raised) == IF raised THEN {check} ELSE {}
    IN UNION {is("horizon", mask /\ ~there.up),
              is("doppler", Dist(m.carrier, 0) > 150),
              is("link", Dist(m.power, 0) > 30),
              is("pointing", m.aside > 25),
              is("rate", m.sample.rate > 50),
              is("eps", Dist(m.sample.volts, expected.volts) > 4),
              is("thermal", Dist(m.sample.heat, expected.heat) > 100)}

-----------------------------------------------------------------------------
(* The session. *)

\* Before it begins; SessionSim::new.
Fresh ==
    [phase |-> "none",
     left |-> Life,         \* until the deadline
     ready |-> TRUE,        \* the ticker has ticked
     quiet |-> 0,           \* since last_tick
     send |-> SendTimeout,  \* left for the send under way
     age |-> 0, count |-> 0,  \* of cmd_window; cmd_count
     obeyed |-> [s \in 0 .. Second - 1 |-> 0], \* commands looked at, by how long ago
     scenario |-> "nominal", speed |-> 1, mask |-> FALSE,
     at |-> 1,              \* sim_time, as a place of the sky
     flags |-> {}]          \* of the frame being sent

\* What is left of it while the guard is about to be dropped.
Over == [Fresh EXCEPT !.phase = "over"]

Become(s) == session' = s /\ UNCHANGED <<vars, scene>>
Enter(phase) == Become([session EXCEPT !.phase = phase, !.send = SendTimeout])

SandboxInit ==
    /\ Init
    /\ scene \in Scenes
    /\ session = Fresh

\* The socket is upgraded and the session says hello, or cannot begin.
Begin ==
    /\ pc[Watched] = "open" /\ session.phase = "none"
    /\ Enter("hello") \/ Enter("error")

-----------------------------------------------------------------------------
(* The ticker. *)

\* Mutant: the frame is processed at the time it had before.
JudgedThen(before, after) == before

\* The frame's received_at, for which the gateway looks up the orbit.
Judged(before, after) == after

\* After a stall the clock goes on by a second, not by all that was missed.
Onward == 1 + ((session.at - 1 + AtMost(Second, session.quiet) * session.speed) % Len(Sky))

Step(n) ==
    [session EXCEPT !.phase = "frame", !.send = SendTimeout,
                    !.ready = FALSE, !.quiet = 0, !.at = Onward,
                    !.flags = Flags(Measured(session.scenario, Sky[Onward], n), session.mask,
                                    Sky[Judged(session.at, Onward)])]

\* The orbit may fail; nothing is retried.
TickDue ==
    /\ session.phase = "loop" /\ session.ready
    /\ (\E n \in {-1, 1} : Become(Step(n))) \/ Enter("error")

-----------------------------------------------------------------------------
(* Sends.  Those in Timed have SEND_TIMEOUT. *)

Timed == {"hello", "frame", "tick", "ended", "error"}

\* Mutant: the timer is made anew in every round of the loop.
LoopingAnew == [session EXCEPT !.phase = "loop", !.send = SendTimeout, !.left = Life]

\* Round the loop once more.
Looping == [session EXCEPT !.phase = "loop", !.send = SendTimeout]

Sent ==
    \/ session.phase = "hello" /\ Become([Fresh EXCEPT !.phase = "loop"])
    \/ session.phase = "frame" /\ Become([session EXCEPT !.phase = "tick", !.flags = {},
                                                         !.send = SendTimeout])
    \/ session.phase = "tick" /\ Become(Looping)
    \/ session.phase = "ended" /\ Enter("closing")
    \/ session.phase = "error" /\ Become(Over)

\* The visitor takes a pong or the close; these sends have no timeout.
PongSent == session.phase = "pong" /\ Become(Looping)
CloseSent == session.phase = "closing" /\ Become(Over)

\* What follows a send that fails.
Failed == IF session.phase = "ended" THEN Enter("closing") ELSE Become(Over)

Timeout == session.phase \in Timed /\ session.send = 0 /\ Failed
Lost == session.phase \in Timed \cup {"pong", "closing"} /\ Failed

-----------------------------------------------------------------------------
(* What comes from the visitor. *)

\* The window is restarted by the first command after a second.
CountNow == IF session.age >= Second THEN 1 ELSE AtMost(MaxCommands + 1, session.count + 1)

Heard ==
    [session EXCEPT !.age = IF @ >= Second THEN 0 ELSE @,
                    !.count = CountNow,
                    !.obeyed[0] = IF CountNow > MaxCommands THEN @ ELSE @ + 1]

\* A command that cannot be read counts as well.
Obeyed(s, c) ==
    CASE c.cmd = "scenario" -> [s EXCEPT !.scenario = c.value]
      [] c.cmd = "speed" -> [s EXCEPT !.speed = IF c.value < 1 THEN 1 ELSE AtMost(MaxSpeed, c.value)]
      [] c.cmd = "horizon_mask" -> [s EXCEPT !.mask = c.enabled]
      [] c.cmd = "reset" -> [s EXCEPT !.at = 1, !.scenario = "nominal"]
      [] OTHER -> s

Text(c) ==
    /\ session.phase = "loop"
    /\ Become(IF CountNow > MaxCommands THEN Heard ELSE Obeyed(Heard, c))

\* The gateway for another mask could not be built.
MaskFails(c) ==
    /\ session.phase = "loop" /\ c.cmd = "horizon_mask"
    /\ CountNow <= MaxCommands /\ c.enabled # session.mask
    /\ Become(Over)

Ping == session.phase = "loop" /\ Become([session EXCEPT !.phase = "pong"])

\* A close, an error, or the end of the stream.
VisitorLeaves == session.phase = "loop" /\ Become(Over)

-----------------------------------------------------------------------------
(* Time. *)

Deadline ==
    /\ session.phase = "loop" /\ session.left = 0
    /\ Enter("ended")

InLoop == {"loop", "frame", "tick", "pong"}

Down(n) == IF n = 0 THEN 0 ELSE n - 1

Pass ==
    /\ session.phase \in InLoop \cup Timed \cup {"closing"}
    /\ session.phase = "loop" => ~session.ready /\ session.left > 0
    /\ session.phase \in Timed => session.send > 0
    /\ Become(
         IF session.phase \in InLoop
         THEN [session EXCEPT
                 !.left = Down(@), !.ready = TRUE,
                 !.quiet = AtMost(Second, @ + 1), !.age = AtMost(Second, @ + 1),
                 !.send = IF session.phase \in Timed THEN Down(@) ELSE @,
                 !.obeyed = [s \in DOMAIN @ |-> IF s = 0 THEN 0 ELSE @[s - 1]]]
         ELSE [session EXCEPT !.send = Down(@)])

-----------------------------------------------------------------------------
(* The guard is dropped when run_session returns, or at once if the upgrade fails. *)

LeaveWatched ==
    /\ session.phase \in {"none", "over"}
    /\ Leave(Watched)
    /\ session' = Fresh /\ UNCHANGED scene

Watching == Proceed(Watched) /\ UNCHANGED <<scene, session>>

Others ==
    /\ \E v \in scene.visitors :
        \/ total < scene.visits /\ Acquire(v)
        \/ v # Watched /\ (Proceed(v) \/ Leave(v))
    /\ UNCHANGED <<scene, session>>

SandboxNext ==
    \/ Others \/ Watching \/ LeaveWatched
    \/ Begin \/ TickDue \/ Deadline \/ Pass
    \/ Sent \/ PongSent \/ CloseSent \/ Timeout \/ Lost
    \/ \E c \in scene.commands : Text(c) \/ MaskFails(c)
    \/ Ping \/ VisitorLeaves

\* Time passes, tasks that can go on do, and select takes one of what is ready at
\* random, so that what is ready again and again is taken.
Fairness ==
    /\ WF_sandboxVars(Pass)
    /\ SF_sandboxVars(TickDue) /\ SF_sandboxVars(Deadline)
    /\ WF_sandboxVars(Timeout)
    /\ WF_sandboxVars(Begin \/ Watching \/ LeaveWatched)

\* The visitor takes what it is sent, sooner or later.
Reads == WF_sandboxVars(PongSent) /\ WF_sandboxVars(CloseSent)

SandboxSpec == SandboxInit /\ [][SandboxNext]_sandboxVars /\ Fairness
ReadingSpec == SandboxSpec /\ Reads

-----------------------------------------------------------------------------
(* Properties. *)

\* The commands obeyed within the last second, by how long ago.
ObeyedLately == UNION {{s} \X (1 .. session.obeyed[s]) : s \in DOMAIN session.obeyed}

\* "| Command rate | 10/s | Extra commands are ignored |" (docs/PUBLIC_DEMO.md:72):
\* within any second no more than the limit is obeyed.  (The code counts by windows
\* that start with a command, and a second may lie across two of them.)
CommandsLimited == Cardinality(ObeyedLately) <= MaxCommands

\* What the windows do give: wherever the second lies, twice the limit at most.
TwiceTheLimit == Cardinality(ObeyedLately) <= 2 * MaxCommands

\* "each [`Scenario`] perturbs exactly one thing" (sandbox.rs:10).  Whatever was
\* commanded in whatever order, a frame raises no alarm but its scenario's, and
\* raises all of them, except that the claim of full power shows only where there is
\* little sun and the antenna's error cannot show at the zenith; the horizon is
\* another matter.
PerturbsOneThing ==
    session.phase = "frame" =>
        LET alarms == session.flags \ {"horizon"}
            expected == ExpectedBits[session.scenario]
            there == Sky[session.at]
        IN /\ alarms \subseteq expected
           /\ \/ alarms = expected
              \/ session.scenario = "full_power_claim" /\ there.illum >= 5
              \/ session.scenario = "pointing_error" /\ there.zenith <= 25
           /\ "horizon" \in session.flags <=> session.mask /\ ~there.up

\* A hard session lifetime and a slow-client send timeout (server.rs:3): every
\* session is over at last and its place free again, with whatever sends fail or
\* stall, however many commands and pings come and whoever else does.
SessionEnds == pc[Watched] = "open" ~> pc[Watched] = "away"
=============================================================================
