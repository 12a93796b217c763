-------------------------------- MODULE Health --------------------------------
(***************************************************************************)
(* What GET /api/v1/chronus/status says of a gateway that goes on working  *)
(* meanwhile: SharedGateway::health_report in state.rs and the rules of    *)
(* diagnose.rs (assess_health, assess_rf, assess_framing, assess_history). *)
(*                                                                         *)
(* The report reads the counters one by one.  Between two loads the ingest *)
(* task, the pipeline, the RF listener, the WebSocket handlers and the     *)
(* history's writer move them.                                             *)
(*                                                                         *)
(* Loads and bumps take effect in the order in which the code makes them,  *)
(* for everyone.  They are Ordering::Relaxed in metrics.rs and elsewhere,  *)
(* so that a compiler or a processor may exchange those of two different   *)
(* counters: what is said here is said of one that does not.               *)
(***************************************************************************)
EXTENDS Naturals, Sequences

\* Counters that the rules only compare with zero.
Seen ==
    {"frames_received", "oversized_dropped", "recv_errors", "tracking_errors",
     "serialize_errors", "samples_received", "samples_invalid", "datagrams",
     "vc_frame_gaps", "load_skipped", "persist_dropped", "persist_errors"}

Counters ==
    Seen \cup {"telemetry_frames_emitted", "telemetry_parse_errors", "anomaly_frames",
               "ws_clients_connected", "frames_matched", "frames_unmatched",
               "frames_ok", "frames_crc_error", "frames_invalid"}

CONSTANT Scenes  \* what the gateway has counted so far and how far each counter goes
                 \* (bound), and whether it tracks, listens for RF and deframes

ASSUME ScenesAssumption ==
    /\ Scenes \subseteq [start : [Counters -> Nat], most : [Counters -> Nat],
                         tracking : BOOLEAN, rf : BOOLEAN, tm : BOOLEAN]
    \* A frame is counted as received before it is sent to the pipeline (ingest.rs, run).
    /\ \A s \in Scenes :
          s.start["frames_received"] = 0 => s.start["frames_unmatched"] = 0

VARIABLES
    scene,
    counts,  \* the counters
    task,    \* where the pipeline is
    read,    \* what the report has read
    next,    \* the load it makes next; 0 when none is being made
    always, once  \* what was the case all the while the report was made; and at some time

workVars == <<counts, task>>
reportVars == <<read, next>>
vars == <<scene, counts, task, read, next, always, once>>

-----------------------------------------------------------------------------
(* The rules, for counters c. *)

When(condition, finding) == IF condition THEN {finding} ELSE {}

assess_health(c) ==
    LET emitted == c["telemetry_frames_emitted"]
        errors == c["telemetry_parse_errors"]
    IN UNION {
        When(c["frames_received"] = 0, <<"CG-501", "info">>),
        IF errors > 0 /\ emitted = 0 THEN {<<"CG-502", "error">>}
        ELSE When(errors > 0 /\ errors * 10 > errors + emitted, <<"CG-503", "warning">>),
        When(c["oversized_dropped"] > 0, <<"CG-504", "warning">>),
        When(c["recv_errors"] > 0, <<"CG-505", "warning">>),
        IF ~scene.tracking THEN {<<"CG-506", "warning">>}
        ELSE When(c["tracking_errors"] > 0, <<"CG-507", "warning">>),
        When(emitted >= 10 /\ c["anomaly_frames"] * 2 > emitted, <<"CG-508", "warning">>),
        When(c["frames_received"] > 0 /\ c["ws_clients_connected"] = 0, <<"CG-509", "info">>),
        When(c["serialize_errors"] > 0, <<"CG-510", "error">>)}

assess_rf(c) ==
    IF ~scene.rf THEN {}
    ELSE When(c["samples_invalid"] > 0, <<"CG-512", "warning">>) \cup
         When(\/ c["frames_received"] > 0 /\ c["samples_received"] = 0
              \/ c["frames_unmatched"] >= 10 /\ c["frames_unmatched"] > c["frames_matched"],
              <<"CG-511", "warning">>)

assess_framing(c) ==
    LET rejected == c["frames_crc_error"] + c["frames_invalid"] IN
    IF ~scene.tm \/ c["datagrams"] = 0 THEN {}
    ELSE IF c["frames_ok"] = 0 THEN {<<"CG-513", "error">>}
    ELSE When(rejected * 10 > c["frames_ok"] + rejected, <<"CG-513", "warning">>) \cup
         When(c["vc_frame_gaps"] > 0, <<"CG-513", "info">>)

assess_history(c) ==
    When(c["persist_errors"] > 0 \/ c["persist_dropped"] > 0, <<"CG-514", "warning">>) \cup
    When(c["load_skipped"] > 0, <<"CG-514", "info">>)

Findings(c) == assess_health(c) \cup assess_rf(c) \cup assess_framing(c) \cup assess_history(c)

Severities(findings) == {f[2] : f \in findings}

\* The status of assess_health by itself, and with_extra_findings.
Base(c) ==
    LET found == Severities(assess_health(c)) IN
    IF "error" \in found THEN "problem"
    ELSE IF "warning" \in found THEN "attention"
    ELSE IF c["frames_received"] = 0 THEN "waiting" ELSE "ok"

WithExtra(status, extra) ==
    IF "error" \in Severities(extra) THEN "problem"
    ELSE IF "warning" \in Severities(extra) /\ status \in {"ok", "waiting"} THEN "attention"
    ELSE status

Status(c) ==
    WithExtra(WithExtra(WithExtra(Base(c), assess_rf(c)), assess_framing(c)), assess_history(c))

-----------------------------------------------------------------------------
(* The gateway at work. *)

Init ==
    /\ scene \in Scenes
    /\ counts = scene.start
    /\ task = "idle"
    /\ read = [k \in Counters |-> 0] /\ next = 0
    /\ always = {} /\ once = {}

\* Of a counter in Seen only whether it is zero matters.
Bump(k) ==
    /\ scene.most[k] > 0 /\ (k \in Seen \/ counts[k] < scene.most[k])
    /\ counts' = [counts EXCEPT ![k] = IF @ < scene.most[k] THEN @ + 1 ELSE @]

BumpOrNot(k) == Bump(k) \/ UNCHANGED counts

Become(t) == task' = t

\* The ingest task, the RF listener and the history's writer thread.
Count == \E k \in {"frames_received", "oversized_dropped", "recv_errors", "samples_received",
                   "samples_invalid", "persist_errors"} : Bump(k)

Connect == Bump("ws_clients_connected")

Disconnect ==
    /\ counts["ws_clients_connected"] > 0
    /\ counts' = [counts EXCEPT !["ws_clients_connected"] = @ - 1]

\* Something that was received is taken from the channel.
HandleDatagram ==
    /\ task = "idle" /\ counts["frames_received"] > 0
    /\ IF scene.tm THEN Bump("datagrams") /\ Become("frames")
       ELSE UNCHANGED counts /\ Become("packet")

\* TmDeframer::handle_frame; a frame may be none of the station's and count nowhere here.
HandleFrame ==
    /\ task = "frames"
    /\ \/ Bump("frames_crc_error") /\ Become("frames")
       \/ Bump("frames_invalid") /\ Become("frames")
       \/ Bump("frames_ok") /\ Become("accepted")
       \/ UNCHANGED counts /\ task' \in {"packet", "idle"}

AcceptFrame == task = "accepted" /\ BumpOrNot("vc_frame_gaps") /\ Become("frames")

\* The next packet of the datagram's frames, or the end of it.
Done == task' \in IF scene.tm THEN {"packet", "idle"} ELSE {"idle"}

\* process_inner
Reject == task = "packet" /\ Bump("telemetry_parse_errors") /\ Done

Lookup ==
    /\ task = "packet"
    /\ IF scene.rf THEN Bump("frames_matched") \/ Bump("frames_unmatched") ELSE UNCHANGED counts
    /\ Become("looked")

Track ==
    /\ task = "looked"
    /\ IF scene.tracking THEN BumpOrNot("tracking_errors") ELSE UNCHANGED counts
    /\ Become("tracked")

Check == task = "tracked" /\ BumpOrNot("anomaly_frames") /\ Become("checked")

Serialize ==
    /\ task = "checked"
    /\ \/ Bump("serialize_errors") /\ Done
       \/ Bump("telemetry_frames_emitted") /\ Become("emitted")

\* HistoryStore::record; the queue may be full or its thread gone.
Record ==
    /\ task = "emitted"
    /\ Bump("persist_dropped") \/ BumpOrNot("persist_errors")
    /\ Done

Work ==
    \/ (Count \/ Connect \/ Disconnect) /\ UNCHANGED task
    \/ HandleDatagram \/ HandleFrame \/ AcceptFrame
    \/ Reject \/ Lookup \/ Track \/ Check \/ Serialize \/ Record

-----------------------------------------------------------------------------
(* health_report *)

\* Mutant: two fields of the snapshot are loaded the other way round.
ReadOrderSwapped ==
    <<"frames_received", "oversized_dropped", "recv_errors",
      "telemetry_parse_errors", "telemetry_frames_emitted", "anomaly_frames",
      "tracking_errors", "serialize_errors", "ws_clients_connected",
      "samples_received", "samples_invalid", "frames_matched", "frames_unmatched",
      "datagrams", "frames_ok", "frames_crc_error", "frames_invalid", "vc_frame_gaps",
      "load_skipped", "persist_dropped", "persist_errors">>

\* The loads of the four snapshots that the rules use.
ReadOrder ==
    <<"frames_received", "oversized_dropped", "recv_errors",
      "telemetry_frames_emitted", "telemetry_parse_errors", "anomaly_frames",
      "tracking_errors", "serialize_errors", "ws_clients_connected",
      "samples_received", "samples_invalid", "frames_matched", "frames_unmatched",
      "datagrams", "frames_ok", "frames_crc_error", "frames_invalid", "vc_frame_gaps",
      "load_skipped", "persist_dropped", "persist_errors">>

Loads == 21

Begin ==
    /\ next \in {0, Loads + 1}
    /\ next' = 1 /\ read' = [k \in Counters |-> 0]
    /\ always' = Findings(counts) /\ once' = Findings(counts)

Load ==
    /\ next \in 1 .. Loads
    /\ read' = [read EXCEPT ![ReadOrder[next]] = counts[ReadOrder[next]]]
    /\ next' = next + 1
    /\ UNCHANGED <<always, once>>

\* What the rules would find at every instant is kept until the report is read.
Watch ==
    IF next \in 1 .. Loads
    THEN always' = always \cap Findings(counts)' /\ once' = once \cup Findings(counts)'
    ELSE UNCHANGED <<always, once>>

Next ==
    \/ UNCHANGED <<scene, workVars>> /\ (Begin \/ Load)
    \/ UNCHANGED <<scene, reportVars>> /\ Work /\ Watch

Spec == Init /\ [][Next]_vars

-----------------------------------------------------------------------------
(* Properties. *)

Reported == next = Loads + 1

TypeOK ==
    /\ scene \in Scenes
    /\ counts \in [Counters -> Nat] /\ read \in [Counters -> Nat]
    /\ task \in {"idle", "frames", "accepted", "packet", "looked", "tracked", "checked", "emitted"}
    /\ next \in 0 .. Loads + 1

\* What is wrong all the while a report is made is in the report, although no two
\* counters were read together and the shares are of sums that grow: in each rule
\* the whole is read before the part.
NothingOverlooked == Reported => always \subseteq Findings(read)

\* Findings that compare one growing counter with another.
Shares == {<<"CG-502", "error">>, <<"CG-503", "warning">>, <<"CG-508", "warning">>,
           <<"CG-511", "warning">>, <<"CG-513", "warning">>}

\* What is reported was the case at some instant, and not only in parts at several,
\* shares aside.
NothingInvented == Reported => Findings(read) \ Shares \subseteq once

\* The one word agrees with the worst of all findings, those added later included,
\* and "waiting" means that nothing came.
StatusTells ==
    Reported =>
        LET found == Severities(Findings(read)) IN
        Status(read) =
            IF "error" \in found THEN "problem"
            ELSE IF "warning" \in found THEN "attention"
            ELSE IF <<"CG-501", "info">> \in Findings(read) THEN "waiting" ELSE "ok"

\* A report made while everything moves can be relied on.
ReportTells == NothingOverlooked /\ NothingInvented /\ StatusTells
=============================================================================
