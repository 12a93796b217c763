------------------------------- MODULE MCHealth -------------------------------
(* Gateways that have run for a while, near the thresholds of the rules. *)
EXTENDS Health, TLC

\* Counters that start above zero, and those that move with how far they go.
Counts(some) == [k \in Counters |-> IF k \in DOMAIN some THEN some[k] ELSE 0]

Scene(start, moving) ==
    [start |-> Counts(start), most |-> Counts(moving),
     tracking |-> TRUE, rf |-> FALSE, tm |-> FALSE]

em == "telemetry_frames_emitted"
pe == "telemetry_parse_errors"

MCScenes ==
    {\* from the first datagram on
     Scene(<<>>, "frames_received" :> 1 @@ pe :> 1 @@ em :> 1 @@ "ws_clients_connected" :> 1),
     \* a tenth rejected
     Scene("frames_received" :> 1 @@ pe :> 1 @@ em :> 7, pe :> 3 @@ em :> 19),
     \* half flagged
     Scene("frames_received" :> 1 @@ em :> 8 @@ "anomaly_frames" :> 5,
           em :> 12 @@ "anomaly_frames" :> 8),
     \* what goes wrong by itself, without and with tracking
     [Scene(<<>>, "oversized_dropped" :> 1 @@ "recv_errors" :> 1 @@ "load_skipped" :> 1)
        EXCEPT !.tracking = FALSE],
     Scene("frames_received" :> 1 @@ em :> 1 @@ "load_skipped" :> 1,
           em :> 3 @@ "tracking_errors" :> 1 @@ "serialize_errors" :> 1 @@
           "persist_dropped" :> 1 @@ "persist_errors" :> 1),
     \* receiver measurements, at first and after a while
     [Scene(<<>>, "frames_received" :> 1 @@ "samples_received" :> 1 @@ "samples_invalid" :> 1 @@
                  "frames_unmatched" :> 1 @@ "frames_matched" :> 1 @@ em :> 2) EXCEPT !.rf = TRUE],
     [Scene("frames_received" :> 1 @@ "samples_received" :> 1 @@
            "frames_unmatched" :> 8 @@ "frames_matched" :> 7 @@ em :> 15,
            "frames_unmatched" :> 12 @@ "frames_matched" :> 11 @@ em :> 20) EXCEPT !.rf = TRUE],
     \* transfer frames, at first and after a while
     [Scene("frames_received" :> 1, "datagrams" :> 1 @@ "frames_ok" :> 2 @@ "frames_invalid" :> 1 @@
            "frames_crc_error" :> 1 @@ "vc_frame_gaps" :> 1 @@ em :> 1)
        EXCEPT !.tm = TRUE],
     [Scene("frames_received" :> 1 @@ "datagrams" :> 1 @@ "frames_ok" :> 7,
            "datagrams" :> 1 @@ "frames_ok" :> 20 @@ "frames_invalid" :> 2 @@ "frames_crc_error" :> 1)
        EXCEPT !.tm = TRUE]}
=============================================================================
