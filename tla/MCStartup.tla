------------------------------ MODULE MCStartup ------------------------------
EXTENDS Startup

\* Values at which something is decided, for each key.
Boundary ==
    [ingest |->
        [bind_addr |-> {Garbled, Mistyped, Addr("10.0.0.9", 7301), Addr("127.0.0.1", 80),
                        Addr("0.0.0.0", 7301), Addr("127.0.0.1", 0), Addr("127.0.0.1", 1024)},
         http_bind |-> {Garbled, Addr("0.0.0.0", 8080), Addr("10.0.0.9", 8080)},
         channel_capacity |-> {0, 1, Mistyped, -1},
         max_datagram_size |-> {5, 6, 63, 1048576, 1048577}],
     station |->
        [tle_inline |-> {Empty, Garbled, -2, -1, 3, 4, 31},
         tle_file |-> {"file"}, oem_file |-> {"file"},
         latitude_deg |-> {90, 91, NaN}, longitude_deg |-> {-181, -180}, altitude_m |-> {NaN},
         nominal_carrier_hz |-> {0, 437, NaN}, min_recompute_interval_ms |-> {-1, 0},
         ut1_minus_utc_s |-> {1001, NaN}, polar_motion_x_arcsec |-> {-1001},
         polar_motion_y_arcsec |-> {1000}, refraction |-> {FALSE, Mistyped},
         refraction_pressure_hpa |-> {0, 1, 1101}, refraction_temperature_c |-> {-91, 60},
         doppler_tle_age_margin |-> {TRUE}, tle_error_km_at_epoch |-> {-1, 0},
         tle_error_growth_km_per_day |-> {NaN, -1}, doppler_tolerance_hz |-> {0, 1},
         minimum_elevation_deg |-> {-91, 90}, tx_power_dbm |-> {NaN}, tx_gain_dbi |-> {NaN},
         rx_gain_dbi |-> {NaN, -5}, link_budget_tolerance_db |-> {0, NaN},
         pointing_tolerance_deg |-> {-1}, hil_tm_v1_apid_min |-> {2000, 65536, 0},
         hil_tm_v1_apid_max |-> {2047, 2048}, hil_eps_voltage_full_sun_v |-> {NaN},
         hil_eps_voltage_eclipse_v |-> {NaN}, hil_thermal_c_full_sun |-> {NaN},
         hil_thermal_c_eclipse |-> {NaN}, hil_eps_relative_tolerance |-> {0, 100, 101},
         hil_thermal_absolute_tolerance_k |-> {0}, hil_body_rate_max_abs_deg_s |-> {0}],
     rf |->
        [bind_addr |-> {Garbled, Addr("127.0.0.1", 7302), Addr("127.0.0.1", 7301),
                        Addr("127.0.0.1", 1023), Addr("127.0.0.1", 0)},
         window_ms |-> {0, 60000, 60001}, capacity |-> {0, 65536, 65537}],
     time |->
        [format |-> {"cds", "cuc", "utc"}, max_skew_s |-> {-1, 0, NaN},
         cuc_tai_minus_utc_s |-> {-1, 100, 101}],
     framing |->
        [mode |-> {"tm", "tm_frames", "aos"}, frame_length |-> {7, 8, 2048, 2049},
         asm |-> {TRUE}, derandomize |-> {TRUE}, fecf |-> {FALSE},
         spacecraft_id |-> {1023, 1024, 65536}, virtual_channels |-> {{}, {0, 7}, {8}}],
     history |->
        [capacity |-> {0, 500000, 500001}, persist_path |-> {"file", "folder/file"}]]

WithKey(d, t, k, v) == [d EXCEPT ![t] = (k :> v) @@ @]

\* Documents with all tables and the keys that are required.
Plain ==
    [t \in DOMAIN Default |->
        [k \in Required[t] \cup (IF t = "station" THEN {"tle_inline"} ELSE {}) |->
            IF k = "tle_inline" THEN 1 ELSE Default[t][k]]]

OneOff ==
    UNION {UNION {{WithKey(Plain, t, k, v) : v \in Boundary[t][k]} : k \in DOMAIN Default[t]}
             : t \in DOMAIN Default}

OneLess ==
    UNION {{[Plain EXCEPT ![t] = Without(@, {k})] : k \in DOMAIN Plain[t]} : t \in DOMAIN Default}

Source(k, v) == [Plain EXCEPT !.station = (k :> v) @@ Without(@, {"tle_inline"})]

\* Two deviations, of settings that have to do with each other.
Pairs ==
    {WithKey(WithKey(Plain, "framing", "mode", m), "framing", "asm", TRUE) : m \in {"tm", "aos"}}
    \cup {WithKey(WithKey(WithKey(Plain, "framing", "mode", "tm"), "framing", "frame_length", 1115),
                  "ingest", "max_datagram_size", n) : n \in {64, 5}}
    \cup {WithKey(WithKey(Plain, "history", "capacity", n), "history", "persist_path", p) :
            n \in {0, 500001}, p \in {"file", "folder/file"}}
    \cup {WithKey(WithKey(Plain, "ingest", "channel_capacity", 0), "station", "tle_file", "file"),
          WithKey(Plain, "station", "no_such_key", 0),
          WithKey(WithKey(Plain, "station", "oem_file", "file"), "station", "tle_file", "file"),
          [station |-> [tle_inline |-> 5]], [framing |-> [mode |-> "tm"]]}

FileOk == [read |-> "ok", text |-> 1]

\* OEM files.
Meta(system, start, stop, more) ==
    <<Mark("start"), Key("OBJECT_NAME", "X"), Key("CENTER_NAME", "EARTH"),
      Key("REF_FRAME", "EME2000"), Key("TIME_SYSTEM", system), Key("START_TIME", start),
      Key("STOP_TIME", stop)>> \o more \o <<Mark("stop")>>
Version == <<Key("CCSDS_OEM_VERS", "2.0"), Key("ORIGINATOR", "X")>>
States(epochs) == [n \in DOMAIN epochs |-> Data(epochs[n])]
Covariance == <<Mark("cov_start"), Key("EPOCH", 0), Mark("junk"), Mark("cov_stop")>>

Simple == Meta("UTC", 0, 8, <<Key("INTERPOLATION_DEGREE", 2)>>) \o States(<<0, 2, 4, 6, 8>>)

OemTexts ==
    {Version \o Simple \o Covariance,
     Version \o Meta("UTC", 0, 9, <<Key("INTERPOLATION", "LINEAR")>>) \o States(<<1, 3, 4, 7>>),
     Version \o Meta("TAI", 37, 45, <<>>) \o States(<<38, 40, 42, 44>>),
     Version \o Simple \o Meta("UTC", 3, 12, <<Key("USEABLE_START_TIME", 5)>>)
        \o States(<<3, 6, 9, 12>>),
     Version \o Meta("GPS", 18, 20, <<>>) \o States(<<18, 19, 20>>)
        \o Meta("UTC", 6, 9, <<Key("USEABLE_STOP_TIME", 8)>>) \o States(<<6, 7, 8, 9>>),
     Simple, <<>>, Version,
     Version \o Meta("UTC", 0, 8, <<>>), Version \o Meta("UT1", 0, 8, <<>>) \o States(<<0, 8>>),
     Version \o Meta("UTC", 0, 8, <<>>) \o States(<<0, 4, 4>>),
     Version \o Meta("UTC", 9, 12, <<>>) \o States(<<0, 4>>),
     Version \o Meta("UTC", 0, 8, <<Key("INTERPOLATION_DEGREE", 0)>>) \o States(<<0, 8>>),
     Version \o Meta("UTC", 0, Garbled, <<>>) \o States(<<0, 8>>),
     Version \o States(<<0>>), Version \o <<Mark("stop")>>, Version \o <<Mark("start")>>,
     Version \o Simple \o <<Mark("junk")>>,
     Version \o <<Mark("start"), Key("CENTER_NAME", "MARS"), Mark("stop")>>,
     Version \o <<Mark("start"), Key("CENTER_NAME", "EARTH"), Data(0)>>}

Disk(config, tle, oem) == [config |-> config, tle |-> tle, oem |-> oem, folder |-> FALSE]
GoodDisk == Disk("ok", FileOk, [read |-> "ok", text |-> Version \o Simple])

World(d, k) == [doc |-> d, disk |-> k, now |-> 4]

MCShared ==
    {WithKey(d, "history", "persist_path", "file") :
        d \in {Plain, WithKey(Plain, "rf", "bind_addr", Addr("127.0.0.1", 7302)),
              WithKey(Plain, "ingest", "bind_addr", Addr("127.0.0.1", 0)),
              WithKey(Plain, "rf", "bind_addr", Addr("127.0.0.1", 0))}}

MCWorlds ==
    {World(d, GoodDisk) : d \in {Plain} \cup OneOff \cup OneLess \cup Pairs \cup MCShared}
    \cup {World(<<>>, Disk(read, FileOk, [read |-> "ok", text |-> <<>>])) :
            read \in {"absent", "missing", "denied"}}
    \cup {World(Source("tle_file", "file"), Disk("ok", tle, [read |-> "ok", text |-> <<>>])) :
            tle \in {[read |-> "missing", text |-> 1]}
                    \cup {[read |-> "ok", text |-> x] : x \in {Garbled, Empty, 2, 10}}}
    \cup {[doc |-> Source("oem_file", "file"), disk |-> Disk("ok", FileOk, [read |-> "ok", text |-> x]),
           now |-> n] : x \in OemTexts, n \in {-1, 4, 20}}
    \cup {World(Source("oem_file", "file"), Disk("ok", FileOk, [read |-> "denied", text |-> <<>>]))}

MCTimes == -1 .. 13
=============================================================================
