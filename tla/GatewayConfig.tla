---------------------------- MODULE GatewayConfig ----------------------------
(***************************************************************************)
(* The gateway's settings: config/mod.rs (defaults and validation),        *)
(* config/file.rs (a TOML document becomes settings) and the part of       *)
(* diagnose.rs that names what is wrong with a document and how to mend    *)
(* it.  Constant-level operators; Startup puts them to use.                *)
(*                                                                         *)
(* A document is a function from the tables it has to functions from the   *)
(* keys they set to values.  Numbers are whole: of those that are          *)
(* fractions, earth orientation is in thousandths, the EPS and pointing    *)
(* tolerances in hundredths.  The text of a TLE is the age in days of its  *)
(* elements.                                                               *)
(***************************************************************************)
EXTENDS Integers, Sequences, SequencesExt, FiniteSetsExt, TLC

CONSTANTS
    None,      \* no problem
    Unset,     \* Option::None
    NaN,       \* a number that is not finite
    Mistyped,  \* a value that is not of the key's type
    Garbled,   \* text that means nothing where it stands
    Empty      \* text without a character

\* IP addresses: this machine's, all of this machine's, another machine's.
Hosts == {"127.0.0.1", "0.0.0.0", "10.0.0.9"}

\* What stands in place of a socket address is none.
ASSUME ValuesAssumption ==
    \A x \in {Unset, Garbled, Mistyped} : x \notin [ip : Hosts, port : Nat]

Positive == Nat \ {0}
Addr(ip, port) == [ip |-> ip, port |-> port]

\* f laid over g.
Over(f, g) == [k \in DOMAIN f \cup DOMAIN g |-> IF k \in DOMAIN f THEN f[k] ELSE g[k]]

-----------------------------------------------------------------------------
(* Settings and their defaults, under the names of the TOML keys. *)

IngestDefault ==
    [bind_addr |-> Addr("127.0.0.1", 7301), http_bind |-> Addr("127.0.0.1", 8080),
     channel_capacity |-> 1024, max_datagram_size |-> 65542]

MIN_DATAGRAM_SIZE == 6
MAX_DATAGRAM_SIZE_LIMIT == 1048576
RF_CAPACITY_LIMIT == 65536
RF_WINDOW_MS_LIMIT == 60000
FRAME_LENGTH_LIMIT == 2048
HISTORY_CAPACITY_LIMIT == 500000

\* EphemerisSource is the one of these that is set.
Sources == {"tle_inline", "tle_file", "oem_file"}
SourceDefault == [tle_inline |-> 2000, tle_file |-> Unset, oem_file |-> Unset]

SiteDefault ==
    [latitude_deg |-> 35, longitude_deg |-> -116, altitude_m |-> 1000,
     nominal_carrier_hz |-> 437500000]

TrackingDefault ==
    [min_recompute_interval_ms |-> 10, ut1_minus_utc_s |-> 0,
     polar_motion_x_arcsec |-> 0, polar_motion_y_arcsec |-> 0, refraction |-> TRUE,
     refraction_pressure_hpa |-> 1010, refraction_temperature_c |-> 10,
     doppler_tle_age_margin |-> FALSE, tle_error_km_at_epoch |-> 1,
     tle_error_growth_km_per_day |-> 2]

ToleranceDefault ==
    [doppler_tolerance_hz |-> 150, minimum_elevation_deg |-> 0, tx_power_dbm |-> 30,
     tx_gain_dbi |-> 2, rx_gain_dbi |-> 5, link_budget_tolerance_db |-> 3,
     pointing_tolerance_deg |-> 25]

HilDefault ==
    [hil_tm_v1_apid_min |-> 1968, hil_tm_v1_apid_max |-> 1983,
     hil_eps_voltage_full_sun_v |-> 28, hil_eps_voltage_eclipse_v |-> 24,
     hil_thermal_c_full_sun |-> 32, hil_thermal_c_eclipse |-> 12,
     hil_eps_relative_tolerance |-> 10, hil_thermal_absolute_tolerance_k |-> 10,
     hil_body_rate_max_abs_deg_s |-> 5]

RfDefault == [bind_addr |-> Unset, window_ms |-> 250, capacity |-> 1024]
TimeDefault == [format |-> "none", max_skew_s |-> 5, cuc_tai_minus_utc_s |-> 37]

FramingDefault ==
    [mode |-> "packets", frame_length |-> Unset, asm |-> FALSE, derandomize |-> FALSE,
     fecf |-> TRUE, spacecraft_id |-> Unset, virtual_channels |-> Unset]

HistoryDefault == [capacity |-> 10000, persist_path |-> Unset]

Default ==
    [ingest |-> IngestDefault,
     station |-> Over(SourceDefault, Over(SiteDefault,
                     Over(TrackingDefault, Over(ToleranceDefault, HilDefault)))),
     rf |-> RfDefault, time |-> TimeDefault, framing |-> FramingDefault,
     history |-> HistoryDefault]

-----------------------------------------------------------------------------
(* From a document to settings. *)

\* serde: these keys of a table have no default, once the table is there.
Required ==
    [t \in DOMAIN Default |->
        CASE t = "ingest" -> DOMAIN IngestDefault
          [] t = "station" -> DOMAIN SiteDefault \cup
                {"min_recompute_interval_ms", "doppler_tolerance_hz", "minimum_elevation_deg"}
          [] OTHER -> {}]

\* Keys whose types are u16, and usize or u64.
Short == {"hil_tm_v1_apid_min", "hil_tm_v1_apid_max", "spacecraft_id"}
Unsigned == {"channel_capacity", "max_datagram_size", "min_recompute_interval_ms",
             "window_ms", "capacity", "frame_length"}

U16 == 0 .. 65535

\* deny_unknown_fields, and the types of the fields.
Fits(t, k, v) ==
    /\ k \in DOMAIN Default[t]
    /\ v # Mistyped
    /\ k \in Short => v \in U16
    /\ k \in Unsigned => v \in Nat

\* Lines of the document that toml::from_str refuses, and lines it misses.
Misfits(doc) ==
    UNION {{<<t, k>> : k \in {k \in DOMAIN doc[t] : ~Fits(t, k, doc[t][k])}} : t \in DOMAIN doc}
Missing(doc) ==
    UNION {{<<t, k>> : k \in Required[t] \ DOMAIN doc[t]} : t \in DOMAIN doc}

\* Tables laid over the defaults.  A [station] table brings its own source.
Settings(doc) ==
    [t \in DOMAIN Default |->
        IF t \notin DOMAIN doc THEN Default[t]
        ELSE Over(doc[t], IF t = "station" THEN [Default[t] EXCEPT !.tle_inline = Unset]
                                           ELSE Default[t])]

-----------------------------------------------------------------------------
(* What can be wrong, in the order it is looked for.  A problem has the code *)
(* that explain gives it and the lines it is about.                          *)

Check(bad, code, t, keys) == [bad |-> bad, problem |-> [code |-> code, table |-> t, keys |-> keys]]
\* The usual one: the value of one key is not among those accepted.
Within(c, t, k, accepted, code) == Check(c[t][k] \notin accepted, code, t, {k})

Given(c) == {k \in Sources : c.station[k] # Unset}
Several(c) == \E k, l \in Given(c) : k # l

\* IngestConfig::try_from, StationConfig::try_from, apply_rf_time and
\* apply_framing_history.
ParseChecks(c) ==
    <<Check(c.ingest.bind_addr = Garbled, "CG-122", "ingest", {"bind_addr"}),
      Check(c.ingest.http_bind = Garbled, "CG-122", "ingest", {"http_bind"}),
      Check(Given(c) = {}, "CG-124", "station", Sources),
      Check(Several(c), "CG-123", "station", Given(c)),
      Check(c.rf.bind_addr = Garbled, "CG-122", "rf", {"bind_addr"}),
      Within(c, "time", "format", {"none", "cds", "cuc"}, "CG-129"),
      Within(c, "framing", "mode", {"packets", "tm", "tm_frames"}, "CG-134")>>

\* IngestConfig::validate
IngestChecks(c) ==
    <<Within(c, "ingest", "channel_capacity", Positive, "CG-116"),
      Within(c, "ingest", "max_datagram_size",
             MIN_DATAGRAM_SIZE .. MAX_DATAGRAM_SIZE_LIMIT, "CG-117")>>

\* EarthOrientation::new of ephemerust, the bounds as earth_orientation gives them.
EarthKeys == {"ut1_minus_utc_s", "polar_motion_x_arcsec", "polar_motion_y_arcsec"}
OffEarth(c) == \E k \in EarthKeys : c.station[k] \notin -1000 .. 1000

ApidsInOrder(c) ==
    /\ c.station.hil_tm_v1_apid_min <= c.station.hil_tm_v1_apid_max
    /\ c.station.hil_tm_v1_apid_max <= 2047

Is(c, k, accepted, code) == Within(c, "station", k, accepted, code)

\* StationConfig::validate, in its order.
SiteChecks(c) ==
    <<Is(c, "latitude_deg", -90 .. 90, "CG-101"),
      Is(c, "longitude_deg", -180 .. 180, "CG-102"),
      Is(c, "altitude_m", Int, "CG-103"),
      Is(c, "nominal_carrier_hz", Positive, "CG-104"),
      Is(c, "doppler_tolerance_hz", Positive, "CG-106"),
      Is(c, "minimum_elevation_deg", -90 .. 90, "CG-107"),
      Check(c.station.tle_inline = Empty, "CG-105", "station", {"tle_inline"})>>

TrackingChecks(c) ==
    <<Check(OffEarth(c), "CG-119", "station", EarthKeys),
      Is(c, "refraction_pressure_hpa", 1 .. 1100, "CG-125"),
      Is(c, "refraction_temperature_c", -90 .. 60, "CG-125"),
      Is(c, "tle_error_km_at_epoch", Nat, "CG-126"),
      Is(c, "tle_error_growth_km_per_day", Nat, "CG-126")>>

LinkChecks(c) ==
    <<Is(c, "tx_power_dbm", Int, "CG-110"),
      Is(c, "tx_gain_dbi", Int, "CG-110"),
      Is(c, "rx_gain_dbi", Int, "CG-110"),
      Is(c, "link_budget_tolerance_db", Positive, "CG-108"),
      Is(c, "pointing_tolerance_deg", Positive, "CG-109")>>

HilChecks(c) ==
    <<Check(~ApidsInOrder(c), "CG-111", "station", {"hil_tm_v1_apid_min", "hil_tm_v1_apid_max"}),
      Is(c, "hil_eps_voltage_full_sun_v", Int, "CG-114"),
      Is(c, "hil_eps_voltage_eclipse_v", Int, "CG-114"),
      Is(c, "hil_thermal_c_full_sun", Int, "CG-114"),
      Is(c, "hil_thermal_c_eclipse", Int, "CG-114"),
      Is(c, "hil_eps_relative_tolerance", 1 .. 100, "CG-112"),
      Is(c, "hil_thermal_absolute_tolerance_k", Positive, "CG-113"),
      Is(c, "hil_body_rate_max_abs_deg_s", Positive, "CG-115")>>

RfTimeChecks(c) ==
    <<Within(c, "rf", "window_ms", 1 .. RF_WINDOW_MS_LIMIT, "CG-129"),
      Within(c, "rf", "capacity", 1 .. RF_CAPACITY_LIMIT, "CG-129"),
      Within(c, "time", "max_skew_s", Nat, "CG-129"),
      Within(c, "time", "cuc_tai_minus_utc_s", 0 .. 100, "CG-129")>>

TmMode(c) == c.framing.mode \in {"tm", "tm_frames"}

\* Channels are given: at least one, and none that a frame cannot name.
NoChannels(c) ==
    LET given == c.framing.virtual_channels IN
    given # Unset /\ (given = {} \/ \E v \in given : v > 7)
UnevenStream(c) == TmMode(c) /\ c.framing.asm /\ c.framing.frame_length = Unset
PathForNothing(c) == c.history.persist_path # Unset /\ c.history.capacity = 0

OrUnset(accepted) == {Unset} \cup accepted

\* validate_framing_history
FramingHistoryChecks(c) ==
    <<Within(c, "framing", "frame_length", OrUnset(8 .. FRAME_LENGTH_LIMIT), "CG-134"),
      Check(UnevenStream(c), "CG-134", "framing", {"frame_length"}),
      Within(c, "framing", "spacecraft_id", OrUnset(0 .. 1023), "CG-134"),
      Check(NoChannels(c), "CG-134", "framing", {"virtual_channels"}),
      Within(c, "history", "capacity", 0 .. HISTORY_CAPACITY_LIMIT, "CG-134"),
      Check(PathForNothing(c), "CG-134", "history", {"persist_path"})>>

\* resolve_tle_text; "read" is what opening the file comes to.
NoTle(c, disk) == c.station.tle_file # Unset /\ disk.tle.read # "ok"
ResolveChecks(c, disk) == <<Check(NoTle(c, disk), "CG-118", "station", {"tle_file"})>>

\* load_gateway_from_path, once the document is parsed.
Checks(c, disk) ==
    ParseChecks(c) \o IngestChecks(c)
        \o SiteChecks(c) \o TrackingChecks(c) \o LinkChecks(c) \o HilChecks(c) \o RfTimeChecks(c)
        \o FramingHistoryChecks(c) \o ResolveChecks(c, disk)

\* Those that fail, by their places.
Failing(c, disk) == LET all == Checks(c, disk) IN {n \in DOMAIN all : all[n].bad}

FileProblem == [code |-> "CG-120", table |-> "file", keys |-> {}]
TomlProblem(line) == [code |-> "CG-121", table |-> line[1], keys |-> {line[2]}]

\* load_effective_gateway_config: without a path there is no document, and the
\* defaults are checked.
Loads(doc, disk) ==
    \/ disk.config = "absent"
    \/ /\ disk.config = "ok"
       /\ Misfits(doc) \cup Missing(doc) = {}
       /\ Failing(Settings(doc), disk) = {}

\* The first problem.
LoadProblem(doc, disk) ==
    IF disk.config # "ok" THEN FileProblem
    ELSE IF Misfits(doc) \cup Missing(doc) # {}
    THEN TomlProblem(CHOOSE line \in Misfits(doc) \cup Missing(doc) : TRUE)
    ELSE Checks(Settings(doc), disk)[Min(Failing(Settings(doc), disk))].problem

Loaded(doc, disk) == IF disk.config = "absent" THEN Default ELSE Settings(doc)
=============================================================================
