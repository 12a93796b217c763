------------------------------- MODULE Diagnose -------------------------------
(***************************************************************************)
(* How crates/gateway/src/diagnose.rs says what is wrong before and while  *)
(* the gateway starts, and what it advises first.  Advice is a set of ways *)
(* ("Set ..., or delete the line" is two); Mended is what becomes of a     *)
(* document and of the files around it when a way is taken literally.      *)
(***************************************************************************)
EXTENDS GatewayConfig, OemEphemeris

-----------------------------------------------------------------------------
(* Sockets and the history file. *)

Listener == {"udp", "http", "rf"}
TableOf == [udp |-> "ingest", http |-> "ingest", rf |-> "rf"]
KeyOf == [udp |-> "bind_addr", http |-> "http_bind", rf |-> "bind_addr"]
AddressOf(c, l) == c[TableOf[l]][KeyOf[l]]

\* explain_bind_error: CG-201 if a socket in "bound" has the port, CG-202 for a
\* reserved port, CG-203 for an address of another machine; without an address
\* there is nothing to listen for.  For port 0 the system picks one that is
\* free.  Left out: a firewall that refuses other ports (CG-202 as well), and
\* what else may befall a bind (CG-204).
BindCode(addr, bound) ==
    IF addr = Unset THEN "none"
    ELSE IF addr.ip \notin {"127.0.0.1", "0.0.0.0"} THEN "CG-203"
    ELSE IF addr.port \in 1 .. 1023 THEN "CG-202"
    ELSE IF addr.port \in bound \ {0} THEN "CG-201"
    ELSE "none"

Binds(c, l, bound) == BindCode(AddressOf(c, l), bound) = "none"

BindProblem(c, l, bound) ==
    [code |-> BindCode(AddressOf(c, l), bound), table |-> TableOf[l], keys |-> {KeyOf[l]},
     key |-> KeyOf[l], addr |-> AddressOf(c, l)]

\* HistoryError::Io: the folder of the file is not there.
Opens(c, disk) ==
    ~(c.history.capacity > 0 /\ c.history.persist_path = "folder/file" /\ ~disk.folder)
HistoryProblem == [code |-> "CG-135", table |-> "history", keys |-> {"persist_path"}]

-----------------------------------------------------------------------------
(* What does not stop the gateway. *)

Unspecified(addr) == addr.ip = "0.0.0.0"
Loopback(addr) == addr.ip = "127.0.0.1"

\* config_warnings
ConfigWarnings(c) ==
    LET f == c.framing
        warn(p, code) == IF p THEN {code} ELSE {}
    IN  warn(c.station.nominal_carrier_hz < 1000000, "CG-130")
        \cup warn(Unspecified(c.ingest.http_bind), "CG-131")
        \cup warn(Loopback(c.ingest.bind_addr), "CG-132")
        \cup warn(c.ingest.max_datagram_size < 64, "CG-133")
        \cup warn(TmMode(c) /\ ~f.asm /\ f.frame_length # Unset
                    /\ f.frame_length > c.ingest.max_datagram_size, "CG-136")

TLE_DOPPLER_DAYS == 3
TLE_STALE_DAYS == 30

\* check_tle_age
AgeCode(age) ==
    IF age < -1 THEN "CG-303"
    ELSE IF age > TLE_STALE_DAYS THEN "CG-302"
    ELSE IF age > TLE_DOPPLER_DAYS THEN "CG-301"
    ELSE "none"

UsesOem(c) == c.station.oem_file # Unset
TleText(c, disk) == IF c.station.tle_file # Unset THEN disk.tle.text ELSE c.station.tle_inline

\* propagator_from_station and explain_tracking_error: why there is no tracking.
TrackingCode(c, disk) ==
    IF UsesOem(c)
    THEN IF disk.oem.read # "ok" THEN "CG-127"
         ELSE IF Parse(disk.oem.text).error # "none" THEN OemCode(Parse(disk.oem.text).error)
         ELSE "none"
    ELSE IF c.station.tle_file # Unset /\ disk.tle.read # "ok" THEN "CG-118"
    ELSE IF TleText(c, disk) \in {Garbled, Empty} THEN "CG-310"
    ELSE "none"

\* Mutant: a time before the ephemeris is not looked at.
FreshnessCodeStart(c, disk, now) ==
    IF UsesOem(c)
    THEN LET cov == Coverage(Parse(disk.oem.text).segments)
         IN IF now > cov.stop THEN "CG-322" ELSE "none"
    ELSE AgeCode(TleText(c, disk))

\* check_oem_coverage, or check_tle_age: what is said of tracking that is there.
FreshnessCode(c, disk, now) ==
    IF UsesOem(c)
    THEN LET cov == Coverage(Parse(disk.oem.text).segments)
         IN IF now < cov.start \/ now > cov.stop THEN "CG-322" ELSE "none"
    ELSE AgeCode(TleText(c, disk))

-----------------------------------------------------------------------------
(* The first fix of each diagnosis. *)

Set(p, keys) == [op |-> "set", table |-> p.table, keys |-> keys]
Delete(p, keys) == [op |-> "delete", table |-> p.table, keys |-> keys]
\* The other sources of orbit data taken out.
Keep(k) == [op |-> "keep", table |-> "station", keys |-> {k}]
Repair(what) == [op |-> "repair", table |-> what, keys |-> {}]

\* The next port, for the listener that found its own in use.  (Of the last port,
\* whose next is the one before it, nothing is said here.)
NextPort(addr) == [addr EXCEPT !.port = @ + 1]
PickNext(p) == [op |-> "next", table |-> p.table, key |-> p.key, addr |-> p.addr]

SetOrDelete == {"CG-106", "CG-108", "CG-109", "CG-110", "CG-113", "CG-114", "CG-115",
                "CG-116", "CG-117", "CG-125", "CG-126", "CG-129", "CG-134"}

\* explain of ConfigError, ConfigLoadError and HistoryError, and explain_bind_error.
OtherFix(p) ==
    CASE p.code = "CG-105" -> {Set(p, {"tle_inline"}), Set(p, {"tle_file"})}
      [] p.code = "CG-118" -> {Repair("tle")}
      [] p.code = "CG-120" -> {Repair("config")}
      [] p.code = "CG-121" ->
            IF p.keys \subseteq DOMAIN Default[p.table] THEN {Set(p, p.keys)} ELSE {Delete(p, p.keys)}
      [] p.code = "CG-123" -> {Keep(k) : k \in p.keys}
      [] p.code = "CG-124" -> {Set(p, {k}) : k \in Sources}
      [] p.code = "CG-135" -> {Repair("folder"), Set(p, p.keys)}
      [] p.code = "CG-201" -> {Repair("port"), PickNext(p)}
      [] OTHER -> {Set(p, p.keys)}

\* Mutant: of a setting that is refused only the line's deletion is advised.
FirstFixDeletes(p) == IF p.code \in SetOrDelete THEN {Delete(p, p.keys)} ELSE OtherFix(p)

FirstFix(p) ==
    IF p.code \in SetOrDelete THEN {Set(p, p.keys), Delete(p, p.keys)} ELSE OtherFix(p)

\* A value that the message or gateway.example.toml offers.
Offered(t, k) ==
    CASE k = "frame_length" -> 1115
      [] k = "spacecraft_id" -> 42
      [] k = "virtual_channels" -> {0}
      [] k = "persist_path" -> "file"
      [] k \in {"tle_file", "oem_file"} -> "file"
      [] t = "rf" /\ k = "bind_addr" -> Addr("127.0.0.1", 7302)
      [] OTHER -> Default[t][k]

Without(table, keys) == [k \in DOMAIN table \ keys |-> table[k]]
With(t, table, keys) == Over([k \in keys |-> Offered(t, k)], table)
Single(k, v) == [x \in {k} |-> v]

Edited(doc, way) ==
    LET t == way.table
        table == IF t \in DOMAIN doc THEN doc[t] ELSE <<>>
        new == CASE way.op = "set" -> With(t, table, way.keys)
                 [] way.op = "delete" -> Without(table, way.keys)
                 [] way.op = "keep" -> Without(table, Sources \ way.keys)
                 [] way.op = "next" -> Over(Single(way.key, NextPort(way.addr)), table)
    IN Over(Single(t, new), doc)

RepairedDisk(disk, what) ==
    CASE what = "config" -> [disk EXCEPT !.config = "ok"]
      [] what = "tle" -> [disk EXCEPT !.tle.read = "ok"]
      [] what = "folder" -> [disk EXCEPT !.folder = TRUE]
      [] what = "port" -> disk

\* "at" has the document and the disk.
Mended(at, way) ==
    IF way.op = "repair" THEN [at EXCEPT !.disk = RepairedDisk(at.disk, way.table)]
    ELSE [at EXCEPT !.doc = Edited(at.doc, way)]

-----------------------------------------------------------------------------
(* Everything that would stop the gateway, were it looked for all at once.   *)

\* Lines that do not parse are taken out to see what else there is.
Parsed(doc) ==
    [t \in DOMAIN doc |-> Without(doc[t], {k \in DOMAIN doc[t] : ~Fits(t, k, doc[t][k])})]

Faults(at) ==
    LET c == Settings(Parsed(at.doc))
        listening == {l \in Listener : AddressOf(c, l) # Garbled}
    IN {FileProblem : x \in {at.disk.config} \ {"ok", "absent"}}
        \cup {TomlProblem(line) : line \in Misfits(at.doc) \cup Missing(at.doc)}
        \cup {Checks(c, at.disk)[n].problem : n \in Failing(c, at.disk)}
        \cup {BindProblem(c, l, {}) : l \in {l \in listening : ~Binds(c, l, {})}}
        \cup {HistoryProblem : x \in {Opens(c, at.disk)} \ {TRUE}}
=============================================================================
