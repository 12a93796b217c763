------------------------------- MODULE Startup -------------------------------
(***************************************************************************)
(* Copies of the gateway started on one machine by an operator who follows *)
(* their advice: crates/gateway/src/main.rs from the settings to the last  *)
(* flush, with what config/, diagnose.rs, oem.rs and the history file take *)
(* part in it.  What the gateway does with telemetry is in Gateway,        *)
(* HistoryStore and FrameProcessing.                                       *)
(***************************************************************************)
EXTENDS Diagnose

CONSTANTS
    Inst,         \* the copies
    First,        \* the copy that is started in every world
    Worlds,       \* what it may find: [doc, disk, now]
    Shared,       \* the documents with which the others are started as well
    Times,        \* when telemetry may be stamped
    MaxOpens      \* bound: how often the history file is opened

\* An OEM file, as a sequence of lines.
IsText(text) ==
    /\ Len(text) \in Nat
    /\ text = [n \in 1 .. Len(text) |-> text[n]]
    /\ \A n \in DOMAIN text : text[n].kind = "data" => text[n].epoch \in Int

ASSUME StartupAssumption ==
    /\ First \in Inst
    /\ MaxOpens \in Nat
    /\ \A w \in Worlds :
          /\ w.now \in Int
          \* What stands in a document for the UDP address either parses or does not.
          /\ "ingest" \in DOMAIN w.doc /\ "bind_addr" \in DOMAIN w.doc["ingest"] =>
                w.doc["ingest"]["bind_addr"] \in {Garbled, Mistyped} \cup [ip : Hosts, port : Nat]
          \* A TLE has an age, in a document and in a file, and a line of data an epoch.
          /\ "station" \in DOMAIN w.doc /\ "tle_inline" \in DOMAIN w.doc["station"] =>
                w.doc["station"]["tle_inline"] \in {Garbled, Empty, Mistyped} \cup Int
          /\ {"config", "tle", "oem"} \subseteq DOMAIN w.disk
          /\ {"read", "text"} \subseteq DOMAIN w.disk.tle
          /\ w.disk.tle.text \in {Garbled, Empty} \cup Int
          /\ IsText(w.disk.oem.text)

VARIABLES
    doc,       \* each copy's config file
    disk,      \* what reading the files comes to
    now,       \* the time, which stands still
    stage,     \* where each copy is
    problem,   \* the diagnosis a copy stopped with
    said,      \* the codes of the diagnoses it logged
    orbit,     \* its tracking provider
    holds,     \* the sockets it has, with the ports of its settings
    handle,    \* the history file it has open: 0 or the number of an opening
    file       \* the history file under its name: the number of the opening that made it

vars == <<doc, disk, now, stage, problem, said, orbit, holds, handle, file>>

\* "checked": its data could be read a second time.
NoOrbit == [source |-> "none", segments |-> <<>>, checked |-> FALSE]
Protocol(l) == IF l = "http" THEN "tcp" ELSE "udp"

Config(i) == Loaded(doc[i], disk)

\* Ports of a protocol in use on this machine; a socket at port 0 is taken to be
\* where no document names a port.
Bound(l) ==
    {s.port : s \in {s \in UNION {holds[i] : i \in Inst} : Protocol(s.listener) = Protocol(l)}}

\* Mutant: the history is opened before the sockets.
FollowingFile ==
    [load |-> "history", history |-> "udp", udp |-> "track", track |-> "fresh", fresh |-> "rf",
     rf |-> "http", http |-> "running"]

\* run: what it does after what.
Following ==
    [load |-> "udp", udp |-> "track", track |-> "fresh", fresh |-> "rf", rf |-> "http",
     http |-> "history", history |-> "running"]

Init ==
    \E w \in Worlds :
        /\ doc = [i \in Inst |-> w.doc] /\ disk = w.disk /\ now = w.now
        /\ stage = [i \in Inst |-> IF i = First \/ w.doc \in Shared THEN "off" ELSE "never"]
        /\ problem = [i \in Inst |-> None] /\ said = [i \in Inst |-> {}]
        /\ orbit = [i \in Inst |-> NoOrbit] /\ holds = [i \in Inst |-> {}]
        /\ handle = [i \in Inst |-> 0] /\ file = 0

-----------------------------------------------------------------------------
(* Starting. *)

At(i, s) == stage[i] = s
Proceed(i) == stage' = [stage EXCEPT ![i] = Following[@]]

\* Failure::Startup: run returns, and what it had is dropped.
Refuse(i, p) ==
    /\ stage' = [stage EXCEPT ![i] = "refused"]
    /\ problem' = [problem EXCEPT ![i] = p]
    /\ holds' = [holds EXCEPT ![i] = {}]
    /\ UNCHANGED <<said, orbit, handle, file>>

Begin(i) ==
    /\ At(i, "off") /\ file < MaxOpens
    /\ stage' = [stage EXCEPT ![i] = "load"]
    /\ said' = [said EXCEPT ![i] = {}]
    /\ orbit' = [orbit EXCEPT ![i] = NoOrbit]
    /\ UNCHANGED <<doc, disk, now, problem, holds, handle, file>>

\* load_effective_gateway_config and config_warnings
Load(i) ==
    /\ At(i, "load")
    /\ \/ ~Loads(doc[i], disk) /\ Refuse(i, LoadProblem(doc[i], disk))
       \/ /\ Loads(doc[i], disk) /\ Proceed(i)
          /\ said' = [said EXCEPT ![i] = ConfigWarnings(Config(i))]
          /\ UNCHANGED <<problem, orbit, holds, handle, file>>
    /\ UNCHANGED <<doc, disk, now>>

\* ingest::bind, UdpSocket::bind for rf, TcpListener::bind
Bind(i, l) ==
    /\ At(i, l)
    /\ LET addr == AddressOf(Config(i), l) IN
       \/ ~Binds(Config(i), l, Bound(l)) /\ Refuse(i, BindProblem(Config(i), l, Bound(l)))
       \/ /\ Binds(Config(i), l, Bound(l)) /\ Proceed(i)
          /\ holds' = [holds EXCEPT ![i] = @ \cup
                         (IF addr = Unset THEN {} ELSE {[listener |-> l, port |-> addr.port]})]
          /\ UNCHANGED <<problem, said, orbit, handle, file>>
    /\ UNCHANGED <<doc, disk, now>>

\* propagator_from_station: without tracking the gateway goes on.
Track(i) ==
    /\ At(i, "track") /\ Proceed(i)
    /\ LET code == TrackingCode(Config(i), disk)
           oem == UsesOem(Config(i))
       IN IF code # "none"
          THEN said' = [said EXCEPT ![i] = @ \cup {code}] /\ UNCHANGED orbit
          ELSE /\ orbit' = [orbit EXCEPT ![i] =
                     [source |-> IF oem THEN "oem" ELSE "tle",
                      segments |-> IF oem THEN Parse(disk.oem.text).segments ELSE <<>>,
                      checked |-> FALSE]]
               /\ UNCHANGED said
    /\ UNCHANGED <<doc, disk, now, problem, holds, handle, file>>

\* The second reading of the orbit data, in which a failure says nothing.
Freshen(i) ==
    /\ At(i, "fresh") /\ Proceed(i)
    /\ IF orbit[i] # NoOrbit /\ TrackingCode(Config(i), disk) = "none"
       THEN /\ said' = [said EXCEPT ![i] =
                           @ \cup ({FreshnessCode(Config(i), disk, now)} \ {"none"})]
            /\ orbit' = [orbit EXCEPT ![i].checked = TRUE]
       ELSE UNCHANGED <<said, orbit>>
    /\ UNCHANGED <<doc, disk, now, problem, holds, handle, file>>

Persistent(i) == Config(i).history.capacity > 0 /\ Config(i).history.persist_path # Unset

\* HistoryStore::open: the file is read, written anew beside and renamed, so
\* that whoever had it open keeps a file without a name.
OpenHistory(i) ==
    /\ At(i, "history")
    /\ \/ ~Opens(Config(i), disk) /\ Refuse(i, HistoryProblem)
       \/ /\ Opens(Config(i), disk) /\ Proceed(i)
          /\ file' = IF Persistent(i) THEN file + 1 ELSE file
          /\ handle' = [handle EXCEPT ![i] = IF Persistent(i) THEN file + 1 ELSE 0]
          /\ UNCHANGED <<problem, said, orbit, holds>>
    /\ UNCHANGED <<doc, disk, now>>

-----------------------------------------------------------------------------
(* Running and stopping. *)

\* ctrl_c: the token is cancelled, and each task ends in its own time.
Stop(i) ==
    /\ At(i, "running")
    /\ stage' = [stage EXCEPT ![i] = "draining"]
    /\ UNCHANGED <<doc, disk, now, problem, said, orbit, holds, handle, file>>

Release(i) ==
    /\ stage[i] \in {"draining", "closed"}
    /\ \E s \in holds[i] : holds' = [holds EXCEPT ![i] = @ \ {s}]
    /\ UNCHANGED <<doc, disk, now, stage, problem, said, orbit, handle, file>>

Holding(i, l) == \E s \in holds[i] : s.listener = l

\* After the server, the ingest task and the pipeline: history.close.
CloseHistory(i) ==
    /\ At(i, "draining") /\ ~Holding(i, "udp") /\ ~Holding(i, "http")
    /\ stage' = [stage EXCEPT ![i] = "closed"]
    /\ handle' = [handle EXCEPT ![i] = 0]
    /\ UNCHANGED <<doc, disk, now, problem, said, orbit, holds, file>>

\* After the rf task run returns.
Exit(i) ==
    /\ At(i, "closed") /\ ~Holding(i, "rf")
    /\ stage' = [stage EXCEPT ![i] = "off"]
    /\ UNCHANGED <<doc, disk, now, problem, said, orbit, holds, handle, file>>

-----------------------------------------------------------------------------
(* The operator and the files. *)

\* One way of the first fix is taken; then the copy may be started again.
Fix(i) ==
    /\ At(i, "refused")
    /\ \E way \in FirstFix(problem[i]) :
          LET after == Mended([doc |-> doc[i], disk |-> disk], way) IN
          /\ doc' = [doc EXCEPT ![i] = after.doc]
          /\ disk' = after.disk
    /\ stage' = [stage EXCEPT ![i] = "off"]
    /\ problem' = [problem EXCEPT ![i] = None]
    /\ UNCHANGED <<now, said, orbit, holds, handle, file>>

\* The file named by tle_file is moved away.
TleVanishes ==
    /\ Config(First).station.tle_file # Unset /\ disk.tle.read = "ok"
    /\ stage[First] \in {"udp", "track", "fresh"}
    /\ disk' = [disk EXCEPT !.tle.read = "missing"]
    /\ UNCHANGED <<doc, now, stage, problem, said, orbit, holds, handle, file>>

Next ==
    \/ \E i \in Inst :
          \/ Begin(i) \/ Load(i) \/ Track(i) \/ Freshen(i) \/ OpenHistory(i)
          \/ \E l \in Listener : Bind(i, l)
          \/ Stop(i) \/ Release(i) \/ CloseHistory(i) \/ Exit(i) \/ Fix(i)
    \/ TleVanishes

Spec == Init /\ [][Next]_vars

-----------------------------------------------------------------------------
(* Properties. *)

\* The advice of a diagnosis leads on: for whatever stopped a copy before its
\* sockets and files were in the way, one way of the first fix takes that
\* problem away and brings no other (explain of ConfigError, ConfigLoadError
\* and HistoryError against what config/file.rs accepts).
Helps(i, way) ==
    Faults(Mended([doc |-> doc[i], disk |-> disk], way))
        \subseteq Faults([doc |-> doc[i], disk |-> disk]) \ {problem[i]}

Advised(i) == At(i, "refused") /\ problem[i].code # "CG-201"

AFixHelps == \A i \in Inst : Advised(i) => \E way \in FirstFix(problem[i]) : Helps(i, way)

\* Copies that listen on one and the same UDP port never take the history file
\* from one that runs: sockets come before the file, and go before it (main.rs
\* run).  Port 0 is no such port: the system finds each copy one of its own.
RunningOwnsFile ==
    \A i \in Inst :
        (At(i, "running") /\ handle[i] # 0 /\ Config(i).ingest.bind_addr.port # 0
            /\ \A j \in Inst : Config(j).ingest = Config(i).ingest)
        => handle[i] = file

\* Who runs without tracking, or with orbit data that has nothing or little to
\* say of the present, has been told (explain_tracking_error,
\* check_oem_coverage, check_tle_age), unless a TLE file went away between its
\* two readings.  Of an OEM file, "the present" is read off its lines.
TrackingCodes == {"CG-118", "CG-127", "CG-310", "CG-320", "CG-321"}
Started(i) == stage[i] \in {"rf", "http", "history", "running", "draining"}

EpochsOf(text) ==
    LET systems == {n \in DOMAIN text : text[n].kind = "key" /\ text[n].key = "TIME_SYSTEM"}
        data == {n \in DOMAIN text : text[n].kind = "data"}
    IN {text[n].epoch - Ahead[text[m].value] : n \in data, m \in systems}

ToldBy(i) ==
    LET c == Config(i)
        source == orbit[i].source
        epochs == EpochsOf(disk.oem.text)
    IN  /\ orbit[i] = NoOrbit => said[i] \cap TrackingCodes # {}
        /\ (source = "oem" /\ \A t \in epochs : t < now) => "CG-322" \in said[i]
        /\ (source = "oem" /\ \A t \in epochs : t > now) => "CG-322" \in said[i]
        /\ (source = "tle" /\ orbit[i].checked /\ TleText(c, disk) \notin -1 .. 3) =>
               said[i] \cap {"CG-301", "CG-302", "CG-303"} # {}

Told == \A i \in Inst : Started(i) => ToldBy(i)

\* What the OEM provider answers comes from the newest block of the file that
\* covers the time, and from states of it that are next to each other with the
\* time among them: it does not extrapolate, mix blocks or skip states.
\* Blocks are read off the lines.
BlockStarts(text) == {p \in DOMAIN text : text[p].kind = "start"}
BlockEnd(text, p) ==
    Min({q - 1 : q \in {q \in BlockStarts(text) : q > p}} \cup {Len(text)})
Block(text, p) == SubSeq(text, p, BlockEnd(text, p))
KeysOf(block) == SelectSeq(block, LAMBDA line : line.kind = "key")

Covers(block, t) ==
    LET keys == KeysOf(block) IN
    /\ Limit(keys, "USEABLE_START_TIME", "START_TIME") <= t
    /\ t <= Limit(keys, "USEABLE_STOP_TIME", "STOP_TIME")
    /\ \E a, b \in EpochsOf(block) : a <= t /\ t <= b

AnswerFrom(block, t, answer) ==
    /\ Covers(block, t)
    /\ answer # {} /\ answer \subseteq EpochsOf(block)
    /\ Min(answer) <= t /\ t <= Max(answer)
    /\ \A e \in EpochsOf(block) : Min(answer) <= e /\ e <= Max(answer) => e \in answer

OemFaithful ==
    \A i \in Inst : orbit[i].source = "oem" =>
        \A t \in Times :
            LET text == disk.oem.text
                answer == Lookup(orbit[i].segments, t)
                covering == {p \in BlockStarts(text) : Covers(Block(text, p), t)}
            IN IF covering = {} THEN answer = OutOfCoverage
               ELSE answer # OutOfCoverage
                    /\ AnswerFrom(Block(text, Max(covering)), t, ToSet(answer))
=============================================================================
