---------------------------- MODULE StartupProofs ----------------------------
(* A running copy keeps its history file, for any number of copies, whatever  *)
(* their documents and however often an operator mends and restarts them.     *)
EXTENDS Startup, SequenceTheorems, WellFoundedInduction, TLAPS

-----------------------------------------------------------------------------
(* The address a document gives for UDP. *)

Address == [ip : Hosts, port : Nat]

SetsAddress(d) == "ingest" \in DOMAIN d /\ "bind_addr" \in DOMAIN d["ingest"]
AddressIn(d) == IF SetsAddress(d) THEN d["ingest"]["bind_addr"] ELSE Addr("127.0.0.1", 7301)

DocOK(d) == SetsAddress(d) => d["ingest"]["bind_addr"] \in {Garbled, Mistyped} \cup Address

\* Nothing but another socket keeps the gateway from listening there.
Usable(a) ==
    /\ a \in Address /\ a.ip \in {"127.0.0.1", "0.0.0.0"}
    /\ a.port = 0 \/ a.port >= 1024

\* A port that another socket can have.
Fixed(a) == Usable(a) /\ a.port # 0

IngestAddr(i) == Config(i)["ingest"]["bind_addr"]
Port(i) == IngestAddr(i).port
Good(i) == Usable(IngestAddr(i))

\* What is said of the address.
AboutAddress(p) == p.table = "ingest" /\ "bind_addr" \in p.keys

-----------------------------------------------------------------------------
(* The inductive invariant. *)

Files ==
    /\ "config" \in DOMAIN disk
    /\ \A i \in Inst : DocOK(doc[i])

Udp(s) == Protocol(s.listener) = "udp"

Quiet == {"never", "off", "load", "udp", "refused"}
Up == {"track", "fresh", "rf", "http", "history", "running"}

\* A copy has the sockets of its stage, at the address of its settings.
Sockets(i) ==
    /\ stage[i] \in Quiet \cup Up \cup {"draining", "closed"}
    /\ \A s \in holds[i] : s.listener \in Listener
    /\ stage[i] \in Quiet => holds[i] = {}
    /\ stage[i] = "udp" => IngestAddr(i) \in Address
    /\ stage[i] \in Up => \E s \in holds[i] : s.listener = "udp"
    /\ \A s \in holds[i] : s.listener = "udp" => s.port = Port(i)
    /\ holds[i] # {} => Good(i)
    /\ stage[i] = "closed" => \A s \in holds[i] : s.listener = "rf"

\* No port is taken by two copies.
OnePerPort ==
    \A i, j \in Inst : \A s \in holds[i], t \in holds[j] :
        Udp(s) /\ Udp(t) /\ s.port = t.port /\ s.port # 0 => i = j

\* What a copy was refused with tells what its mending can do to the address.
Mendable(i) ==
    LET p == problem[i] IN
    At(i, "refused") =>
        /\ p.code = "CG-120" => disk.config # "absent"
        /\ p.code = "CG-201" => p.keys = {p.key}
        /\ AboutAddress(p) =>
              IF p.code = "CG-201" THEN Fixed(IngestAddr(i)) /\ p.addr = IngestAddr(i)
              ELSE ~Good(i) \/ (p.code = "CG-121" /\ ~SetsAddress(doc[i]))

\* Its next start is at the next port.
Leaving(i) == At(i, "refused") /\ problem[i].code = "CG-201" /\ AboutAddress(problem[i])

\* The file of a running copy was taken by one that listens elsewhere; below it,
\* some copy stays below.
Above(i) == \E j \in Inst : Good(j) /\ Port(j) > Port(i)
Stays(j, q) == Good(j) /\ Port(j) <= q /\ ~(Port(j) = q /\ Leaving(j))
Free(i, q) ==
    \A h \in Inst : q < Port(h) /\ Port(h) <= Port(i) =>
        \A s \in holds[h] : Udp(s) /\ s.port # 0 => s.port # q
Below(i) == \E q \in Nat : q < Port(i) /\ Free(i, q) /\ \E j \in Inst : Stays(j, q)

Stale(i) == At(i, "running") /\ handle[i] # 0 /\ handle[i] # file
Displaced == \A i \in Inst : Stale(i) /\ Port(i) # 0 => Above(i) \/ Below(i)

OfCopies(f) == f = [i \in Inst |-> f[i]]
PerCopy ==
    OfCopies(doc) /\ OfCopies(stage) /\ OfCopies(problem) /\ OfCopies(holds) /\ OfCopies(handle)

StInv ==
    /\ PerCopy /\ Files /\ OnePerPort /\ Displaced
    /\ \A i \in Inst : Sockets(i) /\ Mendable(i)

-----------------------------------------------------------------------------
(* Documents. *)

LEMMA DefaultTables ==
    /\ "ingest" \in DOMAIN Default
    /\ "bind_addr" \in DOMAIN Default["ingest"]
    /\ Default["ingest"]["bind_addr"] = Addr("127.0.0.1", 7301)
    /\ Usable(Addr("127.0.0.1", 7301))
BY DEF Default, IngestDefault, Usable, Address, Addr, Hosts

LEMMA AddressOfSettings ==
    ASSUME NEW d
    PROVE  Settings(d)["ingest"]["bind_addr"] = AddressIn(d)
<1>1. CASE "ingest" \notin DOMAIN d
  BY <1>1, DefaultTables DEF Settings, AddressIn, SetsAddress
<1>2. CASE "ingest" \in DOMAIN d
  <2>1. Settings(d)["ingest"] = Over(d["ingest"], Default["ingest"])
    BY <1>2, DefaultTables DEF Settings
  <2>2. Over(d["ingest"], Default["ingest"])["bind_addr"] =
            IF "bind_addr" \in DOMAIN d["ingest"] THEN d["ingest"]["bind_addr"]
            ELSE Default["ingest"]["bind_addr"]
    BY DefaultTables DEF Over
  <2>3. QED BY <1>2, <2>1, <2>2, DefaultTables DEF AddressIn, SetsAddress
<1>3. QED BY <1>1, <1>2

LEMMA AddressOfLoaded ==
    ASSUME NEW d, NEW k
    PROVE  Loaded(d, k)["ingest"]["bind_addr"] =
               IF k.config = "absent" THEN Addr("127.0.0.1", 7301) ELSE AddressIn(d)
BY AddressOfSettings, DefaultTables DEF Loaded

-----------------------------------------------------------------------------
(* The checks of a document: none but the first is about the address. *)

Fit(k) == k.problem.code \notin {"CG-120", "CG-201"} /\ ~AboutAddress(k.problem)

LEMMA WithinFits ==
    ASSUME NEW c, NEW t, NEW k, NEW accepted, NEW code,
           code \notin {"CG-120", "CG-201"}, t # "ingest" \/ k # "bind_addr"
    PROVE  Fit(Within(c, t, k, accepted, code))
BY DEF Within, Check, Fit, AboutAddress

LEMMA CheckFits ==
    ASSUME NEW bad, NEW t, NEW keys, NEW code,
           code \notin {"CG-120", "CG-201"}, t # "ingest" \/ "bind_addr" \notin keys
    PROVE  Fit(Check(bad, code, t, keys))
BY DEF Check, Fit, AboutAddress

\* A list of n checks; those from b on are not about the address.
List(s, n) == s = [m \in 1 .. n |-> s[m]]
FitFrom(s, b, n) == List(s, n) /\ \A m \in b .. n : Fit(s[m])

LEMMA ParseChecksFit ==
    ASSUME NEW c
    PROVE  FitFrom(ParseChecks(c), 2, 7)
<1>1. List(ParseChecks(c), 7)
  BY DEF ParseChecks, List
<1>2. \A m \in 2 .. 7 : Fit(ParseChecks(c)[m])
  BY WithinFits, CheckFits DEF ParseChecks, Is, EarthKeys, Sources
<1>3. QED BY <1>1, <1>2 DEF FitFrom

LEMMA IngestChecksFit ==
    ASSUME NEW c
    PROVE  FitFrom(IngestChecks(c), 1, 2)
<1>1. List(IngestChecks(c), 2)
  BY DEF IngestChecks, List
<1>2. \A m \in 1 .. 2 : Fit(IngestChecks(c)[m])
  BY WithinFits, CheckFits DEF IngestChecks, Is, EarthKeys, Sources
<1>3. QED BY <1>1, <1>2 DEF FitFrom

LEMMA SiteChecksFit ==
    ASSUME NEW c
    PROVE  FitFrom(SiteChecks(c), 1, 7)
<1>1. List(SiteChecks(c), 7)
  BY DEF SiteChecks, List
<1>2. \A m \in 1 .. 7 : Fit(SiteChecks(c)[m])
  BY WithinFits, CheckFits DEF SiteChecks, Is, EarthKeys, Sources
<1>3. QED BY <1>1, <1>2 DEF FitFrom

LEMMA TrackingChecksFit ==
    ASSUME NEW c
    PROVE  FitFrom(TrackingChecks(c), 1, 5)
<1>1. List(TrackingChecks(c), 5)
  BY DEF TrackingChecks, List
<1>2. \A m \in 1 .. 5 : Fit(TrackingChecks(c)[m])
  BY WithinFits, CheckFits DEF TrackingChecks, Is, EarthKeys, Sources
<1>3. QED BY <1>1, <1>2 DEF FitFrom

LEMMA LinkChecksFit ==
    ASSUME NEW c
    PROVE  FitFrom(LinkChecks(c), 1, 5)
<1>1. List(LinkChecks(c), 5)
  BY DEF LinkChecks, List
<1>2. \A m \in 1 .. 5 : Fit(LinkChecks(c)[m])
  BY WithinFits, CheckFits DEF LinkChecks, Is, EarthKeys, Sources
<1>3. QED BY <1>1, <1>2 DEF FitFrom

LEMMA HilChecksFit ==
    ASSUME NEW c
    PROVE  FitFrom(HilChecks(c), 1, 8)
<1>1. List(HilChecks(c), 8)
  BY DEF HilChecks, List
<1>2. \A m \in 1 .. 8 : Fit(HilChecks(c)[m])
  BY WithinFits, CheckFits DEF HilChecks, Is, EarthKeys, Sources
<1>3. QED BY <1>1, <1>2 DEF FitFrom

LEMMA RfTimeChecksFit ==
    ASSUME NEW c
    PROVE  FitFrom(RfTimeChecks(c), 1, 4)
<1>1. List(RfTimeChecks(c), 4)
  BY DEF RfTimeChecks, List
<1>2. \A m \in 1 .. 4 : Fit(RfTimeChecks(c)[m])
  BY WithinFits, CheckFits DEF RfTimeChecks, Is, EarthKeys, Sources
<1>3. QED BY <1>1, <1>2 DEF FitFrom

LEMMA FramingHistoryChecksFit ==
    ASSUME NEW c
    PROVE  FitFrom(FramingHistoryChecks(c), 1, 6)
<1>1. List(FramingHistoryChecks(c), 6)
  BY DEF FramingHistoryChecks, List
<1>2. \A m \in 1 .. 6 : Fit(FramingHistoryChecks(c)[m])
  BY WithinFits, CheckFits DEF FramingHistoryChecks, Is, EarthKeys, Sources
<1>3. QED BY <1>1, <1>2 DEF FitFrom

LEMMA ResolveChecksFit ==
    ASSUME NEW c, NEW k
    PROVE  FitFrom(ResolveChecks(c, k), 1, 1)
<1>1. List(ResolveChecks(c, k), 1)
  BY DEF ResolveChecks, List
<1>2. \A m \in 1 .. 1 : Fit(ResolveChecks(c, k)[m])
  BY WithinFits, CheckFits DEF ResolveChecks, Is, EarthKeys, Sources
<1>3. QED BY <1>1, <1>2 DEF FitFrom

LEMMA Joined ==
    ASSUME NEW s, NEW t, NEW n, NEW k, NEW l, n \in 3 .. l, l = n + k, k \in Nat,
           FitFrom(s, 2, n), FitFrom(t, 1, k)
    PROVE  FitFrom(s \o t, 2, l) /\ (s \o t)[1] = s[1] /\ (s \o t)[3] = s[3]
<1>. DEFINE S == {s[m] : m \in 1 .. n} \cup {t[m] : m \in 1 .. k}
<1>1. s \in Seq(S) /\ Len(s) = n
  <2>1. s \in [1 .. n -> S]
    BY DEF FitFrom, List
  <2>2. QED BY <2>1, LenProperties, SeqDef
<1>2. t \in Seq(S) /\ Len(t) = k
  <2>1. t \in [1 .. k -> S]
    BY DEF FitFrom, List
  <2>2. QED BY <2>1, LenProperties, SeqDef
<1>3. /\ s \o t \in Seq(S)
      /\ Len(s \o t) = l
      /\ \A m \in 1 .. l : (s \o t)[m] = IF m <= n THEN s[m] ELSE t[m - n]
  <2>. HIDE DEF S
  <2>1. QED BY <1>1, <1>2, ConcatProperties
<1>4. List(s \o t, l)
  <2>. HIDE DEF S
  <2>1. s \o t = [m \in 1 .. Len(s \o t) |-> (s \o t)[m]]
    BY <1>3, LenProperties
  <2>2. QED BY <2>1, <1>3 DEF List
<1>5. \A m \in 2 .. l : Fit((s \o t)[m])
  BY <1>3 DEF FitFrom
<1>6. (s \o t)[1] = s[1] /\ (s \o t)[3] = s[3]
  <2>. HIDE DEF S
  <2>1. 1 \in 1 .. l /\ 1 <= n /\ 3 \in 1 .. l /\ 3 <= n
    OBVIOUS
  <2>2. QED BY <2>1, <1>3
<1>7. QED BY <1>4, <1>5, <1>6 DEF FitFrom

LEMMA ChecksFit ==
    ASSUME NEW c, NEW k
    PROVE  /\ DOMAIN Checks(c, k) = 1 .. 45
           /\ \A m \in 2 .. 45 : Fit(Checks(c, k)[m])
           /\ Checks(c, k)[1] =
                 Check(c["ingest"]["bind_addr"] = Garbled, "CG-122", "ingest", {"bind_addr"})
           /\ Checks(c, k)[3] = Check(Given(c) = {}, "CG-124", "station", Sources)
<1>. DEFINE s1 == ParseChecks(c) \o IngestChecks(c)
            s2 == s1 \o SiteChecks(c)
            s3 == s2 \o TrackingChecks(c)
            s4 == s3 \o LinkChecks(c)
            s5 == s4 \o HilChecks(c)
            s6 == s5 \o RfTimeChecks(c)
            s7 == s6 \o FramingHistoryChecks(c)
            s8 == s7 \o ResolveChecks(c, k)
            first == ParseChecks(c)[1]
            third == ParseChecks(c)[3]
<1>1. FitFrom(s1, 2, 9) /\ s1[1] = first /\ s1[3] = third
  <2>1. FitFrom(ParseChecks(c), 2, 7) /\ ParseChecks(c)[1] = first /\ ParseChecks(c)[3] = third
    BY ParseChecksFit
  <2>2. FitFrom(IngestChecks(c), 1, 2)
    BY IngestChecksFit
  <2>. HIDE DEF first, third
  <2>3. 7 \in 3 .. 9 /\ 9 = 7 + 2 /\ 2 \in Nat
    OBVIOUS
  <2>4. FitFrom(ParseChecks(c) \o IngestChecks(c), 2, 9)
        /\ (ParseChecks(c) \o IngestChecks(c))[1] = ParseChecks(c)[1]
        /\ (ParseChecks(c) \o IngestChecks(c))[3] = ParseChecks(c)[3]
    BY <2>1, <2>2, <2>3, Joined, Zenon
  <2>5. QED BY <2>1, <2>4 DEF s1
<1>2. FitFrom(s2, 2, 16) /\ s2[1] = first /\ s2[3] = third
  <2>1. FitFrom(s1, 2, 9) /\ s1[1] = first /\ s1[3] = third
    BY <1>1
  <2>2. FitFrom(SiteChecks(c), 1, 7)
    BY SiteChecksFit
  <2>. HIDE DEF first, third, s1
  <2>3. 9 \in 3 .. 16 /\ 16 = 9 + 7 /\ 7 \in Nat
    OBVIOUS
  <2>4. FitFrom(s1 \o SiteChecks(c), 2, 16)
        /\ (s1 \o SiteChecks(c))[1] = s1[1]
        /\ (s1 \o SiteChecks(c))[3] = s1[3]
    BY <2>1, <2>2, <2>3, Joined, Zenon
  <2>5. QED BY <2>1, <2>4 DEF s2
<1>3. FitFrom(s3, 2, 21) /\ s3[1] = first /\ s3[3] = third
  <2>1. FitFrom(s2, 2, 16) /\ s2[1] = first /\ s2[3] = third
    BY <1>2
  <2>2. FitFrom(TrackingChecks(c), 1, 5)
    BY TrackingChecksFit
  <2>. HIDE DEF first, third, s2
  <2>3. 16 \in 3 .. 21 /\ 21 = 16 + 5 /\ 5 \in Nat
    OBVIOUS
  <2>4. FitFrom(s2 \o TrackingChecks(c), 2, 21)
        /\ (s2 \o TrackingChecks(c))[1] = s2[1]
        /\ (s2 \o TrackingChecks(c))[3] = s2[3]
    BY <2>1, <2>2, <2>3, Joined, Zenon
  <2>5. QED BY <2>1, <2>4 DEF s3
<1>4. FitFrom(s4, 2, 26) /\ s4[1] = first /\ s4[3] = third
  <2>1. FitFrom(s3, 2, 21) /\ s3[1] = first /\ s3[3] = third
    BY <1>3
  <2>2. FitFrom(LinkChecks(c), 1, 5)
    BY LinkChecksFit
  <2>. HIDE DEF first, third, s3
  <2>3. 21 \in 3 .. 26 /\ 26 = 21 + 5 /\ 5 \in Nat
    OBVIOUS
  <2>4. FitFrom(s3 \o LinkChecks(c), 2, 26)
        /\ (s3 \o LinkChecks(c))[1] = s3[1]
        /\ (s3 \o LinkChecks(c))[3] = s3[3]
    BY <2>1, <2>2, <2>3, Joined, Zenon
  <2>5. QED BY <2>1, <2>4 DEF s4
<1>5. FitFrom(s5, 2, 34) /\ s5[1] = first /\ s5[3] = third
  <2>1. FitFrom(s4, 2, 26) /\ s4[1] = first /\ s4[3] = third
    BY <1>4
  <2>2. FitFrom(HilChecks(c), 1, 8)
    BY HilChecksFit
  <2>. HIDE DEF first, third, s4
  <2>3. 26 \in 3 .. 34 /\ 34 = 26 + 8 /\ 8 \in Nat
    OBVIOUS
  <2>4. FitFrom(s4 \o HilChecks(c), 2, 34)
        /\ (s4 \o HilChecks(c))[1] = s4[1]
        /\ (s4 \o HilChecks(c))[3] = s4[3]
    BY <2>1, <2>2, <2>3, Joined, Zenon
  <2>5. QED BY <2>1, <2>4 DEF s5
<1>6. FitFrom(s6, 2, 38) /\ s6[1] = first /\ s6[3] = third
  <2>1. FitFrom(s5, 2, 34) /\ s5[1] = first /\ s5[3] = third
    BY <1>5
  <2>2. FitFrom(RfTimeChecks(c), 1, 4)
    BY RfTimeChecksFit
  <2>. HIDE DEF first, third, s5
  <2>3. 34 \in 3 .. 38 /\ 38 = 34 + 4 /\ 4 \in Nat
    OBVIOUS
  <2>4. FitFrom(s5 \o RfTimeChecks(c), 2, 38)
        /\ (s5 \o RfTimeChecks(c))[1] = s5[1]
        /\ (s5 \o RfTimeChecks(c))[3] = s5[3]
    BY <2>1, <2>2, <2>3, Joined, Zenon
  <2>5. QED BY <2>1, <2>4 DEF s6
<1>7. FitFrom(s7, 2, 44) /\ s7[1] = first /\ s7[3] = third
  <2>1. FitFrom(s6, 2, 38) /\ s6[1] = first /\ s6[3] = third
    BY <1>6
  <2>2. FitFrom(FramingHistoryChecks(c), 1, 6)
    BY FramingHistoryChecksFit
  <2>. HIDE DEF first, third, s6
  <2>3. 38 \in 3 .. 44 /\ 44 = 38 + 6 /\ 6 \in Nat
    OBVIOUS
  <2>4. FitFrom(s6 \o FramingHistoryChecks(c), 2, 44)
        /\ (s6 \o FramingHistoryChecks(c))[1] = s6[1]
        /\ (s6 \o FramingHistoryChecks(c))[3] = s6[3]
    BY <2>1, <2>2, <2>3, Joined, Zenon
  <2>5. QED BY <2>1, <2>4 DEF s7
<1>8. FitFrom(s8, 2, 45) /\ s8[1] = first /\ s8[3] = third
  <2>1. FitFrom(s7, 2, 44) /\ s7[1] = first /\ s7[3] = third
    BY <1>7
  <2>2. FitFrom(ResolveChecks(c, k), 1, 1)
    BY ResolveChecksFit
  <2>. HIDE DEF first, third, s7
  <2>3. 44 \in 3 .. 45 /\ 45 = 44 + 1 /\ 1 \in Nat
    OBVIOUS
  <2>4. FitFrom(s7 \o ResolveChecks(c, k), 2, 45)
        /\ (s7 \o ResolveChecks(c, k))[1] = s7[1]
        /\ (s7 \o ResolveChecks(c, k))[3] = s7[3]
    BY <2>1, <2>2, <2>3, Joined, Zenon
  <2>5. QED BY <2>1, <2>4 DEF s8
<1>9. /\ first = Check(c["ingest"]["bind_addr"] = Garbled, "CG-122", "ingest", {"bind_addr"})
      /\ third = Check(Given(c) = {}, "CG-124", "station", Sources)
  BY DEF ParseChecks
<1>10. Checks(c, k) = s8
  BY DEF Checks
<1>11. QED BY <1>8, <1>9, <1>10 DEF FitFrom, List

-----------------------------------------------------------------------------
(* What loading a document says of its address. *)

LEMMA LeastExists ==
    ASSUME NEW S \in SUBSET Nat, S # {}
    PROVE  \E n \in S : \A k \in S : n <= k
<1>. DEFINE R == OpToRel(<, Nat)
<1>1. IsWellFoundedOn(R, Nat)
  BY NatLessThanWellFounded
<1>2. \A x, y \in Nat : x < y => <<x, y>> \in R
  BY DEF OpToRel
<1>. HIDE DEF R
<1>3. PICK n \in S : \A k \in S : <<k, n>> \notin R
  BY <1>1, WFMin
<1>4. \A k \in S : ~(k < n)
  BY <1>2, <1>3
<1>5. QED BY <1>4

LEMMA LeastNumber ==
    ASSUME NEW S \in SUBSET Nat, S # {}
    PROVE  Min(S) \in S
BY LeastExists DEF Min

LEMMA NoAddress == Garbled \notin Address /\ Mistyped \notin Address /\ Unset \notin Address
BY ValuesAssumption DEF Address

LEMMA LoadsAddress ==
    ASSUME NEW d, NEW k, DocOK(d), Loads(d, k)
    PROVE  Loaded(d, k)["ingest"]["bind_addr"] \in Address
<1>1. Addr("127.0.0.1", 7301) \in Address
  BY DefaultTables DEF Usable
<1>2. CASE k.config = "absent"
  BY <1>1, <1>2, AddressOfLoaded
<1>3. CASE k.config # "absent"
  <2>1. Misfits(d) = {} /\ Failing(Settings(d), k) = {}
    BY <1>3 DEF Loads
  <2>2. SetsAddress(d) => d["ingest"]["bind_addr"] # Mistyped
    <3>1. \A t \in DOMAIN d : \A x \in DOMAIN d[t] : Fits(t, x, d[t][x])
      <4>1. SUFFICES ASSUME NEW t \in DOMAIN d, NEW x \in DOMAIN d[t], ~Fits(t, x, d[t][x])
                     PROVE  <<t, x>> \in Misfits(d)
        BY <2>1
      <4>. DEFINE Row(u) == {<<u, y>> : y \in {y \in DOMAIN d[u] : ~Fits(u, y, d[u][y])}}
      <4>2. <<t, x>> \in Row(t)
        BY <4>1
      <4>3. Misfits(d) = UNION {Row(u) : u \in DOMAIN d}
        BY DEF Misfits
      <4>. HIDE DEF Row
      <4>4. QED BY <4>2, <4>3
    <3>2. SetsAddress(d) => Fits("ingest", "bind_addr", d["ingest"]["bind_addr"])
      BY <3>1 DEF SetsAddress
    <3>3. QED BY <3>2 DEF Fits, Short, Unsigned
  <2>3. Settings(d)["ingest"]["bind_addr"] # Garbled
    <3>1. 1 \in DOMAIN Checks(Settings(d), k)
          /\ Checks(Settings(d), k)[1].bad = (Settings(d)["ingest"]["bind_addr"] = Garbled)
      <4>1. Checks(Settings(d), k)[1].bad = (Settings(d)["ingest"]["bind_addr"] = Garbled)
        <5>. DEFINE b == Settings(d)["ingest"]["bind_addr"] = Garbled
        <5>1. Checks(Settings(d), k)[1] = Check(b, "CG-122", "ingest", {"bind_addr"})
          BY ChecksFit
        <5>. HIDE DEF b
        <5>2. Checks(Settings(d), k)[1].bad = b
          BY <5>1 DEF Check
        <5>3. QED BY <5>2 DEF b
      <4>2. QED BY <4>1, ChecksFit
    <3>2. QED BY <3>1, <2>1 DEF Failing
  <2>4. QED BY <1>1, <1>3, <2>2, <2>3, AddressOfSettings, AddressOfLoaded DEF DocOK, AddressIn
<1>4. QED BY <1>2, <1>3

\* What a refused document says of its address, if anything, is that it is not
\* usable, or that it is not there.
Speaks(p, d, a) ==
    AboutAddress(p) => ~Usable(a) \/ (p.code = "CG-121" /\ ~SetsAddress(d))

LEMMA TomlSpeaks ==
    ASSUME NEW d, NEW line \in Misfits(d) \cup Missing(d)
    PROVE  TomlProblem(line).code = "CG-121" /\ Speaks(TomlProblem(line), d, AddressIn(d))
<1>1. TomlProblem(line).code = "CG-121"
  BY DEF TomlProblem
<1>2. ASSUME AboutAddress(TomlProblem(line))
      PROVE  line[1] = "ingest" /\ line[2] = "bind_addr"
  BY <1>2 DEF AboutAddress, TomlProblem
<1>3. ASSUME line \in Missing(d), AboutAddress(TomlProblem(line))
      PROVE  ~SetsAddress(d)
  <2>1. PICK t \in DOMAIN d : \E k \in Required[t] \ DOMAIN d[t] : line = <<t, k>>
    BY <1>3 DEF Missing
  <2>2. QED BY <1>2, <1>3, <2>1 DEF SetsAddress
<1>4. ASSUME line \in Misfits(d), AboutAddress(TomlProblem(line))
      PROVE  ~Usable(AddressIn(d))
  <2>1. PICK t \in DOMAIN d : \E k \in DOMAIN d[t] : ~Fits(t, k, d[t][k]) /\ line = <<t, k>>
    BY <1>4 DEF Misfits
  <2>2. SetsAddress(d) /\ ~Fits("ingest", "bind_addr", d["ingest"]["bind_addr"])
    BY <1>2, <1>4, <2>1 DEF SetsAddress
  <2>3. d["ingest"]["bind_addr"] = Mistyped
    BY <2>2, DefaultTables DEF Fits, Short, Unsigned
  <2>4. QED BY <2>2, <2>3, NoAddress DEF AddressIn, Usable
<1>5. QED BY <1>1, <1>3, <1>4 DEF Speaks

LEMMA ChecksSpeak ==
    ASSUME NEW d, NEW k, NEW n \in Failing(Settings(d), k)
    PROVE  LET p == Checks(Settings(d), k)[n].problem IN
           p.code \notin {"CG-120", "CG-201"} /\ Speaks(p, d, AddressIn(d))
<1>. DEFINE all == Checks(Settings(d), k)
<1>1. n \in 1 .. 45 /\ all[n].bad
  BY ChecksFit DEF Failing
<1>2. CASE n = 1
  <2>1. all[1] = Check(AddressIn(d) = Garbled, "CG-122", "ingest", {"bind_addr"})
    BY ChecksFit, AddressOfSettings
  <2>2. all[1].bad = (AddressIn(d) = Garbled) /\ all[1].problem.code = "CG-122"
    BY <2>1 DEF Check
  <2>3. QED BY <1>1, <1>2, <2>2, NoAddress DEF Speaks, Usable
<1>3. CASE n \in 2 .. 45
  <2>1. Fit(all[n])
    BY <1>3, ChecksFit
  <2>2. QED BY <2>1 DEF Fit, Speaks
<1>4. QED BY <1>1, <1>2, <1>3

LEMMA LoadSpeaks ==
    ASSUME NEW d, NEW k, ~Loads(d, k)
    PROVE  LET p == LoadProblem(d, k) IN
           /\ k.config # "absent"
           /\ p.code # "CG-201"
           /\ Speaks(p, d, Loaded(d, k)["ingest"]["bind_addr"])
<1>. DEFINE p == LoadProblem(d, k)
<1>1. k.config # "absent" /\ Loaded(d, k)["ingest"]["bind_addr"] = AddressIn(d)
  BY AddressOfLoaded DEF Loads
<1>2. CASE k.config # "ok"
  <2>1. p = FileProblem
    BY <1>2 DEF LoadProblem
  <2>2. QED BY <1>1, <2>1 DEF FileProblem, Speaks, AboutAddress
<1>3. CASE k.config = "ok" /\ Misfits(d) \cup Missing(d) # {}
  <2>1. PICK line \in Misfits(d) \cup Missing(d) : p = TomlProblem(line)
    BY <1>3 DEF LoadProblem
  <2>2. QED BY <1>1, <2>1, TomlSpeaks
<1>4. CASE k.config = "ok" /\ Misfits(d) \cup Missing(d) = {}
  <2>1. Failing(Settings(d), k) # {} /\ Failing(Settings(d), k) \subseteq Nat
    BY <1>4, ChecksFit DEF Loads, Failing
  <2>2. Min(Failing(Settings(d), k)) \in Failing(Settings(d), k)
    BY <2>1, LeastNumber
  <2>3. p = Checks(Settings(d), k)[Min(Failing(Settings(d), k))].problem
    BY <1>4 DEF LoadProblem
  <2>4. QED BY <1>1, <2>2, <2>3, ChecksSpeak
<1>5. QED BY <1>2, <1>3, <1>4

-----------------------------------------------------------------------------
(* What binding says of it. *)

\* The ports any process may bind, 0 among them, and the addresses.
LEMMA FreeToAnyone ==
    ASSUME NEW n \in Nat
    PROVE  n \notin 1 .. 1023 <=> (n = 0 \/ n >= 1024)
OBVIOUS

LEMMA UsableAre ==
    ASSUME NEW a
    PROVE  Usable(a) <=> /\ a \in Address /\ a.ip \in {"127.0.0.1", "0.0.0.0"}
                         /\ a.port \notin 1 .. 1023
<1>1. CASE a \in Address
  <2>. DEFINE n == a.port
  <2>1. n \in Nat
    BY <1>1 DEF Address
  <2>2. Usable(a) <=> a.ip \in {"127.0.0.1", "0.0.0.0"} /\ (n = 0 \/ n >= 1024)
    BY <1>1 DEF Usable
  <2>. HIDE DEF n
  <2>3. n \notin 1 .. 1023 <=> (n = 0 \/ n >= 1024)
    BY <2>1, FreeToAnyone
  <2>4. Usable(a) <=> a.ip \in {"127.0.0.1", "0.0.0.0"} /\ n \notin 1 .. 1023
    BY <2>2, <2>3
  <2>5. QED BY <1>1, <2>4 DEF n
<1>2. CASE a \notin Address
  BY <1>2 DEF Usable
<1>3. QED BY <1>1, <1>2

LEMMA BindUdp ==
    ASSUME NEW c, NEW bound
    PROVE  LET a == c["ingest"]["bind_addr"] IN
           /\ AddressOf(c, "udp") = a
           /\ Binds(c, "udp", bound) /\ a \in Address => Usable(a) /\ a.port \notin bound \ {0}
<1>1. AddressOf(c, "udp") = c["ingest"]["bind_addr"]
  BY DEF AddressOf, TableOf, KeyOf
<1>2. ASSUME NEW a \in Address, BindCode(a, bound) = "none"
      PROVE  Usable(a) /\ a.port \notin bound \ {0}
  <2>1. a # Unset
    BY NoAddress
  <2>2. a.ip \in {"127.0.0.1", "0.0.0.0"} /\ a.port \notin 1 .. 1023 /\ a.port \notin bound \ {0}
    BY <1>2, <2>1 DEF BindCode
  <2>3. QED BY <2>2, UsableAre
<1>3. QED BY <1>1, <1>2 DEF Binds

LEMMA BindSpeaks ==
    ASSUME NEW c, NEW l \in Listener, NEW bound, ~Binds(c, l, bound)
    PROVE  LET p == BindProblem(c, l, bound)
               a == c["ingest"]["bind_addr"]
           IN /\ p.code \in {"CG-201", "CG-202", "CG-203"}
              /\ p.keys = {p.key}
              /\ p.code = "CG-201" => AddressOf(c, l).port \in bound \ {0}
              /\ AboutAddress(p) =>
                    /\ l = "udp"
                    /\ a \in Address => IF p.code = "CG-201" THEN Fixed(a) /\ p.addr = a
                                       ELSE ~Usable(a)
<1>1. LET p == BindProblem(c, l, bound) IN
      /\ p.code = BindCode(AddressOf(c, l), bound) /\ p.table = TableOf[l]
      /\ p.keys = {KeyOf[l]} /\ p.key = KeyOf[l] /\ p.addr = AddressOf(c, l)
  BY DEF BindProblem
<1>2. /\ BindCode(AddressOf(c, l), bound) \in {"CG-201", "CG-202", "CG-203"}
      /\ BindCode(AddressOf(c, l), bound) = "CG-201" => AddressOf(c, l).port \in bound \ {0}
      /\ BindCode(AddressOf(c, l), bound) # "CG-201" => ~Usable(AddressOf(c, l))
      /\ BindCode(AddressOf(c, l), bound) = "CG-201" /\ AddressOf(c, l) \in Address =>
            Fixed(AddressOf(c, l))
  <2>1. ASSUME NEW a, BindCode(a, bound) # "none"
        PROVE  /\ BindCode(a, bound) \in {"CG-201", "CG-202", "CG-203"}
               /\ BindCode(a, bound) = "CG-201" =>
                     /\ a.ip \in {"127.0.0.1", "0.0.0.0"}
                     /\ a.port \notin 1 .. 1023 /\ a.port \in bound \ {0}
               /\ BindCode(a, bound) # "CG-201" =>
                     a.ip \notin {"127.0.0.1", "0.0.0.0"} \/ a.port \in 1 .. 1023
    <3>1. CASE a.ip \notin {"127.0.0.1", "0.0.0.0"}
      <4>1. BindCode(a, bound) = "CG-203"
        BY <2>1, <3>1 DEF BindCode
      <4>2. QED BY <3>1, <4>1
    <3>2. CASE a.ip \in {"127.0.0.1", "0.0.0.0"} /\ a.port \in 1 .. 1023
      <4>1. BindCode(a, bound) = "CG-202"
        BY <2>1, <3>2 DEF BindCode
      <4>2. QED BY <3>2, <4>1
    <3>3. CASE a.ip \in {"127.0.0.1", "0.0.0.0"} /\ a.port \notin 1 .. 1023
      <4>1. BindCode(a, bound) = "CG-201" /\ a.port \in bound \ {0}
        BY <2>1, <3>3 DEF BindCode
      <4>2. QED BY <3>3, <4>1
    <3>4. QED BY <3>1, <3>2, <3>3
  <2>2. ASSUME NEW a, a.ip \notin {"127.0.0.1", "0.0.0.0"} \/ a.port \in 1 .. 1023
        PROVE  ~Usable(a)
    BY <2>2, UsableAre
  <2>3. ASSUME NEW a \in Address, a.ip \in {"127.0.0.1", "0.0.0.0"},
               a.port \notin 1 .. 1023, a.port # 0
        PROVE  Fixed(a)
    BY <2>3, UsableAre DEF Fixed
  <2>4. BindCode(AddressOf(c, l), bound) # "none"
    BY DEF Binds
  <2>. HIDE DEF BindCode, AddressOf
  <2>5. QED BY <2>1, <2>2, <2>3, <2>4
<1>3. TableOf[l] = "ingest" /\ KeyOf[l] = "bind_addr" => l = "udp"
  BY DEF TableOf, KeyOf, Listener
<1>4. QED BY <1>1, <1>2, <1>3, BindUdp DEF AboutAddress

-----------------------------------------------------------------------------
(* What following the advice does to the address. *)

LEMMA Ways ==
    ASSUME NEW p, NEW way \in FirstFix(p)
    PROVE  \/ way.op = "repair" /\ way.table \in {"tle", "folder", "port"}
           \/ way.op = "repair" /\ way.table = "config" /\ p.code = "CG-120"
           \/ way.op = "keep" /\ way.table = "station"
           \/ way.op = "set" /\ way.table = p.table /\ way.keys \subseteq Sources
           \/ way.op \in {"set", "delete"} /\ way.table = p.table /\ way.keys = p.keys
           \/ p.code = "CG-201" /\ way = PickNext(p)
BY DEF FirstFix, SetOrDelete, OtherFix, Set, Delete, Keep, Repair, Sources

\* The address is given as before.
SameAddress(d, e) ==
    /\ SetsAddress(e) <=> SetsAddress(d)
    /\ SetsAddress(d) => e["ingest"]["bind_addr"] = d["ingest"]["bind_addr"]

LEMMA OverValues ==
    ASSUME NEW f, NEW g, NEW x
    PROVE  /\ x \in DOMAIN Over(f, g) <=> x \in DOMAIN f \/ x \in DOMAIN g
           /\ x \in DOMAIN f => Over(f, g)[x] = f[x]
           /\ x \in DOMAIN g /\ x \notin DOMAIN f => Over(f, g)[x] = g[x]
BY DEF Over

LEMMA EditedElsewhere ==
    ASSUME NEW d, NEW way, way.table # "ingest"
    PROVE  SameAddress(d, Edited(d, way))
<1>1. PICK new : Edited(d, way) = Over(Single(way.table, new), d)
  BY DEF Edited
<1>2. "ingest" \notin DOMAIN Single(way.table, new)
  BY DEF Single
<1>3. QED BY <1>1, <1>2, OverValues DEF SameAddress, SetsAddress

LEMMA EditedIngest ==
    ASSUME NEW d, NEW way, way.table = "ingest", way.op \in {"set", "delete", "next"}
    PROVE  LET e == Edited(d, way) IN
           /\ way.op \in {"set", "delete"} /\ "bind_addr" \notin way.keys => SameAddress(d, e)
           /\ way.op = "next" /\ way.key # "bind_addr" => SameAddress(d, e)
           /\ way.op = "set" /\ "bind_addr" \in way.keys =>
                 SetsAddress(e) /\ e["ingest"]["bind_addr"] = Addr("127.0.0.1", 7301)
           /\ way.op = "delete" /\ "bind_addr" \in way.keys => ~SetsAddress(e)
           /\ way.op = "next" /\ way.key = "bind_addr" =>
                 SetsAddress(e) /\ e["ingest"]["bind_addr"] = NextPort(way.addr)
<1>. DEFINE table == IF "ingest" \in DOMAIN d THEN d["ingest"] ELSE <<>>
            new == CASE way.op = "set" -> With("ingest", table, way.keys)
                     [] way.op = "delete" -> Without(table, way.keys)
                     [] way.op = "keep" -> Without(table, Sources \ way.keys)
                     [] way.op = "next" -> Over(Single(way.key, NextPort(way.addr)), table)
            e == Edited(d, way)
<1>1. e = Over(Single("ingest", new), d)
  BY DEF Edited
<1>2. "ingest" \in DOMAIN e /\ e["ingest"] = new
  <2>. HIDE DEF new
  <2>1. "ingest" \in DOMAIN Single("ingest", new) /\ Single("ingest", new)["ingest"] = new
    BY DEF Single
  <2>2. QED BY <1>1, <2>1, OverValues
<1>3. /\ SetsAddress(d) <=> "bind_addr" \in DOMAIN table
      /\ SetsAddress(d) => table["bind_addr"] = d["ingest"]["bind_addr"]
  <2>1. "bind_addr" \notin DOMAIN <<>>
    OBVIOUS
  <2>2. QED BY <2>1 DEF SetsAddress
<1>4. SetsAddress(e) <=> "bind_addr" \in DOMAIN new
  BY <1>2 DEF SetsAddress
<1>5. CASE way.op = "set"
  <2>1. new = Over([x \in way.keys |-> Offered("ingest", x)], table)
    BY <1>5 DEF With
  <2>2. Offered("ingest", "bind_addr") = Addr("127.0.0.1", 7301)
    BY DefaultTables DEF Offered
  <2>. HIDE DEF new, table
  <2>3. QED BY <1>2, <1>3, <1>4, <1>5, <2>1, <2>2, OverValues DEF SameAddress
<1>6. CASE way.op = "delete"
  <2>1. new = [x \in DOMAIN table \ way.keys |-> table[x]]
    BY <1>6 DEF Without
  <2>. HIDE DEF new, table
  <2>2. QED BY <1>2, <1>3, <1>4, <1>6, <2>1 DEF SameAddress
<1>7. CASE way.op = "next"
  <2>1. new = Over(Single(way.key, NextPort(way.addr)), table)
    BY <1>7
  <2>. DEFINE one == Single(way.key, NextPort(way.addr))
  <2>2. DOMAIN one = {way.key} /\ one[way.key] = NextPort(way.addr)
    BY DEF Single
  <2>. HIDE DEF new, table, one
  <2>3. QED BY <1>2, <1>3, <1>4, <1>7, <2>1, <2>2, OverValues DEF SameAddress, one
<1>8. QED BY <1>5, <1>6, <1>7

LEMMA MendedDisk ==
    ASSUME NEW d, NEW k, NEW p, NEW way \in FirstFix(p), "config" \in DOMAIN k,
           p.code = "CG-120" => k.config # "absent"
    PROVE  LET after == Mended([doc |-> d, disk |-> k], way).disk IN
           "config" \in DOMAIN after /\ (after.config = "absent" <=> k.config = "absent")
<1>. DEFINE after == Mended([doc |-> d, disk |-> k], way).disk
<1>1. CASE way.op # "repair"
  <2>1. after = k
    BY <1>1 DEF Mended
  <2>2. QED BY <2>1
<1>2. CASE way.op = "repair"
  <2>1. after = RepairedDisk(k, way.table)
    BY <1>2 DEF Mended
  <2>2. way.table \in {"tle", "folder", "port", "config"} /\ (way.table = "config" => p.code = "CG-120")
    BY <1>2, Ways DEF PickNext
  <2>3. QED BY <2>1, <2>2 DEF RepairedDisk
<1>3. QED BY <1>1, <1>2

LEMMA MendedAddress ==
    ASSUME NEW d, NEW k, NEW p, NEW way \in FirstFix(p),
           p.code = "CG-201" => p.keys = {p.key}
    PROVE  LET e == Mended([doc |-> d, disk |-> k], way).doc IN
           \/ SameAddress(d, e)
           \/ /\ AboutAddress(p) /\ p.code # "CG-201"
              /\ AddressIn(e) = Addr("127.0.0.1", 7301)
           \/ /\ AboutAddress(p) /\ p.code = "CG-201"
              /\ SetsAddress(e) /\ AddressIn(e) = NextPort(p.addr)
<1>. DEFINE e == Mended([doc |-> d, disk |-> k], way).doc
<1>1. CASE way.op = "repair"
  <2>1. e = d
    BY <1>1 DEF Mended
  <2>2. QED BY <2>1 DEF SameAddress
<1>2. CASE way.op # "repair"
  <2>1. e = Edited(d, way)
    BY <1>2 DEF Mended
  <2>2. CASE way.table # "ingest"
    BY <2>1, <2>2, EditedElsewhere
  <2>3. CASE way.table = "ingest"
    <3>1. CASE way.op \in {"set", "delete"} /\ way.table = p.table /\ way.keys = p.keys /\ p.code # "CG-201"
      BY <2>1, <2>3, <3>1, EditedIngest DEF AboutAddress, AddressIn
    <3>2. CASE p.code = "CG-201" /\ way = PickNext(p)
      <4>1. way.op = "next" /\ way.table = p.table /\ way.key = p.key /\ way.addr = p.addr
        BY <3>2 DEF PickNext
      <4>2. QED BY <2>1, <2>3, <3>2, <4>1, EditedIngest DEF AboutAddress, AddressIn
    <3>3. way.op \in {"set", "delete"} => p.code # "CG-201"
      BY DEF FirstFix, SetOrDelete, OtherFix, Repair, PickNext
    <3>4. CASE way.op = "set" /\ way.keys \subseteq Sources
      <4>1. "bind_addr" \notin way.keys
        BY <3>4 DEF Sources
      <4>2. QED BY <2>1, <2>3, <3>4, <4>1, EditedIngest
    <3>5. QED BY <1>2, <2>3, <3>1, <3>2, <3>3, <3>4, Ways
  <2>4. QED BY <2>2, <2>3
<1>3. QED BY <1>1, <1>2

-----------------------------------------------------------------------------
(* What an action leaves as it is. *)

LEMMA AddressInState ==
    ASSUME NEW i \in Inst
    PROVE  IngestAddr(i) = IF disk.config = "absent" THEN Addr("127.0.0.1", 7301)
                           ELSE AddressIn(doc[i])
BY AddressOfLoaded DEF IngestAddr, Config

AddressesKept == \A i \in Inst : IngestAddr(i)' = IngestAddr(i)

LEMMA KeepsAddresses ==
    ASSUME doc' = doc, disk'.config = disk.config
    PROVE  AddressesKept
<1>1. SUFFICES ASSUME NEW i \in Inst
               PROVE  IngestAddr(i)' = IngestAddr(i)
  BY DEF AddressesKept
<1>2. IngestAddr(i)' = IF disk'.config = "absent" THEN Addr("127.0.0.1", 7301)
                       ELSE AddressIn(doc'[i])
  BY AddressOfLoaded DEF IngestAddr, Config
<1>3. QED BY <1>2, AddressInState

LEMMA GoodPort ==
    ASSUME NEW i \in Inst, Good(i)
    PROVE  IngestAddr(i) \in Address /\ Port(i) \in Nat
BY DEF Good, Usable, Address, Port

LEMMA SameGood ==
    ASSUME NEW i \in Inst, IngestAddr(i)' = IngestAddr(i)
    PROVE  (Good(i)' <=> Good(i)) /\ Port(i)' = Port(i)
BY DEF Good, Port

\* A copy that takes no part.
Idle(j) ==
    /\ stage'[j] = stage[j] /\ holds'[j] = holds[j] /\ problem'[j] = problem[j]
    /\ SetsAddress(doc'[j]) <=> SetsAddress(doc[j])
    /\ IngestAddr(j)' = IngestAddr(j)

LEMMA IdleKeeps ==
    ASSUME NEW j \in Inst, Sockets(j), Mendable(j), Idle(j),
           disk'.config = "absent" <=> disk.config = "absent"
    PROVE  Sockets(j)' /\ Mendable(j)'
<1>1. Good(j)' <=> Good(j)
  BY SameGood DEF Idle
<1>2. Port(j)' = Port(j)
  BY SameGood DEF Idle
<1>3. Sockets(j)'
  BY <1>1, <1>2 DEF Sockets, Idle
<1>4. Mendable(j)'
  BY <1>1 DEF Mendable, Idle, At
<1>5. QED BY <1>3, <1>4

LEMMA FewerSockets ==
    ASSUME OnePerPort, \A j \in Inst : holds'[j] \subseteq holds[j]
    PROVE  OnePerPort'
BY DEF OnePerPort, Udp

\* Nobody moves, nothing is bound, and nobody is refused for its port.
Settled ==
    /\ AddressesKept
    /\ \A j \in Inst : holds'[j] \subseteq holds[j]
    /\ \A j \in Inst : Leaving(j)' => Leaving(j)
    /\ \A j \in Inst : Stale(j)' => Stale(j)

LEMMA AboveKept ==
    ASSUME NEW i \in Inst, AddressesKept, Above(i)
    PROVE  Above(i)'
BY SameGood DEF AddressesKept, Above

LEMMA SettledKeeps ==
    ASSUME Displaced, Settled
    PROVE  Displaced'
<1>1. SUFFICES ASSUME NEW i \in Inst, Stale(i)', Port(i)' # 0
               PROVE  Above(i)' \/ Below(i)'
  BY DEF Displaced
<1>2. Stale(i) /\ Port(i) # 0
  BY <1>1, SameGood DEF Settled, AddressesKept
<1>3. CASE Above(i)
  BY <1>3, AboveKept DEF Settled
<1>4. CASE Below(i)
  <2>1. PICK q \in Nat : q < Port(i) /\ Free(i, q) /\ \E j \in Inst : Stays(j, q)
    BY <1>4 DEF Below
  <2>2. \A j \in Inst : (Good(j)' <=> Good(j)) /\ Port(j)' = Port(j)
    BY SameGood DEF Settled, AddressesKept
  <2>3. Free(i, q)'
    BY <2>1, <2>2 DEF Free, Settled, Udp
  <2>4. \E j \in Inst : Stays(j, q)'
    BY <2>1, <2>2 DEF Stays, Settled
  <2>5. QED BY <2>1, <2>2, <2>3, <2>4 DEF Below
<1>5. QED BY <1>2, <1>3, <1>4 DEF Displaced

LEMMA FilesKept ==
    ASSUME Files, doc' = doc, disk' = disk
    PROVE  Files'
BY DEF Files

\* A step of one copy in which none moves, binds, is refused for its port or has
\* its file taken.
LEMMA QuietStep ==
    ASSUME StInv, NEW i \in Inst, doc' = doc, disk' = disk,
           OfCopies(stage'), OfCopies(problem'), OfCopies(holds'), OfCopies(handle'),
           \A j \in Inst \ {i} : stage'[j] = stage[j] /\ holds'[j] = holds[j] /\ problem'[j] = problem[j],
           holds'[i] \subseteq holds[i], Leaving(i)' => Leaving(i),
           \A j \in Inst : Stale(j)' => Stale(j),
           Sockets(i)', Mendable(i)'
    PROVE  StInv'
<1>1. AddressesKept
  BY KeepsAddresses
<1>2. \A j \in Inst \ {i} : Idle(j)
  BY <1>1 DEF Idle, AddressesKept
<1>3. \A j \in Inst : Sockets(j)' /\ Mendable(j)'
  BY <1>2, IdleKeeps DEF StInv
<1>4. Settled
  BY <1>1 DEF Settled, Leaving, At
<1>5. Displaced' /\ OnePerPort'
  BY <1>4, SettledKeeps, FewerSockets DEF StInv, Settled
<1>6. Files' /\ PerCopy'
  BY FilesKept DEF StInv, PerCopy, OfCopies
<1>7. QED BY <1>3, <1>5, <1>6 DEF StInv

LEMMA BeginStep ==
    ASSUME StInv, NEW i \in Inst, Begin(i)
    PROVE  StInv'
<1>1. Sockets(i) /\ PerCopy /\ IngestAddr(i)' = IngestAddr(i)
  BY KeepsAddresses DEF StInv, Begin, AddressesKept
<1>2. /\ stage'[i] = "load" /\ OfCopies(stage') /\ \A j \in Inst \ {i} : stage'[j] = stage[j]
      /\ UNCHANGED <<doc, disk, problem, holds, handle, file>>
  BY <1>1 DEF Begin, PerCopy, OfCopies
<1>3. Sockets(i)'
  BY <1>1, <1>2, SameGood DEF Sockets, Begin, At, Quiet, Up
<1>4. Mendable(i)' /\ (Leaving(i)' => Leaving(i)) /\ \A j \in Inst : Stale(j)' => Stale(j)
  BY <1>2 DEF Mendable, Leaving, Stale, At
<1>5. QED BY <1>1, <1>2, <1>3, <1>4, QuietStep DEF PerCopy, OfCopies

\* A copy goes on to where it has the same sockets.
LEMMA ProceedStep ==
    ASSUME StInv, NEW i \in Inst, stage[i] \in {"load", "track", "fresh"}, Proceed(i),
           UNCHANGED <<doc, disk, problem, holds, handle, file>>,
           stage[i] = "load" => IngestAddr(i) \in Address
    PROVE  StInv'
<1>1. Sockets(i) /\ PerCopy /\ IngestAddr(i)' = IngestAddr(i)
  BY KeepsAddresses DEF StInv, AddressesKept
<1>2. /\ stage'[i] = IF stage[i] = "load" THEN "udp" ELSE IF stage[i] = "track" THEN "fresh" ELSE "rf"
      /\ OfCopies(stage') /\ \A j \in Inst \ {i} : stage'[j] = stage[j]
  BY <1>1 DEF Proceed, Following, PerCopy, OfCopies
<1>3. Sockets(i)'
  BY <1>1, <1>2, SameGood DEF Sockets, At, Quiet, Up
<1>4. Mendable(i)' /\ (Leaving(i)' => Leaving(i)) /\ \A j \in Inst : Stale(j)' => Stale(j)
  BY <1>2 DEF Mendable, Leaving, Stale, At
<1>5. QED BY <1>1, <1>2, <1>3, <1>4, QuietStep DEF PerCopy, OfCopies

\* A copy stops with a problem that is not that its UDP port is taken.
LEMMA RefuseStep ==
    ASSUME StInv, NEW i \in Inst, NEW p, Refuse(i, p), doc' = doc, disk' = disk,
           p.code = "CG-120" => disk.config # "absent",
           p.code = "CG-201" => p.keys = {p.key} /\ ~AboutAddress(p),
           AboutAddress(p) => ~Good(i) \/ (p.code = "CG-121" /\ ~SetsAddress(doc[i]))
    PROVE  StInv'
<1>1. Sockets(i) /\ PerCopy /\ IngestAddr(i)' = IngestAddr(i)
  BY KeepsAddresses DEF StInv, AddressesKept
<1>2. /\ stage'[i] = "refused" /\ problem'[i] = p /\ holds'[i] = {}
      /\ \A j \in Inst \ {i} : stage'[j] = stage[j] /\ holds'[j] = holds[j] /\ problem'[j] = problem[j]
      /\ OfCopies(stage') /\ OfCopies(problem') /\ OfCopies(holds')
      /\ UNCHANGED <<handle, file>>
  BY <1>1 DEF Refuse, PerCopy, OfCopies
<1>3. Sockets(i)'
  BY <1>1, <1>2, SameGood DEF Sockets, Quiet, Up
<1>4. Mendable(i)'
  BY <1>1, <1>2, SameGood DEF Mendable, At
<1>5. ~Leaving(i)' /\ \A j \in Inst : Stale(j)' => Stale(j)
  BY <1>2 DEF Leaving, Stale, At
<1>6. QED BY <1>1, <1>2, <1>3, <1>4, <1>5, QuietStep DEF PerCopy, OfCopies

LEMMA LoadStep ==
    ASSUME StInv, NEW i \in Inst, Load(i)
    PROVE  StInv'
<1>1. CASE Loads(doc[i], disk) /\ Proceed(i) /\ UNCHANGED <<problem, orbit, holds, handle, file>>
  <2>1. IngestAddr(i) \in Address
    BY <1>1, LoadsAddress DEF IngestAddr, Config, StInv, Files
  <2>2. QED BY <1>1, <2>1, ProceedStep DEF Load, At
<1>2. CASE ~Loads(doc[i], disk) /\ Refuse(i, LoadProblem(doc[i], disk))
  BY <1>2, LoadSpeaks, RefuseStep DEF Load, Speaks, IngestAddr, Config, Good
<1>3. QED BY <1>1, <1>2 DEF Load

LEMMA TrackStep ==
    ASSUME StInv, NEW i \in Inst, Track(i) \/ Freshen(i)
    PROVE  StInv'
BY ProceedStep DEF Track, Freshen, At

LEMMA StopStep ==
    ASSUME StInv, NEW i \in Inst, Stop(i)
    PROVE  StInv'
<1>1. Sockets(i) /\ PerCopy /\ IngestAddr(i)' = IngestAddr(i)
  BY KeepsAddresses DEF StInv, Stop, AddressesKept
<1>2. /\ stage'[i] = "draining" /\ OfCopies(stage') /\ \A j \in Inst \ {i} : stage'[j] = stage[j]
      /\ UNCHANGED <<doc, disk, problem, holds, handle, file>>
  BY <1>1 DEF Stop, PerCopy, OfCopies
<1>3. Sockets(i)'
  BY <1>1, <1>2, SameGood DEF Sockets, Quiet, Up
<1>4. Mendable(i)' /\ (Leaving(i)' => Leaving(i)) /\ \A j \in Inst : Stale(j)' => Stale(j)
  BY <1>2 DEF Mendable, Leaving, Stale, At
<1>5. QED BY <1>1, <1>2, <1>3, <1>4, QuietStep DEF PerCopy, OfCopies

LEMMA ReleaseStep ==
    ASSUME StInv, NEW i \in Inst, Release(i)
    PROVE  StInv'
<1>1. Sockets(i) /\ PerCopy /\ IngestAddr(i)' = IngestAddr(i)
  BY KeepsAddresses DEF StInv, Release, AddressesKept
<1>2. /\ holds'[i] \subseteq holds[i] /\ OfCopies(holds') /\ \A j \in Inst \ {i} : holds'[j] = holds[j]
      /\ UNCHANGED <<doc, disk, stage, problem, handle, file>>
  BY <1>1 DEF Release, PerCopy, OfCopies
<1>3. Sockets(i)'
  BY <1>1, <1>2, SameGood DEF Sockets, Release, Quiet, Up
<1>4. (Leaving(i)' => Leaving(i)) /\ \A j \in Inst : Stale(j)' => Stale(j)
  BY <1>2 DEF Leaving, Stale, At
<1>5. Mendable(i)'
  BY <1>2 DEF Mendable, Release, At
<1>6. QED BY <1>1, <1>2, <1>3, <1>4, <1>5, QuietStep DEF PerCopy, OfCopies

LEMMA CloseHistoryStep ==
    ASSUME StInv, NEW i \in Inst, CloseHistory(i)
    PROVE  StInv'
<1>1. Sockets(i) /\ PerCopy /\ IngestAddr(i)' = IngestAddr(i)
  BY KeepsAddresses DEF StInv, CloseHistory, AddressesKept
<1>2. /\ stage'[i] = "closed" /\ OfCopies(stage') /\ \A j \in Inst \ {i} : stage'[j] = stage[j]
      /\ OfCopies(handle') /\ \A j \in Inst \ {i} : handle'[j] = handle[j]
      /\ UNCHANGED <<doc, disk, problem, holds, file>>
  BY <1>1 DEF CloseHistory, PerCopy, OfCopies
<1>3. Sockets(i)'
  BY <1>1, <1>2, SameGood DEF Sockets, CloseHistory, Holding, Quiet, Up, Listener
<1>4. Mendable(i)' /\ (Leaving(i)' => Leaving(i)) /\ \A j \in Inst : Stale(j)' => Stale(j)
  BY <1>2 DEF Mendable, Leaving, Stale, At
<1>5. QED BY <1>1, <1>2, <1>3, <1>4, QuietStep DEF PerCopy, OfCopies

LEMMA ExitStep ==
    ASSUME StInv, NEW i \in Inst, Exit(i)
    PROVE  StInv'
<1>1. Sockets(i) /\ PerCopy /\ IngestAddr(i)' = IngestAddr(i)
  BY KeepsAddresses DEF StInv, Exit, AddressesKept
<1>2. /\ stage'[i] = "off" /\ OfCopies(stage') /\ \A j \in Inst \ {i} : stage'[j] = stage[j]
      /\ UNCHANGED <<doc, disk, problem, holds, handle, file>>
  BY <1>1 DEF Exit, PerCopy, OfCopies
<1>3. holds[i] = {}
  BY <1>1 DEF Sockets, Exit, At, Holding
<1>4. Sockets(i)'
  BY <1>1, <1>2, <1>3, SameGood DEF Sockets, Quiet, Up
<1>5. Mendable(i)' /\ (Leaving(i)' => Leaving(i)) /\ \A j \in Inst : Stale(j)' => Stale(j)
  BY <1>2 DEF Mendable, Leaving, Stale, At
<1>6. QED BY <1>1, <1>2, <1>4, <1>5, QuietStep DEF PerCopy, OfCopies

-----------------------------------------------------------------------------
(* Binding. *)

\* A UDP port is free of other copies' sockets when it is bound.
LEMMA BoundPorts ==
    ASSUME NEW j \in Inst, NEW s \in holds[j], Udp(s), NEW l \in {"udp", "rf"}
    PROVE  s.port \in Bound(l)
<1>1. s \in UNION {holds[k] : k \in Inst}
  OBVIOUS
<1>2. Protocol(l) = "udp"
  BY DEF Protocol
<1>3. s \in {x \in UNION {holds[k] : k \in Inst} : Protocol(x.listener) = Protocol(l)}
  BY <1>1, <1>2 DEF Udp
<1>4. QED BY <1>3 DEF Bound

\* Whoever has a port has it as its own or stands on another.
LEMMA BoundByOne ==
    ASSUME NEW l \in {"udp", "rf"}, NEW n \in Bound(l)
    PROVE  \E j \in Inst : \E s \in holds[j] : Udp(s) /\ s.port = n
<1>1. Protocol(l) = "udp"
  BY DEF Protocol
<1>2. QED BY <1>1 DEF Bound, Udp

BindsPort(i, l) ==
    /\ At(i, l) /\ Binds(Config(i), l, Bound(l)) /\ Proceed(i)
    /\ \/ AddressOf(Config(i), l) = Unset /\ holds' = [holds EXCEPT ![i] = @ \cup {}]
       \/ /\ AddressOf(Config(i), l) # Unset
          /\ holds' = [holds EXCEPT ![i] = @ \cup
                         {[listener |-> l, port |-> AddressOf(Config(i), l).port]}]
    /\ UNCHANGED <<doc, disk, problem, handle, file>>

LEMMA BindsPortFacts ==
    ASSUME StInv, NEW i \in Inst, NEW l \in Listener, BindsPort(i, l)
    PROVE  /\ AddressesKept /\ OfCopies(stage') /\ OfCopies(holds')
           /\ stage[i] = l
           /\ stage'[i] = IF l = "udp" THEN "track" ELSE IF l = "rf" THEN "http" ELSE "history"
           /\ \A j \in Inst \ {i} : stage'[j] = stage[j] /\ holds'[j] = holds[j]
           /\ holds[i] \subseteq holds'[i]
           /\ \A s \in holds'[i] \ holds[i] :
                 s.listener = l /\ (l \in {"udp", "rf"} => s.port \notin Bound(l) \ {0})
           /\ l = "udp" => Good(i) /\ \E s \in holds'[i] : s.listener = "udp" /\ s.port = Port(i)
<1>1. PerCopy /\ AddressesKept
  BY KeepsAddresses DEF StInv, BindsPort
<1>2. /\ OfCopies(stage') /\ stage[i] = l
      /\ stage'[i] = IF l = "udp" THEN "track" ELSE IF l = "rf" THEN "http" ELSE "history"
      /\ \A j \in Inst \ {i} : stage'[j] = stage[j]
  <2>1. stage[i] = l /\ stage' = [stage EXCEPT ![i] = Following[l]] /\ OfCopies(stage)
    BY <1>1 DEF BindsPort, At, Proceed, PerCopy
  <2>2. Following[l] = IF l = "udp" THEN "track" ELSE IF l = "rf" THEN "http" ELSE "history"
    BY DEF Following, Listener
  <2>3. QED BY <2>1, <2>2 DEF OfCopies
<1>. DEFINE a == AddressOf(Config(i), l)
            new == [listener |-> l, port |-> a.port]
<1>3. /\ OfCopies(holds') /\ \A j \in Inst \ {i} : holds'[j] = holds[j]
      /\ holds'[i] = IF a = Unset THEN holds[i] ELSE holds[i] \cup {new}
  BY <1>1 DEF BindsPort, PerCopy, OfCopies
<1>4. new.listener = l /\ new.port = a.port
  OBVIOUS
<1>5. a # Unset => a.port \notin Bound(l) \ {0}
  BY DEF BindsPort, Binds, BindCode
<1>6. ASSUME l = "udp"
      PROVE  a = IngestAddr(i) /\ a \in Address /\ Good(i)
  <2>1. IngestAddr(i) \in Address
    BY <1>2, <1>6 DEF StInv, Sockets
  <2>2. QED BY <2>1, <1>6, BindUdp DEF BindsPort, IngestAddr, Good
<1>7. l = "udp" => a # Unset /\ a.port = Port(i)
  BY <1>6, NoAddress DEF Port
<1>. HIDE DEF new, a
<1>8. QED BY <1>1, <1>2, <1>3, <1>4, <1>5, <1>6, <1>7

LEMMA BindsPortStep ==
    ASSUME StInv, NEW i \in Inst, NEW l \in Listener, BindsPort(i, l)
    PROVE  StInv'
<1>1. /\ AddressesKept /\ OfCopies(stage') /\ OfCopies(holds')
      /\ stage[i] = l
      /\ stage'[i] = IF l = "udp" THEN "track" ELSE IF l = "rf" THEN "http" ELSE "history"
      /\ \A j \in Inst \ {i} : stage'[j] = stage[j] /\ holds'[j] = holds[j]
      /\ holds[i] \subseteq holds'[i]
      /\ \A s \in holds'[i] \ holds[i] :
            s.listener = l /\ (l \in {"udp", "rf"} => s.port \notin Bound(l) \ {0})
      /\ l = "udp" => Good(i) /\ \E s \in holds'[i] : s.listener = "udp" /\ s.port = Port(i)
  BY BindsPortFacts
<1>2. UNCHANGED <<doc, disk, problem, handle, file>>
  BY DEF BindsPort
<1>3. \A j \in Inst : (Good(j)' <=> Good(j)) /\ Port(j)' = Port(j) /\ IngestAddr(j)' = IngestAddr(j)
  BY <1>1, SameGood DEF AddressesKept
<1>4. \A j \in Inst \ {i} : Sockets(j)' /\ Mendable(j)'
  BY <1>1, <1>2, <1>3, IdleKeeps DEF StInv, Idle
<1>5. l # "udp" => (\E s \in holds[i] : s.listener = "udp") /\ Good(i)
  BY <1>1 DEF StInv, Sockets, Up, Quiet, Listener
<1>6. Sockets(i)' /\ Mendable(i)'
  <2>1. \A s \in holds'[i] : s.listener \in Listener
    BY <1>1 DEF StInv, Sockets
  <2>2. \E s \in holds'[i] : s.listener = "udp"
    BY <1>1, <1>5
  <2>3. \A s \in holds'[i] : s.listener = "udp" => s.port = Port(i)
    <3>1. CASE l = "udp"
      <4>1. holds[i] = {}
        BY <1>1, <3>1 DEF StInv, Sockets, Quiet
      <4>2. holds'[i] \subseteq {[listener |-> l, port |-> Port(i)]}
        BY <4>1, <3>1, NoAddress, BindUdp, <1>1 DEF BindsPort, Port, IngestAddr, StInv, PerCopy, OfCopies
      <4>3. QED BY <4>2
    <3>2. CASE l # "udp"
      BY <1>1, <3>2 DEF StInv, Sockets
    <3>3. QED BY <3>1, <3>2
  <2>4. Good(i)
    BY <1>1, <1>5
  <2>5. stage'[i] \in {"track", "http", "history"}
    BY <1>1
  <2>6. Sockets(i)'
    BY <1>3, <2>1, <2>2, <2>3, <2>4, <2>5 DEF Sockets, Quiet, Up
  <2>7. QED BY <2>5, <2>6 DEF Mendable, At
<1>7. OnePerPort'
  <2>1. SUFFICES ASSUME NEW j \in Inst, NEW k \in Inst, NEW s \in holds'[j], NEW t \in holds'[k],
                        Udp(s), Udp(t), s.port = t.port, s.port # 0, j # k
                 PROVE  FALSE
    BY DEF OnePerPort, Udp
  <2>2. CASE s \in holds[j] /\ t \in holds[k]
    BY <2>1, <2>2 DEF StInv, OnePerPort
  <2>3. \A x \in holds'[i] \ holds[i] : Udp(x) => l \in {"udp", "rf"} /\ x.port \notin Bound(l) \ {0}
    BY <1>1 DEF Udp, Protocol, Listener
  <2>4. CASE s \notin holds[j]
    <3>1. j = i /\ t \in holds[k]
      BY <1>1, <2>1, <2>4
    <3>2. QED BY <2>1, <2>3, <2>4, <3>1, BoundPorts
  <2>5. CASE t \notin holds[k]
    <3>1. k = i /\ s \in holds[j]
      BY <1>1, <2>1, <2>5
    <3>2. QED BY <2>1, <2>3, <2>5, <3>1, BoundPorts
  <2>6. QED BY <2>2, <2>4, <2>5
<1>8. Displaced'
  <2>1. SUFFICES ASSUME NEW v \in Inst, Stale(v)', Port(v)' # 0
                 PROVE  Above(v)' \/ Below(v)'
    BY DEF Displaced
  <2>2. Stale(v) /\ Port(v) # 0 /\ v # i /\ stage[v] = "running"
    BY <1>1, <1>2, <1>3, <2>1 DEF Stale, At
  <2>3. CASE Above(v)
    BY <1>1, <2>3, AboveKept
  <2>4. CASE Below(v) /\ ~Above(v)
    <3>1. PICK q \in Nat : q < Port(v) /\ Free(v, q) /\ \E j \in Inst : Stays(j, q)
      BY <2>4 DEF Below
    <3>2. \A j \in Inst : Leaving(j)' => Leaving(j)
      BY <1>1, <1>2 DEF Leaving, At, Listener
    <3>3. CASE Free(v, q)'
      <4>1. \E j \in Inst : Stays(j, q)'
        BY <1>3, <3>1, <3>2 DEF Stays
      <4>2. QED BY <1>3, <3>1, <3>3, <4>1 DEF Below
    \* The socket that is bound is a receiver socket of a copy between the two.
    <3>4. CASE ~Free(v, q)'
      <4>0. PICK h \in Inst : /\ q < Port(h) /\ Port(h) <= Port(v)
                               /\ \E s \in holds'[h] : Udp(s) /\ s.port # 0 /\ s.port = q
        BY <1>3, <3>4 DEF Free, Udp
      <4>1. PICK s \in holds'[h] : Udp(s) /\ s.port # 0 /\ s.port = q
        BY <4>0
      <4>2. h = i /\ s \notin holds[i]
        BY <1>1, <3>1, <4>0, <4>1 DEF Free
      <4>3. l = "rf"
        BY <1>1, <1>6, <4>0, <4>1, <4>2, GoodPort DEF Udp, Protocol, Listener, Sockets
      <4>4. PICK own \in holds[i] : own.listener = "udp" /\ own.port = Port(i)
        BY <1>5, <4>3 DEF StInv, Sockets
      <4>5. PICK his \in holds[v] : his.listener = "udp" /\ his.port = Port(v)
        BY <2>2 DEF StInv, Sockets, Up
      <4>6. Good(i) /\ Good(v) /\ Port(i) \in Nat /\ Port(v) \in Nat
        BY <4>4, <4>5, GoodPort DEF StInv, Sockets
      <4>7. Port(i) # Port(v)
        <5>1. his.port # 0 /\ Udp(own) /\ Udp(his)
          BY <2>2, <4>4, <4>5 DEF Udp, Protocol
        <5>2. QED BY <2>2, <4>4, <4>5, <5>1 DEF StInv, OnePerPort
      <4>8. Port(i) < Port(v)
        BY <4>0, <4>2, <4>6, <4>7
      <4>9. PICK n \in Nat : n = Port(i)
        BY <4>6
      <4>10. Stays(i, n)'
        <5>1. ~Leaving(i)'
          BY <1>1 DEF Leaving, At
        <5>2. QED BY <1>3, <4>6, <4>9, <5>1 DEF Stays
      <4>11. Free(v, n)'
        <5>1. SUFFICES ASSUME NEW g \in Inst, n < Port(g), Port(g) <= Port(v),
                              NEW x \in holds'[g], Udp(x), x.port # 0, x.port = n
                       PROVE  FALSE
          BY <1>3 DEF Free, Udp
        <5>2. g = i
          BY <1>1, <1>7, <4>4, <4>9, <5>1 DEF OnePerPort, Udp, Protocol
        <5>3. QED BY <4>6, <4>9, <5>1, <5>2
      <4>12. QED BY <1>3, <4>6, <4>8, <4>9, <4>10, <4>11 DEF Below
    <3>5. QED BY <3>3, <3>4
  <2>5. QED BY <2>2, <2>3, <2>4 DEF StInv, Displaced
<1>9. Files' /\ PerCopy'
  BY <1>1, <1>2, FilesKept DEF StInv, PerCopy, OfCopies
<1>10. QED BY <1>4, <1>6, <1>7, <1>8, <1>9 DEF StInv

\* A copy finds its UDP port taken: whoever has it stays below in its place.
LEMMA TakenStep ==
    ASSUME StInv, NEW i \in Inst, At(i, "udp"), ~Binds(Config(i), "udp", Bound("udp")),
           Refuse(i, BindProblem(Config(i), "udp", Bound("udp"))), doc' = doc, disk' = disk
    PROVE  StInv'
<1>. DEFINE p == BindProblem(Config(i), "udp", Bound("udp"))
<1>1. /\ AddressesKept /\ PerCopy /\ Sockets(i) /\ IngestAddr(i) \in Address
      /\ AddressOf(Config(i), "udp") = IngestAddr(i)
  BY KeepsAddresses, BindUdp DEF StInv, Sockets, At, IngestAddr
<1>2. /\ stage'[i] = "refused" /\ problem'[i] = p /\ holds'[i] = {} /\ holds[i] = {}
      /\ \A j \in Inst \ {i} : stage'[j] = stage[j] /\ holds'[j] = holds[j] /\ problem'[j] = problem[j]
      /\ OfCopies(stage') /\ OfCopies(problem') /\ OfCopies(holds')
      /\ UNCHANGED <<handle, file>>
  BY <1>1 DEF Refuse, PerCopy, OfCopies, Sockets, At, Quiet
<1>3. /\ p.code \in {"CG-201", "CG-202", "CG-203"} /\ p.keys = {p.key}
      /\ p.code = "CG-201" => Port(i) \in Bound("udp") \ {0}
      /\ AboutAddress(p) => IF p.code = "CG-201" THEN Fixed(IngestAddr(i)) /\ p.addr = IngestAddr(i) ELSE ~Good(i)
  <2>1. "udp" \in Listener
    BY DEF Listener
  <2>2. QED BY <1>1, <2>1, BindSpeaks DEF IngestAddr, Good, Port
<1>4. \A j \in Inst : (Good(j)' <=> Good(j)) /\ Port(j)' = Port(j) /\ IngestAddr(j)' = IngestAddr(j)
  BY <1>1, SameGood DEF AddressesKept
<1>5. \A j \in Inst : Sockets(j)' /\ Mendable(j)'
  <2>1. \A j \in Inst \ {i} : Sockets(j)' /\ Mendable(j)'
    BY <1>2, <1>4, IdleKeeps DEF StInv, Idle
  <2>2. Sockets(i)'
    BY <1>2 DEF Sockets, Quiet, Up
  <2>3. Mendable(i)'
    <3>. HIDE DEF p
    <3>1. QED BY <1>2, <1>3, <1>4 DEF Mendable
  <2>4. QED BY <2>1, <2>2, <2>3
<1>6. OnePerPort'
  BY <1>2, FewerSockets DEF StInv
<1>7. Displaced'
  <2>1. SUFFICES ASSUME NEW v \in Inst, Stale(v)', Port(v)' # 0
                 PROVE  Above(v)' \/ Below(v)'
    BY DEF Displaced
  <2>2. Stale(v) /\ Port(v) # 0
    BY <1>2, <1>4, <2>1 DEF Stale, At
  <2>3. CASE Above(v)
    BY <1>1, <2>3, AboveKept
  <2>4. CASE Below(v) /\ ~Above(v)
    <3>1. PICK q \in Nat : q < Port(v) /\ Free(v, q) /\ \E j \in Inst : Stays(j, q)
      BY <2>4 DEF Below
    <3>2. PICK j \in Inst : Stays(j, q)
      BY <3>1
    <3>3. Free(v, q)'
      BY <1>2, <1>4, <3>1 DEF Free, Udp
    <3>4. CASE j # i \/ Port(i) # q \/ p.code # "CG-201"
      <4>1. Stays(j, q)'
        BY <1>2, <1>4, <3>2, <3>4 DEF Stays, Leaving, At
      <4>2. QED BY <1>4, <3>1, <3>3, <4>1 DEF Below
    <3>5. CASE j = i /\ Port(i) = q /\ p.code = "CG-201"
      <4>1. PICK h \in Inst : \E s \in holds[h] : Udp(s) /\ s.port # 0 /\ s.port = q
        BY <1>3, <3>5, BoundByOne
      <4>2. Good(h) /\ Port(h) \in Nat /\ stage[h] \notin Quiet
        BY <4>1, GoodPort DEF StInv, Sockets
      <4>3. Port(h) <= Port(v)
        <5>1. Port(v) \in Nat
          BY <2>2, GoodPort DEF Stale, At, StInv, Sockets, Up
        <5>2. QED BY <2>4, <4>2, <5>1 DEF Above
      <4>4. Port(h) <= q
        BY <3>1, <4>1, <4>2, <4>3 DEF Free
      <4>5. stage'[h] # "refused"
        BY <1>2, <4>1, <4>2 DEF Quiet
      <4>6. Stays(h, q)'
        BY <1>4, <4>2, <4>4, <4>5 DEF Stays, Leaving, At
      <4>7. QED BY <1>4, <3>1, <3>3, <4>6 DEF Below
    <3>6. QED BY <3>4, <3>5
  <2>5. QED BY <2>2, <2>3, <2>4 DEF StInv, Displaced
<1>8. Files' /\ PerCopy'
  BY <1>1, <1>2, FilesKept DEF StInv, PerCopy, OfCopies
<1>9. QED BY <1>5, <1>6, <1>7, <1>8 DEF StInv

LEMMA BindStep ==
    ASSUME StInv, NEW i \in Inst, NEW l \in Listener, Bind(i, l)
    PROVE  StInv'
<1>1. CASE Binds(Config(i), l, Bound(l))
  <2>1. BindsPort(i, l)
    BY <1>1 DEF Bind, BindsPort
  <2>2. QED BY <2>1, BindsPortStep
<1>2. CASE ~Binds(Config(i), l, Bound(l)) /\ l = "udp"
  BY <1>2, TakenStep DEF Bind
<1>3. CASE ~Binds(Config(i), l, Bound(l)) /\ l # "udp"
  <2>. DEFINE p == BindProblem(Config(i), l, Bound(l))
  <2>1. p.code # "CG-120" /\ p.keys = {p.key} /\ ~AboutAddress(p)
    <3>1. p.code # "CG-120"
      BY DEF BindProblem, BindCode
    <3>2. p.table = TableOf[l] /\ p.keys = {KeyOf[l]} /\ p.key = KeyOf[l]
      BY DEF BindProblem
    <3>. HIDE DEF p
    <3>3. ~(TableOf[l] = "ingest" /\ KeyOf[l] = "bind_addr")
      BY <1>3 DEF TableOf, KeyOf, Listener
    <3>4. QED BY <3>1, <3>2, <3>3 DEF AboutAddress
  <2>2. QED BY <1>3, <2>1, RefuseStep DEF Bind
<1>4. QED BY <1>1, <1>2, <1>3

-----------------------------------------------------------------------------
(* The history file. *)

\* Whoever runs while the file is taken is told from the taker by its port.
LEMMA TakenFrom ==
    ASSUME StInv, NEW i \in Inst, NEW v \in Inst, v # i, At(i, "history"), At(v, "running"),
           Port(v) # 0
    PROVE  Above(v) \/ Below(v)
<1>1. PICK own \in holds[i] : own.listener = "udp" /\ own.port = Port(i)
  BY DEF StInv, Sockets, Up, At
<1>2. PICK his \in holds[v] : his.listener = "udp" /\ his.port = Port(v)
  BY DEF StInv, Sockets, Up, At
<1>3. Good(i) /\ Good(v) /\ Port(i) \in Nat /\ Port(v) \in Nat
  BY <1>1, <1>2, GoodPort DEF StInv, Sockets
<1>4. Port(i) # Port(v)
  BY <1>1, <1>2 DEF StInv, OnePerPort, Udp, Protocol
<1>5. CASE Port(i) > Port(v)
  BY <1>3, <1>5 DEF Above
<1>6. CASE Port(i) < Port(v)
  <2>1. Stays(i, Port(i))
    BY <1>3 DEF Stays, Leaving, At
  <2>2. Free(v, Port(i))
    <3>1. SUFFICES ASSUME NEW g \in Inst, Port(i) < Port(g), Port(g) <= Port(v),
                          NEW x \in holds[g], Udp(x), x.port # 0, x.port = Port(i)
                   PROVE  FALSE
      BY DEF Free
    <3>2. g = i
      BY <1>1, <3>1 DEF StInv, OnePerPort, Udp, Protocol
    <3>3. QED BY <1>3, <3>1, <3>2
  <2>3. QED BY <1>3, <1>6, <2>1, <2>2 DEF Below
<1>7. QED BY <1>3, <1>4, <1>5, <1>6

LEMMA OpenHistoryStep ==
    ASSUME StInv, NEW i \in Inst, OpenHistory(i)
    PROVE  StInv'
<1>1. CASE ~Opens(Config(i), disk) /\ Refuse(i, HistoryProblem)
  <2>1. HistoryProblem.code = "CG-135" /\ ~AboutAddress(HistoryProblem)
    BY DEF HistoryProblem, AboutAddress
  <2>2. QED BY <1>1, <2>1, RefuseStep DEF OpenHistory
<1>2. CASE Opens(Config(i), disk)
  <2>1. AddressesKept /\ PerCopy /\ Sockets(i)
    BY KeepsAddresses DEF StInv, OpenHistory
  <2>2. /\ stage[i] = "history" /\ stage'[i] = "running" /\ OfCopies(stage') /\ OfCopies(handle')
        /\ \A j \in Inst \ {i} : stage'[j] = stage[j] /\ handle'[j] = handle[j]
        /\ handle'[i] = 0 \/ handle'[i] = file'
        /\ UNCHANGED <<doc, disk, problem, holds>>
    BY <1>2, <2>1 DEF OpenHistory, At, Proceed, Following, PerCopy, OfCopies
  <2>3. \A j \in Inst : (Good(j)' <=> Good(j)) /\ Port(j)' = Port(j) /\ IngestAddr(j)' = IngestAddr(j)
    BY <2>1, SameGood DEF AddressesKept
  <2>4. \A j \in Inst \ {i} : Sockets(j)' /\ Mendable(j)'
    BY <2>2, <2>3, IdleKeeps DEF StInv, Idle
  <2>5. Sockets(i)' /\ Mendable(i)'
    BY <2>1, <2>2, <2>3 DEF Sockets, Mendable, At, Quiet, Up
  <2>6. OnePerPort'
    BY <2>2, FewerSockets DEF StInv
  <2>7. Displaced'
    <3>1. SUFFICES ASSUME NEW v \in Inst, Stale(v)', Port(v)' # 0
                   PROVE  Above(v)' \/ Below(v)'
      BY DEF Displaced
    <3>2. v # i /\ At(v, "running") /\ Port(v) # 0
      BY <2>2, <2>3, <3>1 DEF Stale, At
    <3>3. Above(v) \/ Below(v)
      BY <2>2, <3>2, TakenFrom DEF At
    <3>4. CASE Above(v)
      BY <2>1, <3>4, AboveKept
    <3>5. CASE Below(v)
      <4>1. PICK q \in Nat : q < Port(v) /\ Free(v, q) /\ \E j \in Inst : Stays(j, q)
        BY <3>5 DEF Below
      <4>2. Free(v, q)'
        BY <2>2, <2>3, <4>1 DEF Free, Udp
      <4>3. \E j \in Inst : Stays(j, q)'
        BY <2>2, <2>3, <4>1 DEF Stays, Leaving, At
      <4>4. QED BY <2>3, <4>1, <4>2, <4>3 DEF Below
    <3>6. QED BY <3>3, <3>4, <3>5
  <2>8. Files' /\ PerCopy'
    BY <2>1, <2>2, FilesKept DEF StInv, PerCopy, OfCopies
  <2>9. QED BY <2>4, <2>5, <2>6, <2>7, <2>8 DEF StInv
<1>3. QED BY <1>1, <1>2 DEF OpenHistory

-----------------------------------------------------------------------------
(* Mending. *)

LEMMA FixFacts ==
    ASSUME StInv, NEW i \in Inst, Fix(i)
    PROVE  /\ Files' /\ (disk'.config = "absent" <=> disk.config = "absent")
           /\ stage'[i] = "off" /\ stage[i] = "refused"
           /\ OfCopies(doc') /\ OfCopies(stage') /\ OfCopies(problem')
           /\ \A j \in Inst \ {i} : /\ stage'[j] = stage[j] /\ problem'[j] = problem[j]
                                    /\ doc'[j] = doc[j] /\ IngestAddr(j)' = IngestAddr(j)
           /\ \/ IngestAddr(i)' = IngestAddr(i)
              \/ ~Good(i)
              \/ Leaving(i) /\ Fixed(IngestAddr(i)) /\ IngestAddr(i)' = NextPort(IngestAddr(i))
<1>. DEFINE p == problem[i]
            after(way) == Mended([doc |-> doc[i], disk |-> disk], way)
<1>1. PICK way \in FirstFix(p) : doc' = [doc EXCEPT ![i] = after(way).doc] /\ disk' = after(way).disk
  BY DEF Fix
<1>2. PerCopy /\ stage[i] = "refused" /\ Mendable(i) /\ "config" \in DOMAIN disk /\ DocOK(doc[i])
  BY DEF StInv, Fix, At, Files
<1>3. /\ OfCopies(doc') /\ OfCopies(stage') /\ OfCopies(problem')
      /\ stage'[i] = "off"
      /\ \A j \in Inst \ {i} : stage'[j] = stage[j] /\ problem'[j] = problem[j] /\ doc'[j] = doc[j]
      /\ doc'[i] = after(way).doc
  BY <1>1, <1>2 DEF Fix, PerCopy, OfCopies
<1>4. /\ p.code = "CG-120" => disk.config # "absent"
      /\ p.code = "CG-201" => p.keys = {p.key}
      /\ AboutAddress(p) =>
            IF p.code = "CG-201" THEN Fixed(IngestAddr(i)) /\ p.addr = IngestAddr(i)
            ELSE ~Good(i) \/ (p.code = "CG-121" /\ ~SetsAddress(doc[i]))
  BY <1>2 DEF Mendable, At
<1>5. "config" \in DOMAIN disk' /\ (disk'.config = "absent" <=> disk.config = "absent")
  BY <1>1, <1>2, <1>4, MendedDisk
<1>6. \A j \in Inst : IngestAddr(j)' = IF disk.config = "absent" THEN Addr("127.0.0.1", 7301)
                                       ELSE AddressIn(doc'[j])
  <2>1. \A j \in Inst : IngestAddr(j)' = IF disk'.config = "absent" THEN Addr("127.0.0.1", 7301)
                                         ELSE AddressIn(doc'[j])
    BY AddressOfLoaded DEF IngestAddr, Config
  <2>2. QED BY <1>5, <2>1
<1>7. \A j \in Inst \ {i} : IngestAddr(j)' = IngestAddr(j)
  BY <1>3, <1>6, AddressInState
<1>8. \/ SameAddress(doc[i], doc'[i])
      \/ AboutAddress(p) /\ p.code # "CG-201" /\ AddressIn(doc'[i]) = Addr("127.0.0.1", 7301)
      \/ /\ AboutAddress(p) /\ p.code = "CG-201"
         /\ SetsAddress(doc'[i]) /\ AddressIn(doc'[i]) = NextPort(p.addr)
  BY <1>3, <1>4, MendedAddress
<1>9. DocOK(doc'[i])
  <2>1. CASE SameAddress(doc[i], doc'[i])
    BY <1>2, <2>1 DEF SameAddress, DocOK
  <2>2. CASE AddressIn(doc'[i]) = Addr("127.0.0.1", 7301)
    BY <2>2, DefaultTables DEF DocOK, AddressIn, Usable
  <2>3. CASE AboutAddress(p) /\ p.code = "CG-201" /\ AddressIn(doc'[i]) = NextPort(p.addr)
    <3>1. p.addr \in Address
      BY <1>4, <2>3 DEF Fixed, Usable
    <3>2. NextPort(p.addr) \in Address
      BY <3>1 DEF NextPort, Address
    <3>3. QED BY <2>3, <3>2 DEF DocOK, AddressIn
  <2>4. QED BY <1>8, <2>1, <2>2, <2>3
<1>10. \/ IngestAddr(i)' = IngestAddr(i)
       \/ ~Good(i)
       \/ Leaving(i) /\ Fixed(IngestAddr(i)) /\ IngestAddr(i)' = NextPort(IngestAddr(i))
  <2>1. CASE disk.config = "absent" \/ SameAddress(doc[i], doc'[i])
    BY <1>6, <2>1, AddressInState DEF SameAddress, AddressIn
  <2>2. CASE /\ disk.config # "absent" /\ AboutAddress(p) /\ p.code # "CG-201"
             /\ AddressIn(doc'[i]) = Addr("127.0.0.1", 7301)
    BY <1>4, <1>6, <2>2, AddressInState DEF AddressIn
  <2>3. CASE /\ disk.config # "absent" /\ AboutAddress(p) /\ p.code = "CG-201"
             /\ AddressIn(doc'[i]) = NextPort(p.addr)
    BY <1>2, <1>4, <1>6, <2>3 DEF Leaving, At
  <2>4. QED BY <1>8, <2>1, <2>2, <2>3
<1>11. Files'
  BY <1>2, <1>3, <1>5, <1>9 DEF Files, StInv
<1>12. QED BY <1>2, <1>3, <1>5, <1>7, <1>10, <1>11

LEMMA FixStep ==
    ASSUME StInv, NEW i \in Inst, Fix(i)
    PROVE  StInv'
<1>1. /\ Files' /\ (disk'.config = "absent" <=> disk.config = "absent")
      /\ stage'[i] = "off" /\ stage[i] = "refused"
      /\ OfCopies(doc') /\ OfCopies(stage') /\ OfCopies(problem')
      /\ \A j \in Inst \ {i} : /\ stage'[j] = stage[j] /\ problem'[j] = problem[j]
                               /\ doc'[j] = doc[j] /\ IngestAddr(j)' = IngestAddr(j)
      /\ \/ IngestAddr(i)' = IngestAddr(i)
         \/ ~Good(i)
         \/ Leaving(i) /\ Fixed(IngestAddr(i)) /\ IngestAddr(i)' = NextPort(IngestAddr(i))
  BY FixFacts
<1>2. UNCHANGED <<holds, handle, file>> /\ holds[i] = {}
  BY <1>1 DEF Fix, StInv, Sockets, Quiet
<1>3. \A j \in Inst \ {i} : (Good(j)' <=> Good(j)) /\ Port(j)' = Port(j)
  BY <1>1, SameGood
<1>4. Good(i) => /\ Good(i)' /\ Port(i)' \in {Port(i), Port(i) + 1}
                 /\ (~Leaving(i) => Port(i)' = Port(i))
  <2>1. CASE IngestAddr(i)' = IngestAddr(i)
    BY <2>1, SameGood
  <2>2. CASE Leaving(i) /\ Fixed(IngestAddr(i)) /\ IngestAddr(i)' = NextPort(IngestAddr(i))
    <3>1. Usable(NextPort(IngestAddr(i))) /\ NextPort(IngestAddr(i)).port = Port(i) + 1
      BY <2>2 DEF Fixed, Usable, Address, NextPort, Port
    <3>2. QED BY <2>2, <3>1 DEF Good, Port
  <2>3. QED BY <1>1, <2>1, <2>2
<1>5. \A j \in Inst \ {i} : Sockets(j)' /\ Mendable(j)'
  BY <1>1, <1>2, IdleKeeps DEF StInv, Idle
<1>6. Sockets(i)' /\ Mendable(i)'
  BY <1>1, <1>2 DEF Sockets, Mendable, At, Quiet, Up
<1>7. OnePerPort'
  BY <1>2, FewerSockets DEF StInv
<1>8. Displaced'
  <2>1. SUFFICES ASSUME NEW v \in Inst, Stale(v)', Port(v)' # 0
                 PROVE  Above(v)' \/ Below(v)'
    BY DEF Displaced
  <2>2. Stale(v) /\ v # i
    BY <1>1, <1>2, <2>1 DEF Stale, At
  <2>3. Port(v)' = Port(v) /\ Port(v) \in Nat
    BY <1>3, <2>2, GoodPort DEF Stale, At, StInv, Sockets, Up
  <2>4. CASE Above(v)
    <3>1. PICK j \in Inst : Good(j) /\ Port(j) > Port(v)
      BY <2>4 DEF Above
    <3>2. Good(j)' /\ Port(j)' > Port(v)
      BY <1>3, <1>4, <2>3, <3>1, GoodPort
    <3>3. QED BY <2>3, <3>2 DEF Above
  <2>5. CASE Below(v)
    <3>1. PICK q \in Nat : q < Port(v) /\ Free(v, q) /\ \E j \in Inst : Stays(j, q)
      BY <2>5 DEF Below
    <3>2. PICK j \in Inst : Stays(j, q)
      BY <3>1
    <3>3. Good(j) /\ Port(j) \in Nat /\ Port(j) <= q /\ (Port(j) = q => ~Leaving(j))
      BY <3>2, GoodPort DEF Stays
    <3>4. Stays(j, q)'
      <4>1. CASE j = i
        BY <1>1, <1>4, <3>1, <3>3, <4>1 DEF Stays, Leaving, At
      <4>2. CASE j # i
        BY <1>1, <1>3, <3>3, <4>2 DEF Stays, Leaving, At
      <4>3. QED BY <4>1, <4>2
    <3>5. Free(v, q)'
      BY <1>2, <1>3, <2>3, <3>1 DEF Free, Udp
    <3>6. QED BY <2>3, <3>1, <3>4, <3>5 DEF Below
  <2>6. QED BY <2>1, <2>2, <2>3, <2>4, <2>5 DEF StInv, Displaced
<1>9. PerCopy'
  BY <1>1, <1>2 DEF StInv, PerCopy, OfCopies
<1>10. QED BY <1>1, <1>5, <1>6, <1>7, <1>8, <1>9 DEF StInv

LEMMA TleVanishesStep ==
    ASSUME StInv, TleVanishes
    PROVE  StInv'
<1>1. /\ disk'.config = disk.config /\ "config" \in DOMAIN disk'
      /\ UNCHANGED <<doc, stage, problem, holds, handle, file>>
  BY DEF TleVanishes, StInv, Files
<1>2. AddressesKept
  BY <1>1, KeepsAddresses
<1>3. \A j \in Inst : Sockets(j)' /\ Mendable(j)'
  BY <1>1, <1>2, IdleKeeps DEF StInv, Idle, AddressesKept
<1>4. Settled
  BY <1>1, <1>2 DEF Settled, Leaving, Stale, At
<1>5. Displaced' /\ OnePerPort'
  BY <1>4, SettledKeeps, FewerSockets DEF StInv, Settled
<1>6. Files' /\ PerCopy'
  BY <1>1 DEF StInv, Files, PerCopy, OfCopies
<1>7. QED BY <1>3, <1>5, <1>6 DEF StInv

-----------------------------------------------------------------------------
(* The theorems. *)

\* The inductive invariant: sockets belong to the stage and the address, and a
\* copy whose file was taken is told from some other by its UDP port.
THEOREM StartupInvariance == Spec => []StInv
<1>1. Init => StInv
  <2>1. SUFFICES ASSUME Init
                 PROVE  StInv
    OBVIOUS
  <2>2. PICK w \in Worlds :
            /\ doc = [i \in Inst |-> w.doc] /\ disk = w.disk
            /\ stage = [i \in Inst |-> IF i = First \/ w.doc \in Shared THEN "off" ELSE "never"]
    BY <2>1 DEF Init
  <2>3. Files
    BY <2>2, StartupAssumption DEF Files, DocOK, SetsAddress, Address
  <2>4. \A i \in Inst : stage[i] \in {"off", "never"} /\ holds[i] = {}
    BY <2>1, <2>2 DEF Init
  <2>5. \A i \in Inst : Sockets(i) /\ Mendable(i)
    BY <2>4 DEF Sockets, Mendable, At, Quiet, Up
  <2>6. OnePerPort /\ Displaced
    BY <2>4 DEF OnePerPort, Displaced, Stale, At
  <2>7. PerCopy
    BY <2>1, <2>2 DEF Init, PerCopy, OfCopies
  <2>8. QED BY <2>3, <2>5, <2>6, <2>7 DEF StInv
<1>2. StInv /\ [Next]_vars => StInv'
  <2>1. SUFFICES ASSUME StInv, [Next]_vars
                 PROVE  StInv'
    OBVIOUS
  <2>2. CASE UNCHANGED vars
    <3>1. AddressesKept /\ UNCHANGED <<doc, disk, stage, problem, holds, handle, file>>
      BY <2>2, KeepsAddresses DEF vars
    <3>2. \A j \in Inst : Sockets(j)' /\ Mendable(j)'
      BY <2>1, <3>1, IdleKeeps DEF StInv, Idle, AddressesKept
    <3>3. Settled
      BY <3>1 DEF Settled, Leaving, Stale, At
    <3>4. Displaced' /\ OnePerPort'
      BY <2>1, <3>3, SettledKeeps, FewerSockets DEF StInv, Settled
    <3>5. Files' /\ PerCopy'
      BY <2>1, <3>1 DEF StInv, Files, PerCopy, OfCopies
    <3>6. QED BY <3>2, <3>4, <3>5 DEF StInv
  <2>3. CASE TleVanishes
    BY <2>1, <2>3, TleVanishesStep
  <2>4. ASSUME NEW i \in Inst,
               \/ Begin(i) \/ Load(i) \/ Track(i) \/ Freshen(i) \/ OpenHistory(i)
               \/ \E l \in Listener : Bind(i, l)
               \/ Stop(i) \/ Release(i) \/ CloseHistory(i) \/ Exit(i) \/ Fix(i)
        PROVE  StInv'
    BY <2>1, <2>4, BeginStep, LoadStep, TrackStep, OpenHistoryStep, BindStep, StopStep,
       ReleaseStep, CloseHistoryStep, ExitStep, FixStep
  <2>5. QED BY <2>1, <2>2, <2>3, <2>4 DEF Next
<1>3. QED BY <1>1, <1>2, PTL DEF Spec

\* A copy never takes the history file from a running one that has the same
\* addresses as all the others: whoever did listens on another port still,
\* though the advice moves it from port to port (main.rs run binds before it
\* opens the history; diagnose.rs explain_bind_error).
THEOREM RunningKeepsItsFile == Spec => []RunningOwnsFile
<1>1. StInv => RunningOwnsFile
  <2>1. SUFFICES ASSUME StInv, NEW i \in Inst, At(i, "running"), handle[i] # 0,
                        Port(i) # 0,
                        \A j \in Inst : Config(j).ingest = Config(i).ingest, handle[i] # file
                 PROVE  FALSE
    BY DEF RunningOwnsFile, Port, IngestAddr
  <2>2. \A j \in Inst : Port(j) = Port(i)
    BY <2>1 DEF Port, IngestAddr
  <2>3. Port(i) \in Nat
    BY <2>1, GoodPort DEF At, StInv, Sockets, Up
  <2>4. Above(i) \/ Below(i)
    BY <2>1 DEF StInv, Displaced, Stale
  <2>5. ~Above(i)
    BY <2>2, <2>3 DEF Above
  <2>6. ~Below(i)
    BY <2>2, <2>3 DEF Below, Stays
  <2>7. QED BY <2>4, <2>5, <2>6
<1>2. QED BY <1>1, StartupInvariance, PTL

-----------------------------------------------------------------------------
(* What the reader makes of an OEM file comes from its lines. *)

KeyLines(text) == {text[n] : n \in {n \in DOMAIN text : text[n].kind = "key"}}

EpochsIn(text) == EpochsOf(text) \cap Int

\* By how much the time systems that a file names are ahead.
AheadIn(text) ==
    {Ahead[v] : v \in {v \in DOMAIN Ahead :
                          \E line \in KeyLines(text) : line.key = "TIME_SYSTEM" /\ line.value = v}}

Builders(text) ==
    [degree : 1 .. 15, ahead : AheadIn(text), start : Int, stop : Int, epochs : Seq(EpochsIn(text))]

\* A segment's window lies between states of the file.
Inside(s, text) == \E a, b \in EpochsIn(text) : a <= s.start /\ s.stop <= b
SegmentsIn(text) == {s \in Builders(text) : Inside(s, text)}

Errors == {"none", "missing", "unsupported", "bad segment", "syntax", "empty", "not oem"}

ReadersOf(text) ==
    [segments : Seq(SegmentsIn(text)), meta : {Absent} \cup Seq(KeyLines(text)),
     current : {Absent} \cup Builders(text), skipping : BOOLEAN, error : Errors]

LEMMA FailOf ==
    ASSUME NEW text, NEW r \in ReadersOf(text), NEW e \in Errors
    PROVE  Fail(r, e) \in ReadersOf(text)
BY DEF Fail, ReadersOf

LEMMA AheadNumbers ==
    /\ \A v \in DOMAIN Ahead : Ahead[v] \in Int
    /\ \A text : AheadIn(text) \subseteq Int
BY DEF Ahead, AheadIn

\* The value of a keyword is that of a line with it.
LEMMA ValueOf ==
    ASSUME NEW text, NEW meta \in Seq(KeyLines(text)), NEW k, Has(meta, k)
    PROVE  \E line \in KeyLines(text) : line.key = k /\ Value(meta, k) = line.value
<1>1. Places(meta, k) \in SUBSET Nat /\ Places(meta, k) # {}
  <2>1. DOMAIN meta = 1 .. Len(meta) /\ Len(meta) \in Nat
    BY LenProperties
  <2>2. QED BY <2>1 DEF Places, Has
<1>2. Min(Places(meta, k)) \in Places(meta, k)
  BY <1>1, LeastNumber
<1>3. PICK n \in DOMAIN meta : meta[n].key = k /\ Value(meta, k) = meta[n].value
  BY <1>2 DEF Places, Value
<1>4. meta[n] \in KeyLines(text)
  BY <1>3, ElementOfSeq, LenProperties
<1>5. QED BY <1>3, <1>4

LEMMA BuilderOf ==
    ASSUME NEW text, NEW meta \in Seq(KeyLines(text)), MetaError(meta) = "none"
    PROVE  Builder(meta) \in Builders(text)
<1>1. /\ Has(meta, "TIME_SYSTEM") /\ Value(meta, "TIME_SYSTEM") \in DOMAIN Ahead
      /\ Has(meta, "START_TIME") /\ Has(meta, "STOP_TIME")
      /\ \A k \in TimeKeys : Has(meta, k) => Value(meta, k) \in Int
      /\ Has(meta, "INTERPOLATION_DEGREE") => Value(meta, "INTERPOLATION_DEGREE") \in 1 .. 15
  BY DEF MetaError
<1>2. Ahead[Value(meta, "TIME_SYSTEM")] \in AheadIn(text)
  <2>1. PICK line \in KeyLines(text) :
            line.key = "TIME_SYSTEM" /\ Value(meta, "TIME_SYSTEM") = line.value
    BY <1>1, ValueOf
  <2>2. QED BY <1>1, <2>1 DEF AheadIn
<1>3. /\ Limit(meta, "USEABLE_START_TIME", "START_TIME") \in Int
      /\ Limit(meta, "USEABLE_STOP_TIME", "STOP_TIME") \in Int
  BY <1>1, <1>2, AheadNumbers DEF Limit, TimeKeys
<1>4. Degree(meta) \in 1 .. 15
  BY <1>1 DEF Degree
<1>5. <<>> \in Seq(EpochsIn(text))
  BY EmptySeq
<1>6. QED BY <1>2, <1>3, <1>4, <1>5 DEF Builder, Builders

LEMMA EndsOf ==
    ASSUME NEW S, NEW s \in Seq(S), Len(s) >= 2
    PROVE  Head(s) \in S /\ Last(s) \in S
<1>1. Len(s) \in Nat /\ 1 \in 1 .. Len(s) /\ Len(s) \in 1 .. Len(s)
  BY LenProperties
<1>2. s[1] \in S /\ s[Len(s)] \in S
  BY <1>1, ElementOfSeq
<1>3. Head(s) = s[1]
  BY <1>1, HeadTailProperties
<1>4. QED BY <1>2, <1>3 DEF Last

LEMMA SegmentOf ==
    ASSUME NEW text, NEW b \in Builders(text), Finishable(b)
    PROVE  Segment(b) \in SegmentsIn(text)
<1>. DEFINE h == Head(b.epochs)
            l == Last(b.epochs)
            s == Segment(b)
<1>1. h \in EpochsIn(text) /\ l \in EpochsIn(text)
  BY EndsOf DEF Finishable, Builders
<1>2. h \in Int /\ l \in Int
  BY <1>1 DEF EpochsIn
<1>3. s = [b EXCEPT !.start = Later(@, h), !.stop = Earlier(@, l)]
  BY DEF Segment
<1>. HIDE DEF h, l, s
<1>4. /\ Later(b.start, h) \in Int /\ Earlier(b.stop, l) \in Int
      /\ h <= Later(b.start, h) /\ Earlier(b.stop, l) <= l
  BY <1>2 DEF Later, Earlier, Builders
<1>5. s \in Builders(text) /\ s.start = Later(b.start, h) /\ s.stop = Earlier(b.stop, l)
  BY <1>3, <1>4 DEF Builders
<1>6. Inside(s, text)
  BY <1>1, <1>4, <1>5 DEF Inside
<1>7. QED BY <1>5, <1>6 DEF SegmentsIn, s

LEMMA FinishOf ==
    ASSUME NEW text, NEW r \in ReadersOf(text)
    PROVE  Finish(r) \in ReadersOf(text)
<1>1. CASE r.current = Absent
  BY <1>1 DEF Finish
<1>2. CASE r.current # Absent /\ ~Finishable(r.current)
  BY <1>2, FailOf DEF Finish, Errors
<1>3. CASE r.current # Absent /\ Finishable(r.current)
  <2>1. Segment(r.current) \in SegmentsIn(text)
    BY <1>3, SegmentOf DEF ReadersOf
  <2>2. Append(r.segments, Segment(r.current)) \in Seq(SegmentsIn(text))
    BY <2>1, AppendProperties DEF ReadersOf
  <2>3. QED BY <1>3, <2>2 DEF Finish, ReadersOf
<1>4. QED BY <1>1, <1>2, <1>3

LEMMA MetaStopOf ==
    ASSUME NEW text, NEW r \in ReadersOf(text)
    PROVE  MetaStop(r) \in ReadersOf(text)
<1>1. CASE r.meta = Absent
  BY <1>1, FailOf DEF MetaStop, Errors
<1>2. CASE r.meta # Absent /\ MetaError(r.meta) # "none"
  <2>1. MetaError(r.meta) \in Errors
    BY DEF MetaError, Errors
  <2>2. QED BY <1>2, <2>1, FailOf DEF MetaStop
<1>3. CASE r.meta # Absent /\ MetaError(r.meta) = "none"
  <2>1. Builder(r.meta) \in Builders(text)
    BY <1>3, BuilderOf DEF ReadersOf
  <2>2. QED BY <1>3, <2>1 DEF MetaStop, ReadersOf
<1>4. QED BY <1>1, <1>2, <1>3

LEMMA EpochOf ==
    ASSUME NEW text, IsText(text), NEW n \in DOMAIN text, text[n].kind = "data",
           NEW a \in AheadIn(text)
    PROVE  text[n].epoch - a \in EpochsIn(text)
<1>1. PICK m \in DOMAIN text : /\ text[m].kind = "key" /\ text[m].key = "TIME_SYSTEM"
                               /\ a = Ahead[text[m].value]
  BY DEF AheadIn, KeyLines
<1>2. text[n].epoch \in Int /\ a \in Int
  BY AheadNumbers DEF IsText
<1>3. text[n].epoch - a \in EpochsOf(text)
  BY <1>1 DEF EpochsOf
<1>4. QED BY <1>2, <1>3 DEF EpochsIn

LEMMA PushDataOf ==
    ASSUME NEW text, IsText(text), NEW n \in DOMAIN text, text[n].kind = "data",
           NEW r \in ReadersOf(text), r.current # Absent
    PROVE  PushData(r, text[n]) \in ReadersOf(text)
<1>. DEFINE t == text[n].epoch - r.current.ahead
<1>1. r.current \in Builders(text)
  BY DEF ReadersOf
<1>2. t \in EpochsIn(text)
  BY <1>1, EpochOf DEF Builders
<1>3. Append(r.current.epochs, t) \in Seq(EpochsIn(text))
  BY <1>1, <1>2, AppendProperties DEF Builders
<1>4. PushData(r, text[n]) \in {Fail(r, "syntax"), [r EXCEPT !.current.epochs = Append(@, t)]}
  BY DEF PushData
<1>. HIDE DEF t
<1>5. [r.current EXCEPT !.epochs = Append(@, t)] \in Builders(text)
  BY <1>1, <1>3 DEF Builders
<1>6. [r EXCEPT !.current.epochs = Append(@, t)] \in ReadersOf(text)
  BY <1>5 DEF ReadersOf
<1>7. QED BY <1>4, <1>6, FailOf DEF Errors

LEMMA OtherOf ==
    ASSUME NEW text, IsText(text), NEW n \in DOMAIN text, NEW r \in ReadersOf(text)
    PROVE  Other(r, text[n]) \in ReadersOf(text)
<1>1. CASE r.meta # Absent /\ text[n].kind = "key"
  <2>1. text[n] \in KeyLines(text)
    BY <1>1 DEF KeyLines
  <2>2. Append(r.meta, text[n]) \in Seq(KeyLines(text))
    BY <1>1, <2>1, AppendProperties DEF ReadersOf
  <2>3. QED BY <1>1, <2>2 DEF Other, ReadersOf
<1>2. CASE r.meta = Absent /\ r.current # Absent /\ text[n].kind = "data"
  BY <1>2, PushDataOf DEF Other
<1>3. Fail(r, "syntax") \in ReadersOf(text)
  BY FailOf DEF Errors
<1>4. QED BY <1>1, <1>2, <1>3 DEF Other

LEMMA ReadOf ==
    ASSUME NEW text, IsText(text), NEW n \in DOMAIN text, NEW r \in ReadersOf(text)
    PROVE  Read(r, text[n]) \in ReadersOf(text)
<1>1. CASE r.error # "none"
  BY <1>1 DEF Read
<1>2. CASE r.error = "none" /\ r.skipping
  <2>1. Read(r, text[n]) = [r EXCEPT !.skipping = text[n].kind # "cov_stop"]
    BY <1>2 DEF Read
  <2>2. QED BY <2>1 DEF ReadersOf
<1>3. CASE r.error = "none" /\ ~r.skipping
  <2>1. CASE text[n].kind = "start"
    <3>1. Read(r, text[n]) = IF Finish(r).error = "none" THEN [Finish(r) EXCEPT !.meta = <<>>]
                             ELSE Finish(r)
      BY <1>3, <2>1 DEF Read
    <3>2. Finish(r) \in ReadersOf(text)
      BY FinishOf
    <3>3. <<>> \in Seq(KeyLines(text))
      BY EmptySeq
    <3>4. [Finish(r) EXCEPT !.meta = <<>>] \in ReadersOf(text)
      BY <3>2, <3>3 DEF ReadersOf
    <3>5. QED BY <3>1, <3>2, <3>4
  <2>2. CASE text[n].kind = "stop"
    BY <1>3, <2>2, MetaStopOf DEF Read
  <2>3. CASE text[n].kind = "cov_start"
    BY <1>3, <2>3 DEF Read, ReadersOf
  <2>4. CASE text[n].kind \notin {"start", "stop", "cov_start"}
    BY <1>3, <2>4, OtherOf DEF Read
  <2>5. QED BY <2>1, <2>2, <2>3, <2>4
<1>4. QED BY <1>1, <1>2, <1>3 DEF ReadersOf

-----------------------------------------------------------------------------
(* Readings is defined by recursion; that there is such a function, and what *)
(* holds of all its values, is shown by the least number without it.         *)

LEMMA FromOneOn ==
    ASSUME NEW L \in Nat, NEW G, 1 <= L => 1 \in G,
           \A n \in 1 .. L : n + 1 <= L /\ n \in G => n + 1 \in G
    PROVE  \A n \in 1 .. L : n \in G
<1>. DEFINE B == {n \in 1 .. L : n \notin G}
<1>1. SUFFICES ASSUME B # {} PROVE FALSE
  OBVIOUS
<1>2. B \in SUBSET Nat
  OBVIOUS
<1>. DEFINE m == Min(B)
<1>3. m \in B
  BY <1>1, <1>2, LeastNumber
<1>4. \A k \in B : m <= k
  <2>1. Min(B) \in B
    BY <1>3
  <2>2. \E x \in B : \A y \in B : x <= y
    BY <1>1, <1>2, LeastExists
  <2>. HIDE DEF B
  <2>3. QED BY <2>2 DEF Min
<1>. HIDE DEF m
<1>5. m \in 1 .. L /\ m \notin G
  BY <1>3
<1>6. m # 1 /\ m - 1 \in 1 .. L
  BY <1>5
<1>7. m - 1 \in G
  BY <1>4, <1>5, <1>6
<1>8. QED BY <1>5, <1>6, <1>7

ReadingAt(text, f, n) == IF n = 1 THEN Reader ELSE Read(f[n - 1], text[n])

LEMMA ReadingsExist ==
    ASSUME NEW text, IsText(text)
    PROVE  \E f : f = [n \in DOMAIN text |-> ReadingAt(text, f, n)]
<1>. DEFINE L == Len(text)
            Upto(f, n) == f = [k \in 1 .. n |-> ReadingAt(text, f, k)]
            G == {n \in 1 .. L : \E f : Upto(f, n)}
<1>1. L \in Nat /\ DOMAIN text = 1 .. L
  BY DEF IsText
<1>2. 1 <= L => 1 \in G
  <2>. DEFINE f == [k \in 1 .. 1 |-> Reader]
  <2>1. \A k \in 1 .. 1 : k = 1
    OBVIOUS
  <2>2. Upto(f, 1)
    BY <2>1 DEF ReadingAt
  <2>3. 1 <= L => 1 \in 1 .. L
    BY <1>1
  <2>. HIDE DEF f
  <2>4. QED BY <2>2, <2>3
<1>3. ASSUME NEW n \in 1 .. L, n + 1 <= L, n \in G
      PROVE  n + 1 \in G
  <2>1. PICK f : Upto(f, n)
    BY <1>3
  <2>. DEFINE g == [k \in 1 .. n + 1 |-> IF k = n + 1 THEN Read(f[n], text[n + 1]) ELSE f[k]]
              h == [k \in 1 .. n + 1 |-> ReadingAt(text, g, k)]
  <2>2. \A k \in 1 .. n + 1 : k # 1 => k - 1 \in 1 .. n /\ k - 1 \in 1 .. n + 1 /\ k - 1 # n + 1
    BY <1>1
  <2>3. \A k \in 1 .. n + 1 : k # n + 1 => k \in 1 .. n
    BY <1>1
  <2>4. n + 1 # 1 /\ (n + 1) - 1 = n
    BY <1>1
  <2>5. \A k \in 1 .. n : f[k] = ReadingAt(text, f, k)
    <3>1. SUFFICES ASSUME NEW k \in 1 .. n PROVE f[k] = ReadingAt(text, f, k)
      OBVIOUS
    <3>. DEFINE e == [j \in 1 .. n |-> ReadingAt(text, f, j)]
    <3>2. e[k] = ReadingAt(text, f, k)
      OBVIOUS
    <3>3. f = e
      BY <2>1
    <3>. HIDE DEF e
    <3>4. QED BY <3>2, <3>3
  <2>6. \A k \in 1 .. n + 1 : k # 1 => g[k - 1] = f[k - 1]
    BY <2>2
  <2>7. \A k \in 1 .. n + 1 : g[k] = ReadingAt(text, g, k)
    <3>1. SUFFICES ASSUME NEW k \in 1 .. n + 1 PROVE g[k] = ReadingAt(text, g, k)
      OBVIOUS
    <3>2. ReadingAt(text, g, k) = ReadingAt(text, f, k)
      BY <2>6 DEF ReadingAt
    <3>3. CASE k = n + 1
      BY <2>4, <3>2, <3>3 DEF ReadingAt
    <3>4. CASE k # n + 1
      BY <2>3, <2>5, <3>2, <3>4
    <3>5. QED BY <3>3, <3>4
  <2>8. g = [k \in 1 .. n + 1 |-> g[k]]
    OBVIOUS
  <2>. HIDE DEF g
  <2>9. Upto(g, n + 1)
    BY <2>7, <2>8
  <2>10. n + 1 \in 1 .. L
    BY <1>1, <1>3
  <2>11. QED BY <2>9, <2>10
<1>4. CASE L = 0
  <2>1. DOMAIN text = {}
    BY <1>1, <1>4
  <2>. DEFINE f == [n \in DOMAIN text |-> 0]
  <2>2. f = [n \in DOMAIN text |-> ReadingAt(text, f, n)]
    BY <2>1
  <2>3. QED BY <2>2
<1>5. CASE L # 0
  <2>1. L \in 1 .. L
    BY <1>1, <1>5
  <2>. HIDE DEF G
  <2>2. L \in G
    BY <1>1, <1>2, <1>3, <2>1, FromOneOn
  <2>. USE DEF G
  <2>3. PICK f : Upto(f, L)
    BY <2>2
  <2>4. QED BY <1>1, <2>3
<1>6. QED BY <1>4, <1>5

LEMMA ReadingsAre ==
    ASSUME NEW text, IsText(text), NEW n \in DOMAIN text
    PROVE  Readings(text)[n] = ReadingAt(text, Readings(text), n)
<1>. DEFINE f == [k \in DOMAIN text |-> ReadingAt(text, Readings(text), k)]
<1>1. Readings(text) = CHOOSE g : g = [k \in DOMAIN text |-> ReadingAt(text, g, k)]
  BY DEF Readings, ReadingAt
<1>2. Readings(text) = f
  BY <1>1, ReadingsExist
<1>3. f[n] = ReadingAt(text, Readings(text), n)
  OBVIOUS
<1>. HIDE DEF f
<1>4. QED BY <1>2, <1>3

LEMMA ReadingsOf ==
    ASSUME NEW text, IsText(text), NEW n \in DOMAIN text
    PROVE  Readings(text)[n] \in ReadersOf(text)
<1>. DEFINE L == Len(text)
            G == {k \in 1 .. L : Readings(text)[k] \in ReadersOf(text)}
<1>1. L \in Nat /\ DOMAIN text = 1 .. L
  BY DEF IsText
<1>2. 1 <= L => 1 \in G
  <2>1. Reader \in ReadersOf(text)
    BY EmptySeq DEF Reader, ReadersOf, Errors
  <2>2. SUFFICES ASSUME 1 <= L PROVE 1 \in G
    OBVIOUS
  <2>3. 1 \in 1 .. L
    BY <1>1, <2>2
  <2>4. Readings(text)[1] = Reader
    BY <1>1, <2>3, ReadingsAre DEF ReadingAt
  <2>5. QED BY <2>1, <2>3, <2>4
<1>3. ASSUME NEW k \in 1 .. L, k + 1 <= L, k \in G
      PROVE  k + 1 \in G
  <2>1. k + 1 \in 1 .. L /\ k + 1 # 1 /\ (k + 1) - 1 = k
    BY <1>1, <1>3
  <2>2. Readings(text)[k + 1] = Read(Readings(text)[k], text[k + 1])
    BY <1>1, <2>1, ReadingsAre DEF ReadingAt
  <2>3. Read(Readings(text)[k], text[k + 1]) \in ReadersOf(text)
    BY <1>1, <1>3, <2>1, ReadOf
  <2>4. QED BY <2>1, <2>2, <2>3
<1>4. n \in G
  <2>. HIDE DEF G
  <2>1. QED BY <1>1, <1>2, <1>3, FromOneOn
<1>5. QED BY <1>4

\* A file that is accepted gives segments, whose windows lie between its states.
LEMMA ParsedOf ==
    ASSUME NEW text, IsText(text), Parse(text).error = "none"
    PROVE  LET segments == Parse(text).segments IN
           segments \in Seq(SegmentsIn(text)) /\ segments # <<>>
<1>. DEFINE r == Readings(text)[Len(text)]
<1>1. text # <<>> /\ Parse(text) = AtEnd(r)
  <2>1. Fail(Reader, "not oem").error # "none"
    BY DEF Fail, Reader
  <2>2. QED BY <2>1 DEF Parse
<1>2. Len(text) \in DOMAIN text
  BY <1>1 DEF IsText
<1>3. r \in ReadersOf(text)
  BY <1>2, ReadingsOf
<1>. HIDE DEF r
<1>4. Fail(r, "syntax").error = "syntax" /\ Fail(Finish(r), "empty").error = "empty"
  BY <1>3, FinishOf DEF Fail, ReadersOf
<1>5. AtEnd(r) = Finish(r) /\ Finish(r).segments # <<>>
  BY <1>1, <1>4 DEF AtEnd
<1>6. QED BY <1>1, <1>3, <1>5, FinishOf DEF ReadersOf

-----------------------------------------------------------------------------
(* Coverage. *)

LEMMA Extremes ==
    ASSUME NEW L \in Nat, L >= 1, NEW f, \A n \in 1 .. L : f[n] \in Int
    PROVE  LET S == {f[n] : n \in 1 .. L} IN
           \E a, b \in S : \A x \in S : a <= x /\ x <= b
<1>. DEFINE S(n) == {f[k] : k \in 1 .. n}
            G == {n \in 1 .. L : \E a, b \in S(n) : \A x \in S(n) : a <= x /\ x <= b}
<1>1. 1 \in G
  <2>1. 1 \in 1 .. L /\ 1 \in 1 .. 1 /\ \A k \in 1 .. 1 : k = 1
    OBVIOUS
  <2>2. S(1) = {f[1]} /\ f[1] \in Int
    BY <2>1
  <2>3. f[1] <= f[1]
    BY <2>2
  <2>4. \E a, b \in S(1) : \A x \in S(1) : a <= x /\ x <= b
    BY <2>2, <2>3
  <2>5. QED BY <2>1, <2>4
<1>2. ASSUME NEW n \in 1 .. L, n + 1 <= L, n \in G
      PROVE  n + 1 \in G
  <2>1. PICK a \in S(n), b \in S(n) : \A x \in S(n) : a <= x /\ x <= b
    BY <1>2
  <2>2. n + 1 \in 1 .. L /\ \A k \in 1 .. n + 1 : k = n + 1 \/ k \in 1 .. n
    BY <1>2
  <2>3. \A k \in 1 .. n : k \in 1 .. n + 1 /\ k \in 1 .. L
    BY <1>2
  <2>4. S(n + 1) = S(n) \cup {f[n + 1]}
    BY <2>2, <2>3
  <2>5. S(n) \subseteq Int /\ f[n + 1] \in Int
    BY <2>2, <2>3
  <2>. HIDE DEF S
  <2>. DEFINE c == IF f[n + 1] < a THEN f[n + 1] ELSE a
              d == IF f[n + 1] > b THEN f[n + 1] ELSE b
  <2>6. a \in Int /\ b \in Int
    BY <2>5
  <2>7. /\ c \in S(n + 1) /\ d \in S(n + 1)
        /\ c <= a /\ b <= d /\ c <= f[n + 1] /\ f[n + 1] <= d /\ c \in Int /\ d \in Int
    BY <2>4, <2>5, <2>6
  <2>. HIDE DEF c, d
  <2>8. \A x \in S(n + 1) : c <= x /\ x <= d
    BY <2>1, <2>4, <2>5, <2>6, <2>7
  <2>9. QED BY <2>2, <2>7, <2>8
<1>3. L \in G
  <2>1. L \in 1 .. L
    OBVIOUS
  <2>. HIDE DEF G
  <2>2. QED BY <1>1, <1>2, <2>1, FromOneOn
<1>4. QED BY <1>3

LEMMA ExtremesOf ==
    ASSUME NEW L \in Nat, L >= 1, NEW f, \A n \in 1 .. L : f[n] \in Int
    PROVE  LET S == {f[n] : n \in 1 .. L} IN Min(S) \in S /\ Max(S) \in S
<1>. DEFINE S == {f[n] : n \in 1 .. L}
<1>1. PICK a \in S, b \in S : \A x \in S : a <= x /\ x <= b
  BY Extremes
<1>2. S \subseteq Int
  OBVIOUS
<1>. HIDE DEF S
<1>3. (\A x \in S : a <= x) /\ (\A x \in S : b >= x)
  BY <1>1, <1>2
<1>4. Min(S) \in S /\ Max(S) \in S
  BY <1>3 DEF Min, Max
<1>5. QED BY <1>4 DEF S

\* A file is not fresh when all of its states are past, or all are to come.
LEMMA CoverageOf ==
    ASSUME NEW text, IsText(text), Parse(text).error = "none", NEW t \in Int
    PROVE  LET cov == Coverage(Parse(text).segments) IN
           /\ (\A e \in EpochsOf(text) : e < t) => t > cov.stop
           /\ (\A e \in EpochsOf(text) : e > t) => t < cov.start
<1>. DEFINE s == Parse(text).segments
            starts == {s[n].start : n \in DOMAIN s}
            stops == {s[n].stop : n \in DOMAIN s}
            L == Len(s)
<1>1. s \in Seq(SegmentsIn(text)) /\ s # <<>>
  BY ParsedOf
<1>. HIDE DEF s
<1>2. L \in Nat /\ DOMAIN s = 1 .. L /\ L >= 1
  BY <1>1, LenProperties, EmptySeq
<1>3. \A n \in 1 .. L : /\ s[n].start \in Int /\ s[n].stop \in Int
                        /\ \E a, b \in EpochsIn(text) : a <= s[n].start /\ s[n].stop <= b
  <2>1. \A n \in 1 .. L : s[n] \in SegmentsIn(text)
    BY <1>1, ElementOfSeq
  <2>2. QED BY <2>1 DEF SegmentsIn, Builders, Inside
<1>4. Min(starts) \in starts
  <2>. DEFINE f == [n \in 1 .. L |-> s[n].start]
              F == {f[n] : n \in 1 .. L}
  <2>1. \A n \in 1 .. L : f[n] \in Int /\ f[n] = s[n].start
    BY <1>3
  <2>2. F = starts
    BY <1>2, <2>1
  <2>. HIDE DEF f, starts
  <2>3. Min(F) \in F
    BY <1>2, <2>1, ExtremesOf
  <2>4. QED BY <2>2, <2>3
<1>5. Max(stops) \in stops
  <2>. DEFINE f == [n \in 1 .. L |-> s[n].stop]
              F == {f[n] : n \in 1 .. L}
  <2>1. \A n \in 1 .. L : f[n] \in Int /\ f[n] = s[n].stop
    BY <1>3
  <2>2. F = stops
    BY <1>2, <2>1
  <2>. HIDE DEF f, stops
  <2>3. Max(F) \in F
    BY <1>2, <2>1, ExtremesOf
  <2>4. QED BY <2>2, <2>3
<1>6. Coverage(s).start = Min(starts) /\ Coverage(s).stop = Max(stops)
  BY DEF Coverage
<1>7. PICK n \in 1 .. L : Coverage(s).start = s[n].start
  BY <1>2, <1>4, <1>6
<1>8. PICK m \in 1 .. L : Coverage(s).stop = s[m].stop
  BY <1>2, <1>5, <1>6
<1>9. PICK a \in EpochsIn(text) : a <= Coverage(s).start
  BY <1>3, <1>7
<1>10. PICK b \in EpochsIn(text) : Coverage(s).stop <= b
  BY <1>3, <1>8
<1>11. Coverage(s).start \in Int /\ Coverage(s).stop \in Int
  BY <1>3, <1>7, <1>8
<1>12. QED BY <1>9, <1>10, <1>11 DEF EpochsIn, s

-----------------------------------------------------------------------------
(* Where a document that is accepted has its orbit data. *)

LEMMA DefaultStation ==
    /\ "station" \in DOMAIN Default
    /\ Sources \subseteq DOMAIN Default["station"]
    /\ Default["station"]["tle_inline"] = 2000
<1>1. PICK g : Default["station"] = Over(SourceDefault, g) /\ "station" \in DOMAIN Default
  BY DEF Default
<1>2. DOMAIN SourceDefault = Sources /\ SourceDefault["tle_inline"] = 2000
  BY DEF SourceDefault, Sources
<1>3. QED BY <1>1, <1>2, OverValues DEF Sources

\* The text of a TLE that was read: its age, or nothing that parses.
TleTexts == {Garbled, Empty} \cup Int

SetsTle(d) == "station" \in DOMAIN d /\ "tle_inline" \in DOMAIN d["station"]
SourceOK(d) == SetsTle(d) => d["station"]["tle_inline"] \in {Mistyped} \cup TleTexts

LEMMA LoadsFit ==
    ASSUME NEW d, NEW k, Loads(d, k), k.config # "absent"
    PROVE  /\ \A t \in DOMAIN d : \A x \in DOMAIN d[t] : Fits(t, x, d[t][x])
           /\ Failing(Settings(d), k) = {}
<1>1. Misfits(d) = {} /\ Failing(Settings(d), k) = {}
  BY DEF Loads
<1>2. SUFFICES ASSUME NEW t \in DOMAIN d, NEW x \in DOMAIN d[t], ~Fits(t, x, d[t][x])
               PROVE  <<t, x>> \in Misfits(d)
  BY <1>1
<1>. DEFINE Row(u) == {<<u, y>> : y \in {y \in DOMAIN d[u] : ~Fits(u, y, d[u][y])}}
<1>3. <<t, x>> \in Row(t)
  BY <1>2
<1>4. Misfits(d) = UNION {Row(u) : u \in DOMAIN d}
  BY DEF Misfits
<1>. HIDE DEF Row
<1>5. QED BY <1>3, <1>4

LEMMA LoadsSource ==
    ASSUME NEW d, NEW k, SourceOK(d), Loads(d, k), k.tle.text \in TleTexts
    PROVE  LET c == Loaded(d, k) IN ~UsesOem(c) => TleText(c, k) \in TleTexts
<1>. DEFINE c == Loaded(d, k)
<1>1. SUFFICES ASSUME ~UsesOem(c), c["station"]["tle_file"] = Unset
               PROVE  c["station"]["tle_inline"] \in TleTexts
  BY DEF TleText
<1>2. CASE k.config = "absent"
  BY <1>2, DefaultStation DEF Loaded, TleTexts
<1>3. CASE k.config # "absent" /\ "station" \notin DOMAIN d
  <2>1. c["station"] = Default["station"]
    BY <1>3, DefaultStation DEF Loaded, Settings
  <2>2. QED BY <2>1, DefaultStation DEF TleTexts
<1>4. CASE k.config # "absent" /\ "station" \in DOMAIN d
  <2>. DEFINE base == [Default["station"] EXCEPT !.tle_inline = Unset]
  <2>1. c = Settings(d) /\ c["station"] = Over(d["station"], base)
    BY <1>4, DefaultStation DEF Loaded, Settings
  <2>2. "tle_inline" \in DOMAIN base /\ base["tle_inline"] = Unset
    BY DefaultStation DEF Sources
  <2>. HIDE DEF base
  <2>3. Given(c) # {}
    <3>1. 3 \in DOMAIN Checks(c, k) /\ Checks(c, k)[3].bad = (Given(c) = {})
      <4>. DEFINE b == Given(c) = {}
      <4>1. Checks(c, k)[3] = Check(b, "CG-124", "station", Sources)
        BY ChecksFit
      <4>. HIDE DEF b
      <4>2. Checks(c, k)[3].bad = b
        BY <4>1 DEF Check
      <4>3. QED BY <4>2, ChecksFit DEF b
    <3>2. QED BY <1>4, <2>1, <3>1, LoadsFit DEF Failing
  <2>4. c["station"]["tle_inline"] # Unset
    BY <1>1, <2>3 DEF Given, Sources, UsesOem
  <2>5. "tle_inline" \in DOMAIN d["station"]
    BY <2>1, <2>2, <2>4, OverValues
  <2>6. c["station"]["tle_inline"] = d["station"]["tle_inline"]
    BY <2>1, <2>5, OverValues
  <2>7. d["station"]["tle_inline"] # Mistyped
    BY <1>4, <2>5, LoadsFit DEF Fits
  <2>8. QED BY <1>4, <2>5, <2>6, <2>7 DEF SourceOK, SetsTle
<1>5. QED BY <1>2, <1>3, <1>4

\* What the advice makes of it.
LEMMA EditedSource ==
    ASSUME NEW d, SourceOK(d), NEW way,
           way.table # "station" \/ way.op \in {"set", "delete", "keep"}
    PROVE  SourceOK(Edited(d, way))
<1>. DEFINE e == Edited(d, way)
<1>1. CASE way.table # "station"
  <2>1. PICK new : e = Over(Single(way.table, new), d)
    BY DEF Edited
  <2>2. "station" \notin DOMAIN Single(way.table, new)
    BY <1>1 DEF Single
  <2>3. QED BY <2>1, <2>2, OverValues DEF SourceOK, SetsTle
<1>2. CASE way.table = "station" /\ way.op \in {"set", "delete", "keep"}
  <2>. DEFINE table == IF "station" \in DOMAIN d THEN d["station"] ELSE <<>>
              new == CASE way.op = "set" -> With("station", table, way.keys)
                       [] way.op = "delete" -> Without(table, way.keys)
                       [] way.op = "keep" -> Without(table, Sources \ way.keys)
                       [] way.op = "next" -> Over(Single(way.key, NextPort(way.addr)), table)
              Fine(f) == "tle_inline" \in DOMAIN f => f["tle_inline"] \in {Mistyped} \cup TleTexts
  <2>1. e = Over(Single("station", new), d)
    BY <1>2 DEF Edited
  <2>2. "station" \in DOMAIN e /\ e["station"] = new
    <3>. HIDE DEF new
    <3>1. "station" \in DOMAIN Single("station", new) /\ Single("station", new)["station"] = new
      BY DEF Single
    <3>2. QED BY <2>1, <3>1, OverValues
  <2>3. Fine(table)
    <3>1. "tle_inline" \notin DOMAIN <<>>
      OBVIOUS
    <3>2. QED BY <3>1 DEF SourceOK, SetsTle
  <2>4. \A f, keys : Fine(f) => Fine(Without(f, keys))
    BY DEF Without
  <2>5. \A f, keys : Fine(f) => Fine(With("station", f, keys))
    <3>1. SUFFICES ASSUME NEW f, NEW keys, Fine(f)
                   PROVE  Fine(With("station", f, keys))
      OBVIOUS
    <3>. DEFINE offers == [x \in keys |-> Offered("station", x)]
    <3>2. Offered("station", "tle_inline") \in TleTexts
      BY DefaultStation DEF Offered, TleTexts
    <3>3. Fine(offers)
      BY <3>2
    <3>4. With("station", f, keys) = Over(offers, f)
      BY DEF With
    <3>. HIDE DEF offers
    <3>5. QED BY <3>1, <3>3, <3>4, OverValues
  <2>6. Fine(new)
    <3>1. \/ new = With("station", table, way.keys) \/ new = Without(table, way.keys)
          \/ new = Without(table, Sources \ way.keys)
          \/ new = With("station", Without(table, Sources), way.keys)
      BY <1>2
    <3>. HIDE DEF new, table, Fine
    <3>2. QED BY <2>3, <2>4, <2>5, <3>1
  <2>7. QED BY <2>2, <2>6 DEF SourceOK, SetsTle
<1>3. QED BY <1>1, <1>2

-----------------------------------------------------------------------------
(* The inductive invariant of what is told. *)

\* The files keep the form they had, and their data.
FilesOK(k) ==
    /\ {"config", "tle", "oem"} \subseteq DOMAIN k /\ {"read", "text"} \subseteq DOMAIN k.tle
    /\ k.tle.text \in TleTexts /\ IsText(k.oem.text)
SameData(k, l) ==
    /\ l.oem = k.oem /\ l.tle.text = k.tle.text
    /\ l.config = "absent" <=> k.config = "absent"

Configured == {"udp", "track", "fresh", "rf", "http", "history", "running", "draining"}
Tracked == Configured \ {"udp", "track"}
Checked == Tracked \ {"fresh"}
Untracked == {"load", "udp", "track"}

\* A copy's provider is what its settings name, or it said why there is none;
\* and what it read a second time, it has reported on.
OrbitOK(i) ==
    LET c == Config(i) IN
    /\ stage[i] \in Configured /\ ~UsesOem(c) => TleText(c, disk) \in TleTexts
    /\ stage[i] \in Untracked => orbit[i] = NoOrbit
    /\ stage[i] = "fresh" => ~orbit[i].checked
    /\ stage[i] \in Tracked =>
          /\ orbit[i].source \in {"none", "oem", "tle"}
          /\ orbit[i].source = "none" => said[i] \cap TrackingCodes # {}
          /\ orbit[i].source = "oem" =>
                UsesOem(c) /\ disk.oem.read = "ok" /\ Parse(disk.oem.text).error = "none"
          /\ orbit[i].source = "tle" => ~UsesOem(c) /\ TleText(c, disk) \notin {Garbled, Empty}
    /\ stage[i] \in Checked /\ (orbit[i].source = "tle" => orbit[i].checked)
            /\ orbit[i].source # "none" =>
          FreshnessCode(c, disk, now) \in {"none"} \cup said[i]

\* The advice about a port is about one that the gateway listens on.
PortAdvice(i) == At(i, "refused") /\ problem[i].code = "CG-201" => problem[i].table # "station"

ToldInv ==
    /\ OfCopies(said) /\ OfCopies(orbit)
    /\ now \in Int /\ FilesOK(disk)
    /\ \A i \in Inst : SourceOK(doc[i]) /\ OrbitOK(i) /\ PortAdvice(i)

LEMMA MendedSource ==
    ASSUME NEW d, SourceOK(d), NEW k, FilesOK(k), NEW p, NEW way \in FirstFix(p),
           p.code = "CG-201" => p.table # "station",
           p.code = "CG-120" => k.config # "absent"
    PROVE  LET after == Mended([doc |-> d, disk |-> k], way) IN
           SourceOK(after.doc) /\ FilesOK(after.disk) /\ SameData(k, after.disk)
<1>. DEFINE after == Mended([doc |-> d, disk |-> k], way)
<1>1. CASE way.op = "repair"
  <2>1. after.doc = d /\ after.disk = RepairedDisk(k, way.table)
    BY <1>1 DEF Mended
  <2>2. /\ way.table \in {"tle", "folder", "port", "config"}
        /\ way.table = "config" => p.code = "CG-120"
    BY <1>1, Ways DEF PickNext
  <2>3. FilesOK(RepairedDisk(k, way.table)) /\ SameData(k, RepairedDisk(k, way.table))
    <3>1. CASE way.table = "port"
      BY <3>1 DEF RepairedDisk, SameData
    <3>2. CASE way.table = "folder"
      BY <3>2 DEF RepairedDisk, SameData, FilesOK
    <3>3. CASE way.table = "config"
      BY <2>2, <3>3 DEF RepairedDisk, SameData, FilesOK
    <3>4. CASE way.table = "tle"
      BY <3>4 DEF RepairedDisk, SameData, FilesOK
    <3>5. QED BY <2>2, <3>1, <3>2, <3>3, <3>4
  <2>4. QED BY <2>1, <2>3
<1>2. CASE way.op # "repair"
  <2>1. after.doc = Edited(d, way) /\ after.disk = k
    BY <1>2 DEF Mended
  <2>2. way.table # "station" \/ way.op \in {"set", "delete", "keep"}
    BY <1>2, Ways DEF PickNext
  <2>3. QED BY <2>1, <2>2, EditedSource DEF SameData
<1>3. QED BY <1>1, <1>2

-----------------------------------------------------------------------------
(* What an action leaves as it is. *)

LEMMA SameSettings ==
    ASSUME NEW i \in Inst, doc'[i] = doc[i], SameData(disk, disk')
    PROVE  /\ Config(i)' = Config(i)
           /\ \A c : TleText(c, disk') = TleText(c, disk)
           /\ now' = now => \A c : FreshnessCode(c, disk', now') = FreshnessCode(c, disk, now)
<1>1. Config(i)' = Config(i)
  BY DEF Config, Loaded, SameData
<1>2. \A c : TleText(c, disk') = TleText(c, disk)
  BY DEF TleText, SameData
<1>3. now' = now => \A c : FreshnessCode(c, disk', now') = FreshnessCode(c, disk, now)
  BY <1>2 DEF FreshnessCode, SameData
<1>4. QED BY <1>1, <1>2, <1>3

\* A copy whose provider and words stay, and that skips neither reading.
Forward(i) ==
    /\ doc'[i] = doc[i] /\ said'[i] = said[i] /\ orbit'[i] = orbit[i]
    /\ stage'[i] \in Configured => stage[i] \in Configured
    /\ stage'[i] \in Tracked => stage[i] \in Tracked
    /\ stage'[i] \in Checked => stage[i] \in Checked
    /\ stage'[i] \in Untracked => stage[i] \in Untracked
    /\ stage'[i] = "fresh" => stage[i] = "fresh"

LEMMA ForwardKeeps ==
    ASSUME NEW i \in Inst, OrbitOK(i), Forward(i), SameData(disk, disk'), now' = now
    PROVE  OrbitOK(i)'
<1>1. /\ Config(i)' = Config(i) /\ TleText(Config(i), disk') = TleText(Config(i), disk)
      /\ FreshnessCode(Config(i), disk', now') = FreshnessCode(Config(i), disk, now)
  BY SameSettings DEF Forward
<1>2. disk'.oem = disk.oem
  BY DEF SameData
<1>3. QED BY <1>1, <1>2 DEF OrbitOK, Forward

\* An action of one copy that is not the mending of its document.
LEMMA OneForward ==
    ASSUME ToldInv, NEW i \in Inst, UNCHANGED <<doc, disk, now>>,
           OfCopies(said'), OfCopies(orbit'),
           \A j \in Inst \ {i} : /\ stage'[j] = stage[j] /\ problem'[j] = problem[j]
                                 /\ said'[j] = said[j] /\ orbit'[j] = orbit[j],
           OrbitOK(i)', PortAdvice(i)'
    PROVE  ToldInv'
<1>1. SameData(disk, disk')
  BY DEF SameData
<1>2. \A j \in Inst \ {i} : OrbitOK(j)'
  BY <1>1, ForwardKeeps DEF ToldInv, Forward
<1>3. \A j \in Inst \ {i} : PortAdvice(j)'
  BY DEF ToldInv, PortAdvice, At
<1>4. QED BY <1>2, <1>3 DEF ToldInv

\* The actions that do not touch orbit data.
LEMMA OtherStep ==
    ASSUME StInv, ToldInv, NEW i \in Inst,
           \/ Begin(i) \/ OpenHistory(i) \/ \E l \in Listener : Bind(i, l)
           \/ Stop(i) \/ Release(i) \/ CloseHistory(i) \/ Exit(i)
    PROVE  ToldInv'
<1>. DEFINE others == \A j \in Inst \ {i} : /\ stage'[j] = stage[j] /\ problem'[j] = problem[j]
                                            /\ said'[j] = said[j] /\ orbit'[j] = orbit[j]
<1>1. PerCopy /\ OfCopies(said) /\ OfCopies(orbit) /\ OrbitOK(i) /\ PortAdvice(i)
  BY DEF StInv, ToldInv
<1>2. SUFFICES /\ UNCHANGED <<doc, disk, now>> /\ OfCopies(said') /\ OfCopies(orbit')
               /\ others /\ OrbitOK(i)' /\ PortAdvice(i)'
  BY OneForward
<1>3. SameData(disk, disk)
  BY DEF SameData
<1>4. CASE Begin(i)
  <2>1. /\ stage'[i] = "load" /\ orbit'[i] = NoOrbit
        /\ UNCHANGED <<doc, disk, now>> /\ OfCopies(said') /\ OfCopies(orbit') /\ others
    BY <1>1, <1>4 DEF Begin, PerCopy, OfCopies
  <2>2. QED BY <2>1 DEF OrbitOK, PortAdvice, At, Configured, Tracked, Checked, Untracked
<1>5. CASE UNCHANGED <<doc, disk, now, said, orbit, problem>> /\ Forward(i)
           /\ (\A j \in Inst \ {i} : stage'[j] = stage[j]) /\ stage'[i] # "refused"
  BY <1>1, <1>3, <1>5, ForwardKeeps DEF PortAdvice, At
<1>6. ASSUME NEW p, Refuse(i, p), UNCHANGED <<doc, disk, now>>,
             p.code = "CG-201" => p.table # "station"
      PROVE  /\ UNCHANGED <<doc, disk, now>> /\ OfCopies(said') /\ OfCopies(orbit')
             /\ others /\ OrbitOK(i)' /\ PortAdvice(i)'
  <2>1. /\ stage'[i] = "refused" /\ problem'[i] = p /\ UNCHANGED <<said, orbit>> /\ others
    BY <1>1, <1>6 DEF Refuse, PerCopy, OfCopies
  <2>2. QED BY <1>1, <1>6, <2>1 DEF OrbitOK, PortAdvice, At, Configured, Tracked, Checked, Untracked
<1>7. CASE OpenHistory(i)
  <2>1. CASE Refuse(i, HistoryProblem)
    BY <1>6, <1>7, <2>1 DEF OpenHistory, HistoryProblem
  <2>2. CASE Proceed(i) /\ UNCHANGED <<problem, said, orbit, holds>>
    <3>1. /\ stage'[i] = "running" /\ stage[i] = "history"
          /\ \A j \in Inst \ {i} : stage'[j] = stage[j]
      BY <1>1, <1>7, <2>2 DEF OpenHistory, Proceed, At, Following, PerCopy, OfCopies
    <3>2. QED BY <1>5, <1>7, <2>2, <3>1
                 DEF OpenHistory, Forward, Configured, Tracked, Checked, Untracked
  <2>3. QED BY <1>7, <2>1, <2>2 DEF OpenHistory
<1>8. ASSUME NEW l \in Listener, Bind(i, l)
      PROVE  /\ UNCHANGED <<doc, disk, now>> /\ OfCopies(said') /\ OfCopies(orbit')
             /\ others /\ OrbitOK(i)' /\ PortAdvice(i)'
  <2>1. CASE Refuse(i, BindProblem(Config(i), l, Bound(l)))
    <3>1. BindProblem(Config(i), l, Bound(l)).table # "station"
      BY DEF BindProblem, TableOf, Listener
    <3>2. QED BY <1>6, <1>8, <2>1, <3>1 DEF Bind
  <2>2. CASE Proceed(i) /\ UNCHANGED <<problem, said, orbit, handle, file>>
    <3>1. /\ stage[i] = l /\ stage'[i] = Following[l] /\ \A j \in Inst \ {i} : stage'[j] = stage[j]
      BY <1>1, <1>8, <2>2 DEF Bind, Proceed, At, PerCopy, OfCopies
    <3>2. Following["udp"] = "track" /\ Following["rf"] = "http" /\ Following["http"] = "history"
      BY DEF Following
    <3>3. l \in {"udp", "http", "rf"}
      BY DEF Listener
    <3>4. Forward(i) /\ stage'[i] # "refused"
      BY <1>8, <2>2, <3>1, <3>2, <3>3 DEF Bind, Forward, Configured, Tracked, Checked, Untracked
    <3>5. QED BY <1>5, <1>8, <2>2, <3>1, <3>4 DEF Bind
  <2>3. QED BY <1>8, <2>1, <2>2 DEF Bind
<1>9. CASE Stop(i) \/ CloseHistory(i) \/ Exit(i)
  <2>1. /\ stage'[i] \in {"draining", "closed", "off"}
        /\ stage'[i] = "draining" => stage[i] = "running"
        /\ \A j \in Inst \ {i} : stage'[j] = stage[j]
        /\ UNCHANGED <<doc, disk, now, said, orbit, problem>>
    BY <1>1, <1>9 DEF Stop, CloseHistory, Exit, At, PerCopy, OfCopies
  <2>2. Forward(i)
    BY <2>1 DEF Forward, Configured, Tracked, Checked, Untracked
  <2>3. QED BY <1>5, <2>1, <2>2
<1>10. CASE Release(i)
  BY <1>5, <1>10 DEF Release, Forward
<1>11. QED BY <1>4, <1>7, <1>8, <1>9, <1>10

LEMMA LoadTold ==
    ASSUME StInv, ToldInv, NEW i \in Inst, Load(i)
    PROVE  ToldInv'
<1>. DEFINE others == \A j \in Inst \ {i} : /\ stage'[j] = stage[j] /\ problem'[j] = problem[j]
                                            /\ said'[j] = said[j] /\ orbit'[j] = orbit[j]
<1>1. /\ PerCopy /\ OfCopies(said) /\ OfCopies(orbit) /\ SourceOK(doc[i]) /\ FilesOK(disk)
      /\ OrbitOK(i)
  BY DEF StInv, ToldInv
<1>2. UNCHANGED <<doc, disk, now>>
  BY DEF Load
<1>3. CASE ~Loads(doc[i], disk) /\ Refuse(i, LoadProblem(doc[i], disk))
  <2>1. LoadProblem(doc[i], disk).code # "CG-201"
    BY <1>3, LoadSpeaks
  <2>2. /\ stage'[i] = "refused" /\ problem'[i] = LoadProblem(doc[i], disk)
        /\ UNCHANGED <<said, orbit>> /\ others
    BY <1>1, <1>3 DEF Refuse, PerCopy, OfCopies
  <2>3. OrbitOK(i)' /\ PortAdvice(i)'
    BY <2>1, <2>2 DEF OrbitOK, PortAdvice, At, Configured, Tracked, Checked, Untracked
  <2>4. QED BY <1>1, <1>2, <2>2, <2>3, OneForward
<1>4. CASE /\ Loads(doc[i], disk) /\ Proceed(i)
           /\ said' = [said EXCEPT ![i] = ConfigWarnings(Config(i))] /\ UNCHANGED <<problem, orbit>>
  <2>1. stage[i] = "load" /\ stage'[i] = "udp" /\ \A j \in Inst \ {i} : stage'[j] = stage[j]
    BY <1>1, <1>4 DEF Load, At, Proceed, Following, PerCopy, OfCopies
  <2>. DEFINE warnings == ConfigWarnings(Config(i))
  <2>2. said' = [said EXCEPT ![i] = warnings]
    BY <1>4
  <2>. HIDE DEF warnings
  <2>3. OfCopies(said') /\ OfCopies(orbit') /\ others
    BY <1>1, <1>4, <2>1, <2>2 DEF OfCopies
  <2>4. ~UsesOem(Config(i)) => TleText(Config(i), disk) \in TleTexts
    BY <1>1, <1>4, LoadsSource DEF Config, FilesOK
  <2>5. Config(i)' = Config(i)
    BY <1>2 DEF Config
  <2>6. OrbitOK(i)' /\ PortAdvice(i)'
    BY <1>1, <1>2, <1>4, <2>1, <2>4, <2>5
       DEF OrbitOK, PortAdvice, At, Configured, Tracked, Checked, Untracked
  <2>7. QED BY <1>2, <2>3, <2>6, OneForward
<1>5. QED BY <1>3, <1>4 DEF Load

LEMMA TrackTold ==
    ASSUME StInv, ToldInv, NEW i \in Inst, Track(i)
    PROVE  ToldInv'
<1>. DEFINE c == Config(i)
            code == TrackingCode(c, disk)
            others == \A j \in Inst \ {i} : /\ stage'[j] = stage[j] /\ problem'[j] = problem[j]
                                            /\ said'[j] = said[j] /\ orbit'[j] = orbit[j]
<1>1. PerCopy /\ OfCopies(said) /\ OfCopies(orbit) /\ OrbitOK(i)
  BY DEF StInv, ToldInv
<1>2. UNCHANGED <<doc, disk, now, problem>> /\ Config(i)' = c
  BY DEF Track, Config
<1>3. stage[i] = "track" /\ stage'[i] = "fresh" /\ \A j \in Inst \ {i} : stage'[j] = stage[j]
  BY <1>1 DEF Track, At, Proceed, Following, PerCopy, OfCopies
<1>4. ~UsesOem(c) => TleText(c, disk) \in TleTexts
  BY <1>1, <1>3 DEF OrbitOK, Configured
<1>5. CASE code # "none"
  <2>1. code \in TrackingCodes
    BY <1>5 DEF TrackingCode, TrackingCodes, OemCode
  <2>2. said' = [said EXCEPT ![i] = @ \cup {code}] /\ orbit' = orbit
    BY <1>5 DEF Track
  <2>3. code \in said'[i] /\ OfCopies(said') /\ OfCopies(orbit') /\ others
    BY <1>1, <1>2, <1>3, <2>2 DEF OfCopies
  <2>4. orbit'[i] = NoOrbit
    BY <1>1, <1>3, <2>2 DEF OrbitOK, Untracked
  <2>5. OrbitOK(i)' /\ PortAdvice(i)'
    <3>. HIDE DEF c, code
    <3>1. orbit'[i].source = "none" /\ ~orbit'[i].checked
      BY <2>4 DEF NoOrbit
    <3>2. QED BY <1>2, <1>3, <1>4, <2>1, <2>3, <3>1
                 DEF OrbitOK, PortAdvice, At, Configured, Tracked, Checked, Untracked
  <2>6. QED BY <1>2, <2>3, <2>5, OneForward
<1>6. CASE code = "none"
  <2>. DEFINE o == [source |-> IF UsesOem(c) THEN "oem" ELSE "tle",
                    segments |-> IF UsesOem(c) THEN Parse(disk.oem.text).segments ELSE <<>>,
                    checked |-> FALSE]
  <2>1. orbit' = [orbit EXCEPT ![i] = o] /\ said' = said
    BY <1>6 DEF Track
  <2>2. orbit'[i] = o /\ OfCopies(said') /\ OfCopies(orbit') /\ others
    <3>. HIDE DEF o
    <3>1. QED BY <1>1, <1>2, <1>3, <2>1 DEF OfCopies
  <2>3. orbit'[i].source = (IF UsesOem(c) THEN "oem" ELSE "tle") /\ ~orbit'[i].checked
    BY <2>2
  <2>4. /\ UsesOem(c) => disk.oem.read = "ok" /\ Parse(disk.oem.text).error = "none"
        /\ ~UsesOem(c) => TleText(c, disk) \notin {Garbled, Empty}
    BY <1>6 DEF TrackingCode, OemCode
  <2>5. OrbitOK(i)' /\ PortAdvice(i)'
    <3>. HIDE DEF c
    <3>1. QED BY <1>2, <1>3, <1>4, <2>3, <2>4
                 DEF OrbitOK, PortAdvice, At, Configured, Tracked, Checked, Untracked
  <2>6. QED BY <1>2, <2>2, <2>5, OneForward
<1>7. QED BY <1>5, <1>6

LEMMA FreshenTold ==
    ASSUME StInv, ToldInv, NEW i \in Inst, Freshen(i)
    PROVE  ToldInv'
<1>. DEFINE c == Config(i)
            fresh == FreshnessCode(c, disk, now)
            others == \A j \in Inst \ {i} : /\ stage'[j] = stage[j] /\ problem'[j] = problem[j]
                                            /\ said'[j] = said[j] /\ orbit'[j] = orbit[j]
<1>1. PerCopy /\ OfCopies(said) /\ OfCopies(orbit) /\ OrbitOK(i)
  BY DEF StInv, ToldInv
<1>2. UNCHANGED <<doc, disk, now, problem>> /\ Config(i)' = c
  BY DEF Freshen, Config
<1>3. stage[i] = "fresh" /\ stage'[i] = "rf" /\ \A j \in Inst \ {i} : stage'[j] = stage[j]
  BY <1>1 DEF Freshen, At, Proceed, Following, PerCopy, OfCopies
<1>4. CASE orbit[i] # NoOrbit /\ TrackingCode(c, disk) = "none"
  <2>1. /\ said' = [said EXCEPT ![i] = @ \cup ({fresh} \ {"none"})]
        /\ orbit' = [orbit EXCEPT ![i].checked = TRUE]
    BY <1>4 DEF Freshen
  <2>. HIDE DEF fresh
  <2>2. /\ said'[i] = said[i] \cup ({fresh} \ {"none"})
        /\ orbit'[i] = [orbit[i] EXCEPT !.checked = TRUE]
        /\ OfCopies(said') /\ OfCopies(orbit') /\ others
    BY <1>1, <1>2, <1>3, <2>1 DEF OfCopies
  <2>3. orbit'[i].source = orbit[i].source
    BY <2>2
  <2>4. said[i] \subseteq said'[i] /\ fresh \in {"none"} \cup said'[i]
    BY <2>2
  <2>5. FreshnessCode(c, disk', now') = fresh
    BY <1>2 DEF fresh
  <2>6. OrbitOK(i)' /\ PortAdvice(i)'
    BY <1>1, <1>2, <1>3, <2>3, <2>4, <2>5
       DEF OrbitOK, PortAdvice, At, Configured, Tracked, Checked, Untracked
  <2>7. QED BY <1>2, <2>2, <2>6, OneForward
<1>5. CASE ~(orbit[i] # NoOrbit /\ TrackingCode(c, disk) = "none")
  <2>1. UNCHANGED <<said, orbit>>
    BY <1>5 DEF Freshen
  <2>2. orbit[i].source # "oem"
    <3>1. SUFFICES ASSUME orbit[i].source = "oem" PROVE FALSE
      OBVIOUS
    <3>2. orbit[i] # NoOrbit
      BY <3>1 DEF NoOrbit
    <3>3. TrackingCode(c, disk) = "none"
      BY <1>1, <1>3, <3>1 DEF OrbitOK, Tracked, Configured, TrackingCode
    <3>4. QED BY <1>5, <3>2, <3>3
  <2>3. ~orbit[i].checked
    BY <1>1, <1>3 DEF OrbitOK
  <2>4. OrbitOK(i)' /\ PortAdvice(i)'
    BY <1>1, <1>2, <1>3, <2>1, <2>2, <2>3
       DEF OrbitOK, PortAdvice, At, Configured, Tracked, Checked, Untracked
  <2>5. QED BY <1>1, <1>2, <1>3, <2>1, <2>4, OneForward
<1>6. QED BY <1>4, <1>5

LEMMA FixTold ==
    ASSUME StInv, ToldInv, NEW i \in Inst, Fix(i)
    PROVE  ToldInv'
<1>. DEFINE p == problem[i]
            after(way) == Mended([doc |-> doc[i], disk |-> disk], way)
<1>1. PICK way \in FirstFix(p) : /\ doc' = [doc EXCEPT ![i] = after(way).doc]
                                 /\ disk' = after(way).disk
  BY DEF Fix
<1>2. /\ PerCopy /\ stage[i] = "refused" /\ Mendable(i) /\ FilesOK(disk) /\ SourceOK(doc[i])
      /\ PortAdvice(i)
  BY DEF StInv, ToldInv, Fix, At
<1>3. /\ stage'[i] = "off" /\ UNCHANGED <<now, said, orbit>>
      /\ \A j \in Inst \ {i} : stage'[j] = stage[j] /\ problem'[j] = problem[j] /\ doc'[j] = doc[j]
      /\ doc'[i] = after(way).doc
  BY <1>1, <1>2 DEF Fix, PerCopy, OfCopies
<1>4. SourceOK(doc'[i]) /\ FilesOK(disk') /\ SameData(disk, disk')
  <2>1. (p.code = "CG-120" => disk.config # "absent") /\ (p.code = "CG-201" => p.table # "station")
    BY <1>2 DEF Mendable, PortAdvice, At
  <2>2. QED BY <1>1, <1>2, <1>3, <2>1, MendedSource
<1>5. \A j \in Inst \ {i} : OrbitOK(j)' /\ PortAdvice(j)' /\ SourceOK(doc'[j])
  BY <1>3, <1>4, ForwardKeeps DEF ToldInv, Forward, PortAdvice, At
<1>6. OrbitOK(i)' /\ PortAdvice(i)'
  BY <1>3 DEF OrbitOK, PortAdvice, At, Configured, Tracked, Checked, Untracked
<1>7. QED BY <1>3, <1>4, <1>5, <1>6 DEF ToldInv, OfCopies

LEMMA TleVanishesTold ==
    ASSUME ToldInv, TleVanishes
    PROVE  ToldInv'
<1>1. /\ disk' = [disk EXCEPT !.tle.read = "missing"]
      /\ UNCHANGED <<doc, now, stage, problem, said, orbit>>
  BY DEF TleVanishes
<1>2. FilesOK(disk') /\ SameData(disk, disk')
  BY <1>1 DEF ToldInv, FilesOK, SameData
<1>3. \A j \in Inst : OrbitOK(j)' /\ PortAdvice(j)'
  BY <1>1, <1>2, ForwardKeeps DEF ToldInv, Forward, PortAdvice, At
<1>4. QED BY <1>1, <1>2, <1>3 DEF ToldInv

\* The inductive invariant of the orbit data: a copy's provider is what its
\* settings name or it said why there is none, and it has reported on what it
\* read a second time.
THEOREM OrbitInvariance == Spec => []ToldInv
<1>1. Init => ToldInv
  <2>1. SUFFICES ASSUME Init
                 PROVE  ToldInv
    OBVIOUS
  <2>2. PICK w \in Worlds :
            /\ doc = [i \in Inst |-> w.doc] /\ disk = w.disk /\ now = w.now
            /\ stage = [i \in Inst |-> IF i = First \/ w.doc \in Shared THEN "off" ELSE "never"]
    BY <2>1 DEF Init
  <2>3. SourceOK(w.doc)
    BY StartupAssumption DEF SourceOK, SetsTle, TleTexts
  <2>4. FilesOK(disk) /\ now \in Int
    BY <2>2, StartupAssumption DEF FilesOK, TleTexts
  <2>5. \A i \in Inst : stage[i] \in {"off", "never"} /\ doc[i] = w.doc
    BY <2>2
  <2>6. \A i \in Inst : OrbitOK(i) /\ PortAdvice(i)
    BY <2>5 DEF OrbitOK, PortAdvice, At, Configured, Tracked, Checked, Untracked
  <2>7. OfCopies(said) /\ OfCopies(orbit)
    BY <2>1 DEF Init, OfCopies
  <2>8. QED BY <2>3, <2>4, <2>5, <2>6, <2>7 DEF ToldInv
<1>2. StInv /\ ToldInv /\ [Next]_vars => ToldInv'
  <2>1. SUFFICES ASSUME StInv, ToldInv, [Next]_vars
                 PROVE  ToldInv'
    OBVIOUS
  <2>2. CASE UNCHANGED vars
    <3>1. UNCHANGED <<doc, disk, now, stage, problem, said, orbit>> /\ SameData(disk, disk')
      BY <2>2 DEF vars, SameData
    <3>2. \A j \in Inst : OrbitOK(j)' /\ PortAdvice(j)'
      BY <2>1, <3>1, ForwardKeeps DEF ToldInv, Forward, PortAdvice, At
    <3>3. QED BY <2>1, <3>1, <3>2 DEF ToldInv
  <2>3. CASE TleVanishes
    BY <2>1, <2>3, TleVanishesTold
  <2>4. ASSUME NEW i \in Inst,
               \/ Begin(i) \/ Load(i) \/ Track(i) \/ Freshen(i) \/ OpenHistory(i)
               \/ \E l \in Listener : Bind(i, l)
               \/ Stop(i) \/ Release(i) \/ CloseHistory(i) \/ Exit(i) \/ Fix(i)
        PROVE  ToldInv'
    BY <2>1, <2>4, OtherStep, LoadTold, TrackTold, FreshenTold, FixTold
  <2>5. QED BY <2>1, <2>2, <2>3, <2>4 DEF Next
<1>3. QED BY <1>1, <1>2, StartupInvariance, PTL DEF Spec

\* A gateway that runs without tracking, or with orbit data that is no longer
\* or not yet good, has said so, whatever its OEM file, of which nothing is
\* known but its lines (main.rs run, check_oem_coverage, check_tle_age and
\* explain_tracking_error of diagnose.rs, OemEphemeris::parse).
THEOREM WhoRunsBlindIsTold == Spec => []Told
<1>1. ToldInv => Told
  <2>1. SUFFICES ASSUME ToldInv, NEW i \in Inst, Started(i)
                 PROVE  ToldBy(i)
    BY DEF Told
  <2>. DEFINE c == Config(i)
  <2>2. /\ stage[i] \in Configured /\ stage[i] \in Tracked /\ stage[i] \in Checked
        /\ OrbitOK(i) /\ now \in Int /\ IsText(disk.oem.text)
    BY <2>1 DEF Started, Configured, Tracked, Checked, ToldInv, FilesOK
  <2>3. orbit[i] = NoOrbit => said[i] \cap TrackingCodes # {}
    BY <2>2 DEF OrbitOK, NoOrbit
  <2>4. ASSUME orbit[i].source = "oem",
               \/ \A t \in EpochsOf(disk.oem.text) : t < now
               \/ \A t \in EpochsOf(disk.oem.text) : t > now
        PROVE  "CG-322" \in said[i]
    <3>1. /\ UsesOem(c) /\ Parse(disk.oem.text).error = "none"
          /\ FreshnessCode(c, disk, now) \in {"none"} \cup said[i]
      BY <2>2, <2>4 DEF OrbitOK
    <3>2. FreshnessCode(c, disk, now) = "CG-322"
      BY <2>2, <2>4, <3>1, CoverageOf DEF FreshnessCode
    <3>3. QED BY <3>1, <3>2
  <2>5. ASSUME orbit[i].source = "tle", orbit[i].checked, TleText(c, disk) \notin -1 .. 3
        PROVE  said[i] \cap {"CG-301", "CG-302", "CG-303"} # {}
    <3>1. /\ ~UsesOem(c) /\ TleText(c, disk) \in TleTexts \ {Garbled, Empty}
          /\ FreshnessCode(c, disk, now) \in {"none"} \cup said[i]
      BY <2>2, <2>5 DEF OrbitOK
    <3>2. TleText(c, disk) \in Int /\ ~(-1 <= TleText(c, disk) /\ TleText(c, disk) <= 3)
      BY <2>5, <3>1 DEF TleTexts
    <3>3. AgeCode(TleText(c, disk)) \in {"CG-301", "CG-302", "CG-303"}
      BY <3>2 DEF AgeCode, TLE_DOPPLER_DAYS, TLE_STALE_DAYS
    <3>4. QED BY <3>1, <3>3 DEF FreshnessCode
  <2>6. QED BY <2>3, <2>4, <2>5 DEF ToldBy
<1>2. QED BY <1>1, OrbitInvariance, PTL
=============================================================================
