--------------------------- MODULE GatewayProofs ---------------------------
(* Nothing is lost in silence, a dashboard has no hole, and the history is  *)
(* closed last, for every number of clients, capacity and bound.            *)
EXTENDS Gateway, FiniteSetTheorems, TLAPS

(***************************************************************************)
(* The inductive invariant.                                                *)
(***************************************************************************)

\* What is recorded is what is sent, but for the message in hand.
PipeOK ==
    /\ received \in 0 .. MaxDatagrams /\ fpos \in 0 .. received
    /\ handled \in Nat /\ lagged \in Nat /\ handled + lagged = fpos
    /\ todo \in 0 .. MaxPerFrame
    /\ recorded \in Nat /\ published \in Nat /\ telTail \in Nat
    /\ recorded + todo <= MaxMessages
    /\ inHand => recorded = telTail + 1
    /\ ~inHand => recorded = telTail

\* What has ended by the time main waits for what.
LifeOK ==
    /\ cancelled \in BOOLEAN /\ ingestOn \in BOOLEAN /\ pipelineOn \in BOOLEAN
    /\ historyOpen \in BOOLEAN /\ inHand \in BOOLEAN
    /\ main \in {"server", "ingest", "pipeline", "history", "exit"}
    /\ main \in {"pipeline", "history", "exit"} => ~ingestOn
    /\ main \in {"history", "exit"} => ~pipelineOn
    /\ ~historyOpen => main \in {"history", "exit"}
    /\ ~pipelineOn => todo = 0 /\ ~inHand

ClientTypes ==
    /\ relay \in [Clients -> States] /\ peerOpen \in [Clients -> BOOLEAN]
    /\ joined \in [Clients -> Nat] /\ pos \in [Clients -> Nat]
    /\ got \in [Clients -> SUBSET Nat] /\ page \in [Clients -> SUBSET Nat]
    /\ truncated \in [Clients -> BOOLEAN] /\ asked \in [Clients -> {"no", "early", "yes"}]
    /\ wsSent \in Nat /\ wsDropped \in Nat

\* What the ring holds after r messages, and the answer to a query made then.
Held(r) == {m \in 1 .. r : m + HistCap > r}
Answer(k, r, found, more) ==
    found = {m \in Held(r) : m + k > r} /\ (more <=> \E m \in Held(r) : m + k <= r)
Answered(r, found, more) == \E k \in Nat \ {0} : Answer(k, r, found, more)

\* The receiver's messages have reached the client but for the one being sent, and
\* a query made after the subscription began no later than the receiver.
ClientOK(c) ==
    /\ joined[c] <= pos[c] /\ pos[c] <= telTail
    /\ got[c] \subseteq 1 .. telTail /\ page[c] \subseteq 1 .. recorded
    /\ relay[c] \in {"none", "gone"} => ~peerOpen[c]
    /\ relay[c] \in {"none", "started", "counted"} => pos[c] = 0 /\ asked[c] # "yes"
    /\ relay[c] = "sending" => pos[c] > 0
    /\ asked[c] = "yes" => \E r \in joined[c] .. recorded : Answered(r, page[c], truncated[c])
    /\ peerOpen[c] /\ wsDropped = 0 =>
          \A m \in joined[c] + 1 .. pos[c] : m \in got[c] \/ (m = pos[c] /\ relay[c] = "sending")

ClientsOK == ClientTypes /\ \A c \in Clients : ClientOK(c)

On(states) == {c \in Clients : relay[c] \in states}
Gauged == {"counted", "idle", "sending"}

AccountOK ==
    /\ connected = Cardinality(On(Gauged))
    /\ Cardinality(Passed) \in
          wsSent + wsDropped + Cardinality(On({"sending"}))
            .. wsSent + wsDropped + Cardinality(On({"sending", "gone"}))

GInv == PipeOK /\ LifeOK /\ ClientsOK /\ AccountOK

-----------------------------------------------------------------------------
(* Counting relays and messages. *)

LEMMA Finite ==
    ASSUME NEW states
    PROVE  IsFiniteSet(On(states)) /\ Cardinality(On(states)) \in Nat
<1>1. On(states) \in SUBSET Clients
  BY DEF On
<1>2. IsFiniteSet(On(states))
  BY <1>1, FS_Subset, GatewayAssumption
<1>3. QED BY <1>2, FS_CardinalityType

LEMMA HeadCount ==
    ASSUME NEW c \in Clients, NEW state, NEW states,
           relay \in [Clients -> States], relay' = [relay EXCEPT ![c] = state]
    PROVE  /\ (relay[c] \in states <=> state \in states) =>
                Cardinality(On(states))' = Cardinality(On(states))
           /\ relay[c] \notin states /\ state \in states =>
                Cardinality(On(states))' = Cardinality(On(states)) + 1
           /\ relay[c] \in states /\ state \notin states =>
                Cardinality(On(states))' = Cardinality(On(states)) - 1
<1>1. IsFiniteSet(On(states))
  BY Finite
<1>2. (relay[c] \in states <=> state \in states) => On(states)' = On(states)
  BY DEF On
<1>3. relay[c] \notin states /\ state \in states =>
        On(states)' = On(states) \cup {c} /\ c \notin On(states)
  BY DEF On
<1>4. relay[c] \in states /\ state \notin states =>
        On(states)' = On(states) \ {c} /\ c \in On(states)
  BY DEF On
<1>5. QED BY <1>1, <1>2, <1>3, <1>4, FS_AddElement, FS_RemoveElement

LEMMA PassedFinite ==
    ASSUME telTail \in Nat
    PROVE  IsFiniteSet(Passed) /\ Cardinality(Passed) \in Nat
<1>1. IsFiniteSet(1 .. telTail)
  BY FS_Interval
<1>2. IsFiniteSet(Clients \X (1 .. telTail))
  BY <1>1, FS_Product, GatewayAssumption
<1>3. Passed \in SUBSET (Clients \X (1 .. telTail))
  BY DEF Passed
<1>4. IsFiniteSet(Passed)
  BY <1>2, <1>3, FS_Subset
<1>5. QED BY <1>4, FS_CardinalityType

\* A receiver that goes on by some messages passes as many.
LEMMA PassesMore ==
    ASSUME NEW c \in Clients, NEW n \in Nat, telTail \in Nat, UNCHANGED <<telTail, joined>>,
           ClientTypes, joined[c] <= pos[c], pos[c] <= n, n <= telTail,
           pos' = [pos EXCEPT ![c] = n]
    PROVE  Cardinality(Passed)' = Cardinality(Passed) + (n - pos[c])
<1> DEFINE More == {c} \X (pos[c] + 1 .. n)
<1>1. pos[c] \in Nat /\ joined[c] \in Nat
  BY DEF ClientTypes
<1>2. IsFiniteSet(pos[c] + 1 .. n) /\ Cardinality(pos[c] + 1 .. n) = n - pos[c]
  <2>1. pos[c] + 1 \in Int /\ n \in Int
    BY <1>1
  <2>2. /\ IsFiniteSet(pos[c] + 1 .. n)
        /\ Cardinality(pos[c] + 1 .. n) = IF pos[c] + 1 > n THEN 0 ELSE n - (pos[c] + 1) + 1
    BY <2>1, FS_Interval
  <2>3. QED BY <1>1, <2>2
<1>3. IsFiniteSet({c}) /\ Cardinality({c}) = 1
  BY FS_Singleton
<1>4. IsFiniteSet(More) /\ Cardinality(More) = n - pos[c]
  <2>1. IsFiniteSet(More) /\ Cardinality(More) = Cardinality({c}) * Cardinality(pos[c] + 1 .. n)
    BY <1>2, <1>3, FS_Product
  <2>2. n - pos[c] \in Int
    BY <1>1
  <2>3. 1 * (n - pos[c]) = n - pos[c]
    BY <2>2
  <2>4. QED BY <1>2, <1>3, <2>1, <2>3
<1>5. Passed' = Passed \cup More
  <2>1. ASSUME NEW x PROVE x \in Passed' <=> x \in Passed \cup More
    <3>1. CASE x \in Clients \X (1 .. telTail)
      <4>1. x = <<x[1], x[2]>> /\ x[1] \in Clients /\ x[2] \in 1 .. telTail
        BY <3>1
      <4>2. x \in More <=> x[1] = c /\ x[2] \in pos[c] + 1 .. n
        BY <4>1
      <4>3. CASE x[1] = c
        BY <1>1, <3>1, <4>1, <4>2, <4>3 DEF Passed, ClientTypes
      <4>4. CASE x[1] # c
        BY <3>1, <4>1, <4>2, <4>4 DEF Passed, ClientTypes
      <4>5. QED BY <4>3, <4>4
    <3>2. CASE x \notin Clients \X (1 .. telTail)
      <4>1. More \subseteq Clients \X (1 .. telTail)
        BY <1>1
      <4>2. QED BY <3>2, <4>1 DEF Passed
    <3>3. QED BY <3>1, <3>2
  <2>2. QED BY <2>1
<1>6. Passed \cap More = {}
  BY <1>1 DEF Passed
<1>7. Cardinality(Passed \cap More) = 0
  BY <1>6, FS_EmptySet
<1>8. QED BY <1>1, <1>4, <1>5, <1>7, PassedFinite, FS_Union

-----------------------------------------------------------------------------
(* Induction: the start, and the steps that no client takes part in. *)

LEMMA Initially == Init => GInv
<1> SUFFICES ASSUME Init PROVE GInv
  OBVIOUS
<1>1. PipeOK
  <2>1. received = 0 /\ fpos = 0 /\ handled = 0 /\ lagged = 0 /\ todo = 0 /\ inHand = FALSE
        /\ recorded = 0 /\ published = 0 /\ telTail = 0
    BY DEF Init
  <2>2. QED BY <2>1, GatewayAssumption DEF PipeOK
<1>2. LifeOK
  BY DEF Init, LifeOK
<1>3. ClientsOK
  <2>1. ClientTypes
    BY DEF Init, ClientTypes, States
  <2>2. ASSUME NEW c \in Clients PROVE ClientOK(c)
    BY DEF Init, ClientOK
  <2>3. QED BY <2>1, <2>2 DEF ClientsOK
<1>4. AccountOK
  <2>1. \A states : "none" \notin states => On(states) = {}
    BY DEF Init, On
  <2>2. On(Gauged) = {} /\ On({"sending"}) = {} /\ On({"sending", "gone"}) = {}
    BY <2>1 DEF Gauged
  <2>3. telTail = 0 /\ connected = 0 /\ wsSent = 0 /\ wsDropped = 0
    BY DEF Init
  <2>4. Passed = {}
    BY <2>3 DEF Passed
  <2>5. Cardinality({}) = 0
    BY FS_EmptySet
  <2>6. 0 \in 0 + 0 + 0 .. 0 + 0 + 0
    OBVIOUS
  <2>7. QED BY <2>2, <2>3, <2>4, <2>5, <2>6 DEF AccountOK
<1>5. QED BY <1>1, <1>2, <1>3, <1>4 DEF GInv

\* What is known of clients depends on theirs and on the messages there are.
LEMMA ClientsKept ==
    ASSUME ClientsOK, AccountOK, UNCHANGED client, telTail \in Nat, telTail' \in Nat,
           telTail' >= telTail, recorded' \in Nat, recorded \in Nat, recorded' >= recorded
    PROVE  ClientsOK' /\ AccountOK'
<1>1. UNCHANGED <<relay, peerOpen, joined, pos, got, page, truncated, asked, connected, wsSent, wsDropped>>
  BY DEF client
<1>2. ClientTypes'
  BY <1>1 DEF ClientsOK, ClientTypes
<1>3. ASSUME NEW c \in Clients PROVE ClientOK(c)'
  <2>1. ClientOK(c) /\ joined[c] \in Nat /\ pos[c] \in Nat
    BY DEF ClientsOK, ClientTypes
  <2>2. asked[c] = "yes" => \E r \in joined[c] .. recorded' : Answered(r, page[c], truncated[c])
    BY <2>1 DEF ClientOK
  <2>3. pos[c] <= telTail' /\ got[c] \subseteq 1 .. telTail' /\ page[c] \subseteq 1 .. recorded'
    BY <2>1 DEF ClientOK
  <2>4. QED BY <1>1, <2>1, <2>2, <2>3 DEF ClientOK
<1>4. Passed' = Passed
  <2>1. \A c \in Clients : pos[c] \in Nat /\ joined[c] \in Nat /\ pos[c] <= telTail
    BY DEF ClientsOK, ClientTypes, ClientOK
  <2>2. ASSUME NEW x PROVE x \in Passed' <=> x \in Passed
    <3>1. \A n \in Nat : n \in 1 .. telTail' /\ n <= telTail <=> n \in 1 .. telTail
      OBVIOUS
    <3>2. CASE x \in Clients \X Nat
      BY <1>1, <2>1, <3>1, <3>2 DEF Passed
    <3>3. CASE x \notin Clients \X Nat
      BY <3>3 DEF Passed
    <3>4. QED BY <3>2, <3>3
  <2>3. QED BY <2>2
<1>5. AccountOK'
  BY <1>1, <1>4 DEF AccountOK, On
<1>6. QED BY <1>2, <1>3, <1>5 DEF ClientsOK

LEMMA TaskKeeps ==
    ASSUME GInv, Ingest \/ IngestStops \/ Pipeline \/ CtrlC \/ Awaits
    PROVE  GInv'
<1> USE DEF GInv
<1>1. PipeOK'
  <2>1. CASE Ingest
    BY <2>1, GatewayAssumption DEF Ingest, PipeOK, pipe
  <2>2. CASE IngestStops \/ CtrlC \/ Awaits \/ PipelineStops
    BY <2>2 DEF IngestStops, CtrlC, Awaits, PipelineStops, PipeOK, pipe
  <2>3. CASE Take
    <3>1. /\ fpos < received /\ fpos' = fpos + 1 /\ handled' = handled + 1
          /\ todo' \in 0 .. MaxPerFrame /\ recorded + todo' <= MaxMessages
          /\ UNCHANGED <<received, lagged, inHand, recorded, published, telTail>>
      BY <2>3 DEF Take
    <3>2. QED BY <3>1 DEF PipeOK
  <2>4. CASE Lag
    BY <2>4, GatewayAssumption DEF Lag, Behind, Missed, PipeOK
  <2>5. CASE Publish
    <3>1. UNCHANGED <<received, fpos, handled, lagged>>
      BY <2>5 DEF Publish
    <3>2. CASE /\ todo > 0 /\ ~inHand /\ inHand' = TRUE /\ todo' = todo - 1
               /\ recorded' = recorded + 1 /\ UNCHANGED <<telTail, published>>
      BY <3>1, <3>2, GatewayAssumption DEF PipeOK
    <3>3. CASE /\ inHand /\ inHand' = FALSE /\ telTail' = telTail + 1
               /\ published' = published + 1 /\ UNCHANGED <<todo, recorded>>
      BY <3>1, <3>3 DEF PipeOK
    <3>4. QED BY <2>5, <3>2, <3>3 DEF Publish
  <2>6. QED BY <2>1, <2>2, <2>3, <2>4, <2>5 DEF Pipeline
<1>2. LifeOK'
  <2>1. CASE Ingest
    BY <2>1 DEF Ingest, LifeOK, life, pipe
  <2>2. CASE IngestStops \/ CtrlC
    <3>1. UNCHANGED <<todo, inHand>>
      BY <2>2 DEF IngestStops, CtrlC, pipe
    <3>2. CASE IngestStops
      BY <3>1, <3>2 DEF IngestStops, LifeOK
    <3>3. CASE CtrlC
      BY <3>1, <3>3 DEF CtrlC, LifeOK
    <3>4. QED BY <2>2, <3>2, <3>3
  <2>3. CASE Awaits
    BY <2>3 DEF Awaits, LifeOK, pipe
  <2>4. CASE PipelineStops
    BY <2>4 DEF PipelineStops, AtSelect, LifeOK, pipe
  <2>5. CASE Take \/ Lag
    BY <2>5 DEF Take, Lag, AtSelect, LifeOK, life
  <2>6. CASE Publish
    BY <2>6 DEF Publish, LifeOK, life
  <2>7. QED BY <2>1, <2>2, <2>3, <2>4, <2>5, <2>6 DEF Pipeline
<1>3. UNCHANGED client /\ telTail \in Nat /\ telTail' \in Nat /\ telTail' >= telTail
      /\ recorded' \in Nat /\ recorded \in Nat /\ recorded' >= recorded
  <2>1. telTail \in Nat /\ recorded \in Nat
    BY DEF PipeOK
  <2>2. QED
    BY <2>1 DEF Ingest, IngestStops, Pipeline, CtrlC, Awaits, Take, Lag, Publish, PipelineStops, pipe
<1>4. ClientsOK' /\ AccountOK'
  BY <1>3, ClientsKept
<1>5. QED BY <1>1, <1>2, <1>4

-----------------------------------------------------------------------------
(* Steps of a client and its relay. *)

ClientStep(c) == Connect(c) \/ Query(c) \/ Disconnect(c) \/ RelayTask(c)

LEMMA TasksKept ==
    ASSUME PipeOK, LifeOK, NEW c \in Clients, ClientStep(c)
    PROVE  /\ PipeOK' /\ LifeOK' /\ UNCHANGED <<telTail, recorded>>
           /\ telTail \in Nat /\ recorded \in Nat
<1>1. UNCHANGED <<received, pipe, life>>
  BY DEF ClientStep, Connect, Query, Disconnect, RelayTask, Subscribe, Relay, RelayLag,
         RelaySent, RelaySeesClose
<1>2. UNCHANGED <<todo, inHand, life>>
  BY <1>1 DEF pipe
<1>3. LifeOK'
  BY <1>2 DEF LifeOK, life
<1>4. QED BY <1>1, <1>3 DEF PipeOK, pipe

\* A client of which nothing changes.
LEMMA OtherKept ==
    ASSUME ClientTypes, ClientTypes', NEW d \in Clients, ClientOK(d), telTail \in Nat, recorded \in Nat,
           UNCHANGED <<telTail, recorded, relay[d], peerOpen[d], joined[d], pos[d], got[d],
                       page[d], truncated[d], asked[d]>>,
           wsDropped' >= wsDropped
    PROVE  ClientOK(d)'
<1>1. wsDropped' = 0 => wsDropped = 0
  BY DEF ClientTypes
<1>2. QED BY <1>1 DEF ClientOK

LEMMA ConnectKeeps ==
    ASSUME ClientsOK, AccountOK, UNCHANGED <<telTail, recorded>>, telTail \in Nat,
           recorded \in Nat, NEW c \in Clients, Connect(c)
    PROVE  ClientsOK' /\ AccountOK'
<1>1. ClientTypes /\ ClientOK(c) /\ relay[c] = "none"
  BY DEF ClientsOK, Connect
<1>2. ClientTypes'
  BY <1>1 DEF Connect, ClientTypes, States
<1>3. ASSUME NEW d \in Clients PROVE ClientOK(d)'
  <2>1. CASE d # c
    <3>1. /\ UNCHANGED <<relay[d], peerOpen[d], joined[d], pos[d], got[d]>>
          /\ UNCHANGED <<page[d], truncated[d], asked[d]>>
          /\ wsDropped' >= wsDropped
      BY <1>1, <2>1 DEF Connect, ClientTypes
    <3>2. QED BY <1>1, <1>2, <3>1, OtherKept DEF ClientsOK
  <2>2. CASE d = c
    <3>1. /\ relay'[c] = "started" /\ peerOpen'[c]
          /\ UNCHANGED <<joined, pos, got, page, truncated, asked, wsDropped>>
      BY <1>1 DEF Connect, ClientTypes
    <3>2. pos[c] = 0 /\ joined[c] \in Nat
      BY <1>1 DEF ClientOK, ClientTypes
    <3>3. \A m \in joined[c] + 1 .. pos[c] : FALSE
      BY <3>2
    <3>4. QED BY <1>1, <2>2, <3>1, <3>2, <3>3 DEF ClientOK
  <2>3. QED BY <2>1, <2>2
<1>4. AccountOK'
  <2>1. relay[c] \notin Gauged /\ "started" \notin Gauged
    BY <1>1 DEF Gauged
  <2>2. relay[c] \notin {"sending"} /\ "started" \notin {"sending"}
    BY <1>1
  <2>3. relay[c] \notin {"sending", "gone"} /\ "started" \notin {"sending", "gone"}
    BY <1>1
  <2>4. relay \in [Clients -> States] /\ relay' = [relay EXCEPT ![c] = "started"]
        /\ UNCHANGED <<connected, wsSent, wsDropped, joined, pos>>
    BY <1>1 DEF Connect, ClientTypes
  <2>5. Passed' = Passed
    BY <2>4 DEF Passed
  <2>6. Cardinality(On(Gauged))' = Cardinality(On(Gauged))
    BY <2>1, <2>4, HeadCount
  <2>7. Cardinality(On({"sending"}))' = Cardinality(On({"sending"}))
    BY <2>2, <2>4, HeadCount
  <2>8. Cardinality(On({"sending", "gone"}))' = Cardinality(On({"sending", "gone"}))
    BY <2>3, <2>4, HeadCount
  <2>9. QED BY <2>4, <2>5, <2>6, <2>7, <2>8 DEF AccountOK
<1>5. QED BY <1>2, <1>3, <1>4 DEF ClientsOK

LEMMA QueryKeeps ==
    ASSUME ClientsOK, AccountOK, UNCHANGED <<telTail, recorded>>, telTail \in Nat,
           recorded \in Nat, telTail <= recorded, NEW c \in Clients, Query(c)
    PROVE  ClientsOK' /\ AccountOK'
<1>1. ClientTypes /\ ClientOK(c) /\ peerOpen[c]
  BY DEF ClientsOK, Query
<1>2. /\ UNCHANGED <<relay, peerOpen, joined, pos, got, connected, wsSent, wsDropped>>
      /\ asked' = [asked EXCEPT ![c] = IF relay[c] \in {"started", "counted"} THEN "early" ELSE "yes"]
  BY DEF Query
<1>3. PICK k \in Nat \ {0} :
        /\ page' = [page EXCEPT ![c] = {m \in Ring : m + k > recorded}]
        /\ truncated' = [truncated EXCEPT ![c] = \E m \in Ring : m + k <= recorded]
  <2>1. \A n \in Limits : EffectiveLimit(n) \in Nat \ {0}
    BY GatewayAssumption DEF EffectiveLimit
  <2>2. QED BY <2>1 DEF Query
<1>4. Ring = Held(recorded) /\ Ring \subseteq 1 .. recorded
  BY DEF Ring, Held
<1>5. ClientTypes'
  <2> DEFINE found == {m \in Ring : m + k > recorded}
             more == \E m \in Ring : m + k <= recorded
  <2>1. found \in SUBSET Nat /\ more \in BOOLEAN
    BY <1>4
  <2>2. page' = [page EXCEPT ![c] = found] /\ truncated' = [truncated EXCEPT ![c] = more]
    BY <1>3
  <2> HIDE DEF found, more
  <2>3. page' \in [Clients -> SUBSET Nat]
    BY <1>1, <2>1, <2>2 DEF ClientTypes
  <2>4. truncated' \in [Clients -> BOOLEAN]
    BY <1>1, <2>1, <2>2 DEF ClientTypes
  <2>5. QED BY <1>1, <1>2, <2>3, <2>4 DEF ClientTypes
<1>6. ASSUME NEW d \in Clients PROVE ClientOK(d)'
  <2>1. CASE d # c
    <3>1. /\ UNCHANGED <<relay[d], peerOpen[d], joined[d], pos[d], got[d]>>
          /\ UNCHANGED <<page[d], truncated[d], asked[d]>>
      BY <1>1, <1>2, <1>3, <2>1 DEF ClientTypes
    <3>2. wsDropped' >= wsDropped /\ ClientOK(d)
      BY <1>1, <1>2 DEF ClientTypes, ClientsOK
    <3>3. QED BY <1>1, <1>2, <1>5, <3>1, <3>2, OtherKept
  <2>2. CASE d = c
    <3>1. joined[c] \in 0 .. recorded /\ joined[c] \in Nat
      BY <1>1 DEF ClientOK, ClientTypes
    <3>2. relay[c] \in {"none", "started", "counted"} => asked'[c] # "yes"
      BY <1>1, <1>2 DEF ClientTypes, ClientOK
    <3>3. \E r \in joined'[c] .. recorded' : Answered(r, page'[c], truncated'[c])
      <4>1. Answer(k, recorded, page'[c], truncated'[c])
        BY <1>1, <1>3, <1>4 DEF Answer, ClientTypes
      <4>2. Answered(recorded, page'[c], truncated'[c])
        BY <4>1 DEF Answered
      <4>3. joined'[c] = joined[c] /\ recorded' = recorded /\ recorded \in joined[c] .. recorded
        BY <1>2, <3>1
      <4>4. QED BY <4>2, <4>3
    <3>4. page'[c] \subseteq 1 .. recorded'
      BY <1>1, <1>3, <1>4 DEF ClientTypes
    <3>5. QED BY <1>1, <1>2, <2>2, <3>2, <3>3, <3>4 DEF ClientOK
  <2>3. QED BY <2>1, <2>2
<1>7. AccountOK'
  BY <1>2 DEF AccountOK, On, Passed
<1>8. QED BY <1>5, <1>6, <1>7 DEF ClientsOK

LEMMA DisconnectKeeps ==
    ASSUME ClientsOK, AccountOK, UNCHANGED <<telTail, recorded>>, telTail \in Nat,
           recorded \in Nat, NEW c \in Clients, Disconnect(c)
    PROVE  ClientsOK' /\ AccountOK'
<1>1. ClientTypes /\ ClientOK(c)
  BY DEF ClientsOK
<1>2. /\ UNCHANGED <<relay, joined, pos, got, page, truncated, asked, connected, wsSent, wsDropped>>
      /\ peerOpen' = [peerOpen EXCEPT ![c] = FALSE]
  BY DEF Disconnect
<1>3. ClientTypes'
  BY <1>1, <1>2 DEF ClientTypes
<1>4. ASSUME NEW d \in Clients PROVE ClientOK(d)'
  <2>1. CASE d # c
    <3>1. /\ UNCHANGED <<relay[d], peerOpen[d], joined[d], pos[d], got[d]>>
          /\ UNCHANGED <<page[d], truncated[d], asked[d]>>
          /\ wsDropped' >= wsDropped
      BY <1>1, <1>2, <2>1 DEF ClientTypes
    <3>2. QED BY <1>1, <1>3, <3>1, OtherKept DEF ClientsOK
  <2>2. CASE d = c
    <3>1. ~peerOpen'[c]
      BY <1>1, <1>2 DEF ClientTypes
    <3>2. QED BY <1>1, <1>2, <2>2, <3>1 DEF ClientOK
  <2>3. QED BY <2>1, <2>2
<1>5. AccountOK'
  BY <1>2 DEF AccountOK, On, Passed
<1>6. QED BY <1>3, <1>4, <1>5 DEF ClientsOK

\* The relay counts itself in, and then subscribes at the newest message.
LEMMA SubscribeKeeps ==
    ASSUME ClientsOK, AccountOK, UNCHANGED <<telTail, recorded>>, telTail \in Nat,
           recorded \in Nat, NEW c \in Clients, Subscribe(c)
    PROVE  ClientsOK' /\ AccountOK'
<1>1. ClientTypes /\ ClientOK(c)
  BY DEF ClientsOK
<1>2. UNCHANGED <<peerOpen, got, page, truncated, asked, wsSent, wsDropped>>
  BY DEF Subscribe
<1>3. CASE /\ relay[c] = "started" /\ relay' = [relay EXCEPT ![c] = "counted"]
           /\ connected' = connected + 1 /\ UNCHANGED <<joined, pos>>
  <2>1. ClientTypes'
    BY <1>1, <1>2, <1>3 DEF ClientTypes, States
  <2>2. ASSUME NEW d \in Clients PROVE ClientOK(d)'
    <3>1. CASE d # c
      <4>1. /\ UNCHANGED <<relay[d], peerOpen[d], joined[d], pos[d], got[d]>>
            /\ UNCHANGED <<page[d], truncated[d], asked[d]>>
            /\ wsDropped' >= wsDropped
        BY <1>1, <1>2, <1>3, <3>1 DEF ClientTypes
      <4>2. QED BY <1>1, <2>1, <4>1, OtherKept DEF ClientsOK
    <3>2. CASE d = c
      <4>1. relay'[c] = "counted"
        BY <1>1, <1>3 DEF ClientTypes
      <4>2. QED BY <1>1, <1>2, <1>3, <3>2, <4>1 DEF ClientOK
    <3>3. QED BY <3>1, <3>2
  <2>3. AccountOK'
    <3>1. relay[c] \notin Gauged /\ "counted" \in Gauged
      BY <1>3 DEF Gauged
    <3>2. relay[c] \notin {"sending"} /\ "counted" \notin {"sending"}
      BY <1>3
    <3>3. relay[c] \notin {"sending", "gone"} /\ "counted" \notin {"sending", "gone"}
      BY <1>3
    <3>4. relay \in [Clients -> States]
      BY <1>1 DEF ClientTypes
    <3>5. Passed' = Passed
      BY <1>3 DEF Passed
    <3>6. Cardinality(On(Gauged))' = Cardinality(On(Gauged)) + 1
      BY <1>3, <3>1, <3>4, HeadCount
    <3>7. Cardinality(On({"sending"}))' = Cardinality(On({"sending"}))
      BY <1>3, <3>2, <3>4, HeadCount
    <3>8. Cardinality(On({"sending", "gone"}))' = Cardinality(On({"sending", "gone"}))
      BY <1>3, <3>3, <3>4, HeadCount
    <3>9. QED BY <1>2, <1>3, <3>5, <3>6, <3>7, <3>8 DEF AccountOK
  <2>4. QED BY <2>1, <2>2, <2>3 DEF ClientsOK
<1>4. CASE /\ relay[c] = "counted" /\ relay' = [relay EXCEPT ![c] = "idle"]
           /\ joined' = [joined EXCEPT ![c] = telTail] /\ pos' = [pos EXCEPT ![c] = telTail]
           /\ UNCHANGED connected
  <2>1. ClientTypes'
    BY <1>1, <1>2, <1>4 DEF ClientTypes, States
  <2>2. joined'[c] = telTail /\ pos'[c] = telTail /\ relay'[c] = "idle"
    BY <1>1, <1>4 DEF ClientTypes
  <2>3. ASSUME NEW d \in Clients PROVE ClientOK(d)'
    <3>1. CASE d # c
      <4>1. /\ UNCHANGED <<relay[d], peerOpen[d], joined[d], pos[d], got[d]>>
            /\ UNCHANGED <<page[d], truncated[d], asked[d]>>
            /\ wsDropped' >= wsDropped
        BY <1>1, <1>2, <1>4, <3>1 DEF ClientTypes
      <4>2. QED BY <1>1, <2>1, <4>1, OtherKept DEF ClientsOK
    <3>2. CASE d = c
      <4>1. \A m \in joined'[c] + 1 .. pos'[c] : FALSE
        BY <2>2
      <4>2. asked'[c] # "yes"
        BY <1>1, <1>2, <1>4 DEF ClientOK
      <4>3. QED BY <1>1, <1>2, <1>4, <2>2, <3>2, <4>1, <4>2 DEF ClientOK
    <3>3. QED BY <3>1, <3>2
  <2>4. AccountOK'
    <3>1. relay[c] \in Gauged /\ "idle" \in Gauged
      BY <1>4 DEF Gauged
    <3>2. relay[c] \notin {"sending"} /\ "idle" \notin {"sending"}
      BY <1>4
    <3>3. relay[c] \notin {"sending", "gone"} /\ "idle" \notin {"sending", "gone"}
      BY <1>4
    <3>4. relay \in [Clients -> States]
      BY <1>1 DEF ClientTypes
    <3>5. Passed' = Passed
      <4>1. joined[c] = 0 /\ pos[c] = 0
        BY <1>1, <1>4 DEF ClientOK, ClientTypes
      <4>2. ASSUME NEW x \in Clients \X (1 .. telTail)
            PROVE  joined'[x[1]] < x[2] /\ x[2] <= pos'[x[1]] <=> joined[x[1]] < x[2] /\ x[2] <= pos[x[1]]
        <5>1. x[1] \in Clients /\ x[2] \in 1 .. telTail
          OBVIOUS
        <5>2. CASE x[1] = c
          BY <2>2, <4>1, <5>1, <5>2
        <5>3. CASE x[1] # c
          BY <1>1, <1>4, <5>1, <5>3 DEF ClientTypes
        <5>4. QED BY <5>2, <5>3
      <4>3. QED BY <4>2 DEF Passed
    <3>6. Cardinality(On(Gauged))' = Cardinality(On(Gauged))
      BY <1>4, <3>1, <3>4, HeadCount
    <3>7. Cardinality(On({"sending"}))' = Cardinality(On({"sending"}))
      BY <1>4, <3>2, <3>4, HeadCount
    <3>8. Cardinality(On({"sending", "gone"}))' = Cardinality(On({"sending", "gone"}))
      BY <1>4, <3>3, <3>4, HeadCount
    <3>9. QED BY <1>2, <1>4, <3>5, <3>6, <3>7, <3>8 DEF AccountOK
  <2>5. QED BY <2>1, <2>3, <2>4 DEF ClientsOK
<1>5. QED BY <1>3, <1>4 DEF Subscribe

LEMMA RelayKeeps ==
    ASSUME ClientsOK, AccountOK, UNCHANGED <<telTail, recorded>>, telTail \in Nat,
           recorded \in Nat, NEW c \in Clients, Relay(c)
    PROVE  ClientsOK' /\ AccountOK'
<1>1. ClientTypes /\ ClientOK(c) /\ pos[c] \in Nat /\ joined[c] \in Nat
  BY DEF ClientsOK, ClientTypes
<1>2. /\ UNCHANGED <<peerOpen, joined, got, page, truncated, asked, connected, wsSent, wsDropped>>
      /\ relay[c] = "idle" /\ relay' = [relay EXCEPT ![c] = "sending"]
      /\ pos[c] < telTail /\ pos' = [pos EXCEPT ![c] = @ + 1]
  BY DEF Relay
<1>3. ClientTypes'
  BY <1>1, <1>2 DEF ClientTypes, States
<1>4. relay'[c] = "sending" /\ pos'[c] = pos[c] + 1
  BY <1>1, <1>2 DEF ClientTypes
<1>5. ASSUME NEW d \in Clients PROVE ClientOK(d)'
  <2>1. CASE d # c
    <3>1. /\ UNCHANGED <<relay[d], peerOpen[d], joined[d], pos[d], got[d]>>
          /\ UNCHANGED <<page[d], truncated[d], asked[d]>>
          /\ wsDropped' >= wsDropped
      BY <1>1, <1>2, <2>1 DEF ClientTypes
    <3>2. QED BY <1>1, <1>3, <3>1, OtherKept DEF ClientsOK
  <2>2. CASE d = c
    <3>1. joined[c] <= pos[c] + 1 /\ pos[c] + 1 <= telTail
      BY <1>1, <1>2 DEF ClientOK
    <3>2. ASSUME peerOpen[c], wsDropped = 0, NEW m \in joined[c] + 1 .. pos[c] + 1
          PROVE  m \in got[c] \/ m = pos[c] + 1
      <4>1. CASE m = pos[c] + 1
        BY <4>1
      <4>2. CASE m # pos[c] + 1
        <5>1. m \in joined[c] + 1 .. pos[c]
          BY <1>1, <4>2
        <5>2. QED BY <1>1, <1>2, <3>2, <5>1 DEF ClientOK
      <4>3. QED BY <4>1, <4>2
    <3>3. asked'[c] = "yes" => \E r \in joined'[c] .. recorded' : Answered(r, page'[c], truncated'[c])
      BY <1>1, <1>2 DEF ClientOK
    <3>4. QED BY <1>1, <1>2, <1>4, <2>2, <3>1, <3>2, <3>3 DEF ClientOK
  <2>3. QED BY <2>1, <2>2
<1>6. AccountOK'
  <2>1. relay[c] \in Gauged /\ "sending" \in Gauged
    BY <1>2 DEF Gauged
  <2>2. relay[c] \notin {"sending"} /\ "sending" \in {"sending"}
    BY <1>2
  <2>3. relay[c] \notin {"sending", "gone"} /\ "sending" \in {"sending", "gone"}
    BY <1>2
  <2>4. relay \in [Clients -> States]
    BY <1>1 DEF ClientTypes
  <2>5. Cardinality(Passed)' = Cardinality(Passed) + 1
    <3>1. /\ pos[c] + 1 \in Nat /\ joined[c] <= pos[c] /\ pos[c] <= pos[c] + 1
          /\ pos[c] + 1 <= telTail /\ pos' = [pos EXCEPT ![c] = pos[c] + 1]
          /\ UNCHANGED <<telTail, joined>>
      BY <1>1, <1>2 DEF ClientOK
    <3>2. ASSUME NEW n \in Nat, n = pos[c] + 1
          PROVE  Cardinality(Passed)' = Cardinality(Passed) + (n - pos[c])
      BY <1>1, <3>1, <3>2, PassesMore
    <3>3. QED BY <1>1, <3>1, <3>2, PassedFinite
  <2>6. Cardinality(On(Gauged))' = Cardinality(On(Gauged))
    BY <1>2, <2>1, <2>4, HeadCount
  <2>7. Cardinality(On({"sending"}))' = Cardinality(On({"sending"})) + 1
    BY <1>2, <2>2, <2>4, HeadCount
  <2>8. Cardinality(On({"sending", "gone"}))' = Cardinality(On({"sending", "gone"})) + 1
    BY <1>2, <2>3, <2>4, HeadCount
  <2>9. wsSent \in Nat /\ wsDropped \in Nat
    BY <1>1 DEF ClientTypes
  <2>10. QED
    BY <1>2, <2>5, <2>6, <2>7, <2>8, <2>9, Finite, PassedFinite DEF AccountOK
<1>7. QED BY <1>3, <1>5, <1>6 DEF ClientsOK

LEMMA RelayLagKeeps ==
    ASSUME ClientsOK, AccountOK, UNCHANGED <<telTail, recorded>>, telTail \in Nat,
           recorded \in Nat, NEW c \in Clients, RelayLag(c)
    PROVE  ClientsOK' /\ AccountOK'
<1> DEFINE to == telTail - TelCap
<1>1. ClientTypes /\ ClientOK(c) /\ pos[c] \in Nat /\ joined[c] \in Nat
  BY DEF ClientsOK, ClientTypes
<1>2. /\ UNCHANGED <<relay, peerOpen, joined, got, page, truncated, asked, connected, wsSent>>
      /\ relay[c] = "idle" /\ telTail - pos[c] > TelCap
      /\ pos' = [pos EXCEPT ![c] = to] /\ wsDropped' = wsDropped + (to - pos[c])
  BY DEF RelayLag, Behind, Missed
<1>3. to \in Nat /\ pos[c] < to /\ to <= telTail /\ wsDropped \in Nat
  BY <1>1, <1>2, GatewayAssumption DEF ClientTypes
<1>4. wsDropped' \in Nat /\ wsDropped' >= wsDropped /\ wsDropped' # 0
  BY <1>1, <1>2, <1>3
<1>5. ClientTypes'
  BY <1>1, <1>2, <1>3, <1>4 DEF ClientTypes
<1>6. ASSUME NEW d \in Clients PROVE ClientOK(d)'
  <2>1. CASE d # c
    <3>1. UNCHANGED <<relay[d], peerOpen[d], joined[d], pos[d], got[d], page[d], truncated[d], asked[d]>>
      BY <1>1, <1>2, <2>1 DEF ClientTypes
    <3>2. QED BY <1>1, <1>4, <1>5, <3>1, OtherKept DEF ClientsOK
  <2>2. CASE d = c
    <3>1. pos'[c] = to
      BY <1>1, <1>2 DEF ClientTypes
    <3>2. joined[c] <= to
      BY <1>1, <1>3 DEF ClientOK
    <3>3. asked'[c] = "yes" => \E r \in joined'[c] .. recorded' : Answered(r, page'[c], truncated'[c])
      BY <1>1, <1>2 DEF ClientOK
    <3>4. QED BY <1>1, <1>2, <1>3, <1>4, <2>2, <3>1, <3>2, <3>3 DEF ClientOK
  <2>3. QED BY <2>1, <2>2
<1>7. AccountOK'
  <2>1. Cardinality(Passed)' = Cardinality(Passed) + (to - pos[c])
    <3>1. /\ joined[c] <= pos[c] /\ pos[c] <= to /\ UNCHANGED <<telTail, joined>>
          /\ pos' = [pos EXCEPT ![c] = to]
      BY <1>1, <1>2, <1>3 DEF ClientOK
    <3>2. QED BY <1>1, <1>3, <3>1, PassesMore
  <2>2. On(Gauged)' = On(Gauged) /\ On({"sending"})' = On({"sending"})
        /\ On({"sending", "gone"})' = On({"sending", "gone"})
    BY <1>2 DEF On
  <2>3. wsSent \in Nat
    BY <1>1 DEF ClientTypes
  <2>4. QED
    BY <1>1, <1>2, <1>3, <2>1, <2>2, <2>3, Finite, PassedFinite DEF AccountOK
<1>8. QED BY <1>5, <1>6, <1>7 DEF ClientsOK

\* A relay that ends, for whatever reason, leaves the gauge; its last message may
\* have been under way.
LEMMA LeaveKeeps ==
    ASSUME ClientsOK, AccountOK, UNCHANGED <<telTail, recorded>>, telTail \in Nat,
           recorded \in Nat, NEW c \in Clients, relay[c] \in {"idle", "sending"}, Leave(c),
           ~peerOpen[c], UNCHANGED <<peerOpen, joined, pos, got, page, truncated, asked, wsSent, wsDropped>>
    PROVE  ClientsOK' /\ AccountOK'
<1>1. ClientTypes /\ ClientOK(c)
  BY DEF ClientsOK
<1>2. relay' = [relay EXCEPT ![c] = "gone"] /\ connected' = connected - 1
  BY DEF Leave
<1>3. ClientTypes'
  BY <1>1, <1>2 DEF ClientTypes, States
<1>4. ASSUME NEW d \in Clients PROVE ClientOK(d)'
  <2>1. CASE d # c
    <3>1. /\ UNCHANGED <<relay[d], peerOpen[d], joined[d], pos[d], got[d]>>
          /\ UNCHANGED <<page[d], truncated[d], asked[d]>>
          /\ wsDropped' >= wsDropped
      BY <1>1, <1>2, <2>1 DEF ClientTypes
    <3>2. QED BY <1>1, <1>3, <3>1, OtherKept DEF ClientsOK
  <2>2. CASE d = c
    <3>1. relay'[c] = "gone" /\ ~peerOpen'[c]
      BY <1>1, <1>2 DEF ClientTypes
    <3>2. QED BY <1>1, <1>2, <2>2, <3>1 DEF ClientOK
  <2>3. QED BY <2>1, <2>2
<1>5. AccountOK'
  <2>1. relay[c] \in Gauged /\ "gone" \notin Gauged /\ relay \in [Clients -> States]
    BY <1>1 DEF Gauged, ClientTypes
  <2>2. Cardinality(On(Gauged))' = Cardinality(On(Gauged)) - 1
    BY <1>2, <2>1, HeadCount
  <2>3. Cardinality(On({"sending"}))' \in Nat
        /\ Cardinality(On({"sending"}))' <= Cardinality(On({"sending"}))
    <3>1. CASE relay[c] = "sending"
      <4>1. relay[c] \in {"sending"} /\ "gone" \notin {"sending"}
        BY <3>1
      <4>2. Cardinality(On({"sending"}))' = Cardinality(On({"sending"})) - 1
        BY <1>2, <2>1, <4>1, HeadCount
      <4>3. Cardinality(On({"sending"})) # 0
        <5>1. c \in On({"sending"})
          BY <3>1 DEF On
        <5>2. QED BY <5>1, Finite, FS_EmptySet
      <4>4. QED BY <4>2, <4>3, Finite
    <3>2. CASE relay[c] # "sending"
      <4>1. relay[c] \notin {"sending"} /\ "gone" \notin {"sending"}
        BY <3>2
      <4>2. Cardinality(On({"sending"}))' = Cardinality(On({"sending"}))
        BY <1>2, <2>1, <4>1, HeadCount
      <4>3. QED BY <4>2, Finite
    <3>3. QED BY <3>1, <3>2
  <2>4. Cardinality(On({"sending", "gone"}))' \in Nat
        /\ Cardinality(On({"sending", "gone"}))' >= Cardinality(On({"sending", "gone"}))
    <3>1. "gone" \in {"sending", "gone"}
      OBVIOUS
    <3>2. \/ Cardinality(On({"sending", "gone"}))' = Cardinality(On({"sending", "gone"}))
          \/ Cardinality(On({"sending", "gone"}))' = Cardinality(On({"sending", "gone"})) + 1
      BY <1>2, <2>1, <3>1, HeadCount
    <3>3. QED BY <3>2, Finite
  <2>5. Passed' = Passed /\ UNCHANGED <<wsSent, wsDropped>> /\ wsSent \in Nat /\ wsDropped \in Nat
    BY <1>1 DEF Passed, ClientTypes
  <2>6. QED BY <1>2, <2>2, <2>3, <2>4, <2>5, Finite, PassedFinite DEF AccountOK
<1>6. QED BY <1>3, <1>4, <1>5 DEF ClientsOK

LEMMA RelaySeesCloseKeeps ==
    ASSUME ClientsOK, AccountOK, UNCHANGED <<telTail, recorded>>, telTail \in Nat,
           recorded \in Nat, NEW c \in Clients, RelaySeesClose(c)
    PROVE  ClientsOK' /\ AccountOK'
<1>1. /\ relay[c] \in {"idle", "sending"} /\ Leave(c) /\ ~peerOpen[c]
      /\ UNCHANGED <<peerOpen, joined, pos, got, page, truncated, asked, wsSent, wsDropped>>
  BY DEF RelaySeesClose
<1>2. QED BY <1>1, LeaveKeeps

\* A message counted as sent: it reached the client, or the client had gone.
LEMMA RelaySentKeeps ==
    ASSUME ClientsOK, AccountOK, UNCHANGED <<telTail, recorded>>, telTail \in Nat,
           recorded \in Nat, NEW c \in Clients, RelaySent(c)
    PROVE  ClientsOK' /\ AccountOK'
<1>1. ClientTypes /\ ClientOK(c) /\ pos[c] \in Nat /\ joined[c] \in Nat
  BY DEF ClientsOK, ClientTypes
<1>2. /\ UNCHANGED <<peerOpen, joined, pos, page, truncated, asked, wsDropped>>
      /\ relay[c] = "sending"
  BY DEF RelaySent
<1>3. CASE ~peerOpen[c] /\ Leave(c) /\ UNCHANGED <<got, wsSent>>
  <2>1. /\ relay[c] \in {"idle", "sending"} /\ Leave(c) /\ ~peerOpen[c]
        /\ UNCHANGED <<peerOpen, joined, pos, got, page, truncated, asked, wsSent, wsDropped>>
    BY <1>2, <1>3
  <2>2. QED BY <2>1, LeaveKeeps
<1>4. CASE /\ relay' = [relay EXCEPT ![c] = "idle"] /\ wsSent' = wsSent + 1
           /\ UNCHANGED connected
           /\ \/ peerOpen[c] /\ got' = [got EXCEPT ![c] = @ \cup {pos[c]}]
              \/ ~peerOpen[c] /\ UNCHANGED got
  <2>1. /\ relay'[c] = "idle" /\ pos[c] \in 1 .. telTail
        /\ got'[c] \in {got[c], got[c] \cup {pos[c]}}
        /\ peerOpen[c] => pos[c] \in got'[c]
    BY <1>1, <1>2, <1>4 DEF ClientTypes, ClientOK
  <2>2. ClientTypes'
    <3>1. got' \in [Clients -> SUBSET Nat]
      BY <1>1, <1>4 DEF ClientTypes
    <3>2. relay' \in [Clients -> States]
      BY <1>1, <1>4 DEF ClientTypes, States
    <3>3. wsSent' \in Nat
      BY <1>1, <1>4 DEF ClientTypes
    <3>4. QED BY <1>1, <1>2, <3>1, <3>2, <3>3 DEF ClientTypes
  <2>3. ASSUME NEW d \in Clients PROVE ClientOK(d)'
    <3>1. CASE d # c
      <4>1. /\ UNCHANGED <<relay[d], peerOpen[d], joined[d], pos[d], got[d]>>
            /\ UNCHANGED <<page[d], truncated[d], asked[d]>>
            /\ wsDropped' >= wsDropped
        BY <1>1, <1>2, <1>4, <3>1 DEF ClientTypes
      <4>2. QED BY <1>1, <2>2, <4>1, OtherKept DEF ClientsOK
    <3>2. CASE d = c
      <4>1. got'[c] \subseteq 1 .. telTail
        BY <1>1, <2>1 DEF ClientOK
      <4>2. ASSUME peerOpen[c], wsDropped = 0, NEW m \in joined[c] + 1 .. pos[c]
            PROVE  m \in got'[c]
        BY <1>1, <2>1, <4>2 DEF ClientOK
      <4>3. asked'[c] = "yes" => \E r \in joined'[c] .. recorded' : Answered(r, page'[c], truncated'[c])
        BY <1>1, <1>2 DEF ClientOK
      <4>4. QED BY <1>1, <1>2, <2>1, <3>2, <4>1, <4>2, <4>3 DEF ClientOK
    <3>3. QED BY <3>1, <3>2
  <2>4. AccountOK'
    <3>1. relay[c] \in Gauged /\ "idle" \in Gauged /\ relay \in [Clients -> States]
      BY <1>1, <1>2 DEF Gauged, ClientTypes
    <3>2. relay[c] \in {"sending"} /\ "idle" \notin {"sending"}
      BY <1>2
    <3>3. relay[c] \in {"sending", "gone"} /\ "idle" \notin {"sending", "gone"}
      BY <1>2
    <3>4. Cardinality(On(Gauged))' = Cardinality(On(Gauged))
      BY <1>4, <3>1, HeadCount
    <3>5. Cardinality(On({"sending"}))' = Cardinality(On({"sending"})) - 1
      BY <1>4, <3>1, <3>2, HeadCount
    <3>6. Cardinality(On({"sending", "gone"}))' = Cardinality(On({"sending", "gone"})) - 1
      BY <1>4, <3>1, <3>3, HeadCount
    <3>7. Passed' = Passed /\ wsSent \in Nat /\ wsDropped \in Nat
      BY <1>1, <1>2 DEF Passed, ClientTypes
    <3>8. QED BY <1>2, <1>4, <3>4, <3>5, <3>6, <3>7, Finite, PassedFinite DEF AccountOK
  <2>5. QED BY <2>2, <2>3, <2>4 DEF ClientsOK
<1>5. QED BY <1>3, <1>4 DEF RelaySent

LEMMA ClientStepKeeps ==
    ASSUME GInv, NEW c \in Clients, ClientStep(c)
    PROVE  GInv'
<1> USE DEF GInv
<1>1. /\ PipeOK' /\ LifeOK' /\ UNCHANGED <<telTail, recorded>>
      /\ telTail \in Nat /\ recorded \in Nat
  BY TasksKept
<1>2. telTail <= recorded
  BY DEF PipeOK
<1>3. ClientsOK' /\ AccountOK'
  <2>1. CASE Connect(c)
    BY <1>1, <2>1, ConnectKeeps
  <2>2. CASE Query(c)
    BY <1>1, <1>2, <2>2, QueryKeeps
  <2>3. CASE Disconnect(c)
    BY <1>1, <2>3, DisconnectKeeps
  <2>4. CASE Subscribe(c)
    BY <1>1, <2>4, SubscribeKeeps
  <2>5. CASE Relay(c)
    BY <1>1, <2>5, RelayKeeps
  <2>6. CASE RelayLag(c)
    BY <1>1, <2>6, RelayLagKeeps
  <2>7. CASE RelaySent(c)
    BY <1>1, <2>7, RelaySentKeeps
  <2>8. CASE RelaySeesClose(c)
    BY <1>1, <2>8, RelaySeesCloseKeeps
  <2>9. QED BY <2>1, <2>2, <2>3, <2>4, <2>5, <2>6, <2>7, <2>8 DEF ClientStep, RelayTask
<1>4. QED BY <1>1, <1>3

LEMMA StutterKeeps == GInv /\ UNCHANGED vars => GInv'
<1> SUFFICES ASSUME GInv, UNCHANGED vars PROVE GInv'
  OBVIOUS
<1>1. PipeOK' /\ LifeOK'
  BY DEF GInv, PipeOK, LifeOK, vars, pipe, life
<1>2. UNCHANGED client /\ telTail \in Nat /\ telTail' \in Nat /\ telTail' >= telTail
      /\ recorded' \in Nat /\ recorded \in Nat /\ recorded' >= recorded
  BY DEF GInv, PipeOK, vars, pipe
<1>3. ClientsOK' /\ AccountOK'
  BY <1>2, ClientsKept DEF GInv
<1>4. QED BY <1>1, <1>3 DEF GInv

LEMMA Step == GInv /\ [Next]_vars => GInv'
<1> SUFFICES ASSUME GInv, [Next]_vars PROVE GInv'
  OBVIOUS
<1>1. CASE UNCHANGED vars
  BY <1>1, StutterKeeps
<1>2. CASE Ingest \/ IngestStops \/ Pipeline \/ CtrlC \/ Awaits
  BY <1>2, TaskKeeps
<1>3. ASSUME NEW c \in Clients, ClientStep(c) PROVE GInv'
  BY <1>3, ClientStepKeeps
<1>4. QED BY <1>1, <1>2, <1>3 DEF Next, ClientStep

-----------------------------------------------------------------------------
(* What the invariant tells. *)

LEMMA InvTellsTypes == GInv => TypeOK
<1> SUFFICES ASSUME GInv PROVE TypeOK
  OBVIOUS
<1>1. PipeOK /\ LifeOK /\ ClientTypes /\ AccountOK
  BY DEF GInv, ClientsOK
<1>2. recorded \in 0 .. MaxMessages
  BY <1>1, GatewayAssumption DEF PipeOK
<1>3. ASSUME NEW c \in Clients
      PROVE  /\ joined[c] \in 0 .. telTail /\ pos[c] \in joined[c] .. telTail
             /\ got[c] \subseteq 1 .. telTail /\ page[c] \subseteq 1 .. recorded
  BY <1>1 DEF GInv, ClientsOK, ClientOK, ClientTypes, PipeOK
<1>4. connected = Cardinality({c \in Clients : relay[c] \in {"counted", "idle", "sending"}})
  BY <1>1 DEF AccountOK, On, Gauged
<1>5. /\ received \in 0 .. MaxDatagrams /\ fpos \in 0 .. received
      /\ handled \in Nat /\ lagged \in Nat /\ todo \in 0 .. MaxPerFrame
      /\ published \in Nat /\ telTail \in Nat
  BY <1>1 DEF PipeOK
<1>6. /\ relay \in [Clients -> States] /\ peerOpen \in [Clients -> BOOLEAN]
      /\ truncated \in [Clients -> BOOLEAN] /\ asked \in [Clients -> {"no", "early", "yes"}]
      /\ wsSent \in Nat /\ wsDropped \in Nat
  BY <1>1 DEF ClientTypes
<1>7. /\ inHand \in BOOLEAN /\ cancelled \in BOOLEAN /\ ingestOn \in BOOLEAN
      /\ pipelineOn \in BOOLEAN /\ historyOpen \in BOOLEAN
      /\ main \in {"server", "ingest", "pipeline", "history", "exit"}
  BY <1>1 DEF LifeOK
<1>8. QED BY <1>2, <1>3, <1>4, <1>5, <1>6, <1>7, Zenon DEF TypeOK

LEMMA InvTellsAccounts == GInv => AllAccounted
<1> SUFFICES ASSUME GInv PROVE AllAccounted
  OBVIOUS
<1>1. {c \in Clients : relay[c] = "sending"} = On({"sending"})
  BY DEF On
<1>2. {c \in Clients : relay[c] \in {"sending", "gone"}} = On({"sending", "gone"})
  BY DEF On
<1>3. handled + lagged = fpos
  BY DEF GInv, PipeOK
<1>4. QED BY <1>1, <1>2, <1>3 DEF GInv, AccountOK, AllAccounted

LEMMA InvTellsHistory == GInv => HistoryClosedLast
BY DEF GInv, LifeOK, HistoryClosedLast

\* A message the receiver is past came after it subscribed, and then it arrived, or
\* before, and then the query's page reaches as far or begins later.
LEMMA InvTellsNoHole == GInv => NoHoleForLateClient
<1> SUFFICES ASSUME GInv, NEW c \in Clients, peerOpen[c], asked[c] = "yes", wsDropped = 0,
                    NEW m \in 1 .. pos[c]
             PROVE  \/ m \in page[c] \cup got[c]
                    \/ /\ page[c] # {} /\ \A n \in page[c] : m < n
                       /\ truncated[c] \/ Cardinality(page[c]) = HistCap
                    \/ m = pos[c] /\ relay[c] # "idle"
  BY DEF NoHoleForLateClient
<1>1. ClientTypes /\ ClientOK(c) /\ PipeOK
  BY DEF GInv, ClientsOK
<1>2. pos[c] \in Nat /\ joined[c] \in Nat /\ recorded \in Nat
  BY <1>1 DEF ClientTypes, PipeOK
<1>3. CASE m > joined[c]
  <2>1. m \in joined[c] + 1 .. pos[c]
    BY <1>2, <1>3
  <2>2. QED BY <1>1, <2>1 DEF ClientOK
<1>4. CASE ~(m > joined[c])
  <2>1. PICK r \in joined[c] .. recorded : Answered(r, page[c], truncated[c])
    BY <1>1 DEF ClientOK
  <2>2. PICK k \in Nat \ {0} : Answer(k, r, page[c], truncated[c])
    BY <2>1 DEF Answered
  <2>3. r \in Nat /\ m \in 1 .. r
    BY <1>2, <1>4
  <2>4. /\ page[c] = {n \in Held(r) : n + k > r}
        /\ truncated[c] <=> \E n \in Held(r) : n + k <= r
    BY <2>2 DEF Answer
  <2>5. CASE m + HistCap > r /\ m + k > r
    BY <2>3, <2>4, <2>5 DEF Held
  <2>6. CASE ~(m + HistCap > r /\ m + k > r)
    <3>1. r \in page[c]
      BY <2>3, <2>4, GatewayAssumption DEF Held
    <3>2. \A n \in page[c] : m < n
      BY <2>3, <2>4, <2>6, GatewayAssumption DEF Held
    <3>3. CASE m + HistCap > r
      BY <2>3, <2>4, <2>6, <3>1, <3>2, <3>3 DEF Held
    <3>4. CASE ~(m + HistCap > r) /\ ~truncated[c]
      <4>1. page[c] = r - HistCap + 1 .. r
        BY <2>3, <2>4, <3>4, GatewayAssumption DEF Held
      <4>2. Cardinality(r - HistCap + 1 .. r) = HistCap
        BY <2>3, FS_Interval, GatewayAssumption
      <4>3. QED BY <3>1, <3>2, <4>1, <4>2
    <3>5. QED BY <3>1, <3>2, <3>3, <3>4
  <2>7. QED BY <2>5, <2>6
<1>5. QED BY <1>3, <1>4

-----------------------------------------------------------------------------
(* The theorems. *)

\* What each task, channel and client has done agrees with what the others have.
THEOREM Invariance == Spec => []GInv
BY Initially, Step, PTL DEF Spec

\* Types, bounds, and the gauge of connected clients (handle_openmct_socket).
THEOREM TypeCorrect == Spec => []TypeOK
BY Invariance, InvTellsTypes, PTL

\* No datagram and no message disappears uncounted (pipeline::run,
\* handle_openmct_socket).
THEOREM NothingLostInSilence == Spec => []AllAccounted
BY Invariance, InvTellsAccounts, PTL

\* History and live stream meet without a hole (publish, the history query).
THEOREM NoHole == Spec => []NoHoleForLateClient
BY Invariance, InvTellsNoHole, PTL

\* Nothing is recorded after the history is closed (main::run).
THEOREM HistoryIsClosedLast == Spec => []HistoryClosedLast
BY Invariance, InvTellsHistory, PTL
=============================================================================
