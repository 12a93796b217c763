------------------------------- MODULE Gateway -------------------------------
(***************************************************************************)
(* The tasks of the gateway process and the channels between them: the UDP *)
(* ingest task (ingest.rs), the pipeline task (pipeline.rs), a relay task  *)
(* for each WebSocket client and the history query (http.rs), and main's   *)
(* orderly end (main.rs).                                                  *)
(*                                                                         *)
(* Datagrams and messages are the numbers they are received and published  *)
(* under.  What a datagram holds is its number of messages: none for one   *)
(* that does not parse or completes no packet.                             *)
(***************************************************************************)
EXTENDS Naturals, FiniteSets

CONSTANTS
    Clients,      \* connections of WebSocket clients, each used once
    FrameCap,     \* ingest.channel_capacity
    TelCap,       \* TELEMETRY_CHANNEL_CAPACITY
    HistCap,      \* history.capacity
    DefaultLimit, \* DEFAULT_QUERY_LIMIT, of a query that names none
    MaxLimit,     \* MAX_QUERY_LIMIT, of any query
    Limits,       \* the limits queries name, 0 for none
    MaxDatagrams, \* bound: datagrams received
    MaxPerFrame,  \* bound: messages of one datagram
    MaxMessages   \* bound: messages of all datagrams

ASSUME GatewayAssumption ==
    /\ IsFiniteSet(Clients)
    /\ FrameCap \in Nat \ {0} /\ TelCap \in Nat \ {0} /\ HistCap \in Nat \ {0}
    /\ DefaultLimit \in Nat \ {0} /\ MaxLimit \in Nat \ {0} /\ Limits \subseteq Nat
    /\ MaxDatagrams \in Nat /\ MaxPerFrame \in Nat /\ MaxMessages \in Nat

VARIABLES
    received,     \* IngestStats.frames_received; also the frames sent into the channel
    fpos,         \* frames the pipeline's receiver is past
    handled,      \* datagrams the pipeline processed
    lagged,       \* PipelineStats.datagrams_lagged
    todo,         \* packets of the datagram in hand that are still to be published
    inHand,       \* a message is recorded and not yet sent
    recorded,     \* messages recorded in the history
    published,    \* PipelineStats.messages_published
    telTail,      \* messages sent into telemetry_tx
    relay,        \* relay task: "none", "started", "counted", "idle", "sending", "gone"
    peerOpen,     \* the client's end of the connection
    joined, pos,  \* where the relay's receiver was created, and where it is
    got, page,    \* messages that reached the client, and those its history query returned
    truncated,    \* that query's answer says that more messages matched
    asked,        \* its history query: "no", "early" (its relay had not subscribed), "yes"
    connected,    \* GatewayMetrics.ws_clients_connected
    wsSent, wsDropped,   \* ws_messages_sent, PipelineStats.ws_messages_dropped
    cancelled,    \* the CancellationToken
    ingestOn, pipelineOn, historyOpen,
    main          \* what main waits for: "server", "ingest", "pipeline", "history", or "exit"

pipe == <<fpos, handled, lagged, todo, inHand, recorded, published, telTail>>
client == <<relay, peerOpen, joined, pos, got, page, truncated, asked, connected, wsSent, wsDropped>>
life == <<cancelled, ingestOn, pipelineOn, historyOpen, main>>
vars == <<received, pipe, client, life>>

Init ==
    /\ received = 0 /\ fpos = 0 /\ handled = 0 /\ lagged = 0
    /\ todo = 0 /\ inHand = FALSE /\ recorded = 0 /\ published = 0 /\ telTail = 0
    /\ relay = [c \in Clients |-> "none"] /\ peerOpen = [c \in Clients |-> FALSE]
    /\ joined = [c \in Clients |-> 0] /\ pos = [c \in Clients |-> 0]
    /\ got = [c \in Clients |-> {}] /\ page = [c \in Clients |-> {}]
    /\ truncated = [c \in Clients |-> FALSE] /\ asked = [c \in Clients |-> "no"]
    /\ connected = 0 /\ wsSent = 0 /\ wsDropped = 0
    /\ cancelled = FALSE
    /\ ingestOn = TRUE /\ pipelineOn = TRUE /\ historyOpen = TRUE
    /\ main = "server"

Alive == main # "exit"

\* A tokio broadcast channel keeps the newest cap messages.  A receiver that is
\* further behind is told how many it missed and goes on with the oldest kept.
Behind(tail, at, cap) == tail - at > cap
Missed(tail, at, cap) == tail - cap - at

-----------------------------------------------------------------------------
(* ingest::run *)

\* A datagram is received, counted and broadcast.
Ingest ==
    /\ Alive /\ ingestOn /\ ~cancelled /\ received < MaxDatagrams
    /\ received' = received + 1
    /\ UNCHANGED <<pipe, client, life>>

\* Shutdown is looked at first.
IngestStops ==
    /\ Alive /\ ingestOn /\ cancelled
    /\ ingestOn' = FALSE
    /\ UNCHANGED <<received, pipe, client, cancelled, pipelineOn, historyOpen, main>>

-----------------------------------------------------------------------------
(* pipeline::run and publish *)

AtSelect == Alive /\ pipelineOn /\ todo = 0 /\ ~inHand

\* The next datagram: its packets are extracted before the first is published.
Take ==
    /\ AtSelect /\ ~cancelled
    /\ fpos < received /\ ~Behind(received, fpos, FrameCap)
    /\ fpos' = fpos + 1 /\ handled' = handled + 1
    /\ todo' \in 0 .. MaxPerFrame /\ recorded + todo' <= MaxMessages
    /\ UNCHANGED <<received, lagged, inHand, recorded, published, telTail, client, life>>

\* Mutant: only one datagram is counted however many were missed.
LagOne ==
    /\ AtSelect /\ ~cancelled
    /\ Behind(received, fpos, FrameCap)
    /\ fpos' = received - FrameCap
    /\ lagged' = lagged + 1
    /\ UNCHANGED <<received, handled, todo, inHand, recorded, published, telTail, client, life>>

\* The pipeline has fallen behind the ingest channel (it also resets its deframer).
Lag ==
    /\ AtSelect /\ ~cancelled
    /\ Behind(received, fpos, FrameCap)
    /\ fpos' = received - FrameCap
    /\ lagged' = lagged + Missed(received, fpos, FrameCap)
    /\ UNCHANGED <<received, handled, todo, inHand, recorded, published, telTail, client, life>>

\* Mutant: the message goes to the clients first and to the history after.
PublishUnrecorded ==
    /\ Alive /\ pipelineOn
    /\ \/ /\ todo > 0 /\ ~inHand
          /\ inHand' = TRUE /\ todo' = todo - 1
          /\ telTail' = telTail + 1 /\ published' = published + 1
          /\ UNCHANGED recorded
       \/ /\ inHand
          /\ inHand' = FALSE
          /\ recorded' = recorded + 1
          /\ UNCHANGED <<todo, telTail, published>>
    /\ UNCHANGED <<received, fpos, handled, lagged, client, life>>

\* publish: the message is recorded in the history, then counted and sent.
Publish ==
    /\ Alive /\ pipelineOn
    /\ \/ /\ todo > 0 /\ ~inHand
          /\ inHand' = TRUE /\ todo' = todo - 1
          /\ recorded' = recorded + 1
          /\ UNCHANGED <<telTail, published>>
       \/ /\ inHand
          /\ inHand' = FALSE
          /\ telTail' = telTail + 1 /\ published' = published + 1
          /\ UNCHANGED <<todo, recorded>>
    /\ UNCHANGED <<received, fpos, handled, lagged, client, life>>

\* Mutant: the pipeline ends when the ingest channel closes, which the sender in
\* the shared state keeps open as long as main is not through.
PipelineStopsOnClosed ==
    /\ AtSelect /\ main = "exit"
    /\ pipelineOn' = FALSE
    /\ UNCHANGED <<received, pipe, client, cancelled, ingestOn, historyOpen, main>>

\* Shutdown is looked at first, between datagrams.
PipelineStops ==
    /\ AtSelect /\ cancelled
    /\ pipelineOn' = FALSE
    /\ UNCHANGED <<received, pipe, client, cancelled, ingestOn, historyOpen, main>>
-----------------------------------------------------------------------------
(* handle_openmct_socket, one task for each client, and the client's query. *)

\* The client's end of the connection opens when the upgrade is answered.
Connect(c) ==
    /\ Alive /\ main = "server" /\ relay[c] = "none"
    /\ relay' = [relay EXCEPT ![c] = "started"]
    /\ peerOpen' = [peerOpen EXCEPT ![c] = TRUE]
    /\ UNCHANGED <<received, pipe, joined, pos, got, page, truncated, asked, connected, wsSent, wsDropped, life>>

\* After that the task counts the client, and then it subscribes.
Subscribe(c) ==
    /\ Alive
    /\ \/ /\ relay[c] = "started"
          /\ relay' = [relay EXCEPT ![c] = "counted"]
          /\ connected' = connected + 1
          /\ UNCHANGED <<joined, pos>>
       \/ /\ relay[c] = "counted"
          /\ relay' = [relay EXCEPT ![c] = "idle"]
          /\ joined' = [joined EXCEPT ![c] = telTail]
          /\ pos' = [pos EXCEPT ![c] = telTail]
          /\ UNCHANGED connected
    /\ UNCHANGED <<received, pipe, peerOpen, got, page, truncated, asked, wsSent, wsDropped, life>>

\* The messages in the ring, and how many of them a query returns.
Ring == {m \in 1 .. recorded : m + HistCap > recorded}
EffectiveLimit(n) == IF n = 0 THEN DefaultLimit ELSE IF n > MaxLimit THEN MaxLimit ELSE n

\* GET /api/v1/chronus/history, by a client that is connected: the newest of the
\* ring up to the limit, and whether it has older ones.
Query(c) ==
    /\ Alive /\ main = "server" /\ peerOpen[c] /\ asked[c] = "no"
    /\ \E n \in Limits : LET k == EffectiveLimit(n) IN
          /\ page' = [page EXCEPT ![c] = {m \in Ring : m + k > recorded}]
          /\ truncated' = [truncated EXCEPT ![c] = \E m \in Ring : m + k <= recorded]
    /\ asked' = [asked EXCEPT ![c] = IF relay[c] \in {"started", "counted"} THEN "early" ELSE "yes"]
    /\ UNCHANGED <<received, pipe, relay, peerOpen, joined, pos, got, connected, wsSent, wsDropped, life>>

\* The receiver has a message: the relay starts sending it.
Relay(c) ==
    /\ Alive /\ relay[c] = "idle"
    /\ pos[c] < telTail /\ ~Behind(telTail, pos[c], TelCap)
    /\ relay' = [relay EXCEPT ![c] = "sending"]
    /\ pos' = [pos EXCEPT ![c] = @ + 1]
    /\ UNCHANGED <<received, pipe, peerOpen, joined, got, page, truncated, asked, connected, wsSent, wsDropped, life>>

\* Mutant: a task that ends on a failed send does not count itself out.
LeaveUncounted(c) ==
    /\ relay' = [relay EXCEPT ![c] = "gone"]
    /\ connected' = IF relay[c] = "sending" THEN connected ELSE connected - 1

Leave(c) ==
    /\ relay' = [relay EXCEPT ![c] = "gone"]
    /\ connected' = connected - 1

\* Mutant: a lag ends the relay as a closed channel does.
RelayLagEnds(c) ==
    /\ Alive /\ relay[c] = "idle"
    /\ Behind(telTail, pos[c], TelCap)
    /\ pos' = [pos EXCEPT ![c] = telTail - TelCap]
    /\ wsDropped' = wsDropped + Missed(telTail, pos[c], TelCap)
    /\ Leave(c)
    /\ UNCHANGED <<received, pipe, peerOpen, joined, got, page, truncated, asked, wsSent, life>>

\* The relay has fallen behind; it goes on with the oldest message kept.
RelayLag(c) ==
    /\ Alive /\ relay[c] = "idle"
    /\ Behind(telTail, pos[c], TelCap)
    /\ pos' = [pos EXCEPT ![c] = telTail - TelCap]
    /\ wsDropped' = wsDropped + Missed(telTail, pos[c], TelCap)
    /\ UNCHANGED <<received, pipe, relay, peerOpen, joined, got, page, truncated, asked, connected, wsSent, life>>

\* The send completes, or fails because the client has gone; a message sent just
\* after it left may still be taken for sent.
RelaySent(c) ==
    /\ Alive /\ relay[c] = "sending"
    /\ \/ /\ peerOpen[c]
          /\ relay' = [relay EXCEPT ![c] = "idle"]
          /\ got' = [got EXCEPT ![c] = @ \cup {pos[c]}]
          /\ wsSent' = wsSent + 1
          /\ UNCHANGED connected
       \/ /\ ~peerOpen[c]
          /\ relay' = [relay EXCEPT ![c] = "idle"]
          /\ wsSent' = wsSent + 1
          /\ UNCHANGED <<got, connected>>
       \/ /\ ~peerOpen[c]
          /\ Leave(c)
          /\ UNCHANGED <<got, wsSent>>
    /\ UNCHANGED <<received, pipe, peerOpen, joined, pos, page, truncated, asked, wsDropped, life>>

\* The other branch of the select is only looked at when no message waits.
RelaySeesClose(c) ==
    /\ Alive /\ relay[c] = "idle" /\ pos[c] = telTail
    /\ ~peerOpen[c]
    /\ Leave(c)
    /\ UNCHANGED <<received, pipe, peerOpen, joined, pos, got, page, truncated, asked, wsSent, wsDropped, life>>

Disconnect(c) ==
    /\ peerOpen[c]
    /\ peerOpen' = [peerOpen EXCEPT ![c] = FALSE]
    /\ UNCHANGED <<received, pipe, relay, joined, pos, got, page, truncated, asked, connected, wsSent, wsDropped, life>>

-----------------------------------------------------------------------------
(* main::run, from Ctrl+C on. *)

CtrlC ==
    /\ Alive /\ ~cancelled
    /\ cancelled' = TRUE
    /\ UNCHANGED <<received, pipe, client, ingestOn, pipelineOn, historyOpen, main>>

\* Mutant: the history is closed as soon as ingest has stopped.
AwaitsInWrongOrder ==
    /\ \/ main = "server" /\ cancelled /\ main' = "ingest" /\ UNCHANGED historyOpen
       \/ main = "ingest" /\ ~ingestOn /\ main' = "history" /\ historyOpen' = FALSE
       \/ main = "history" /\ ~pipelineOn /\ main' = "exit" /\ UNCHANGED historyOpen
    /\ UNCHANGED <<received, pipe, client, cancelled, ingestOn, pipelineOn>>

\* The server ends, then the tasks are awaited one by one, then the history closed.
Awaits ==
    /\ \/ main = "server" /\ cancelled /\ main' = "ingest" /\ UNCHANGED historyOpen
       \/ main = "ingest" /\ ~ingestOn /\ main' = "pipeline" /\ UNCHANGED historyOpen
       \/ main = "pipeline" /\ ~pipelineOn /\ main' = "history" /\ UNCHANGED historyOpen
       \/ main = "history" /\ historyOpen /\ historyOpen' = FALSE /\ UNCHANGED main
       \/ main = "history" /\ ~historyOpen /\ main' = "exit" /\ UNCHANGED historyOpen
    /\ UNCHANGED <<received, pipe, client, cancelled, ingestOn, pipelineOn>>

Pipeline == Take \/ Lag \/ Publish \/ PipelineStops
RelayTask(c) == Subscribe(c) \/ Relay(c) \/ RelayLag(c) \/ RelaySent(c) \/ RelaySeesClose(c)

Next ==
    \/ Ingest \/ IngestStops \/ Pipeline \/ CtrlC \/ Awaits
    \/ \E c \in Clients : Connect(c) \/ Query(c) \/ Disconnect(c) \/ RelayTask(c)

Spec == Init /\ [][Next]_vars

\* Tokio schedules every task that can go on; a client that stays connected
\* takes what it is sent.
FairSpec ==
    /\ Spec
    /\ WF_vars(IngestStops) /\ WF_vars(Pipeline) /\ WF_vars(Awaits)
    /\ \A c \in Clients : WF_vars(RelayTask(c))

-----------------------------------------------------------------------------
(* Properties. *)

States == {"none", "started", "counted", "idle", "sending", "gone"}
\* Types and bounds; the gauge of connected clients is the number of relay tasks
\* that are on, whatever ended the others.
TypeOK ==
    /\ received \in 0 .. MaxDatagrams
    /\ fpos \in 0 .. received /\ handled \in Nat /\ lagged \in Nat
    /\ todo \in 0 .. MaxPerFrame /\ inHand \in BOOLEAN
    /\ recorded \in 0 .. MaxMessages /\ published \in Nat /\ telTail \in Nat
    /\ relay \in [Clients -> States] /\ peerOpen \in [Clients -> BOOLEAN]
    /\ \A c \in Clients : joined[c] \in 0 .. telTail /\ pos[c] \in joined[c] .. telTail
    /\ \A c \in Clients : got[c] \subseteq 1 .. telTail /\ page[c] \subseteq 1 .. recorded
    /\ truncated \in [Clients -> BOOLEAN] /\ asked \in [Clients -> {"no", "early", "yes"}]
    /\ connected = Cardinality({c \in Clients : relay[c] \in {"counted", "idle", "sending"}})
    /\ wsSent \in Nat /\ wsDropped \in Nat
    /\ cancelled \in BOOLEAN /\ ingestOn \in BOOLEAN /\ pipelineOn \in BOOLEAN
    /\ historyOpen \in BOOLEAN
    /\ main \in {"server", "ingest", "pipeline", "history", "exit"}

\* Nothing is lost in silence: a datagram is processed, counted as missed or
\* still in the channel, and a message that a client's receiver is past was
\* sent, counted as dropped, or is the one whose send is under way or failed.
Passed == {x \in Clients \X (1 .. telTail) : joined[x[1]] < x[2] /\ x[2] <= pos[x[1]]}
AllAccounted ==
    /\ handled + lagged = fpos
    /\ Cardinality(Passed) \in wsSent + wsDropped + Cardinality({c \in Clients : relay[c] = "sending"})
                .. wsSent + wsDropped + Cardinality({c \in Clients : relay[c] \in {"sending", "gone"}})

\* A dashboard that asks for the history once it is subscribed to the live stream
\* has no hole between the two and none later, if nothing is counted as dropped;
\* what is older than its page it is told of, or it has been evicted.
\* (It cannot know from the open connection that it is subscribed.)
NoHoleForLateClient ==
    \A c \in Clients : peerOpen[c] /\ asked[c] = "yes" /\ wsDropped = 0 =>
        \A m \in 1 .. pos[c] :
            \/ m \in page[c] \cup got[c]
            \/ /\ page[c] # {} /\ \A n \in page[c] : m < n
               /\ truncated[c] \/ Cardinality(page[c]) = HistCap
            \/ m = pos[c] /\ relay[c] # "idle"

\* Nothing is recorded once main has closed the history: what the last messages
\* of the pipeline were is in the file.
HistoryClosedLast == ~historyOpen => ~pipelineOn /\ ~ingestOn /\ todo = 0 /\ ~inHand

\* After Ctrl+C the process ends, however busy the socket and the clients are.
ShutdownCompletes == cancelled ~> main = "exit"

\* A client that stays catches up with what is published, and the relay of one
\* that has left ends, though it looks for a close only when no message waits.
ClientServed ==
    \A c \in Clients :
        /\ (relay[c] # "none" /\ pos[c] < telTail)
               ~> (pos[c] = telTail /\ relay[c] = "idle") \/ ~peerOpen[c] \/ main = "exit"
        /\ (relay[c] # "none" /\ ~peerOpen[c]) ~> relay[c] = "gone" \/ main = "exit"
=============================================================================
