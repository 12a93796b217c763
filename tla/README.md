# chronus-gateway in TLA+

Models, checks and proofs of the chronus-gateway workspace, a satellite telemetry gateway written in Rust on tokio.
`PROJECT.json` lists the components, the runs, the source lines of every definition, the hazards and the theorems; this text says how they fit together.

## 1. The system

CCSDS Space Packets, bare or inside TM Transfer Frames, arrive as UDP datagrams.
The gateway reassembles packets, checks them against orbital physics, and publishes each as one JSON message to a history store and to every dashboard connected by WebSocket.
A second binary, the demo server, gives visitors a sandbox session each.

```
UDP ──▶ ingest task ──▶ frame_tx ──▶ pipeline task ──▶ telemetry_tx ──▶ relay task per client ──▶ dashboard
        (ingest.rs)    (broadcast)   deframe, validate      (broadcast)     (http.rs)                  ▲
                                          │ record                                                     │ GET history
UDP ──▶ RF listener ──▶ RfStore ──────────┘                                                            │
        (rf.rs)                       HistoryStore: ring ◀─────────────────────────────────────────────┘
                                          │ bounded queue
                                          ▼
                                      writer thread ──▶ JSON-lines file
```

### Inventory

| Part | State | Operations | Interacts with | What is hard | What makes it correct |
|---|---|---|---|---|---|
| History, `history.rs` | ring, write queue, writer's copy, buffered writer, file, counters | open (reload), record, query, close, writer loop: write, flush, compact | pipeline calls record; http queries; main closes | two threads, a full queue, file errors, a kill at any point, torn lines | nothing lost uncounted; ring, thread and file agree; a restart gives the ring back; bounded file |
| TM frames, `frames.rs` | per channel: pending octets, sync, last count; master count; byte stream; builder's queues and counters | pack, flush, frame, idle frame; push, accept, reset; marker search | builder in simulators and replay; deframer inside the pipeline | lost, damaged, late, doubled frames; wrapping counts; pointers that lie; markers split across datagrams or faked by data | a packet comes out whole or not at all; loss stays local; buffers bounded |
| Ingest, `ingest.rs` | counters | receive, broadcast, stop | frame_tx | a receiver that falls behind | each datagram broadcast once, prompt stop |
| Pipeline, `pipeline.rs` | counters, deframer | take, lag, publish, stop | frame_tx, history, telemetry_tx | lag; order of record and broadcast; stop in mid-datagram | in order, all accounted for |
| HTTP, `http.rs` | client gauge, counters | upgrade, relay, lag, close; REST reads | telemetry_tx, history | slow clients, a send that fails, subscription after the handshake | no silent hole; gauge right; every task ends |
| Process, `main.rs`, `state.rs` | cancellation token, task handles | start in order, Ctrl+C, join in order, close history | all tasks | shutdown while messages are under way | terminates; history closed last |
| RF side channel, `rf.rs` | bounded deque of samples | insert, lookup, listen | frame processing | samples late, out of order, evicted | the nearest sample in the window, if any is kept |
| Tracking cache, `propagator.rs` | one cached state | tracking_state | frame processing | check, compute and store are separate | a published position fits its instant up to the throttle |
| Time, validation, `time.rs`, `validate.rs` | none | resolve time, flags | frame processing | a clock that cannot be trusted | receive time as fallback; flags agree with the branch taken |
| Packet parsing, `ccsds.rs`, `hil_tm.rs` | none | parse, encode | frame processing | lengths | round trip (property tests in the repository) |
| OEM ephemeris, `oem.rs` | segments | parse, coverage, interpolate | propagator, diagnosis | a reader with modes; windows that overlap; four time systems | an answer comes from the newest block around the time, never from outside it |
| Configuration, `config/` | none | read the file, defaults, range checks, derived addresses | main, diagnosis | some sixty keys, what is optional and what is not | what is refused is refused for a reason that can be mended |
| Diagnosis, `diagnose.rs` | none | explain an error, warn, assess health | main, http | advice that must lead on; rules over counters that move meanwhile | a fix helps; who runs blind is told; a status report can be relied on |
| Metrics, `metrics.rs` | counters | bump, snapshot | every task, the status report | counters are loaded one by one | the order of the loads |
| Dictionary, `openmct.rs` | none | projection | http | nothing | not modelled |
| Demo server, `chronus-demo-server` | semaphore, map of addresses, gauges; one session loop and simulation per visitor | admit, drop, run_session | visitors | concurrent admissions, ends at any await, the deadline against commands, ticks and sends | caps hold; everything taken comes back; every session ends; a scenario perturbs one thing |
| HIL simulator, `chronus-hil-sim` | frame number, sockets | a tick: sample, lead, packet, pause | gateway over UDP | two sockets, joined by arrival time alone | a packet meets its own sample; a script hits its frames |
| Replay tool, `chronus-replay` | lines, framing | load, send, repeat | gateway over UDP | as the simulator | as the simulator |
| Browser demos, `demo/`, `site/` | | | gateway | outside the gateway | not modelled |

## 2. Modules

| Module | Models | How |
|---|---|---|
| `HistoryStore` | `history.rs` | one action per call of record, open, close and per step of the writer thread; `Crash` at any point |
| `HistoryStoreProofs` | | theorems on it |
| `TmFormat`, `TmFramer`, `TmDeframer` | frame layout; `TmFrameBuilder`; `TmDeframer::accept` and packet extraction | octets carry the packet they are of and their place in it |
| `TmLink`, `MCTmLink` | both, joined by a link that loses, damages, doubles and reorders | composes TmFramer and TmDeframer |
| `TmLinkProofs` | | theorems on TmLink |
| `PacketLink` | abstract: each virtual channel is a lossy queue | refined by TmLink |
| `PacketLinkProofs` | | the theorem that it is; loss is local; what the gap counters mean; EXTENDS TmLinkProofs |
| `AsmSync`, `MCAsmSync` | `TmDeframer::push_stream`, `find_asm`, `reset` | a turn of the search loop is a step; bytes carry a value and their frame |
| `Gateway` | ingest, pipeline, relay tasks, history query, `main::run` | datagrams and messages are numbers; a channel is its tail and each receiver's position |
| `GatewayProofs` | | theorems on it |
| `RfStore` | the deque of receiver samples of `rf.rs` | insert with eviction by arrival, lookup of the nearest within the window |
| `FrameProcessing`, `MCFrameProcessing` | `process_inner` of `http.rs`, `resolve_frame_time`, `TrackingProvider`, `apply_physics_validation` | each access to the store or the cache is a step; the orbit is a point that moves along a line |
| `FrameProcessingProofs` | | theorems on FrameProcessing: exactness of the checks; the store and the counts. Theorems on Simulator |
| `GatewayConfig` | `config/mod.rs`, `config/file.rs` | a document is tables of keys and values; each check is an element of a sequence, in the order of the code |
| `OemEphemeris` | `oem.rs` | the reader is a machine over kinds of lines; an answer is the states it is interpolated from |
| `Diagnose` | `diagnose.rs`: errors and warnings at start, their first fix | a fix is a set of ways, a way is an edit of the document or the files |
| `Startup`, `MCStartup` | `main.rs` from the settings to the last flush, and the operator | composes the three above with sockets and files that copies of the gateway share |
| `StartupProofs` | | theorems on it |
| `Health`, `MCHealth` | `health_report` of `state.rs`, the rules of `diagnose.rs`, the counters of `metrics.rs` and who bumps them | each load of a counter is a step |
| `SyncAndHealthProofs` | | theorems on AsmSync and on Health, which share nothing else |
| `SessionLimiter` | `AppState::admit`, `SessionGuard::drop` | each access to semaphore, map and counters is a step |
| `Sandbox`, `MCSandbox` | `run_session`, `SessionSim` | EXTENDS SessionLimiter: one visitor's session between guard and drop, the others come and go |
| `SandboxProofs` | | theorems on SessionLimiter, carried to Sandbox |
| `Simulator`, `MCSimulator` | `chronus-hil-sim`, `chronus-replay` | EXTENDS RfStore: two programs, two sockets, and the gateway's join |

**HistoryStore.** A message is the number it is recorded under; the file is a sequence of chunks, each a message's text with or without its newline, because that is what decides what a reload finds: a chunk without newline runs into the next, and the line they form parses as neither.
`record` takes the lock of the ring and then that of the queue; one task calls it, and no other thread sees both, hence one action.
The writer's batch loop (`WriteNext`, `EndBatch`, `Compact`) interleaves with everything; a `BufWriter` may write any part of its buffer at any time; a kill keeps what reached the file, perhaps with a torn last chunk.
A file error may hit a write, a flush or a compaction, at most `MaxErrors` times in one life of the process; after some of them the thread's handle is on a file its path no longer names (`orphan`).
Left out: loss of data the operating system has not synced (power failure), writes of 8 KiB and more that bypass the buffer, memory-only mode, a record after close.

**TmFramer, TmDeframer, TmLink.** The frame builder's queue, packet starts, counters and first header pointer, and the deframer's acceptance of a frame with and without packet start, through gap, resynchronisation and packet draining, follow the code branch by branch.
The header length (6) and counter modulus (256) are the constants `HdrLen` and `Modulus`.
With the check sequence on, a damaged frame is noticed; on a link whose scene is `unprotected`, a First Header Pointer may change without notice, and a header read from garbage is any header.
The counters can only tell frames apart within a window: as in any protocol with wrapping counters, `NeverSpliced` assumes that fewer than `Modulus` frames of a channel are lost, late or repeated in a row: the guard `Window` of `Receive`.
One frame per datagram (several in one are in AsmSync, with markers); a restart of the sender is not modelled.
`Scenes` holds the links a run looks at: the channels, sizes, faults and whether there is a check sequence and an order.

**AsmSync.** What a check sequence can tell is modelled by what the bytes are: a candidate passes exactly when it is one whole undamaged frame.
The data of a frame ranges over all values, so false markers in data, in noise and across the two occur.
A datagram is any stretch of the stream: part of a marker, the end of one frame and the start of the next, several frames with noise between them.
The marker is any sequence that has no proper suffix equal to a prefix; 1ACFFC1D is one.

**Gateway.** Tokio's broadcast channel is external: it keeps the newest messages, and a receiver further behind is told how many it missed.
`publish` is two steps (record, then send) because a history query may come in between; a relay's start is three (the client's end opens, the gauge is raised, the task subscribes).
The pipeline handles a datagram without awaiting, so it is stopped only between datagrams.
When the server ends is axum's business: its graceful shutdown does not wait for upgraded connections, so the model lets it end once cancelled.
Ingest errors and oversized datagrams only bump counters and are left out; so is the join of the RF listener, which is in Startup.

**RfStore, FrameProcessing.** A packet with its receive time, and receiver samples with the time they were measured, arrive in any order; samples may be late, unstamped, or stamped out of order.
A worker takes a packet, decides which instant to believe, looks for a sample, asks the provider, and emits a message with its flags.
`ParseError`, `Start` (parse, time, lookup), `CacheHit`, `Compute`, `StoreState` and `NoPhysics` are the steps between two accesses to shared state; the validation is the worker's own and part of the step that ends the packet.
The gateway's pipeline is a single worker; several workers are an embedder's use of the public `process_frame` and of the provider, which is documented as shareable.
The state of the orbit at an instant is the instant, and whatever is measured moves by at most one unit with it: a measurement with error `e` made at time `at` reads `at + e`, and the tolerances are in these units (for Doppler, with the margin for the age of the elements).
So the properties can say what an alarm should mean: they compare the true error with the flag, which the code never knows.
Time passes only when a packet or a sample arrives, which is all that the code's behaviour depends on.
Left out: rejected sample datagrams, latency sums, serialization errors (the message is a plain structure whose conversion cannot fail).

**GatewayConfig, OemEphemeris, Diagnose.** Operators without state.
Numbers are whole, with the unit that makes each bound whole; NaN, a value of the wrong type, and text that means nothing are values of their own.
The text of a TLE is the age of its elements, of an OEM file its lines: markers, keywords with values, and states at an epoch.
A check is a record that says whether it fails and what is then reported, so that the first failing one is what the gateway reports and all of them are what an operator has yet to mend.
A fix is taken literally: "Set `x` to 5, or delete the line" is two ways, and `Mended` is what becomes of document and files; where a way leaves a second orbit source beside the first, the document has two.
Wording, severities, the warnings that only repeat a value, and the explanations of rejected packets are left out.

**Startup.** Copies of the gateway start, stop, and start again on one machine.
A step is what `main::run` does between two places where it can fail: load, bind UDP, build the propagator, look at the age of its data, bind RF, bind HTTP, open the history, run.
The history file is replaced by rename when it is opened, so a copy that has it open keeps a file that no longer has the name; `file` and `handle` number the openings.
After Ctrl+C sockets go in any order, the history is closed when UDP and HTTP are gone, and the RF socket may outlive it.
A copy may be given port 0, for which the system finds a port; that is taken to be one that no document names. Port 65535, whose next is the one below, is not.
Of refusals to bind, those of reserved ports, foreign addresses and ports in use are modelled, those of a firewall and others (CG-204) are not.
Time stands still: what matters of it is whether the data is old or the epoch covered.

**Health.** A report loads twenty-one counters one after the other while ingest, pipeline, listener, writer and clients bump them in their own order.
Counters that the rules compare with zero only saturate; the others have a bound.
The report says what it read, not what was so at one instant, and the model says which of it holds all the same.
Loads and bumps take effect in program order, for all tasks: the model is sequentially consistent, while the code uses `Ordering::Relaxed`, under which a compiler or a processor may exchange accesses to different counters. What `ReportTells` owes to the order of the loads holds on a build that does not.

**SessionLimiter, Sandbox.** A visitor acquires a permit, has its address checked and counted under the lock, raises the two counters, and gives all back in the order of `Drop::drop` and then the guard's fields.
Of one visitor the session itself is modelled: hello, ticker, commands and their window, pings, the deadline, and every send, of which some have a timeout.
Time goes by the ticker's period and waits for what the session does without awaiting.
The simulation is a round of places in the sky, with sunlight in tenths and angles in hundredths of a degree; the values and tolerances are those of the code, the formulas behind the truth are not.
Other visitors' sessions may end at any time.
The origin check and the address header are pure functions that decide who comes from where; `Ips` are their results.

**Simulator.** Both programs send a sample to one socket, wait, send the packet to another, and pause.
Sleeps are late, datagrams take their time and get lost, sends fail, and the pipeline comes to a packet when newer ones have long arrived; the gateway finds a sample by arrival time only (`RfStore`, with samples that carry no time of their own).
`Paced` says what lead, pause and window must be for a packet to meet its own sample; the simulator's defaults satisfy it, the replay tool's `--delay-ms` of 0 does not.
`docs/RF_SIDE_CHANNEL.md:76-78` says that one must pace frames "at least a few milliseconds apart" and that both tools "do both for you"; without `--delay-ms` the replay tool does only the first, sending the sample before its frame.
Then a packet may be joined to the sample of a newer one, and is never joined to one older than the last before it.
A packet without measurements is joined to a neighbour's whenever one lies within the window: most lines of `iss_pass_lab.jsonl` (305 of 330) have none.
The nominal body rate grows with the frame number and passes the default ceiling after 5,000 frames; `MaxRate` is that frame.

## 3. Runs

| Run | Question | Bounds |
|---|---|---|
| `history` | Do counters, ring, writer and file stay in agreement through drops, batches, compactions, errors, kills and restarts, and does close return? | capacity 3, queue 2, 7 messages, 1 error per life: the ring and the file fill and compact twice, the queue overflows, and a kill falls into every step |
| `history_bound` | Is the file never over twice the capacity? No: the count is compared only after a batch | capacity 1, queue 3, 3 messages |
| `tm` | Is a link in order a lossy queue, is loss local, does flush send all, are octets of two packets never joined, and does garbage end at the next right pointer? | three links: lossy with 3 packets and 2 faults; with duplicates and overtaking, 2 packets and 3 faults; two channels, one filtered out, without check sequence, 2 packets and 2 faults. Packets shorter and longer than a frame, an idle frame, counters that wrap after 3 |
| `asm` | Is every undamaged frame found, once, however bytes are cut, damaged or missing? | marker of 3, frames of 3 bytes over 2 values, 2 frames, datagrams of up to 13 bytes: two whole frames with their markers and noise; 2 faults or resets |
| `gateway` | Is nothing lost in silence, has a client no hole, does shutdown complete with the history closed last? | 3 datagrams, 3 messages, 1 client, channels of 1, queries without limit (1) and over the largest (2): a receiver can fall 2 behind, so that missed counts above one occur |
| `processing` | Is an alarm right and a silence right, whatever sample, clock and cached state a frame meets? Is the nearest sample used, is every frame accounted for? | 2 workers, 2 packets of 5 kinds (invalid; without time; time right, too far off, unreadable; measurements handed in), 3 samples of 2 kinds, store of 2, instants 0 to 3, throttle 2, skew 1, window 1, delay 1 |
| `startup` | Does some way of the advised fix always help? Does a running copy keep its history file? Is who runs blind told? Does the ephemeris answer from the right states? | every key at the values where a check turns, keys missing, pairs that belong together, files missing or unreadable, 20 OEM files asked at 15 times; two copies, three openings |
| `health` | Can a status report be relied on that is made while everything moves? | nine gateways, each near the thresholds of some rules |
| `sandbox` | Does everything taken come back, do the caps hold, does a scenario raise its alarms only, does every session end? | 3 visitors, 2 addresses, 2 places, 1 per address, 3 visits; or one visitor with commands of every kind, a life of 3 periods, seconds and timeouts of 2, 2 commands a second |
| `sandbox_life` | Does a session end without its visitor reading? No: pong and close have no timeout | as `sandbox` |
| `sandbox_rate` | Is a visitor obeyed no more often than the limit within any second? No: two windows may meet in it | as `sandbox` |
| `simulator` | Is every packet judged by the measurements sent with it, or by a neighbour's where it has none or the pacing is too short, and does a script show on exactly its frames? | 14 command lines, of which four have no pause or a short one; 3 frames or up to 5 packets, jitter and lateness of 1, lead 2, pause 5, window 9, a store of 2, a pipeline 8 behind, 1 loss |

In `processing` the tolerance equals the slack (4), so that both halves of `RfChecksExact` bite; the propagator covers 1 to 4, so that it fails at 0; no sample arrives once no packet is left to look for one.

Why the bounds are enough: each property relates a few messages, frames or visitors and the faults between them; every bounded buffer overflows, every counter wraps, and every queue is both empty and full within the bounds.
One Gateway client suffices because relay tasks share nothing but two counters that are only added to.
In `startup` a check looks at one key or at a pair, so that single deviations and the pairs that are compared are all there is; a second copy suffices for a conflict.
In `health` no rule relates more than the counters its scene moves.
In `simulator` the inequalities of `Paced` that keep samples apart are as tight as the integers allow; the window is wide enough for a neighbour's sample to be found.

Each property of a passing run has a mutant in `PROJECT.json`: a definition of the model changed as a plausible slip in the code would change it, which that property catches.

Deadlock is checked in `history` and `history_bound`; the other systems stop when their bounded input is used up.

### Properties worth knowing

- `Accounted`, `LossBoundedByErrors`, `NoDurableLoss` (history): every recorded message is written, queued, counted as dropped or behind an error; an error costs at most two messages; what a reload would return is lost only to newer messages.
- `NeverSpliced`, `LossIsLocal`, `GarbageEndsAtPointer` (link): a packet is emitted whole or not at all; only packets that had a part in a lost frame are lost; after a right pointer nothing of an earlier wrong one is left.
- `GapsMeanLoss` (link): no gap is counted when no frame is missing. A channel's gap comes with one of the master channel only while fewer than `Modulus` frames are missing: of several channels `Modulus` frames in a row can be lost that the master channel's counter does not show.
- `CutsInvisible` (marker search): the outcome is that of one push of all the bytes.
- `NoHoleForLateClient` (gateway): a dashboard that asks for the history after its relay has subscribed sees each message live or in the history, and what the answer leaves out it is told of (`truncated`) or was evicted. It cannot know from the open connection that it has: messages published between the handshake and the subscription reach it by neither way if it asks that early, a window `tests/live_rf_e2e.rs` mentions and waits out.
- `RfChecksExact`, `HilChecksExact` (processing): with a tolerance above the sum of sample delay, window, skew and throttle a correct value raises no alarm, and a value wrong by more than tolerance and sum always does, or the message says that its time code was unreadable.
- `NearestSampleUsed`, `StateFitsTime` (processing): the sample is the nearest of those still held, and a cached state never drifts from the instant it is published with.
- `NothingLeaks`, `CapsHold`, `CommandsLimited` (sandbox): permits, map and gauge add up at every step, and sessions stay within both caps. The limit on commands does not hold of every second; what does, twice the limit, is proved (`TwiceTheLimitAtMost`).
- `PerturbsOneThing` (sandbox): after any commands, a frame raises all alarms of its scenario and no other, two documented blind spots excepted.
- `AFixHelps` (startup): whatever stops the gateway, one way of its first advice takes that problem away and brings no new one, by the rules of `config/file.rs` and not by those of the message. Not each way does: `diagnose.rs:362`, `:382` and `:488` advise to set `channel_capacity`, `max_datagram_size` or `doppler_tolerance_hz` or to delete the line, and `config/file.rs:213-218` and `:255` require all three, so that the deletion is refused as CG-121; and a `tle_file` set because `tle_inline` is empty (CG-105) stands beside it, which is refused as CG-123.
- `RunningOwnsFile` (startup): of copies with the same addresses and a UDP port of their own only one runs with the file, because sockets are bound before it is opened. It does not hold for copies at port 0 or at other addresses, which is what CG-201 advises ("pick another port"): the newer takes the file's name, and the older goes on writing a file nobody will read. Nor does it hold of a copy that drains: its sockets go before `history.close()`, so that a copy started in that moment takes the file, and what the older one still writes is not reloaded. Nothing in the repository promises otherwise.
- `Told` (startup): no tracking, elements that are old, or an ephemeris that is over or not yet begun is never silent, one case excepted: the TLE file goes away between its two readings. Elements from up to a day ahead of the clock count as fresh, as in `check_tle_age`.
- `OemFaithful` (startup): compared with the blocks read off the file itself, without the parser.
- `ReportTells` (health): what is wrong all the while is in the report; what is in the report was so at some instant, shares of growing sums excepted (CG-502, 503, 508, 511, 513 may be reported of a mixture of two instants); the one word is the worst of all findings. It depends on the order of the loads: the whole before the part.
- `JudgedByTheNearest` (simulator): pacing and window together replace the packet number that samples do not have; without them only the order remains.

### Fairness

- `history`: weak fairness of the writer thread, a thread of its own that the operating system schedules and that blocks only on its queue or the disk. Nothing is assumed of callers. With it `CloseCompletes`.
- `gateway`: weak fairness of the pipeline, of the stop of ingest, of main's awaits and of each relay task. Tokio polls every woken task; shutdown is looked at first in both loops (`biased`). A relay's send is taken to complete or fail: a client that stays takes what it is sent. Arrival of datagrams, clients and Ctrl+C are not assumed.
- The select of a relay is biased to messages, so a close is seen when no message waits. In a bounded model messages end, and then it is (`ClientServed`); that a client's close is not starved by an endless stream is not claimed.
- `sandbox`: weak fairness of time, of send timeouts, of the hello and of admission and release; strong fairness of the tick and of the deadline, because `tokio::select!` without `biased` takes one of the ready branches at random, so that a branch ready again and again is taken though commands keep coming. Sends without a timeout complete only if the visitor reads: `ReadingSpec` adds that, `SandboxSpec` does not. With it `SessionEnds`.

## 4. Findings

1. `history.rs:11` says the file is compacted whenever it reaches twice the capacity and so cannot grow without limit; the count is compared only after a whole batch, and a batch lasts while the queue is kept fed (`history_bound`).
2. `server.rs:3` promises a hard session lifetime and a slow-client send timeout; pong and close are sent without one, and while such a send waits no deadline is looked at (`sandbox_life`).
3. `docs/PUBLIC_DEMO.md:72` says "10/s, extra commands are ignored"; the windows of `server.rs:369` start with a command, so that the end of one and the start of the next put up to 20 within one second (`sandbox_rate`).

## 5. Proofs

`HistoryStoreProofs` proves, for every capacity, queue bound, number of messages and number of errors (`HistoryAssumption`: the first two positive):

| Theorem | Says |
|---|---|
| `TypeCorrect` | ring and copy stay within the capacity, the queue within its bound |
| `Invariance` | the inductive invariant `HInv` |
| `NothingUnaccounted` | `Accounted` |
| `RingAndWriterAgree` | until a write is dropped, the thread's copy followed by the queue ends in the ring |
| `FileAndWriterAgree` | until an error, reloading file and buffer gives the thread's copy |
| `CleanCloseIsLossless` | after a clean close a restart reloads the ring |
| `FileBoundedWhenIdle` | between batches the file is under twice the capacity |
| `LossInvariance` | the inductive invariant `LossInv` |
| `ErrorsCostTwoAtMost` | `LossBoundedByErrors` |
| `ReloadsLoseNothing` | `NoDurableLoss` |

`HInv` is `TypeOK /\ ThreadOK /\ Accounted /\ RingMirrorsWriter /\ FileSound`.
The checked invariant `FileMirrorsKept` is not inductive: nothing in it says that the lines of file and buffer are whole, that the thread's handle is on the named file, or how the line count relates to the file.
`FileSound` adds, for a process without errors: its handle is on the named file, every chunk is a whole line, the newest `Capacity` of them are the copy, `linesInFile` is their number, nothing is buffered outside a batch, and between batches the file is short.
`ThreadOK` ties the thread's program point to the mode: it runs while the process does, and after a close it is done with an empty queue.
From these, `ReloadWhole` (what a reload gives of a file of whole lines is its newest lines) and `NewestAppend`, `NewestShift` (how the newest `Capacity` of a sequence change by an append, a shift from queue to copy) carry each step.

`LossInv` is `HInv /\ OrderOK /\ FileOrder /\ LossOK`, and says what is left when files fail.
`OrderOK`: messages keep the order of their recording from queue to copy. `FileOrder`: so does the text of file and buffer, which has, of the messages since the oldest of the copy, no others.
`LossOK` bounds what errors have spoiled: the messages of the copy without a line of their own, and one more while the text ends within a line, are at most two for each error.
The bound cannot speak of the reload alone, since a line that is left open costs nothing until the next message is appended to it.
A message on a line of its own is reloaded (`SafeIsReloaded`): the lines after it are of newer messages of the copy, hence fewer than `Capacity`.
`NoDurableLoss` follows from `FileSound` for each way the file changes: appended lines and a compaction keep its newest messages (`OnlyNewerDisplace`), and a torn line takes the place of one.

`FrameProcessingProofs` proves, for every set of workers, inputs and tolerances and every window, skew, delay and throttle (`RfAssumption`, `ProcessingAssumption`: little more than types):

| Theorem | Says |
|---|---|
| `Invariance` | the inductive invariant `PInv` |
| `PositionsFitTheirTime` | `StateFitsTime` |
| `RfChecksAreExact` | `RfChecksExact` |
| `HilChecksAreExact` | `HilChecksExact` |

`PInv` says how far apart the instants are that meet in a message: a stored sample is at most `RfDelay` older than its stamp (`StoreOK`), the cached state is that of the cached instant (`CacheOK`), what a worker holds was resolved from its packet and has a sample within the window (`JobsOK`), and so has every message, with a state within the throttle (`EmittedOK`).
`RfChecksExact` alone says nothing of the store, the cache and the packets in hand, on which the next message depends.
`FoundIsNear` carries the lookup (the nearest exists, by `LeastNumber`), `SkewBound` and `PhysicsNearReception` the instants; the theorems add the four distances up.

Of the store and the counts it proves, for a finite set of workers:

| Theorem | Says |
|---|---|
| `AccountInvariance` | the inductive invariant `AInv` |
| `TypeCorrect` | `TypeOK` |
| `TheNearestIsUsed` | `NearestSampleUsed` |
| `NothingUncounted` | `Accounted` |

`AInv` is `PInv /\ TypeOK /\ DequeOK /\ PickedOK /\ Accounted`.
`DequeOK` says that the deque is the newest of what arrived, so that `Recent`, which speaks of arrivals, is what a lookup sees (`DequeIsRecent`); `PickedOK` says of the packets in hand what `NearestSampleUsed` says of messages.
`Accounted` counts workers and messages by cardinalities, so that a step that moves one packet moves one count.

Of the programs that feed the store it proves, for every set of command lines and recordings, all leads and pauses, jitter, lateness and lag, and any losses (`TimesAssumption`, `PlansAssumption`: numbers and types):

| Theorem | Says |
|---|---|
| `SimInvariance` | the inductive invariant `SimInv` |
| `PacketsAreJudgedByTheNearest` | `JudgedByTheNearest` |

`Paced` stands in the property, where a conclusion needs it, and not among the assumptions.
Which sample is nearest depends on samples that have not been sent yet when the packet is, and times of different packets lie any number of pauses apart.
`SimInv` therefore compares times less the pauses before their packets (`Due`): so seen, samples are sent and arrive in the order of their packets, each a lead after the one before it, up to the jitter (`After`, `AfterSent`), and a packet lies a lead behind the samples of its number and before, and not behind any later one (`Timed`).
No inequality is needed for that, since a sender never wakes early; the sender's next waking time bounds what is still to come.
`ArrivedOK` adds that the deque is the newest of what arrived, and that between two samples received there are at most as many as between their packets; `OwnOK` that nothing that is not lost is forgotten.
The lead then keeps away samples older than the last before the packet (`EarlierByLead`), the pauses those newer than its own (`LaterByPauses`), and since `RfCapacity` pauses are longer than a packet waits, its own is not evicted (`StillHeld`).
`PlansAssumption` says also that the packets of a recording are among its lines, since the filter that picks them is defined by recursion.

`SandboxProofs` proves of SessionLimiter, for every finite set of visitors, every set of addresses and all limits (`LimiterAssumption`):

| Theorem | Says |
|---|---|
| `Invariance` | the inductive invariant `LimiterInv` |
| `NothingIsLeaked` | `NothingLeaks` |
| `CapsAreKept` | `CapsHold` |

`LimiterInv` is `PlacesOK /\ PermitsOK /\ ActiveOK /\ MapOK`: each shared object agrees with the number of visitors between the step that takes from it and the step that gives back.
The caps follow: the semaphore starts at one, the check under the lock keeps the other.
`CapsHold` by itself says nothing of visitors that hold a permit and are not yet counted, nor of a guard that is half dropped.

It also proves that `SandboxSpec` implements `Spec` of SessionLimiter (`SandboxIsLimiter`): a session's own steps leave permits, map and counter alone, and its ends are ends of the guard.
Hence `SandboxLeaksNothing`: both hold with the session's loop in it.

Of the session itself, for every orbit, every second, life, limit and speed and every set of commands (`SandboxAssumption`):

| Theorem | Says |
|---|---|
| `SessionInvariance` | the inductive invariant `SessionInv` |
| `ScenariosPerturbOneThing` | `PerturbsOneThing` |
| `TwiceTheLimitAtMost` | `TwiceTheLimit`: within any second at most twice the limit |
| `SandboxKeepsCaps` | `CapsHold`, with whole sessions |

`SessionInv` has two parts. `FrameOK`: while a frame is being sent its flags are those of the session's scenario, mask and place, because nothing else is looked at until the send ends; what each scenario then shows is a case split over scenarios and places (`ScenarioShows`), with the measurements' tolerances of the code and any sunlight and zenith distance.
`WindowsOK`: of the commands obeyed in the last second those within the window that counts are counted by it, those before it belong to one earlier window, and each window is within the limit.
A window starts anew only when its age has reached a second, so that no period belongs to two windows and no second meets three; neither the count nor what was obeyed says this alone.

`GatewayProofs` proves, for every finite set of clients, all capacities and all bounds (`GatewayAssumption`):

| Theorem | Says |
|---|---|
| `Invariance` | the inductive invariant `GInv` |
| `TypeCorrect` | `TypeOK`, and with it that the gauge is the number of relays |
| `NothingLostInSilence` | `AllAccounted` |
| `NoHole` | `NoHoleForLateClient` |
| `HistoryIsClosedLast` | `HistoryClosedLast` |

`GInv` is `PipeOK /\ LifeOK /\ ClientsOK /\ AccountOK`.
`PipeOK` says that what is recorded is what is sent but for the message in hand; `LifeOK` what has ended by the time main waits for what; `ClientsOK` that a page asked for after the subscription is the newest of what the ring held after `r` messages, up to some limit and marked if cut by it, for some `r` from the subscription to now, and that the messages since then have reached the client but for the one being sent.
A page and a stream that overlap this way leave no hole, which `NoHoleForLateClient` alone does not carry from one message to the next.
`AccountOK` counts the pairs of client and message that receivers are past.

`TmLinkProofs` proves, for all channels, sizes, moduli, faults and numbers of packets (`FormatAssumption`, `LinkAssumption`):

| Theorem | Says |
|---|---|
| `Invariance` | the inductive invariant `TInv`: `LInv` on every link that is not `unprotected` |
| `OctetsNeverMeet` | `NeverSpliced` |

`LInv` is `SenderOK /\ FramesOK /\ ReceiverOK /\ DeliveredOK`, and speaks of stretches of one sequence, the octets of all packets ever packed on a channel (`stream`).
What is queued is its end; what a frame carries is a stretch of it, and a frame's pointer is at a packet's first octet; frames of consecutive numbers join (`FramesOK`); what is pending begins with a packet and ends where the last frame ends (`ReceiverOK`).
The receiver sees counts and not numbers: `CountTells` is where the window of the counters comes in, since two numbers that agree modulo `Modulus` and are less than that apart are equal.
A stretch that begins with a packet and is as long as its header says is that packet (`Whole`), which gives `DeliveredOK`.

Where pointers lie none of this holds. What holds on every link it proves from an invariant of its own:

| Theorem | Says |
|---|---|
| `AnyLinkInvariance` | the inductive invariant `AnyLinkOK` |
| `HoldsLessThanAPacket` | `TypeOK`, with the bound on pending octets |
| `FlushLeavesNothing` | `FlushSendsAll` |
| `PointerResyncs` | `GarbageEndsAtPointer` |

`AnyLinkOK` is `CountingOK /\ SendingOK /\ CarriedOK /\ HeldOK`.
`CarriedOK` keeps of `FramesOK` what a wrong pointer cannot touch: a frame's data is a stretch of its channel's octets.
`HeldOK` bounds what is pending between frames by the longest packet, because draining stops only at octets that are fewer than their first header asks for, and no header asks for more than `PACKET_MAX_LEN` (`LengthAssumption`: a length field is a `u16`).
`SendingOK` adds to the sender's part that a queue that ends with an idle packet is whole frames (`FlushOK`): at most two, since an idle packet takes a header at least.
`PointerResyncs` follows from `FoundOK`: once a frame whose pointer is right has been taken, what is pending starts a packet out of that frame at each step of taking it.
The limits on packets (`BoundAssumption`) are numbers, nothing more.

`PacketLinkProofs` proves `LossyQueue`: `Spec => IsPacketLink`, on the same assumptions; a link out of order or `unprotected` is mapped to one on which nothing happens, since nothing is promised of it.
The refinement maps a channel's count of packets to `sent` and the numbers of what was emitted to `got`.
Next to `TInv` it needs `OInv`: a channel's octets are in the order of packing (`NumbersOK`), the frames under way are in the order of what they carry and behind the last taken (`OrderOK`), and all that was emitted is older than anything from the front of the pending octets on (`PastOK`).
Packing a packet is then `Send`, emitting one is `Deliver`, and every other step a stutter; an idle packet is packed and never emitted, as one that is lost.

`OtherPacketsArrive` proves `LossIsLocal` on the same links. `LInv` says that what is emitted is genuine, not that anything is; that a packet whose frames were all taken is emitted needs `LocalOK`:

- each start of a packet still ahead of the sender is in its list, and a frame points at the first start in it (`StartsOK`, `NewOK`), so that synchronisation never comes later than it could;
- the frames under way are newer than those taken, which end where the last one ends (`NewOK`, `SpansOK`);
- between drains no complete packet waits (`WaitingOK`);
- a packet that starts in the unbroken run of frames up to the last one, or all of whose frames were taken, is emitted or lies at or behind the front of what is pending (`KeptOK`).

The first three let each step keep the last: within a run draining passes a packet only by emitting it, and a gap clears only what was not complete.

`CountersTellTheTruth` proves `GapsMeanLoss` on every link that keeps its frames in order, damaged pointers included.
`NumberedOK` numbers all frames sent in the order of the master channel, and says that each one behind the last counted is under way in its place or among at most `damage` lost ones, that both counts of a frame are its number and its place in its channel modulo `Modulus`, and that the receiver's are those of the last frame counted.
Then a difference of counts that the code calls a gap is a frame that is missing; and while fewer than `Modulus` are, numbers that agree modulo `Modulus` are equal, so that a channel can miss nothing that the master channel did not.

`SyncAndHealthProofs` proves of the marker search, for every marker, frame length, number of frames, noise and cut (`AsmAssumption`, of which the proofs use that marker and frame are not empty: no length of the marker, and not that it has no border):

| Theorem | Says |
|---|---|
| `SearchInvariance` | the inductive invariant `SearchInv` |
| `UndamagedFramesAreFound` | `UndamagedFramesFound` |
| `CutsAreInvisible` | `CutsInvisible` |

`SearchInv` is `FoundInv /\ CutInv`.
`FoundInv` gives, for each position the search has passed, a reason that later bytes cannot take away (`Cleared`): no marker is there, or one that would have to contain a byte of a handled frame, or the frame behind it was looked at whole. That no undamaged frame starts there is not stable by itself, since what was passed as too short to tell may be completed by the next datagram.
That each is handled once needs the order of what is still to come: bytes of frames stay in the order they were sent in, on the wire and in the stream, and belong to frames newer than any handled (`OrderOK`, `AheadOK`).
`CutInv` says that what is done, together with what a search from here would add, is one search of all the bytes (`ScanOK`), which each turn keeps by definition; a push keeps it by `Cut`: searching all the bytes gives what searching the first of them gives and then what a search from where that one stopped gives.
`Cut` is an induction over positions from the end, on `Skip`: bytes before the first marker can be left out, but for the last ones, shorter than a marker, that a search keeps.
One search of everything (`Searches`) is a recursive function over positions; that such a function exists is proved too (`SearchesExist`), the same way, because a recursive definition says nothing otherwise.

Of the status report it proves, for counters and thresholds of any size, whatever is counted between two loads (`ScenesAssumption`: gateways whose counts are numbers, none with a frame looked up before it was received):

| Theorem | Says |
|---|---|
| `HealthInvariance` | the inductive invariant `HInv` |
| `ReportsCanBeReliedOn` | `ReportTells` |

`HInv` applies the rules to `Merged`, what the report would read if the gateway stood still from now on: the findings lie between what held all the while and what held at some time, shares excepted (`WatchOK`).
A step of the gateway changes only what is still to be loaded, a load changes nothing.
What makes it hold is the order of the loads: a rule that compares two sums reads the whole before the part, so that growth in between cannot make a share look smaller than it ever was (`LoadedOK`, `HandledOK`).

`StartupProofs` proves, for any number of copies, whatever their documents and files, however often they stop, follow the first advice and start again.
Of the documents `StartupAssumption` asks only that a UDP address, if there is one, parses or does not, and that an inline TLE has an age or none; of the files that a TLE has an age or none, and that the OEM file is a sequence of lines of which those with data have an epoch.
`ValuesAssumption` keeps an address apart from the marks for an absent or unreadable value.

| Theorem | Says |
|---|---|
| `StartupInvariance` | the inductive invariant `StInv` |
| `RunningKeepsItsFile` | `RunningOwnsFile` |
| `OrbitInvariance` | the inductive invariant `ToldInv` |
| `WhoRunsBlindIsTold` | `Told` |

`StInv` says which sockets a copy has at each stage and for which address (`Sockets`), that no UDP port is taken twice (`OnePerPort`), and what each refusal lets its advice do to the address (`Mendable`).
`RunningOwnsFile` speaks of copies that listen at one address, and advice may move a copy away and, over several starts, back; so the proof needs to know what stays different.
`Displaced` says it: when the file of a running copy at a fixed port was taken, some other copy has a higher port, or one has a lower port, with a free one in between that no advice ("the next port") leads across.
A copy at port 0 counts as the lowest of all: it is never refused for its port, so no advice moves it.

`Told` compares what a copy said with the lines of the OEM file, from the parser's blocks to the epochs themselves, for files of any length.
`Readings` gives the reader's state after each line as a recursive function; that such a function exists and what its states are is shown by the least line at which it would fail (`LeastExists`, `ReadingsExist`, `ReadingsOf`).
`ReadersOf` is what holds of the reader after any line: every block begun or finished has increasing epochs, each of which stands on some line of the file, less some time system named in it.
So the window of a finished block lies among the epochs (`CoverageOf`), and an ephemeris whose epochs are all past, or all to come, has a coverage that does not include the present: the warning is given.
`ToldInv` carries this across the steps of other copies and of the operator, who puts files in place beside a running one: no advice changes what an OEM file or a TLE file says (`SameData`), and a document is edited only of a copy that has stopped, to one whose TLE still has an age or none (`EditedSource`, `MendedSource`).
A TLE file may go away while a copy starts.
Then its second reading fails, of which the gateway says nothing; `orbit[i].checked` tells such copies apart, and of them `Told` claims nothing about the age.


Only model-checked:

- Liveness (`CloseCompletes`, `ShutdownCompletes`, `ClientServed`, `SessionEnds`), which is outside the prover.
- `AFixHelps` of Startup is about documents with one setting off, and the pairs in `MCStartup`. It is no theorem of all documents: of two mistakes the mending of one can uncover the other. A `persist_path` of the wrong type beside a capacity of 0 is refused as CG-121; with the path mended the document is refused as CG-134.
- `OemFaithful` of Startup reads blocks off the lines without regard to covariance sections. For files that hold marks or keywords of metadata in such a section the two differ and the reader is right, so a theorem would be about the files without them, and would need an induction over blocks beside the one over lines; TLC compares them on the 20 files.

## 6. Plan

Done: the history, the link with its refinement, the marker search, the tasks of the gateway, frame processing, admission and the sandbox session, start-up with configuration, ephemeris and diagnosis, the status report, simulator and replay; proofs of the history, the link, the marker search, the gateway, frame processing, admission and the sandbox session, the simulator's pacing, the status report, and in start-up of the file's owner and of what who runs blind has been told.

What would add most next:

1. A gateway with an endless stream of messages (a cyclic message counter), in which a relay's close can starve: `ClientServed` holds of a stream that pauses.
2. The settings that the gateway derives from others, as operators.

### Not modelled

- CCSDS space packets (`ccsds.rs`, `hil_tm.rs`): pure field parsing without state; what the rest of the system needs of it, that a packet's length is in its header and that a packet is valid or not, is in TmFormat and FrameProcessing.
- The Open MCT dictionary (`openmct.rs`): static data and one projection.
- The browser demos (`demo/`, `site/`): clients of the gateway, outside it.
- The bits of check sequence, pseudo-randomiser and time codes; the floating-point formulas of orbit, interpolation and expected measurements: data transformations with no state between calls, out of TLC's reach. Their users see what they promise: a check that notices damage, a position that moves with its instant.
- Wording of diagnosis and logs, the explanations of rejected packets, latency sums.
- Power loss of unsynced data, several frames in one datagram without marker, a restart of the sender in the link.
- Two hazards have no property. What is written to a history file that lost its name (`history.rs:550`) counts as persisted and is never reloaded; a multiple of 256 frames of a channel lost in a row (`frames.rs:881`) does not show in the counters. The properties near them excuse both.
- How axum ends open connections at shutdown, which is outside `src/`.
