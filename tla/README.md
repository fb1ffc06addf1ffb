# PacketSentinel in TLA+

PacketSentinel reads a capture file, groups its packets into flows, recognises
the application behind each flow, applies block and throttle rules, looks for
anomalous flows, and writes the packets it lets through to another capture.
This directory holds TLA+ modules that model the program, TLC configurations
that check them on small instances, and theorems with proofs for TLAPS.

Paths below are relative to the repository. `PROJECT.json` maps every
definition that models code to its file and lines.

    tlc -config MCTSQueue.cfg MCTSQueue     # any MC module with one of its .cfg files
    tlapm TSQueueProofs.tla                 # any *Proofs module

## 1. The system

| Component | State | Operations | Module |
|---|---|---|---|
| bounded queue, `include/thread_safe_queue.h` | `queue_`, `closed_`, a mutex, two condition variables | `push` `try_push` `pop` `try_pop` `pop_for` `close` `isClosed` | `ClosableChannel`, `TSQueue` |
| engine, `src/dpi_engine.cpp` | counters, `running_`, threads, output queue | `run` (the reader), the writer and statistics threads, shutdown | `PacketFilter`, `DPIEngine` |
| load balancer, `src/load_balancer.cpp` | its queue, its fast paths | thread function, `stop` | `DPIEngine` |
| fast path, `src/fast_path.cpp` | its queue, flow table, counters | thread function; `processPacket`, `classifyFlow` | `DPIEngine`; `FastPath` |
| flow table, `include/lru_flow_table.h` | `flows_map_` into `lru_list_`, `evictions_total_` | `getOrCreate` `get` `clear` `exportFlows` | `FlowTable`, `LRUFlowTable` |
| rules, `src/rule_manager.cpp`; `sniToAppType` of `src/types.cpp` | blocked addresses, apps and domains, throttled apps, delay | the `add...` calls, `loadFromJSON`, `isBlocked`, `isThrottled` | `Rules`, `RulesFile`, `RuleManager` |
| flow analyzer, `src/flow_analyzer.cpp` | none | `score` | `FlowAnalyzer` |
| packet parser, `src/packet_parser.cpp` | none | `parse`, `parseIntoPacket` | `PacketParser` |
| hostname extractor, `src/sni_extractor.cpp` | none | `extractSNI` `extractHTTPHost` `extractDNSQuery` `extractAny` | `SNIExtractor` |
| single-threaded engine, `src/main_simple.cpp` | flows, counters, hostnames seen | the packet loop, the report | `SimpleEngine`, `Engines`, `CaptureFiles` |
| capture files, `src/pcap_reader.cpp` | file position, byte order, stream buffer | `open`, `readNextPacket`, `writePacket`, `close` | `PcapFile`, `CaptureFiles` |
| command line, `src/main_mt.cpp` | | options, in their order | as seen by `RuleManager` |
| dashboard, scripts, tests | | | not modelled |

How they interact. The reader pushes each parsed packet to the load balancer
its 5-tuple hashes to, that one to one of its fast paths by the same hash, and
every fast path pushes what it forwards to the one output queue the writer
empties. All of these arrows are `TSQueue`s. At the end of the input the stages
are closed and joined one after the other, upstream first. Rules are set
before the threads start and only read afterwards; flow tables belong to one
fast path each. The fast path asks the extractor for a hostname, the rules for a
decision and, at every fifth packet of a flow, the analyzer for a score.

What is hard here, and what makes each part correct:

* *Queue.* Notifications are sent after the mutex is released, waits time out
  and wake up spuriously, and `close` meets sleepers on both sides. Items must
  leave once and in order, nobody may sleep forever beside what he waits for,
  and what was accepted before `close` must still come out.
* *Pipeline.* Every caller ignores the result of `push`, so a queue closed one
  step early loses packets silently. Back-pressure runs from the writer to the
  reader and must dissolve. Files fail in the middle. A flow's packets must
  reach one fast path in capture order, the output must hold what was
  forwarded, and the totals must be of everything.
* *Flow table.* The map holds raw node pointers, nodes are freed and reused.
* *Decisions.* Three sticky flags of a flow (`blocked`, `classified`,
  `throttled`) are set by different packets and read by later ones, while the
  table may forget the flow in between. The same logic is written twice.
* *Walks over bytes.* Nested length fields from the network drive offsets.
* *Thresholds.* Six scores with different formulas compete under one flag
  threshold.
* *Files.* Captures come in either byte order and may be cut short anywhere;
  what is written lies in a buffer first, the disk may fill up, and an exception
  ends the process. What is on the disk then must still be a capture, of the
  packets that were kept. A rules file is searched for keys and not parsed.
* *Report.* It is computed at the end from flow tables that have forgotten, by
  asking the rules again.

## 2. Modules and how they correspond to the code

**`TSQueue`** has one action per critical section. `PushItem`, `PopItem`,
`PopNone`, `CloseSet` are what happens under the lock; `PushWait` and `PopWait`
release it and sleep (`pc = "waiting"`); `PushNotify`, `PopNotify`,
`CloseWakeEmpty` and `CloseWakeFull` are the notifications sent after unlocking;
`PopTimeout` is the deadline of `pop_for`, `SpuriousWake` what the standard
allows. A non-blocking call differs only in not waiting. `accepted` and
`delivered` are histories. **`ClosableChannel`** is what callers may assume:
each call takes effect at one instant with an outcome explained by the items
accepted and delivered so far. `TSQueue` implements it (`Linearizable`) with
`sent <- accepted`, `received <- delivered`, `shut <- closed`.

**`DPIEngine`** composes the reader (`Main`), the balancers (`LB`), the fast
paths (`FP`), the `Writer` and the statistics thread (`Stats`). Queues are taken
at the level of `ClosableChannel`: blocking push, blocking pop, close. Each
thread has a program counter and the packet in its hand; a packet is its
index in the capture, a record is a flow, `Junk` (cannot be parsed) or `Corrupt`
(`readNextPacket` throws). `faults` says which files fail. What
`processPacket` decides is left open here (`FPDrop` or `FPDecideForward`),
since nothing in the pipeline depends on it. An exception that leaves a
thread, or `run()` with joinable threads, ends the process: `crashed`.
**`PacketFilter`** is the engine without threads: take a record, emit or discard
it, report; flows stay in order and the report counts what happened.
`ImplementsFilter` refines it.

**`LRUFlowTable`** models `std::list` nodes as identities that are allocated and
recycled, the map as tuple to node, and `ref`, the reference that `getOrCreate`
and `get` hand out, which the caller uses until his next call.
**`FlowTable`** is a bounded sequence of entries in order of use; its operators
are also the table inside `FastPath`, so the refinement `ImplementsFlowTable`
justifies that use.

**`Rules`** holds the decisions (`isBlocked`, `isThrottled`, `domainMatches`,
`sniToAppType`) as operators on strings; **`RuleManager`** the calls that build
the rules, in any order the command line allows, with a history of what was
asked for (`given`). **`RulesFile`** is the scan `loadFromJSON` makes: a file is a
sequence of tokens (quotes, words, brackets, commas, colons), `find` is
`std::string::find` on them, and `extractStringArray` and `extractInt` take what
lies between the quotes up to the next bracket, or behind the next colon. `Printed` is the
documented format; `Whole` and `Listed` say what a parser of JSON would take
from a file of which only the beginning is there.

**`FlowAnalyzer`** is `score()` in integer arithmetic: scores in thousandths,
variance as the exact rational that Welford's method computes, compared by
cross-multiplication. Entropy is an input.

**`FastPath`** has one action for each way out of `processPacket`: `FastDrop`
(the flow is blocked already), `BlockAndDrop` and `Forward`. Each contains the
whole handler up to there: lookup and eviction, counters, classification,
scoring, throttling. `log` is a history for the properties, and `Memory(i)` tells from
it by which packets a flow is remembered when the i-th comes.
`app_totals`, `detected_snis`, `MarkedBlocked` and `total_anomalies` are what
`collectStats` and `printReport` make of the flows still in the table.

**`SimpleEngine`** is the loop of `main_simple.cpp` in the same vocabulary, and
**`Engines`** feeds one packet at a time to it and to a `FastPath`. Both know a flow by
its ports: `PortApp` is the port rule of `main_simple.cpp`, `app_hint` that of
`packet_parser.cpp`.

**`PcapFile`** gives the layout of a capture file byte by byte, as `PcapReader` reads
it (`Accepted`, `HeaderAt`, `Corrupt`, `PacketAt`) and as `PcapWriter` writes it
(`FileHeader`, `PacketBytes`). A `uint32_t` is its four bytes, so that swapping is
a reversal. **`CaptureFiles`** is the single-threaded program between two such files:
`Open`, then `DropPacket` or `KeepPacket` for each record until `Finish`; `OpenFails`
is the one failure that is caught, `ReadFails` and `KeepFails` end the process, as
does `Killed`. Written bytes go to `buffered`, and to `disk` in blocks of the
buffer's size.

**`PacketParser`** computes on the bytes of a captured frame whether it is
accepted, where its ports and payload are, and (`CountedFlags`) which TCP flags
`processPacket` reads from it once more. **`SNIExtractor`** walks that
payload with one step per length field: `ClientHello`, `SessionID`,
`CipherSuites`, `CompressionMethods`, `Extensions`, `Extension`, `ServerName`;
`HTTPHost`; `DNSHeader`, `DNSLabel`, `DNSName`. `Try` is `extractAny`. A
hostname is where it lies in the payload, so names are compared by position.
`touched` records the bytes the last step read. Where the code checks a bound
after a few others in a row, one guard stands for them (`HandshakeEnd >= 43`
for version and random). `record_len` is computed in the code and never used,
so it is absent here.

Modules named `MC...` give the constants their small values. The operators
headed `Mutant:` differ from the definition that follows them by one plausible
mistake; `PROJECT.json` lists which property catches each.

## 3. Runs

| Run | Bounds | Shows |
|---|---|---|
| `queue_safety` | 2 producers, 2 consumers, 1 closer, capacity 1, 3 pushes | `ExactlyOnceInOrder`; no sleeper left beside an item or a slot with nobody awake to take it (`NoLostItemWakeup`, `NoLostSlotWakeup`); `Linearizable`; `ClosedStaysDrained` |
| `queue_liveness` | 2 producers, 1 consumer, 1 closer, capacity 1, 3 pushes | accepted items are delivered, `close` releases everyone, pushes return, `pop_for` returns |
| `engine_safety` | 2 balancers of 2 fast paths, captures of three records, capacity 1 | `ShutdownInOrder`, `NoPushIntoClosed`, `EachFastPathSeesItsShareInOrder`, `OutputIsWhatWasForwarded`, `QuietAtReturn`, with every file failing at any point |
| `engine_terminates` | 1 balancer of 2 fast paths, statistics thread; captures of three records and one of eight | `ImplementsFilter`, `RunReturns` |
| `flow_table` | 3 tuples, 3 nodes, limits 0, 1, 2, four calls | `MapMatchesList`, `NoAliasing`, `KeepsMostRecent`, `ImplementsFlowTable` |
| `rules` | four commands, two rules files cut short at every token | `DecisionFollowsTheRulesGiven`: a packet is blocked, an app throttled, exactly if one of the rules the user gave says so, and a list in a file that was cut short counts as a whole or not at all; `AppRuleBlocksItsSites`: of the sites of the test capture an app rule reaches its own and no others, but for four known to be mistaken |
| `stateless` | nine messages cut at every byte or changed in any byte, one name of 255 bytes; flows on both sides of every threshold; capture files of three kinds cut at every byte, buffers of 1, 7, 50 and 1000 bytes, room for 0, 30, 69 and 1000 | `ReadsInBounds`, `PayloadAsSent`, `NameAsSent`, `ExtractionEnds`; `FlaggedIffSuspicious`; `PacketsAsCaptured`, `OutputReadsBack` |
| `fast_path` | six packets of three flows, a table of two | verdict, delay, score, counters and the final report follow from the packets before, by definitions that look at the history and not at the flags |
| `engines` | five records of four flows, a table of two | `EnginesAgree` until an eviction, but for the flows named below; `ReportAddsUp`, `ClassificationIsFinal` |
| `output_unavailable` | one of each, capacity 1 | violated: `RunReturnsAlways` |
| `port_scan_is_never_scored` | one flow at a time | violated: `PortScansAreReported` |
| `simple_engine_unblocks` | three records | violated: `BlockedStaysBlocked` |

Why the bounds are enough. A queue of one slot is full and empty in turn, and
with two threads on each side a notification can reach the wrong one; three
pushes let one be blocked while one item lies in the queue and one is in a
hand. In the pipeline capacity 1 (4 for the output, as in the code) makes every
stage block; four fast paths under two balancers show the sharing and the
order of joins, and eight packets of one flow fill every queue and hand
between reader and writer when the writer is slow. Three nodes in a table
of two allow an evicted node to come back under another tuple. In `fast_path`
the thresholds of two detectors are lowered so that six packets reach them;
the real ones are used in `stateless`. Two situations are beyond the bounds of one run and
covered otherwise: in `engine_safety` three records do not fill the output queue, which the
eight packets of `engine_terminates` do and the theorems `SharesInOrder` and
`NothingElseIsWritten` allow for; six packets are too few for a flow to be scored
again after an eviction, of which `ScoresAreOfFifths` speaks. In `rules` the options name
the apps that the mistaken sites are of and are taken for. The capture files
have three packets, one of them empty; with buffers smaller and larger than a
header, a record and the file, a crash or a full disk leaves the output cut at the end of
a block, inside either kind of header, inside a packet and between two. The three
kinds are the two byte orders and the nanosecond magic; lengths at and
beyond the limit of 65536 come in files of their own. Bounds that live in guards are `MaxPushes`
(`TSQueue`), `MaxCalls` and `ClearOnce` (`LRUFlowTable`), `MaxCommands`
(`RuleManager`) and `MaxPackets` (`FastPath`, `SimpleEngine`).

Deadlock is checked wherever it is not expected: `DPIEngine` may only stop in
`Terminated`. Modules that describe what a caller does (`RuleManager`,
`LRUFlowTable`, `FastPath`, `SimpleEngine`) have a step in which he does
nothing.

Fairness. Each thread is scheduled (weak fairness per thread or per
operation), which the operating system provides. `PopTimeout` has strong
fairness, because the deadline of `pop_for` is absolute and spurious wake-ups do not
move it. Consumers go on calling, as the loops of all consuming
threads do. No property assumes that producers go on, that the mutex is
handed out in order, or that files succeed.

## 4. Proofs

TLAPS checks these for every value of the constants that the assumption of the
module allows. `TypeCorrect` in each module is its type invariant; what follows are
the theorems that say something of the program, with the inductive invariants they
rest on.

**Queue** (`TSQueueProofs`; the roles are disjoint and finite, the capacity is positive).

* `FIFO`, `ClosedIsFinal`: `ExactlyOnceInOrder` is inductive together with `TypeOK`.
  The sequence facts behind `push` and `pop` are the lemmas `AppendToBack` and
  `MoveHead`.
* `Refinement`: `TSQueue` implements `ClosableChannel`. It needs in addition that a
  thread inside an operation is in one its role allows (`OpMatchesRole`).
* `NoItemIsOverslept`, `NoSlotIsOverslept`: the properties compare the number of items
  (free slots) with the number of threads awake or about to be notified, and are
  inductive in that form. A step that takes an item ends a taker, one that adds an item
  owes a notification, and a notification that finds nobody asleep is not needed
  (`Notified`). The roles must be finite for there to be something to count.

**Pipeline** (`DPIEngineProofs`; any number of balancers and fast paths, any capacity,
captures and faults).

* `OrderlyShutdown`, `SafePushes`, `QuietReturn`: that no push meets a closed queue is
  not inductive. It follows from `ShutdownInOrder`, which says for each stage who must
  have ended before its queue may be closed. `Typed` adds to `TypeOK` what the counters
  of the shutdown loops range over. `RowsFit` and `RowsApart` say that the fast paths of
  the balancers partition `FPs`, by the non-linear arithmetic of `l * NumFPsPerLB + j`.
* `SharesInOrder`: for a fast path, what it was given followed by what is on the way to
  it is increasing, and its share of that is its share of what was read. Inductive
  (`OrderInv`) with three more facts: packets travel to the balancer and the fast path
  their flow belongs to (`Routed`), a thread that is not about to push has empty hands
  (`HandFree`), and no push is refused (`SafePushes`).
* `NothingElseIsWritten`: written, in the writer's hand and queued for it are exactly
  the packets forwarded, once each. A packet forwarded now is none of those because it
  comes from a hand, and what was dropped was handled (`DroppedWereHandled`).
* `Refinement`: the pipeline implements `PacketFilter`, under the hypothesis
  `"output" \notin Faults`. Without it the statement is false: when the output file
  cannot be opened nobody writes what was forwarded (`output_unavailable`). The invariant
  adds how far a thread that has ended has got (`Stages`) and that the counters of the
  fast paths sum up to the packets decided (`Counted`).

**Flow table** (`LRUFlowTableProofs`; any tuples, limits and number of calls, and an
allocator that does not run out of memory: it has more nodes than the limit).

* `MapAndListAgree`, `ReferencesAreGood`, `ForgetsTheOldest`: invariant `Typed`, `Linked`
  (no node is linked twice; the map and the tuples in the nodes are inverse to each
  other), `Held` (a node holds what was last written for its tuple; an unused reference is
  to the node at the end) and `Ordered` (behind a flow in the list are the tuples called
  since its last call; one was dropped only for as many others as fit).
* `Refinement`: `LRUFlowTable` implements `FlowTable`. The abstract table is the list
  read through the nodes; a splice in the list is a `Remove` and an `Append` there.

**Fast path** (`FastPathProofs`; any flows, packets, rules and capacity).

* `VerdictsFollow`, `DelaysFollow`, `CountersAreRight`. The properties speak of the
  history, the code of fields of a flow in a table that forgets. The invariant `Base`
  joins them: the table holds the flows met most recently, in the order in which they
  were last met (`Ordered`); the fields of a flow are what the packets it is remembered by
  tell (`FlowsKnown`). From the first follows that a flow is in the table iff fewer other
  flows than fit came since (`Residents`), hence that the table forgets when the history says
  so (`NewForgot`), and from that what the newest packet is remembered with
  (`NewMemory`). What was true of earlier packets stays so when the history grows
  (`HistoryStays`). `Fate` goes through the three ways out of `processPacket` for
  each state its flow can be in, and `Tallies` counts the sets the counters are compared with.
* `ScoresAreOfFifths`: the running sums of a flow are the sums over the packets it is
  remembered by, and its anomaly is the score of the first `5 * k` of them. This is the
  invariant `Accounted`; `Base` says which packets those are when the table forgets.
* `ReportIsTold`: the totals of a report are sums over the table's entries, the history's
  are over packets. Entries and the last packets of their flows correspond one to one
  (`EntriesAre`, `Residing`), and the flows of a name share its verdict (`VerdictsFollow`).
  The hypothesis `"0.0.0.0" \notin rules_.ips` is needed, as for the single-threaded engine
  below. A sum over a set is a fold in the community modules: `SumsExist` shows by
  `RecursionExists` (`DataFacts`) that there is one, from which its laws follow.

**Flow analyzer** (at the end of `FastPathProofs`; any thresholds, any flow that is
`WellFormed`: its measures are natural numbers, its variance is not negative, no flag is
counted more often than packets).

* `Judgement`: `score()` flags a flow iff it is `Suspicious`. `Detectors` solves each of
  the six scores for the threshold of 700, the three quotients by `QuotientReaches`;
  `BestExists` justifies the choice of the first of the highest, so that the flow's
  score reaches the threshold iff one of the six does. It is a theorem about an operator;
  the run `stateless` checks the same of its flows, and that they are well-formed.
* `AnomaliesAreSuspicious`: the fast path flags a packet iff it is forwarded, is the fifth,
  tenth and so on its flow is remembered by, and the features of those packets are
  suspicious. By `Accounted` the fields of a flow are sums over these packets, and
  `CarriedIsWellFormed` shows such a flow well-formed: that its variance is not negative
  is the inequality between the square of a sum and the sum of squares (`SquareOfSum`, packet
  by packet with `OneMoreSquare`). What was flagged stays suspicious, as the packets a
  flow is remembered by at an entry of the history never change (`AlarmStays`).

**Rules** (`RuleManagerProofs`; any commands in any order, any number of rules files).

* `ScanOfList`: what `extractStringArray` takes from a file of the documented format, with
  its entries in any order, that was cut short anywhere: a list that is whole, word for
  word, and of any other nothing. The file is laid out as its tokens with their positions,
  from which it follows that the key is found at its own entry and nowhere before, that the
  brackets found are those of its list, and that the loop over the quotes reads the words.
  The hypothesis `FollowsFormat` says that keys are distinct and that no word of a list is
  spelt like a key or a mark; a file in which an address is called `blocked_apps` may
  mislead the scan.
* `RulesFollow`: the invariant `RulesAreThoseGiven`. What the manager keeps is what was
  given: addresses parsed, names looked up and unknown ones skipped, domains in lower case.
* `DecisionIsOfTheRulesGiven`: from that, `isBlocked` and `isThrottled` answer for the rules
  given. Names are sequences of characters; that two names that agree in every character
  are equal is what makes `domainMatches`, which compares suffixes, the matching of whole
  labels from the right.
* `AppRuleIsOfItsSites`: for any sites that are `RecognisedAs` the app whose rule is to
  reach them (`AppTreatedAs`): the name has a part from the app's row in the table of
  `sniToAppType` and none from an earlier row, or has none at all and the app is HTTPS.
  For most sites that app is their own; for those in `TakenFor` the hypothesis says that they
  are taken for the other one indeed. That the sites of the run are recognised so was found
  by evaluating the table on them.

**Single-threaded engine** (`SimpleEngineProofs`; any flows, packets, hostnames and rules).

* `FinalClassification`: an action property. A classified flow has a name other than the
  empty one, so nothing but its packet count is assigned again.
* `ReportIsTrue`: the invariant relates each total to the records taken so far, the
  application counts to the flows' current types and `detected_snis` to the packets with a
  hostname. The hypothesis `"0.0.0.0" \notin rules.ips` is needed: the report asks the rules
  about the address 0 in place of a flow's own (`src/main_simple.cpp:364`), and a rule against
  that address would mark every name as blocked.
* `SameDecisions`: the two engines forward, drop and delay the same packets until the fast
  path evicts a flow, for every capture, rules and capacity, but for the flows that
  `EnginesAgree` names. The invariant `InStep` says that until then every flow in the table
  holds what the other engine knows of it (`Twins`), and that the two histories pair up entry
  by entry (`Matching`). What one packet does is taken for the fast path from `Fates` and
  `Updates` of `FastPathProofs`, with the history replaced by the flow of the other engine.

**Packet parser and hostname extractor** (`InputProofs`; any set of frames of bytes).

* `ReadsStayInside`: whatever their length and content, each step reads inside the
  payload, and `HeadersInFrame` says that the payload of an accepted frame lies inside it.
  The inductive invariant `Inside` says for each step what is known of `offset` and `end`
  there, above all that `end` never exceeds the length.
* `PayloadIsAsSent`: for frames with IP and TCP options of any length, bodies of any
  length, padding and captures cut anywhere. `IsSent` says what a frame that is not malformed
  looks like: where its headers are, what they say of lengths and protocol, and that what
  follows them is the body.
* `NameIsAsSent`: for Client Hellos with vectors and extensions of any lengths, requests with
  their Host header anywhere within what is searched, questions with any labels. `IsNamed`
  says where in its body a message has its name. A Client Hello may not use port 53, where
  a question is looked for first, nor a DNS message another port or the beginning of a
  Client Hello. The invariant has a part for each kind (`HelloInv`, `RequestInv`,
  `QuestionInv`): the place reached in the payload is a place of that layout, which a
  payload cut short (`Carried`) can only leave by finding nothing; no other extractor
  finds anything (`LooksLikeHello`, `RequestBytes`); and the one that finds the name is under
  way or still to be tried (`Answer`).

**Capture files** (also `InputProofs`; any set of inputs that are sequences of bytes,
any size of the buffer, any room on the disk).

* `WrittenReadsBack`: what the program has left on the disk it reads back as the packets
  it kept. `Layout` says where the records of a file are and what their bytes are. The
  inductive invariant `FileInv` says that the disk and the buffer together are always such
  a file of the packets kept (`ReadingInv`, by `LayoutStarts` and `LayoutAppends`), and that
  the disk holds the beginning of one when the process is gone, all of it after a regular
  end with room left (`StoppedInv`). Independently of the program, `ReadsBack` shows that
  the beginning of a laid out file is read as its first packets and nothing else: a record
  that is there is returned as it was written (`NextPacket`), one that is cut off is the end
  or an exception. `ReaderExists` and `PacketsRead` justify the recursion of the reader,
  which goes on behind the packet read.
* `CapturesAreRead`: a capture of any size, in any of the three forms of the format, is
  read as its packets. `IsCapture` says what such a file is: a magic number and records one
  behind the other, whose numbers are in the byte order of the magic; one that is not intact
  goes wrong in the record after the last that was captured.

What `Messages` and `Captures` may hold is said by `IsSent`, `IsNamed` and `IsCapture` in the
hypotheses of these theorems and not in the modules, since the runs check further inputs, too;
that those of the runs satisfy them was checked by TLC.

`DataFacts` holds what several of these need about sequences and numbers. The library's
induction theorems take an operator as parameter, which the provers cannot instantiate;
`Induction`, `LeastElement` and `GreatestElement` say the same of sets of numbers, and
`RecursionExists` that a function on a finite domain may be defined by recursion. Recursive
functions and folds are reasoned about in this way.

Only model-checked:

* liveness, which is out of the prover's reach together with `ENABLED`
  (`queue_liveness`, `RunReturns`, `ExtractionEnds`);
* `FlaggedIffSuspicious`: it speaks of the flows listed in the MC module of its run. Its
  general form is `Judgement`, of any well-formed flow, and `AnomaliesAreSuspicious`, of
  every flow the fast path scores; TLC finds in addition that those of the run are well-formed.

## 5. Disagreements met

Three are kept as runs that must fail:

* **No output file, no end** (`output_unavailable`). When the output cannot be
  opened, `outputWriterThread` returns (`src/dpi_engine.cpp:199`). Nobody
  reads the output queue any more; once it is full the fast paths block in
  `push`, `FastPath::stop()` does not join, and `run()`, "blocking until all
  packets are processed", does not return.
* **Port scans are never scored** (`port_scan_is_never_scored`). Flows are
  scored at every fifth packet (`src/fast_path.cpp:142`); the detector is
  for flows of at most three.
* **A block is lifted** (`simple_engine_unblocks`). `main_simple.cpp:265` assigns
  `flow.blocked` anew for every packet of an unclassified flow, judging a packet
  without payload as app `UNKNOWN`.

Others are stated in the modules, not kept as runs, and known to fail:

* `EveryPacketDecided` (`DPIEngine`): a corrupt record makes
  `readNextPacket` throw out of `run()` (`src/dpi_engine.cpp:101`); the
  process terminates with packets in its queues.
* `EveryPacketAccountedFor` (`DPIEngine`): a record that cannot be parsed is in the
  total and in no other number (`src/dpi_engine.cpp:107`).
* `EveryFastPathHasFlows` (`DPIEngine`): the hash that selects the balancer
  selects the fast path too (`src/load_balancer.cpp:67`). With two balancers of
  two fast paths each, two of the four never get a packet.
* `BlockedAppsAreBlocked` (`FastPath`): a flow without a hostname is judged as
  `UNKNOWN` (`src/fast_path.cpp:127`) although its app type is set from its
  ports; a rule for DNS, HTTP or HTTPS does not reach it. The
  single-threaded engine does judge such flows by that type, but only in packets with a
  payload: hence the exception in `EnginesAgree`.
* `EvictionMakesNoFalsePositive` (`FastPath`): a flow that was evicted and comes
  back is scored on its tail alone, and five resets look like a flood of them.
* `DomainRuleIsSubstring` (`RuleManager`): a comment in `include/rule_manager.h:8`
  speaks of substrings; the code matches whole labels from the right.
* `EverySiteIsItsApp` (`RuleManager`): `scripts/generate_test_pcap.py:8` writes the "expected
  SNI/app classification" of its capture. `sniToAppType` tests substrings, and `t.co` is one
  of `www.reddit.com` (`src/types.cpp:50`): Reddit is taken for Twitter, so that
  `--block-app Reddit` lets its site pass and `--block-app Twitter` blocks it.
  `example.com`, `api.example.com` and `cdn.example.org` are expected to be HTTP; once their
  name is known they are HTTPS (`src/types.cpp:86`), and only a rule for HTTPS reaches them.
  These four are in `TestSites`, with the app they are taken for in `Mistaken`, and
  `AppRuleBlocksItsSites` speaks of them, too: were another site shadowed, or one of them no
  longer, it would fail. DNS queries, which the ground truth counts as DNS, get the app
  of the name asked for.
* From a frame cut short HTTP and DNS may yield the beginning of a name;
  `NameAsSent` allows exactly that, and TLS yields the name or nothing.
* `include/pcap_reader.h:50` says that `open` throws on a link type other than
  Ethernet; it does not (`src/pcap_reader.cpp:46`), and the writer labels every
  output Ethernet. Captures with nanosecond times are accepted and rewritten under the
  microsecond magic, the same captures from a host of the other byte order are refused:
  `FileHeader` and `Accepted` say so.
* A capture cut inside a packet header ends like a complete one (`AtEnd`).
* `PcapWriter::close` does not check its flush (`src/pcap_reader.cpp:144`). When the disk
  fills up in the last block the program reports success, which is why `OutputReadsBack`
  promises all packets only while there is room.
* The two engines disagree on source port 8080 (`src/packet_parser.cpp:108`,
  `src/main_simple.cpp:224`): HTTP for one, nothing for the other. `EnginesAgree` leaves out
  the flows where that meets a rule.
* `main_simple.cpp:246` credits a hostname to TLS, DNS or HTTP by the ports alone, so
  a TLS name on port 8443 counts as HTTP (`Extractor`).
* A key without a list of its own takes the next list in the file
  (`src/rule_manager.cpp:196`): `"blocked_ips": null` would collect the
  applications listed after it. `Printed` has only the documented format.
* `parseIPString` accepts text behind the fourth number, since `sscanf` stops there:
  `10.0.0.0/24` is the one address `10.0.0.0`.

## 6. Not modelled

* `shannonEntropy`: floating point over a histogram; its value is an input.
* Text: the layout of the printed reports, the statistics file, the order of their
  lists and the choice of the ten highest scores, the conversions of addresses and app
  types to and from strings. Characters inside a word of a rules file: a cut
  falls between tokens.
* The live statistics line: a snapshot nobody depends on; only that its thread
  ends is modelled.
* `first_seen_ms` and `last_seen_ms` (only `durationMs` reads them, which nobody
  calls), `dns_query` (never set), dispatch counters, byte and protocol totals, elapsed
  times.
* The MAC addresses, TTL and sequence numbers the parser extracts and nothing
  reads; the hash of a 5-tuple, of which `DPIEngine` assumes only that it is a function.
* Lower-casing of DNS names inside the extractor. The path that ends at a
  compression pointer skips it, which matters to no decision, since both
  `isBlocked` and `sniToAppType` lower-case what they are given.
* The dashboard, the scripts and the tests; the tests were read as
  documentation.

## 7. Plan

Order in which the modules came, the most important first: `ClosableChannel` and
`TSQueue`; `PacketFilter` and `DPIEngine` on top of them; `FlowTable` and
`LRUFlowTable`; `Rules` and `RuleManager`; `FlowAnalyzer` and `FastPath`;
`SimpleEngine` and `Engines`; `PacketParser` and `SNIExtractor`; `PcapFile` and
`CaptureFiles`; `RulesFile`; the final reports in `FastPath` and `SimpleEngine`; the
proof modules along the way, `DataFacts` as they needed it. What is left of the code
is listed in section 6.

Every safety property a run checks follows from a theorem, except those listed at the end
of section 4.
