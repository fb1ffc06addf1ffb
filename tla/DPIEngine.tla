----------------------------- MODULE DPIEngine -----------------------------
(***************************************************************************)
(* The multi-threaded pipeline: src/dpi_engine.cpp, src/load_balancer.cpp  *)
(* and the thread function of src/fast_path.cpp.                           *)
(*                                                                         *)
(*   main (reader) --> LB l --> FP f --> output queue --> writer           *)
(*                                                                         *)
(* Every arrow is a TSQueue, taken here by its specification: push blocks  *)
(* while the queue is full and open, pop while it is empty and open, close *)
(* is one step.  A packet is its index in the capture.  What processPacket *)
(* decides is left open (FPDrop or FPForward).                             *)
(***************************************************************************)
EXTENDS Naturals, Sequences, FiniteSets, Functions

CONSTANTS
  NumLBs, NumFPsPerLB,   \* DPIConfig::num_lbs, num_fps_per_lb
  QueueCapacity,         \* DPIConfig::queue_capacity
  EnableStats,           \* DPIConfig::enable_stats
  Flows,                 \* the 5-tuples in the captures
  Hash,                  \* FiveTupleHash
  Junk,                  \* a record PacketParser cannot parse
  Corrupt,               \* a record readNextPacket throws on
  Captures,              \* the input files considered: sequences of records
  Faults                 \* subset of {"input", "output", "write"}: what may fail

ASSUME DPIEngineAssumption ==
  /\ NumLBs \in Nat \ {0} /\ NumFPsPerLB \in Nat \ {0}
  /\ QueueCapacity \in Nat \ {0}
  /\ EnableStats \in BOOLEAN
  /\ Hash \in [Flows -> Nat]
  /\ Junk \notin Flows /\ Corrupt \notin Flows /\ Junk # Corrupt
  /\ \A c \in Captures : c \in Seq(Flows \cup {Junk, Corrupt})
  /\ Faults \subseteq {"input", "output", "write"}

(* The queues the constructor makes and who feeds which. *)
OutputCapacity == QueueCapacity * 4
LBs     == 0..(NumLBs - 1)
FPs     == 0..(NumLBs * NumFPsPerLB - 1)
FPsOf(l) == {l * NumFPsPerLB + j : j \in 0..(NumFPsPerLB - 1)}

VARIABLES
  capture,                           \* the records of the input file
  total,                             \* total_packets
  mainPc, mainIdx, mainHand,         \* run(): where, loop index, packet to push
  lbQueue, lbClosed, lbPc, lbHand,   \* LoadBalancer: input_queue_, thread
  fpQueue, fpClosed, fpPc, fpHand,   \* FastPath: input_queue_, thread
  forwarded, dropped,                \* FastPath: forwarded_, dropped_
  outQueue, outClosed,               \* output_queue_
  writerPc, writerHand, written,     \* writer thread and the output file
  running,                           \* running_
  statsPc,                           \* live stats thread
  crashed,                           \* std::terminate was called
  stats,                             \* what run() returned
  handled, discarded                 \* history: packets each FP decided, dropped ones

mainVars   == <<capture, total, mainPc, mainIdx, mainHand>>
lbVars     == <<lbQueue, lbClosed, lbPc, lbHand>>
fpVars     == <<fpQueue, fpClosed, fpPc, fpHand, forwarded, dropped, handled, discarded>>
outVars    == <<outQueue, outClosed>>
writerVars == <<writerPc, writerHand, written>>
vars == <<mainVars, lbVars, fpVars, outVars, writerVars, running, statsPc, crashed, stats>>

None == 0
Index == Nat \ {None}
NoStats == [total |-> 0, forwarded |-> 0, dropped |-> 0, made |-> FALSE]

Init ==
  /\ capture \in Captures
  /\ total = 0 /\ mainPc = "start" /\ mainIdx = 0 /\ mainHand = None
  /\ lbQueue = [l \in LBs |-> <<>>] /\ lbClosed = [l \in LBs |-> FALSE]
  /\ lbPc = [l \in LBs |-> "off"] /\ lbHand = [l \in LBs |-> None]
  /\ fpQueue = [f \in FPs |-> <<>>] /\ fpClosed = [f \in FPs |-> FALSE]
  /\ fpPc = [f \in FPs |-> "off"] /\ fpHand = [f \in FPs |-> None]
  /\ forwarded = [f \in FPs |-> 0] /\ dropped = [f \in FPs |-> 0]
  /\ outQueue = <<>> /\ outClosed = FALSE
  /\ writerPc = "off" /\ writerHand = None /\ written = <<>>
  /\ running = FALSE
  /\ statsPc = "off"
  /\ crashed = FALSE /\ stats = NoStats
  /\ handled = [f \in FPs |-> <<>>] /\ discarded = {}

(* TSQueue::push as its callers use it: the result is ignored, so a packet  *)
(* pushed into a closed queue is gone.                                      *)
CanPush(q, cap, closed) == Len(q) < cap \/ closed
Pushed(q, closed, i)    == IF closed THEN q ELSE Append(q, i)

(* Where the hash sends a packet: first to an LB, there to one of its FPs. *)
LBOf(i)     == Hash[capture[i]] % NumLBs
FPAt(l, i)  == l * NumFPsPerLB + (Hash[capture[i]] % NumFPsPerLB)
FPOf(i)     == FPAt(LBOf(i), i)

-----------------------------------------------------------------------------
(* DPIEngine::run: the reader and the shutdown sequence *)

StartThreads ==
  /\ mainPc = "start"
  /\ mainPc' = "open"
  /\ running' = TRUE
  /\ writerPc' = "open"
  /\ fpPc' = [f \in FPs |-> "run"]
  /\ lbPc' = [l \in LBs |-> "run"]
  /\ statsPc' = IF EnableStats THEN "check" ELSE "done"
  /\ UNCHANGED <<capture, total, mainIdx, mainHand, lbQueue, lbClosed, lbHand, fpQueue, fpClosed,
                 fpHand, forwarded, dropped, handled, discarded, outVars, writerHand, written,
                 crashed, stats>>

OpenInput ==
  /\ mainPc = "open"
  /\ mainPc' = "read"
  /\ UNCHANGED <<capture, total, mainIdx, mainHand, lbVars, fpVars, outVars, writerVars, running,
                 statsPc, crashed, stats>>

OpenInputFails ==
  /\ mainPc = "open" /\ "input" \in Faults
  /\ mainPc' = "closeLB"
  /\ running' = FALSE
  /\ UNCHANGED <<capture, total, mainIdx, mainHand, lbVars, fpVars, outVars, writerVars,
                 statsPc, crashed, stats>>

(* One turn of the reader loop up to the push; a record that cannot be     *)
(* parsed is counted and skipped.                                          *)
ReadRecord ==
  /\ mainPc = "read"
  /\ total < Len(capture) /\ capture[total + 1] # Corrupt
  /\ total' = total + 1
  /\ IF capture[total + 1] \in Flows
     THEN mainPc' = "push" /\ mainHand' = total + 1
     ELSE UNCHANGED <<mainPc, mainHand>>
  /\ UNCHANGED <<capture, mainIdx, lbVars, fpVars, outVars, writerVars, running, statsPc, crashed, stats>>

(* The exception leaves run() while joinable std::threads are in scope. *)
ReadThrows ==
  /\ mainPc = "read"
  /\ total < Len(capture) /\ capture[total + 1] = Corrupt
  /\ crashed' = TRUE
  /\ UNCHANGED <<mainVars, lbVars, fpVars, outVars, writerVars, running, statsPc, stats>>

(* Mutant: try_push() in place of push(). *)
TryPushToLB ==
  /\ mainPc = "push"
  /\ LET l == LBOf(mainHand) IN
       lbQueue' = [lbQueue EXCEPT ![l] = IF Len(@) < QueueCapacity THEN Append(@, mainHand) ELSE @]
  /\ mainPc' = "read" /\ mainHand' = None
  /\ UNCHANGED <<capture, total, mainIdx, lbClosed, lbPc, lbHand, fpVars, outVars, writerVars,
                 running, statsPc, crashed, stats>>

PushToLB ==
  /\ mainPc = "push"
  /\ LET l == LBOf(mainHand) IN
       /\ CanPush(lbQueue[l], QueueCapacity, lbClosed[l])
       /\ lbQueue' = [lbQueue EXCEPT ![l] = Pushed(@, lbClosed[l], mainHand)]
  /\ mainPc' = "read" /\ mainHand' = None
  /\ UNCHANGED <<capture, total, mainIdx, lbClosed, lbPc, lbHand, fpVars, outVars, writerVars,
                 running, statsPc, crashed, stats>>

ReadEOF ==
  /\ mainPc = "read" /\ total = Len(capture)
  /\ mainPc' = "closeLB"
  /\ UNCHANGED <<capture, total, mainIdx, mainHand, lbVars, fpVars, outVars, writerVars, running,
                 statsPc, crashed, stats>>

(* LoadBalancer::stop and FastPath::stop, in a loop: close, then join. *)
CloseLB ==
  /\ mainPc = "closeLB"
  /\ lbClosed' = [lbClosed EXCEPT ![mainIdx] = TRUE]
  /\ mainPc' = "joinLB"
  /\ UNCHANGED <<capture, total, mainIdx, mainHand, lbQueue, lbPc, lbHand, fpVars, outVars,
                 writerVars, running, statsPc, crashed, stats>>

(* Mutant: stop() closes the queue and does not join. *)
NoJoinLB ==
  /\ mainPc = "joinLB"
  /\ IF mainIdx + 1 \in LBs
     THEN mainIdx' = mainIdx + 1 /\ mainPc' = "closeLB"
     ELSE mainIdx' = 0 /\ mainPc' = "closeFP"
  /\ UNCHANGED <<capture, total, mainHand, lbVars, fpVars, outVars, writerVars, running,
                 statsPc, crashed, stats>>

(* Mutant: the output queue is closed before the fast paths are stopped. *)
JoinLBThenCloseOutput ==
  /\ mainPc = "joinLB" /\ lbPc[mainIdx] = "done"
  /\ IF mainIdx + 1 \in LBs
     THEN mainIdx' = mainIdx + 1 /\ mainPc' = "closeLB"
     ELSE mainIdx' = 0 /\ mainPc' = "closeOut"
  /\ UNCHANGED <<capture, total, mainHand, lbVars, fpVars, outVars, writerVars, running,
                 statsPc, crashed, stats>>

JoinLB ==
  /\ mainPc = "joinLB" /\ lbPc[mainIdx] = "done"
  /\ IF mainIdx + 1 \in LBs
     THEN mainIdx' = mainIdx + 1 /\ mainPc' = "closeLB"
     ELSE mainIdx' = 0 /\ mainPc' = "closeFP"
  /\ UNCHANGED <<capture, total, mainHand, lbVars, fpVars, outVars, writerVars, running,
                 statsPc, crashed, stats>>

CloseFP ==
  /\ mainPc = "closeFP"
  /\ fpClosed' = [fpClosed EXCEPT ![mainIdx] = TRUE]
  /\ mainPc' = "joinFP"
  /\ UNCHANGED <<capture, total, mainIdx, mainHand, lbVars, fpQueue, fpPc, fpHand, forwarded,
                 dropped, handled, discarded, outVars, writerVars, running, statsPc, crashed, stats>>

JoinFP ==
  /\ mainPc = "joinFP" /\ fpPc[mainIdx] = "done"
  /\ IF mainIdx + 1 \in FPs
     THEN mainIdx' = mainIdx + 1 /\ mainPc' = "closeFP"
     ELSE mainIdx' = 0 /\ mainPc' = "closeOut"
  /\ UNCHANGED <<capture, total, mainHand, lbVars, fpVars, outVars, writerVars, running,
                 statsPc, crashed, stats>>

(* Mutant: the output queue is never closed. *)
NoCloseOutput ==
  /\ mainPc = "closeOut"
  /\ mainPc' = "stopStats"
  /\ UNCHANGED <<capture, total, mainIdx, mainHand, lbVars, fpVars, outVars, writerVars, running,
                 statsPc, crashed, stats>>

CloseOutput ==
  /\ mainPc = "closeOut"
  /\ outClosed' = TRUE
  /\ mainPc' = "stopStats"
  /\ UNCHANGED <<capture, total, mainIdx, mainHand, lbVars, fpVars, outQueue, writerVars, running,
                 statsPc, crashed, stats>>

(* Mutant: running_ is left true. *)
StatsNotStopped ==
  /\ mainPc = "stopStats"
  /\ mainPc' = "join"
  /\ UNCHANGED <<capture, total, mainIdx, mainHand, lbVars, fpVars, outVars, writerVars, running,
                 statsPc, crashed, stats>>

StopStats ==
  /\ mainPc = "stopStats"
  /\ running' = FALSE
  /\ mainPc' = "join"
  /\ UNCHANGED <<capture, total, mainIdx, mainHand, lbVars, fpVars, outVars, writerVars,
                 statsPc, crashed, stats>>

(* Join the writer and the stats thread, then collectStats. *)
Total(count) == LET Sum[f \in FPs] == count[f] + (IF f = 0 THEN 0 ELSE Sum[f - 1])
                IN Sum[NumLBs * NumFPsPerLB - 1]

(* Mutant: the statistics are collected while the writer still runs. *)
CollectEarly ==
  /\ mainPc = "join" /\ statsPc = "done"
  /\ mainPc' = "done"
  /\ stats' = [total |-> total, forwarded |-> Total(forwarded), dropped |-> Total(dropped), made |-> TRUE]
  /\ UNCHANGED <<capture, total, mainIdx, mainHand, lbVars, fpVars, outVars, writerVars, running,
                 statsPc, crashed>>

Collect ==
  /\ mainPc = "join" /\ writerPc = "done" /\ statsPc = "done"
  /\ mainPc' = "done"
  /\ stats' = [total |-> total, forwarded |-> Total(forwarded), dropped |-> Total(dropped), made |-> TRUE]
  /\ UNCHANGED <<capture, total, mainIdx, mainHand, lbVars, fpVars, outVars, writerVars, running,
                 statsPc, crashed>>

Main == \/ StartThreads \/ OpenInput \/ OpenInputFails
        \/ ReadRecord \/ ReadThrows \/ PushToLB \/ ReadEOF
        \/ CloseLB \/ JoinLB \/ CloseFP \/ JoinFP \/ CloseOutput \/ StopStats \/ Collect

-----------------------------------------------------------------------------
(* LoadBalancer::run *)

LBPop(l) ==
  /\ lbPc[l] = "run" /\ lbHand[l] = None /\ lbQueue[l] # <<>>
  /\ lbHand' = [lbHand EXCEPT ![l] = Head(lbQueue[l])]
  /\ lbQueue' = [lbQueue EXCEPT ![l] = Tail(@)]
  /\ UNCHANGED <<mainVars, lbClosed, lbPc, fpVars, outVars, writerVars, running, statsPc, crashed, stats>>

LBPush(l) ==
  /\ lbHand[l] # None
  /\ LET f == FPAt(l, lbHand[l]) IN
       /\ CanPush(fpQueue[f], QueueCapacity, fpClosed[f])
       /\ fpQueue' = [fpQueue EXCEPT ![f] = Pushed(@, fpClosed[f], lbHand[l])]
  /\ lbHand' = [lbHand EXCEPT ![l] = None]
  /\ UNCHANGED <<mainVars, lbQueue, lbClosed, lbPc, fpClosed, fpPc, fpHand, forwarded, dropped,
                 handled, discarded, outVars, writerVars, running, statsPc, crashed, stats>>

(* Mutant: the loop ends as soon as the queue is closed. *)
LBLeavesOnClose(l) ==
  /\ lbPc[l] = "run" /\ lbHand[l] = None /\ lbClosed[l]
  /\ lbPc' = [lbPc EXCEPT ![l] = "closing"]
  /\ UNCHANGED <<mainVars, lbQueue, lbClosed, lbHand, fpVars, outVars, writerVars, running,
                 statsPc, crashed, stats>>

LBDrained(l) ==
  /\ lbPc[l] = "run" /\ lbHand[l] = None /\ lbQueue[l] = <<>> /\ lbClosed[l]
  /\ lbPc' = [lbPc EXCEPT ![l] = "closing"]
  /\ UNCHANGED <<mainVars, lbQueue, lbClosed, lbHand, fpVars, outVars, writerVars, running,
                 statsPc, crashed, stats>>

(* The loop that closes the FP queues in order; the last one ends the thread. *)
LBCloseFP(l) ==
  /\ lbPc[l] = "closing"
  /\ LET open == {f \in FPsOf(l) : ~fpClosed[f]} IN
       IF open = {}
       THEN lbPc' = [lbPc EXCEPT ![l] = "done"] /\ UNCHANGED fpClosed
       ELSE /\ \E f \in open : (\A g \in open : f <= g) /\ fpClosed' = [fpClosed EXCEPT ![f] = TRUE]
            /\ UNCHANGED lbPc
  /\ UNCHANGED <<mainVars, lbQueue, lbClosed, lbHand, fpQueue, fpPc, fpHand, forwarded, dropped,
                 handled, discarded, outVars, writerVars, running, statsPc, crashed, stats>>

LB(l) == LBPop(l) \/ LBPush(l) \/ LBDrained(l) \/ LBCloseFP(l)

-----------------------------------------------------------------------------
(* FastPath::run and what processPacket does to the pipeline *)

FPPop(f) ==
  /\ fpPc[f] = "run" /\ fpHand[f] = None /\ fpQueue[f] # <<>>
  /\ fpHand' = [fpHand EXCEPT ![f] = Head(fpQueue[f])]
  /\ fpQueue' = [fpQueue EXCEPT ![f] = Tail(@)]
  /\ UNCHANGED <<mainVars, lbVars, fpClosed, fpPc, forwarded, dropped, handled, discarded, outVars,
                 writerVars, running, statsPc, crashed, stats>>

FPDrop(f) ==
  /\ fpPc[f] = "run" /\ fpHand[f] # None
  /\ dropped' = [dropped EXCEPT ![f] = @ + 1]
  /\ discarded' = discarded \cup {fpHand[f]}
  /\ handled' = [handled EXCEPT ![f] = Append(@, fpHand[f])]
  /\ fpHand' = [fpHand EXCEPT ![f] = None]
  /\ UNCHANGED <<mainVars, lbVars, fpQueue, fpClosed, fpPc, forwarded, outVars, writerVars,
                 running, statsPc, crashed, stats>>

(* From here on the thread is committed to the push, which may block. *)
FPDecideForward(f) ==
  /\ fpPc[f] = "run" /\ fpHand[f] # None
  /\ fpPc' = [fpPc EXCEPT ![f] = "push"]
  /\ UNCHANGED <<mainVars, lbVars, fpQueue, fpClosed, fpHand, forwarded, dropped, handled,
                 discarded, outVars, writerVars, running, statsPc, crashed, stats>>

FPForward(f) ==
  /\ fpPc[f] = "push"
  /\ fpPc' = [fpPc EXCEPT ![f] = "run"]
  /\ CanPush(outQueue, OutputCapacity, outClosed)
  /\ outQueue' = Pushed(outQueue, outClosed, fpHand[f])
  /\ forwarded' = [forwarded EXCEPT ![f] = @ + 1]
  /\ handled' = [handled EXCEPT ![f] = Append(@, fpHand[f])]
  /\ fpHand' = [fpHand EXCEPT ![f] = None]
  /\ UNCHANGED <<mainVars, lbVars, fpQueue, fpClosed, dropped, discarded, outClosed,
                 writerVars, running, statsPc, crashed, stats>>

FPExit(f) ==
  /\ fpPc[f] = "run" /\ fpHand[f] = None /\ fpQueue[f] = <<>> /\ fpClosed[f]
  /\ fpPc' = [fpPc EXCEPT ![f] = "done"]
  /\ UNCHANGED <<mainVars, lbVars, fpQueue, fpClosed, fpHand, forwarded, dropped, handled,
                 discarded, outVars, writerVars, running, statsPc, crashed, stats>>

FP(f) == FPPop(f) \/ FPDrop(f) \/ FPDecideForward(f) \/ FPForward(f) \/ FPExit(f)

-----------------------------------------------------------------------------
(* outputWriterThread *)

WriterOpens ==
  /\ writerPc = "open"
  /\ writerPc' = "run"
  /\ UNCHANGED <<mainVars, lbVars, fpVars, outVars, writerHand, written, running, statsPc, crashed, stats>>

(* The thread returns; nobody reads or closes output_queue_ in its place. *)
WriterOpenFails ==
  /\ writerPc = "open" /\ "output" \in Faults
  /\ writerPc' = "done"
  /\ UNCHANGED <<mainVars, lbVars, fpVars, outVars, writerHand, written, running, statsPc, crashed, stats>>

WriterPop ==
  /\ writerPc = "run" /\ writerHand = None /\ outQueue # <<>>
  /\ writerHand' = Head(outQueue)
  /\ outQueue' = Tail(outQueue)
  /\ UNCHANGED <<mainVars, lbVars, fpVars, outClosed, writerPc, written, running, statsPc, crashed, stats>>

(* Mutant: the packet is written after it was moved from. *)
WriteMovedFrom ==
  /\ writerHand # None
  /\ writerHand' = None
  /\ written' = Append(written, writerHand')
  /\ UNCHANGED <<mainVars, lbVars, fpVars, outVars, writerPc, running, statsPc, crashed, stats>>

WriterWrite ==
  /\ writerHand # None
  /\ written' = Append(written, writerHand)
  /\ writerHand' = None
  /\ UNCHANGED <<mainVars, lbVars, fpVars, outVars, writerPc, running, statsPc, crashed, stats>>

(* writePacket throws and nothing catches it in the thread function. *)
WriterThrows ==
  /\ writerHand # None /\ "write" \in Faults
  /\ crashed' = TRUE
  /\ UNCHANGED <<mainVars, lbVars, fpVars, outVars, writerVars, running, statsPc, stats>>

WriterExit ==
  /\ writerPc = "run" /\ writerHand = None /\ outQueue = <<>> /\ outClosed
  /\ writerPc' = "done"
  /\ UNCHANGED <<mainVars, lbVars, fpVars, outVars, writerHand, written, running, statsPc, crashed, stats>>

Writer == WriterOpens \/ WriterOpenFails \/ WriterPop \/ WriterWrite \/ WriterThrows \/ WriterExit

-----------------------------------------------------------------------------
(* liveStatsThread: sleep, print, look at running_ again.  What it prints   *)
(* is left out.                                                             *)

StatsCheck ==
  /\ statsPc = "check"
  /\ statsPc' = IF running THEN "print" ELSE "done"
  /\ UNCHANGED <<mainVars, lbVars, fpVars, outVars, writerVars, running, crashed, stats>>

StatsPrint ==
  /\ statsPc = "print"
  /\ statsPc' = "check"
  /\ UNCHANGED <<mainVars, lbVars, fpVars, outVars, writerVars, running, crashed, stats>>

Stats == StatsCheck \/ StatsPrint

-----------------------------------------------------------------------------
(* run() has returned, or the process is gone. *)
Terminated == mainPc = "done" \/ crashed

Next ==
  \/ ~crashed /\ (Main \/ (\E l \in LBs : LB(l)) \/ (\E f \in FPs : FP(f)) \/ Writer \/ Stats)
  \/ Terminated /\ UNCHANGED vars

Spec == Init /\ [][Next]_vars

(* Every thread is scheduled.  Nothing more is assumed. *)
Fairness ==
  /\ WF_vars(~crashed /\ Main)
  /\ \A l \in LBs : WF_vars(~crashed /\ LB(l))
  /\ \A f \in FPs : WF_vars(~crashed /\ FP(f))
  /\ WF_vars(~crashed /\ Writer)
  /\ WF_vars(~crashed /\ Stats)

FairSpec == Spec /\ Fairness

-----------------------------------------------------------------------------
Hand(i) == IF i = None THEN <<>> ELSE <<i>>

TypeOK ==
  /\ capture \in Captures /\ total \in 0..Len(capture)
  /\ mainPc \in {"start", "open", "read", "push", "closeLB", "joinLB", "closeFP", "joinFP",
                 "closeOut", "stopStats", "join", "done"}
  /\ mainIdx \in Nat /\ mainHand \in Nat
  /\ lbQueue \in [LBs -> Seq(Index)] /\ lbClosed \in [LBs -> BOOLEAN]
  /\ lbPc \in [LBs -> {"off", "run", "closing", "done"}] /\ lbHand \in [LBs -> Nat]
  /\ fpQueue \in [FPs -> Seq(Index)] /\ fpClosed \in [FPs -> BOOLEAN]
  /\ fpPc \in [FPs -> {"off", "run", "push", "done"}] /\ fpHand \in [FPs -> Nat]
  /\ forwarded \in [FPs -> Nat] /\ dropped \in [FPs -> Nat]
  /\ outQueue \in Seq(Index) /\ outClosed \in BOOLEAN
  /\ writerPc \in {"off", "open", "run", "done"} /\ writerHand \in Nat
  /\ written \in Seq(Index)
  /\ running \in BOOLEAN /\ crashed \in BOOLEAN
  /\ statsPc \in {"off", "check", "print", "done"}
  /\ stats.total \in Nat /\ stats.made \in BOOLEAN
  /\ handled \in [FPs -> Seq(Index)] /\ discarded \subseteq Index

(* No thread is ever about to push into a closed queue: the ignored result *)
(* of push() cannot hide a lost packet.                                    *)
NoPushIntoClosed ==
  /\ mainPc = "push" => ~lbClosed[LBOf(mainHand)]
  /\ \A l \in LBs : lbHand[l] # None => ~fpClosed[FPAt(l, lbHand[l])]
  /\ \A f \in FPs : fpHand[f] # None => ~outClosed

(* The packets read so far. *)
Read == {i \in 1..total : capture[i] \in Flows}

AllStopped   == {"closeOut", "stopStats", "join", "done"}
LBStopped(l) == mainPc \in AllStopped \cup {"closeFP", "joinFP"}
                \/ (mainPc \in {"closeLB", "joinLB"} /\ l < mainIdx)
FPStopped(f) == mainPc \in AllStopped \/ (mainPc \in {"closeFP", "joinFP"} /\ f < mainIdx)

(* Shutdown runs down the pipeline: a queue is closed only after everyone  *)
(* who pushes into it has finished, and a thread finishes only when its    *)
(* queue is closed and drained and its hands are empty.                    *)
ShutdownInOrder ==
  /\ mainPc \in {"start", "open", "read", "push"} => mainIdx = 0 /\ \A l \in LBs : ~lbClosed[l]
  /\ mainPc \in {"closeLB", "joinLB"} => mainIdx \in LBs
  /\ mainPc \in {"closeFP", "joinFP"} => mainIdx \in FPs
  /\ mainPc = "start" => \A l \in LBs : lbPc[l] = "off"
  /\ \A l \in LBs :
       /\ LBStopped(l) => lbPc[l] = "done"
       /\ lbPc[l] \in {"closing", "done"} => lbClosed[l] /\ lbQueue[l] = <<>> /\ lbHand[l] = None
       /\ \A f \in FPsOf(l) : fpClosed[f] => lbPc[l] \in {"closing", "done"}
  /\ \A f \in FPs :
       /\ FPStopped(f) => fpPc[f] = "done"
       /\ fpPc[f] = "done" => fpClosed[f] /\ fpQueue[f] = <<>> /\ fpHand[f] = None
  /\ outClosed => mainPc \in {"stopStats", "join", "done"}
  /\ writerPc = "done" => writerHand = None /\ ((outClosed /\ outQueue = <<>>) \/ "output" \in Faults)
  /\ mainPc = "done" => writerPc = "done"

Increasing(s) == \A j, k \in DOMAIN s : j < k => s[j] < s[k]

(* What fast path f has been given so far, and what is still on its way    *)
(* through load balancer l, oldest first.                                  *)
Given(f)  == handled[f] \o Hand(fpHand[f]) \o fpQueue[f]
Coming(l) == Hand(lbHand[l]) \o lbQueue[l] \o Hand(mainHand)

(* What fast path f is given, decided or still on its way to it, is exactly *)
(* its share of the packets read, once each and in capture order.           *)
EachFastPathSeesItsShareInOrder ==
  \A l \in LBs : \A f \in FPsOf(l) :
    /\ Increasing(Given(f) \o Coming(l))
    /\ Range(Given(f)) \cup {i \in Range(Coming(l)) : FPOf(i) = f} = {i \in Read : FPOf(i) = f}

Output  == written \o Hand(writerHand) \o outQueue
Decided == UNION {Range(handled[f]) : f \in FPs}
EachInOrder(s) == \A j, k \in DOMAIN s : j < k /\ FPOf(s[j]) = FPOf(s[k]) => s[j] < s[k]

(* What the fast paths forwarded is exactly what is written or on its way  *)
(* to the writer, once each, and each fast path's packets keep their order *)
(* there.                                                                  *)
OutputIsWhatWasForwarded ==
  /\ Range(Output) = Decided \ discarded
  /\ EachInOrder(Output)
  /\ \A f \in FPs : forwarded[f] + dropped[f] = Len(handled[f])

(* When run() returns no thread is left running and nothing is left in a   *)
(* queue; with a writer that could open its file, nothing in the output    *)
(* queue either.                                                           *)
QuietAtReturn ==
  mainPc = "done" =>
    /\ \A l \in LBs : lbPc[l] = "done" /\ lbQueue[l] = <<>> /\ lbHand[l] = None
    /\ \A f \in FPs : fpPc[f] = "done" /\ fpQueue[f] = <<>> /\ fpHand[f] = None
    /\ writerHand = None /\ (outQueue = <<>> \/ "output" \in Faults)

(* run() returns (or the process is ended by an exception), so no cycle of *)
(* full queues blocks the pipeline.                                        *)
RunReturns == <>(mainPc = "done" \/ crashed)

(* The pipeline is a packet filter. *)
Filter == INSTANCE PacketFilter WITH taken <- total, emitted <- written, report <- stats
ImplementsFilter == Filter!FilterSpec

-----------------------------------------------------------------------------
(* Statements the documentation makes. *)

(* dpi_engine.h:82 "Run the full pipeline (blocking until all packets are  *)
(* processed)": it returns once they are.                                  *)
RunReturnsAlways == <>(mainPc = "done")

(* ARCHITECTURE.md:171 "No packet is lost to shutdown races.  Every packet *)
(* is either forwarded or dropped by policy": what was read is decided.    *)
EveryPacketDecided ==
  \A i \in 1..Cardinality(UNION {DOMAIN c : c \in Captures}) :
    (i <= total /\ capture[i] \in Flows)
      ~> (i \in discarded \/ \E n \in DOMAIN written : written[n] = i)

(* The same sentence, of the numbers run() reports. *)
EveryPacketAccountedFor == stats.made => stats.total = stats.forwarded + stats.dropped

(* ARCHITECTURE.md:457 "4 FP threads x 100K = 400K concurrent flows        *)
(* system-wide": when the flows of a capture hash to every residue, every  *)
(* fast path holds some of them.                                           *)
EveryFastPathHasFlows ==
  (mainPc = "done" /\ \A f \in FPs : \E i \in 1..total :
      capture[i] \in Flows /\ Hash[capture[i]] % (NumLBs * NumFPsPerLB) = f)
  => \A f \in FPs : handled[f] # <<>>
=============================================================================
