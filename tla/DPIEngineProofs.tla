--------------------------- MODULE DPIEngineProofs ---------------------------
(***************************************************************************)
(* Theorems about DPIEngine for every number of load balancers and fast    *)
(* paths, every queue capacity, every set of captures and of faults: how   *)
(* it shuts down (OrderlyShutdown, SafePushes, QuietReturn), where every   *)
(* packet is (SharesInOrder, NothingElseIsWritten), and that it implements *)
(* PacketFilter if the output file can be opened (Refinement).             *)
(***************************************************************************)
EXTENDS DPIEngine, DataFacts, FiniteSetTheorems

(* The grid of queues. *)

LEMMA RowsFit ==
  ASSUME NEW l \in LBs, NEW j \in 0..(NumFPsPerLB - 1)
  PROVE  l * NumFPsPerLB + j \in FPs
<1>1. /\ NumLBs \in Nat /\ NumFPsPerLB \in Nat /\ l \in Nat /\ j \in Nat
      /\ l + 1 <= NumLBs /\ j + 1 <= NumFPsPerLB
  BY DPIEngineAssumption DEF LBs
<1> DEFINE d == NumLBs - (l + 1)
<1>2. d \in Nat /\ NumLBs = l + 1 + d
  BY <1>1
<1>3. NumLBs * NumFPsPerLB = l * NumFPsPerLB + NumFPsPerLB + d * NumFPsPerLB
  BY <1>1, <1>2
<1>4. d * NumFPsPerLB \in Nat /\ l * NumFPsPerLB \in Nat
  BY <1>1, <1>2
<1> HIDE DEF d
<1> QED BY <1>1, <1>3, <1>4 DEF FPs

LEMMA RowsApart ==
  ASSUME NEW l \in LBs, NEW m \in LBs, NEW f \in FPsOf(l), f \in FPsOf(m)
  PROVE  l = m
<1>1. NumFPsPerLB \in Nat /\ l \in Nat /\ m \in Nat
  BY DPIEngineAssumption DEF LBs
<1>2. ASSUME NEW a \in Nat, NEW b \in Nat, a < b,
             NEW i \in 0..(NumFPsPerLB - 1), NEW j \in 0..(NumFPsPerLB - 1)
      PROVE  a * NumFPsPerLB + i # b * NumFPsPerLB + j
  <2> DEFINE d == b - (a + 1)
  <2>1. d \in Nat /\ b = a + 1 + d
    BY <1>2
  <2>2. b * NumFPsPerLB = a * NumFPsPerLB + NumFPsPerLB + d * NumFPsPerLB
    BY <1>1, <1>2, <2>1
  <2>3. d * NumFPsPerLB \in Nat /\ a * NumFPsPerLB \in Nat
    BY <1>1, <1>2, <2>1
  <2> HIDE DEF d
  <2> QED BY <1>1, <1>2, <2>2, <2>3
<1>3. PICK i \in 0..(NumFPsPerLB - 1) : f = l * NumFPsPerLB + i
  BY DEF FPsOf
<1>4. PICK j \in 0..(NumFPsPerLB - 1) : f = m * NumFPsPerLB + j
  BY DEF FPsOf
<1>5. ~(l < m) /\ ~(m < l)
  BY <1>1, <1>2, <1>3, <1>4
<1> QED BY <1>1, <1>5

LEMMA FPsOfInFPs == \A l \in LBs : FPsOf(l) \subseteq FPs
BY RowsFit DEF FPsOf

(* The packets in the queues have a hash, which leads to queues that exist. *)
LEMMA Routes ==
  ASSUME capture \in Captures, NEW i \in Read
  PROVE  /\ LBOf(i) \in LBs
         /\ \A l \in LBs : FPAt(l, i) \in FPsOf(l)
<1>1. Hash[capture[i]] \in Nat
  BY DPIEngineAssumption DEF Read
<1> DEFINE h == Hash[capture[i]]
<1>2. h % NumLBs \in 0..(NumLBs - 1) /\ h % NumFPsPerLB \in 0..(NumFPsPerLB - 1)
  BY <1>1, DPIEngineAssumption
<1> QED BY <1>2 DEF LBOf, FPAt, LBs, FPsOf

-----------------------------------------------------------------------------
(* The type invariant with every index in the pipeline that of a packet    *)
(* read: without it nothing is known of where the hash sends it.           *)
ReaderTyped ==
  /\ capture \in Captures /\ total \in 0..Len(capture)
  /\ mainPc \in {"start", "open", "read", "push", "closeLB", "joinLB", "closeFP", "joinFP",
                 "closeOut", "stopStats", "join", "done"}
  /\ mainIdx \in Nat /\ mainHand \in Read \cup {None}
  /\ mainPc = "push" => mainHand # None
  /\ running \in BOOLEAN /\ crashed \in BOOLEAN
  /\ statsPc \in {"off", "check", "print", "done"}
  /\ stats.total \in Nat /\ stats.made \in BOOLEAN

LBTyped ==
  /\ lbQueue \in [LBs -> Seq(Read)] /\ lbClosed \in [LBs -> BOOLEAN]
  /\ lbPc \in [LBs -> {"off", "run", "closing", "done"}] /\ lbHand \in [LBs -> Read \cup {None}]

FPTyped ==
  /\ fpQueue \in [FPs -> Seq(Read)] /\ fpClosed \in [FPs -> BOOLEAN]
  /\ fpPc \in [FPs -> {"off", "run", "push", "done"}] /\ fpHand \in [FPs -> Read \cup {None}]
  /\ \A f \in FPs : fpPc[f] = "push" => fpHand[f] # None

TalliesTyped ==
  /\ forwarded \in [FPs -> Nat] /\ dropped \in [FPs -> Nat]
  /\ handled \in [FPs -> Seq(Read)] /\ discarded \subseteq Read

OutTyped ==
  /\ outQueue \in Seq(Read) /\ outClosed \in BOOLEAN
  /\ writerPc \in {"off", "open", "run", "done"} /\ writerHand \in Read \cup {None}
  /\ mainPc = "start" => writerPc = "off"
  /\ writerPc \in {"off", "open"} => writerHand = None
  /\ written \in Seq(Read)

Typed == ReaderTyped /\ LBTyped /\ FPTyped /\ TalliesTyped /\ OutTyped

LEMMA SeqGrows == ASSUME NEW S, NEW T, S \subseteq T PROVE Seq(S) \subseteq Seq(T)
OBVIOUS

LEMMA TypedImpliesTypeOK == Typed => TypeOK
<1> SUFFICES ASSUME Typed PROVE TypeOK
  OBVIOUS
<1>1. capture \in Captures /\ Len(capture) \in Nat
  BY DPIEngineAssumption, LenProperties DEF Typed, ReaderTyped
<1>2. Read \subseteq Index /\ Index \subseteq Nat /\ None \in Nat
  BY <1>1 DEF Read, Index, None, Typed, ReaderTyped
<1>3. Seq(Read) \subseteq Seq(Index) /\ Read \cup {None} \subseteq Nat
  BY <1>2, SeqGrows
<1>4. /\ mainHand \in Nat /\ writerHand \in Nat /\ discarded \subseteq Index
      /\ lbHand \in [LBs -> Nat] /\ fpHand \in [FPs -> Nat]
  BY <1>2, <1>3 DEF Typed, ReaderTyped, LBTyped, FPTyped, TalliesTyped, OutTyped
<1>5. /\ outQueue \in Seq(Index) /\ written \in Seq(Index) /\ lbQueue \in [LBs -> Seq(Index)]
      /\ fpQueue \in [FPs -> Seq(Index)] /\ handled \in [FPs -> Seq(Index)]
  BY <1>3 DEF Typed, LBTyped, FPTyped, TalliesTyped, OutTyped
<1> QED
  BY <1>4, <1>5, Zenon DEF Typed, ReaderTyped, LBTyped, FPTyped, TalliesTyped, OutTyped, TypeOK

LEMMA TypedInit == Init => Typed
<1> SUFFICES ASSUME Init PROVE Typed
  OBVIOUS
<1>1. capture \in Captures /\ Len(capture) \in Nat
  BY DPIEngineAssumption, LenProperties DEF Init
<1>2. <<>> \in Seq(Read)
  BY EmptySeq
<1>3. stats.total = 0 /\ stats.made = FALSE
  BY DEF Init, NoStats
<1>4. stats.total \in Nat
  BY <1>3
<1>5. stats.made \in BOOLEAN
  BY <1>3, Zenon
<1>6. running \in BOOLEAN /\ crashed \in BOOLEAN /\ outClosed \in BOOLEAN /\ discarded \subseteq Read
  BY Zenon DEF Init
<1>7. total \in 0..Len(capture) /\ mainIdx \in Nat
  BY <1>1 DEF Init
<1>8. ReaderTyped
  <2>1. mainPc = "start" /\ mainHand = None /\ statsPc = "off"
    BY DEF Init
  <2> QED BY <2>1, <1>1, <1>4, <1>5, <1>6, <1>7, Zenon DEF ReaderTyped
<1>9. LBTyped
  BY <1>2 DEF Init, LBTyped
<1>10. FPTyped
  BY <1>2 DEF Init, FPTyped
<1>11. TalliesTyped
  BY <1>2 DEF Init, TalliesTyped
<1>12. OutTyped
  <2>1. outQueue = <<>> /\ written = <<>> /\ writerPc = "off" /\ writerHand = None
    BY DEF Init
  <2> QED BY <2>1, <1>2, <1>6, Zenon DEF OutTyped
<1> QED BY <1>8, <1>9, <1>10, <1>11, <1>12 DEF Typed

LEMMA TypedStep == Typed /\ [Next]_vars => Typed'
<1> SUFFICES ASSUME Typed, [Next]_vars PROVE Typed'
  OBVIOUS
<1> USE DEF Typed
<1>1. CASE ReadRecord
  <2>1. Len(capture) \in Nat
    BY DPIEngineAssumption, LenProperties DEF ReaderTyped
  <2>2. total' = total + 1 /\ total' \in 0..Len(capture) /\ capture' = capture
    BY <1>1, <2>1 DEF ReadRecord, ReaderTyped
  <2>3. Read \subseteq Read'
    BY <2>2, <2>1 DEF Read, ReaderTyped
  <2>4. Seq(Read) \subseteq Seq(Read')
    BY <2>3, SeqGrows
  <2>5. capture[total + 1] \in Flows => total + 1 \in Read'
    BY <2>1, <2>2 DEF Read, ReaderTyped
  <2>6. ReaderTyped'
    <3>1. mainHand' \in Read' \cup {None} /\ (mainPc' = "push" => mainHand' # None)
      BY <1>1, <2>1, <2>2, <2>3, <2>5 DEF ReadRecord, ReaderTyped, None
    <3>2. mainPc' \in {"read", "push"}
      BY <1>1 DEF ReadRecord
    <3> QED BY <1>1, <2>2, <3>1, <3>2 DEF ReadRecord, ReaderTyped
  <2>7. LBTyped'
    BY <1>1, <2>3, <2>4 DEF ReadRecord, LBTyped, lbVars
  <2>8. FPTyped'
    BY <1>1, <2>3, <2>4 DEF ReadRecord, FPTyped, fpVars
  <2>9. TalliesTyped'
    BY <1>1, <2>3, <2>4 DEF ReadRecord, TalliesTyped, fpVars
  <2>10. OutTyped'
    BY <1>1, <2>3, <2>4 DEF ReadRecord, OutTyped, outVars, writerVars
  <2> QED BY <2>6, <2>7, <2>8, <2>9, <2>10
<1>2. CASE StartThreads
  <2>1. Read' = Read
    BY <1>2 DEF StartThreads, Read
  <2>2. ReaderTyped'
    BY <1>2, <2>1, Zenon DEF StartThreads, ReaderTyped
  <2>3. LBTyped' /\ FPTyped' /\ TalliesTyped'
    BY <1>2, <2>1 DEF StartThreads, LBTyped, FPTyped, TalliesTyped
  <2>4. OutTyped'
    <3>1. mainPc = "start" /\ writerHand' = writerHand /\ writerPc' = "open"
      BY <1>2 DEF StartThreads
    <3> QED BY <1>2, <2>1, <3>1 DEF StartThreads, OutTyped, outVars
  <2> QED BY <2>2, <2>3, <2>4
<1>3. CASE OpenInput
  <2>1. Read' = Read
    BY <1>3 DEF OpenInput, Read, mainVars
  <2>2. ReaderTyped' /\ OutTyped'
    BY <1>3, <2>1 DEF OpenInput, ReaderTyped, OutTyped, mainVars, outVars, writerVars
  <2>3. LBTyped' /\ FPTyped' /\ TalliesTyped'
    BY <1>3, <2>1 DEF OpenInput, LBTyped, FPTyped, TalliesTyped, lbVars, fpVars
  <2> QED BY <2>2, <2>3
<1>4. CASE OpenInputFails
  <2>1. Read' = Read
    BY <1>4 DEF OpenInputFails, Read, mainVars
  <2>2. ReaderTyped' /\ OutTyped'
    BY <1>4, <2>1 DEF OpenInputFails, ReaderTyped, OutTyped, mainVars, outVars, writerVars
  <2>3. LBTyped' /\ FPTyped' /\ TalliesTyped'
    BY <1>4, <2>1 DEF OpenInputFails, LBTyped, FPTyped, TalliesTyped, lbVars, fpVars
  <2> QED BY <2>2, <2>3
<1>5. CASE ReadThrows
  <2>1. Read' = Read
    BY <1>5 DEF ReadThrows, Read, mainVars
  <2>2. ReaderTyped' /\ OutTyped'
    BY <1>5, <2>1 DEF ReadThrows, ReaderTyped, OutTyped, mainVars, outVars, writerVars
  <2>3. LBTyped' /\ FPTyped' /\ TalliesTyped'
    BY <1>5, <2>1 DEF ReadThrows, LBTyped, FPTyped, TalliesTyped, lbVars, fpVars
  <2> QED BY <2>2, <2>3
<1>6. CASE PushToLB
  <2>1. Read' = Read /\ mainHand \in Read
    BY <1>6 DEF PushToLB, Read, ReaderTyped
  <2>2. Append(lbQueue[LBOf(mainHand)], mainHand) \in Seq(Read)
    BY <2>1, Routes, AppendProperties DEF LBTyped, ReaderTyped
  <2>3. LBTyped'
    BY <1>6, <2>1, <2>2 DEF PushToLB, Pushed, LBTyped
  <2>4. ReaderTyped' /\ FPTyped' /\ TalliesTyped' /\ OutTyped'
    BY <1>6, <2>1 DEF PushToLB, ReaderTyped, FPTyped, TalliesTyped, OutTyped, mainVars, lbVars,
       fpVars, outVars, writerVars
  <2> QED BY <2>3, <2>4
<1>7. CASE ReadEOF
  <2>1. Read' = Read
    BY <1>7 DEF ReadEOF, Read, mainVars
  <2>2. ReaderTyped' /\ OutTyped'
    BY <1>7, <2>1 DEF ReadEOF, ReaderTyped, OutTyped, mainVars, outVars, writerVars
  <2>3. LBTyped' /\ FPTyped' /\ TalliesTyped'
    BY <1>7, <2>1 DEF ReadEOF, LBTyped, FPTyped, TalliesTyped, lbVars, fpVars
  <2> QED BY <2>2, <2>3
<1>8. CASE CloseLB
  <2>1. Read' = Read
    BY <1>8 DEF CloseLB, Read
  <2>2. ReaderTyped'
    BY <1>8, <2>1 DEF CloseLB, ReaderTyped
  <2>3. LBTyped'
    BY <1>8, <2>1 DEF CloseLB, LBTyped
  <2>4. FPTyped' /\ TalliesTyped' /\ OutTyped'
    BY <1>8, <2>1 DEF CloseLB, FPTyped, TalliesTyped, OutTyped, mainVars, lbVars,
       fpVars, outVars, writerVars
  <2> QED BY <2>2, <2>3, <2>4
<1>9. CASE JoinLB
  <2>1. Read' = Read
    BY <1>9 DEF JoinLB, Read, mainVars
  <2>2. ReaderTyped'
    BY <1>9, <2>1 DEF JoinLB, ReaderTyped, mainVars, outVars, writerVars
  <2>3. LBTyped' /\ FPTyped' /\ TalliesTyped' /\ OutTyped'
    BY <1>9, <2>1 DEF JoinLB, LBTyped, FPTyped, TalliesTyped, OutTyped, mainVars,
       lbVars, fpVars, outVars, writerVars
  <2> QED BY <2>2, <2>3
<1>10. CASE CloseFP
  <2>1. Read' = Read
    BY <1>10 DEF CloseFP, Read
  <2>2. ReaderTyped'
    BY <1>10, <2>1 DEF CloseFP, ReaderTyped
  <2>3. FPTyped'
    BY <1>10, <2>1 DEF CloseFP, FPTyped
  <2>4. LBTyped' /\ TalliesTyped' /\ OutTyped'
    BY <1>10, <2>1 DEF CloseFP, LBTyped, TalliesTyped, OutTyped, mainVars, lbVars,
       fpVars, outVars, writerVars
  <2> QED BY <2>2, <2>3, <2>4
<1>11. CASE JoinFP
  <2>1. Read' = Read
    BY <1>11 DEF JoinFP, Read
  <2>2. mainIdx' \in Nat /\ mainPc' \in {"closeFP", "closeOut"}
    BY <1>11 DEF JoinFP, ReaderTyped
  <2>3. ReaderTyped'
    BY <1>11, <2>1, <2>2 DEF JoinFP, ReaderTyped
  <2>4. LBTyped' /\ FPTyped' /\ TalliesTyped' /\ OutTyped'
    BY <1>11, <2>1 DEF JoinFP, LBTyped, FPTyped, TalliesTyped, OutTyped, mainVars, lbVars,
       fpVars, outVars, writerVars
  <2> QED BY <2>3, <2>4
<1>12. CASE CloseOutput
  <2>1. Read' = Read
    BY <1>12 DEF CloseOutput, Read, mainVars
  <2>2. ReaderTyped' /\ OutTyped'
    BY <1>12, <2>1 DEF CloseOutput, ReaderTyped, OutTyped, mainVars, outVars, writerVars
  <2>3. LBTyped' /\ FPTyped' /\ TalliesTyped'
    BY <1>12, <2>1 DEF CloseOutput, LBTyped, FPTyped, TalliesTyped, lbVars, fpVars
  <2> QED BY <2>2, <2>3
<1>13. CASE StopStats
  <2>1. Read' = Read
    BY <1>13 DEF StopStats, Read, mainVars
  <2>2. ReaderTyped' /\ OutTyped'
    BY <1>13, <2>1 DEF StopStats, ReaderTyped, OutTyped, mainVars, outVars, writerVars
  <2>3. LBTyped' /\ FPTyped' /\ TalliesTyped'
    BY <1>13, <2>1 DEF StopStats, LBTyped, FPTyped, TalliesTyped, lbVars, fpVars
  <2> QED BY <2>2, <2>3
<1>14. CASE Collect
  <2>1. Read' = Read
    BY <1>14 DEF Collect, Read
  <2>2. stats'.total = total /\ stats'.made = TRUE
    BY <1>14 DEF Collect
  <2>3. ReaderTyped'
    BY <1>14, <2>1, <2>2 DEF Collect, ReaderTyped
  <2>4. LBTyped' /\ FPTyped' /\ TalliesTyped' /\ OutTyped'
    BY <1>14, <2>1 DEF Collect, LBTyped, FPTyped, TalliesTyped, OutTyped, mainVars, lbVars,
       fpVars, outVars, writerVars
  <2> QED BY <2>3, <2>4
<1>15. CASE WriterOpens
  <2>1. Read' = Read
    BY <1>15 DEF WriterOpens, Read, mainVars
  <2>2. ReaderTyped' /\ OutTyped'
    BY <1>15, <2>1 DEF WriterOpens, ReaderTyped, OutTyped, mainVars, outVars, writerVars
  <2>3. LBTyped' /\ FPTyped' /\ TalliesTyped'
    BY <1>15, <2>1 DEF WriterOpens, LBTyped, FPTyped, TalliesTyped, lbVars, fpVars
  <2> QED BY <2>2, <2>3
<1>16. CASE WriterOpenFails
  <2>1. Read' = Read
    BY <1>16 DEF WriterOpenFails, Read, mainVars
  <2>2. ReaderTyped' /\ OutTyped'
    BY <1>16, <2>1 DEF WriterOpenFails, ReaderTyped, OutTyped, mainVars, outVars, writerVars
  <2>3. LBTyped' /\ FPTyped' /\ TalliesTyped'
    BY <1>16, <2>1 DEF WriterOpenFails, LBTyped, FPTyped, TalliesTyped, lbVars, fpVars
  <2> QED BY <2>2, <2>3
<1>17. CASE WriterPop
  <2>1. Read' = Read
    BY <1>17 DEF WriterPop, Read, mainVars
  <2>2. OutTyped'
    BY <1>17, <2>1 DEF WriterPop, OutTyped, mainVars, outVars, writerVars
  <2>3. ReaderTyped' /\ LBTyped' /\ FPTyped' /\ TalliesTyped'
    BY <1>17, <2>1 DEF WriterPop, ReaderTyped, LBTyped, FPTyped, TalliesTyped, mainVars,
       lbVars, fpVars, outVars, writerVars
  <2> QED BY <2>2, <2>3
<1>18. CASE WriterWrite
  <2>1. Read' = Read
    BY <1>18 DEF WriterWrite, Read, mainVars
  <2>2. OutTyped'
    BY <1>18, <2>1 DEF WriterWrite, OutTyped, mainVars, outVars, writerVars
  <2>3. ReaderTyped' /\ LBTyped' /\ FPTyped' /\ TalliesTyped'
    BY <1>18, <2>1 DEF WriterWrite, ReaderTyped, LBTyped, FPTyped, TalliesTyped, mainVars,
       lbVars, fpVars, outVars, writerVars
  <2> QED BY <2>2, <2>3
<1>19. CASE WriterThrows
  <2>1. Read' = Read
    BY <1>19 DEF WriterThrows, Read, mainVars
  <2>2. ReaderTyped' /\ OutTyped'
    BY <1>19, <2>1 DEF WriterThrows, ReaderTyped, OutTyped, mainVars, outVars, writerVars
  <2>3. LBTyped' /\ FPTyped' /\ TalliesTyped'
    BY <1>19, <2>1 DEF WriterThrows, LBTyped, FPTyped, TalliesTyped, lbVars, fpVars
  <2> QED BY <2>2, <2>3
<1>20. CASE WriterExit
  <2>1. Read' = Read
    BY <1>20 DEF WriterExit, Read, mainVars
  <2>2. ReaderTyped' /\ OutTyped'
    BY <1>20, <2>1 DEF WriterExit, ReaderTyped, OutTyped, mainVars, outVars, writerVars
  <2>3. LBTyped' /\ FPTyped' /\ TalliesTyped'
    BY <1>20, <2>1 DEF WriterExit, LBTyped, FPTyped, TalliesTyped, lbVars, fpVars
  <2> QED BY <2>2, <2>3
<1>21. CASE StatsCheck
  <2>1. Read' = Read
    BY <1>21 DEF StatsCheck, Read, mainVars
  <2>2. ReaderTyped' /\ OutTyped'
    BY <1>21, <2>1 DEF StatsCheck, ReaderTyped, OutTyped, mainVars, outVars, writerVars
  <2>3. LBTyped' /\ FPTyped' /\ TalliesTyped'
    BY <1>21, <2>1 DEF StatsCheck, LBTyped, FPTyped, TalliesTyped, lbVars, fpVars
  <2> QED BY <2>2, <2>3
<1>22. CASE StatsPrint
  <2>1. Read' = Read
    BY <1>22 DEF StatsPrint, Read, mainVars
  <2>2. ReaderTyped'
    BY <1>22, <2>1 DEF StatsPrint, ReaderTyped, mainVars, outVars, writerVars
  <2>3. LBTyped' /\ FPTyped' /\ TalliesTyped' /\ OutTyped'
    BY <1>22, <2>1 DEF StatsPrint, LBTyped, FPTyped, TalliesTyped, OutTyped, mainVars,
       lbVars, fpVars, outVars, writerVars
  <2> QED BY <2>2, <2>3
<1>23. ASSUME NEW l \in LBs, LBPop(l) PROVE Typed'
  <2>1. Read' = Read
    BY <1>23 DEF LBPop, Read, mainVars
  <2>2. LBTyped'
    BY <1>23, <2>1 DEF LBPop, LBTyped
  <2>3. ReaderTyped' /\ FPTyped' /\ TalliesTyped' /\ OutTyped'
    BY <1>23, <2>1 DEF LBPop, ReaderTyped, FPTyped, TalliesTyped, OutTyped, mainVars, lbVars,
       fpVars, outVars, writerVars
  <2> QED BY <2>2, <2>3
<1>24. ASSUME NEW l \in LBs, LBPush(l) PROVE Typed'
  <2>1. Read' = Read
    BY <1>24 DEF LBPush, Read, mainVars
  <2>2. FPAt(l, lbHand[l]) \in FPs /\ lbHand[l] \in Read
    BY <1>24, Routes, FPsOfInFPs DEF LBPush, LBTyped, ReaderTyped
  <2>3. Append(fpQueue[FPAt(l, lbHand[l])], lbHand[l]) \in Seq(Read)
    BY <2>2, AppendProperties DEF FPTyped
  <2>4. FPTyped'
    BY <1>24, <2>1, <2>3 DEF LBPush, Pushed, FPTyped
  <2>5. LBTyped'
    BY <1>24, <2>1 DEF LBPush, LBTyped
  <2>6. ReaderTyped' /\ TalliesTyped' /\ OutTyped'
    BY <1>24, <2>1 DEF LBPush, ReaderTyped, TalliesTyped, OutTyped, mainVars, lbVars, fpVars,
       outVars, writerVars
  <2> QED BY <2>4, <2>5, <2>6
<1>25. ASSUME NEW l \in LBs, LBDrained(l) PROVE Typed'
  <2>1. Read' = Read
    BY <1>25 DEF LBDrained, Read, mainVars
  <2>2. LBTyped'
    BY <1>25, <2>1 DEF LBDrained, LBTyped
  <2>3. ReaderTyped' /\ FPTyped' /\ TalliesTyped' /\ OutTyped'
    BY <1>25, <2>1 DEF LBDrained, ReaderTyped, FPTyped, TalliesTyped, OutTyped, mainVars,
       lbVars, fpVars, outVars, writerVars
  <2> QED BY <2>2, <2>3
<1>26. ASSUME NEW l \in LBs, LBCloseFP(l) PROVE Typed'
  <2>1. Read' = Read
    BY <1>26 DEF LBCloseFP, Read, mainVars
  <2>2. LBTyped'
    BY <1>26, <2>1 DEF LBCloseFP, LBTyped
  <2>3. FPTyped'
    BY <1>26, <2>1 DEF LBCloseFP, FPTyped
  <2>4. ReaderTyped' /\ TalliesTyped' /\ OutTyped'
    BY <1>26, <2>1 DEF LBCloseFP, ReaderTyped, TalliesTyped, OutTyped, mainVars, lbVars, fpVars,
       outVars, writerVars
  <2> QED BY <2>2, <2>3, <2>4
<1>27. ASSUME NEW f \in FPs, FPPop(f) PROVE Typed'
  <2>1. Read' = Read
    BY <1>27 DEF FPPop, Read, mainVars
  <2>2. FPTyped'
    BY <1>27, <2>1 DEF FPPop, FPTyped
  <2>3. ReaderTyped' /\ LBTyped' /\ TalliesTyped' /\ OutTyped'
    BY <1>27, <2>1 DEF FPPop, ReaderTyped, LBTyped, TalliesTyped, OutTyped, mainVars, lbVars,
       fpVars, outVars, writerVars
  <2> QED BY <2>2, <2>3
<1>28. ASSUME NEW f \in FPs, FPDrop(f) PROVE Typed'
  <2>1. Read' = Read
    BY <1>28 DEF FPDrop, Read, mainVars
  <2>2. Append(handled[f], fpHand[f]) \in Seq(Read) /\ fpHand[f] \in Read
    BY <1>28, AppendProperties DEF FPDrop, FPTyped, TalliesTyped
  <2>3. TalliesTyped'
    BY <1>28, <2>1, <2>2 DEF FPDrop, TalliesTyped
  <2>4. FPTyped'
    BY <1>28, <2>1 DEF FPDrop, FPTyped
  <2>5. ReaderTyped' /\ LBTyped' /\ OutTyped'
    BY <1>28, <2>1 DEF FPDrop, ReaderTyped, LBTyped, OutTyped, mainVars, lbVars, fpVars,
       outVars, writerVars
  <2> QED BY <2>3, <2>4, <2>5
<1>29. ASSUME NEW f \in FPs, FPDecideForward(f) PROVE Typed'
  <2>1. Read' = Read
    BY <1>29 DEF FPDecideForward, Read, mainVars
  <2>2. FPTyped'
    BY <1>29, <2>1 DEF FPDecideForward, FPTyped
  <2>3. ReaderTyped' /\ LBTyped' /\ TalliesTyped' /\ OutTyped'
    BY <1>29, <2>1 DEF FPDecideForward, ReaderTyped, LBTyped, TalliesTyped, OutTyped, mainVars,
       lbVars, fpVars, outVars, writerVars
  <2> QED BY <2>2, <2>3
<1>30. ASSUME NEW f \in FPs, FPForward(f) PROVE Typed'
  <2>1. Read' = Read
    BY <1>30 DEF FPForward, Read, mainVars
  <2>2. fpHand[f] \in Read
    BY <1>30 DEF FPForward, FPTyped
  <2>3. Append(handled[f], fpHand[f]) \in Seq(Read) /\ Append(outQueue, fpHand[f]) \in Seq(Read)
    BY <2>2, AppendProperties DEF TalliesTyped, OutTyped
  <2>4. TalliesTyped'
    BY <1>30, <2>1, <2>3 DEF FPForward, TalliesTyped
  <2>5. OutTyped'
    BY <1>30, <2>1, <2>3, Zenon DEF FPForward, Pushed, OutTyped, mainVars, writerVars
  <2>6. FPTyped'
    BY <1>30, <2>1 DEF FPForward, FPTyped
  <2>7. ReaderTyped' /\ LBTyped'
    BY <1>30, <2>1 DEF FPForward, ReaderTyped, LBTyped, mainVars, lbVars, fpVars, outVars,
       writerVars
  <2> QED BY <2>4, <2>5, <2>6, <2>7
<1>31. ASSUME NEW f \in FPs, FPExit(f) PROVE Typed'
  <2>1. Read' = Read
    BY <1>31 DEF FPExit, Read, mainVars
  <2>2. FPTyped'
    BY <1>31, <2>1 DEF FPExit, FPTyped
  <2>3. ReaderTyped' /\ LBTyped' /\ TalliesTyped' /\ OutTyped'
    BY <1>31, <2>1 DEF FPExit, ReaderTyped, LBTyped, TalliesTyped, OutTyped, mainVars, lbVars,
       fpVars, outVars, writerVars
  <2> QED BY <2>2, <2>3
<1>32. CASE UNCHANGED vars
  <2>1. Read' = Read
    BY <1>32 DEF vars, Read, mainVars
  <2>2. ReaderTyped'
    BY <1>32, <2>1 DEF vars, ReaderTyped, mainVars, outVars, writerVars
  <2>3. LBTyped' /\ FPTyped' /\ TalliesTyped' /\ OutTyped'
    BY <1>32, <2>1 DEF vars, LBTyped, FPTyped, TalliesTyped, OutTyped, mainVars,
       lbVars, fpVars, outVars, writerVars
  <2> QED BY <2>2, <2>3
<1> QED
  BY <1>1, <1>2, <1>3, <1>4, <1>5, <1>6, <1>7, <1>8, <1>9, <1>10, <1>11, <1>12, <1>13,
     <1>14, <1>15, <1>16, <1>17, <1>18, <1>19, <1>20, <1>21, <1>22, <1>23, <1>24, <1>25,
     <1>26, <1>27, <1>28, <1>29, <1>30, <1>31, <1>32 DEF Next, Main, LB, FP, Writer, Stats

LEMMA Initially == Init => ShutdownInOrder
BY FPsOfInFPs DEF Init, ShutdownInOrder, LBStopped, FPStopped, AllStopped

(* The join loops start at queue 0 and end after the last one. *)
LEMMA FirstAndNext ==
  /\ 0 \in LBs /\ \A l, m \in LBs : m + 1 \notin LBs => l <= m
  /\ 0 \in FPs /\ \A f, g \in FPs : g + 1 \notin FPs => f <= g
<1>1. /\ NumLBs \in Nat /\ NumLBs >= 1
      /\ NumLBs * NumFPsPerLB \in Nat /\ NumLBs * NumFPsPerLB >= 1
  BY DPIEngineAssumption
<1>2. 0 \in LBs /\ \A l, m \in LBs : m + 1 \notin LBs => l <= m
  BY <1>1 DEF LBs
<1> DEFINE N == NumLBs * NumFPsPerLB
<1>3. N \in Nat /\ N >= 1 /\ FPs = 0..(N - 1)
  BY <1>1 DEF FPs
<1> HIDE DEF N
<1> QED BY <1>2, <1>3

LEMMA ShutdownStep == Typed /\ ShutdownInOrder /\ [Next]_vars => ShutdownInOrder'
<1> SUFFICES ASSUME Typed, ShutdownInOrder, [Next]_vars PROVE ShutdownInOrder'
  OBVIOUS
<1> USE DEF ShutdownInOrder, LBStopped, FPStopped, AllStopped
<1>1. CASE StartThreads
  BY <1>1 DEF StartThreads, Typed, ReaderTyped, LBTyped, FPTyped, OutTyped, mainVars, lbVars,
     fpVars, outVars, writerVars
<1>2. CASE OpenInput
  BY <1>2 DEF OpenInput, Typed, ReaderTyped, LBTyped, FPTyped, OutTyped, mainVars, lbVars,
     fpVars, outVars, writerVars
<1>3. CASE OpenInputFails
  <2>1. mainIdx = 0 /\ mainIdx' = 0 /\ mainPc' = "closeLB"
    BY <1>3 DEF OpenInputFails
  <2>2. mainIdx' \in LBs /\ \A l \in LBs : ~(l < mainIdx')
    BY <2>1, FirstAndNext DEF LBs
  <2> QED BY <1>3, <2>1, <2>2 DEF OpenInputFails, mainVars, lbVars, fpVars, outVars, writerVars
<1>4. CASE ReadRecord
  BY <1>4 DEF ReadRecord, Typed, ReaderTyped, LBTyped, FPTyped, OutTyped, mainVars, lbVars,
     fpVars, outVars, writerVars
<1>5. CASE ReadThrows
  BY <1>5 DEF ReadThrows, Typed, ReaderTyped, LBTyped, FPTyped, OutTyped, mainVars, lbVars,
     fpVars, outVars, writerVars
<1>6. CASE PushToLB
  BY <1>6 DEF PushToLB, Typed, ReaderTyped, LBTyped, FPTyped, OutTyped, mainVars, lbVars,
     fpVars, outVars, writerVars
<1>7. CASE ReadEOF
  <2>1. mainIdx = 0 /\ mainIdx' = 0 /\ mainPc' = "closeLB"
    BY <1>7 DEF ReadEOF
  <2>2. mainIdx' \in LBs /\ \A l \in LBs : ~(l < mainIdx')
    BY <2>1, FirstAndNext DEF LBs
  <2> QED BY <1>7, <2>1, <2>2 DEF ReadEOF, mainVars, lbVars, fpVars, outVars, writerVars
<1>8. CASE CloseLB
  BY <1>8 DEF CloseLB, Typed, ReaderTyped, LBTyped, FPTyped, OutTyped, mainVars, lbVars, fpVars,
     outVars, writerVars
<1>9. CASE JoinLB
  <2>1. mainIdx \in LBs /\ lbPc[mainIdx] = "done"
    BY <1>9 DEF JoinLB
  <2>2. CASE mainIdx + 1 \in LBs
    <3>1. \A l \in LBs : l < mainIdx + 1 => lbPc[l] = "done"
      BY <1>9, <2>1 DEF JoinLB, LBs
    <3> QED BY <1>9, <2>2, <3>1 DEF JoinLB, mainVars, lbVars, fpVars, outVars, writerVars
  <2>3. CASE mainIdx + 1 \notin LBs
    <3>1. \A l \in LBs : lbPc[l] = "done"
      BY <1>9, <2>1, <2>3, FirstAndNext DEF JoinLB, LBs
    <3> QED BY <1>9, <2>3, <3>1, FirstAndNext DEF JoinLB, FPs, mainVars, lbVars, fpVars, outVars, writerVars
  <2> QED BY <2>2, <2>3
<1>10. CASE CloseFP
  BY <1>10 DEF CloseFP, Typed, ReaderTyped, LBTyped, FPTyped, OutTyped, mainVars, lbVars,
     fpVars, outVars, writerVars
<1>11. CASE JoinFP
  <2>1. /\ mainIdx \in FPs /\ fpPc[mainIdx] = "done"
        /\ \A l \in LBs : lbPc[l] = "done"
    BY <1>11 DEF JoinFP
  <2>2. CASE mainIdx + 1 \in FPs
    <3>1. \A f \in FPs : f < mainIdx + 1 => fpPc[f] = "done"
      BY <1>11, <2>1 DEF JoinFP, FPs
    <3> QED BY <1>11, <2>1, <2>2, <3>1 DEF JoinFP, mainVars, lbVars, fpVars, outVars, writerVars
  <2>3. CASE mainIdx + 1 \notin FPs
    <3>1. \A f \in FPs : fpPc[f] = "done"
      BY <1>11, <2>1, <2>3, FirstAndNext DEF JoinFP, FPs
    <3> QED BY <1>11, <2>1, <2>3, <3>1 DEF JoinFP, mainVars, lbVars, fpVars, outVars, writerVars
  <2> QED BY <2>2, <2>3
<1>12. CASE CloseOutput
  BY <1>12 DEF CloseOutput, Typed, ReaderTyped, LBTyped, FPTyped, OutTyped, mainVars, lbVars,
     fpVars, outVars, writerVars
<1>13. CASE StopStats
  BY <1>13 DEF StopStats, Typed, ReaderTyped, LBTyped, FPTyped, OutTyped, mainVars, lbVars,
     fpVars, outVars, writerVars
<1>14. CASE Collect
  BY <1>14 DEF Collect, Typed, ReaderTyped, LBTyped, FPTyped, OutTyped, mainVars, lbVars,
     fpVars, outVars, writerVars
<1>15. CASE WriterOpens
  BY <1>15 DEF WriterOpens, Typed, ReaderTyped, LBTyped, FPTyped, OutTyped, mainVars, lbVars,
     fpVars, outVars, writerVars
<1>16. CASE WriterOpenFails
  BY <1>16 DEF WriterOpenFails, Typed, ReaderTyped, LBTyped, FPTyped, OutTyped, mainVars,
     lbVars, fpVars, outVars, writerVars
<1>17. CASE WriterPop
  BY <1>17 DEF WriterPop, Typed, ReaderTyped, LBTyped, FPTyped, OutTyped, mainVars, lbVars,
     fpVars, outVars, writerVars
<1>18. CASE WriterWrite
  BY <1>18 DEF WriterWrite, Typed, ReaderTyped, LBTyped, FPTyped, OutTyped, mainVars, lbVars,
     fpVars, outVars, writerVars
<1>19. CASE WriterThrows
  BY <1>19 DEF WriterThrows, Typed, ReaderTyped, LBTyped, FPTyped, OutTyped, mainVars, lbVars,
     fpVars, outVars, writerVars
<1>20. CASE WriterExit
  BY <1>20 DEF WriterExit, Typed, ReaderTyped, LBTyped, FPTyped, OutTyped, mainVars, lbVars,
     fpVars, outVars, writerVars
<1>21. CASE StatsCheck
  BY <1>21 DEF StatsCheck, Typed, ReaderTyped, LBTyped, FPTyped, OutTyped, mainVars, lbVars,
     fpVars, outVars, writerVars
<1>22. CASE StatsPrint
  BY <1>22 DEF StatsPrint, Typed, ReaderTyped, LBTyped, FPTyped, OutTyped, mainVars, lbVars,
     fpVars, outVars, writerVars
<1>23. ASSUME NEW l \in LBs, LBPop(l) PROVE ShutdownInOrder'
  BY <1>23, FPsOfInFPs DEF LBPop, Typed, ReaderTyped, LBTyped, FPTyped, OutTyped, mainVars,
     lbVars, fpVars, outVars, writerVars
<1>24. ASSUME NEW l \in LBs, LBPush(l) PROVE ShutdownInOrder'
  <2> DEFINE g == FPAt(l, lbHand[l])
  <2>1. g \in FPsOf(l) /\ g \in FPs
    BY <1>24, Routes, FPsOfInFPs DEF LBPush, Typed, LBTyped, ReaderTyped
  <2>2. ~fpClosed[g] /\ fpPc[g] # "done"
    BY <1>24, <2>1 DEF LBPush
  <2> HIDE DEF g
  <2> QED BY <1>24, <2>2 DEF LBPush, g, Typed, LBTyped, FPTyped, mainVars, lbVars, fpVars, outVars, writerVars
<1>25. ASSUME NEW l \in LBs, LBDrained(l) PROVE ShutdownInOrder'
  BY <1>25, FPsOfInFPs DEF LBDrained, Typed, ReaderTyped, LBTyped, FPTyped, OutTyped, mainVars,
     lbVars, fpVars, outVars, writerVars
<1>26. ASSUME NEW l \in LBs, LBCloseFP(l) PROVE ShutdownInOrder'
  <2>1. lbPc[l] = "closing" /\ lbClosed[l] /\ lbQueue[l] = <<>> /\ lbHand[l] = None
    BY <1>26 DEF LBCloseFP
  <2>2. CASE lbPc' = [lbPc EXCEPT ![l] = "done"] /\ UNCHANGED fpClosed
    BY <1>26, <2>1, <2>2, FPsOfInFPs DEF LBCloseFP, Typed, LBTyped, FPTyped, mainVars, lbVars,
       fpVars, outVars, writerVars
  <2>3. ASSUME NEW g \in FPsOf(l), fpClosed' = [fpClosed EXCEPT ![g] = TRUE], UNCHANGED lbPc
        PROVE  ShutdownInOrder'
    <3>1. \A m \in LBs : g \in FPsOf(m) => m = l
      BY RowsApart
    <3> QED BY <1>26, <2>1, <2>3, <3>1, FPsOfInFPs DEF LBCloseFP, Typed, LBTyped, FPTyped, mainVars, lbVars, fpVars, outVars, writerVars
  <2> QED BY <1>26, <2>2, <2>3 DEF LBCloseFP
<1>27. ASSUME NEW f \in FPs, FPPop(f) PROVE ShutdownInOrder'
  BY <1>27, FPsOfInFPs DEF FPPop, Typed, ReaderTyped, LBTyped, FPTyped, OutTyped, mainVars,
     lbVars, fpVars, outVars, writerVars
<1>28. ASSUME NEW f \in FPs, FPDrop(f) PROVE ShutdownInOrder'
  BY <1>28, FPsOfInFPs DEF FPDrop, Typed, ReaderTyped, LBTyped, FPTyped, OutTyped, mainVars,
     lbVars, fpVars, outVars, writerVars
<1>29. ASSUME NEW f \in FPs, FPDecideForward(f) PROVE ShutdownInOrder'
  BY <1>29, FPsOfInFPs DEF FPDecideForward, Typed, ReaderTyped, LBTyped, FPTyped, OutTyped,
     mainVars, lbVars, fpVars, outVars, writerVars
<1>30. ASSUME NEW f \in FPs, FPForward(f) PROVE ShutdownInOrder'
  BY <1>30, FPsOfInFPs DEF FPForward, Typed, ReaderTyped, LBTyped, FPTyped, OutTyped, mainVars,
     lbVars, fpVars, outVars, writerVars
<1>31. ASSUME NEW f \in FPs, FPExit(f) PROVE ShutdownInOrder'
  BY <1>31, FPsOfInFPs DEF FPExit, Typed, ReaderTyped, LBTyped, FPTyped, OutTyped, mainVars,
     lbVars, fpVars, outVars, writerVars
<1>32. CASE UNCHANGED vars
  BY <1>32 DEF vars, mainVars, lbVars, fpVars, outVars, writerVars
<1> QED
  BY <1>1, <1>2, <1>3, <1>4, <1>5, <1>6, <1>7, <1>8, <1>9, <1>10, <1>11, <1>12, <1>13,
     <1>14, <1>15, <1>16, <1>17, <1>18, <1>19, <1>20, <1>21, <1>22, <1>23, <1>24, <1>25,
     <1>26, <1>27, <1>28, <1>29, <1>30, <1>31, <1>32 DEF Next, Main, LB, FP, Writer, Stats

(* Nobody pushes into a closed queue. *)
LEMMA PushesAreSafe == Typed /\ ShutdownInOrder => NoPushIntoClosed
<1> SUFFICES ASSUME Typed, ShutdownInOrder PROVE NoPushIntoClosed
  OBVIOUS
<1>1. ASSUME mainPc = "push" PROVE ~lbClosed[LBOf(mainHand)]
  <2>1. LBOf(mainHand) \in LBs
    BY <1>1, Routes DEF Typed, ReaderTyped
  <2> QED BY <1>1, <2>1 DEF ShutdownInOrder
<1>2. ASSUME NEW l \in LBs, lbHand[l] # None PROVE ~fpClosed[FPAt(l, lbHand[l])]
  <2>1. FPAt(l, lbHand[l]) \in FPsOf(l)
    BY <1>2, Routes DEF Typed, ReaderTyped, LBTyped
  <2> QED BY <1>2, <2>1 DEF ShutdownInOrder
<1>3. ASSUME NEW f \in FPs, fpHand[f] # None PROVE ~outClosed
  BY <1>3 DEF ShutdownInOrder, FPStopped, AllStopped
<1> QED BY <1>1, <1>2, <1>3 DEF NoPushIntoClosed

-----------------------------------------------------------------------------
LEMMA Invariant == Spec => [](Typed /\ ShutdownInOrder)
<1>1. Init => Typed /\ ShutdownInOrder
  BY TypedInit, Initially
<1>2. Typed /\ ShutdownInOrder /\ [Next]_vars => (Typed /\ ShutdownInOrder)'
  BY TypedStep, ShutdownStep
<1> QED BY <1>1, <1>2, PTL DEF Spec

(* The state of the pipeline is well formed whatever the threads do: every *)
(* queue holds packets of the capture, every thread is at a place its      *)
(* function has.                                                           *)
THEOREM TypeCorrect == Spec => []TypeOK
BY Invariant, TypedImpliesTypeOK, PTL

(* run()'s close-and-join sequence: a queue is closed only after everyone  *)
(* who pushes into it has finished, a thread ends only when its queue is   *)
(* closed and drained and its hands are empty.                             *)
THEOREM OrderlyShutdown == Spec => []ShutdownInOrder
BY Invariant, PTL

(* push()'s result may be ignored, as all three callers do: none of them   *)
(* ever pushes into a closed queue, so none loses a packet there.          *)
THEOREM SafePushes == Spec => []NoPushIntoClosed
BY PushesAreSafe, Invariant, PTL

(* When run() returns every load balancer and fast path has ended and      *)
(* every queue is empty, the output queue too if its file could be opened. *)
THEOREM QuietReturn == Spec => []QuietAtReturn
<1>1. ASSUME ShutdownInOrder PROVE QuietAtReturn
  BY <1>1 DEF ShutdownInOrder, QuietAtReturn, LBStopped, FPStopped, AllStopped
<1> QED BY <1>1, Invariant, PTL

-----------------------------------------------------------------------------
(* Sequences whose elements increase. *)

LEMMA IncreasingConcat ==
  ASSUME NEW s \in Seq(Nat), NEW t \in Seq(Nat)
  PROVE  Increasing(s \o t) <=> /\ Increasing(s) /\ Increasing(t)
                                /\ \A x \in Range(s), y \in Range(t) : x < y
<1> DEFINE m == Len(s)
           n == Len(t)
           u == s \o t
<1>1. /\ m \in Nat /\ n \in Nat /\ DOMAIN s = 1..m /\ DOMAIN t = 1..n /\ DOMAIN u = 1..m + n
      /\ \A i \in 1..m + n : u[i] = IF i <= m THEN s[i] ELSE t[i - m]
      /\ \A i \in 1..m : s[i] \in Nat
      /\ \A i \in 1..n : t[i] \in Nat
  BY LenProperties, ConcatProperties, ElementOfSeq
<1>2. /\ \A x \in Range(s) : \E i \in 1..m : x = s[i]
      /\ \A i \in 1..m : s[i] \in Range(s)
      /\ \A x \in Range(t) : \E i \in 1..n : x = t[i]
      /\ \A i \in 1..n : t[i] \in Range(t)
  BY <1>1 DEF Range
<1>3. Increasing(s) <=> \A j, k \in 1..m : j < k => s[j] < s[k]
  BY <1>1 DEF Increasing
<1>4. Increasing(t) <=> \A j, k \in 1..n : j < k => t[j] < t[k]
  BY <1>1 DEF Increasing
<1>5. Increasing(u) <=> \A j, k \in 1..m + n : j < k => u[j] < u[k]
  BY <1>1 DEF Increasing
<1> HIDE DEF m, n, u
<1>6. ASSUME Increasing(u) PROVE Increasing(s) /\ Increasing(t)
  <2>1. \A j, k \in 1..m : j < k => s[j] < s[k]
    BY <1>1, <1>5, <1>6
  <2>2. ASSUME NEW j \in 1..n, NEW k \in 1..n, j < k PROVE t[j] < t[k]
    <3>1. m + j \in 1..m + n /\ m + k \in 1..m + n /\ m + j < m + k
      BY <1>1, <2>2
    <3>2. u[m + j] = t[j] /\ u[m + k] = t[k]
      BY <1>1, <3>1
    <3> QED BY <1>5, <1>6, <3>1, <3>2
  <2> QED BY <1>3, <1>4, <2>1, <2>2
<1>7. ASSUME Increasing(u), NEW x \in Range(s), NEW y \in Range(t) PROVE x < y
  <2>1. PICK i \in 1..m : x = s[i] BY <1>2
  <2>2. PICK j \in 1..n : y = t[j] BY <1>2
  <2>3. i \in 1..m + n /\ m + j \in 1..m + n /\ i < m + j
    BY <1>1
  <2>4. u[i] = s[i] /\ u[m + j] = t[j]
    BY <1>1, <2>3
  <2> QED BY <1>5, <1>7, <2>1, <2>2, <2>3, <2>4
<1>8. ASSUME Increasing(s), Increasing(t), \A x \in Range(s), y \in Range(t) : x < y
      PROVE  Increasing(u)
  <2>1. SUFFICES ASSUME NEW j \in 1..m + n, NEW k \in 1..m + n, j < k PROVE u[j] < u[k]
    BY <1>5
  <2>2. CASE k <= m
    BY <1>1, <1>3, <1>8, <2>1, <2>2
  <2>3. CASE j <= m /\ ~(k <= m)
    <3>1. j \in 1..m /\ k - m \in 1..n BY <1>1, <2>3
    <3> QED BY <1>1, <1>2, <1>8, <2>3, <3>1
  <2>4. CASE ~(j <= m)
    <3>1. j - m \in 1..n /\ k - m \in 1..n /\ j - m < k - m /\ ~(k <= m)
      BY <1>1, <2>1, <2>4
    <3> QED BY <1>1, <1>4, <1>8, <2>4, <3>1
  <2> QED BY <2>2, <2>3, <2>4, <1>1
<1> QED BY <1>6, <1>7, <1>8 DEF u

LEMMA IncreasingOne == ASSUME NEW x PROVE Increasing(<<x>>) /\ Range(<<x>>) = {x}
BY DEF Increasing, Range

LEMMA IncreasingAppend ==
  ASSUME NEW s \in Seq(Nat), NEW x \in Nat
  PROVE  Increasing(Append(s, x)) <=> Increasing(s) /\ \A y \in Range(s) : y < x
<1>1. Append(s, x) = s \o <<x>> /\ <<x>> \in Seq(Nat)
  BY AppendIsConcat
<1>2. Increasing(<<x>>) /\ Range(<<x>>) = {x}
  BY IncreasingOne
<1>3. Increasing(s \o <<x>>) <=> /\ Increasing(s) /\ Increasing(<<x>>)
                                 /\ \A y \in Range(s), z \in Range(<<x>>) : y < z
  BY <1>1, IncreasingConcat
<1> QED BY <1>1, <1>2, <1>3

LEMMA NewComes ==
  ASSUME NEW g \in Seq(Nat), NEW c \in Seq(Nat), NEW x \in Nat, Increasing(g \o c),
         \A y \in Range(g) \cup Range(c) : y < x
  PROVE  Increasing(g \o Append(c, x))
<1>1. g \o c \in Seq(Nat)
  BY ConcatProperties
<1>2. Range(g \o c) = Range(g) \cup Range(c)
  BY RangeConcatenation
<1>3. g \o Append(c, x) = Append(g \o c, x)
  BY AppendLast
<1> QED BY <1>1, <1>2, <1>3, IncreasingAppend

(* The last packet on the way, or the first, goes elsewhere. *)
LEMMA LastLeaves ==
  ASSUME NEW g \in Seq(Nat), NEW c \in Seq(Nat), NEW x \in Nat, Increasing(g \o Append(c, x))
  PROVE  Increasing(g \o c)
<1>1. g \o c \in Seq(Nat)
  BY ConcatProperties
<1>2. g \o Append(c, x) = Append(g \o c, x)
  BY AppendLast
<1> QED BY <1>1, <1>2, IncreasingAppend

LEMMA FirstLeaves ==
  ASSUME NEW g \in Seq(Nat), NEW c \in Seq(Nat), NEW x \in Nat,
         Increasing(g \o (<<x>> \o c))
  PROVE  Increasing(g \o c) /\ \A y \in Range(g) : y < x
<1>1. <<x>> \in Seq(Nat) /\ <<x>> \o c \in Seq(Nat)
  BY ConcatProperties
<1>2. Range(<<x>> \o c) = {x} \cup Range(c)
  BY RangeOfCons
<1> QED BY <1>1, <1>2, IncreasingConcat


-----------------------------------------------------------------------------
(* The packets between the reader and the decision. *)

Way == <<capture, total, mainHand, lbQueue, lbHand, fpQueue, fpHand, handled>>

LEMMA HandInSeq ==
  ASSUME NEW S, None \notin S, NEW i \in S \cup {None}
  PROVE  Hand(i) \in Seq(S)
BY DEF Hand

WayTyped ==
  /\ Read \subseteq Nat /\ None \notin Read
  /\ \A f \in FPs : Given(f) \in Seq(Read) /\ Given(f) \in Seq(Nat) /\ Range(Given(f)) \subseteq Read
  /\ \A l \in LBs : Coming(l) \in Seq(Read) /\ Coming(l) \in Seq(Nat) /\ Range(Coming(l)) \subseteq Read

LEMMA TypedWay == Typed => WayTyped
<1> SUFFICES ASSUME Typed PROVE WayTyped
  OBVIOUS
<1>1. capture \in Captures /\ Len(capture) \in Nat /\ total \in Nat
  BY DPIEngineAssumption, LenProperties DEF Typed, ReaderTyped
<1>2. Read \subseteq Nat /\ None \notin Read
  BY <1>1 DEF Read, None
<1>3. Seq(Read) \subseteq Seq(Nat)
  BY <1>2, SeqGrows
<1>4. ASSUME NEW f \in FPs PROVE Given(f) \in Seq(Read)
  <2>1. handled[f] \in Seq(Read) /\ fpQueue[f] \in Seq(Read) /\ fpHand[f] \in Read \cup {None}
    BY DEF Typed, TalliesTyped, FPTyped
  <2>2. Hand(fpHand[f]) \in Seq(Read) BY <1>2, <2>1, HandInSeq
  <2>3. handled[f] \o Hand(fpHand[f]) \in Seq(Read) BY <2>1, <2>2, ConcatProperties
  <2> QED BY <2>1, <2>3, ConcatProperties DEF Given
<1>5. ASSUME NEW l \in LBs PROVE Coming(l) \in Seq(Read)
  <2>1. lbQueue[l] \in Seq(Read) /\ lbHand[l] \in Read \cup {None} /\ mainHand \in Read \cup {None}
    BY DEF Typed, LBTyped, ReaderTyped
  <2>2. Hand(lbHand[l]) \in Seq(Read) /\ Hand(mainHand) \in Seq(Read) BY <1>2, <2>1, HandInSeq
  <2>3. Hand(lbHand[l]) \o lbQueue[l] \in Seq(Read) BY <2>1, <2>2, ConcatProperties
  <2> QED BY <2>2, <2>3, ConcatProperties DEF Coming
<1>6. \A s \in Seq(Read) : Range(s) \subseteq Read
  BY RangeOfSeq
<1> QED BY <1>2, <1>3, <1>4, <1>5, <1>6 DEF WayTyped

(* The steps that move a packet on its way, or take one from the capture. *)
LEMMA WaySteps ==
  [Next]_vars => \/ ReadRecord \/ PushToLB
                 \/ \E l \in LBs : LBPop(l) \/ LBPush(l)
                 \/ \E f \in FPs : FPPop(f) \/ FPDrop(f) \/ FPForward(f)
                 \/ UNCHANGED Way
<1> SUFFICES ASSUME [Next]_vars, ~UNCHANGED Way
             PROVE  \/ ReadRecord \/ PushToLB
                    \/ \E l \in LBs : LBPop(l) \/ LBPush(l)
                    \/ \E f \in FPs : FPPop(f) \/ FPDrop(f) \/ FPForward(f)
  OBVIOUS
<1> USE DEF Way, mainVars, lbVars, fpVars, outVars, writerVars
<1>1. ~UNCHANGED vars
  BY DEF vars
<1>2. ~(StartThreads \/ OpenInput \/ OpenInputFails \/ ReadThrows \/ ReadEOF)
  BY DEF StartThreads, OpenInput, OpenInputFails, ReadThrows, ReadEOF
<1>3. ~(CloseLB \/ JoinLB \/ CloseFP \/ JoinFP \/ CloseOutput \/ StopStats \/ Collect)
  BY DEF CloseLB, JoinLB, CloseFP, JoinFP, CloseOutput, StopStats, Collect
<1>4. \A l \in LBs : ~LBDrained(l) /\ ~LBCloseFP(l)
  BY DEF LBDrained, LBCloseFP
<1>5. \A f \in FPs : ~FPDecideForward(f) /\ ~FPExit(f)
  BY DEF FPDecideForward, FPExit
<1>6. ~Writer /\ ~Stats
  BY DEF Writer, Stats, WriterOpens, WriterOpenFails, WriterPop, WriterWrite, WriterThrows, WriterExit,
         StatsCheck, StatsPrint
<1> QED BY <1>1, <1>2, <1>3, <1>4, <1>5, <1>6 DEF Next, Main, LB, FP

(* The reader holds a packet only when it is about to push it. *)
HandFree == mainPc # "push" => mainHand = None

LEMMA HandFreeStep == HandFree /\ [Next]_vars => HandFree'
<1> SUFFICES ASSUME HandFree, [Next]_vars PROVE HandFree'
  OBVIOUS
<1> USE DEF HandFree, mainVars
<1>1. ASSUME Main PROVE HandFree'
  <2>1. ASSUME StartThreads \/ OpenInput \/ OpenInputFails \/ ReadThrows \/ ReadEOF \/ PushToLB PROVE HandFree'
    BY <2>1 DEF StartThreads, OpenInput, OpenInputFails, ReadThrows, ReadEOF, PushToLB
  <2>2. ASSUME ReadRecord PROVE HandFree'
    BY <2>2 DEF ReadRecord
  <2>3. ASSUME CloseLB \/ JoinLB \/ CloseFP \/ JoinFP \/ CloseOutput \/ StopStats \/ Collect PROVE HandFree'
    BY <2>3 DEF CloseLB, JoinLB, CloseFP, JoinFP, CloseOutput, StopStats, Collect
  <2> QED BY <1>1, <2>1, <2>2, <2>3 DEF Main
<1>2. ASSUME NEW l \in LBs, LB(l) PROVE HandFree'
  BY <1>2 DEF LB, LBPop, LBPush, LBDrained, LBCloseFP
<1>3. ASSUME NEW f \in FPs, FP(f) PROVE HandFree'
  BY <1>3 DEF FP, FPPop, FPDrop, FPDecideForward, FPForward, FPExit
<1>4. ASSUME Writer \/ Stats PROVE HandFree'
  BY <1>4 DEF Writer, Stats, WriterOpens, WriterOpenFails, WriterPop, WriterWrite, WriterThrows,
              WriterExit, StatsCheck, StatsPrint
<1>5. ASSUME UNCHANGED vars PROVE HandFree'
  BY <1>5 DEF vars
<1> QED BY <1>1, <1>2, <1>3, <1>4, <1>5 DEF Next

-----------------------------------------------------------------------------
(* Every fast path is given its share in order. *)

InOrder(l, f) == Increasing(Given(f) \o Coming(l))
InShare(l, f) == Range(Given(f)) \cup {i \in Range(Coming(l)) : FPOf(i) = f} = {i \in Read : FPOf(i) = f}

(* A packet's fast path belongs to its load balancer. *)
LEMMA RightRow ==
  ASSUME capture \in Captures, NEW i \in Read, NEW l \in LBs, NEW f \in FPsOf(l), FPOf(i) = f
  PROVE  LBOf(i) = l
<1>1. LBOf(i) \in LBs /\ FPAt(LBOf(i), i) \in FPsOf(LBOf(i))
  BY Routes
<1> QED BY <1>1, RowsApart DEF FPOf

LEMMA WayKept ==
  ASSUME EachFastPathSeesItsShareInOrder, Read' = Read, capture' = capture,
         \A l \in LBs : Coming(l)' = Coming(l),
         \A f \in FPs : Given(f)' = Given(f)
  PROVE  EachFastPathSeesItsShareInOrder'
<1>1. \A i : FPOf(i)' = FPOf(i)
  BY DEF FPOf, FPAt, LBOf
<1> QED BY <1>1, FPsOfInFPs DEF EachFastPathSeesItsShareInOrder

LEMMA ReadKeepsOrder ==
  ASSUME Typed, WayTyped, HandFree, EachFastPathSeesItsShareInOrder, ReadRecord
  PROVE  EachFastPathSeesItsShareInOrder'
<1>1. capture \in Captures /\ Len(capture) \in Nat /\ total \in Nat /\ total' = total + 1 /\ capture' = capture
  BY DPIEngineAssumption, LenProperties DEF Typed, ReaderTyped, ReadRecord
<1>2. \A f \in FPs : Given(f)' = Given(f)
  BY DEF ReadRecord, Given, fpVars
<1>3. CASE capture[total + 1] \notin Flows
  <2>1. Read' = Read BY <1>1, <1>3 DEF Read
  <2>2. \A l \in LBs : Coming(l)' = Coming(l) BY <1>3 DEF ReadRecord, Coming, lbVars
  <2> QED BY <1>1, <1>2, <2>1, <2>2, WayKept
<1>4. CASE capture[total + 1] \in Flows
  <2>1. Read' = Read \cup {total + 1} BY <1>1, <1>4 DEF Read
  <2>2. \A i \in Read : i < total + 1 BY <1>1 DEF Read
  <2>3. mainHand = None /\ mainHand' = total + 1 /\ total + 1 # None
    BY <1>1, <1>4 DEF ReadRecord, HandFree, None
  <2>4. ASSUME NEW l \in LBs
        PROVE  Coming(l)' = Append(Coming(l), total + 1)
    <3> DEFINE c == Hand(lbHand[l]) \o lbQueue[l]
    <3>1. c \in Seq(Read)
      <4>1. lbQueue[l] \in Seq(Read) /\ lbHand[l] \in Read \cup {None}
        BY DEF Typed, LBTyped
      <4>2. Hand(lbHand[l]) \in Seq(Read) BY <4>1, HandInSeq DEF WayTyped
      <4> QED BY <4>1, <4>2, ConcatProperties
    <3>2. c \in Seq(Nat)
      <4>1. Seq(Read) \subseteq Seq(Nat) BY SeqGrows DEF WayTyped
      <4> HIDE DEF c
      <4> QED BY <3>1, <4>1
    <3>3. Coming(l) = c \o <<>> /\ Coming(l)' = c \o <<total + 1>>
      BY <2>3 DEF Coming, Hand, ReadRecord, lbVars
    <3> HIDE DEF c
    <3>4. c \o <<>> = c BY <3>2, ConcatEmptySeq
    <3>5. Append(c, total + 1) = c \o <<total + 1>> BY <3>2, <1>1, AppendIsConcat
    <3> QED BY <3>3, <3>4, <3>5
  <2>5. \A i : FPOf(i)' = FPOf(i)
    BY <1>1 DEF FPOf, FPAt, LBOf
  <2>6. ASSUME NEW l \in LBs, NEW f \in FPsOf(l) PROVE InOrder(l, f)' /\ InShare(l, f)'
    <3> DEFINE g == Given(f)
               c == Coming(l)
    <3>1. f \in FPs BY FPsOfInFPs
    <3>2. /\ g \in Seq(Nat) /\ Range(g) \subseteq Read /\ c \in Seq(Nat) /\ Range(c) \subseteq Read
          /\ Increasing(g \o c)
          /\ Range(g) \cup {i \in Range(c) : FPOf(i) = f} = {i \in Read : FPOf(i) = f}
      BY <3>1 DEF WayTyped, EachFastPathSeesItsShareInOrder
    <3>3. Given(f)' = g /\ Coming(l)' = Append(c, total + 1)
      BY <1>2, <2>4, <3>1
    <3> HIDE DEF g, c
    <3>4. total + 1 \in Nat /\ \A i \in Range(g) \cup Range(c) : i < total + 1
      BY <1>1, <2>2, <3>2
    <3>6. Increasing(g \o Append(c, total + 1))
      BY <3>2, <3>4, NewComes
    <3>7. Range(Append(c, total + 1)) = Range(c) \cup {total + 1}
      BY <1>1, <3>2, RangeOfAppend
    <3>8. Range(g) \cup {i \in Range(Append(c, total + 1)) : FPOf(i) = f}
            = {i \in Read \cup {total + 1} : FPOf(i) = f}
      BY <3>2, <3>7
    <3> QED BY <2>1, <2>5, <3>3, <3>6, <3>8 DEF InOrder, InShare
  <2> QED BY <2>6 DEF InOrder, InShare, EachFastPathSeesItsShareInOrder
<1> QED BY <1>3, <1>4

LEMMA PushKeepsOrder ==
  ASSUME Typed, WayTyped, WayTyped', NoPushIntoClosed, EachFastPathSeesItsShareInOrder, PushToLB
  PROVE  EachFastPathSeesItsShareInOrder'
<1>1. capture \in Captures /\ Read' = Read /\ capture' = capture
  BY DEF Typed, ReaderTyped, PushToLB, Read
<1>2. \A f \in FPs : Given(f)' = Given(f)
  BY DEF PushToLB, Given, fpVars
<1>3. mainHand \in Read /\ mainHand' = None /\ mainHand # None /\ LBOf(mainHand) \in LBs
      /\ ~lbClosed[LBOf(mainHand)]
  BY <1>1, Routes DEF PushToLB, Typed, ReaderTyped, NoPushIntoClosed
<1>4. \A i : FPOf(i)' = FPOf(i)
  BY <1>1 DEF FPOf, FPAt, LBOf
<1>5. ASSUME NEW l \in LBs
      PROVE  IF l = LBOf(mainHand) THEN Coming(l)' = Coming(l) ELSE Coming(l) = Append(Coming(l)', mainHand)
  <2> DEFINE h == Hand(lbHand[l])
             q == lbQueue[l]
  <2>0. q \in Seq(Read) /\ lbHand[l] \in Read \cup {None} /\ lbHand' = lbHand
    BY DEF Typed, LBTyped, PushToLB
  <2>1. h \in Seq(Read) BY <2>0, HandInSeq DEF WayTyped
  <2>2. Coming(l) = (h \o q) \o <<mainHand>>
    BY <1>3 DEF Coming, Hand
  <2>3. lbQueue'[l] = IF l = LBOf(mainHand) THEN Append(q, mainHand) ELSE q
    BY <1>3 DEF PushToLB, Pushed, Typed, LBTyped
  <2>4. Coming(l)' = (h \o lbQueue'[l]) \o <<>>
    BY <1>3, <2>0 DEF Coming, Hand
  <2>5. h \o q \in Seq(Read) /\ h \o lbQueue'[l] \in Seq(Read) /\ lbQueue'[l] \in Seq(Read)
    BY <2>0, <2>1, <2>3, <1>3, ConcatProperties, AppendProperties
  <2>6. Coming(l)' = h \o lbQueue'[l] BY <2>4, <2>5, ConcatEmptySeq
  <2>7. q \in Seq(Read) BY <2>0
  <2> HIDE DEF h, q
  <2>8. Append(h \o q, mainHand) = (h \o q) \o <<mainHand>>
    BY <1>3, <2>5, AppendIsConcat
  <2>9. h \o Append(q, mainHand) = Append(h \o q, mainHand)
    BY <1>3, <2>1, <2>7, AppendLast
  <2> QED BY <2>2, <2>3, <2>6, <2>8, <2>9
<1>6. ASSUME NEW l \in LBs, NEW f \in FPsOf(l) PROVE InOrder(l, f)' /\ InShare(l, f)'
  <2>1. f \in FPs BY FPsOfInFPs
  <2>2. /\ Increasing(Given(f) \o Coming(l))
        /\ Range(Given(f)) \cup {i \in Range(Coming(l)) : FPOf(i) = f} = {i \in Read : FPOf(i) = f}
    BY <2>1 DEF EachFastPathSeesItsShareInOrder
  <2>3. CASE l = LBOf(mainHand)
    BY <1>1, <1>2, <1>4, <1>5, <2>1, <2>2, <2>3 DEF InOrder, InShare
  <2>4. CASE l # LBOf(mainHand)
    <3> DEFINE c == Coming(l)'
    <3>1. FPOf(mainHand) # f
      BY <1>1, <1>3, <2>4, RightRow
    <3>2. Coming(l) = Append(c, mainHand) /\ c \in Seq(Nat) /\ Given(f) \in Seq(Nat) /\ mainHand \in Nat
      BY <1>3, <1>5, <2>1, <2>4 DEF WayTyped
    <3> HIDE DEF c
    <3>3. Increasing(Given(f) \o c)
      BY <2>2, <3>2, LastLeaves
    <3>4. Range(Append(c, mainHand)) = Range(c) \cup {mainHand}
      BY <3>2, RangeOfAppend
    <3>5. {i \in Range(c) : FPOf(i) = f} = {i \in Range(Coming(l)) : FPOf(i) = f}
      BY <3>1, <3>2, <3>4
    <3> QED BY <1>1, <1>2, <1>4, <2>1, <2>2, <3>3, <3>5 DEF InOrder, InShare, c
  <2> QED BY <2>3, <2>4
<1> QED BY <1>6 DEF InOrder, InShare, EachFastPathSeesItsShareInOrder

LEMMA LBPopKeepsOrder ==
  ASSUME Typed, WayTyped, EachFastPathSeesItsShareInOrder, NEW l \in LBs, LBPop(l)
  PROVE  EachFastPathSeesItsShareInOrder'
<1>1. /\ capture' = capture /\ Read' = Read /\ mainHand' = mainHand
      /\ \A f \in FPs : Given(f)' = Given(f)
  BY DEF LBPop, Read, Given, mainVars, fpVars
<1>2. ASSUME NEW m \in LBs PROVE Hand(lbHand'[m]) \o lbQueue'[m] = Hand(lbHand[m]) \o lbQueue[m]
  <2>1. lbQueue[m] \in Seq(Read) /\ lbQueue[l] # <<>> /\ lbHand[l] = None
    BY DEF Typed, LBTyped, LBPop
  <2>2. CASE m = l
    <3> DEFINE q == lbQueue[l]
    <3>1. /\ lbHand'[m] = Head(q) /\ lbQueue'[m] = Tail(q)
      BY <2>2 DEF LBPop, Typed, LBTyped
    <3>2. q \in Seq(Read) /\ q # <<>> BY <2>1, <2>2
    <3>3. Hand(lbHand[m]) \o lbQueue[m] = <<>> \o q
      BY <2>1, <2>2 DEF Hand
    <3> HIDE DEF q
    <3>4. <<Head(q)>> \o Tail(q) = q /\ Head(q) \in Read
      BY <3>2, HeadFirst
    <3>5. Hand(Head(q)) = <<Head(q)>> BY <3>4 DEF Hand, WayTyped
    <3>6. <<>> \o q = q BY <3>2, ConcatEmptySeq
    <3> QED BY <3>1, <3>3, <3>4, <3>5, <3>6
  <2>3. CASE m # l
    BY <2>3 DEF LBPop, Typed, LBTyped
  <2> QED BY <2>2, <2>3
<1> QED BY <1>1, <1>2, WayKept DEF Coming

(* What a load balancer holds, its hash has sent there. *)
Routed ==
  \A l \in LBs : /\ lbHand[l] # None => LBOf(lbHand[l]) = l
                 /\ \A i \in Range(lbQueue[l]) : LBOf(i) = l

LEMMA RoutedStep == Typed /\ Routed /\ [Next]_vars => Routed'
<1> SUFFICES ASSUME Typed, Routed, [Next]_vars PROVE Routed'
  OBVIOUS
<1>0. ASSUME capture' = capture, lbHand' = lbHand, lbQueue' = lbQueue PROVE Routed'
  BY <1>0 DEF Routed, LBOf
<1>1. CASE ReadRecord
  BY <1>0, <1>1 DEF ReadRecord, lbVars
<1>2. CASE PushToLB
  <2>1. /\ mainHand \in Read /\ capture \in Captures /\ capture' = capture /\ lbHand' = lbHand
        /\ lbQueue \in [LBs -> Seq(Read)]
    BY <1>2 DEF PushToLB, Typed, ReaderTyped, LBTyped
  <2>2. ASSUME NEW l \in LBs, NEW i \in Range(lbQueue'[l]) PROVE LBOf(i) = l
    <3>1. lbQueue'[l] = lbQueue[l] \/ (l = LBOf(mainHand) /\ lbQueue'[l] = Append(lbQueue[l], mainHand))
      BY <1>2, <2>1 DEF PushToLB, Pushed
    <3>2. Range(Append(lbQueue[l], mainHand)) = Range(lbQueue[l]) \cup {mainHand}
      BY <2>1, RangeOfAppend
    <3> QED BY <2>2, <3>1, <3>2 DEF Routed
  <2> QED BY <2>1, <2>2 DEF Routed, LBOf
<1>3. ASSUME NEW l \in LBs, LBPop(l) PROVE Routed'
  <2> DEFINE q == lbQueue[l]
  <2>1. /\ capture' = capture /\ q \in Seq(Read) /\ q # <<>>
        /\ lbHand' = [lbHand EXCEPT ![l] = Head(q)] /\ lbQueue' = [lbQueue EXCEPT ![l] = Tail(q)]
        /\ lbQueue \in [LBs -> Seq(Read)] /\ lbHand \in [LBs -> Read \cup {None}]
    BY <1>3 DEF LBPop, mainVars, Typed, LBTyped
  <2>2. \A i \in Range(q) : LBOf(i) = l BY DEF Routed
  <2> HIDE DEF q
  <2>a. Head(q) \in Read /\ Tail(q) \in Seq(Read) BY <2>1, HeadTailProperties
  <2>b. <<Head(q)>> \in Seq(Read) BY <2>a
  <2>3. <<Head(q)>> \o Tail(q) = q /\ <<Head(q)>> \in Seq(Read) /\ Tail(q) \in Seq(Read)
    BY <2>1, <2>a, <2>b, HeadFirst
  <2>4. Range(<<Head(q)>> \o Tail(q)) = Range(<<Head(q)>>) \cup Range(Tail(q))
    BY <2>a, <2>b, RangeConcatenation, ZenonT(20)
  <2>5. Head(q) \in Range(q) /\ Range(Tail(q)) \subseteq Range(q)
    <3>1. Range(<<Head(q)>>) = {Head(q)} BY IncreasingOne
    <3>2. Range(q) = Range(<<Head(q)>>) \cup Range(Tail(q)) BY <2>3, <2>4
    <3> QED BY <3>1, <3>2
  <2>6. LBOf(Head(q)) = l /\ \A i \in Range(Tail(q)) : LBOf(i) = l BY <2>2, <2>5
  <2>7. \A i : LBOf(i)' = LBOf(i) BY <2>1 DEF LBOf
  <2>8. ASSUME NEW m \in LBs
        PROVE  /\ lbHand'[m] # None => LBOf(lbHand'[m]) = m
               /\ \A i \in Range(lbQueue'[m]) : LBOf(i) = m
    <3>1. CASE m = l
      <4>1. lbHand'[m] = Head(q) /\ lbQueue'[m] = Tail(q) BY <2>1, <3>1
      <4> QED BY <2>6, <3>1, <4>1
    <3>2. CASE m # l
      <4>1. lbHand'[m] = lbHand[m] /\ lbQueue'[m] = lbQueue[m] BY <2>1, <3>2
      <4> QED BY <4>1 DEF Routed
    <3> QED BY <3>1, <3>2
  <2> QED BY <2>7, <2>8 DEF Routed
<1>4. ASSUME NEW l \in LBs, LBPush(l) PROVE Routed'
  BY <1>4 DEF LBPush, Routed, LBOf, mainVars, Typed, LBTyped
<1>5. ASSUME NEW f \in FPs, FPPop(f) \/ FPDrop(f) \/ FPForward(f) PROVE Routed'
  BY <1>0, <1>5 DEF FPPop, FPDrop, FPForward, mainVars, lbVars
<1>6. CASE UNCHANGED Way
  BY <1>0, <1>6 DEF Way
<1> QED BY <1>1, <1>2, <1>3, <1>4, <1>5, <1>6, WaySteps

LEMMA LBPushKeepsOrder ==
  ASSUME Typed, WayTyped, WayTyped', NoPushIntoClosed, Routed, EachFastPathSeesItsShareInOrder,
         NEW l \in LBs, LBPush(l)
  PROVE  EachFastPathSeesItsShareInOrder'
<1> SUFFICES ASSUME NEW x, x = lbHand[l], NEW t, t = FPAt(l, x)
             PROVE  EachFastPathSeesItsShareInOrder'
  OBVIOUS
<1>1. /\ capture \in Captures /\ capture' = capture /\ Read' = Read /\ mainHand' = mainHand
      /\ lbQueue' = lbQueue
  BY DEF Typed, ReaderTyped, LBPush, Read, mainVars
<1>2. /\ x \in Read /\ x # None /\ t \in FPsOf(l) /\ t \in FPs /\ ~fpClosed[t] /\ FPOf(x) = t
  BY <1>1, Routes, FPsOfInFPs DEF LBPush, Typed, LBTyped, NoPushIntoClosed, Routed, FPOf
<1>3. lbHand' = [lbHand EXCEPT ![l] = None] /\ lbHand \in [LBs -> Read \cup {None}]
  BY DEF LBPush, Typed, LBTyped
<1>4. handled' = handled /\ fpHand' = fpHand /\ fpQueue' = [fpQueue EXCEPT ![t] = Append(@, x)]
  BY <1>2 DEF LBPush, Pushed
<1>5. \A i : FPOf(i)' = FPOf(i)
  BY <1>1 DEF FPOf, FPAt, LBOf
<1>6. Coming(l) = <<x>> \o Coming(l)' /\ \A m \in LBs : m # l => Coming(m)' = Coming(m)
  <2>1. lbQueue[l] \in Seq(Read) /\ Hand(mainHand) \in Seq(Read) /\ <<x>> \in Seq(Read)
    BY <1>2, HandInSeq DEF Typed, LBTyped, ReaderTyped, WayTyped
  <2>2. (<<x>> \o lbQueue[l]) \o Hand(mainHand) = <<x>> \o (lbQueue[l] \o Hand(mainHand))
    <3> DEFINE q == lbQueue[l]
               h == Hand(mainHand)
    <3>1. q \in Seq(Read) /\ h \in Seq(Read) /\ <<x>> \in Seq(Read) BY <2>1
    <3> HIDE DEF q, h
    <3>2. (<<x>> \o q) \o h = <<x>> \o (q \o h) BY <3>1, ConcatAssociative
    <3> QED BY <3>2 DEF q, h
  <2>3. Coming(l)' = (<<>> \o lbQueue[l]) \o Hand(mainHand)
    BY <1>1, <1>3 DEF Coming, Hand
  <2>4. <<>> \o lbQueue[l] = lbQueue[l]
    BY <2>1, ConcatEmptySeq
  <2>5. Coming(l) = (<<x>> \o lbQueue[l]) \o Hand(mainHand)
    BY <1>2 DEF Coming, Hand
  <2>6. \A m \in LBs : m # l => Coming(m)' = Coming(m)
    BY <1>1, <1>3 DEF Coming
  <2> QED BY <2>2, <2>3, <2>4, <2>5, <2>6
<1>7. ASSUME NEW f \in FPs PROVE Given(f)' = IF f = t THEN Append(Given(f), x) ELSE Given(f)
  <2> DEFINE h == handled[f] \o Hand(fpHand[f])
             q == fpQueue[f]
  <2>1. handled[f] \in Seq(Read) /\ Hand(fpHand[f]) \in Seq(Read) /\ q \in Seq(Read)
    BY HandInSeq DEF Typed, TalliesTyped, FPTyped, WayTyped
  <2>2. h \in Seq(Read) BY <2>1, ConcatProperties
  <2>3. Given(f) = h \o q BY DEF Given
  <2>4. Given(f)' = h \o (IF f = t THEN Append(q, x) ELSE q)
    BY <1>4 DEF Given, Typed, FPTyped
  <2> HIDE DEF h, q
  <2>5. h \o Append(q, x) = Append(h \o q, x)
    BY <1>2, <2>1, <2>2, AppendLast
  <2> QED BY <2>3, <2>4, <2>5
<1>8. ASSUME NEW m \in LBs, NEW f \in FPsOf(m) PROVE InOrder(m, f)' /\ InShare(m, f)'
  <2> DEFINE c == Coming(m)'
             g == Given(f)
  <2>1. f \in FPs /\ (f = t => m = l)
    BY <1>2, FPsOfInFPs, RowsApart
  <2>2. /\ Increasing(g \o Coming(m))
        /\ Range(g) \cup {i \in Range(Coming(m)) : FPOf(i) = f} = {i \in Read : FPOf(i) = f}
    BY <2>1 DEF EachFastPathSeesItsShareInOrder
  <2>3. g \in Seq(Nat) /\ c \in Seq(Nat) /\ x \in Nat
    BY <1>2, <2>1 DEF WayTyped
  <2>4. CASE m # l
    BY <1>1, <1>5, <1>6, <1>7, <2>1, <2>2, <2>4 DEF InOrder, InShare
  <2>5. CASE m = l
    <3>1. Coming(m) = <<x>> \o c BY <1>6, <2>5
    <3>2. Given(f)' = IF f = t THEN Append(g, x) ELSE g BY <1>7, <2>1
    <3> HIDE DEF c, g
    <3>3. Range(<<x>> \o c) = {x} \cup Range(c)
      BY <2>3, RangeOfCons
    <3>4. Increasing(g \o (<<x>> \o c)) BY <2>2, <3>1
    <3>5. CASE f = t
      <4>1. Append(g, x) \o c = g \o (<<x>> \o c) BY <2>3, FirstMoves
      <4>2. Range(Append(g, x)) = Range(g) \cup {x} BY <2>3, RangeOfAppend
      <4>3. Range(Append(g, x)) \cup {i \in Range(c) : FPOf(i) = f} = {i \in Read : FPOf(i) = f}
        BY <1>2, <2>2, <3>1, <3>3, <3>5, <4>2
      <4> QED BY <1>1, <1>5, <3>2, <3>4, <3>5, <4>1, <4>3 DEF InOrder, InShare, c
    <3>6. CASE f # t
      <4>1. Increasing(g \o c) BY <2>3, <3>4, FirstLeaves
      <4>2. Range(g) \cup {i \in Range(c) : FPOf(i) = f} = {i \in Read : FPOf(i) = f}
        BY <1>2, <2>2, <3>1, <3>3, <3>6
      <4> QED BY <1>1, <1>5, <3>2, <3>6, <4>1, <4>2 DEF InOrder, InShare, c
    <3> QED BY <3>5, <3>6
  <2> QED BY <2>4, <2>5
<1> QED BY <1>8 DEF InOrder, InShare, EachFastPathSeesItsShareInOrder

LEMMA FPKeepsOrder ==
  ASSUME Typed, WayTyped, EachFastPathSeesItsShareInOrder,
         NEW f \in FPs, FPPop(f) \/ FPDrop(f) \/ FPForward(f)
  PROVE  EachFastPathSeesItsShareInOrder'
<1>1. /\ capture' = capture /\ Read' = Read /\ \A l \in LBs : Coming(l)' = Coming(l)
      /\ handled \in [FPs -> Seq(Read)] /\ fpQueue \in [FPs -> Seq(Read)]
      /\ fpHand \in [FPs -> Read \cup {None}]
  BY DEF FPPop, FPDrop, FPForward, Read, Coming, mainVars, lbVars, Typed, TalliesTyped, FPTyped
<1>2. handled[f] \in Seq(Read) /\ fpQueue[f] \in Seq(Read) /\ Hand(fpHand[f]) \in Seq(Read)
  BY <1>1, HandInSeq DEF WayTyped
<1>3. ASSUME NEW g \in FPs, g # f PROVE Given(g)' = Given(g)
  BY <1>1, <1>3 DEF Given, FPPop, FPDrop, FPForward
<1>4. CASE FPPop(f)
  <2> DEFINE q == fpQueue[f]
             h == handled[f]
  <2>1. q # <<>> /\ fpHand[f] = None /\ fpHand'[f] = Head(q) /\ fpQueue'[f] = Tail(q) /\ handled' = handled
    BY <1>1, <1>4 DEF FPPop
  <2>2. Given(f) = (h \o <<>>) \o q
    BY <2>1 DEF Given, Hand
  <2>3. Given(f)' = (h \o Hand(Head(q))) \o Tail(q)
    BY <2>1 DEF Given
  <2>4. h \in Seq(Read) /\ q \in Seq(Read) BY <1>2
  <2> HIDE DEF q, h
  <2>5. <<Head(q)>> \o Tail(q) = q /\ Head(q) \in Read /\ Tail(q) \in Seq(Read)
    BY <2>1, <2>4, HeadFirst DEF q
  <2>6. Hand(Head(q)) = <<Head(q)>> /\ <<Head(q)>> \in Seq(Read)
    BY <2>5 DEF Hand, WayTyped
  <2>7. (h \o <<Head(q)>>) \o Tail(q) = h \o (<<Head(q)>> \o Tail(q))
    BY <2>4, <2>5, <2>6, ConcatAssociative
  <2>8. h \o <<>> = h BY <2>4, ConcatEmptySeq
  <2>9. Given(f)' = Given(f) BY <2>2, <2>3, <2>5, <2>6, <2>7, <2>8
  <2> QED BY <1>1, <1>3, <2>9, WayKept
<1>5. CASE FPDrop(f) \/ FPForward(f)
  <2> DEFINE x == fpHand[f]
             h == handled[f]
  <2>1. /\ x # None /\ fpHand'[f] = None /\ handled'[f] = Append(h, x) /\ fpQueue' = fpQueue
    BY <1>1, <1>5 DEF FPDrop, FPForward, Typed, FPTyped
  <2>2. Given(f) = (h \o <<x>>) \o fpQueue[f]
    BY <2>1 DEF Given, Hand
  <2>3. Given(f)' = (Append(h, x) \o <<>>) \o fpQueue[f]
    BY <2>1 DEF Given, Hand
  <2>4. h \in Seq(Read) /\ x \in Read BY <1>1, <2>1
  <2> HIDE DEF x, h
  <2>5. Append(h, x) = h \o <<x>> /\ Append(h, x) \in Seq(Read)
    BY <2>4, AppendIsConcat, AppendProperties
  <2>6. Append(h, x) \o <<>> = Append(h, x) BY <2>5, ConcatEmptySeq
  <2>7. Given(f)' = Given(f) BY <2>2, <2>3, <2>5, <2>6
  <2> QED BY <1>1, <1>3, <2>7, WayKept
<1> QED BY <1>4, <1>5

LEMMA OrderInitially == Init => EachFastPathSeesItsShareInOrder /\ Routed /\ HandFree
<1> SUFFICES ASSUME Init PROVE EachFastPathSeesItsShareInOrder /\ Routed /\ HandFree
  OBVIOUS
<1>1. HandFree /\ total = 0
  BY DEF Init, HandFree
<1>2. Routed
  BY DEF Init, Routed, Range
<1>3. Read = {}
  BY <1>1 DEF Read
<1>4. \A f \in FPs : Given(f) = <<>>
  BY DEF Init, Given, Hand
<1>5. \A l \in LBs : Coming(l) = <<>>
  BY DEF Init, Coming, Hand
<1>6. Increasing(<<>> \o <<>>) /\ Range(<<>>) = {}
  BY DEF Increasing, Range
<1> QED BY <1>1, <1>2, <1>3, <1>4, <1>5, <1>6, FPsOfInFPs DEF EachFastPathSeesItsShareInOrder

OrderInv == Typed /\ ShutdownInOrder /\ HandFree /\ Routed /\ EachFastPathSeesItsShareInOrder

LEMMA OrderStep == OrderInv /\ WayTyped /\ WayTyped' /\ NoPushIntoClosed /\ [Next]_vars
                     => EachFastPathSeesItsShareInOrder'
<1> SUFFICES ASSUME OrderInv, WayTyped, WayTyped', NoPushIntoClosed, [Next]_vars
             PROVE  EachFastPathSeesItsShareInOrder'
  OBVIOUS
<1> USE DEF OrderInv
<1>1. CASE ReadRecord BY <1>1, ReadKeepsOrder
<1>2. CASE PushToLB BY <1>2, PushKeepsOrder
<1>3. ASSUME NEW l \in LBs, LBPop(l) \/ LBPush(l) PROVE EachFastPathSeesItsShareInOrder'
  BY <1>3, LBPopKeepsOrder, LBPushKeepsOrder
<1>4. ASSUME NEW f \in FPs, FPPop(f) \/ FPDrop(f) \/ FPForward(f) PROVE EachFastPathSeesItsShareInOrder'
  BY <1>4, FPKeepsOrder
<1>5. CASE UNCHANGED Way
  BY <1>5, WayKept DEF Way, Read, Coming, Given
<1> QED BY <1>1, <1>2, <1>3, <1>4, <1>5, WaySteps

LEMMA OrderInvariant == Spec => []OrderInv
<1>1. Init => OrderInv
  BY TypedInit, Initially, OrderInitially DEF OrderInv
<1>2. OrderInv /\ [Next]_vars => OrderInv'
  <2>1. Typed => WayTyped BY TypedWay
  <2>2. Typed' => WayTyped' BY TypedWay, PTL
  <2> QED BY <2>1, <2>2, TypedStep, ShutdownStep, HandFreeStep, RoutedStep, OrderStep, PushesAreSafe DEF OrderInv
<1> QED BY <1>1, <1>2, PTL DEF Spec

(* A fast path is given its share of the packets, all of them, once each   *)
(* and in the order of the capture, wherever in the pipeline they are.     *)
THEOREM SharesInOrder == Spec => []EachFastPathSeesItsShareInOrder
<1>1. OrderInv => EachFastPathSeesItsShareInOrder BY DEF OrderInv
<1> QED BY <1>1, OrderInvariant, PTL

-----------------------------------------------------------------------------
(* What is forwarded is what is written. *)

LEMMA RowOf == \A f \in FPs : \E l \in LBs : f \in FPsOf(l)
<1> SUFFICES ASSUME NEW f \in FPs PROVE \E l \in LBs : f \in FPsOf(l)
  OBVIOUS
<1>1. /\ NumFPsPerLB \in Nat /\ NumFPsPerLB > 0 /\ NumLBs \in Nat /\ f \in Nat
      /\ f < NumLBs * NumFPsPerLB
  BY DPIEngineAssumption DEF FPs
<1> DEFINE q == f \div NumFPsPerLB
           r == f % NumFPsPerLB
<1>2. q \in Int /\ r \in 0..NumFPsPerLB - 1 /\ f = q * NumFPsPerLB + r
  BY <1>1
<1> HIDE DEF q, r
<1>3. q >= 0
  <2>1. SUFFICES ASSUME q <= -1 PROVE FALSE BY <1>2
  <2>2. q * NumFPsPerLB <= (-1) * NumFPsPerLB BY <1>1, <1>2, <2>1
  <2> QED BY <1>1, <1>2, <2>2
<1>4. q < NumLBs
  <2>1. SUFFICES ASSUME q >= NumLBs PROVE FALSE BY <1>1, <1>2
  <2>2. q * NumFPsPerLB >= NumLBs * NumFPsPerLB BY <1>1, <1>2, <2>1
  <2>3. NumLBs * NumFPsPerLB \in Nat /\ q * NumFPsPerLB \in Int BY <1>1, <1>2
  <2> QED BY <1>1, <1>2, <2>2, <2>3
<1>5. q \in LBs /\ f \in FPsOf(q)
  BY <1>1, <1>2, <1>3, <1>4 DEF LBs, FPsOf
<1> QED BY <1>5

OutWay == <<capture, written, writerHand, outQueue, handled, discarded, forwarded, dropped>>

LEMMA OutputTyped ==
  Typed /\ WayTyped => Output \in Seq(Read) /\ Output \in Seq(Nat) /\ \A f \in FPs : Range(handled[f]) \subseteq Read
<1> SUFFICES ASSUME Typed, WayTyped
             PROVE  Output \in Seq(Read) /\ Output \in Seq(Nat) /\ \A f \in FPs : Range(handled[f]) \subseteq Read
  OBVIOUS
<1>1. written \in Seq(Read) /\ outQueue \in Seq(Read) /\ Hand(writerHand) \in Seq(Read)
  BY HandInSeq DEF Typed, OutTyped, WayTyped
<1>2. written \o Hand(writerHand) \in Seq(Read) BY <1>1, ConcatProperties
<1>3. Output \in Seq(Read) BY <1>1, <1>2, ConcatProperties DEF Output
<1>4. Seq(Read) \subseteq Seq(Nat) BY SeqGrows DEF WayTyped
<1>5. \A f \in FPs : handled[f] \in Seq(Read) BY DEF Typed, TalliesTyped
<1> QED BY <1>3, <1>4, <1>5, RangeOfSeq

(* A fast path has decided only packets of its share, and older ones than  *)
(* the one it holds.                                                       *)
LEMMA HandIsNew ==
  ASSUME Typed, WayTyped, EachFastPathSeesItsShareInOrder
  PROVE  /\ \A g \in FPs : \A y \in Range(handled[g]) : FPOf(y) = g
         /\ \A f \in FPs : fpHand[f] # None =>
              FPOf(fpHand[f]) = f /\ \A y \in Range(handled[f]) : y < fpHand[f]
<1>1. ASSUME NEW f \in FPs
      PROVE  /\ \A y \in Range(handled[f]) : FPOf(y) = f
             /\ fpHand[f] # None => FPOf(fpHand[f]) = f /\ \A y \in Range(handled[f]) : y < fpHand[f]
  <2> DEFINE h == handled[f]
             o == Hand(fpHand[f])
             q == fpQueue[f]
  <2>1. PICK l \in LBs : f \in FPsOf(l) BY RowOf
  <2>2. /\ Increasing(Given(f) \o Coming(l)) /\ \A y \in Range(Given(f)) : FPOf(y) = f
        /\ Given(f) \in Seq(Nat) /\ Coming(l) \in Seq(Nat)
    BY <2>1 DEF EachFastPathSeesItsShareInOrder, WayTyped
  <2>3. Increasing(Given(f)) BY <2>2, IncreasingConcat
  <2>4. /\ h \in Seq(Nat) /\ o \in Seq(Nat) /\ q \in Seq(Nat)
    <3>1. h \in Seq(Read) /\ q \in Seq(Read) /\ o \in Seq(Read)
      BY HandInSeq DEF Typed, TalliesTyped, FPTyped, WayTyped
    <3>2. Seq(Read) \subseteq Seq(Nat) BY SeqGrows DEF WayTyped
    <3> HIDE DEF h, o, q
    <3> QED BY <3>1, <3>2
  <2>5. Given(f) = (h \o o) \o q BY DEF Given
  <2>6. fpHand[f] # None => Range(o) = {fpHand[f]}
    BY IncreasingOne DEF Hand
  <2> HIDE DEF h, o, q
  <2>7. h \o o \in Seq(Nat) BY <2>4, ConcatProperties
  <2>8. Increasing(h \o o)
    <3> DEFINE p == h \o o
    <3>1. p \in Seq(Nat) /\ Increasing(p \o q) BY <2>3, <2>5, <2>7
    <3> HIDE DEF p
    <3> QED BY <2>4, <3>1, IncreasingConcat DEF p
  <2>9. \A x \in Range(h), y \in Range(o) : x < y BY <2>4, <2>8, IncreasingConcat
  <2>10. Range(h \o o) = Range(h) \cup Range(o) BY <2>4, RangeConcatenation
  <2>11. Range(Given(f)) = Range(h \o o) \cup Range(q)
    <3> DEFINE p == h \o o
    <3>1. p \in Seq(Nat) /\ Given(f) = p \o q BY <2>5, <2>7
    <3> HIDE DEF p
    <3>2. Range(Given(f)) = Range(p) \cup Range(q) BY <2>4, <3>1, RangeConcatenation
    <3> QED BY <3>2 DEF p
  <2> QED BY <2>2, <2>6, <2>9, <2>10, <2>11 DEF h
<1> QED BY <1>1

DroppedWereHandled == discarded \subseteq Decided

OutSteps == \/ \E f \in FPs : FPDrop(f) \/ FPForward(f)
            \/ WriterPop \/ WriterWrite

LEMMA OutWaySteps == [Next]_vars => OutSteps \/ UNCHANGED OutWay
<1> SUFFICES ASSUME [Next]_vars, ~UNCHANGED OutWay PROVE OutSteps
  OBVIOUS
<1> USE DEF OutWay, OutSteps, mainVars, lbVars, fpVars, outVars, writerVars
<1>1. ~UNCHANGED vars
  BY DEF vars
<1>2. ~(StartThreads \/ OpenInput \/ OpenInputFails \/ ReadThrows \/ ReadEOF \/ ReadRecord \/ PushToLB)
  BY DEF StartThreads, OpenInput, OpenInputFails, ReadThrows, ReadEOF, ReadRecord, PushToLB
<1>3. ~(CloseLB \/ JoinLB \/ CloseFP \/ JoinFP \/ CloseOutput \/ StopStats \/ Collect)
  BY DEF CloseLB, JoinLB, CloseFP, JoinFP, CloseOutput, StopStats, Collect
<1>4. \A l \in LBs : ~LB(l)
  BY DEF LB, LBPop, LBPush, LBDrained, LBCloseFP
<1>5. \A f \in FPs : ~FPPop(f) /\ ~FPDecideForward(f) /\ ~FPExit(f)
  BY DEF FPPop, FPDecideForward, FPExit
<1>6. ~(WriterOpens \/ WriterOpenFails \/ WriterThrows \/ WriterExit \/ Stats)
  BY DEF Stats, WriterOpens, WriterOpenFails, WriterThrows, WriterExit, StatsCheck, StatsPrint
<1> QED BY <1>1, <1>2, <1>3, <1>4, <1>5, <1>6 DEF Next, Main, FP, Writer

(* The order reads the capture and the sequence alone. *)
LEMMA OrderKept ==
  ASSUME capture' = capture, EachInOrder(Output), Output' = Output
  PROVE  EachInOrder(Output)'
<1>1. \A i : FPOf(i)' = FPOf(i) BY DEF FPOf, FPAt, LBOf
<1>2. \A j, k \in DOMAIN Output : j < k /\ FPOf(Output[j])' = FPOf(Output[k])' => Output[j] < Output[k]
  BY <1>1 DEF EachInOrder
<1> QED BY <1>2 DEF EachInOrder

LEMMA OrderGrows ==
  ASSUME capture' = capture, EachInOrder(Output), Output \in Seq(Nat),
         NEW x \in Nat, Output' = Append(Output, x),
         \A y \in Range(Output) : FPOf(y) = FPOf(x) => y < x
  PROVE  EachInOrder(Output)'
<1> SUFFICES ASSUME NEW o, o = Output, NEW p, p = Output' PROVE EachInOrder(Output)'
  OBVIOUS
<1> DEFINE n == Len(o)
<1>1. /\ n \in Nat /\ DOMAIN o = 1..n /\ DOMAIN p = 1..n + 1 /\ p[n + 1] = x
      /\ \A j \in 1..n : p[j] = o[j] /\ o[j] \in Range(o)
  BY AppendProperties, LenProperties DEF Range
<1>2. \A j, k \in DOMAIN o : j < k /\ FPOf(o[j]) = FPOf(o[k]) => o[j] < o[k]
  BY DEF EachInOrder
<1>3. \A y \in Range(o) : FPOf(y) = FPOf(x) => y < x
  OBVIOUS
<1> HIDE DEF n
<1>4. ASSUME NEW j \in DOMAIN p, NEW k \in DOMAIN p, j < k, FPOf(p[j]) = FPOf(p[k])
      PROVE  p[j] < p[k]
  <2>1. j \in 1..n BY <1>1, <1>4
  <2>2. CASE k = n + 1 BY <1>1, <1>3, <1>4, <2>1, <2>2
  <2>3. CASE k # n + 1 BY <1>1, <1>2, <1>4, <2>1, <2>3
  <2> QED BY <2>2, <2>3
<1>5. \A i : FPOf(i)' = FPOf(i) BY DEF FPOf, FPAt, LBOf
<1>6. \A j, k \in DOMAIN p : j < k /\ FPOf(p[j])' = FPOf(p[k])' => p[j] < p[k]
  BY <1>4, <1>5
<1> QED BY <1>6 DEF EachInOrder

(* A step that neither decides a packet nor changes the line to the file. *)
LEMMA OutputKept ==
  ASSUME OutputIsWhatWasForwarded, DroppedWereHandled, capture' = capture, Output' = Output,
         handled' = handled, discarded' = discarded, forwarded' = forwarded, dropped' = dropped
  PROVE  OutputIsWhatWasForwarded' /\ DroppedWereHandled'
<1>1. Decided' = Decided BY DEF Decided
<1>2. DroppedWereHandled' BY <1>1 DEF DroppedWereHandled
<1>3. EachInOrder(Output)' BY OrderKept DEF OutputIsWhatWasForwarded
<1> QED BY <1>1, <1>2, <1>3 DEF OutputIsWhatWasForwarded

LEMMA WriterKeepsOutput ==
  ASSUME Typed, WayTyped, WriterPop \/ WriterWrite
  PROVE  Output' = Output
<1> DEFINE q == outQueue
           w == written
<1>1. q \in Seq(Read) /\ w \in Seq(Read)
  BY DEF Typed, OutTyped
<1>2. CASE WriterPop
  <2>1. q # <<>> /\ writerHand = None /\ writerHand' = Head(q) /\ outQueue' = Tail(q) /\ written' = w
    BY <1>2 DEF WriterPop
  <2>2. Output = (w \o <<>>) \o q BY <2>1 DEF Output, Hand
  <2>3. Output' = (w \o Hand(Head(q))) \o Tail(q) BY <2>1 DEF Output
  <2> HIDE DEF q, w
  <2>4. <<Head(q)>> \o Tail(q) = q /\ Head(q) \in Read /\ Tail(q) \in Seq(Read)
    BY <1>1, <2>1, HeadFirst
  <2>5. Hand(Head(q)) = <<Head(q)>> /\ <<Head(q)>> \in Seq(Read)
    BY <2>4 DEF Hand, WayTyped
  <2>6. (w \o <<Head(q)>>) \o Tail(q) = w \o (<<Head(q)>> \o Tail(q))
    BY <1>1, <2>4, <2>5, ConcatAssociative
  <2>7. w \o <<>> = w BY <1>1, ConcatEmptySeq
  <2> QED BY <2>2, <2>3, <2>4, <2>5, <2>6, <2>7
<1>3. CASE WriterWrite
  <2> DEFINE x == writerHand
  <2>1. x # None /\ x \in Read /\ writerHand' = None /\ written' = Append(w, x) /\ outQueue' = q
    BY <1>3 DEF WriterWrite, Typed, OutTyped, outVars
  <2>2. Output = (w \o <<x>>) \o q BY <2>1 DEF Output, Hand
  <2>3. Output' = (Append(w, x) \o <<>>) \o q BY <2>1 DEF Output, Hand
  <2> HIDE DEF q, w, x
  <2>4. Append(w, x) = w \o <<x>> /\ Append(w, x) \in Seq(Read)
    BY <1>1, <2>1, AppendIsConcat, AppendProperties
  <2>5. Append(w, x) \o <<>> = Append(w, x) BY <2>4, ConcatEmptySeq
  <2> QED BY <2>2, <2>3, <2>4, <2>5
<1> QED BY <1>2, <1>3

(* What both outcomes of a decision have in common. *)
LEMMA DecisionIsNew ==
  ASSUME Typed, WayTyped, EachFastPathSeesItsShareInOrder, OutputIsWhatWasForwarded,
         NEW f \in FPs, NEW x, x = fpHand[f], x # None,
         handled' = [handled EXCEPT ![f] = Append(@, x)]
  PROVE  /\ x \in Read /\ x \notin Decided /\ Decided' = Decided \cup {x}
         /\ Len(handled'[f]) = Len(handled[f]) + 1
         /\ FPOf(x) = f
         /\ \A y \in Range(Output) : FPOf(y) = f => y < x
<1>1. x \in Read /\ handled \in [FPs -> Seq(Read)] /\ \A y \in Read : y \in Nat
  BY DEF Typed, TalliesTyped, FPTyped, WayTyped
<1>2. Range(Append(handled[f], x)) = Range(handled[f]) \cup {x}
  BY <1>1, RangeOfAppend
<1>3. /\ \A g \in FPs : \A y \in Range(handled[g]) : FPOf(y) = g
      /\ FPOf(x) = f /\ \A y \in Range(handled[f]) : y < x
  BY HandIsNew
<1>4. x \notin Decided
  <2>1. ASSUME NEW g \in FPs, x \in Range(handled[g]) PROVE FALSE
    <3>1. g = f BY <1>3, <2>1
    <3>2. x < x BY <1>3, <2>1, <3>1
    <3> QED BY <1>1, <3>2
  <2> QED BY <2>1 DEF Decided
<1>5. Decided' = Decided \cup {x}
  <2>1. \A g \in FPs : Range(handled'[g]) = IF g = f THEN Range(handled[f]) \cup {x} ELSE Range(handled[g])
    BY <1>1, <1>2
  <2> QED BY <2>1 DEF Decided
<1>6. Len(handled'[f]) = Len(handled[f]) + 1
  BY <1>1, AppendProperties
<1>7. ASSUME NEW y \in Range(Output), FPOf(y) = f PROVE y < x
  <2>1. PICK g \in FPs : y \in Range(handled[g])
    BY <1>7 DEF OutputIsWhatWasForwarded, Decided
  <2> QED BY <1>3, <1>7, <2>1
<1> QED BY <1>1, <1>3, <1>4, <1>5, <1>6, <1>7

LEMMA DropKeepsOutput ==
  ASSUME Typed, WayTyped, EachFastPathSeesItsShareInOrder, OutputIsWhatWasForwarded, DroppedWereHandled,
         NEW f \in FPs, FPDrop(f)
  PROVE  OutputIsWhatWasForwarded' /\ DroppedWereHandled'
<1> SUFFICES ASSUME NEW x, x = fpHand[f] PROVE OutputIsWhatWasForwarded' /\ DroppedWereHandled'
  OBVIOUS
<1>1. /\ x # None /\ handled' = [handled EXCEPT ![f] = Append(@, x)] /\ discarded' = discarded \cup {x}
      /\ dropped' = [dropped EXCEPT ![f] = @ + 1] /\ forwarded' = forwarded
      /\ capture' = capture /\ Output' = Output
  BY DEF FPDrop, mainVars, outVars, writerVars, Output
<1>2. /\ x \notin Decided /\ Decided' = Decided \cup {x} /\ Len(handled'[f]) = Len(handled[f]) + 1
  BY <1>1, DecisionIsNew
<1>3. DroppedWereHandled' BY <1>1, <1>2 DEF DroppedWereHandled
<1>4. Range(Output)' = Decided' \ discarded'
  BY <1>1, <1>2 DEF OutputIsWhatWasForwarded
<1>6. EachInOrder(Output)' BY <1>1, OrderKept DEF OutputIsWhatWasForwarded
<1>7. ASSUME NEW g \in FPs PROVE forwarded'[g] + dropped'[g] = Len(handled'[g])
  <2>1. /\ forwarded[g] \in Nat /\ dropped[g] \in Nat /\ forwarded[g] + dropped[g] = Len(handled[g])
        /\ dropped \in [FPs -> Nat] /\ handled \in [FPs -> Seq(Read)]
    BY DEF Typed, TalliesTyped, OutputIsWhatWasForwarded
  <2> QED BY <1>1, <1>2, <2>1
<1> QED BY <1>3, <1>4, <1>6, <1>7 DEF OutputIsWhatWasForwarded

LEMMA ForwardAppends ==
  ASSUME Typed, WayTyped, NoPushIntoClosed, NEW f \in FPs, FPForward(f)
  PROVE  Output' = Append(Output, fpHand[f]) /\ fpHand[f] \in Read
<1> DEFINE h == written \o Hand(writerHand)
           q == outQueue
           x == fpHand[f]
<1>1. /\ x # None /\ x \in Read /\ written' = written /\ writerHand' = writerHand
      /\ outQueue' = Append(q, x)
  BY DEF FPForward, writerVars, Typed, FPTyped, NoPushIntoClosed, Pushed
<1>2. written \in Seq(Read) /\ q \in Seq(Read) /\ Hand(writerHand) \in Seq(Read)
  BY HandInSeq DEF Typed, OutTyped, WayTyped
<1>3. h \in Seq(Read) BY <1>2, ConcatProperties
<1>4. Output = h \o q /\ Output' = h \o Append(q, x) BY <1>1 DEF Output
<1> HIDE DEF h, q, x
<1>5. h \o Append(q, x) = Append(h \o q, x) BY <1>1, <1>2, <1>3, AppendLast
<1> QED BY <1>1, <1>4, <1>5 DEF x

LEMMA ForwardKeepsOutput ==
  ASSUME Typed, WayTyped, NoPushIntoClosed, EachFastPathSeesItsShareInOrder,
         OutputIsWhatWasForwarded, DroppedWereHandled, NEW f \in FPs, FPForward(f)
  PROVE  OutputIsWhatWasForwarded' /\ DroppedWereHandled'
<1> SUFFICES ASSUME NEW x, x = fpHand[f] PROVE OutputIsWhatWasForwarded' /\ DroppedWereHandled'
  OBVIOUS
<1>1. /\ x # None /\ handled' = [handled EXCEPT ![f] = Append(@, x)] /\ discarded' = discarded
      /\ forwarded' = [forwarded EXCEPT ![f] = @ + 1] /\ dropped' = dropped
      /\ capture' = capture /\ written' = written /\ writerHand' = writerHand
      /\ outQueue' = Append(outQueue, x)
  BY DEF FPForward, mainVars, outVars, writerVars, Typed, FPTyped, NoPushIntoClosed, Pushed
<1>2. /\ x \in Read /\ x \notin Decided /\ Decided' = Decided \cup {x}
      /\ Len(handled'[f]) = Len(handled[f]) + 1
      /\ FPOf(x) = f /\ \A y \in Range(Output) : FPOf(y) = f => y < x
  BY <1>1, DecisionIsNew
<1>3. Output' = Append(Output, x) BY <1>1, ForwardAppends
<1>4. Output \in Seq(Read) BY OutputTyped
<1>5. DroppedWereHandled' BY <1>1, <1>2 DEF DroppedWereHandled
<1>6. Range(Output)' = Decided' \ discarded'
  <2>1. Range(Append(Output, x)) = Range(Output) \cup {x} BY <1>2, <1>4, RangeOfAppend
  <2>2. x \notin discarded BY <1>2 DEF DroppedWereHandled
  <2> QED BY <1>1, <1>2, <1>3, <2>1, <2>2 DEF OutputIsWhatWasForwarded
<1>8. EachInOrder(Output)'
  <2>1. Output \in Seq(Nat) /\ x \in Nat BY <1>2, OutputTyped DEF WayTyped
  <2> QED BY <1>1, <1>2, <1>3, <2>1, OrderGrows DEF OutputIsWhatWasForwarded
<1>9. ASSUME NEW g \in FPs PROVE forwarded'[g] + dropped'[g] = Len(handled'[g])
  <2>1. /\ forwarded[g] \in Nat /\ dropped[g] \in Nat /\ forwarded[g] + dropped[g] = Len(handled[g])
        /\ forwarded \in [FPs -> Nat] /\ handled \in [FPs -> Seq(Read)]
    BY DEF Typed, TalliesTyped, OutputIsWhatWasForwarded
  <2> QED BY <1>1, <1>2, <2>1
<1> QED BY <1>5, <1>6, <1>8, <1>9 DEF OutputIsWhatWasForwarded

OutputInv == OrderInv /\ OutputIsWhatWasForwarded /\ DroppedWereHandled

LEMMA OutputStep == OutputInv /\ WayTyped /\ NoPushIntoClosed /\ [Next]_vars
                      => OutputIsWhatWasForwarded' /\ DroppedWereHandled'
<1> SUFFICES ASSUME OutputInv, WayTyped, NoPushIntoClosed, [Next]_vars
             PROVE  OutputIsWhatWasForwarded' /\ DroppedWereHandled'
  OBVIOUS
<1> USE DEF OutputInv, OrderInv
<1>1. ASSUME NEW f \in FPs, FPDrop(f) PROVE OutputIsWhatWasForwarded' /\ DroppedWereHandled'
  BY <1>1, DropKeepsOutput
<1>2. ASSUME NEW f \in FPs, FPForward(f) PROVE OutputIsWhatWasForwarded' /\ DroppedWereHandled'
  BY <1>2, ForwardKeepsOutput
<1>3. CASE WriterPop \/ WriterWrite
  <2>1. Output' = Output BY <1>3, WriterKeepsOutput
  <2> QED BY <1>3, <2>1, OutputKept DEF WriterPop, WriterWrite, mainVars, fpVars
<1>4. CASE UNCHANGED OutWay
  BY <1>4, OutputKept DEF OutWay, Output
<1> QED BY <1>1, <1>2, <1>3, <1>4, OutWaySteps DEF OutSteps

LEMMA OutputInitially == Init => OutputIsWhatWasForwarded /\ DroppedWereHandled
<1> SUFFICES ASSUME Init PROVE OutputIsWhatWasForwarded /\ DroppedWereHandled
  OBVIOUS
<1>1. Output = <<>> /\ discarded = {} /\ \A f \in FPs : handled[f] = <<>>
  BY DEF Init, Output, Hand
<1>2. Decided = {} BY <1>1 DEF Decided, Range
<1>3. Range(Output) = {} /\ EachInOrder(Output) BY <1>1 DEF Range, EachInOrder
<1>4. \A f \in FPs : forwarded[f] + dropped[f] = Len(handled[f])
  BY <1>1, EmptySeq DEF Init
<1> QED BY <1>1, <1>2, <1>3, <1>4 DEF OutputIsWhatWasForwarded, DroppedWereHandled

LEMMA OutputInvariant == Spec => []OutputInv
<1>1. Init => OutputInv
  BY TypedInit, Initially, OrderInitially, OutputInitially DEF OutputInv, OrderInv
<1>2. OutputInv /\ OrderInv' /\ [Next]_vars => OutputInv'
  BY OutputStep, TypedWay, PushesAreSafe DEF OutputInv, OrderInv
<1> QED BY <1>1, <1>2, OrderInvariant, PTL DEF Spec

(* The output file and the line to it hold what the fast paths forwarded,  *)
(* once each, no policy drop among it, and each fast path's packets in the *)
(* order of the capture.                                                   *)
THEOREM NothingElseIsWritten == Spec => []OutputIsWhatWasForwarded
<1>1. OutputInv => OutputIsWhatWasForwarded BY DEF OutputInv
<1> QED BY <1>1, OutputInvariant, PTL

-----------------------------------------------------------------------------
(* The sum over the fast paths that collectStats computes. *)

LastFP == NumLBs * NumFPsPerLB - 1
IsSum(s, c) == \A f \in FPs : s[f] = c[f] + (IF f = 0 THEN 0 ELSE s[f - 1])

LEMMA LastIsLast == LastFP \in Nat /\ FPs = 0..LastFP
<1>1. NumLBs * NumFPsPerLB \in Nat /\ NumLBs * NumFPsPerLB >= 1
  BY DPIEngineAssumption
<1> QED BY <1>1 DEF LastFP, FPs

LEMMA SumExists ==
  ASSUME NEW c \in [FPs -> Nat]
  PROVE  \E s \in [FPs -> Nat] : IsSum(s, c)
<1> DEFINE Upto(n, s) == \A f \in 0..n : s[f] = c[f] + (IF f = 0 THEN 0 ELSE s[f - 1])
           S == {n \in Nat : n <= LastFP => \E s \in [0..n -> Nat] : Upto(n, s)}
<1>1. 0 \in S
  <2>1. c[0] \in Nat BY FirstAndNext
  <2>2. [f \in 0..0 |-> c[0]] \in [0..0 -> Nat] /\ Upto(0, [f \in 0..0 |-> c[0]])
    BY <2>1
  <2> QED BY <2>2
<1>2. ASSUME NEW n \in Nat, n \in S PROVE n + 1 \in S
  <2> SUFFICES ASSUME n + 1 <= LastFP PROVE \E s \in [0..(n + 1) -> Nat] : Upto(n + 1, s)
    OBVIOUS
  <2>a. n <= LastFP BY LastIsLast
  <2> HIDE DEF Upto
  <2>1. PICK s \in [0..n -> Nat] : Upto(n, s) BY <1>2, <2>a
  <2>2. c[n + 1] \in Nat /\ s[n] \in Nat BY LastIsLast
  <2> DEFINE t == [f \in 0..(n + 1) |-> IF f = n + 1 THEN c[n + 1] + s[n] ELSE s[f]]
  <2>3. t \in [0..(n + 1) -> Nat] BY <2>2
  <2>4. ASSUME NEW f \in 0..(n + 1) PROVE t[f] = c[f] + (IF f = 0 THEN 0 ELSE t[f - 1])
    <3>1. CASE f = n + 1 BY <3>1
    <3>2. CASE f # n + 1
      <4>1. f \in 0..n /\ (f # 0 => f - 1 \in 0..(n + 1) /\ f - 1 # n + 1) BY <3>2
      <4>2. t[f] = s[f] /\ (f # 0 => t[f - 1] = s[f - 1]) BY <3>2, <4>1
      <4> HIDE DEF t
      <4> QED BY <2>1, <4>1, <4>2 DEF Upto
    <3> QED BY <3>1, <3>2
  <2>5. Upto(n + 1, t) BY <2>4 DEF Upto
  <2> HIDE DEF t
  <2> QED BY <2>3, <2>5
<1> HIDE DEF S
<1>3. LastFP \in S BY <1>1, <1>2, Induction, LastIsLast
<1>4. \E s \in [0..LastFP -> Nat] : Upto(LastFP, s) BY <1>3 DEF S
<1> QED BY <1>4, LastIsLast DEF IsSum

LEMMA TotalIs ==
  ASSUME NEW c \in [FPs -> Nat], NEW s \in [FPs -> Nat], IsSum(s, c)
  PROVE  Total(c) = s[LastFP]
<1> DEFINE F(t) == [f \in FPs |-> c[f] + (IF f = 0 THEN 0 ELSE t[f - 1])]
           u == CHOOSE t : t = F(t)
<1>1. s = F(s) BY DEF IsSum
<1>2. u = F(u) BY <1>1
<1>3. Total(c) = u[LastFP] BY DEF Total, LastFP
<1> DEFINE S == {n \in Nat : n <= LastFP => u[n] = s[n]}
<1> HIDE DEF u
<1>4. \A f \in FPs : u[f] = c[f] + (IF f = 0 THEN 0 ELSE u[f - 1]) BY <1>2
<1> HIDE DEF F
<1>5. 0 \in S BY <1>4, FirstAndNext DEF IsSum
<1>6. ASSUME NEW n \in Nat, n \in S PROVE n + 1 \in S
  <2>1. n + 1 <= LastFP => n + 1 \in FPs /\ n + 1 # 0 /\ (n + 1) - 1 = n /\ u[n] = s[n]
    BY <1>6, LastIsLast
  <2> QED BY <1>4, <2>1 DEF IsSum
<1> HIDE DEF S
<1>7. LastFP \in S BY <1>5, <1>6, Induction, LastIsLast
<1> QED BY <1>3, <1>7, LastIsLast DEF S

LEMMA TotalOneMore ==
  ASSUME NEW c \in [FPs -> Nat], NEW g \in FPs
  PROVE  Total([c EXCEPT ![g] = @ + 1]) = Total(c) + 1
<1> DEFINE d == [c EXCEPT ![g] = @ + 1]
<1>1. PICK s \in [FPs -> Nat] : IsSum(s, c) BY SumExists
<1> DEFINE t == [f \in FPs |-> IF f < g THEN s[f] ELSE s[f] + 1]
<1>2. d \in [FPs -> Nat] /\ t \in [FPs -> Nat] BY LastIsLast
<1>3. IsSum(t, d)
  <2>1. ASSUME NEW f \in FPs PROVE t[f] = d[f] + (IF f = 0 THEN 0 ELSE t[f - 1])
    <3>1. f \in Nat /\ g \in Nat /\ s[f] \in Nat /\ c[f] \in Nat BY LastIsLast
    <3>2. s[f] = c[f] + (IF f = 0 THEN 0 ELSE s[f - 1]) BY <1>1 DEF IsSum
    <3>3. f # 0 => f - 1 \in FPs /\ s[f - 1] \in Nat BY LastIsLast
    <3>4. d[f] = IF f = g THEN c[f] + 1 ELSE c[f] OBVIOUS
    <3>5. f # 0 => t[f - 1] = IF f - 1 < g THEN s[f - 1] ELSE s[f - 1] + 1 BY <3>3
    <3>6. t[f] = IF f < g THEN s[f] ELSE s[f] + 1 OBVIOUS
    <3> HIDE DEF t, d
    <3>7. CASE f = 0 BY <3>1, <3>2, <3>4, <3>6, <3>7
    <3>8. CASE f # 0 BY <3>1, <3>2, <3>3, <3>4, <3>5, <3>6, <3>8
    <3> QED BY <3>7, <3>8
  <2> QED BY <2>1 DEF IsSum
<1>4. Total(c) = s[LastFP] /\ LastFP \in FPs BY <1>1, TotalIs, LastIsLast
<1>5. t[LastFP] = s[LastFP] + 1 BY <1>4, LastIsLast
<1> HIDE DEF t, d
<1>6. Total(d) = t[LastFP] BY <1>2, <1>3, TotalIs
<1> QED BY <1>4, <1>5, <1>6 DEF d

LEMMA TotalOfNone == Total([f \in FPs |-> 0]) = 0
<1> DEFINE z == [f \in FPs |-> 0]
<1>1. z \in [FPs -> Nat] /\ IsSum(z, z) BY LastIsLast DEF IsSum
<1>2. z[LastFP] = 0 BY LastIsLast
<1> HIDE DEF z
<1>3. Total(z) = z[LastFP] BY <1>1, TotalIs
<1> QED BY <1>2, <1>3 DEF z

-----------------------------------------------------------------------------
(* run() reads before it shuts down and reports last. *)
Stages ==
  /\ mainPc \in {"start", "open"} => total = 0
  /\ mainPc \notin {"start", "open", "read", "push"} => total \in {0, Len(capture)}
  /\ mainPc # "done" => ~stats.made

LEMMA StagesStep == Stages /\ [Next]_vars => Stages'
<1> SUFFICES ASSUME Stages, [Next]_vars PROVE Stages'
  OBVIOUS
<1> USE DEF Stages, mainVars
<1>1. CASE StartThreads \/ OpenInput \/ OpenInputFails
  BY <1>1 DEF StartThreads, OpenInput, OpenInputFails
<1>2. CASE ReadRecord \/ ReadThrows \/ PushToLB \/ ReadEOF
  BY <1>2 DEF ReadRecord, ReadThrows, PushToLB, ReadEOF
<1>3. CASE CloseLB \/ JoinLB \/ CloseFP \/ JoinFP \/ CloseOutput \/ StopStats \/ Collect
  <2>1. /\ mainPc \notin {"start", "open", "read", "push"} /\ mainPc # "done"
        /\ mainPc' \notin {"start", "open", "read", "push"}
        /\ total' = total /\ capture' = capture /\ (mainPc' # "done" => stats' = stats)
    BY <1>3 DEF CloseLB, JoinLB, CloseFP, JoinFP, CloseOutput, StopStats, Collect
  <2> QED BY <2>1
<1>4. ASSUME NEW l \in LBs, LB(l) PROVE Stages'
  BY <1>4 DEF LB, LBPop, LBPush, LBDrained, LBCloseFP
<1>5. ASSUME NEW f \in FPs, FP(f) PROVE Stages'
  BY <1>5 DEF FP, FPPop, FPDrop, FPDecideForward, FPForward, FPExit
<1>6. CASE Writer
  BY <1>6 DEF Writer, WriterOpens, WriterOpenFails, WriterPop, WriterWrite, WriterThrows, WriterExit
<1>7. CASE Stats
  BY <1>7 DEF Stats, StatsCheck, StatsPrint
<1>8. CASE UNCHANGED vars
  BY <1>8 DEF vars
<1> QED BY <1>1, <1>2, <1>3, <1>4, <1>5, <1>6, <1>7, <1>8 DEF Next, Main

(* The counters of the fast paths count the packets on the way to the file  *)
(* and the packets dropped.                                                 *)
Counted ==
  /\ Total(forwarded) = Len(Output)
  /\ IsFiniteSet(discarded) /\ Total(dropped) = Cardinality(discarded)

LEMMA CountedStep == OutputInv /\ WayTyped /\ NoPushIntoClosed /\ Counted /\ [Next]_vars => Counted'
<1> SUFFICES ASSUME OutputInv, WayTyped, NoPushIntoClosed, Counted, [Next]_vars PROVE Counted'
  OBVIOUS
<1> USE DEF OutputInv, OrderInv
<1>1. forwarded \in [FPs -> Nat] /\ dropped \in [FPs -> Nat]
  BY DEF Typed, TalliesTyped
<1>2. ASSUME NEW f \in FPs, FPDrop(f) PROVE Counted'
  <2> SUFFICES ASSUME NEW x, x = fpHand[f] PROVE Counted'
    OBVIOUS
  <2>1. /\ x # None /\ handled' = [handled EXCEPT ![f] = Append(@, x)]
        /\ discarded' = discarded \cup {x} /\ forwarded' = forwarded
        /\ dropped' = [dropped EXCEPT ![f] = @ + 1] /\ Output' = Output
    BY <1>2 DEF FPDrop, outVars, writerVars, Output
  <2>2. x \notin discarded BY <2>1, DecisionIsNew DEF DroppedWereHandled
  <2>3. IsFiniteSet(discarded') /\ Cardinality(discarded') = Cardinality(discarded) + 1
    BY <2>1, <2>2, FS_AddElement DEF Counted
  <2>4. Total(dropped') = Total(dropped) + 1 BY <1>1, <2>1, TotalOneMore
  <2> QED BY <2>1, <2>3, <2>4 DEF Counted
<1>3. ASSUME NEW f \in FPs, FPForward(f) PROVE Counted'
  <2>1. PICK x : Output' = Append(Output, x) /\ x \in Read
    BY <1>3, ForwardAppends
  <2>2. discarded' = discarded /\ dropped' = dropped /\ forwarded' = [forwarded EXCEPT ![f] = @ + 1]
    BY <1>3 DEF FPForward
  <2>3. Total(forwarded') = Total(forwarded) + 1 BY <1>1, <2>2, TotalOneMore
  <2>4. Len(Output') = Len(Output) + 1 BY <2>1, OutputTyped, AppendProperties
  <2> QED BY <2>2, <2>3, <2>4 DEF Counted
<1>4. CASE WriterPop \/ WriterWrite
  <2>1. Output' = Output BY <1>4, WriterKeepsOutput
  <2> QED BY <1>4, <2>1 DEF WriterPop, WriterWrite, fpVars, Counted
<1>5. CASE UNCHANGED OutWay
  BY <1>5 DEF OutWay, Output, Counted
<1> QED BY <1>2, <1>3, <1>4, <1>5, OutWaySteps DEF OutSteps

LEMMA FilterInitially == Init => Stages /\ Counted
<1> SUFFICES ASSUME Init PROVE Stages /\ Counted
  OBVIOUS
<1>1. Stages
  <2>1. mainPc = "start" /\ total = 0 /\ stats = NoStats BY DEF Init
  <2>2. stats.made = FALSE BY <2>1 DEF NoStats
  <2> QED BY <2>1, <2>2 DEF Stages
<1>2. Output = <<>> /\ Len(Output) = 0 BY EmptySeq DEF Init, Output, Hand
<1>3. IsFiniteSet(discarded) /\ Cardinality(discarded) = 0 BY FS_EmptySet DEF Init
<1>4. Total(forwarded) = 0 /\ Total(dropped) = 0 BY TotalOfNone DEF Init
<1> QED BY <1>1, <1>2, <1>3, <1>4 DEF Counted

FilterInv == OutputInv /\ Stages /\ Counted

LEMMA FilterInvariant == Spec => []FilterInv
<1>1. Init => Stages /\ Counted BY FilterInitially
<1>2. FilterInv /\ OutputInv' /\ [Next]_vars => FilterInv'
  <2>1. OutputInv => WayTyped /\ NoPushIntoClosed
    BY TypedWay, PushesAreSafe DEF OutputInv, OrderInv
  <2> QED BY <2>1, StagesStep, CountedStep DEF FilterInv
<1>3. Init /\ OutputInv => FilterInv BY <1>1 DEF FilterInv
<1> QED BY <1>2, <1>3, OutputInvariant, PTL DEF Spec

-----------------------------------------------------------------------------
(* What the steps look like to PacketFilter. *)

FilterSteps == \/ ReadRecord \/ Collect \/ WriterWrite
               \/ \E f \in FPs : FPDrop(f)

LEMMA FilterStepsOnly == [Next]_vars => FilterSteps \/ UNCHANGED Filter!filterVars
<1> SUFFICES ASSUME [Next]_vars, ~UNCHANGED Filter!filterVars PROVE FilterSteps
  OBVIOUS
<1> USE DEF Filter!filterVars, FilterSteps, mainVars, fpVars, writerVars
<1>1. ~UNCHANGED vars
  BY DEF vars
<1>2. ~(StartThreads \/ OpenInput \/ OpenInputFails \/ ReadThrows \/ ReadEOF \/ PushToLB)
  BY DEF StartThreads, OpenInput, OpenInputFails, ReadThrows, ReadEOF, PushToLB
<1>3. ~(CloseLB \/ JoinLB \/ CloseFP \/ JoinFP \/ CloseOutput \/ StopStats)
  BY DEF CloseLB, JoinLB, CloseFP, JoinFP, CloseOutput, StopStats
<1>4. \A l \in LBs : ~LB(l)
  BY DEF LB, LBPop, LBPush, LBDrained, LBCloseFP
<1>5. \A f \in FPs : ~FPPop(f) /\ ~FPDecideForward(f) /\ ~FPForward(f) /\ ~FPExit(f)
  BY DEF FPPop, FPDecideForward, FPForward, FPExit
<1>6. ~(WriterOpens \/ WriterOpenFails \/ WriterPop \/ WriterThrows \/ WriterExit \/ Stats)
  BY DEF Stats, WriterOpens, WriterOpenFails, WriterPop, WriterThrows, WriterExit, StatsCheck, StatsPrint
<1> QED BY <1>1, <1>2, <1>3, <1>4, <1>5, <1>6 DEF Next, Main, FP, Writer

LEMMA Same == Filter!Packets = Read /\ Filter!Emitted = Range(written)
<1>1. Filter!Packets = Read BY DEF Filter!Packets, Read
<1>2. Filter!Emitted = Range(written) BY DEF Filter!Emitted, Range
<1> QED BY <1>1, <1>2

(* Nothing is decided after run() has returned. *)
LEMMA NothingAfterReturn ==
  ASSUME Stages, ShutdownInOrder, FilterSteps
  PROVE  ~stats.made
<1> SUFFICES ASSUME mainPc = "done" PROVE FALSE
  BY DEF Stages
<1>1. writerHand = None /\ \A f \in FPs : fpHand[f] = None
  BY DEF ShutdownInOrder, FPStopped, AllStopped
<1> QED BY <1>1 DEF FilterSteps, ReadRecord, Collect, WriterWrite, FPDrop

(* The written packets are part of the output, and the next one to be       *)
(* written is behind them there.                                            *)
LEMMA WrittenIsOutput ==
  ASSUME Typed, WayTyped
  PROVE  /\ Range(written) \subseteq Range(Output)
         /\ writerHand # None =>
              /\ writerHand \in Range(Output)
              /\ \A y \in Range(written) : \E j, k \in DOMAIN Output :
                    j < k /\ Output[j] = y /\ Output[k] = writerHand
<1> DEFINE w == written
           h == Hand(writerHand)
           p == w \o h
           q == outQueue
<1>1. w \in Seq(Read) /\ h \in Seq(Read) /\ q \in Seq(Read)
  BY HandInSeq DEF Typed, OutTyped, WayTyped
<1>2. p \in Seq(Read) /\ Len(p) = Len(w) + Len(h) /\ Len(w) \in Nat /\ Len(h) \in Nat
      /\ \A i \in 1..Len(w) : p[i] = w[i]
  BY <1>1, ConcatProperties, LenProperties
<1>3. Output = p \o q BY DEF Output
<1>4. writerHand # None => p[Len(w) + 1] = writerHand /\ Len(h) = 1
  <2>1. writerHand # None => Len(h) = 1 /\ h[1] = writerHand BY DEF Hand
  <2> HIDE DEF h, w
  <2>2. Len(h) = 1 => (w \o h)[Len(w) + 1] = h[1] BY <1>1, ConcatProperties, LenProperties
  <2> QED BY <2>1, <2>2
<1> HIDE DEF p, q, h, w
<1>5. /\ Len(p) \in Nat /\ Len(q) \in Nat /\ DOMAIN Output = 1..Len(p) + Len(q)
      /\ \A i \in 1..Len(p) : Output[i] = p[i]
  <2>1. p \in Seq(Read) /\ q \in Seq(Read) BY <1>1, <1>2
  <2>2. /\ p \o q \in Seq(Read) /\ Len(p \o q) = Len(p) + Len(q)
        /\ \A i \in 1..Len(p) + Len(q) : (p \o q)[i] = IF i <= Len(p) THEN p[i] ELSE q[i - Len(p)]
    BY <2>1, ConcatProperties
  <2>3. Len(p) \in Nat /\ Len(q) \in Nat /\ DOMAIN (p \o q) = 1..Len(p \o q)
    BY <2>1, <2>2, LenProperties
  <2> QED BY <1>3, <2>2, <2>3
<1>6. \A i \in 1..Len(w) : i \in DOMAIN Output /\ Output[i] = w[i]
  BY <1>2, <1>5
<1>7. writerHand # None => Len(w) + 1 \in DOMAIN Output /\ Output[Len(w) + 1] = writerHand
  <2>1. ASSUME writerHand # None PROVE Len(w) + 1 \in 1..Len(p) /\ p[Len(w) + 1] = writerHand
    <3>1. Len(h) = 1 /\ p[Len(w) + 1] = writerHand BY <1>4, <2>1
    <3>2. Len(w) \in Nat /\ Len(p) = Len(w) + Len(h) BY <1>2
    <3> QED BY <3>1, <3>2
  <2> QED BY <1>5, <2>1
<1>8. \A y \in Range(written) : \E i \in 1..Len(w) : w[i] = y
  BY <1>1, LenProperties DEF w, Range
<1>9. \A y \in Range(written) : \E i \in DOMAIN Output : i < Len(w) + 1 /\ Output[i] = y
  BY <1>2, <1>6, <1>8
<1> QED BY <1>7, <1>9 DEF Range

LEMMA WriteEmits ==
  ASSUME FilterInv, WriterWrite
  PROVE  \E i \in Filter!Undecided : Filter!Emit(i)
<1> USE DEF FilterInv, OutputInv, OrderInv
<1> DEFINE x == writerHand
<1>1. /\ x # None /\ x \in Read /\ written' = Append(written, x)
      /\ UNCHANGED <<capture, total, discarded, stats>>
  BY DEF WriterWrite, mainVars, fpVars, Typed, OutTyped
<1>2. ~stats.made BY NothingAfterReturn DEF FilterSteps
<1>3. WayTyped BY TypedWay
<1>4. Range(Output) = Decided \ discarded /\ EachInOrder(Output) BY DEF OutputIsWhatWasForwarded
<1>5. x \notin discarded BY <1>1, <1>3, <1>4, WrittenIsOutput
<1>6. ASSUME NEW y \in Range(written), FPOf(y) = FPOf(x) PROVE y < x
  <2>1. PICK j, k \in DOMAIN Output : j < k /\ Output[j] = y /\ Output[k] = x
    BY <1>1, <1>3, WrittenIsOutput
  <2> QED BY <1>4, <1>6, <2>1 DEF EachInOrder
<1>7. x \notin Range(written)
  <2>1. x \in Nat BY <1>1, <1>3 DEF WayTyped
  <2>2. ~(x < x) BY <2>1
  <2> QED BY <1>6, <2>2
<1>8. x \in Filter!Undecided BY <1>1, <1>5, <1>7, Same DEF Filter!Undecided
<1>9. \A y \in Filter!Emitted : capture[y] = capture[x] => y < x
  BY <1>6, Same DEF FPOf, FPAt, LBOf
<1> HIDE DEF x
<1> QED BY <1>1, <1>2, <1>8, <1>9 DEF Filter!Emit

LEMMA DropDiscards ==
  ASSUME FilterInv, NEW f \in FPs, FPDrop(f)
  PROVE  \E i \in Filter!Undecided : Filter!Discard(i)
<1> USE DEF FilterInv, OutputInv, OrderInv
<1> SUFFICES ASSUME NEW x, x = fpHand[f] PROVE \E i \in Filter!Undecided : Filter!Discard(i)
  OBVIOUS
<1>1. /\ x # None /\ discarded' = discarded \cup {x} /\ handled' = [handled EXCEPT ![f] = Append(@, x)]
      /\ UNCHANGED <<capture, total, written, stats>>
  BY DEF FPDrop, mainVars, writerVars
<1>2. ~stats.made BY NothingAfterReturn DEF FilterSteps
<1>3. WayTyped BY TypedWay
<1>4. x \in Read /\ x \notin Decided BY <1>1, <1>3, DecisionIsNew
<1>5. x \notin discarded BY <1>4 DEF DroppedWereHandled
<1>6. x \notin Range(written)
  <2>1. x \notin Range(Output) BY <1>4 DEF OutputIsWhatWasForwarded
  <2> QED BY <1>3, <2>1, WrittenIsOutput
<1>7. x \in Filter!Undecided BY <1>4, <1>5, <1>6, Same DEF Filter!Undecided
<1> QED BY <1>1, <1>2, <1>7 DEF Filter!Discard

LEMMA ReadTakes ==
  ASSUME FilterInv, ReadRecord
  PROVE  Filter!Take
<1>1. ~stats.made BY NothingAfterReturn DEF FilterSteps, FilterInv, OutputInv, OrderInv
<1> QED BY <1>1 DEF ReadRecord, Filter!Take, fpVars, writerVars

(* When run() returns every packet read was decided, and what was forwarded *)
(* is written.                                                              *)
LEMMA CollectFinishes ==
  ASSUME "output" \notin Faults, FilterInv, Collect
  PROVE  Filter!Finish
<1> USE DEF FilterInv, OutputInv, OrderInv
<1>1. mainPc = "join" /\ writerPc = "done" /\ UNCHANGED <<capture, total, written, discarded>>
      /\ stats' = [total |-> total, forwarded |-> Total(forwarded), dropped |-> Total(dropped), made |-> TRUE]
  BY DEF Collect, fpVars, writerVars
<1>2. ~stats.made /\ total \in {0, Len(capture)} BY <1>1 DEF Stages
<1>3. /\ \A l \in LBs : lbQueue[l] = <<>> /\ lbHand[l] = None
      /\ \A f \in FPs : fpQueue[f] = <<>> /\ fpHand[f] = None
      /\ writerHand = None /\ outQueue = <<>>
  BY <1>1 DEF ShutdownInOrder, LBStopped, FPStopped, AllStopped
<1>4. Output = written
  <2>1. written \in Seq(Read) BY DEF Typed, OutTyped
  <2>2. Output = written \o <<>> \o <<>> BY <1>3 DEF Output, Hand
  <2> QED BY <2>1, <2>2, ConcatEmptySeq
<1>5. ASSUME NEW i \in Read PROVE i \in Decided
  <2>1. PICK l \in LBs : l = LBOf(i) BY Routes DEF Typed, ReaderTyped
  <2>2. PICK f \in FPsOf(l) : f = FPOf(i) BY <2>1, Routes DEF Typed, ReaderTyped, FPOf
  <2>3. f \in FPs BY FPsOfInFPs
  <2>4. mainHand = None BY <1>1 DEF HandFree
  <2>5. Coming(l) = <<>>
    <3>1. Coming(l) = <<>> \o <<>> \o <<>> BY <1>3, <2>4 DEF Coming, Hand
    <3> QED BY <3>1, EmptySeq, ConcatEmptySeq
  <2>6. Given(f) = handled[f]
    <3>1. handled[f] \in Seq(Read) BY <2>3 DEF Typed, TalliesTyped
    <3>2. Given(f) = handled[f] \o <<>> \o <<>> BY <1>3, <2>3 DEF Given, Hand
    <3> QED BY <3>1, <3>2, ConcatEmptySeq
  <2>7. Range(Coming(l)) = {} BY <2>5 DEF Range
  <2>8. i \in Range(Given(f)) BY <2>2, <2>7 DEF EachFastPathSeesItsShareInOrder
  <2> QED BY <2>3, <2>6, <2>8 DEF Decided
<1>6. Filter!Undecided = {}
  BY <1>4, <1>5, Same DEF Filter!Undecided, OutputIsWhatWasForwarded
<1>7. Total(forwarded) = Len(written) /\ Total(dropped) = Cardinality(discarded)
  BY <1>4 DEF Counted
<1>8. Filter!Cardinality(discarded) = Cardinality(discarded)
  BY DEF Filter!Cardinality, Cardinality
<1> QED BY <1>1, <1>2, <1>6, <1>7, <1>8 DEF Filter!Finish

(* If the output file can be opened the pipeline, with all its threads and  *)
(* queues, is a packet filter: every packet read is written or dropped once *)
(* before run() returns, a flow's packets are written in the order of the   *)
(* capture, and the statistics are the numbers of what happened.            *)
THEOREM Refinement ==
  ASSUME "output" \notin Faults
  PROVE  Spec => ImplementsFilter
<1>1. Init => Filter!FilterInit
  BY DEF Init, NoStats, Filter!FilterInit, Filter!NoReport
<1>2. FilterInv /\ [Next]_vars => [Filter!FilterNext]_(Filter!filterVars)
  <2> SUFFICES ASSUME FilterInv, FilterSteps PROVE Filter!FilterNext
    BY FilterStepsOnly
  <2> USE DEF Filter!FilterNext
  <2>1. CASE ReadRecord BY <2>1, ReadTakes
  <2>2. CASE Collect BY <2>2, CollectFinishes
  <2>3. CASE WriterWrite BY <2>3, WriteEmits
  <2>4. ASSUME NEW f \in FPs, FPDrop(f) PROVE Filter!FilterNext BY <2>4, DropDiscards
  <2> QED BY <2>1, <2>2, <2>3, <2>4 DEF FilterSteps
<1> QED BY <1>1, <1>2, FilterInvariant, PTL DEF Spec, ImplementsFilter, Filter!FilterSpec
==============================================================================
