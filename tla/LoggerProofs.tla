----------------------------- MODULE LoggerProofs -----------------------------
(***************************************************************************)
(* Theorems about Logger, for any threads, programs, files and             *)
(* communicators: types and single steps, the critical section of log_ and *)
(* the warning of an uninitialised logger, the start-up, and the test of a *)
(* logging rank between other threads' setters.  At the end, programs in   *)
(* which one thread configures the logger and any others log: a log call   *)
(* that nobody disturbs does what the configuration says.                  *)
(***************************************************************************)
EXTENDS LoggerHistory, LoggerInvariants, TLAPS

-----------------------------------------------------------------------------
(* Type correctness *)

LEMMA LevelFacts ==
  /\ LogLevel.none \in Levels /\ LogLevel.warning \in Levels
  /\ LogLevel.info \in Levels /\ LogLevel.sparse \in Levels
  /\ LogTo.console \in Destinations
BY DEF LogLevel, Levels, LogTo, Destinations

LEMMA SwitchType ==
  ASSUME NEW d
  PROVE  ShouldWrite(d) \in BOOLEAN /\ ShouldLog(d) \in BOOLEAN
BY DEF ShouldWrite, ShouldLog

LEMMA TypeInit == Init => TypeOK
<1> SUFFICES ASSUME Init PROVE TypeOK
  OBVIOUS
<1>1. Defaults \in CallType
  BY LoggerAssumption, LevelFacts DEF Defaults, CallType, Ops
<1>2. [n |-> 0, level |-> LogLevel.none, rank |-> 0, prefix |-> Blank,
       path |-> DefaultFile, resume |-> "idle"] \in FrameType
  BY LoggerAssumption, LevelFacts DEF FrameType, RankStrs, Paths
<1>3. pc \in [Threads -> Positions]
  BY DEF Init, Positions
<1>4. console \in Seq(Pieces) /\ files \in [Paths -> Seq(Pieces)]
  BY DEF Init
<1>5. /\ logFile \in Paths /\ rankStr \in RankStrs /\ comm \in Comms
      /\ loggingLevel \in Levels /\ dst \in Destinations
  BY LoggerAssumption, LevelFacts DEF Init, Paths, RankStrs
<1>6. call \in [Threads -> CallType] /\ frame \in [Threads -> FrameType]
  BY <1>1, <1>2, Zenon DEF Init
<1>7. /\ loggingRank \in Int /\ currentRank \in Int /\ made \in [Threads -> Nat]
      /\ mutex \in Threads \cup {NoThread}
  BY DEF Init
<1>8. QED
  BY <1>3, <1>4, <1>5, <1>6, <1>7 DEF Init, TypeOK

LEMMA StepType ==
  ASSUME TypeOK, NEW t \in Threads, NEW from, NEW to \in Positions,
         Step(t, from, to)
  PROVE  pc' \in [Threads -> Positions]
BY DEF Step, TypeOK

LEMMA PieceType ==
  ASSUME TypeOK, NEW t \in Threads, NEW kind \in {"uninit", "log"},
         NEW part \in {"text", "end"}
  PROVE  Piece(t, kind, part) \in Pieces
BY DEF TypeOK, Piece, Pieces, FrameType, RankStrs

LEMMA BeginLogType ==
  ASSUME TypeOK, NEW t \in Threads, NEW from, NEW level \in Levels,
         NEW resume \in {"idle", "setComm"}, BeginLog(t, from, level, resume)
  PROVE  frame' \in [Threads -> FrameType] /\ pc' \in [Threads -> Positions]
<1> DEFINE counted  == [frame EXCEPT ![t].n = @ + 1]
           levelled == [counted EXCEPT ![t].level = level]
<1>1. counted \in [Threads -> FrameType]
  <2>1. frame \in [Threads -> FrameType] /\ frame[t] \in FrameType
    BY DEF TypeOK
  <2>2. frame[t].n + 1 \in Nat
    BY <2>1 DEF FrameType
  <2>3. [frame[t] EXCEPT !.n = @ + 1] \in FrameType
    BY <2>1, <2>2 DEF FrameType
  <2>4. QED
    BY <2>1, <2>3
<1>2. levelled \in [Threads -> FrameType]
  BY <1>1 DEF FrameType
<1>3. frame' = [levelled EXCEPT ![t].resume = resume]
  BY DEF BeginLog
<1>4. frame' \in [Threads -> FrameType]
  <2>1. levelled[t] \in FrameType
    BY <1>2
  <2>2. [levelled[t] EXCEPT !.resume = resume] \in FrameType
    BY <2>1 DEF FrameType
  <2>3. QED
    BY <1>2, <1>3, <2>2
<1>5. QED
  BY <1>4 DEF TypeOK, BeginLog, Step, Positions

LEMMA TypeCall ==
  ASSUME TypeOK, NEW t \in Threads, Call(t)
  PROVE  TypeOK'
<1>1. PICK c \in Program[t][made[t] + 1] :
           call' = [call EXCEPT ![t] = c] /\ \E to : Step(t, "idle", to)
  BY DEF Call
<1>2. made[t] + 1 \in 1 .. Len(Program[t])
  BY LoggerAssumption DEF Call, TypeOK
<1>3. Program[t][made[t] + 1] \in SUBSET CallType
  BY <1>2, LoggerAssumption
<1>4. pc' \in [Threads -> Positions]
  BY <1>3, StepType DEF Call, CallType, Ops, Positions
<1>5. call' \in [Threads -> CallType] /\ made' \in [Threads -> Nat]
  BY <1>1, <1>3 DEF Call, TypeOK
<1>6. QED
  BY <1>4, <1>5 DEF Call, TypeOK, once, config, output, ranks, sinks

LEMMA TypeConfigure ==
  ASSUME TypeOK, NEW t \in Threads, Configure(t)
  PROVE  TypeOK'
<1> USE DEF TypeOK, Step, once, config, output, ranks, sinks, control
<1>1. CASE ReadMpiFlag(t)
  BY <1>1 DEF ReadMpiFlag, Positions
<1>2. CASE UpdateCurrentRank(t)
  BY <1>2, LoggerAssumption DEF UpdateCurrentRank, Positions
<1>3. CASE FormatRankString(t, "rankStr", "rankStrEnd", "setRank")
  <2>1. pc' \in [Threads -> Positions]
    BY <1>3 DEF FormatRankString, Positions
  <2>2. rankStr' \in RankStrs
    BY <1>3 DEF FormatRankString, RankStrs
  <2>3. QED
    BY <1>3, <2>1, <2>2 DEF FormatRankString
<1>4. CASE CheckLoggingRank(t)
  <2>1. pc' \in [Threads -> Positions]
    BY <1>4, LevelFacts DEF CheckLoggingRank, BeginLog, AfterSetRank, Positions
  <2>2. frame' \in [Threads -> FrameType]
    BY <1>4, LevelFacts, BeginLogType DEF CheckLoggingRank, AfterSetRank
  <2>3. QED
    BY <1>4, <2>1, <2>2 DEF CheckLoggingRank, BeginLog
<1>5. CASE StoreLoggingRank(t)
  BY <1>5 DEF StoreLoggingRank, AfterSetRank, Positions, CallType
<1>6. CASE SetCommunicator(t)
  BY <1>6 DEF SetCommunicator, Positions, CallType
<1>7. CASE EnterInitOnce(t)
  <2>1. pc' \in [Threads -> Positions]
    BY <1>7 DEF EnterInitOnce, Positions
  <2>2. initFlag' \in {"fresh", "active", "done"}
    BY <1>7 DEF EnterInitOnce
  <2>3. QED
    BY <1>7, <2>1, <2>2 DEF EnterInitOnce
<1>8. CASE SetLoggingLevel(t)
  BY <1>8 DEF SetLoggingLevel, Positions, CallType
<1>9. CASE SetOutputStream(t)
  BY <1>9 DEF SetOutputStream, Positions, CallType
<1>10. CASE SetDestinationBools(t)
  <2>1. pc' \in [Threads -> Positions]
    BY <1>10 DEF SetDestinationBools, Positions
  <2>2. shouldWrite' \in BOOLEAN /\ shouldLog' \in BOOLEAN
    BY <1>10, SwitchType DEF SetDestinationBools
  <2>3. QED
    BY <1>10, <2>1, <2>2 DEF SetDestinationBools
<1>11. CASE SetOutputFilename(t)
  <2>1. pc' \in [Threads -> Positions]
    BY <1>11 DEF SetOutputFilename, Positions
  <2>2. logFile' \in Paths
    BY <1>11 DEF SetOutputFilename, CallType, Paths
  <2>3. QED
    BY <1>11, <2>1, <2>2 DEF SetOutputFilename
<1>12. CASE FormatRankString(t, "initStr", "initStrEnd", "publish")
  <2>1. pc' \in [Threads -> Positions]
    BY <1>12 DEF FormatRankString, Positions
  <2>2. rankStr' \in RankStrs
    BY <1>12 DEF FormatRankString, RankStrs
  <2>3. QED
    BY <1>12, <2>1, <2>2 DEF FormatRankString
<1>13. CASE Publish(t)
  BY <1>13 DEF Publish, Positions
<1>14. CASE Announce(t)
  <2>1. pc' \in [Threads -> Positions]
    BY <1>14, LevelFacts DEF Announce, BeginLog, Positions
  <2>2. frame' \in [Threads -> FrameType]
    BY <1>14, LevelFacts, BeginLogType DEF Announce
  <2>3. QED
    BY <1>14, <2>1, <2>2 DEF Announce, BeginLog
<1>15. QED
  BY <1>1, <1>2, <1>3, <1>4, <1>5, <1>6, <1>7, <1>8, <1>9, <1>10, <1>11,
     <1>12, <1>13, <1>14 DEF Configure

LEMMA TypeEmit ==
  ASSUME TypeOK, NEW t \in Threads, Emit(t)
  PROVE  TypeOK'
<1> USE DEF TypeOK, Step, Return, once, config, output, ranks, sinks, control
<1>1. CASE Format(t)
  <2>1. pc' \in [Threads -> Positions]
    BY <1>1, LevelFacts DEF Format, BeginLog, Positions
  <2>2. frame' \in [Threads -> FrameType]
    BY <1>1, BeginLogType DEF Format, CallType
  <2>3. QED
    BY <1>1, <2>1, <2>2 DEF Format, BeginLog
<1>2. CASE Log(t)
  BY <1>2 DEF Log, Positions
<1>3. CASE EnterWarnOnce(t)
  <2>1. pc' \in [Threads -> Positions]
    BY <1>3 DEF EnterWarnOnce, Positions, FrameType
  <2>2. warnFlag' \in {"fresh", "active", "done"}
    BY <1>3 DEF EnterWarnOnce
  <2>3. QED
    BY <1>3, <2>1, <2>2 DEF EnterWarnOnce
<1>4. CASE PrintUninitialized(t)
  <2>1. pc' \in [Threads -> Positions]
    BY <1>4, PieceType DEF PrintUninitialized, Positions, FrameType
  <2>2. console' \in Seq(Pieces) /\ warnFlag' \in {"fresh", "active", "done"}
    <3>1. \E p \in Pieces : console' = Append(console, p)
      BY <1>4, PieceType, Zenon DEF PrintUninitialized
    <3>2. console' \in Seq(Pieces)
      BY <3>1
    <3>3. QED
      BY <1>4, <3>2 DEF PrintUninitialized
  <2>3. QED
    BY <1>4, <2>1, <2>2 DEF PrintUninitialized
<1>5. CASE LoadRank(t)
  BY <1>5 DEF LoadRank, Positions, FrameType
<1>6. CASE CompareRank(t)
  BY <1>6 DEF CompareRank, Positions, FrameType
<1>7. CASE FilterLevel(t)
  <2>1. pc' \in [Threads -> Positions]
    BY <1>7 DEF FilterLevel, Positions, FrameType
  <2>2. QED
    BY <1>7, <2>1 DEF FilterLevel
<1>8. CASE CopyRankString(t)
  BY <1>8 DEF CopyRankString, Positions, FrameType
<1>9. CASE Lock(t)
  BY <1>9 DEF Lock, Positions
<1>10. CASE TestShouldLog(t)
  BY <1>10 DEF TestShouldLog, Positions
<1>11. CASE PrintLine(t)
  <2>1. pc' \in [Threads -> Positions]
    BY <1>11, PieceType DEF PrintLine, Positions
  <2>2. console' \in Seq(Pieces)
    <3>1. \E p \in Pieces : console' = Append(console, p)
      BY <1>11, PieceType, Zenon DEF PrintLine
    <3>2. console' \in Seq(Pieces)
      BY <3>1
    <3>3. QED
      BY <1>11, <3>2 DEF PrintLine
  <2>3. QED
    BY <1>11, <2>1, <2>2 DEF PrintLine
<1>12. CASE TestShouldWrite(t)
  BY <1>12 DEF TestShouldWrite, Positions
<1>13. CASE OpenFile(t)
  BY <1>13 DEF OpenFile, Positions, FrameType
<1>14. CASE WriteFile(t)
  <2>1. PICK part \in {"text", "end"} :
          /\ \/ Step(t, "writeText", "writeEnd") \/ Step(t, "writeEnd", "unlock")
          /\ files' = [files EXCEPT ![frame[t].path] =
                          Append(@, Piece(t, "log", part))]
    BY <1>14, Zenon DEF WriteFile
  <2>2. pc' \in [Threads -> Positions]
    BY <2>1, StepType DEF Positions
  <2>3. Piece(t, "log", part) \in Pieces /\ frame[t].path \in Paths
    BY PieceType DEF FrameType
  <2>4. files' \in [Paths -> Seq(Pieces)]
    BY <2>1, <2>3
  <2>5. QED
    BY <1>14, <2>2, <2>4 DEF WriteFile
<1>15. CASE Unlock(t)
  BY <1>15 DEF Unlock, Positions, FrameType
<1>16. QED
  BY <1>1, <1>2, <1>3, <1>4, <1>5, <1>6, <1>7, <1>8, <1>9, <1>10, <1>11,
     <1>12, <1>13, <1>14, <1>15 DEF Emit

LEMMA TypeStutter == TypeOK /\ UNCHANGED vars => TypeOK'
BY DEF TypeOK, vars, once, config, output, ranks, sinks, control

LEMMA TypeNext == TypeOK /\ [Next]_vars => TypeOK'
<1> SUFFICES ASSUME TypeOK, [Next]_vars PROVE TypeOK'
  OBVIOUS
<1>1. CASE MPI_Init
  BY <1>1 DEF TypeOK, MPI_Init, once, config, output, ranks, sinks, control
<1>2. CASE Done
  BY <1>2, TypeStutter DEF Done
<1>3. ASSUME NEW t \in Threads, Call(t) \/ Configure(t) \/ Emit(t)
      PROVE  TypeOK'
  BY <1>3, TypeCall, TypeConfigure, TypeEmit
<1>4. CASE UNCHANGED vars
  BY <1>4, TypeStutter
<1>5. QED
  BY <1>1, <1>2, <1>3, <1>4 DEF Next

(* Every member of the logger and every local of a call keeps its type.    *)
THEOREM TypeCorrect == Spec => []TypeOK
BY TypeInit, TypeNext, PTL DEF Spec

-----------------------------------------------------------------------------
(* The critical section of log_ and the warning of an uninitialised logger *)

(* A step outside the critical section and outside the warning: it leaves  *)
(* the mutex, the outputs and every other thread alone.                    *)
Quiet == Positions \ (Locked \cup {"warnText", "warnEnd"})
OthersKept(t) == \A u \in Threads \ {t} : frame'[u] = frame[u]
QuietStep(t) ==
  /\ \E from, to \in Quiet : Step(t, from, to)
  /\ UNCHANGED <<mutex, sinks, warnFlag>>
  /\ OthersKept(t)

LEMMA BeginKeepsOthers ==
  ASSUME TypeOK, NEW t \in Threads, NEW from, NEW level, NEW resume,
         BeginLog(t, from, level, resume)
  PROVE  OthersKept(t) /\ Step(t, from, "log")
BY DEF TypeOK, BeginLog, OthersKept

LEMMA QuietCall ==
  ASSUME TypeOK, NEW t \in Threads, Call(t)
  PROVE  QuietStep(t)
<1>1. PICK c \in Program[t][made[t] + 1] : TRUE
  BY DEF Call
<1>2. made[t] + 1 \in 1 .. Len(Program[t])
  BY LoggerAssumption DEF Call, TypeOK
<1>3. Program[t][made[t] + 1] \in SUBSET CallType
  BY <1>2, LoggerAssumption
<1>4. \E to \in Quiet : Step(t, "idle", to)
  BY <1>3 DEF Call, CallType, Ops, Quiet, Positions, Locked
<1>5. "idle" \in Quiet
  BY DEF Quiet, Positions, Locked
<1>6. QED
  BY <1>4, <1>5 DEF QuietStep, Call, OthersKept, once, sinks

LEMMA QuietConfigure ==
  ASSUME TypeOK, NEW t \in Threads, Configure(t)
  PROVE  QuietStep(t)
<1>1. UNCHANGED <<mutex, sinks, warnFlag>>
  BY DEF Configure, ReadMpiFlag, UpdateCurrentRank, FormatRankString,
     CheckLoggingRank, StoreLoggingRank, SetCommunicator, EnterInitOnce,
     SetLoggingLevel, SetOutputStream, SetDestinationBools, SetOutputFilename,
     Publish, Announce, once, sinks
<1>2. OthersKept(t)
  <2>1. CASE CheckLoggingRank(t) \/ Announce(t)
    BY <2>1, BeginKeepsOthers DEF CheckLoggingRank, Announce, control, OthersKept
  <2>2. CASE UNCHANGED frame
    BY <2>2 DEF OthersKept
  <2>3. QED
    BY <2>1, <2>2 DEF Configure, ReadMpiFlag, UpdateCurrentRank,
       FormatRankString, StoreLoggingRank, SetCommunicator, EnterInitOnce,
       SetLoggingLevel, SetOutputStream, SetDestinationBools,
       SetOutputFilename, Publish, control
<1>3. \E from, to \in Quiet : Step(t, from, to)
  <2> USE DEF Quiet, Positions, Locked
  <2>1. CASE ReadMpiFlag(t) \/ UpdateCurrentRank(t)
    BY <2>1 DEF ReadMpiFlag, UpdateCurrentRank
  <2>2. CASE FormatRankString(t, "rankStr", "rankStrEnd", "setRank")
    BY <2>2 DEF FormatRankString
  <2>3. CASE CheckLoggingRank(t)
    BY <2>3 DEF CheckLoggingRank, BeginLog, AfterSetRank
  <2>4. CASE StoreLoggingRank(t) \/ SetCommunicator(t)
    BY <2>4 DEF StoreLoggingRank, SetCommunicator, AfterSetRank
  <2>5. CASE EnterInitOnce(t)
    BY <2>5 DEF EnterInitOnce
  <2>6. CASE SetLoggingLevel(t) \/ SetOutputStream(t)
    BY <2>6 DEF SetLoggingLevel, SetOutputStream
  <2>7. CASE SetDestinationBools(t)
    BY <2>7 DEF SetDestinationBools
  <2>8. CASE SetOutputFilename(t)
    BY <2>8 DEF SetOutputFilename
  <2>9. CASE FormatRankString(t, "initStr", "initStrEnd", "publish")
    BY <2>9 DEF FormatRankString
  <2>10. CASE Publish(t) \/ Announce(t)
    BY <2>10 DEF Publish, Announce, BeginLog
  <2>11. QED
    BY <2>1, <2>2, <2>3, <2>4, <2>5, <2>6, <2>7, <2>8, <2>9, <2>10
    DEF Configure
<1>4. QED
  BY <1>1, <1>2, <1>3 DEF QuietStep

(* The actions of log() up to the lock.                                    *)
Filtering(t) ==
  \/ Format(t) \/ Log(t) \/ LoadRank(t) \/ CompareRank(t) \/ FilterLevel(t)
  \/ CopyRankString(t)

LEMMA ResumesQuiet ==
  ASSUME TypeOK, NEW t \in Threads
  PROVE  frame[t].resume \in {"idle", "setComm"} /\ frame[t].resume \in Quiet
BY DEF TypeOK, FrameType, Quiet, Positions, Locked

LEMMA QuietFiltering ==
  ASSUME TypeOK, NEW t \in Threads, Filtering(t)
  PROVE  QuietStep(t)
<1> USE DEF once, sinks, control, OthersKept
<1>1. UNCHANGED <<mutex, sinks, warnFlag>>
  BY DEF Filtering, Format, Log, LoadRank, CompareRank, FilterLevel,
     CopyRankString
<1>2. OthersKept(t)
  <2>1. CASE Format(t)
    BY <2>1, BeginKeepsOthers DEF Format
  <2>2. CASE LoadRank(t) \/ CopyRankString(t)
    BY <2>2 DEF LoadRank, CopyRankString, TypeOK
  <2>3. CASE Log(t) \/ CompareRank(t) \/ FilterLevel(t)
    BY <2>3 DEF Log, CompareRank, FilterLevel
  <2>4. QED
    BY <2>1, <2>2, <2>3 DEF Filtering
<1>3. \E from, to \in Quiet : Step(t, from, to)
  <2>1. {"idle", "format", "log", "loadRank", "warnOnce", "compareRank",
         "filter", "prefix", "lock"} \subseteq Quiet
    BY DEF Quiet, Positions, Locked
  <2>2. CASE Format(t) \/ Log(t)
    BY <2>1, <2>2 DEF Format, BeginLog, Log
  <2>3. CASE LoadRank(t) \/ CopyRankString(t)
    BY <2>1, <2>3 DEF LoadRank, CopyRankString
  <2>4. CASE CompareRank(t) \/ FilterLevel(t)
    BY <2>1, <2>4, ResumesQuiet DEF CompareRank, FilterLevel, Return
  <2>5. QED
    BY <2>2, <2>3, <2>4 DEF Filtering
<1>4. QED
  BY <1>1, <1>2, <1>3 DEF QuietStep

LEMMA QuietSteps ==
  ASSUME TypeOK, NEW t \in Threads, Call(t) \/ Configure(t) \/ Filtering(t)
  PROVE  QuietStep(t)
BY QuietCall, QuietConfigure, QuietFiltering

LEMMA QuietStutter ==
  UNCHANGED vars => /\ UNCHANGED <<pc, frame, mutex, console, files, warnFlag>>
BY DEF vars, once, sinks, control

-----------------------------------------------------------------------------
(* Mutual exclusion *)

LEMMA LockInit == Init => LockInv
BY LoggerAssumption DEF Init, LockInv, Locked

LEMMA LockKept ==
  ASSUME TypeOK, LockInv, NEW t \in Threads, NEW from, NEW to,
         Step(t, from, to), from \in Locked <=> to \in Locked, mutex' = mutex
  PROVE  LockInv'
<1>1. \A u \in Threads : pc'[u] \in Locked <=> pc[u] \in Locked
  BY DEF TypeOK, Step
<1>2. QED
  BY <1>1 DEF LockInv

LEMMA LockEmit ==
  ASSUME TypeOK, LockInv, NEW t \in Threads, Emit(t)
  PROVE  LockInv'
<1> USE DEF once, sinks
<1>1. CASE Filtering(t)
  BY <1>1, QuietFiltering, LockKept DEF QuietStep, Quiet
<1>2. CASE EnterWarnOnce(t)
  <2>1. frame[t].resume \notin Locked
    BY ResumesQuiet DEF Quiet
  <2>2. {"warnOnce", "warnText"} \cap Locked = {}
    BY DEF Locked
  <2>3. QED
    BY <1>2, <2>1, <2>2, LockKept DEF EnterWarnOnce, Return
<1>3. CASE PrintUninitialized(t)
  <2>1. frame[t].resume \notin Locked
    BY ResumesQuiet DEF Quiet
  <2>2. {"warnText", "warnEnd"} \cap Locked = {}
    BY DEF Locked
  <2>3. QED
    BY <1>3, <2>1, <2>2, LockKept DEF PrintUninitialized, Return
<1>4. CASE TestShouldLog(t) \/ TestShouldWrite(t) \/ OpenFile(t)
  BY <1>4, LockKept DEF TestShouldLog, TestShouldWrite, OpenFile, Locked
<1>5. CASE PrintLine(t)
  BY <1>5, LockKept DEF PrintLine, Locked
<1>6. CASE WriteFile(t)
  <2>1. \/ Step(t, "writeText", "writeEnd") \/ Step(t, "writeEnd", "unlock")
    BY <1>6, Zenon DEF WriteFile
  <2>2. QED
    BY <1>6, <2>1, LockKept DEF WriteFile, Locked
<1>7. CASE Lock(t)
  BY <1>7, LoggerAssumption DEF Lock, Step, LockInv, Locked, TypeOK
<1>8. CASE Unlock(t)
  <2>1. pc[t] \in Locked /\ mutex = t
    BY <1>8 DEF Unlock, Return, Step, LockInv, Locked
  <2>2. \A u \in Threads : pc'[u] \notin Locked
    BY <1>8, <2>1, ResumesQuiet
    DEF Unlock, Return, Step, LockInv, TypeOK, Quiet
  <2>3. QED
    BY <1>8, <2>2, LoggerAssumption DEF Unlock, LockInv
<1>9. QED
  BY <1>1, <1>2, <1>3, <1>4, <1>5, <1>6, <1>7, <1>8 DEF Emit, Filtering

LEMMA LockNext == TypeOK /\ LockInv /\ [Next]_vars => LockInv'
<1> SUFFICES ASSUME TypeOK, LockInv, [Next]_vars PROVE LockInv'
  OBVIOUS
<1>1. CASE UNCHANGED vars \/ Done \/ MPI_Init
  BY <1>1, QuietStutter DEF LockInv, Done, MPI_Init
<1>2. ASSUME NEW t \in Threads, Call(t) \/ Configure(t)
      PROVE  LockInv'
  BY <1>2, QuietSteps, LockKept DEF QuietStep, Quiet
<1>3. QED
  BY <1>1, <1>2, LockEmit DEF Next

(* At most one thread is in the critical section of log_, and mutex_ is    *)
(* free exactly when there is none: the lock_guard is released on every    *)
(* path.                                                                   *)
THEOREM MutualExclusion == Spec => []LockInv
<1>1. TypeOK /\ LockInv /\ [Next]_vars => LockInv'
  BY LockNext
<1>2. QED
  BY LockInit, <1>1, TypeCorrect, PTL DEF Spec

-----------------------------------------------------------------------------
(* The warning of an uninitialised logger *)

LEMMA AppendUninit ==
  ASSUME TypeOK, NEW p \in Pieces, console' = Append(console, p),
         NEW part \in {"text", "end"}
  PROVE  UninitLines(part)' = UninitLines(part) \cup
           (IF p.kind = "uninit" /\ p.part = part
              THEN {Len(console) + 1} ELSE {})
<1>1. /\ DOMAIN console = 1 .. Len(console) /\ Len(console) \in Nat
      /\ DOMAIN console' = 1 .. Len(console) + 1
      /\ \A i \in 1 .. Len(console) : console'[i] = console[i]
      /\ console'[Len(console) + 1] = p
  BY DEF TypeOK
<1>2. QED
  BY <1>1 DEF UninitLines, On

LEMMA WarnInit == Init => WarnInv
BY DEF Init, WarnInv, Warning, WarnsAtMostOnce, UninitLines, On

(* A step that neither enters, leaves nor prints the warning.              *)
LEMMA WarnKept ==
  ASSUME TypeOK, WarnInv, NEW t \in Threads, NEW from, NEW to,
         Step(t, from, to), {from, to} \cap {"warnText", "warnEnd"} = {},
         warnFlag' = warnFlag,
         \A part \in {"text", "end"} : UninitLines(part)' = UninitLines(part)
  PROVE  WarnInv'
<1>1. \A u \in Threads : \A at \in {"warnText", "warnEnd"} :
         pc'[u] = at <=> pc[u] = at
  BY DEF TypeOK, Step
<1>2. QED
  BY <1>1 DEF WarnInv, Warning, WarnsAtMostOnce

LEMMA SameUninit ==
  ASSUME console' = console
  PROVE  \A part \in {"text", "end"} : UninitLines(part)' = UninitLines(part)
BY DEF UninitLines, On

LEMMA WarnEmit ==
  ASSUME TypeOK, WarnInv, NEW t \in Threads, Emit(t)
  PROVE  WarnInv'
<1> USE DEF once, sinks
<1> DEFINE Inside == {"warnText", "warnEnd"}
<1>1. CASE Filtering(t)
  BY <1>1, QuietFiltering, WarnKept, SameUninit DEF QuietStep, Quiet
<1>2. CASE EnterWarnOnce(t)
  <2>1. CASE warnFlag = "fresh" /\ warnFlag' = "active"
             /\ Step(t, "warnOnce", "warnText")
    <3>1. \A u \in Threads : Warning(u)' => u = t
      BY <2>1 DEF TypeOK, Step, Warning, WarnInv
    <3>2. UninitLines("text") = {} /\ UninitLines("text")' = {}
      BY <1>2, <2>1, SameUninit DEF WarnInv, EnterWarnOnce
    <3>3. pc'[t] = "warnText"
      BY <2>1 DEF Step, TypeOK
    <3>4. QED
      BY <2>1, <3>1, <3>2, <3>3 DEF WarnInv, Warning, WarnsAtMostOnce
  <2>2. CASE UNCHANGED warnFlag /\ Return(t, "warnOnce")
    BY <1>2, <2>2, ResumesQuiet, WarnKept, SameUninit
    DEF EnterWarnOnce, Return, Quiet
  <2>3. QED
    BY <1>2, <2>1, <2>2 DEF EnterWarnOnce
<1>3. CASE PrintUninitialized(t)
  <2>1. CASE /\ Step(t, "warnText", "warnEnd") /\ UNCHANGED warnFlag
             /\ console' = Append(console, Piece(t, "uninit", "text"))
    <3>1. Piece(t, "uninit", "text") \in Pieces
      BY PieceType
    <3>2. UninitLines("text")' = UninitLines("text") \cup {Len(console) + 1}
      BY <2>1, <3>1, AppendUninit DEF Piece
    <3>3. UninitLines("text") = {} /\ warnFlag = "active" /\ pc'[t] = "warnEnd"
      BY <2>1 DEF WarnInv, Warning, Step, TypeOK
    <3>4. \A u \in Threads : Warning(u)' => u = t
      BY <2>1 DEF TypeOK, Step, Warning, WarnInv
    <3>5. QED
      BY <2>1, <3>2, <3>3, <3>4 DEF WarnInv, Warning, WarnsAtMostOnce
  <2>2. CASE /\ Return(t, "warnEnd") /\ warnFlag' = "done"
             /\ console' = Append(console, Piece(t, "uninit", "end"))
    <3>1. Piece(t, "uninit", "end") \in Pieces
      BY PieceType
    <3>2. /\ UninitLines("text")' = UninitLines("text")
          /\ UninitLines("end")' = UninitLines("end") \cup {Len(console) + 1}
      BY <2>2, <3>1, AppendUninit DEF Piece
    <3>3. UninitLines("text") # {}
      BY <2>2 DEF WarnInv, Return, Step
    <3>4. frame[t].resume \notin {"warnText", "warnEnd"}
      BY ResumesQuiet
    <3>5. \A u \in Threads : ~ Warning(u)'
      BY <2>2, <3>4 DEF TypeOK, Return, Step, Warning, WarnInv
    <3>6. QED
      BY <2>2, <3>2, <3>3, <3>5 DEF WarnInv, Warning, WarnsAtMostOnce
  <2>3. QED
    BY <1>3, <2>1, <2>2 DEF PrintUninitialized
<1>4. CASE PrintLine(t)
  <2>1. PICK part \in {"text", "end"} :
             console' = Append(console, Piece(t, "log", part))
    BY <1>4, Zenon DEF PrintLine
  <2>2. \A q \in {"text", "end"} : UninitLines(q)' = UninitLines(q)
    BY <2>1, PieceType, AppendUninit DEF Piece
  <2>3. QED
    BY <1>4, <2>2, WarnKept DEF PrintLine
<1>5. CASE WriteFile(t)
  <2>1. \/ Step(t, "writeText", "writeEnd") \/ Step(t, "writeEnd", "unlock")
    BY <1>5, Zenon DEF WriteFile
  <2>2. QED
    BY <1>5, <2>1, WarnKept, SameUninit DEF WriteFile
<1>6. CASE Lock(t) \/ TestShouldLog(t) \/ TestShouldWrite(t) \/ OpenFile(t)
  BY <1>6, WarnKept, SameUninit
  DEF Lock, TestShouldLog, TestShouldWrite, OpenFile
<1>7. CASE Unlock(t)
  BY <1>7, ResumesQuiet, WarnKept, SameUninit DEF Unlock, Return, Quiet
<1>8. QED
  BY <1>1, <1>2, <1>3, <1>4, <1>5, <1>6, <1>7 DEF Emit, Filtering

LEMMA WarnNext == TypeOK /\ WarnInv /\ [Next]_vars => WarnInv'
<1> SUFFICES ASSUME TypeOK, WarnInv, [Next]_vars PROVE WarnInv'
  OBVIOUS
<1>1. CASE UNCHANGED vars \/ Done \/ MPI_Init
  <2>1. UNCHANGED <<pc, console, warnFlag>>
    BY <1>1, QuietStutter DEF Done, MPI_Init, sinks, once
  <2>2. QED
    BY <2>1, SameUninit DEF WarnInv, Warning, WarnsAtMostOnce
<1>2. ASSUME NEW t \in Threads, Call(t) \/ Configure(t)
      PROVE  WarnInv'
  BY <1>2, QuietSteps, WarnKept, SameUninit DEF QuietStep, Quiet, sinks
<1>3. QED
  BY <1>1, <1>2, WarnEmit DEF Next

LEMMA WarnInvariant == Spec => [](TypeOK /\ WarnInv)
<1>1. TypeOK /\ WarnInv /\ [Next]_vars => WarnInv'
  BY WarnNext
<1>2. QED
  BY WarnInit, <1>1, TypeCorrect, PTL DEF Spec

(* The warning that the logger is not initialised is printed once per      *)
(* process at most, whichever threads run into it.                         *)
THEOREM WarnedOnce == Spec => []WarnsAtMostOnce
<1>1. WarnInv => WarnsAtMostOnce
  BY DEF WarnInv
<1>2. QED
  BY <1>1, WarnInvariant, PTL

LEMMA OtherPositions ==
  ASSUME NEW t \in Threads,
         Call(t) \/ Configure(t) \/ (Emit(t) /\ ~ EnterWarnOnce(t)
                                           /\ ~ PrintUninitialized(t))
  PROVE  pc[t] \notin {"warnOnce", "warnEnd"}
<1> USE DEF Step, Return, BeginLog
<1>1. CASE Call(t)
  BY <1>1 DEF Call
<1>2. CASE Configure(t)
  BY <1>2
  DEF Configure, ReadMpiFlag, UpdateCurrentRank, FormatRankString,
      CheckLoggingRank, StoreLoggingRank, SetCommunicator, EnterInitOnce,
      SetLoggingLevel, SetOutputStream, SetDestinationBools,
      SetOutputFilename, Publish, Announce
<1>3. CASE Emit(t) /\ ~ EnterWarnOnce(t) /\ ~ PrintUninitialized(t)
  <2>1. CASE WriteFile(t)
    BY <2>1 DEF WriteFile
  <2>2. CASE ~ WriteFile(t)
    BY <1>3, <2>2
    DEF Emit, Format, Log, LoadRank, CompareRank, FilterLevel, CopyRankString,
        Lock, TestShouldLog, PrintLine, TestShouldWrite, OpenFile, Unlock
  <2>3. QED
    BY <2>1, <2>2
<1>4. QED
  BY <1>1, <1>2, <1>3

(* A thread leaves the refusal of a call only when the once_flag is done.  *)
LEMMA RefusalEnds ==
  ASSUME TypeOK, [Next]_vars, NEW t \in Threads,
         pc[t] \in {"warnOnce", "warnEnd"}, pc'[t] = "idle"
  PROVE  warnFlag' = "done"
<1>1. CASE UNCHANGED vars \/ Done \/ MPI_Init
  BY <1>1, QuietStutter DEF Done, MPI_Init
<1>2. ASSUME NEW u \in Threads, Call(u) \/ Configure(u) \/ Emit(u)
      PROVE  warnFlag' = "done"
  <2>1. \E from, to : Step(u, from, to)
    <3>1. CASE Call(u) \/ Configure(u) \/ Filtering(u)
      BY <3>1, QuietSteps DEF QuietStep
    <3>2. CASE WriteFile(u)
      BY <3>2, Zenon DEF WriteFile
    <3>3. CASE PrintUninitialized(u) \/ PrintLine(u) \/ EnterWarnOnce(u)
      BY <3>3, Zenon DEF PrintUninitialized, PrintLine, EnterWarnOnce, Return
    <3>4. CASE Lock(u) \/ TestShouldLog(u) \/ TestShouldWrite(u) \/ OpenFile(u)
               \/ Unlock(u)
      BY <3>4, Zenon
      DEF Lock, TestShouldLog, TestShouldWrite, OpenFile, Unlock, Return
    <3>5. QED
      BY <1>2, <3>1, <3>2, <3>3, <3>4 DEF Emit, Filtering
  <2>2. u = t
    BY <2>1 DEF Step, TypeOK
  <2>3. CASE EnterWarnOnce(t)
    BY <2>3 DEF EnterWarnOnce, Step, Return, TypeOK
  <2>4. CASE PrintUninitialized(t)
    BY <2>4 DEF PrintUninitialized, Step, Return, TypeOK
  <2>5. QED
    BY <1>2, <2>2, <2>3, <2>4, OtherPositions
<1>3. QED
  BY <1>1, <1>2 DEF Next

(* A call refused because the logger is not initialised returns only when  *)
(* the whole warning is on the console.                                    *)
THEOREM RefusalsExplained == Spec => RefusedCallsAreExplained
<1> DEFINE Explained ==
      \A t \in Threads : (pc[t] \in {"warnOnce", "warnEnd"} /\ pc'[t] = "idle")
        => (UninitLines("text") # {} /\ UninitLines("end") # {})'
<1>1. TypeOK /\ WarnInv /\ TypeOK' /\ WarnInv' /\ [Next]_vars
        => [Explained]_vars
  BY RefusalEnds DEF WarnInv
<1>2. QED
  BY <1>1, WarnInvariant, PTL DEF Spec, RefusedCallsAreExplained

-----------------------------------------------------------------------------
(* Whole lines: first the sequences, then the steps. *)

LEMMA AppendFacts ==
  ASSUME NEW S, NEW s \in Seq(S), NEW p \in S
  PROVE  /\ DOMAIN s = 1 .. Len(s) /\ Len(s) \in Nat
         /\ DOMAIN Append(s, p) = 1 .. Len(s) + 1
         /\ \A i \in 1 .. Len(s) : Append(s, p)[i] = s[i]
         /\ Append(s, p)[Len(s) + 1] = p
OBVIOUS

LEMMA TidyMore ==
  ASSUME NEW s, NEW open, NEW more, open \subseteq more, Tidy(s, open)
  PROVE  Tidy(s, more)
BY DEF Tidy

(* The text of a line may follow a sequence in which every line is closed. *)
LEMMA TidyText ==
  ASSUME NEW s \in Seq(Pieces), NEW p \in Pieces, Tidy(s, {})
  PROVE  Tidy(Append(s, p), {p})
<1> DEFINE e == Append(s, p)
           n == Len(s)
<1>1. /\ DOMAIN s = 1 .. n /\ n \in Nat /\ DOMAIN e = 1 .. n + 1
      /\ (\A i \in 1 .. n : e[i] = s[i]) /\ e[n + 1] = p
  BY AppendFacts
<1> HIDE DEF e, n
<1>2. \A i \in Logged(e) \cap On(e, "text") :
         i \in Logged(s) \cap On(s, "text") \/ i = n + 1
  BY <1>1 DEF Logged, On
<1>3. \A i \in Logged(s) \cap On(s, "text") :
         \E k \in i + 1 .. n : e[k] = [e[i] EXCEPT !.part = "end"]
  BY <1>1 DEF Tidy, Closed, Logged, On
<1>4. Whole(e)
  <2> SUFFICES ASSUME NEW i \in Logged(e) \cap On(e, "text"),
                      NEW j \in Logged(e) \cap On(e, "text"), i < j
               PROVE  \E k \in i + 1 .. j - 1 : e[k] = [e[i] EXCEPT !.part = "end"]
    BY DEF Whole
  <2>1. i \in 1 .. n /\ j \in 1 .. n + 1 /\ i \in Logged(s) \cap On(s, "text")
    BY <1>1, <1>2 DEF Logged, On
  <2>2. CASE j = n + 1
    BY <1>1, <1>3, <2>1, <2>2
  <2>3. CASE j \in Logged(s) \cap On(s, "text")
    <3>1. PICK k \in i + 1 .. j - 1 : s[k] = [s[i] EXCEPT !.part = "end"]
      BY <2>1, <2>3 DEF Tidy, Whole
    <3>2. k \in 1 .. n
      BY <1>1, <2>1, <2>3 DEF Logged
    <3>3. QED
      BY <1>1, <2>1, <3>1, <3>2
  <2>4. QED
    BY <1>2, <2>2, <2>3
<1>5. \A i \in Logged(e) \cap On(e, "text") : Closed(e, i) \/ e[i] \in {p}
  BY <1>1, <1>2, <1>3 DEF Closed, Logged
<1>6. QED
  BY <1>4, <1>5 DEF Tidy, e

(* A piece that is not the text of a line leaves the lines of s tidy; if it*)
(* ends the line that was open, none is left open.                         *)
LEMMA TidyOther ==
  ASSUME NEW s \in Seq(Pieces), NEW p \in Pieces, NEW open, NEW left,
         Tidy(s, open), p.kind = "log" => p.part = "end",
         \A q \in open : q \in left \/ p = [q EXCEPT !.part = "end"]
  PROVE  Tidy(Append(s, p), left)
<1> DEFINE e == Append(s, p)
           n == Len(s)
<1>1. /\ DOMAIN s = 1 .. n /\ n \in Nat /\ DOMAIN e = 1 .. n + 1
      /\ (\A i \in 1 .. n : e[i] = s[i]) /\ e[n + 1] = p
  BY AppendFacts
<1> HIDE DEF e, n
<1>2. Logged(e) \cap On(e, "text") = Logged(s) \cap On(s, "text")
  BY <1>1 DEF Logged, On
<1>3. \A i \in Logged(s) : i \in 1 .. n
  BY <1>1 DEF Logged
<1>4. Whole(e)
  <2> SUFFICES ASSUME NEW i \in Logged(s) \cap On(s, "text"),
                      NEW j \in Logged(s) \cap On(s, "text"), i < j
               PROVE  \E k \in i + 1 .. j - 1 : e[k] = [e[i] EXCEPT !.part = "end"]
    BY <1>2 DEF Whole
  <2>1. PICK k \in i + 1 .. j - 1 : s[k] = [s[i] EXCEPT !.part = "end"]
    BY DEF Tidy, Whole
  <2>2. k \in 1 .. n
    BY <1>1, <1>3
  <2>3. QED
    BY <1>1, <1>3, <2>1, <2>2
<1>5. ASSUME NEW i \in Logged(s) \cap On(s, "text")
      PROVE  Closed(e, i) \/ e[i] \in left
  <2>1. CASE Closed(s, i)
    BY <1>1, <1>3, <2>1 DEF Closed
  <2>2. CASE s[i] \in open /\ p = [s[i] EXCEPT !.part = "end"]
    BY <1>1, <1>3, <2>2 DEF Closed
  <2>3. QED
    BY <1>1, <1>3, <2>1, <2>2 DEF Tidy
<1>6. QED
  BY <1>2, <1>4, <1>5 DEF Tidy, e

LEMMA WholeInit == Init => WholeInv
<1> SUFFICES ASSUME Init PROVE WholeInv
  OBVIOUS
<1>1. console = <<>> /\ \A f \in Paths : files[f] = <<>>
  BY DEF Init
<1>2. \A open : Tidy(<<>>, open)
  BY DEF Tidy, Whole, Logged
<1>3. QED
  BY <1>1, <1>2 DEF WholeInv

(* What is open stays open while its thread does not move.                 *)
LEMMA OpenKept ==
  ASSUME TypeOK, NEW t \in Threads, NEW from, NEW to, Step(t, from, to),
         OthersKept(t)
  PROVE  /\ from # "printEnd" => LinesOf(Printing) \subseteq LinesOf(Printing)'
         /\ \A f \in Paths : from # "writeEnd" =>
              LinesOf(Writing(f)) \subseteq LinesOf(Writing(f))'
<1>1. \A u \in Threads \ {t} : /\ pc'[u] = pc[u] /\ frame'[u] = frame[u]
                              /\ Piece(u, "log", "text")' = Piece(u, "log", "text")
  BY DEF TypeOK, Step, OthersKept, Piece
<1>2. from # "printEnd" => \A u \in Printing : u # t /\ u \in Printing'
  BY <1>1 DEF Printing, Step
<1>3. \A f \in Paths : from # "writeEnd" =>
        \A u \in Writing(f) : u # t /\ u \in Writing(f)'
  BY <1>1 DEF Writing, Step
<1>4. (\A u \in Printing : u \in Threads)
        /\ \A f \in Paths : \A u \in Writing(f) : u \in Threads
  BY DEF Printing, Writing
<1>5. QED
  BY <1>1, <1>2, <1>3, <1>4 DEF LinesOf

LEMMA WholeKept ==
  ASSUME TypeOK, WholeInv, NEW t \in Threads, NEW from, NEW to,
         Step(t, from, to), from \notin {"printEnd", "writeEnd"},
         OthersKept(t), UNCHANGED sinks
  PROVE  WholeInv'
<1>1. /\ Tidy(console, LinesOf(Printing)')
      /\ \A f \in Paths : Tidy(files[f], LinesOf(Writing(f))')
  BY OpenKept, TidyMore DEF WholeInv
<1>2. QED
  BY <1>1 DEF WholeInv, sinks

(* In the critical section nothing but the line of its one thread is open. *)
LEMMA OpenInside ==
  ASSUME TypeOK, LockInv, NEW t \in Threads, pc[t] \in Locked
  PROVE  /\ Printing = IF pc[t] = "printEnd" THEN {t} ELSE {}
         /\ \A f \in Paths : Writing(f) =
              IF pc[t] = "writeEnd" /\ frame[t].path = f THEN {t} ELSE {}
BY DEF LockInv, Locked, Printing, Writing

LEMMA LinePieces ==
  ASSUME TypeOK, NEW t \in Threads
  PROVE  /\ Piece(t, "log", "text") \in Pieces /\ Piece(t, "log", "end") \in Pieces
         /\ Piece(t, "log", "end") = [Piece(t, "log", "text") EXCEPT !.part = "end"]
         /\ Piece(t, "log", "end").part = "end"
<1>1. Piece(t, "log", "text") \in Pieces /\ Piece(t, "log", "end") \in Pieces
  BY PieceType
<1>2. /\ Piece(t, "log", "end") = [Piece(t, "log", "text") EXCEPT !.part = "end"]
      /\ Piece(t, "log", "end").part = "end"
  BY DEF Piece
<1>3. QED
  BY <1>1, <1>2

LEMMA WholePrintLine ==
  ASSUME TypeOK, LockInv, LockInv', WholeInv, NEW t \in Threads, PrintLine(t)
  PROVE  WholeInv'
<1> DEFINE text == Piece(t, "log", "text")
           end  == Piece(t, "log", "end")
<1>1. /\ pc[t] \in {"printText", "printEnd"} /\ pc[t] \in Locked
      /\ pc'[t] \in {"printEnd", "shouldWrite"}
      /\ UNCHANGED <<files, frame>> /\ OthersKept(t)
      /\ \E from, to : Step(t, from, to) /\ from # "writeEnd"
  BY DEF PrintLine, Step, TypeOK, Locked, control, OthersKept
<1>2. text \in Pieces /\ end \in Pieces /\ end = [text EXCEPT !.part = "end"]
      /\ end.part = "end"
  BY LinePieces
<1>3. \A f \in Paths : Tidy(files[f], LinesOf(Writing(f)))'
  BY <1>1, OpenKept, TidyMore DEF WholeInv
<1>4. CASE pc[t] = "printText"
  <2>1. console' = Append(console, text) /\ pc'[t] = "printEnd"
    BY <1>4 DEF PrintLine, Step, TypeOK
  <2>2. Tidy(console, {})
    BY <1>1, <1>4, OpenInside DEF WholeInv, LinesOf
  <2>3. text \in LinesOf(Printing)'
    BY <1>1, <2>1 DEF LinesOf, Printing, Piece
  <2>4. console \in Seq(Pieces)
    BY DEF TypeOK
  <2>5. Tidy(console', {text})
    BY <1>2, <2>1, <2>2, <2>4, TidyText
  <2>6. {text} \subseteq LinesOf(Printing)'
    BY <2>3
  <2>7. Tidy(console', LinesOf(Printing)')
    BY <2>5, <2>6, TidyMore
  <2>8. QED
    BY <1>3, <2>7 DEF WholeInv
<1>5. CASE pc[t] = "printEnd"
  <2>1. console' = Append(console, end)
    BY <1>5 DEF PrintLine, Step
  <2>2. LinesOf(Printing) = {text}
    BY <1>1, <1>5, OpenInside DEF LinesOf
  <2>3. Tidy(console', LinesOf(Printing)')
    BY <1>2, <2>1, <2>2, TidyOther DEF TypeOK, WholeInv
  <2>4. QED
    BY <1>3, <2>3 DEF WholeInv
<1>6. QED
  BY <1>1, <1>4, <1>5

LEMMA WholePrintUninitialized ==
  ASSUME TypeOK, WholeInv, NEW t \in Threads, PrintUninitialized(t)
  PROVE  WholeInv'
<1>1. /\ UNCHANGED <<files, frame>> /\ OthersKept(t)
      /\ \E from, to : Step(t, from, to) /\ from \notin {"printEnd", "writeEnd"}
  BY DEF PrintUninitialized, control, OthersKept, Return
<1>2. PICK part \in {"text", "end"} :
           console' = Append(console, Piece(t, "uninit", part))
  BY Zenon DEF PrintUninitialized
<1>3. Piece(t, "uninit", part) \in Pieces /\ Piece(t, "uninit", part).kind # "log"
  BY PieceType DEF Piece
<1>4. Tidy(console', LinesOf(Printing)')
  BY <1>1, <1>2, <1>3, OpenKept, TidyOther DEF TypeOK, WholeInv
<1>5. \A f \in Paths : Tidy(files[f], LinesOf(Writing(f)))'
  BY <1>1, OpenKept, TidyMore DEF WholeInv
<1>6. QED
  BY <1>4, <1>5 DEF WholeInv

LEMMA WholeWriteFile ==
  ASSUME TypeOK, LockInv, WholeInv, NEW t \in Threads, WriteFile(t)
  PROVE  WholeInv'
<1> DEFINE text == Piece(t, "log", "text")
           end  == Piece(t, "log", "end")
           path == frame[t].path
<1>1. \/ /\ Step(t, "writeText", "writeEnd")
         /\ files' = [files EXCEPT ![path] = Append(@, text)]
      \/ /\ Step(t, "writeEnd", "unlock")
         /\ files' = [files EXCEPT ![path] = Append(@, end)]
  BY Zenon DEF WriteFile
<1>2. /\ UNCHANGED <<console, frame>> /\ OthersKept(t) /\ path \in Paths
      /\ pc[t] \in Locked
  BY <1>1 DEF WriteFile, control, OthersKept, TypeOK, FrameType, Step, Locked
<1>3. text \in Pieces /\ end \in Pieces /\ end = [text EXCEPT !.part = "end"]
      /\ end.part = "end"
  BY LinePieces
<1>4. Tidy(console, LinesOf(Printing))'
  BY <1>1, <1>2, OpenKept, TidyMore DEF WholeInv
<1> HIDE DEF text, end
<1>5. ASSUME NEW f \in Paths PROVE Tidy(files[f], LinesOf(Writing(f)))'
  <2>1. files[f] \in Seq(Pieces) /\ Tidy(files[f], LinesOf(Writing(f)))
    BY DEF TypeOK, WholeInv
  <2>2. CASE f # path
    <3>1. files'[f] = files[f] /\ t \notin Writing(f)
      BY <1>1, <2>2 DEF TypeOK, Writing
    <3>2. LinesOf(Writing(f)) = {}
      BY <1>2, <2>2, OpenInside DEF LinesOf
    <3>3. QED
      BY <2>1, <3>1, <3>2, TidyMore
  <2>3. CASE f = path /\ pc[t] = "writeText"
    <3>1. files'[f] = Append(files[f], text) /\ pc'[t] = "writeEnd"
      BY <1>1, <2>3 DEF TypeOK, Step
    <3>2. Tidy(files[f], {})
      BY <1>2, <2>1, <2>3, OpenInside DEF LinesOf
    <3>3. text \in LinesOf(Writing(f))'
      BY <1>2, <2>3, <3>1 DEF LinesOf, Writing, Piece, text
    <3>4. Tidy(files'[f], {text})
      BY <1>3, <2>1, <3>1, <3>2, TidyText
    <3>5. {text} \subseteq LinesOf(Writing(f))'
      BY <3>3
    <3>6. QED
      BY <3>4, <3>5, TidyMore
  <2>4. CASE f = path /\ pc[t] = "writeEnd"
    <3>1. files'[f] = Append(files[f], end)
      BY <1>1, <2>4 DEF TypeOK, Step
    <3>2. LinesOf(Writing(f)) = {text}
      BY <1>2, <2>4, OpenInside DEF LinesOf, text
    <3>3. Tidy(Append(files[f], end), {})
      <4>1. Tidy(files[f], {text})
        BY <2>1, <3>2
      <4>2. \A q \in {text} : q \in {} \/ end = [q EXCEPT !.part = "end"]
        BY <1>3
      <4>3. QED
        BY <1>3, <2>1, <4>1, <4>2, TidyOther
    <3>4. QED
      BY <3>1, <3>3, TidyMore
  <2>5. QED
    BY <1>1, <2>2, <2>3, <2>4 DEF Step
<1>6. QED
  BY <1>4, <1>5 DEF WholeInv

LEMMA WholeNext ==
  TypeOK /\ LockInv /\ LockInv' /\ WholeInv /\ [Next]_vars => WholeInv'
<1> SUFFICES ASSUME TypeOK, LockInv, LockInv', WholeInv, [Next]_vars
             PROVE  WholeInv'
  OBVIOUS
<1>1. CASE UNCHANGED vars \/ Done \/ MPI_Init
  <2>1. UNCHANGED <<pc, frame, console, files>>
    BY <1>1, QuietStutter DEF Done, MPI_Init, sinks, control
  <2>2. LinesOf(Printing)' = LinesOf(Printing)
        /\ \A f \in Paths : LinesOf(Writing(f))' = LinesOf(Writing(f))
    BY <2>1 DEF LinesOf, Printing, Writing, Piece
  <2>3. QED
    BY <2>1, <2>2 DEF WholeInv
<1>2. ASSUME NEW t \in Threads, Call(t) \/ Configure(t) \/ Emit(t)
      PROVE  WholeInv'
  <2>1. CASE Call(t) \/ Configure(t) \/ Filtering(t)
    BY <2>1, QuietSteps, WholeKept DEF QuietStep, Quiet, Locked
  <2>2. CASE EnterWarnOnce(t)
    BY <2>2, WholeKept DEF EnterWarnOnce, Return, control, OthersKept
  <2>3. CASE Lock(t) \/ TestShouldLog(t) \/ TestShouldWrite(t) \/ Unlock(t)
    BY <2>3, WholeKept
    DEF Lock, TestShouldLog, TestShouldWrite, Unlock, Return, control, OthersKept
  <2>4. CASE OpenFile(t)
    <3>1. OthersKept(t)
      BY <2>4 DEF OpenFile, OthersKept, TypeOK
    <3>2. QED
      BY <2>4, <3>1, WholeKept DEF OpenFile
  <2>5. QED
    BY <1>2, <2>1, <2>2, <2>3, <2>4, WholePrintLine, WholePrintUninitialized,
       WholeWriteFile DEF Emit, Filtering
<1>3. QED
  BY <1>1, <1>2 DEF Next

(* Two lines written through log_ never run into each other, on the console*)
(* or in a file, for any number of threads.                                *)
THEOREM WholeLines == Spec => []LinesStayWhole
<1>1. TypeOK /\ LockInv /\ LockInv' /\ WholeInv /\ [Next]_vars => WholeInv'
  BY WholeNext
<1>2. WholeInv => LinesStayWhole
  BY DEF WholeInv, Tidy, LinesStayWhole
<1>3. QED
  BY WholeInit, <1>1, <1>2, TypeCorrect, MutualExclusion, PTL DEF Spec

-----------------------------------------------------------------------------
(* The start-up of the logger: several threads may race to initialise it,  *)
(* and others log at any time.                                             *)

LEMMA StartInit == Init => StartInv
BY DEF Init, StartInv, ConfigFromOneCall, Body

(* A step outside the body of call_once.                                   *)
LEMMA StartKept ==
  ASSUME TypeOK, StartInv, NEW t \in Threads, NEW from, NEW to,
         Step(t, from, to), from \notin Body \cup {"idle"}, to \notin Body,
         to = "initOnce" => Initializing(t),
         UNCHANGED <<initialized, initFlag, config, call>>
  PROVE  StartInv'
<1>1. /\ \A u \in Threads : u # t => pc'[u] = pc[u]
      /\ pc'[t] = to /\ pc[t] = from
  BY DEF TypeOK, Step
<1>2. \A u \in Threads : pc'[u] \in Body => u # t /\ pc[u] \in Body
  BY <1>1
<1>3. \A u \in Threads : Initializing(u)' <=> Initializing(u)
  BY DEF Initializing
<1>4. \A u \in Threads : pc'[u] # "idle" =>
        \E k \in DOMAIN Program[u] : call'[u] \in Program[u][k]
  BY <1>1 DEF StartInv
<1>5. \A u \in Threads : pc'[u] \in Body \cup {"initOnce"} => Initializing(u)'
  BY <1>1, <1>3 DEF StartInv
<1>6. \A u \in Threads : pc'[u] \in Body => initFlag' = "active" /\ Assigned(u)'
  BY <1>1, <1>2 DEF StartInv, Assigned, config, output
<1>7. ConfigFromOneCall'
  BY DEF StartInv, ConfigFromOneCall, config, output
<1>8. QED
  BY <1>2, <1>4, <1>5, <1>6, <1>7 DEF StartInv

LEMMA StartCall ==
  ASSUME NoSetters, TypeOK, StartInv, NEW t \in Threads, Call(t)
  PROVE  StartInv'
<1>1. PICK c \in Program[t][made[t] + 1] :
        /\ call' = [call EXCEPT ![t] = c]
        /\ Step(t, "idle",
            CASE c.op = "initialize"        -> "initOnce"
              [] c.op = "initializeWithMPI" -> "mpiFlag"
              [] c.op = "finalize"          -> "finalize"
              [] c.op = "log"               -> "format"
              [] c.op = "setLoggingLevel"   -> "level"
              [] c.op = "setOutputStream"   -> "dst"
              [] c.op = "setOutputFilename" -> "file"
              [] c.op = "setLoggingRank"    -> "setRank"
              [] c.op = "setCommunicator"   -> "setComm")
  BY Zenon DEF Call
<1>2. made[t] + 1 \in DOMAIN Program[t]
  BY LoggerAssumption DEF Call, TypeOK
<1>3. c \in CallType /\ c.op \notin Setters
  BY <1>2, LoggerAssumption DEF NoSetters
<1>4. /\ pc'[t] \notin Body
      /\ pc'[t] = "initOnce" => c.op = "initialize"
  BY <1>1, <1>3 DEF TypeOK, Step, CallType, Ops, Setters, Body
<1>5. call'[t] = c /\ \A u \in Threads : u # t => call'[u] = call[u] /\ pc'[u] = pc[u]
  BY <1>1 DEF TypeOK, Step
<1>6. \A u \in Threads : pc'[u] # "idle" =>
        \E k \in DOMAIN Program[u] : call'[u] \in Program[u][k]
  BY <1>2, <1>5 DEF StartInv
<1>7. \A u \in Threads : pc'[u] \in Body \cup {"initOnce"} => Initializing(u)'
  BY <1>4, <1>5 DEF StartInv, Initializing
<1>8. UNCHANGED <<initialized, initFlag, config>>
  BY DEF Call, once
<1>9. \A u \in Threads : pc'[u] \in Body => /\ u # t /\ pc[u] \in Body
                                           /\ initFlag' = "active" /\ Assigned(u)'
  BY <1>4, <1>5, <1>8 DEF StartInv, Assigned, config, output
<1>10. ConfigFromOneCall'
  BY <1>8 DEF StartInv, ConfigFromOneCall, config, output
<1>11. QED
  BY <1>6, <1>7, <1>8, <1>9, <1>10 DEF StartInv

LEMMA StartEmit ==
  ASSUME TypeOK, StartInv, NEW t \in Threads, Emit(t)
  PROVE  StartInv'
<1>1. UNCHANGED <<initialized, initFlag, config, call>>
  BY DEF Emit, Format, BeginLog, Log, EnterWarnOnce, PrintUninitialized,
     LoadRank, CompareRank, FilterLevel, CopyRankString, Lock, TestShouldLog,
     PrintLine, TestShouldWrite, OpenFile, WriteFile, Unlock, once, control
<1>2. frame[t].resume \in {"idle", "setComm"}
  BY DEF TypeOK, FrameType
<1>3. \E from, to : /\ Step(t, from, to) /\ from \notin Body \cup {"idle"}
                    /\ to \notin Body \cup {"initOnce"}
  <2> USE DEF Body
  <2>1. CASE Format(t) \/ Log(t)
    BY <2>1 DEF Format, BeginLog, Log
  <2>2. CASE EnterWarnOnce(t) \/ PrintUninitialized(t)
    BY <1>2, <2>2 DEF EnterWarnOnce, PrintUninitialized, Return
  <2>3. CASE LoadRank(t) \/ CompareRank(t) \/ FilterLevel(t) \/ CopyRankString(t)
    BY <1>2, <2>3
    DEF LoadRank, CompareRank, FilterLevel, CopyRankString, Return
  <2>4. CASE Lock(t) \/ TestShouldLog(t) \/ PrintLine(t) \/ TestShouldWrite(t)
    BY <2>4 DEF Lock, TestShouldLog, PrintLine, TestShouldWrite
  <2>5. CASE OpenFile(t) \/ Unlock(t)
    BY <1>2, <2>5 DEF OpenFile, Unlock, Return
  <2>6. CASE WriteFile(t)
    <3>1. \/ Step(t, "writeText", "writeEnd") \/ Step(t, "writeEnd", "unlock")
      BY <2>6, Zenon DEF WriteFile
    <3>2. QED
      BY <3>1
  <2>7. QED
    BY <2>1, <2>2, <2>3, <2>4, <2>5, <2>6 DEF Emit
<1>4. QED
  BY <1>1, <1>3, StartKept

(* A step of the thread in the body that stays in it.                      *)
LEMMA StartBody ==
  ASSUME TypeOK, StartInv, NEW t \in Threads, NEW from, NEW to \in Body,
         Step(t, from, to), from \in Body, UNCHANGED <<initialized, initFlag, call>>,
         Assigned(t)'
  PROVE  StartInv'
<1>1. /\ \A u \in Threads : u # t => pc'[u] = pc[u]
      /\ pc'[t] = to /\ pc[t] = from
  BY DEF TypeOK, Step
<1>2. ~ initialized /\ initFlag = "active"
  BY <1>1 DEF StartInv
<1>3. \A u \in Threads : pc'[u] \in Body <=> u = t
  BY <1>1 DEF StartInv
<1>4. \A u \in Threads : pc'[u] # "idle" =>
        \E k \in DOMAIN Program[u] : call'[u] \in Program[u][k]
  BY <1>1 DEF StartInv, Body
<1>5. \A u \in Threads : pc'[u] \in Body \cup {"initOnce"} => Initializing(u)'
  BY <1>1 DEF StartInv, Initializing
<1>6. QED
  BY <1>2, <1>3, <1>4, <1>5 DEF StartInv, ConfigFromOneCall

LEMMA StartEnter ==
  ASSUME TypeOK, StartInv, NEW t \in Threads, EnterInitOnce(t)
  PROVE  StartInv'
<1>1. CASE initFlag = "done"
  <2>1. Step(t, "initOnce", "announce")
          /\ UNCHANGED <<initialized, initFlag, config, call>>
    BY <1>1 DEF EnterInitOnce, control
  <2>2. QED
    BY <2>1, StartKept DEF Body
<1>2. CASE initFlag = "fresh"
  <2>1. /\ Step(t, "initOnce", "level") /\ initFlag' = "active"
        /\ UNCHANGED <<initialized, config, call>>
    BY <1>2 DEF EnterInitOnce, control
  <2>2. /\ \A u \in Threads : u # t => pc'[u] = pc[u]
        /\ pc'[t] = "level" /\ pc[t] = "initOnce"
    BY <2>1 DEF TypeOK, Step
  <2>3. ~ initialized /\ \A u \in Threads : pc[u] \notin Body
    BY <1>2 DEF StartInv
  <2>4. \A u \in Threads : pc'[u] \in Body => u = t
    BY <2>2, <2>3
  <2>5. Assigned(t)'
    BY <2>2 DEF Assigned
  <2>6. \A u \in Threads : pc'[u] # "idle" =>
          \E k \in DOMAIN Program[u] : call'[u] \in Program[u][k]
    BY <2>1, <2>2 DEF StartInv
  <2>7. \A u \in Threads : pc'[u] \in Body \cup {"initOnce"} => Initializing(u)'
    BY <2>1, <2>2, <2>4 DEF StartInv, Initializing
  <2>8. QED
    BY <2>1, <2>3, <2>4, <2>5, <2>6, <2>7 DEF StartInv, ConfigFromOneCall
<1>3. QED
  BY <1>1, <1>2 DEF EnterInitOnce

(* The last step of the body publishes one call's configuration.           *)
LEMMA StartPublish ==
  ASSUME TypeOK, StartInv, NEW t \in Threads, Publish(t)
  PROVE  StartInv'
<1>1. /\ \A u \in Threads : u # t => pc'[u] = pc[u]
      /\ pc'[t] = "announce" /\ pc[t] = "publish"
      /\ initialized' = TRUE /\ initFlag' = "done" /\ UNCHANGED <<config, call>>
  BY DEF TypeOK, Step, Publish, control
<1>2. Assigned(t) /\ Initializing(t)
  BY <1>1 DEF StartInv, Body
<1>3. PICK k \in DOMAIN Program[t] : call[t] \in Program[t][k]
  BY <1>1 DEF StartInv
<1>4. ConfigFromOneCall'
  <2>1. /\ call[t].op \in {"initialize", "initializeWithMPI"}
        /\ loggingLevel' = call[t].level /\ dst' = call[t].dst
        /\ logFile' = call[t].file /\ shouldLog' = ShouldLog(call[t].dst)
        /\ shouldWrite' = ShouldWrite(call[t].dst)
    BY <1>1, <1>2 DEF Assigned, Initializing, config, output
  <2>2. QED
    BY <1>3, <2>1 DEF ConfigFromOneCall
<1>5. \A u \in Threads : pc'[u] \notin Body
  BY <1>1 DEF StartInv, Body
<1>6. \A u \in Threads : pc'[u] # "idle" =>
        \E n \in DOMAIN Program[u] : call'[u] \in Program[u][n]
  BY <1>1, <1>3 DEF StartInv
<1>7. \A u \in Threads : pc'[u] \in Body \cup {"initOnce"} => Initializing(u)'
  BY <1>1, <1>5 DEF StartInv, Initializing
<1>8. QED
  BY <1>1, <1>4, <1>5, <1>6, <1>7 DEF StartInv

LEMMA StartConfigure ==
  ASSUME TypeOK, StartInv, NEW t \in Threads, Configure(t)
  PROVE  StartInv'
<1> USE DEF once, config, output, control
<1>1. pc[t] \in Body \cup {"initOnce"} => Initializing(t)
  BY DEF StartInv
<1>2. pc[t] \in Body => Assigned(t)
  BY DEF StartInv
<1>3. CASE ReadMpiFlag(t) \/ UpdateCurrentRank(t)
  BY <1>3, StartKept DEF ReadMpiFlag, UpdateCurrentRank, Body
<1>4. CASE FormatRankString(t, "rankStr", "rankStrEnd", "setRank")
  BY <1>4, StartKept DEF FormatRankString, Body
<1>5. CASE CheckLoggingRank(t)
  BY <1>5, StartKept DEF CheckLoggingRank, BeginLog, AfterSetRank, Body
<1>6. CASE StoreLoggingRank(t) \/ SetCommunicator(t)
  BY <1>6, StartKept DEF StoreLoggingRank, SetCommunicator, AfterSetRank, Body
<1>7. CASE EnterInitOnce(t)
  BY <1>7, StartEnter
<1>8. CASE SetLoggingLevel(t)
  <2>1. Step(t, "level", "dst") /\ UNCHANGED <<initialized, initFlag, call>>
    BY <1>1, <1>8 DEF SetLoggingLevel, Step, Body
  <2>2. Assigned(t)'
    BY <1>8, <2>1 DEF SetLoggingLevel, Assigned, Step, TypeOK
  <2>3. QED
    BY <2>1, <2>2, StartBody DEF Body
<1>9. CASE SetOutputStream(t)
  <2>1. Step(t, "dst", "bools") /\ UNCHANGED <<initialized, initFlag, call>>
    BY <1>9 DEF SetOutputStream
  <2>2. Assigned(t)'
    BY <1>2, <1>9, <2>1 DEF SetOutputStream, Assigned, Step, TypeOK, Body
  <2>3. QED
    BY <2>1, <2>2, StartBody DEF Body
<1>10. CASE SetDestinationBools(t)
  <2>1. Initializing(t) /\ Assigned(t) /\ dst = call[t].dst
    BY <1>1, <1>2, <1>10 DEF SetDestinationBools, Step, Assigned, Body
  <2>2. UNCHANGED <<initialized, initFlag, call, loggingLevel, dst, logFile>>
    BY <1>10 DEF SetDestinationBools
  <2>3. CASE /\ shouldWrite' = ShouldWrite(dst) /\ UNCHANGED shouldLog
             /\ Step(t, "bools", "boolLog") \/ Step(t, "boolWrite", "file")
    <3>1. Assigned(t)'
      BY <2>1, <2>2, <2>3 DEF Assigned, Step, TypeOK
    <3>2. QED
      BY <2>2, <2>3, <3>1, StartBody DEF Body
  <2>4. CASE /\ shouldLog' = ShouldLog(dst) /\ UNCHANGED shouldWrite
             /\ Step(t, "bools", "boolWrite") \/ Step(t, "boolLog", "file")
    <3>1. Assigned(t)'
      BY <2>1, <2>2, <2>4 DEF Assigned, Step, TypeOK
    <3>2. QED
      BY <2>2, <2>4, <3>1, StartBody DEF Body
  <2>5. QED
    BY <1>10, <2>1, <2>3, <2>4 DEF SetDestinationBools
<1>11. CASE SetOutputFilename(t)
  <2>1. /\ \/ Step(t, "file", "fileEnd")
           \/ Step(t, "fileEnd", "initStr") /\ logFile' = call[t].file
        /\ UNCHANGED <<initialized, initFlag, call, loggingLevel, output>>
    BY <1>1, <1>11 DEF SetOutputFilename, Step, Body
  <2>2. /\ \/ pc[t] = "file" /\ pc'[t] = "fileEnd"
           \/ pc[t] = "fileEnd" /\ pc'[t] = "initStr" /\ logFile' = call[t].file
        /\ Assigned(t)
    BY <1>2, <2>1 DEF Step, TypeOK, Body
  <2>3. Assigned(t)'
    BY <2>1, <2>2 DEF Assigned
  <2>4. QED
    BY <2>1, <2>3, StartBody DEF Body
<1>12. CASE FormatRankString(t, "initStr", "initStrEnd", "publish")
  <2>1. /\ Step(t, "initStr", "initStrEnd") \/ Step(t, "initStrEnd", "publish")
        /\ UNCHANGED <<initialized, initFlag, call, config>>
    BY <1>12 DEF FormatRankString
  <2>2. Assigned(t)'
    BY <1>2, <2>1 DEF Assigned, Step, TypeOK, Body
  <2>3. QED
    BY <2>1, <2>2, StartBody DEF Body
<1>13. CASE Publish(t)
  BY <1>13, StartPublish
<1>14. CASE Announce(t)
  BY <1>14, StartKept DEF Announce, BeginLog, Body
<1>15. QED
  BY <1>3, <1>4, <1>5, <1>6, <1>7, <1>8, <1>9, <1>10, <1>11, <1>12, <1>13,
     <1>14 DEF Configure

LEMMA StartNext ==
  ASSUME NoSetters, TypeOK, StartInv, [Next]_vars
  PROVE  StartInv'
<1>1. CASE UNCHANGED vars \/ Done \/ MPI_Init
  BY <1>1 DEF StartInv, ConfigFromOneCall, Assigned, Initializing, Done,
     MPI_Init, vars, once, config, output, control
<1>2. ASSUME NEW t \in Threads, Call(t) \/ Configure(t) \/ Emit(t)
      PROVE  StartInv'
  BY <1>2, StartCall, StartConfigure, StartEmit
<1>3. QED
  BY <1>1, <1>2 DEF Next

LEMMA StartInvariant == ASSUME NoSetters PROVE Spec => [](TypeOK /\ StartInv)
<1>1. TypeOK /\ StartInv /\ [Next]_vars => StartInv'
  BY StartNext
<1>2. QED
  BY StartInit, <1>1, TypeCorrect, PTL DEF Spec

(* When the program leaves the configuration to initialize, the logger runs*)
(* with the arguments of one initialize call, however many threads race to *)
(* initialise it.                                                          *)
THEOREM OneConfiguration == ASSUME NoSetters PROVE Spec => []ConfigFromOneCall
<1>1. StartInv => ConfigFromOneCall
  BY DEF StartInv
<1>2. QED
  BY <1>1, StartInvariant, PTL

-----------------------------------------------------------------------------
(* Whole strings *)

LEMMA PublishInit == Init => PublishInv
<1> SUFFICES ASSUME Init PROVE PublishInv
  OBVIOUS
<1>1. /\ ~ initialized /\ console = <<>> /\ \A f \in Paths : files[f] = <<>>
      /\ \A t \in Threads : pc[t] = "idle" /\ frame[t].resume = "idle"
  BY DEF Init
<1>2. NoTornOutput
  BY <1>1 DEF NoTornOutput, Logged, Paths
<1>3. QED
  BY <1>1, <1>2 DEF PublishInv, MPIPositions, Running, Locked

(* A step that writes no string and nothing to an output.                  *)
SameStrings(t) ==
  /\ frame'[t].prefix = frame[t].prefix /\ frame'[t].path = frame[t].path
  /\ frame'[t].resume = "idle"
  /\ \A u \in Threads \ {t} : frame'[u] = frame[u]

LEMMA PublishKept ==
  ASSUME TypeOK, PublishInv, NEW t \in Threads, NEW from, NEW to,
         Step(t, from, to), to \notin MPIPositions \cup {"publish"},
         to \in Running => initialized,
         to \in Locked \cup {"lock"} => from \in Locked \cup {"lock"},
         to \in {"writeText", "writeEnd"} => from \in {"writeText", "writeEnd"},
         SameStrings(t), UNCHANGED <<initialized, rankStr, logFile, sinks>>
  PROVE  PublishInv'
<1>1. /\ \A u \in Threads : u # t => pc'[u] = pc[u]
      /\ pc'[t] = to /\ pc[t] = from
  BY DEF TypeOK, Step
<1>2. NoTornOutput'
  BY DEF PublishInv, NoTornOutput, Logged, sinks
<1>3. QED
  BY <1>1, <1>2 DEF PublishInv, SameStrings

LEMMA BeginStrings ==
  ASSUME TypeOK, NEW t \in Threads, NEW from, NEW level,
         BeginLog(t, from, level, "idle")
  PROVE  SameStrings(t) /\ Step(t, from, "log")
BY DEF TypeOK, FrameType, BeginLog, SameStrings

LEMMA KeptStrings ==
  ASSUME PublishInv, NEW t \in Threads, UNCHANGED frame
  PROVE  SameStrings(t)
BY DEF PublishInv, SameStrings

LEMMA PublishCall ==
  ASSUME ~ MPIEnabled, TypeOK, PublishInv, NEW t \in Threads, Call(t)
  PROVE  PublishInv'
<1>1. made[t] + 1 \in DOMAIN Program[t]
  BY LoggerAssumption DEF Call, TypeOK
<1>2. \A c \in Program[t][made[t] + 1] : c \in CallType /\ c.op \notin MPIOps
  BY <1>1, LoggerAssumption
<1>3. \E to \in {"initOnce", "finalize", "format", "level", "dst", "file"} :
        Step(t, "idle", to)
  BY <1>2 DEF Call, CallType, Ops, MPIOps
<1>4. UNCHANGED <<initialized, rankStr, logFile, sinks, frame>>
  BY DEF Call, once, config, ranks
<1>5. QED
  BY <1>3, <1>4, PublishKept, KeptStrings DEF MPIPositions, Running, Locked

(* In the body of call_once the logger is not published yet.               *)
LEMMA PublishBody ==
  ASSUME TypeOK, StartInv, PublishInv, NEW t \in Threads, NEW from \in Body,
         NEW to, Step(t, from, to), to \notin MPIPositions \cup Running,
         to = "publish" => rankStr' \notin {Blank, Torn},
         UNCHANGED <<initialized, sinks, frame>>
  PROVE  PublishInv'
<1>1. /\ \A u \in Threads : u # t => pc'[u] = pc[u]
      /\ pc'[t] = to /\ pc[t] = from
  BY DEF TypeOK, Step
<1>2. ~ initialized /\ \A u \in Threads : pc[u] = "publish" => u = t
  BY <1>1 DEF StartInv, Body
<1>3. NoTornOutput'
  BY DEF PublishInv, NoTornOutput, Logged, sinks
<1>4. QED
  BY <1>1, <1>2, <1>3 DEF PublishInv, Running, Locked

LEMMA PublishPublish ==
  ASSUME TypeOK, StartInv, PublishInv, NEW t \in Threads, Publish(t)
  PROVE  PublishInv'
<1>1. /\ \A u \in Threads : u # t => pc'[u] = pc[u]
      /\ pc'[t] = "announce" /\ pc[t] = "publish"
      /\ UNCHANGED <<rankStr, logFile, sinks, frame>> /\ initialized' = TRUE
  BY DEF TypeOK, Step, Publish, control, config, ranks
<1>2. logFile \in Files /\ rankStr \notin {Blank, Torn}
  BY <1>1 DEF StartInv, Body, Assigned, PublishInv, TypeOK, CallType
<1>3. logFile # Torn
  BY <1>2, LoggerAssumption
<1>4. NoTornOutput'
  BY <1>1 DEF PublishInv, NoTornOutput, Logged, sinks
<1>5. QED
  BY <1>1, <1>2, <1>3, <1>4 DEF PublishInv, MPIPositions, Running, Locked

LEMMA PublishConfigure ==
  ASSUME TypeOK, StartInv, PublishInv, NEW t \in Threads, Configure(t)
  PROVE  PublishInv'
<1> USE DEF once, config, output, ranks, control
<1>1. pc[t] \notin MPIPositions /\ (pc[t] \in Body => Initializing(t))
  BY DEF PublishInv, StartInv
<1>2. CASE EnterInitOnce(t)
  BY <1>2, PublishKept, KeptStrings DEF EnterInitOnce, MPIPositions, Running, Locked
<1>3. CASE SetLoggingLevel(t) \/ SetOutputStream(t)
  BY <1>3, PublishKept, KeptStrings
  DEF SetLoggingLevel, SetOutputStream, MPIPositions, Running, Locked
<1>4. CASE SetDestinationBools(t)
  BY <1>4, PublishKept, KeptStrings
  DEF SetDestinationBools, MPIPositions, Running, Locked
<1>5. CASE SetOutputFilename(t)
  BY <1>5, PublishBody DEF SetOutputFilename, Body, MPIPositions, Running, Locked
<1>6. CASE FormatRankString(t, "initStr", "initStrEnd", "publish")
  <2>1. currentRank \notin {Blank, Torn}
    BY LoggerAssumption DEF TypeOK
  <2>2. QED
    BY <1>6, <2>1, PublishBody
    DEF FormatRankString, Body, MPIPositions, Running, Locked
<1>7. CASE Publish(t)
  BY <1>7, PublishPublish
<1>8. CASE Announce(t)
  BY <1>8, BeginStrings, PublishKept DEF Announce, MPIPositions, Running, Locked
<1>9. CASE ReadMpiFlag(t) \/ UpdateCurrentRank(t) \/ CheckLoggingRank(t)
           \/ StoreLoggingRank(t) \/ SetCommunicator(t)
           \/ FormatRankString(t, "rankStr", "rankStrEnd", "setRank")
  BY <1>1, <1>9
  DEF ReadMpiFlag, UpdateCurrentRank, CheckLoggingRank, BeginLog,
      StoreLoggingRank, SetCommunicator, FormatRankString, Step, MPIPositions
<1>10. QED
  BY <1>2, <1>3, <1>4, <1>5, <1>6, <1>7, <1>8, <1>9 DEF Configure

LEMMA PrintedPieces ==
  ASSUME TypeOK, NoTornOutput, NEW t \in Threads,
         NEW kind \in {"uninit", "log"}, NEW part \in {"text", "end"},
         kind = "log" => frame[t].prefix \notin {Blank, Torn},
         console' = Append(console, Piece(t, kind, part)), files' = files
  PROVE  NoTornOutput'
<1> DEFINE p == Piece(t, kind, part)
<1>1. p \in Pieces /\ console \in Seq(Pieces)
  BY PieceType DEF TypeOK
<1>2. p.kind = "log" => p.prefix \notin {Blank, Torn}
  BY DEF Piece
<1> HIDE DEF p
<1>3. /\ console' = Append(console, p)
      /\ DOMAIN console' = 1 .. Len(console) + 1 /\ Len(console) \in Nat
      /\ DOMAIN console = 1 .. Len(console)
      /\ \A i \in 1 .. Len(console) : console'[i] = console[i]
      /\ console'[Len(console) + 1] = p
  BY <1>1 DEF p
<1>4. \A i \in Logged(console)' : console'[i].prefix \notin {Blank, Torn}
  BY <1>2, <1>3 DEF NoTornOutput, Logged
<1>5. QED
  BY <1>4 DEF NoTornOutput

LEMMA WrittenPieces ==
  ASSUME TypeOK, NoTornOutput, NEW t \in Threads, NEW part \in {"text", "end"},
         frame[t].prefix \notin {Blank, Torn}, frame[t].path # Torn,
         files' = [files EXCEPT ![frame[t].path] =
                     Append(@, Piece(t, "log", part))], console' = console
  PROVE  NoTornOutput'
<1> DEFINE p == Piece(t, "log", part)
           path == frame[t].path
<1>1. p \in Pieces /\ path \in Paths /\ files \in [Paths -> Seq(Pieces)]
  BY PieceType DEF TypeOK, FrameType
<1>2. p.prefix \notin {Blank, Torn}
  BY DEF Piece
<1>3. files' = [files EXCEPT ![path] = Append(@, p)]
  OBVIOUS
<1> HIDE DEF p, path
<1>4. ASSUME NEW f \in Files, NEW i \in DOMAIN files'[f]
      PROVE  files'[f][i].prefix \notin {Blank, Torn}
  <2>1. files[f] \in Seq(Pieces) /\ f \in Paths
    BY <1>1 DEF Paths
  <2>2. CASE f # path
    BY <1>1, <1>3, <1>4, <2>1, <2>2 DEF NoTornOutput
  <2>3. CASE f = path
    <3>1. files'[f] = Append(files[f], p)
      BY <1>1, <1>3, <2>1, <2>3
    <3>2. /\ DOMAIN files'[f] = 1 .. Len(files[f]) + 1 /\ Len(files[f]) \in Nat
          /\ DOMAIN files[f] = 1 .. Len(files[f])
          /\ \A j \in 1 .. Len(files[f]) : files'[f][j] = files[f][j]
          /\ files'[f][Len(files[f]) + 1] = p
      BY <1>1, <2>1, <3>1
    <3>3. QED
      BY <1>2, <1>4, <3>2 DEF NoTornOutput
  <2>4. QED
    BY <2>2, <2>3
<1>5. files'[Torn] = <<>>
  BY <1>1, <1>3 DEF NoTornOutput, Paths, path
<1>6. \A i \in Logged(console)' : console'[i].prefix \notin {Blank, Torn}
  BY DEF NoTornOutput, Logged
<1>7. QED
  BY <1>4, <1>5, <1>6 DEF NoTornOutput

(* The actions of log() that write strings or outputs.                     *)
LEMMA PublishWrites ==
  ASSUME TypeOK, PublishInv, NEW t \in Threads,
         \/ PrintUninitialized(t) \/ CopyRankString(t) \/ PrintLine(t)
         \/ OpenFile(t) \/ WriteFile(t)
  PROVE  PublishInv'
<1> USE DEF once, config, output, ranks, sinks, control
<1>1. CASE PrintUninitialized(t)
  <2>1. /\ \/ Step(t, "warnText", "warnEnd") \/ Step(t, "warnEnd", "idle")
        /\ UNCHANGED <<initialized, rankStr, logFile, frame, files>>
    BY <1>1 DEF PrintUninitialized, Return, PublishInv
  <2>2. NoTornOutput'
    <3>1. \E part \in {"text", "end"} :
            console' = Append(console, Piece(t, "uninit", part))
      BY <1>1, Zenon DEF PrintUninitialized
    <3>2. QED
      BY <2>1, <3>1, PrintedPieces DEF PublishInv
  <2>3. QED
    BY <2>1, <2>2 DEF PublishInv, Step, TypeOK, MPIPositions, Running, Locked
<1>2. CASE CopyRankString(t)
  <2>1. rankStr \notin {Blank, Torn}
    BY <1>2 DEF CopyRankString, Step, PublishInv, Running
  <2>2. /\ frame'[t].prefix = rankStr /\ frame'[t].resume = frame[t].resume
        /\ \A u \in Threads : u # t => frame'[u] = frame[u]
    BY <1>2 DEF CopyRankString, TypeOK, FrameType
  <2>3. NoTornOutput'
    BY <1>2 DEF CopyRankString, PublishInv, NoTornOutput, Logged
  <2>4. /\ \A u \in Threads : u # t => pc'[u] = pc[u]
        /\ pc'[t] = "lock" /\ pc[t] = "prefix"
        /\ UNCHANGED <<initialized, rankStr, logFile>>
    BY <1>2 DEF CopyRankString, Step, TypeOK
  <2>5. QED
    BY <2>1, <2>2, <2>3, <2>4 DEF PublishInv, MPIPositions, Running, Locked
<1>3. CASE PrintLine(t)
  <2>1. /\ \/ Step(t, "printText", "printEnd") \/ Step(t, "printEnd", "shouldWrite")
        /\ UNCHANGED <<initialized, rankStr, logFile, frame, files>>
    BY <1>3 DEF PrintLine
  <2>2. frame[t].prefix \notin {Blank, Torn}
    BY <2>1 DEF Step, PublishInv, Locked
  <2>3. NoTornOutput'
    <3>1. \E part \in {"text", "end"} :
            console' = Append(console, Piece(t, "log", part))
      BY <1>3, Zenon DEF PrintLine
    <3>2. QED
      BY <2>1, <2>2, <3>1, PrintedPieces DEF PublishInv
  <2>4. QED
    BY <2>1, <2>3 DEF PublishInv, Step, TypeOK, MPIPositions, Running, Locked
<1>4. CASE OpenFile(t)
  <2>1. logFile # Torn
    BY <1>4 DEF OpenFile, Step, PublishInv, Running, Locked
  <2>2. /\ frame'[t].path = logFile /\ frame'[t].resume = frame[t].resume
        /\ frame'[t].prefix = frame[t].prefix
        /\ \A u \in Threads : u # t => frame'[u] = frame[u]
    BY <1>4 DEF OpenFile, TypeOK, FrameType
  <2>3. NoTornOutput'
    BY <1>4 DEF OpenFile, PublishInv, NoTornOutput, Logged
  <2>4. /\ \A u \in Threads : u # t => pc'[u] = pc[u]
        /\ pc'[t] \in {"writeText", "unlock"} /\ pc[t] = "open"
        /\ UNCHANGED <<initialized, rankStr, logFile>>
    BY <1>4 DEF OpenFile, Step, TypeOK
  <2>5. QED
    BY <2>1, <2>2, <2>3, <2>4 DEF PublishInv, MPIPositions, Running, Locked
<1>5. CASE WriteFile(t)
  <2>1. PICK part \in {"text", "end"} :
          /\ \/ Step(t, "writeText", "writeEnd") \/ Step(t, "writeEnd", "unlock")
          /\ files' = [files EXCEPT ![frame[t].path] =
                          Append(@, Piece(t, "log", part))]
    BY <1>5, Zenon DEF WriteFile
  <2>2. UNCHANGED <<initialized, rankStr, logFile, frame, console>>
    BY <1>5 DEF WriteFile
  <2>3. frame[t].prefix \notin {Blank, Torn} /\ frame[t].path # Torn
    BY <2>1 DEF Step, PublishInv, Locked
  <2>4. NoTornOutput'
    BY <2>1, <2>2, <2>3, WrittenPieces DEF PublishInv
  <2>5. QED
    BY <2>1, <2>2, <2>4 DEF PublishInv, Step, TypeOK, MPIPositions, Running, Locked
<1>6. QED
  BY <1>1, <1>2, <1>3, <1>4, <1>5

LEMMA PublishEmit ==
  ASSUME TypeOK, PublishInv, NEW t \in Threads, Emit(t)
  PROVE  PublishInv'
<1> USE DEF once, config, output, ranks, control, MPIPositions, Running, Locked
<1>1. CASE Format(t)
  <2>1. CASE BeginLog(t, "format", call[t].level, "idle")
    BY <1>1, <2>1, BeginStrings, PublishKept DEF Format
  <2>2. CASE Step(t, "format", "idle") /\ UNCHANGED control
    BY <1>1, <2>2, PublishKept, KeptStrings DEF Format
  <2>3. QED
    BY <1>1, <2>1, <2>2 DEF Format
<1>2. CASE Log(t)
  BY <1>2, PublishKept, KeptStrings DEF Log
<1>3. CASE EnterWarnOnce(t)
  BY <1>3, PublishKept, KeptStrings DEF EnterWarnOnce, Return, PublishInv
<1>4. CASE LoadRank(t)
  <2>1. SameStrings(t) /\ initialized
    BY <1>4 DEF LoadRank, SameStrings, TypeOK, FrameType, Step, PublishInv
  <2>2. QED
    BY <1>4, <2>1, PublishKept DEF LoadRank
<1>5. CASE CompareRank(t) \/ FilterLevel(t)
  <2>1. initialized /\ frame[t].resume = "idle"
    BY <1>5 DEF CompareRank, FilterLevel, Return, Step, PublishInv
  <2>2. QED
    BY <1>5, <2>1, PublishKept, KeptStrings DEF CompareRank, FilterLevel, Return
<1>6. CASE Lock(t) \/ TestShouldLog(t) \/ TestShouldWrite(t)
  <2>1. initialized
    BY <1>6 DEF Lock, TestShouldLog, TestShouldWrite, Step, PublishInv
  <2>2. QED
    BY <1>6, <2>1, PublishKept, KeptStrings
    DEF Lock, TestShouldLog, TestShouldWrite
<1>7. CASE Unlock(t)
  BY <1>7, PublishKept, KeptStrings DEF Unlock, Return, PublishInv
<1>8. QED
  BY <1>1, <1>2, <1>3, <1>4, <1>5, <1>6, <1>7, PublishWrites DEF Emit

LEMMA PublishNext ==
  ASSUME ~ MPIEnabled, TypeOK, StartInv, PublishInv, [Next]_vars
  PROVE  PublishInv'
<1>1. CASE UNCHANGED vars \/ Done \/ MPI_Init
  BY <1>1 DEF PublishInv, NoTornOutput, Logged, Done, MPI_Init, vars, once,
     config, output, ranks, sinks, control
<1>2. ASSUME NEW t \in Threads, Call(t) \/ Configure(t) \/ Emit(t)
      PROVE  PublishInv'
  BY <1>2, PublishCall, PublishConfigure, PublishEmit
<1>3. QED
  BY <1>1, <1>2 DEF Next

(* In a build without MPI, and when the program leaves the configuration to*)
(* initialize, no line carries a missing or half-written rank string and no*)
(* file is opened under a half-written name, whoever logs during the       *)
(* initialisation.                                                         *)
THEOREM WholeStrings ==
  ASSUME NoSetters, ~ MPIEnabled PROVE Spec => []NoTornOutput
<1>1. TypeOK /\ StartInv /\ PublishInv /\ [Next]_vars => PublishInv'
  BY PublishNext
<1>2. PublishInv => NoTornOutput
  BY DEF PublishInv
<1>3. QED
  BY PublishInit, <1>1, <1>2, StartInvariant, PTL DEF Spec

-----------------------------------------------------------------------------
(* Programs in which m alone configures the logger *)

(* What a step of another thread than m leaves alone.                      *)
SameRanks == UNCHANGED <<initialized, loggingRank, mpiInitialized, comm>>

LEMMA OthersInit ==
  ASSUME NEW m \in Threads PROVE Init => OnlyLogging(m)
BY DEF Init, OnlyLogging, LoggingPositions

(* The step of a thread other than m that stays inside log.                *)
LEMMA OthersKeepLogging ==
  ASSUME TypeOK, NEW m \in Threads, OnlyLogging(m), NEW t \in Threads, t # m,
         NEW from, NEW to \in LoggingPositions, Step(t, from, to), SameRanks,
         call'[m] = call[m],
         \A u \in Threads \ {m} : frame'[u].resume = "idle"
  PROVE  OnlyLogging(m)'
BY DEF OnlyLogging, SameRanks, Step, TypeOK

LEMMA BeginKeepsResume ==
  ASSUME TypeOK, NEW m \in Threads, OnlyLogging(m), NEW t \in Threads, t # m,
         NEW from, NEW level, BeginLog(t, from, level, "idle")
  PROVE  \A u \in Threads \ {m} : frame'[u].resume = "idle"
<1> DEFINE counted  == [frame EXCEPT ![t].n = @ + 1]
           levelled == [counted EXCEPT ![t].level = level]
<1>1. /\ DOMAIN frame = Threads
      /\ frame' = [levelled EXCEPT ![t].resume = "idle"]
  BY DEF BeginLog, TypeOK
<1>2. frame[t] \in FrameType
  BY DEF TypeOK
<1>3. frame'[t].resume = "idle"
  BY <1>1, <1>2 DEF FrameType
<1>4. \A u \in Threads \ {t} : frame'[u] = frame[u]
  BY <1>1
<1>5. QED
  BY <1>3, <1>4 DEF OnlyLogging

LEMMA OthersCall ==
  ASSUME TypeOK, NEW m \in Threads, Configures(m), OnlyLogging(m),
         NEW t \in Threads, Call(t)
  PROVE  OnlyLogging(m)'
<1>1. made[t] + 1 \in DOMAIN Program[t]
  BY LoggerAssumption DEF Call, TypeOK
<1>2. CASE t = m
  <2>1. QuietStep(m)
    BY <1>2, QuietCall
  <2>2. \A u \in Threads \ {m} : pc'[u] = pc[u] /\ frame'[u] = frame[u]
    BY <2>1 DEF QuietStep, OthersKept, Step, TypeOK
  <2>3. QED
    BY <2>2 DEF OnlyLogging
<1>3. CASE t # m
  <2>1. PICK c \in Program[t][made[t] + 1] :
          /\ call' = [call EXCEPT ![t] = c]
          /\ c.op = "log" => Step(t, "idle", "format")
          /\ c.op = "finalize" => Step(t, "idle", "finalize")
    BY DEF Call
  <2>2. c.op \in {"log", "finalize"}
    BY <1>1, <1>3 DEF Configures
  <2>3. Step(t, "idle", "format") \/ Step(t, "idle", "finalize")
    BY <2>1, <2>2
  <2>4. SameRanks /\ frame' = frame /\ call'[m] = call[m]
    BY <1>3, <2>1 DEF Call, SameRanks, once, ranks, TypeOK
  <2>5. QED
    BY <1>3, <2>3, <2>4, OthersKeepLogging DEF OnlyLogging, LoggingPositions
<1>4. QED
  BY <1>2, <1>3

(* Another thread than m takes one step of Configure only: the message of  *)
(* finalize.                                                               *)
LEMMA OnlyAnnounces ==
  ASSUME NEW m \in Threads, OnlyLogging(m), NEW t \in Threads, t # m,
         Configure(t)
  PROVE  /\ BeginLog(t, "finalize", LogLevel.info, "idle")
         /\ UNCHANGED <<once, config, ranks, mutex, sinks, mpiUp>>
<1>1. pc[t] \in LoggingPositions
  BY DEF OnlyLogging
<1>2. /\ ~ ReadMpiFlag(t) /\ ~ UpdateCurrentRank(t) /\ ~ CheckLoggingRank(t)
      /\ ~ StoreLoggingRank(t) /\ ~ SetCommunicator(t) /\ ~ EnterInitOnce(t)
      /\ ~ FormatRankString(t, "rankStr", "rankStrEnd", "setRank")
  BY <1>1 DEF LoggingPositions, Locked, ReadMpiFlag, UpdateCurrentRank,
     CheckLoggingRank, StoreLoggingRank, SetCommunicator, EnterInitOnce,
     FormatRankString, BeginLog, Step
<1>3. /\ ~ SetLoggingLevel(t) /\ ~ SetOutputStream(t) /\ ~ SetDestinationBools(t)
      /\ ~ SetOutputFilename(t) /\ ~ Publish(t)
      /\ ~ FormatRankString(t, "initStr", "initStrEnd", "publish")
  BY <1>1 DEF LoggingPositions, Locked, SetLoggingLevel, SetOutputStream,
     SetDestinationBools, SetOutputFilename, Publish, FormatRankString, Step
<1>4. Announce(t)
  BY <1>2, <1>3 DEF Configure
<1>5. ~ BeginLog(t, "announce", LogLevel.info, "idle")
  BY <1>1 DEF LoggingPositions, Locked, BeginLog, Step
<1>6. QED
  BY <1>4, <1>5 DEF Announce

LEMMA OthersConfigure ==
  ASSUME TypeOK, NEW m \in Threads, OnlyLogging(m), NEW t \in Threads, Configure(t)
  PROVE  OnlyLogging(m)'
<1>1. CASE t # m
  <2>1. /\ BeginLog(t, "finalize", LogLevel.info, "idle")
        /\ UNCHANGED <<once, config, ranks, mutex, sinks, mpiUp>>
    BY <1>1, OnlyAnnounces
  <2>2. Step(t, "finalize", "log") /\ SameRanks /\ call' = call
    BY <2>1 DEF BeginLog, SameRanks, once, ranks
  <2>3. \A u \in Threads \ {m} : frame'[u].resume = "idle"
    BY <1>1, <2>1, BeginKeepsResume
  <2>4. QED
    BY <1>1, <2>2, <2>3, OthersKeepLogging DEF LoggingPositions
<1>2. CASE t = m
  <2>1. QuietStep(m)
    BY <1>2, QuietConfigure
  <2>2. \A u \in Threads \ {m} : pc'[u] = pc[u] /\ frame'[u] = frame[u]
    BY <2>1 DEF QuietStep, OthersKept, Step, TypeOK
  <2>3. QED
    BY <2>2 DEF OnlyLogging
<1>3. QED
  BY <1>1, <1>2

(* A step of log leaves the ranks alone, and a thread inside log stays there*)
(* until it resumes what called it.                                        *)
LEMMA EmitSteps ==
  ASSUME TypeOK, NEW t \in Threads, Emit(t)
  PROVE  /\ SameRanks /\ call' = call
         /\ \E from, to : Step(t, from, to) /\ to \in LoggingPositions \cup {frame[t].resume}
         /\ \A u \in Threads \ {t} : frame'[u] = frame[u]
         /\ frame'[t].resume \in {"idle", frame[t].resume}
<1> USE DEF SameRanks, once, config, ranks, control
<1>0. frame \in [Threads -> FrameType] /\ frame[t] \in FrameType
  BY DEF TypeOK
<1>1. CASE Format(t)
  <2>1. CASE BeginLog(t, "format", call[t].level, "idle")
    <3> DEFINE counted  == [frame EXCEPT ![t].n = @ + 1]
               levelled == [counted EXCEPT ![t].level = call[t].level]
    <3>1. frame' = [levelled EXCEPT ![t].resume = "idle"]
      BY <2>1 DEF BeginLog
    <3>2. frame'[t].resume = "idle" /\ \A u \in Threads \ {t} : frame'[u] = frame[u]
      BY <1>0, <3>1 DEF FrameType
    <3>3. SameRanks /\ call' = call /\ Step(t, "format", "log")
      BY <1>1, <2>1 DEF Format, BeginLog
    <3>4. QED
      BY <3>2, <3>3 DEF LoggingPositions
  <2>2. CASE Step(t, "format", "idle") /\ UNCHANGED control
    BY <1>1, <2>2 DEF Format, LoggingPositions
  <2>3. QED
    BY <1>1, <2>1, <2>2 DEF Format
<1>2. CASE Log(t) \/ EnterWarnOnce(t) \/ PrintUninitialized(t)
  BY <1>2 DEF Log, EnterWarnOnce, PrintUninitialized, Return, LoggingPositions
<1>3. CASE CompareRank(t) \/ FilterLevel(t) \/ Lock(t) \/ Unlock(t)
  BY <1>3 DEF CompareRank, FilterLevel, Lock, Unlock, Return, LoggingPositions,
     Locked
<1>4. CASE TestShouldLog(t) \/ PrintLine(t) \/ TestShouldWrite(t) \/ WriteFile(t)
  BY <1>4 DEF TestShouldLog, PrintLine, TestShouldWrite, WriteFile,
     LoggingPositions, Locked
<1>5. CASE LoadRank(t)
  BY <1>0, <1>5 DEF LoadRank, FrameType, LoggingPositions
<1>6. CASE CopyRankString(t)
  BY <1>0, <1>6 DEF CopyRankString, FrameType, LoggingPositions
<1>7. CASE OpenFile(t)
  BY <1>0, <1>7 DEF OpenFile, FrameType, LoggingPositions, Locked
<1>8. QED
  BY <1>1, <1>2, <1>3, <1>4, <1>5, <1>6, <1>7 DEF Emit

LEMMA OthersEmit ==
  ASSUME TypeOK, NEW m \in Threads, OnlyLogging(m), NEW t \in Threads, Emit(t)
  PROVE  OnlyLogging(m)'
<1>1. /\ SameRanks /\ call' = call
      /\ \A u \in Threads \ {t} : frame'[u] = frame[u]
      /\ frame'[t].resume \in {"idle", frame[t].resume}
  BY EmitSteps
<1>2. PICK from, to : Step(t, from, to) /\ to \in LoggingPositions \cup {frame[t].resume}
  BY EmitSteps
<1>3. CASE t # m
  <2>1. frame[t].resume = "idle"
    BY <1>3 DEF OnlyLogging
  <2>2. to \in LoggingPositions /\ \A u \in Threads \ {m} : frame'[u].resume = "idle"
    BY <1>1, <1>2, <2>1 DEF OnlyLogging, LoggingPositions
  <2>3. QED
    BY <1>1, <1>2, <1>3, <2>2, OthersKeepLogging
<1>4. CASE t = m
  BY <1>1, <1>2, <1>4 DEF OnlyLogging, Step, TypeOK
<1>5. QED
  BY <1>3, <1>4

LEMMA OthersNext ==
  ASSUME NEW m \in Threads, Configures(m), TypeOK, OnlyLogging(m), [Next]_vars
  PROVE  OnlyLogging(m)'
<1>1. CASE UNCHANGED vars \/ Done \/ MPI_Init
  BY <1>1 DEF OnlyLogging, Done, MPI_Init, vars, once, ranks, control
<1>2. ASSUME NEW t \in Threads, Call(t) \/ Configure(t) \/ Emit(t)
      PROVE  OnlyLogging(m)'
  BY <1>2, OthersCall, OthersConfigure, OthersEmit
<1>3. QED
  BY <1>1, <1>2 DEF Next

-----------------------------------------------------------------------------
(* The logging rank: setLoggingRank tests the rank and stores it in two    *)
(* steps, and any other thread may come in between.                        *)

RankPositions ==
  {"mpiFlag", "currentRank", "rankStr", "rankStrEnd", "setRank", "storeRank"}
RankCalls == {"initializeWithMPI", "setLoggingRank"}

(* The rank that t is about to store was tested in its call.               *)
Tested(t) ==
  /\ mpiUp
  /\ since[t].initialized =>
       \E c \in since[t].comms : call[t].rank < CommSize[c]

RankInv ==
  /\ since \in [Threads -> [initialized: BOOLEAN, comms: SUBSET Comms]]
  /\ mpiInitialized => mpiUp
  /\ \A t \in Threads :
       /\ pc[t] # "idle" => comm \in since[t].comms
       /\ since[t].initialized => initialized
       /\ pc[t] \in RankPositions => call[t].op \in RankCalls
       /\ pc[t] = "storeRank" => Tested(t)

LEMMA RankInit == HInit => RankInv
BY DEF HInit, Init, RankInv, RankPositions, Nothing

(* What a step of t does to the ranks and to the other threads.            *)
RankStep(t) ==
  /\ initialized => initialized'
  /\ mpiUp' = mpiUp /\ mpiInitialized' \in {mpiInitialized, mpiUp}
  /\ \A u \in Threads \ {t} : pc'[u] = pc[u] /\ call'[u] = call[u]
  /\ pc'[t] \in RankPositions => call'[t].op \in RankCalls
  /\ pc'[t] = "storeRank" => CheckLoggingRank(t)
  /\ loggingRank' # loggingRank => StoreLoggingRank(t)

LEMMA CallRanks ==
  ASSUME TypeOK, NEW t \in Threads, Call(t)
  PROVE  RankStep(t)
<1>1. PICK c \in Program[t][made[t] + 1] :
        /\ call' = [call EXCEPT ![t] = c]
        /\ Step(t, "idle",
             CASE c.op = "initialize"        -> "initOnce"
               [] c.op = "initializeWithMPI" -> "mpiFlag"
               [] c.op = "finalize"          -> "finalize"
               [] c.op = "log"               -> "format"
               [] c.op = "setLoggingLevel"   -> "level"
               [] c.op = "setOutputStream"   -> "dst"
               [] c.op = "setOutputFilename" -> "file"
               [] c.op = "setLoggingRank"    -> "setRank"
               [] c.op = "setCommunicator"   -> "setComm")
  BY DEF Call
<1>2. c \in CallType
  <2>1. made[t] + 1 \in DOMAIN Program[t]
    BY LoggerAssumption DEF Call, TypeOK
  <2>2. QED
    BY <2>1, LoggerAssumption
<1>3. call'[t].op = c.op /\ \A u \in Threads \ {t} : call'[u] = call[u]
  BY <1>1 DEF TypeOK
<1>4. \A u \in Threads \ {t} : pc'[u] = pc[u]
  BY <1>1 DEF Step, TypeOK
<1>5. /\ pc'[t] \in RankPositions => c.op \in RankCalls
      /\ pc'[t] # "storeRank"
  BY <1>1, <1>2 DEF Step, TypeOK, CallType, Ops, RankPositions, RankCalls
<1>6. UNCHANGED <<initialized, mpiUp, mpiInitialized, loggingRank>>
  BY DEF Call, once, ranks
<1>7. QED
  BY <1>3, <1>4, <1>5, <1>6 DEF RankStep

LEMMA ConfigureRanks ==
  ASSUME TypeOK, RankInv, NEW t \in Threads, Configure(t)
  PROVE  RankStep(t)
<1> USE DEF once, config, output, ranks
<1>1. call' = call /\ mpiUp' = mpiUp
  BY DEF Configure, ReadMpiFlag, UpdateCurrentRank, FormatRankString,
     CheckLoggingRank, StoreLoggingRank, SetCommunicator, EnterInitOnce,
     SetLoggingLevel, SetOutputStream, SetDestinationBools, SetOutputFilename,
     Publish, Announce, BeginLog, control
<1>2. /\ initialized => initialized'
      /\ mpiInitialized' \in {mpiInitialized, mpiUp}
      /\ loggingRank' # loggingRank => StoreLoggingRank(t)
  BY DEF Configure, ReadMpiFlag, UpdateCurrentRank, FormatRankString,
     CheckLoggingRank, StoreLoggingRank, SetCommunicator, EnterInitOnce,
     SetLoggingLevel, SetOutputStream, SetDestinationBools, SetOutputFilename,
     Publish, Announce
<1>3. \A u \in Threads \ {t} : pc'[u] = pc[u]
  BY QuietConfigure DEF QuietStep, Step, TypeOK
<1>4. /\ pc'[t] \in RankPositions => pc[t] \in RankPositions
      /\ pc'[t] = "storeRank" => CheckLoggingRank(t)
  <2> USE DEF RankPositions, Step, TypeOK
  <2>1. CASE ReadMpiFlag(t) \/ UpdateCurrentRank(t) \/ CheckLoggingRank(t)
    BY <2>1 DEF ReadMpiFlag, UpdateCurrentRank, CheckLoggingRank, BeginLog
  <2>2. CASE \/ FormatRankString(t, "rankStr", "rankStrEnd", "setRank")
             \/ FormatRankString(t, "initStr", "initStrEnd", "publish")
    BY <2>2 DEF FormatRankString
  <2>3. CASE StoreLoggingRank(t) \/ SetCommunicator(t) \/ EnterInitOnce(t)
    BY <2>3 DEF StoreLoggingRank, AfterSetRank, SetCommunicator, EnterInitOnce
  <2>4. CASE SetLoggingLevel(t) \/ SetOutputStream(t) \/ SetDestinationBools(t)
             \/ SetOutputFilename(t)
    BY <2>4 DEF SetLoggingLevel, SetOutputStream, SetDestinationBools,
       SetOutputFilename
  <2>5. CASE Publish(t) \/ Announce(t)
    BY <2>5 DEF Publish, Announce, BeginLog
  <2>6. QED
    BY <2>1, <2>2, <2>3, <2>4, <2>5 DEF Configure
<1>5. QED
  BY <1>1, <1>2, <1>3, <1>4 DEF RankStep, RankInv

LEMMA EmitRanks ==
  ASSUME TypeOK, NEW t \in Threads, Emit(t)
  PROVE  RankStep(t)
<1>1. PICK from, to : Step(t, from, to) /\ to \in LoggingPositions \cup {frame[t].resume}
  BY EmitSteps
<1>2. frame[t].resume \in {"idle", "setComm"}
  BY DEF TypeOK, FrameType
<1>3. pc'[t] \notin RankPositions /\ \A u \in Threads \ {t} : pc'[u] = pc[u]
  BY <1>1, <1>2 DEF Step, TypeOK, RankPositions, LoggingPositions, Locked
<1>4. SameRanks /\ call' = call
  BY EmitSteps
<1>5. mpiUp' = mpiUp
  BY DEF Emit, Format, Log, EnterWarnOnce, PrintUninitialized, LoadRank,
     CompareRank, FilterLevel, CopyRankString, Lock, TestShouldLog, PrintLine,
     TestShouldWrite, OpenFile, WriteFile, Unlock
<1>6. QED
  BY <1>3, <1>4, <1>5 DEF RankStep, SameRanks, RankPositions

(* The test of setLoggingRank lets only a rank below the size through.     *)
LEMMA TestPassed ==
  ASSUME TypeOK, NEW t \in Threads, CheckLoggingRank(t), pc'[t] = "storeRank"
  PROVE  /\ mpiInitialized /\ pc[t] # "idle"
         /\ UNCHANGED <<comm, call, initialized>>
         /\ initialized => call[t].rank < CommSize[comm]
<1>1. call[t].rank \in Int /\ CommSize[comm] \in Nat
  BY LoggerAssumption DEF TypeOK, CallType
<1>2. AfterSetRank(t) # "storeRank"
  BY DEF AfterSetRank
<1>3. QED
  BY <1>1, <1>2 DEF CheckLoggingRank, BeginLog, Step, TypeOK, once, ranks, control

(* What the history records of the call of u.                              *)
LEMMA SinceIs ==
  ASSUME TypeOK, RankInv, RecordSince, comm' \in Comms, NEW u \in Threads
  PROVE  /\ since'[u] \in [initialized: BOOLEAN, comms: SUBSET Comms]
         /\ pc'[u] # "idle" => comm' \in since'[u].comms
         /\ since'[u].initialized => initialized
         /\ (pc[u] # "idle" /\ pc'[u] # "idle") =>
              /\ since'[u].initialized = since[u].initialized
              /\ since[u].comms \subseteq since'[u].comms
<1>1. since[u] \in [initialized: BOOLEAN, comms: SUBSET Comms]
  BY DEF RankInv
<1>2. since'[u] = IF pc'[u] = "idle" THEN Nothing
                  ELSE IF pc[u] = "idle"
                  THEN [initialized |-> initialized, comms |-> {comm'}]
                  ELSE [since[u] EXCEPT !.comms = @ \cup {comm'}]
  BY DEF RecordSince
<1>3. CASE pc'[u] = "idle"
  BY <1>2, <1>3 DEF Nothing
<1>4. CASE pc'[u] # "idle" /\ pc[u] = "idle"
  BY <1>2, <1>4 DEF TypeOK
<1>5. CASE pc'[u] # "idle" /\ pc[u] # "idle"
  BY <1>1, <1>2, <1>5 DEF RankInv
<1>6. QED
  BY <1>3, <1>4, <1>5

LEMMA RankStepKeeps ==
  ASSUME TypeOK, TypeOK', RankInv, RecordSince, NEW t \in Threads, RankStep(t)
  PROVE  RankInv'
<1>1. comm' \in Comms
  BY DEF TypeOK
<1>2. since' \in [Threads -> [initialized: BOOLEAN, comms: SUBSET Comms]]
  BY <1>1, SinceIs DEF RecordSince
<1>3. mpiInitialized' => mpiUp'
  BY DEF RankStep, RankInv
<1>4. ASSUME NEW u \in Threads
      PROVE  /\ pc'[u] # "idle" => comm' \in since'[u].comms
             /\ since'[u].initialized => initialized'
             /\ pc'[u] \in RankPositions => call'[u].op \in RankCalls
  BY <1>1, <1>4, SinceIs DEF RankStep, RankInv
<1>5. ASSUME NEW u \in Threads, pc'[u] = "storeRank"
      PROVE  Tested(u)'
  <2>1. CASE u = t
    <3>1. /\ mpiInitialized /\ pc[u] # "idle"
          /\ UNCHANGED <<comm, call, initialized>>
          /\ initialized => call[u].rank < CommSize[comm]
      BY <1>5, <2>1, TestPassed DEF RankStep
    <3>2. mpiUp'
      BY <3>1 DEF RankStep, RankInv
    <3>3. comm \in since'[u].comms /\ (since'[u].initialized => initialized)
      BY <1>1, <1>5, <3>1, SinceIs
    <3>4. QED
      BY <3>1, <3>2, <3>3 DEF Tested
  <2>2. CASE u # t
    <3>1. pc[u] = "storeRank" /\ call'[u] = call[u] /\ mpiUp' = mpiUp
      BY <1>5, <2>2 DEF RankStep
    <3>2. Tested(u)
      BY <3>1 DEF RankInv
    <3>3. /\ since'[u].initialized = since[u].initialized
          /\ since[u].comms \subseteq since'[u].comms
      BY <1>1, <1>5, <3>1, SinceIs
    <3>4. QED
      BY <3>1, <3>2, <3>3 DEF Tested
  <2>3. QED
    BY <2>1, <2>2
<1>6. QED
  BY <1>2, <1>3, <1>4, <1>5 DEF RankInv

LEMMA RankNext ==
  ASSUME TypeOK, TypeOK', RankInv, [HNext]_hvars
  PROVE  RankInv'
<1>1. CASE UNCHANGED hvars
  BY <1>1 DEF RankInv, Tested, hvars, vars, once, ranks, control
<1>2. ASSUME RecordSince, Done \/ MPI_Init
      PROVE  RankInv'
  <2>1. /\ UNCHANGED <<initialized, mpiInitialized, comm, pc, call>>
        /\ mpiUp => mpiUp'
    BY <1>2 DEF Done, MPI_Init, vars, once, ranks, control
  <2>2. comm' \in Comms
    BY <2>1 DEF TypeOK
  <2>3. since' \in [Threads -> [initialized: BOOLEAN, comms: SUBSET Comms]]
    BY <1>2, <2>2, SinceIs DEF RecordSince
  <2>4. ASSUME NEW u \in Threads
        PROVE  /\ pc'[u] # "idle" => comm' \in since'[u].comms
               /\ since'[u].initialized => initialized'
               /\ pc'[u] \in RankPositions => call'[u].op \in RankCalls
    BY <1>2, <2>1, <2>2, SinceIs DEF RankInv
  <2>5. ASSUME NEW u \in Threads, pc'[u] = "storeRank"
        PROVE  Tested(u)'
    <3>1. Tested(u)
      BY <2>1, <2>5 DEF RankInv
    <3>2. /\ since'[u].initialized = since[u].initialized
          /\ since[u].comms \subseteq since'[u].comms
      BY <1>2, <2>1, <2>2, <2>5, SinceIs
    <3>3. QED
      BY <2>1, <3>1, <3>2 DEF Tested
  <2>6. QED
    BY <2>1, <2>3, <2>4, <2>5 DEF RankInv
<1>3. ASSUME RecordSince, NEW t \in Threads, Call(t) \/ Configure(t) \/ Emit(t)
      PROVE  RankInv'
  BY <1>3, CallRanks, ConfigureRanks, EmitRanks, RankStepKeeps
<1>4. QED
  BY <1>1, <1>2, <1>3 DEF HNext, Next, Record

(* The step that changes the logging rank is the store of a tested rank.   *)
LEMMA RankStored ==
  ASSUME TypeOK, RankInv, [HNext]_hvars, loggingRank' # loggingRank
  PROVE  /\ mpiUp
         /\ \E t \in Threads :
              /\ Asks(t) /\ call[t].rank = loggingRank'
              /\ since[t].initialized =>
                   \E c \in since[t].comms : loggingRank' < CommSize[c]
<1>1. PICK t \in Threads : Call(t) \/ Configure(t) \/ Emit(t)
  BY DEF HNext, Next, hvars, vars, ranks, Done, MPI_Init
<1>2. StoreLoggingRank(t)
  BY <1>1, CallRanks, ConfigureRanks, EmitRanks DEF RankStep
<1>3. pc[t] = "storeRank" /\ loggingRank' = call[t].rank
  BY <1>2 DEF StoreLoggingRank, Step
<1>4. Tested(t) /\ call[t].op \in RankCalls
  BY <1>3 DEF RankInv, RankPositions
<1>5. QED
  BY <1>3, <1>4 DEF Tested, Asks, RankCalls

(* Whatever threads configure the logger at the same time, and whenever MPI*)
(* is initialised: a logging rank is adopted only because a call asked for *)
(* it, with MPI up, and by a call that found the logger initialised only if*)
(* it is below the size of a communicator in force during that call.       *)
THEOREM AdoptedInRange == HSpec => AdoptedRankWasInRange
<1>1. HSpec => []TypeOK
  <2>1. HInit => Init
    BY DEF HInit
  <2>2. [HNext]_hvars => [Next]_vars
    BY DEF HNext, hvars
  <2>3. HSpec => Spec
    BY <2>1, <2>2, PTL DEF HSpec, Spec
  <2>4. QED
    BY <2>3, TypeCorrect, PTL
<1>2. TypeOK /\ TypeOK' /\ RankInv /\ [HNext]_hvars => RankInv'
  BY RankNext
<1>3. TypeOK /\ RankInv /\ [HNext]_hvars =>
        [loggingRank' # loggingRank =>
           /\ mpiUp
           /\ \E t \in Threads :
                /\ Asks(t) /\ call[t].rank = loggingRank'
                /\ since[t].initialized =>
                     \E c \in since[t].comms : loggingRank' < CommSize[c]]_hvars
  BY RankStored
<1>4. QED
  BY RankInit, <1>1, <1>2, <1>3, PTL DEF HSpec, AdoptedRankWasInRange

-----------------------------------------------------------------------------
(* What a step appends *)

(* A step of u appends nothing to s, or a piece of the line u is writing.  *)
Grown(s, z, u) ==
  \/ z = s
  \/ \E x \in Pieces : x.by = u /\ x.n = frame[u].n /\ z = Append(s, x)

(* The end of line n of t is in s; with the rank string r.                 *)
EndsIn(s, t, n)    == \E i \in Logged(s) : Line(s[i]) = <<t, n>> /\ s[i].part = "end"
HasIn(s, t, n, r) ==
  \E i \in Logged(s) : Line(s[i]) = <<t, n>> /\ s[i].prefix = r /\ s[i].part = "end"

LEMMA AppendIs ==
  ASSUME NEW s \in Seq(Pieces), NEW x \in Pieces
  PROVE  /\ Append(s, x) \in Seq(Pieces)
         /\ DOMAIN Append(s, x) = DOMAIN s \cup {Len(s) + 1}
         /\ \A i \in DOMAIN s : Append(s, x)[i] = s[i]
         /\ Append(s, x)[Len(s) + 1] = x
OBVIOUS

LEMMA EndsMore ==
  ASSUME NEW s \in Seq(Pieces), NEW x \in Pieces, NEW t, NEW n, NEW r
  PROVE  /\ EndsIn(Append(s, x), t, n) <=>
              \/ EndsIn(s, t, n)
              \/ x.kind = "log" /\ Line(x) = <<t, n>> /\ x.part = "end"
         /\ HasIn(Append(s, x), t, n, r) <=>
              \/ HasIn(s, t, n, r)
              \/ x.kind = "log" /\ Line(x) = <<t, n>> /\ x.prefix = r /\ x.part = "end"
<1>1. PICK z : z = Append(s, x)
  OBVIOUS
<1>2. /\ DOMAIN z = DOMAIN s \cup {Len(s) + 1} /\ z[Len(s) + 1] = x
      /\ \A i \in DOMAIN s : z[i] = s[i]
  BY <1>1, AppendIs
<1>3. Len(s) + 1 \notin DOMAIN s
  OBVIOUS
<1>4. Logged(z) = Logged(s) \cup (IF x.kind = "log" THEN {Len(s) + 1} ELSE {})
  BY <1>2, <1>3 DEF Logged
<1>5. \A i \in Logged(s) : z[i] = s[i] /\ i \in Logged(z)
  BY <1>2, <1>4 DEF Logged
<1>6. \A i \in Logged(z) : i \in Logged(s) \/ (z[i] = x /\ x.kind = "log")
  BY <1>2, <1>4
<1>7. x.kind = "log" => \E i \in Logged(z) : z[i] = x
  BY <1>2, <1>4
<1>8. EndsIn(z, t, n) <=>
        \/ EndsIn(s, t, n)
        \/ x.kind = "log" /\ Line(x) = <<t, n>> /\ x.part = "end"
  BY <1>5, <1>6, <1>7, Zenon DEF EndsIn
<1>9. HasIn(z, t, n, r) <=>
        \/ HasIn(s, t, n, r)
        \/ x.kind = "log" /\ Line(x) = <<t, n>> /\ x.prefix = r /\ x.part = "end"
  BY <1>5, <1>6, <1>7, Zenon DEF HasIn
<1>10. QED
  BY <1>1, <1>8, <1>9 DEF EndsIn, HasIn

(* Another thread's line is untouched.                                     *)
LEMMA OthersLines ==
  ASSUME NEW s \in Seq(Pieces), NEW z, NEW u, NEW t, u # t, Grown(s, z, u),
         NEW n, NEW r
  PROVE  (EndsIn(z, t, n) <=> EndsIn(s, t, n))
         /\ (HasIn(z, t, n, r) <=> HasIn(s, t, n, r))
<1>1. CASE z = s
  BY <1>1
<1>2. ASSUME NEW x \in Pieces, x.by = u, z = Append(s, x)
      PROVE  (EndsIn(z, t, n) <=> EndsIn(s, t, n))
             /\ (HasIn(z, t, n, r) <=> HasIn(s, t, n, r))
  <2>1. Line(x) # <<t, n>>
    BY <1>2 DEF Line
  <2>2. QED
    BY <1>2, <2>1, EndsMore
<1>3. QED
  BY <1>1, <1>2 DEF Grown

(* What a step of u leaves of the others, and what it may append.          *)
Alone(u) ==
  /\ \A t \in Threads : t # u => /\ pc'[t] = pc[t] /\ call'[t] = call[t]
                                 /\ frame'[t] = frame[t]
  /\ frame'[u].n \in Nat /\ frame'[u].n >= frame[u].n
  /\ Grown(console, console', u)
  /\ \A f \in Paths : Grown(files[f], files'[f], u)

(* A step without an insertion.                                            *)
LEMMA AloneQuiet ==
  ASSUME TypeOK, NEW u \in Threads, UNCHANGED sinks,
         \/ UNCHANGED control
         \/ UNCHANGED frame /\ \A t \in Threads : t # u => call'[t] = call[t]
         \/ \E from, level, resume : BeginLog(u, from, level, resume)
         \/ UNCHANGED call /\ \E rank, prefix, path :
              frame' = [frame EXCEPT ![u].rank = rank]
              \/ frame' = [frame EXCEPT ![u].prefix = prefix]
              \/ frame' = [frame EXCEPT ![u].path = path],
         \A t \in Threads : t # u => pc'[t] = pc[t]
  PROVE  Alone(u)
<1>1. /\ frame \in [Threads -> FrameType] /\ frame[u] \in FrameType
      /\ frame[u].n \in Nat
  BY DEF TypeOK, FrameType
<1>2. Grown(console, console', u) /\ \A f \in Paths : Grown(files[f], files'[f], u)
  BY DEF Grown, sinks
<1>3. CASE UNCHANGED frame /\ \A t \in Threads : t # u => call'[t] = call[t]
  BY <1>1, <1>2, <1>3 DEF Alone
<1>4. ASSUME NEW from, NEW level, NEW resume, BeginLog(u, from, level, resume)
      PROVE  Alone(u)
  <2> DEFINE counted  == [frame EXCEPT ![u].n = @ + 1]
             levelled == [counted EXCEPT ![u].level = level]
  <2>1. UNCHANGED call /\ frame' = [levelled EXCEPT ![u].resume = resume]
    BY <1>4 DEF BeginLog
  <2>2. frame'[u].n = frame[u].n + 1 /\ \A t \in Threads : t # u => frame'[t] = frame[t]
    BY <1>1, <2>1 DEF FrameType
  <2>3. QED
    BY <1>1, <1>2, <2>1, <2>2 DEF Alone
<1>5. CASE UNCHANGED call /\ \E rank, prefix, path :
              frame' = [frame EXCEPT ![u].rank = rank]
              \/ frame' = [frame EXCEPT ![u].prefix = prefix]
              \/ frame' = [frame EXCEPT ![u].path = path]
  <2>1. frame'[u].n = frame[u].n /\ \A t \in Threads : t # u => frame'[t] = frame[t]
    BY <1>1, <1>5 DEF FrameType
  <2>2. QED
    BY <1>1, <1>2, <1>5, <2>1 DEF Alone
<1>6. QED
  BY <1>3, <1>4, <1>5 DEF control

LEMMA OthersStand ==
  ASSUME TypeOK, NEW u \in Threads, NEW from, NEW to, Step(u, from, to)
  PROVE  pc'[u] = to /\ pc[u] = from /\ \A t \in Threads : t # u => pc'[t] = pc[t]
BY DEF Step, TypeOK

LEMMA AloneCall ==
  ASSUME TypeOK, NEW u \in Threads, Call(u)
  PROVE  Alone(u)
<1>1. UNCHANGED sinks /\ UNCHANGED frame
  BY DEF Call
<1>2. \A t \in Threads : t # u => pc'[t] = pc[t] /\ call'[t] = call[t]
  BY DEF Call, Step, TypeOK
<1>3. QED
  BY <1>1, <1>2, AloneQuiet

LEMMA AloneConfigure ==
  ASSUME TypeOK, NEW u \in Threads, Configure(u)
  PROVE  Alone(u)
<1>1. \A t \in Threads : t # u => pc'[t] = pc[t]
  <2>1. \E from, to : Step(u, from, to)
    BY DEF Configure, ReadMpiFlag, UpdateCurrentRank, FormatRankString,
       CheckLoggingRank, StoreLoggingRank, SetCommunicator, EnterInitOnce,
       SetLoggingLevel, SetOutputStream, SetDestinationBools, SetOutputFilename,
       Publish, Announce, BeginLog
  <2>2. QED
    BY <2>1, OthersStand
<1>2. UNCHANGED sinks
  BY DEF Configure, ReadMpiFlag, UpdateCurrentRank, FormatRankString,
     CheckLoggingRank, StoreLoggingRank, SetCommunicator, EnterInitOnce,
     SetLoggingLevel, SetOutputStream, SetDestinationBools, SetOutputFilename,
     Publish, Announce
<1>3. UNCHANGED control \/ \E from, level, resume : BeginLog(u, from, level, resume)
  BY DEF Configure, ReadMpiFlag, UpdateCurrentRank, FormatRankString,
     CheckLoggingRank, StoreLoggingRank, SetCommunicator, EnterInitOnce,
     SetLoggingLevel, SetOutputStream, SetDestinationBools, SetOutputFilename,
     Publish, Announce
<1>4. QED
  BY <1>1, <1>2, <1>3, AloneQuiet

LEMMA AloneEmit ==
  ASSUME TypeOK, NEW u \in Threads, Emit(u)
  PROVE  Alone(u)
<1>1. \A t \in Threads : t # u => pc'[t] = pc[t]
  BY EmitSteps, OthersStand
<1>2. CASE PrintUninitialized(u) \/ PrintLine(u)
  <2>1. \E kind \in {"uninit", "log"}, part \in {"text", "end"} :
          console' = Append(console, Piece(u, kind, part))
    BY <1>2 DEF PrintUninitialized, PrintLine
  <2>2. UNCHANGED <<control, files>>
    BY <1>2 DEF PrintUninitialized, PrintLine
  <2>3. \A kind \in {"uninit", "log"}, part \in {"text", "end"} :
          /\ Piece(u, kind, part) \in Pieces /\ Piece(u, kind, part).by = u
          /\ Piece(u, kind, part).n = frame[u].n
    BY PieceType DEF Piece
  <2>4. Grown(console, console', u)
    BY <2>1, <2>3 DEF Grown
  <2>5. frame[u].n \in Nat
    BY DEF TypeOK, FrameType
  <2>6. QED
    BY <1>1, <2>2, <2>4, <2>5 DEF Alone, Grown, control
<1>3. CASE WriteFile(u)
  <2>1. PICK part \in {"text", "end"} :
          files' = [files EXCEPT ![frame[u].path] = Append(@, Piece(u, "log", part))]
    BY <1>3 DEF WriteFile
  <2>2. UNCHANGED <<control, console>>
    BY <1>3 DEF WriteFile
  <2>3. /\ Piece(u, "log", part) \in Pieces /\ Piece(u, "log", part).by = u
        /\ Piece(u, "log", part).n = frame[u].n
    BY PieceType DEF Piece
  <2>4. \A f \in Paths : files'[f] = files[f] \/ files'[f] = Append(files[f], Piece(u, "log", part))
    BY <2>1 DEF TypeOK
  <2>5. \A f \in Paths : Grown(files[f], files'[f], u)
    BY <2>3, <2>4 DEF Grown
  <2>6. frame[u].n \in Nat
    BY DEF TypeOK, FrameType
  <2>7. QED
    BY <1>1, <2>2, <2>5, <2>6 DEF Alone, Grown, control
<1>4. CASE LoadRank(u) \/ CopyRankString(u) \/ OpenFile(u)
  <2>1. /\ UNCHANGED sinks /\ UNCHANGED call
        /\ \E rank, prefix, path :
              frame' = [frame EXCEPT ![u].rank = rank]
              \/ frame' = [frame EXCEPT ![u].prefix = prefix]
              \/ frame' = [frame EXCEPT ![u].path = path]
    BY <1>4 DEF LoadRank, CopyRankString, OpenFile
  <2>2. QED
    BY <1>1, <2>1, AloneQuiet
<1>5. CASE Format(u)
  BY <1>1, <1>5, AloneQuiet DEF Format
<1>6. CASE \/ Log(u) \/ EnterWarnOnce(u) \/ CompareRank(u) \/ FilterLevel(u)
           \/ Lock(u) \/ TestShouldLog(u) \/ TestShouldWrite(u) \/ Unlock(u)
  <2>1. UNCHANGED sinks /\ UNCHANGED control
    BY <1>6 DEF Log, EnterWarnOnce, CompareRank, FilterLevel, Lock, TestShouldLog,
       TestShouldWrite, Unlock, sinks
  <2>2. QED
    BY <1>1, <2>1, AloneQuiet
<1>7. QED
  BY <1>2, <1>3, <1>4, <1>5, <1>6 DEF Emit

LEMMA AloneSteps ==
  ASSUME TypeOK, NEW u \in Threads, Call(u) \/ Configure(u) \/ Emit(u)
  PROVE  Alone(u)
BY AloneCall, AloneConfigure, AloneEmit

-----------------------------------------------------------------------------
(* A log call that nobody disturbs does what the configuration says *)

(* The two output switches are those of the destination, except between    *)
(* the stores of setOutputStream; a name is half-assigned only in          *)
(* setOutputFilename.  Only m is ever there.                               *)
Switching == {"bools", "boolLog", "boolWrite"}
SwitchInv(m) ==
  /\ pc[m] \in Switching => dst = call[m].dst
  /\ pc[m] \notin {"bools", "boolWrite"} => shouldWrite = ShouldWrite(dst)
  /\ pc[m] \notin {"bools", "boolLog"} => shouldLog = ShouldLog(dst)
  /\ pc[m] # "fileEnd" => logFile \in Files

(* The positions of log, in the order of its filters and outputs.          *)
Warned   == {"warnOnce", "warnText", "warnEnd"}
Ranked   == {"filter", "prefix", "lock"} \cup Locked
Filtered == {"prefix", "lock"} \cup Locked
Printed  == {"shouldWrite", "open", "writeText", "writeEnd", "unlock"}
InLog    == {"log"} \cup Warned \cup Running

(* A call of log stays inside log and logs at the level it was given.      *)
CallInv ==
  \A t \in Threads : call[t].op = "log" =>
    /\ pc[t] \in {"idle", "format"} \cup InLog
    /\ pc[t] \in InLog => frame[t].level = call[t].level /\ frame[t].resume = "idle"

(* A line has a number its thread has used.                                *)
Past(s) == \A i \in DOMAIN s : s[i].n <= frame[s[i].by].n
NumberInv == Past(console) /\ \A f \in Paths : Past(files[f])

(* Nobody else is writing the configuration while an undisturbed call runs. *)
Calm(t) == \A u \in Threads \ {t} : ~ Reconfiguring(u)
HistoryInv ==
  /\ disturbed \in [Threads -> BOOLEAN]
  /\ \A t \in Threads : ~ disturbed[t] /\ pc[t] # "idle" => Calm(t)

(* How far an undisturbed log call has got, and what it knows and has left *)
(* behind by then.                                                         *)
Filters(t) ==
  /\ pc[t] \in Warned => ~ initialized
  /\ pc[t] \in Running => initialized
  /\ pc[t] = "compareRank" => frame[t].rank = currentRank
  /\ pc[t] \in Ranked => currentRank = loggingRank
  /\ pc[t] \in Filtered => Passes(call[t].level, loggingLevel)
  /\ pc[t] \in Locked \cup {"lock"} => frame[t].prefix = rankStr
OnConsole(t) ==
  /\ pc[t] \in {"printText", "printEnd"} => shouldLog
  /\ pc[t] \in InLog \ Printed => ~ EndsIn(console, t, frame[t].n)
  /\ pc[t] \in Printed => (HasIn(console, t, frame[t].n, rankStr) <=> shouldLog)
InFiles(t) ==
  /\ pc[t] \in {"open", "writeText", "writeEnd"} => shouldWrite
  /\ pc[t] \in {"writeText", "writeEnd"} =>
       frame[t].path = logFile /\ logFile \in Writable
  /\ pc[t] \in InLog \ {"unlock"} => \A f \in Paths : ~ EndsIn(files[f], t, frame[t].n)
  /\ pc[t] = "unlock" =>
       \A f \in Paths : HasIn(files[f], t, frame[t].n, rankStr)
                          <=> shouldWrite /\ f = logFile /\ f \in Writable
LogInv ==
  \A t \in Threads : (~ disturbed[t] /\ call[t].op = "log") =>
    Filters(t) /\ OnConsole(t) /\ InFiles(t)

LEMMA OnlyOne ==
  ASSUME NEW m \in Threads, OnlyLogging(m), NEW u \in Threads, u # m
  PROVE  ~ Reconfiguring(u)
BY DEF OnlyLogging, LoggingPositions, Locked, Reconfiguring

(* A step inside log writes no configuration member, and keeps the identity*)
(* of the line and the place to return to.                                 *)
LEMMA EmitInside ==
  ASSUME TypeOK, NEW t \in Threads, Emit(t), ~ Format(t)
  PROVE  /\ pc[t] \in InLog
         /\ pc'[t] \in InLog \cup {frame[t].resume}
         /\ UNCHANGED <<call, initialized, config, ranks>>
         /\ frame'[t].level = frame[t].level /\ frame'[t].resume = frame[t].resume
         /\ frame'[t].n = frame[t].n
<1> USE DEF InLog, Warned, Running, Locked
<1>0. frame \in [Threads -> FrameType] /\ frame[t] \in FrameType
  BY DEF TypeOK
<1>1. UNCHANGED <<call, initialized, config, ranks>>
  BY DEF Emit, Log, EnterWarnOnce, PrintUninitialized, LoadRank, CompareRank,
     FilterLevel, CopyRankString, Lock, TestShouldLog, PrintLine,
     TestShouldWrite, OpenFile, WriteFile, Unlock, once, control
<1>2. CASE LoadRank(t) \/ CopyRankString(t) \/ OpenFile(t)
  <2>1. pc[t] \in InLog /\ pc'[t] \in InLog
    BY <1>2 DEF LoadRank, CopyRankString, OpenFile, Step, TypeOK
  <2>2. /\ frame'[t].level = frame[t].level /\ frame'[t].resume = frame[t].resume
        /\ frame'[t].n = frame[t].n
    BY <1>0, <1>2 DEF LoadRank, CopyRankString, OpenFile, FrameType
  <2>3. QED
    BY <1>1, <2>1, <2>2
<1>3. CASE \/ Log(t) \/ EnterWarnOnce(t) \/ PrintUninitialized(t)
           \/ CompareRank(t) \/ FilterLevel(t)
  <2>1. UNCHANGED frame /\ pc[t] \in InLog /\ pc'[t] \in InLog \cup {frame[t].resume}
    BY <1>3 DEF Log, EnterWarnOnce, PrintUninitialized, CompareRank, FilterLevel,
       Return, Step, TypeOK, control
  <2>2. QED
    BY <1>1, <2>1
<1>4. CASE \/ Lock(t) \/ TestShouldLog(t) \/ PrintLine(t) \/ TestShouldWrite(t)
           \/ WriteFile(t) \/ Unlock(t)
  <2>1. UNCHANGED frame /\ pc[t] \in InLog /\ pc'[t] \in InLog \cup {frame[t].resume}
    BY <1>4 DEF Lock, TestShouldLog, PrintLine, TestShouldWrite, WriteFile, Unlock,
       Return, Step, TypeOK, control
  <2>2. QED
    BY <1>1, <2>1
<1>5. QED
  BY <1>2, <1>3, <1>4 DEF Emit

(* Entering log gives the line a new number.                               *)
LEMMA FormatEnters ==
  ASSUME TypeOK, NEW t \in Threads, Format(t)
  PROVE  /\ pc[t] = "format" /\ UNCHANGED <<call, initialized, config, ranks, sinks>>
         /\ \/ pc'[t] = "idle" /\ ~ call[t].ok
            \/ /\ pc'[t] = "log" /\ frame'[t].n = frame[t].n + 1
               /\ frame'[t].level = call[t].level /\ frame'[t].resume = "idle"
<1>1. /\ pc[t] = "format" /\ UNCHANGED <<call, initialized, config, ranks, sinks>>
  BY DEF Format, BeginLog, Step, once, control
<1>2. CASE BeginLog(t, "format", call[t].level, "idle")
  <2> DEFINE counted  == [frame EXCEPT ![t].n = @ + 1]
             levelled == [counted EXCEPT ![t].level = call[t].level]
  <2>1. frame' = [levelled EXCEPT ![t].resume = "idle"] /\ Step(t, "format", "log")
    BY <1>2 DEF BeginLog
  <2>2. frame \in [Threads -> FrameType] /\ frame[t] \in FrameType
    BY DEF TypeOK
  <2>3. /\ frame'[t].n = frame[t].n + 1
        /\ frame'[t].level = call[t].level /\ frame'[t].resume = "idle"
    BY <2>1, <2>2 DEF FrameType
  <2>4. QED
    BY <1>1, <2>1, <2>3 DEF Step, TypeOK
<1>3. CASE ~ call[t].ok /\ Step(t, "format", "idle")
  BY <1>1, <1>3 DEF Step, TypeOK
<1>4. QED
  BY <1>2, <1>3 DEF Format

(* Configure takes no step of a thread that is inside log.                 *)
LEMMA ConfigureOutside ==
  ASSUME NEW t \in Threads, Configure(t)
  PROVE  pc[t] \notin {"idle", "format"} \cup InLog
<1> USE DEF InLog, Warned, Running, Locked
<1>1. CASE \/ ReadMpiFlag(t) \/ UpdateCurrentRank(t) \/ CheckLoggingRank(t)
           \/ StoreLoggingRank(t) \/ SetCommunicator(t) \/ EnterInitOnce(t)
           \/ FormatRankString(t, "rankStr", "rankStrEnd", "setRank")
  BY <1>1 DEF ReadMpiFlag, UpdateCurrentRank, CheckLoggingRank, StoreLoggingRank,
     SetCommunicator, EnterInitOnce, FormatRankString, BeginLog, Step
<1>2. CASE \/ SetLoggingLevel(t) \/ SetOutputStream(t) \/ SetDestinationBools(t)
           \/ SetOutputFilename(t) \/ Publish(t) \/ Announce(t)
           \/ FormatRankString(t, "initStr", "initStrEnd", "publish")
  BY <1>2 DEF SetLoggingLevel, SetOutputStream, SetDestinationBools,
     SetOutputFilename, Publish, Announce, FormatRankString, BeginLog, Step
<1>3. QED
  BY <1>1, <1>2 DEF Configure

(* A step of a thread that is not at a configuration member leaves the     *)
(* configuration alone.                                                    *)
LEMMA OtherCalm ==
  ASSUME TypeOK, NEW u \in Threads, Call(u) \/ Configure(u) \/ Emit(u),
         ~ Reconfiguring(u)
  PROVE  UNCHANGED <<initialized, config, ranks>>
<1> USE DEF once
<1>1. CASE Call(u)
  BY <1>1 DEF Call
<1>2. CASE Configure(u)
  <2>1. /\ ~ ReadMpiFlag(u) /\ ~ UpdateCurrentRank(u) /\ ~ CheckLoggingRank(u)
        /\ ~ StoreLoggingRank(u) /\ ~ SetCommunicator(u)
        /\ ~ FormatRankString(u, "rankStr", "rankStrEnd", "setRank")
    BY DEF Reconfiguring, ReadMpiFlag, UpdateCurrentRank, CheckLoggingRank,
       StoreLoggingRank, SetCommunicator, FormatRankString, BeginLog, Step
  <2>2. /\ ~ SetLoggingLevel(u) /\ ~ SetOutputStream(u)
        /\ ~ SetDestinationBools(u) /\ ~ SetOutputFilename(u) /\ ~ Publish(u)
        /\ ~ FormatRankString(u, "initStr", "initStrEnd", "publish")
    BY DEF Reconfiguring, SetLoggingLevel, SetOutputStream, SetDestinationBools,
       SetOutputFilename, Publish, FormatRankString, Step
  <2>3. EnterInitOnce(u) \/ Announce(u)
    BY <1>2, <2>1, <2>2 DEF Configure
  <2>4. QED
    BY <2>3 DEF EnterInitOnce, Announce
<1>3. CASE Emit(u)
  BY <1>3, EmitInside, FormatEnters
<1>4. QED
  BY <1>1, <1>2, <1>3

-----------------------------------------------------------------------------
(* The invariants it takes, one after the other *)

LEMMA SwitchInit ==
  ASSUME NEW m \in Threads PROVE Init => SwitchInv(m)
<1> SUFFICES ASSUME Init PROVE SwitchInv(m)
  OBVIOUS
<1>1. pc[m] = "idle" /\ logFile \in Files
  BY LoggerAssumption DEF Init
<1>2. shouldWrite = ShouldWrite(dst) /\ shouldLog = ShouldLog(dst)
  <2>1. dst = 0 /\ shouldWrite = FALSE /\ shouldLog = TRUE
    BY DEF Init, LogTo
  <2>2. ~ ShouldWrite(dst) /\ ShouldLog(dst)
    BY <2>1 DEF ShouldWrite, ShouldLog, LogTo
  <2>3. ShouldWrite(dst) \in BOOLEAN /\ ShouldLog(dst) \in BOOLEAN
    BY SwitchType
  <2>4. QED
    BY <2>1, <2>2, <2>3
<1>3. QED
  BY <1>1, <1>2 DEF SwitchInv, Switching

LEMMA SwitchConfigure ==
  ASSUME TypeOK, NEW m \in Threads, SwitchInv(m), Configure(m)
  PROVE  SwitchInv(m)'
<1> USE DEF SwitchInv, Switching, Step, TypeOK, output, config, control
<1>0. /\ call[m] \in CallType /\ call[m].file \in Files
      /\ AfterSetRank(m) \notin Switching \cup {"fileEnd"}
  BY DEF CallType, AfterSetRank
<1>1. CASE CheckLoggingRank(m) \/ Announce(m)
  BY <1>0, <1>1 DEF CheckLoggingRank, Announce, BeginLog
<1>2. CASE \/ ReadMpiFlag(m) \/ UpdateCurrentRank(m) \/ EnterInitOnce(m)
           \/ StoreLoggingRank(m) \/ SetCommunicator(m) \/ Publish(m)
  BY <1>0, <1>2 DEF ReadMpiFlag, UpdateCurrentRank, EnterInitOnce,
     StoreLoggingRank, SetCommunicator, Publish
<1>3. CASE \/ FormatRankString(m, "rankStr", "rankStrEnd", "setRank")
           \/ FormatRankString(m, "initStr", "initStrEnd", "publish")
  BY <1>3 DEF FormatRankString
<1>4. CASE SetLoggingLevel(m)
  BY <1>4 DEF SetLoggingLevel
<1>5. CASE SetOutputStream(m)
  BY <1>5 DEF SetOutputStream
<1>6. CASE SetDestinationBools(m)
  BY <1>6 DEF SetDestinationBools
<1>7. CASE SetOutputFilename(m)
  BY <1>0, <1>7 DEF SetOutputFilename
<1>8. QED
  BY <1>1, <1>2, <1>3, <1>4, <1>5, <1>6, <1>7 DEF Configure

LEMMA SwitchNext ==
  ASSUME NEW m \in Threads, TypeOK, OnlyLogging(m), SwitchInv(m), [Next]_vars
  PROVE  SwitchInv(m)'
<1>1. CASE UNCHANGED vars \/ Done \/ MPI_Init
  BY <1>1 DEF SwitchInv, Done, MPI_Init, vars, config, output, control
<1>2. ASSUME NEW u \in Threads, u # m, Call(u) \/ Configure(u) \/ Emit(u)
      PROVE  SwitchInv(m)'
  <2>1. UNCHANGED config
    BY <1>2, OnlyOne, OtherCalm
  <2>2. pc'[m] = pc[m] /\ call'[m] = call[m]
    BY <1>2, AloneSteps DEF Alone
  <2>3. QED
    BY <2>1, <2>2 DEF SwitchInv, config, output
<1>3. CASE Call(m)
  <2>1. UNCHANGED config /\ pc[m] = "idle"
    BY <1>3 DEF Call, Step
  <2>2. pc'[m] \notin Switching \cup {"fileEnd"}
    <3>1. PICK c \in Program[m][made[m] + 1] :
            \E to \in {"initOnce", "mpiFlag", "finalize", "format", "level", "dst",
                      "file", "setRank", "setComm"} : Step(m, "idle", to)
      <4>1. made[m] + 1 \in DOMAIN Program[m]
        BY <1>3, LoggerAssumption DEF Call, TypeOK
      <4>2. Program[m][made[m] + 1] \subseteq CallType
        BY <4>1, LoggerAssumption
      <4>3. QED
        BY <1>3, <4>2 DEF Call, CallType, Ops
    <3>2. QED
      BY <3>1 DEF Step, TypeOK, Switching
  <2>3. QED
    BY <2>1, <2>2 DEF SwitchInv, config, output, Switching
<1>4. CASE Emit(m)
  <2>1. UNCHANGED config /\ pc[m] \notin Switching \cup {"fileEnd"}
    BY <1>4, EmitInside, FormatEnters DEF InLog, Warned, Running, Locked, Switching
  <2>2. pc'[m] \notin Switching \cup {"fileEnd"}
    <3>1. frame[m].resume \in {"idle", "setComm"}
      BY DEF TypeOK, FrameType
    <3>2. QED
      BY <1>4, <3>1, EmitInside, FormatEnters DEF InLog, Warned, Running, Locked,
         Switching
  <2>3. QED
    BY <2>1, <2>2 DEF SwitchInv, config, output, Switching
<1>5. CASE Configure(m)
  BY <1>5, SwitchConfigure
<1>6. QED
  BY <1>1, <1>2, <1>3, <1>4, <1>5 DEF Next

LEMMA CallInvInit == Init => CallInv
BY DEF Init, CallInv, Defaults

LEMMA CallInvNext ==
  ASSUME TypeOK, CallInv, [Next]_vars
  PROVE  CallInv'
<1>1. CASE UNCHANGED vars \/ Done \/ MPI_Init
  BY <1>1 DEF CallInv, Done, MPI_Init, vars, control
<1>2. ASSUME NEW u \in Threads, Call(u) \/ Configure(u) \/ Emit(u), NEW t \in Threads,
             call'[t].op = "log"
      PROVE  /\ pc'[t] \in {"idle", "format"} \cup InLog
             /\ pc'[t] \in InLog => /\ frame'[t].level = call'[t].level
                                    /\ frame'[t].resume = "idle"
  <2>1. CASE u # t
    <3>1. pc'[t] = pc[t] /\ call'[t] = call[t] /\ frame'[t] = frame[t]
      BY <1>2, <2>1, AloneSteps DEF Alone
    <3>2. QED
      BY <1>2, <3>1 DEF CallInv
  <2>2. CASE Call(t)
    <3>1. pc'[t] = "format"
      BY <1>2, <2>2 DEF Call, Step, TypeOK
    <3>2. QED
      BY <3>1 DEF InLog, Warned, Running, Locked
  <2>3. CASE Configure(t)
    <3>1. pc[t] \notin {"idle", "format"} \cup InLog
      BY <2>3, ConfigureOutside
    <3>2. call[t].op # "log"
      BY <3>1 DEF CallInv
    <3>3. call'[t] = call[t]
      BY <2>3 DEF Configure, ReadMpiFlag, UpdateCurrentRank, FormatRankString,
         CheckLoggingRank, StoreLoggingRank, SetCommunicator, EnterInitOnce,
         SetLoggingLevel, SetOutputStream, SetDestinationBools, SetOutputFilename,
         Publish, Announce, BeginLog, control
    <3>4. QED
      BY <1>2, <3>2, <3>3
  <2>4. CASE Format(t)
    BY <1>2, <2>4, FormatEnters DEF InLog, Warned, Running, Locked
  <2>5. CASE Emit(t) /\ ~ Format(t)
    <3>1. call[t].op = "log" /\ pc[t] \in InLog
      BY <1>2, <2>5, EmitInside
    <3>2. frame[t].level = call[t].level /\ frame[t].resume = "idle"
      BY <3>1 DEF CallInv
    <3>3. QED
      BY <2>5, <3>2, EmitInside
  <2>6. QED
    BY <1>2, <2>1, <2>2, <2>3, <2>4, <2>5
<1>3. QED
  BY <1>1, <1>2 DEF Next, CallInv

LEMMA PastGrows ==
  ASSUME TypeOK, NEW u \in Threads, Alone(u), NEW s \in Seq(Pieces), NEW z,
         Grown(s, z, u), Past(s)
  PROVE  \A i \in DOMAIN z : z[i].n <= frame'[z[i].by].n
<1>1. \A t \in Threads : frame[t].n \in Nat /\ frame'[t].n \in Nat
                         /\ frame'[t].n >= frame[t].n
  <2>1. \A t \in Threads : frame[t].n \in Nat
    BY DEF TypeOK, FrameType
  <2>2. QED
    BY <2>1 DEF Alone
<1>2. \A i \in DOMAIN s : s[i].by \in Threads /\ s[i].n \in Nat
  <2>1. \A i \in DOMAIN s : s[i] \in Pieces
    OBVIOUS
  <2>2. QED
    BY <2>1 DEF Pieces
<1>3. \A i \in DOMAIN s : s[i].n <= frame'[s[i].by].n
  BY <1>1, <1>2 DEF Past
<1>4. CASE z = s
  BY <1>3, <1>4
<1>5. ASSUME NEW x \in Pieces, x.by = u, x.n = frame[u].n, z = Append(s, x)
      PROVE  \A i \in DOMAIN z : z[i].n <= frame'[z[i].by].n
  <2>1. x.n <= frame'[x.by].n
    BY <1>1, <1>5
  <2>2. \A i \in DOMAIN z : (i \in DOMAIN s /\ z[i] = s[i]) \/ z[i] = x
    BY <1>5, AppendIs
  <2>3. QED
    BY <1>3, <2>1, <2>2
<1>6. QED
  BY <1>4, <1>5 DEF Grown

LEMMA NumberNext ==
  ASSUME TypeOK, NumberInv, [Next]_vars
  PROVE  NumberInv'
<1>1. CASE UNCHANGED vars \/ Done \/ MPI_Init
  BY <1>1 DEF NumberInv, Past, Done, MPI_Init, vars, control, sinks
<1>2. ASSUME NEW u \in Threads, Call(u) \/ Configure(u) \/ Emit(u)
      PROVE  NumberInv'
  <2>1. Alone(u)
    BY <1>2, AloneSteps
  <2>2. \A i \in DOMAIN console' : console'[i].n <= frame'[console'[i].by].n
    BY <2>1, PastGrows DEF Alone, NumberInv, TypeOK
  <2>3. ASSUME NEW f \in Paths
        PROVE  \A i \in DOMAIN files'[f] : files'[f][i].n <= frame'[files'[f][i].by].n
    BY <2>1, PastGrows DEF Alone, NumberInv, TypeOK
  <2>4. QED
    BY <2>2, <2>3 DEF NumberInv, Past
<1>3. QED
  BY <1>1, <1>2 DEF Next

LEMMA HistoryNext ==
  ASSUME HistoryInv, [HNext]_hvars
  PROVE  HistoryInv'
<1>1. CASE UNCHANGED hvars
  BY <1>1 DEF HistoryInv, Calm, Reconfiguring, hvars, vars
<1>2. CASE Record
  <2>1. disturbed' \in [Threads -> BOOLEAN]
    BY <1>2 DEF Record, RecordDisturbed
  <2>2. ASSUME NEW t \in Threads, ~ disturbed'[t], pc'[t] # "idle"
        PROVE  Calm(t)'
    BY <1>2, <2>2 DEF Record, RecordDisturbed, Calm
  <2>3. QED
    BY <2>1, <2>2 DEF HistoryInv
<1>3. QED
  BY <1>1, <1>2 DEF HNext

LEMMA HasEnds ==
  ASSUME NEW s, NEW t, NEW n, NEW r, HasIn(s, t, n, r)
  PROVE  EndsIn(s, t, n)
BY DEF HasIn, EndsIn

(* No output has the end of a line whose number is not used yet.           *)
LEMMA NewLine ==
  ASSUME TypeOK, NumberInv, NEW t \in Threads
  PROVE  /\ ~ EndsIn(console, t, frame[t].n + 1)
         /\ \A f \in Paths : ~ EndsIn(files[f], t, frame[t].n + 1)
<1>1. frame[t].n \in Nat
  BY DEF TypeOK, FrameType
<1>2. ASSUME NEW s, Past(s), EndsIn(s, t, frame[t].n + 1)
      PROVE  FALSE
  <2>1. PICK i \in DOMAIN s : s[i].by = t /\ s[i].n = frame[t].n + 1
    BY <1>2 DEF EndsIn, Line, Logged
  <2>2. s[i].n <= frame[t].n
    BY <1>2, <2>1 DEF Past
  <2>3. QED
    BY <1>1, <2>1, <2>2
<1>3. QED
  BY <1>2 DEF NumberInv

(* While nobody else is at a configuration member, the switches agree with *)
(* the destination and the file name is whole.                             *)
LEMMA Settled ==
  ASSUME NEW m \in Threads, SwitchInv(m), NEW t \in Threads, Calm(t),
         pc[t] \in InLog
  PROVE  /\ shouldWrite = ShouldWrite(dst) /\ shouldLog = ShouldLog(dst)
         /\ logFile \in Files
<1>1. pc[m] \notin Switching \cup {"fileEnd"}
  BY DEF Calm, Reconfiguring, InLog, Warned, Running, Locked, Switching
<1>2. QED
  BY <1>1 DEF SwitchInv, Switching

(* A step of another thread.                                               *)
LEMMA LogOther ==
  ASSUME TypeOK, LogInv, NEW t \in Threads, NEW u \in Threads, u # t,
         Call(u) \/ Configure(u) \/ Emit(u),
         ~ disturbed[t], Calm(t), call[t].op = "log"
  PROVE  Filters(t)' /\ OnConsole(t)' /\ InFiles(t)'
<1>1. UNCHANGED <<initialized, config, ranks>>
  BY OtherCalm DEF Calm
<1>2. /\ pc'[t] = pc[t] /\ call'[t] = call[t] /\ frame'[t] = frame[t]
      /\ Grown(console, console', u) /\ \A f \in Paths : Grown(files[f], files'[f], u)
  BY AloneSteps DEF Alone
<1>3. console \in Seq(Pieces) /\ \A f \in Paths : files[f] \in Seq(Pieces)
  BY DEF TypeOK
<1>4. \A n, r : /\ EndsIn(console', t, n) <=> EndsIn(console, t, n)
                /\ HasIn(console', t, n, r) <=> HasIn(console, t, n, r)
  BY <1>2, <1>3, OthersLines
<1>5. ASSUME NEW f \in Paths, NEW n, NEW r
      PROVE  /\ EndsIn(files'[f], t, n) <=> EndsIn(files[f], t, n)
             /\ HasIn(files'[f], t, n, r) <=> HasIn(files[f], t, n, r)
  BY <1>2, <1>3, OthersLines
<1>6. Filters(t) /\ OnConsole(t) /\ InFiles(t)
  BY DEF LogInv
<1>7. Filters(t)'
  BY <1>1, <1>2, <1>6 DEF Filters, config, ranks
<1>8. OnConsole(t)'
  BY <1>1, <1>2, <1>4, <1>6, Zenon DEF OnConsole, config, output, ranks
<1>9. InFiles(t)'
  BY <1>1, <1>2, <1>5, <1>6, Zenon DEF InFiles, config, output, ranks
<1>10. QED
  BY <1>7, <1>8, <1>9

(* A step of the thread that logs.                                         *)
LEMMA FiltersOwn ==
  ASSUME TypeOK, CallInv, NEW t \in Threads, call[t].op = "log", Filters(t),
         Emit(t), pc'[t] \in InLog
  PROVE  Filters(t)'
<1> USE DEF InLog, Warned, Running, Ranked, Filtered, Locked
<1>0. frame \in [Threads -> FrameType] /\ frame[t] \in FrameType
  BY DEF TypeOK
<1>1. UNCHANGED <<call, initialized, config, ranks>>
  BY EmitInside, FormatEnters
<1>2. CASE Format(t)
  <2>1. pc'[t] = "log"
    BY <1>2, FormatEnters
  <2>2. QED
    BY <2>1 DEF Filters
<1>3. CASE Log(t)
  BY <1>1, <1>3 DEF Log, Step, TypeOK, Filters, control
<1>4. CASE EnterWarnOnce(t) \/ PrintUninitialized(t)
  <2>1. pc[t] \in Warned /\ pc'[t] \in Warned
    <3>1. pc[t] \in Warned
      BY <1>4 DEF EnterWarnOnce, PrintUninitialized, Return, Step
    <3>2. frame[t].resume = "idle"
      BY <3>1 DEF CallInv
    <3>3. QED
      BY <1>4, <3>1, <3>2 DEF EnterWarnOnce, PrintUninitialized, Return, Step, TypeOK
  <2>2. QED
    BY <1>1, <2>1 DEF Filters
<1>5. CASE LoadRank(t)
  <2>1. pc[t] = "loadRank" /\ pc'[t] = "compareRank"
    BY <1>5 DEF LoadRank, Step, TypeOK
  <2>2. frame'[t].rank = currentRank
    BY <1>0, <1>5 DEF LoadRank, FrameType
  <2>3. QED
    BY <1>1, <2>1, <2>2 DEF Filters, ranks
<1>6. CASE CompareRank(t)
  <2>1. pc[t] = "compareRank" /\ frame[t].resume = "idle"
    BY <1>6 DEF CompareRank, Return, Step, CallInv
  <2>2. frame[t].rank = loggingRank /\ pc'[t] = "filter"
    BY <1>6, <2>1 DEF CompareRank, Return, Step, TypeOK
  <2>3. QED
    BY <1>1, <2>1, <2>2 DEF Filters, ranks
<1>7. CASE FilterLevel(t)
  <2>1. pc[t] = "filter" /\ frame[t].resume = "idle" /\ frame[t].level = call[t].level
    BY <1>7 DEF FilterLevel, Return, Step, CallInv
  <2>2. Passes(call[t].level, loggingLevel) /\ pc'[t] = "prefix"
    BY <1>7, <2>1 DEF FilterLevel, Return, Step, TypeOK
  <2>3. QED
    BY <1>1, <2>1, <2>2 DEF Filters, ranks, config
<1>8. CASE CopyRankString(t)
  <2>1. pc[t] = "prefix" /\ pc'[t] = "lock"
    BY <1>8 DEF CopyRankString, Step, TypeOK
  <2>2. frame'[t].prefix = rankStr
    BY <1>0, <1>8 DEF CopyRankString, FrameType
  <2>3. QED
    BY <1>1, <2>1, <2>2 DEF Filters, ranks, config
<1>9. CASE OpenFile(t)
  <2>1. pc[t] = "open" /\ pc'[t] \in Locked
    BY <1>9 DEF OpenFile, Step, TypeOK
  <2>2. frame'[t].prefix = frame[t].prefix
    BY <1>0, <1>9 DEF OpenFile, FrameType
  <2>3. QED
    BY <1>1, <2>1, <2>2 DEF Filters, ranks, config
<1>10. CASE \/ Lock(t) \/ TestShouldLog(t) \/ PrintLine(t) \/ TestShouldWrite(t)
            \/ WriteFile(t)
  <2>1. pc[t] \in Locked \cup {"lock"} /\ pc'[t] \in Locked /\ UNCHANGED frame
    BY <1>10 DEF Lock, TestShouldLog, PrintLine, TestShouldWrite, WriteFile, Step,
       TypeOK, control
  <2>2. QED
    BY <1>1, <2>1 DEF Filters, ranks, config
<1>11. CASE Unlock(t)
  <2>1. pc[t] = "unlock" /\ pc'[t] = frame[t].resume
    BY <1>11 DEF Unlock, Return, Step, TypeOK
  <2>2. QED
    BY <2>1 DEF CallInv
<1>12. QED
  BY <1>2, <1>3, <1>4, <1>5, <1>6, <1>7, <1>8, <1>9, <1>10, <1>11 DEF Emit

LEMMA ConsoleOwn ==
  ASSUME TypeOK, CallInv, NumberInv, NEW t \in Threads, call[t].op = "log",
         Filters(t), OnConsole(t), Emit(t), pc'[t] \in InLog
  PROVE  OnConsole(t)'
<1> USE DEF InLog, Warned, Running, Printed, Locked
<1>0. /\ console \in Seq(Pieces) /\ shouldLog \in BOOLEAN
      /\ UNCHANGED <<initialized, config, ranks>>
  BY EmitInside, FormatEnters DEF TypeOK
<1>1. CASE Format(t)
  <2>1. pc'[t] = "log" /\ frame'[t].n = frame[t].n + 1 /\ console' = console
    BY <1>1, FormatEnters DEF sinks
  <2>2. ~ EndsIn(console, t, frame[t].n + 1)
    BY NewLine
  <2>3. QED
    BY <2>1, <2>2 DEF OnConsole
<1>2. CASE PrintUninitialized(t)
  <2>1. pc[t] \in Warned /\ frame[t].resume = "idle" /\ frame' = frame
    BY <1>2 DEF PrintUninitialized, Return, Step, CallInv, control
  <2>2. pc[t] = "warnText" /\ pc'[t] = "warnEnd"
    BY <1>2, <2>1 DEF PrintUninitialized, Return, Step, TypeOK
  <2>3. console' = Append(console, Piece(t, "uninit", "text"))
    BY <1>2, <2>2 DEF PrintUninitialized, Return, Step
  <2>4. Piece(t, "uninit", "text") \in Pieces /\ Piece(t, "uninit", "text").kind = "uninit"
    BY PieceType DEF Piece
  <2>5. ~ EndsIn(console, t, frame[t].n)
    BY <2>2 DEF OnConsole
  <2>6. ~ EndsIn(console', t, frame[t].n)
    BY <1>0, <2>3, <2>4, <2>5, EndsMore
  <2>7. QED
    BY <2>1, <2>2, <2>6 DEF OnConsole
<1>3. CASE PrintLine(t)
  <2>1. PICK part \in {"text", "end"} :
          /\ console' = Append(console, Piece(t, "log", part))
          /\ IF part = "text" THEN Step(t, "printText", "printEnd")
                              ELSE Step(t, "printEnd", "shouldWrite")
    BY <1>3 DEF PrintLine
  <2>2. /\ frame' = frame /\ pc[t] \in {"printText", "printEnd"}
        /\ part = "text" <=> pc'[t] = "printEnd"
        /\ part = "end" <=> pc'[t] = "shouldWrite"
        /\ pc'[t] \in {"printEnd", "shouldWrite"}
    BY <1>3, <2>1 DEF PrintLine, Step, TypeOK, control
  <2>3. /\ Piece(t, "log", part) \in Pieces /\ Piece(t, "log", part).kind = "log"
        /\ Piece(t, "log", part).part = part
        /\ Line(Piece(t, "log", part)) = <<t, frame[t].n>>
        /\ Piece(t, "log", part).prefix = frame[t].prefix
    BY PieceType DEF Piece, Line
  <2>4. /\ ~ EndsIn(console, t, frame[t].n) /\ shouldLog
        /\ frame[t].prefix = rankStr
    BY <2>2 DEF OnConsole, Filters
  <2>5. part = "text" => ~ EndsIn(console', t, frame[t].n)
    BY <1>0, <2>1, <2>3, <2>4, EndsMore
  <2>6. part = "end" => HasIn(console', t, frame[t].n, rankStr)
    BY <1>0, <2>1, <2>3, <2>4, EndsMore
  <2>7. rankStr' = rankStr /\ shouldLog' = shouldLog
    BY <1>0 DEF ranks, config, output
  <2>8. QED
    BY <2>2, <2>4, <2>5, <2>6, <2>7 DEF OnConsole
<1>4. CASE ~ Format(t) /\ ~ PrintUninitialized(t) /\ ~ PrintLine(t)
  <2>1. console' = console /\ frame'[t].n = frame[t].n
    <3>1. console' = console
      BY <1>4 DEF Emit, Log, EnterWarnOnce, LoadRank, CompareRank, FilterLevel,
         CopyRankString, Lock, TestShouldLog, TestShouldWrite, OpenFile,
         WriteFile, Unlock, sinks
    <3>2. QED
      BY <1>4, <3>1, EmitInside
  <2>2. rankStr' = rankStr /\ shouldLog' = shouldLog
    BY <1>0 DEF ranks, config, output
  <2>3. CASE TestShouldLog(t)
    <3>1. /\ pc[t] = "shouldLog"
          /\ pc'[t] = IF shouldLog THEN "printText" ELSE "shouldWrite"
      BY <2>3 DEF TestShouldLog, Step, TypeOK
    <3>2. ~ EndsIn(console, t, frame[t].n) /\ ~ HasIn(console, t, frame[t].n, rankStr)
      BY <3>1, HasEnds DEF OnConsole
    <3>3. QED
      BY <1>0, <2>1, <2>2, <3>1, <3>2 DEF OnConsole
  <2>4. CASE \/ TestShouldWrite(t) \/ OpenFile(t) \/ WriteFile(t)
    <3>1. pc[t] \in Printed /\ pc'[t] \in Printed
      BY <2>4 DEF TestShouldWrite, OpenFile, WriteFile, Step, TypeOK
    <3>2. QED
      BY <2>1, <2>2, <3>1 DEF OnConsole
  <2>5. CASE \/ Log(t) \/ EnterWarnOnce(t) \/ LoadRank(t) \/ CompareRank(t)
             \/ FilterLevel(t) \/ CopyRankString(t) \/ Lock(t)
    <3>1. pc[t] \in InLog \ Printed
      BY <2>5 DEF Log, EnterWarnOnce, LoadRank, CompareRank, FilterLevel,
         CopyRankString, Lock, Return, Step
    <3>2. frame[t].resume = "idle"
      BY <3>1 DEF CallInv
    <3>3. pc'[t] \in InLog \ (Printed \cup {"printText", "printEnd"})
      BY <2>5, <3>1, <3>2 DEF Log, EnterWarnOnce, LoadRank, CompareRank, FilterLevel,
         CopyRankString, Lock, Return, Step, TypeOK
    <3>4. QED
      BY <2>1, <2>2, <3>1, <3>3 DEF OnConsole
  <2>6. CASE Unlock(t)
    <3>1. pc[t] = "unlock" /\ pc'[t] = frame[t].resume
      BY <2>6 DEF Unlock, Return, Step, TypeOK
    <3>2. QED
      BY <3>1 DEF CallInv
  <2>7. QED
    BY <1>4, <2>3, <2>4, <2>5, <2>6 DEF Emit
<1>5. QED
  BY <1>1, <1>2, <1>3, <1>4

LEMMA FilesOwn ==
  ASSUME TypeOK, NEW m \in Threads, SwitchInv(m), CallInv, NumberInv,
         NEW t \in Threads, Calm(t), call[t].op = "log", Filters(t), InFiles(t),
         Emit(t), pc'[t] \in InLog
  PROVE  InFiles(t)'
<1> USE DEF InLog, Warned, Running, Locked
<1>0. /\ \A f \in Paths : files[f] \in Seq(Pieces)
      /\ shouldWrite \in BOOLEAN /\ UNCHANGED <<initialized, config, ranks>>
  BY EmitInside, FormatEnters DEF TypeOK
<1>1. rankStr' = rankStr /\ shouldWrite' = shouldWrite /\ logFile' = logFile
  BY <1>0 DEF ranks, config, output
<1>2. CASE Format(t)
  <2>1. pc'[t] = "log" /\ frame'[t].n = frame[t].n + 1 /\ files' = files
    BY <1>2, FormatEnters DEF sinks
  <2>2. \A f \in Paths : ~ EndsIn(files[f], t, frame[t].n + 1)
    BY NewLine
  <2>3. QED
    BY <2>1, <2>2 DEF InFiles
<1>3. CASE WriteFile(t)
  <2>1. PICK part \in {"text", "end"} :
          /\ files' = [files EXCEPT ![frame[t].path] = Append(@, Piece(t, "log", part))]
          /\ IF part = "text" THEN Step(t, "writeText", "writeEnd")
                              ELSE Step(t, "writeEnd", "unlock")
    BY <1>3 DEF WriteFile
  <2>2. /\ frame' = frame /\ pc[t] \in {"writeText", "writeEnd"}
        /\ part = "text" <=> pc'[t] = "writeEnd"
        /\ part = "end" <=> pc'[t] = "unlock"
        /\ pc'[t] \in {"writeEnd", "unlock"}
    BY <1>3, <2>1 DEF WriteFile, Step, TypeOK, control
  <2>3. /\ Piece(t, "log", part) \in Pieces /\ Piece(t, "log", part).kind = "log"
        /\ Piece(t, "log", part).part = part
        /\ Line(Piece(t, "log", part)) = <<t, frame[t].n>>
        /\ Piece(t, "log", part).prefix = frame[t].prefix
    BY PieceType DEF Piece, Line
  <2>4. /\ \A f \in Paths : ~ EndsIn(files[f], t, frame[t].n)
        /\ shouldWrite /\ frame[t].path = logFile /\ logFile \in Writable
        /\ frame[t].prefix = rankStr
    BY <2>2 DEF InFiles, Filters
  <2>5. logFile \in Paths
    BY DEF TypeOK
  <2>6. /\ files'[logFile] = Append(files[logFile], Piece(t, "log", part))
        /\ \A f \in Paths : f # logFile => files'[f] = files[f]
    BY <2>1, <2>4, <2>5 DEF TypeOK
  <2>7. CASE part = "text"
    <3>1. ~ EndsIn(files'[logFile], t, frame[t].n)
      <4>1. files[logFile] \in Seq(Pieces) /\ ~ EndsIn(files[logFile], t, frame[t].n)
        BY <1>0, <2>4, <2>5
      <4>2. Piece(t, "log", part) \in Pieces /\ Piece(t, "log", part).part # "end"
        BY <2>3, <2>7
      <4>3. ~ EndsIn(Append(files[logFile], Piece(t, "log", part)), t, frame[t].n)
        BY <4>1, <4>2, EndsMore
      <4>4. QED
        BY <2>6, <4>3
    <3>2. \A f \in Paths : ~ EndsIn(files'[f], t, frame[t].n)
      BY <2>4, <2>6, <3>1
    <3>3. QED
      BY <1>1, <2>2, <2>4, <2>7, <3>2 DEF InFiles
  <2>8. CASE part = "end"
    <3>1. HasIn(files'[logFile], t, frame[t].n, rankStr)
      BY <1>0, <2>3, <2>4, <2>5, <2>6, <2>8, EndsMore
    <3>2. \A f \in Paths : f # logFile => ~ HasIn(files'[f], t, frame[t].n, rankStr)
      BY <2>4, <2>6, HasEnds
    <3>3. \A f \in Paths : HasIn(files'[f], t, frame[t].n, rankStr)
                             <=> shouldWrite /\ f = logFile /\ f \in Writable
      BY <2>4, <3>1, <3>2
    <3>4. QED
      BY <1>1, <2>2, <2>8, <3>3 DEF InFiles
  <2>9. QED
    BY <2>7, <2>8
<1>4. CASE ~ Format(t) /\ ~ WriteFile(t)
  <2>1. files' = files /\ frame'[t].n = frame[t].n
    <3>1. files' = files
      BY <1>4 DEF Emit, Log, EnterWarnOnce, PrintUninitialized, LoadRank,
         CompareRank, FilterLevel, CopyRankString, Lock, TestShouldLog, PrintLine,
         TestShouldWrite, OpenFile, Unlock, sinks
    <3>2. QED
      BY <1>4, <3>1, EmitInside
  <2>2. pc[t] \in InLog \ {"unlock", "writeText", "writeEnd"}
    <3>1. pc[t] \in InLog
      BY <1>4, EmitInside
    <3>2. frame[t].resume = "idle"
      BY <3>1 DEF CallInv
    <3>3. ~ Unlock(t)
      BY <3>2 DEF Unlock, Return, Step, TypeOK
    <3>4. QED
      BY <1>4, <3>3 DEF Emit, Log, EnterWarnOnce, PrintUninitialized, LoadRank,
         CompareRank, FilterLevel, CopyRankString, Lock, TestShouldLog, PrintLine,
         TestShouldWrite, OpenFile, Return, Step
  <2>3. \A f \in Paths : /\ ~ EndsIn(files[f], t, frame[t].n)
                         /\ ~ HasIn(files[f], t, frame[t].n, rankStr)
    BY <2>2, HasEnds DEF InFiles
  <2>4. CASE TestShouldWrite(t)
    <3>1. pc'[t] = IF shouldWrite THEN "open" ELSE "unlock"
      BY <2>4 DEF TestShouldWrite, Step, TypeOK
    <3>2. QED
      BY <1>0, <1>1, <2>1, <2>3, <3>1 DEF InFiles
  <2>5. CASE OpenFile(t)
    <3>1. logFile \in Files /\ logFile # Torn
      BY <2>2, Settled, LoggerAssumption
    <3>2. shouldWrite
      BY <2>5 DEF OpenFile, Step, InFiles
    <3>3. pc'[t] = IF logFile \in Writable THEN "writeText" ELSE "unlock"
      BY <2>5, <3>1 DEF OpenFile, Step, TypeOK
    <3>4. frame'[t].path = logFile
      BY <2>5 DEF OpenFile, TypeOK, FrameType
    <3>5. CASE logFile \in Writable
      BY <1>1, <2>1, <2>3, <3>2, <3>3, <3>4, <3>5 DEF InFiles
    <3>6. CASE logFile \notin Writable
      BY <1>1, <2>1, <2>3, <3>3, <3>6 DEF InFiles
    <3>7. QED
      BY <3>5, <3>6
  <2>6. CASE ~ TestShouldWrite(t) /\ ~ OpenFile(t)
    <3>1. frame[t].resume = "idle"
      BY <2>2 DEF CallInv
    <3>2. pc'[t] \in InLog \ {"open", "writeText", "writeEnd", "unlock"}
      BY <1>4, <2>6, <3>1 DEF Emit, Log, EnterWarnOnce, PrintUninitialized, LoadRank,
         CompareRank, FilterLevel, CopyRankString, Lock, TestShouldLog, PrintLine,
         Unlock, Return, Step, TypeOK
    <3>3. QED
      BY <1>1, <2>1, <2>3, <3>2 DEF InFiles
  <2>7. QED
    BY <2>4, <2>5, <2>6
<1>5. QED
  BY <1>2, <1>3, <1>4

LEMMA HistoryStep ==
  ASSUME HistoryInv, Record, NEW t \in Threads, pc[t] # "idle", pc'[t] # "idle",
         ~ disturbed'[t]
  PROVE  ~ disturbed[t] /\ Calm(t)
BY DEF HistoryInv, Record, RecordDisturbed

LEMMA LogInvNext ==
  ASSUME NEW m \in Threads, TypeOK, SwitchInv(m), CallInv, CallInv', NumberInv,
         HistoryInv, LogInv, [HNext]_hvars
  PROVE  LogInv'
<1> USE DEF InLog, Warned, Running, Ranked, Filtered, Printed, Locked
<1>1. CASE UNCHANGED hvars
  BY <1>1 DEF LogInv, Filters, OnConsole, InFiles, HasIn, EndsIn, hvars, vars, once,
     config, output, ranks, sinks, control
<1>2. CASE HNext
  <2> SUFFICES ASSUME NEW t \in Threads, ~ disturbed'[t], call'[t].op = "log"
               PROVE  Filters(t)' /\ OnConsole(t)' /\ InFiles(t)'
    BY DEF LogInv
  <2>1. CASE pc'[t] \notin InLog
    BY <2>1 DEF Filters, OnConsole, InFiles
  <2>2. CASE pc'[t] \in InLog /\ (Done \/ MPI_Init)
    <3>1. /\ UNCHANGED <<once, config, ranks, sinks, control>> /\ pc' = pc
      BY <2>2 DEF Done, MPI_Init, vars
    <3>2. ~ disturbed[t] /\ call[t].op = "log"
      BY <1>2, <2>2, <3>1, HistoryStep DEF HNext, control
    <3>3. Filters(t) /\ OnConsole(t) /\ InFiles(t)
      BY <3>2 DEF LogInv
    <3>4. QED
      BY <3>1, <3>3 DEF Filters, OnConsole, InFiles, HasIn, EndsIn, once, config,
         output, ranks, sinks, control
  <2>3. ASSUME pc'[t] \in InLog, NEW u \in Threads, u # t,
               Call(u) \/ Configure(u) \/ Emit(u)
        PROVE  Filters(t)' /\ OnConsole(t)' /\ InFiles(t)'
    <3>1. pc'[t] = pc[t] /\ call'[t] = call[t]
      BY <2>3, AloneSteps DEF Alone
    <3>2. ~ disturbed[t] /\ Calm(t) /\ call[t].op = "log"
      BY <1>2, <2>3, <3>1, HistoryStep DEF HNext
    <3>3. QED
      BY <2>3, <3>2, LogOther
  <2>4. ASSUME pc'[t] \in InLog, Call(t) \/ Configure(t) \/ Emit(t)
        PROVE  Filters(t)' /\ OnConsole(t)' /\ InFiles(t)'
    <3>1. ~ Call(t)
      BY <2>4 DEF Call, Step, TypeOK
    <3>2. ~ Configure(t)
      <4>1. SUFFICES ASSUME Configure(t) PROVE FALSE
        OBVIOUS
      <4>2. call'[t] = call[t]
        BY <4>1 DEF Configure, ReadMpiFlag, UpdateCurrentRank, FormatRankString,
           CheckLoggingRank, StoreLoggingRank, SetCommunicator, EnterInitOnce,
           SetLoggingLevel, SetOutputStream, SetDestinationBools,
           SetOutputFilename, Publish, Announce, BeginLog, control
      <4>3. QED
        BY <4>1, <4>2, ConfigureOutside DEF CallInv
    <3>3. Emit(t) /\ call[t].op = "log" /\ pc[t] # "idle"
      BY <2>4, <3>1, <3>2, EmitInside, FormatEnters
    <3>4. ~ disturbed[t] /\ Calm(t)
      BY <1>2, <2>4, <3>3, HistoryStep DEF HNext
    <3>5. Filters(t) /\ OnConsole(t) /\ InFiles(t)
      BY <3>3, <3>4 DEF LogInv
    <3>6. QED
      BY <2>4, <3>3, <3>4, <3>5, FiltersOwn, ConsoleOwn, FilesOwn
  <2>5. QED
    BY <1>2, <2>1, <2>2, <2>3, <2>4 DEF HNext, Next
<1>3. QED
  BY <1>1, <1>2

LEMMA LogInvInit ==
  ASSUME HInit
  PROVE  NumberInv /\ HistoryInv /\ LogInv
<1>1. \A t \in Threads : pc[t] = "idle"
  BY DEF HInit, Init
<1>2. LogInv
  BY <1>1 DEF LogInv, Filters, OnConsole, InFiles, InLog, Warned, Running, Ranked,
     Filtered, Printed, Locked
<1>3. HistoryInv
  BY <1>1 DEF HInit, HistoryInv
<1>4. NumberInv
  <2>1. console = <<>> /\ \A f \in Paths : files[f] = <<>>
    BY DEF HInit, Init
  <2>2. QED
    BY <2>1 DEF NumberInv, Past
<1>5. QED
  BY <1>2, <1>3, <1>4

(* What the step that ends an undisturbed log call leaves behind.          *)
Follows(t) ==
  /\ Has(console, t)' <=> Meant(t) /\ dst # LogTo.file
  /\ \A f \in Paths : Has(files[f], t)' <=> Meant(t) /\ dst # LogTo.console
                                            /\ f = logFile /\ f \in Writable

(* A call that a filter refuses leaves nothing.                            *)
LEMMA RefusedLeavesNothing ==
  ASSUME TypeOK, NEW t \in Threads, OnConsole(t), InFiles(t),
         pc[t] \in InLog \ Printed, UNCHANGED frame, UNCHANGED files, ~ Meant(t),
         \/ UNCHANGED console
         \/ console' = Append(console, Piece(t, "uninit", "end"))
  PROVE  Follows(t)
<1>1. /\ ~ EndsIn(console, t, frame[t].n)
      /\ \A f \in Paths : ~ EndsIn(files[f], t, frame[t].n)
  BY DEF OnConsole, InFiles, Printed
<1>2. ~ EndsIn(console', t, frame[t].n)
  <2>1. Piece(t, "uninit", "end") \in Pieces /\ Piece(t, "uninit", "end").kind = "uninit"
    BY PieceType DEF Piece
  <2>2. console \in Seq(Pieces)
    BY DEF TypeOK
  <2>3. CASE console' = Append(console, Piece(t, "uninit", "end"))
    <3>1. EndsIn(Append(console, Piece(t, "uninit", "end")), t, frame[t].n)
            => EndsIn(console, t, frame[t].n)
      BY <2>1, <2>2, EndsMore
    <3>2. QED
      BY <1>1, <2>3, <3>1
  <2>4. QED
    BY <1>1, <2>3
<1>3. ~ Has(console, t)' /\ \A f \in Paths : ~ Has(files[f], t)'
  BY <1>1, <1>2 DEF Has, EndsIn
<1>4. QED
  BY <1>3 DEF Follows

LEMMA LogReturns ==
  ASSUME TypeOK, NEW m \in Threads, SwitchInv(m), CallInv, HistoryInv, LogInv,
         Next, NEW t \in Threads, pc[t] # "idle", pc'[t] = "idle",
         ~ disturbed[t], call[t].op = "log", call[t].ok
  PROVE  Follows(t)
<1> USE DEF InLog, Warned, Running, Ranked, Filtered, Printed, Locked
<1>1. Emit(t) /\ ~ Format(t)
  <2>1. ~ Done /\ ~ MPI_Init
    BY DEF Done, MPI_Init, vars
  <2>2. PICK u \in Threads : Call(u) \/ Configure(u) \/ Emit(u)
    BY <2>1 DEF Next
  <2>3. u = t
    BY <2>2, AloneSteps DEF Alone
  <2>4. ~ Call(t)
    BY DEF Call, Step
  <2>5. ~ Configure(t)
    BY ConfigureOutside DEF CallInv
  <2>6. ~ Format(t)
    BY FormatEnters
  <2>7. QED
    BY <2>2, <2>3, <2>4, <2>5, <2>6
<1>2. /\ pc[t] \in InLog /\ UNCHANGED <<initialized, config, ranks>>
  BY <1>1, EmitInside
<1>3. frame[t].level = call[t].level /\ frame[t].resume = "idle"
  BY <1>2 DEF CallInv
<1>4. Filters(t) /\ OnConsole(t) /\ InFiles(t) /\ Calm(t)
  BY DEF LogInv, HistoryInv
<1>5. CASE EnterWarnOnce(t) \/ PrintUninitialized(t)
  <2>1. pc[t] \in Warned /\ UNCHANGED <<frame, files>>
    BY <1>5 DEF EnterWarnOnce, PrintUninitialized, Return, Step, control, sinks
  <2>2. UNCHANGED console \/ console' = Append(console, Piece(t, "uninit", "end"))
    BY <1>5 DEF EnterWarnOnce, PrintUninitialized, Return, Step, TypeOK, sinks
  <2>3. ~ Meant(t)
    BY <1>4, <2>1 DEF Filters, Meant
  <2>4. QED
    BY <1>4, <2>1, <2>2, <2>3, RefusedLeavesNothing
<1>6. CASE CompareRank(t) \/ FilterLevel(t)
  <2>1. pc[t] \in {"compareRank", "filter"} /\ UNCHANGED <<frame, files, console>>
    BY <1>6 DEF CompareRank, FilterLevel, Return, Step, control, sinks
  <2>2. CASE CompareRank(t)
    <3>1. frame[t].rank # loggingRank /\ pc[t] = "compareRank"
      BY <2>2 DEF CompareRank, Return, Step, TypeOK
    <3>2. QED
      BY <1>4, <2>1, <3>1, RefusedLeavesNothing DEF Filters, Meant
  <2>3. CASE FilterLevel(t)
    <3>1. ~ Passes(call[t].level, loggingLevel)
      BY <1>3, <2>3 DEF FilterLevel, Return, Step, TypeOK
    <3>2. ~ Meant(t)
      BY <3>1 DEF Passes, Meant
    <3>3. QED
      BY <1>4, <2>1, <3>2, RefusedLeavesNothing
  <2>4. QED
    BY <1>6, <2>2, <2>3
<1>7. CASE Unlock(t)
  <2>1. pc[t] = "unlock" /\ UNCHANGED <<frame, files, console>> /\ rankStr' = rankStr
    BY <1>7 DEF Unlock, Return, Step, control, sinks, ranks
  <2>2. Meant(t)
    BY <1>4, <2>1 DEF Filters, Passes, Meant
  <2>3. shouldWrite = ShouldWrite(dst) /\ shouldLog = ShouldLog(dst)
    BY <1>2, <1>4, Settled
  <2>4. (shouldWrite <=> dst # LogTo.console) /\ (shouldLog <=> dst # LogTo.file)
    <3>1. dst \in 0 .. 2
      BY DEF TypeOK, Destinations
    <3>2. /\ ShouldWrite(dst) <=> dst # LogTo.console
          /\ ShouldLog(dst) <=> dst # LogTo.file
      BY <3>1 DEF ShouldWrite, ShouldLog, LogTo
    <3>3. QED
      BY <2>3, <3>2
  <2>5. HasIn(console, t, frame[t].n, rankStr) <=> shouldLog
    BY <1>4, <2>1 DEF OnConsole
  <2>6. \A f \in Paths : HasIn(files[f], t, frame[t].n, rankStr)
                           <=> shouldWrite /\ f = logFile /\ f \in Writable
    BY <1>4, <2>1 DEF InFiles
  <2>7. /\ Has(console, t)' <=> HasIn(console, t, frame[t].n, rankStr)
        /\ \A f \in Paths : Has(files[f], t)' <=> HasIn(files[f], t, frame[t].n, rankStr)
    BY <2>1 DEF Has, HasIn
  <2>8. QED
    BY <2>2, <2>4, <2>5, <2>6, <2>7 DEF Follows
<1>8. CASE \/ Log(t) \/ LoadRank(t) \/ CopyRankString(t) \/ Lock(t)
           \/ TestShouldLog(t) \/ PrintLine(t) \/ TestShouldWrite(t)
           \/ OpenFile(t) \/ WriteFile(t)
  BY <1>8 DEF Log, LoadRank, CopyRankString, Lock, TestShouldLog, PrintLine,
     TestShouldWrite, OpenFile, WriteFile, Step, TypeOK
<1>9. QED
  BY <1>1, <1>5, <1>6, <1>7, <1>8 DEF Emit

(* When one thread configures the logger, a log call during which nobody   *)
(* else reconfigures it leaves its line, with the rank string, on exactly  *)
(* the outputs that the configuration asks for, and returns without a line *)
(* otherwise: no interleaving with other log calls, with the other thread's*)
(* initialisation or with MPI_Init can make it do anything else.           *)
THEOREM LogFollowsConfig ==
  ASSUME NEW m \in Threads, Configures(m)
  PROVE  HSpec => UndisturbedLogFollowsConfig
<1> DEFINE Inv == SwitchInv(m) /\ CallInv /\ NumberInv /\ HistoryInv /\ LogInv
<1>1. HInit => Init
  BY DEF HInit
<1>2. [HNext]_hvars => [Next]_vars
  BY DEF HNext, hvars
<1>3. HSpec => [](TypeOK /\ OnlyLogging(m))
  <2>1. TypeOK /\ OnlyLogging(m) /\ [Next]_vars => OnlyLogging(m)'
    BY OthersNext
  <2>2. HSpec => Spec
    BY <1>1, <1>2, PTL DEF HSpec, Spec
  <2>3. QED
    BY <2>1, <2>2, OthersInit, TypeCorrect, PTL DEF Spec
<1>4. HInit => Inv
  BY <1>1, SwitchInit, CallInvInit, LogInvInit
<1>5. TypeOK /\ OnlyLogging(m) /\ Inv /\ [HNext]_hvars => Inv'
  BY <1>2, SwitchNext, CallInvNext, NumberNext, HistoryNext, LogInvNext
<1>6. TypeOK /\ Inv /\ [HNext]_hvars =>
        [\A t \in Threads :
           (/\ pc[t] # "idle" /\ pc'[t] = "idle" /\ ~ disturbed[t]
            /\ call[t].op = "log" /\ call[t].ok) =>
              /\ Has(console, t)' <=> Meant(t) /\ dst # LogTo.file
              /\ \A f \in Paths :
                   Has(files[f], t)' <=> Meant(t) /\ dst # LogTo.console
                                         /\ f = logFile /\ f \in Writable]_hvars
  BY LogReturns DEF Follows, HNext
<1> HIDE DEF Inv
<1>7. QED
  BY <1>3, <1>4, <1>5, <1>6, PTL DEF HSpec, UndisturbedLogFollowsConfig

==============================================================================
