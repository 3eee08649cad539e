------------------------- MODULE LoggerRefinementProofs -------------------------
(***************************************************************************)
(* Logger implements LoggerService, for every program without setters:     *)
(* every step of the logger is a step of the service or leaves it alone.   *)
(***************************************************************************)
EXTENDS LoggerRefinement, LoggerProofs

ServiceProofs == INSTANCE LoggerServiceProofs WITH
  Nobody     <- NoThread,
  Routes     <- {RouteOf(to, f) : to \in Destinations, f \in Files},
  configured <- initialized, route <- routeNow, asked <- askedNow,
  phase      <- phaseNow, turn <- mutex, due <- dueNow, out <- outNow

------------------------------------------------------------------------------
(* The configuration of an initialised logger *)

LEMMA ConfigFrozen ==
  ASSUME NoSetters, TypeOK, StartInv, initialized, [Next]_vars
  PROVE  UNCHANGED <<initialized, config>>
<1> USE DEF once, config, output
<1>1. \A t \in Threads : pc[t] \notin Body BY DEF StartInv
<1>2. CASE UNCHANGED vars \/ Done \/ MPI_Init BY <1>2 DEF vars, Done, MPI_Init
<1>3. CASE \E t \in Threads : Call(t) \/ Emit(t)
  BY <1>3 DEF Call, Emit, Format, Log, EnterWarnOnce, PrintUninitialized,
     LoadRank, CompareRank, FilterLevel, CopyRankString, Lock, TestShouldLog,
     PrintLine, TestShouldWrite, OpenFile, WriteFile, Unlock
<1>4. ASSUME NEW t \in Threads, Configure(t) PROVE UNCHANGED <<initialized, config>>
  <2>1. ~ (SetLoggingLevel(t) \/ SetOutputStream(t) \/ SetDestinationBools(t)
           \/ SetOutputFilename(t) \/ Publish(t))
    BY <1>1 DEF SetLoggingLevel, SetOutputStream, SetDestinationBools,
       SetOutputFilename, Publish, Step, Body
  <2> QED BY <1>4, <2>1 DEF Configure, ReadMpiFlag, UpdateCurrentRank,
       FormatRankString, CheckLoggingRank, StoreLoggingRank, SetCommunicator,
       EnterInitOnce, Announce
<1> QED BY <1>2, <1>3, <1>4 DEF Next

(* The switches agree with the destination, and the file has a whole name. *)
LEMMA ConfigWhole ==
  ASSUME TypeOK, StartInv, initialized
  PROVE  /\ shouldLog = ShouldLog(dst) /\ shouldWrite = ShouldWrite(dst)
         /\ dst \in Destinations /\ logFile \in Files
<1>1. PICK c \in CallType :
        /\ dst = c.dst /\ logFile = c.file
        /\ shouldLog = ShouldLog(c.dst) /\ shouldWrite = ShouldWrite(c.dst)
  BY LoggerAssumption DEF StartInv, ConfigFromOneCall
<1> QED BY <1>1 DEF CallType

------------------------------------------------------------------------------
(* RouteInv *)

LEMMA RouteInit == Init => RouteInv
BY DEF Init, RouteInv, Running, Locked

(* A step that enters no position RouteInv speaks of.                      *)
LEMMA RouteKept ==
  ASSUME TypeOK, RouteInv, NEW t \in Threads, NEW from, NEW to,
         Step(t, from, to), OthersKept(t),
         to \in Running => initialized,
         to \notin {"printText", "printEnd", "open", "writeText", "writeEnd"},
         initialized => UNCHANGED <<initialized, config>>
  PROVE  RouteInv'
<1>1. \A u \in Threads : pc'[u] \in Running => initialized'
  BY DEF RouteInv, TypeOK, Step
<1>2. \A u \in Threads :
        pc'[u] \in {"printText", "printEnd", "open", "writeText", "writeEnd"} =>
          u # t /\ pc'[u] = pc[u] /\ initialized /\ frame'[u] = frame[u]
  BY DEF RouteInv, TypeOK, Step, Running, Locked, OthersKept
<1> QED BY <1>1, <1>2 DEF RouteInv, config, output

LEMMA RouteEmit ==
  ASSUME TypeOK, StartInv, RouteInv, NEW t \in Threads, Emit(t)
  PROVE  RouteInv'
<1> USE DEF once, config, output, control, Locked, Running
<1>0. UNCHANGED <<initialized, config>>
  BY DEF Emit, Format, BeginLog, Log, EnterWarnOnce, PrintUninitialized, LoadRank,
     CompareRank, FilterLevel, CopyRankString, Lock, TestShouldLog, PrintLine,
     TestShouldWrite, OpenFile, WriteFile, Unlock
<1>1. frame[t].resume \in {"idle", "setComm"} BY DEF TypeOK, FrameType
<1>2. CASE \/ Format(t) \/ Log(t) \/ EnterWarnOnce(t) \/ LoadRank(t)
           \/ CompareRank(t) \/ FilterLevel(t) \/ CopyRankString(t) \/ Unlock(t)
           \/ PrintUninitialized(t) \/ Lock(t)
  <2>1. PICK from, to :
          /\ Step(t, from, to) /\ OthersKept(t)
          /\ \/ to \in {"idle", "setComm", "log", "warnOnce", "warnText", "warnEnd"}
             \/ to = "loadRank" /\ initialized
             \/ from \in Running /\ to \in {"compareRank", "filter", "prefix",
                                             "lock", "shouldLog"}
    <3>1. CASE Format(t)
      BY <3>1, BeginKeepsOthers DEF Format, OthersKept
    <3>2. CASE ~ Format(t)
      BY <1>1, <1>2, <3>2 DEF Log, EnterWarnOnce, LoadRank, CompareRank, FilterLevel,
         CopyRankString, Unlock, PrintUninitialized, Lock, Return, OthersKept, TypeOK
    <3> QED BY <3>1, <3>2
  <2>2. to \in Running => initialized BY <2>1 DEF RouteInv, Step
  <2>3. to \notin {"printText", "printEnd", "open", "writeText", "writeEnd"}
    BY <2>1
  <2> QED BY <1>0, <2>1, <2>2, <2>3, RouteKept
<1>3. ASSUME NEW from \in Locked, NEW to \in Locked, Step(t, from, to),
             OthersKept(t),
             to \in {"printText", "printEnd"} => shouldLog,
             to \in {"open", "writeText", "writeEnd"} => shouldWrite,
             to \in {"writeText", "writeEnd"} =>
               frame'[t].path = logFile /\ logFile \in Writable
      PROVE  RouteInv'
  <2>1. /\ pc'[t] = to /\ pc[t] = from
        /\ \A u \in Threads : u # t => pc'[u] = pc[u] /\ frame'[u] = frame[u]
    BY <1>3 DEF TypeOK, Step, OthersKept
  <2>2. initialized BY <2>1 DEF RouteInv
  <2> QED BY <1>0, <1>3, <2>1, <2>2 DEF RouteInv
<1>4. CASE TestShouldLog(t) \/ PrintLine(t) \/ TestShouldWrite(t)
  <2>0. UNCHANGED frame
    BY <1>4 DEF TestShouldLog, PrintLine, TestShouldWrite
  <2>1. CASE TestShouldLog(t)
    BY <1>3, <2>0, <2>1 DEF TestShouldLog, OthersKept
  <2>2. CASE PrintLine(t)
    BY <1>3, <2>0, <2>2 DEF PrintLine, OthersKept, RouteInv, Step
  <2>3. CASE TestShouldWrite(t)
    BY <1>3, <2>0, <2>3 DEF TestShouldWrite, OthersKept
  <2> QED BY <1>4, <2>1, <2>2, <2>3
<1>5. CASE OpenFile(t)
  <2>1. pc[t] = "open" BY <1>5 DEF OpenFile, Step
  <2>2. shouldWrite /\ initialized BY <2>1 DEF RouteInv
  <2>3. logFile # Torn BY <2>2, ConfigWhole, LoggerAssumption
  <2>4. OthersKept(t) /\ frame'[t].path = logFile
    BY <1>5 DEF OpenFile, OthersKept, TypeOK, FrameType
  <2> QED BY <1>3, <1>5, <2>2, <2>3, <2>4 DEF OpenFile
<1>6. CASE WriteFile(t)
  <2>0. UNCHANGED frame /\ OthersKept(t) BY <1>6 DEF WriteFile, OthersKept
  <2>1. CASE Step(t, "writeText", "writeEnd")
    BY <1>3, <2>0, <2>1 DEF RouteInv, Step
  <2>2. CASE Step(t, "writeEnd", "unlock")
    BY <1>3, <2>0, <2>2
  <2> QED BY <1>6, <2>1, <2>2 DEF WriteFile
<1> QED BY <1>2, <1>4, <1>5, <1>6 DEF Emit

LEMMA RouteNext ==
  ASSUME NoSetters, TypeOK, StartInv, RouteInv, [Next]_vars
  PROVE  RouteInv'
<1>0. initialized => UNCHANGED <<initialized, config>> BY ConfigFrozen
<1>1. CASE UNCHANGED vars \/ Done \/ MPI_Init
  BY <1>1 DEF RouteInv, Done, MPI_Init, vars, once, config, output, control
<1>2. ASSUME NEW t \in Threads, Call(t) \/ Configure(t) PROVE RouteInv'
  <2>1. QuietStep(t) BY <1>2, QuietSteps
  <2>2. PICK from, to \in Quiet : Step(t, from, to) /\ to \notin Running
    <3>1. CASE Call(t)
      <4>1. PICK c \in Program[t][made[t] + 1] :
               Step(t, "idle",
                 CASE c.op = "initialize"        -> "initOnce"
                   [] c.op = "initializeWithMPI" -> "mpiFlag"
                   [] c.op = "finalize"          -> "finalize"
                   [] c.op = "log"               -> "format"
                   [] c.op = "setLoggingLevel"   -> "level"
                   [] c.op = "setOutputStream"   -> "dst"
                   [] c.op = "setOutputFilename" -> "file"
                   [] c.op = "setLoggingRank"    -> "setRank"
                   [] c.op = "setCommunicator"   -> "setComm")
        BY Zenon, <3>1 DEF Call
      <4>2. c.op \in Ops
        <5>1. made[t] + 1 \in DOMAIN Program[t]
          BY <3>1, LoggerAssumption DEF Call, TypeOK
        <5>2. c \in CallType BY <5>1, LoggerAssumption
        <5> QED BY <5>2 DEF CallType
      <4> QED BY <4>1, <4>2 DEF Ops, Quiet, Positions, Locked, Running
    <3>2. CASE Configure(t)
      <4> USE DEF Quiet, Positions, Locked, Running
      <4>1. CASE ReadMpiFlag(t) \/ UpdateCurrentRank(t) \/ EnterInitOnce(t)
        BY <4>1 DEF ReadMpiFlag, UpdateCurrentRank, EnterInitOnce
      <4>2. CASE FormatRankString(t, "rankStr", "rankStrEnd", "setRank")
        BY <4>2 DEF FormatRankString
      <4>3. CASE CheckLoggingRank(t) BY <4>3 DEF CheckLoggingRank, BeginLog, AfterSetRank
      <4>4. CASE StoreLoggingRank(t) \/ SetCommunicator(t)
        BY <4>4 DEF StoreLoggingRank, SetCommunicator, AfterSetRank
      <4>5. CASE SetLoggingLevel(t) \/ SetOutputStream(t)
        BY <4>5 DEF SetLoggingLevel, SetOutputStream
      <4>6. CASE SetDestinationBools(t) BY <4>6 DEF SetDestinationBools
      <4>7. CASE SetOutputFilename(t) BY <4>7 DEF SetOutputFilename
      <4>8. CASE FormatRankString(t, "initStr", "initStrEnd", "publish")
        BY <4>8 DEF FormatRankString
      <4>9. CASE Publish(t) \/ Announce(t) BY <4>9 DEF Publish, Announce, BeginLog
      <4> QED BY <3>2, <4>1, <4>2, <4>3, <4>4, <4>5, <4>6, <4>7, <4>8, <4>9
              DEF Configure
    <3> QED BY <1>2, <3>1, <3>2
  <2> QED BY <1>0, <2>1, <2>2, RouteKept DEF QuietStep, Running, Locked
<1>3. ASSUME NEW t \in Threads, Emit(t) PROVE RouteInv' BY <1>3, RouteEmit
<1> QED BY <1>1, <1>2, <1>3 DEF Next
THEOREM RouteInvariant ==
  ASSUME NoSetters PROVE Spec => [](TypeOK /\ LockInv /\ StartInv /\ RouteInv)
<1>1. TypeOK /\ StartInv /\ RouteInv /\ [Next]_vars => RouteInv'
  BY RouteNext
<1> QED BY RouteInit, <1>1, StartInvariant, MutualExclusion, PTL DEF Spec

------------------------------------------------------------------------------
(* Orders of lines *)

LEMMA OrderFact ==
  ASSUME NEW s, NEW x
  PROVE  x \in OrderIn(s) <=>
           \E i, j \in DOMAIN s :
             /\ i <= j /\ {i, j} \subseteq Logged(s) \cap On(s, "end")
             /\ x = <<Line(s[i]), Line(s[j])>>
<1>1. ASSUME x \in OrderIn(s)
      PROVE  \E i, j \in DOMAIN s :
             /\ i <= j /\ {i, j} \subseteq Logged(s) \cap On(s, "end")
             /\ x = <<Line(s[i]), Line(s[j])>>
  <2>1. PICK p \in (DOMAIN s) \X (DOMAIN s) :
          /\ p[1] <= p[2] /\ {p[1], p[2]} \subseteq Logged(s) \cap On(s, "end")
          /\ x = <<Line(s[p[1]]), Line(s[p[2]])>>
    BY <1>1 DEF OrderIn
  <2> QED BY <2>1
<1>2. ASSUME NEW i \in DOMAIN s, NEW j \in DOMAIN s,
             i <= j, {i, j} \subseteq Logged(s) \cap On(s, "end"),
             x = <<Line(s[i]), Line(s[j])>>
      PROVE  x \in OrderIn(s)
  <2> DEFINE p == <<i, j>>
  <2>1. /\ p \in (DOMAIN s) \X (DOMAIN s) /\ p[1] <= p[2]
        /\ {p[1], p[2]} \subseteq Logged(s) \cap On(s, "end")
        /\ x = <<Line(s[p[1]]), Line(s[p[2]])>>
    BY <1>2
  <2> HIDE DEF p
  <2> QED BY <2>1 DEF OrderIn
<1> QED BY <1>1, <1>2

(* A piece that completes no line of log_ changes no order.                *)
LEMMA OrderKept ==
  ASSUME NEW s \in Seq(Pieces), NEW p \in Pieces, p.kind # "log" \/ p.part # "end"
  PROVE  OrderIn(Append(s, p)) = OrderIn(s)
<1> DEFINE e == Append(s, p)
<1>1. /\ DOMAIN s = 1 .. Len(s) /\ Len(s) \in Nat /\ DOMAIN e = 1 .. Len(s) + 1
      /\ \A i \in 1 .. Len(s) : e[i] = s[i]
      /\ e[Len(s) + 1] = p
  BY AppendFacts
<1> HIDE DEF e
<1>2. Logged(e) \cap On(e, "end") = Logged(s) \cap On(s, "end")
  BY <1>1 DEF Logged, On
<1>3. \A i \in Logged(s) \cap On(s, "end") : e[i] = s[i] /\ i \in DOMAIN s /\ i \in DOMAIN e
  BY <1>1 DEF Logged, On
<1>4. ASSUME NEW x PROVE x \in OrderIn(e) <=> x \in OrderIn(s)
  BY <1>2, <1>3, OrderFact
<1> QED BY <1>4 DEF e

Firsts(R) == {x[1] : x \in R}

(* A completed line stands behind all others.                              *)
LEMMA OrderGrown ==
  ASSUME NEW s \in Seq(Pieces), NEW p \in Pieces, p.kind = "log", p.part = "end"
  PROVE  OrderIn(Append(s, p)) =
           OrderIn(s) \cup ((Firsts(OrderIn(s)) \cup {Line(p)}) \X {Line(p)})
<1> DEFINE e == Append(s, p)
           n == Len(s) + 1
           C(q) == Logged(q) \cap On(q, "end")
<1>1. /\ DOMAIN s = 1 .. Len(s) /\ Len(s) \in Nat /\ DOMAIN e = 1 .. n
      /\ \A i \in 1 .. Len(s) : e[i] = s[i]
      /\ e[n] = p
  BY AppendFacts
<1> HIDE DEF e
<1>2. C(e) = C(s) \cup {n} /\ C(s) \subseteq 1 .. Len(s) /\ n \notin C(s)
  BY <1>1 DEF Logged, On
<1>3. \A i \in C(s) : e[i] = s[i] /\ i \in DOMAIN s /\ i \in DOMAIN e /\ i < n
  BY <1>1, <1>2
<1>4. \A l : l \in Firsts(OrderIn(s)) <=> \E i \in C(s) : l = Line(s[i])
  <2>1. ASSUME NEW l, l \in Firsts(OrderIn(s)) PROVE \E i \in C(s) : l = Line(s[i])
    <3>1. PICK x \in OrderIn(s) : l = x[1] BY <2>1 DEF Firsts
    <3>2. PICK i, j \in DOMAIN s : i \in C(s) /\ x = <<Line(s[i]), Line(s[j])>>
      BY OrderFact
    <3> QED BY <3>1, <3>2
  <2>2. ASSUME NEW i \in C(s) PROVE Line(s[i]) \in Firsts(OrderIn(s))
    <3>1. <<Line(s[i]), Line(s[i])>> \in OrderIn(s) BY <1>1, <1>3, OrderFact
    <3> QED BY <3>1 DEF Firsts
  <2> QED BY <2>1, <2>2
<1> HIDE DEF C
<1>5. ASSUME NEW x
      PROVE  x \in OrderIn(e) <=>
               \/ x \in OrderIn(s)
               \/ \E l \in Firsts(OrderIn(s)) \cup {Line(p)} : x = <<l, Line(p)>>
  <2>1. ASSUME NEW i \in DOMAIN e, NEW j \in DOMAIN e, i <= j,
               {i, j} \subseteq C(e), x = <<Line(e[i]), Line(e[j])>>
        PROVE  \/ x \in OrderIn(s)
               \/ \E l \in Firsts(OrderIn(s)) \cup {Line(p)} : x = <<l, Line(p)>>
    <3>1. CASE j = n
      <4>1. Line(e[i]) \in Firsts(OrderIn(s)) \cup {Line(p)}
        BY <1>1, <1>2, <1>3, <1>4, <2>1
      <4> QED BY <4>1, <3>1, <2>1, <1>1
    <3>2. CASE j # n
      <4>1. j \in C(s) /\ i \in C(s) BY <1>1, <1>2, <1>3, <2>1, <3>2
      <4> QED BY <4>1, <1>3, <2>1, OrderFact DEF C
    <3> QED BY <3>1, <3>2
  <2>2. ASSUME x \in OrderIn(s) PROVE x \in OrderIn(e)
    BY <2>2, <1>2, <1>3, OrderFact DEF C
  <2>3. ASSUME NEW l \in Firsts(OrderIn(s)) \cup {Line(p)}, x = <<l, Line(p)>>
        PROVE  x \in OrderIn(e)
    <3>1. PICK i \in C(e) : l = Line(e[i]) /\ i <= n /\ i \in DOMAIN e
      BY <1>1, <1>2, <1>3, <1>4
    <3> QED BY <3>1, <1>1, <1>2, <2>3, OrderFact DEF C
  <2>4. x \in OrderIn(e) <=>
          \E i, j \in DOMAIN e : /\ i <= j /\ {i, j} \subseteq C(e)
                                 /\ x = <<Line(e[i]), Line(e[j])>>
    BY OrderFact DEF C
  <2> QED BY <2>1, <2>2, <2>3, <2>4
<1>6. \A x : x \in (Firsts(OrderIn(s)) \cup {Line(p)}) \X {Line(p)} <=>
              \E l \in Firsts(OrderIn(s)) \cup {Line(p)} : x = <<l, Line(p)>>
  OBVIOUS
<1> QED BY <1>5, <1>6 DEF e
------------------------------------------------------------------------------
(* The step simulation *)

PhaseOf(position) ==
  IF position \in Locked THEN "accepted"
  ELSE IF position \in Asking THEN "asked" ELSE "settled"

LEMMA MapFacts ==
  ASSUME TypeOK
  PROVE  /\ phaseNow = [t \in Threads |-> PhaseOf(pc[t])]
         /\ outNow[ConsoleOut] = OrderIn(console)
         /\ \A f \in Paths : outNow[FileOut(f)] = OrderIn(files[f])
         /\ \A f \in Paths : FileOut(f) \in Outputs /\ FileOut(f) # ConsoleOut
         /\ ConsoleOut \in Outputs
BY DEF phaseNow, PhaseOf, outNow, Outputs, ConsoleOut, FileOut

LEMMA OutSame == UNCHANGED <<console, files>> => outNow' = outNow
BY DEF outNow

LEMMA OutSameOrder ==
  ASSUME OrderIn(console)' = OrderIn(console), files' = files
  PROVE  outNow' = outNow
BY DEF outNow

LEMMA RouteSame ==
  ASSUME initialized' = initialized, initialized => UNCHANGED config
  PROVE  routeNow' = routeNow
BY DEF routeNow, config, output

LEMMA PhaseMoves ==
  ASSUME TypeOK, NEW t \in Threads, NEW from, NEW to, Step(t, from, to)
  PROVE  phaseNow' = [phaseNow EXCEPT ![t] = PhaseOf(to)]
         /\ phaseNow[t] = PhaseOf(from)
BY DEF phaseNow, PhaseOf, TypeOK, Step

(* A step of a thread that does not hold the mutex, before and after.      *)
LEMMA DueSame ==
  ASSUME TypeOK, LockInv, NEW t \in Threads, NEW from, NEW to,
         Step(t, from, to), from \notin Locked, mutex' = mutex,
         routeNow' = routeNow
  PROVE  dueNow' = dueNow
<1>1. mutex # NoThread => mutex # t BY DEF LockInv, Step
<1>2. mutex # NoThread => mutex \in Threads /\ pc'[mutex] = pc[mutex]
  BY <1>1 DEF TypeOK, Step
<1> QED BY <1>2 DEF dueNow

(* A step outside the critical section that does not ask for a line: the   *)
(* service does not move, or the line is dropped.                          *)
LEMMA OutsideStep ==
  ASSUME NoSetters, TypeOK, LockInv, StartInv, [Next]_vars,
         NEW t \in Threads, NEW from, NEW to, Step(t, from, to),
         from \notin Locked, to \notin Locked, mutex' = mutex, outNow' = outNow,
         \A u \in Threads : frame'[u].n = frame[u].n,
         initialized' = initialized,
         PhaseOf(to) # PhaseOf(from) => from \in Asking /\ to \notin Asking
  PROVE  Service!Drop(t) \/ UNCHANGED Service!svars
<1>1. routeNow' = routeNow BY ConfigFrozen, RouteSame
<1>2. dueNow' = dueNow BY <1>1, DueSame
<1>3. askedNow' = askedNow BY DEF askedNow
<1>4. phaseNow' = [phaseNow EXCEPT ![t] = PhaseOf(to)] /\ phaseNow[t] = PhaseOf(from)
  BY PhaseMoves
<1>5. CASE PhaseOf(to) = PhaseOf(from)
  <2>1. phaseNow' = phaseNow BY <1>4, <1>5 DEF phaseNow
  <2> QED BY <1>1, <1>2, <1>3, <2>1 DEF Service!svars
<1>6. CASE PhaseOf(to) # PhaseOf(from)
  <2>1. PhaseOf(from) = "asked" /\ PhaseOf(to) = "settled"
    BY <1>6 DEF PhaseOf
  <2> QED BY <1>1, <1>2, <1>3, <1>4, <2>1 DEF Service!Drop
<1> QED BY <1>5, <1>6

LEMMA AskStep ==
  ASSUME NoSetters, TypeOK, LockInv, StartInv, [Next]_vars,
         NEW t \in Threads, NEW from, NEW level, NEW resume,
         BeginLog(t, from, level, resume), from \notin Locked \cup Asking,
         UNCHANGED <<mutex, console, files, initialized>>
  PROVE  Service!Ask(t)
<1>1. Step(t, from, "log") BY DEF BeginLog
<1>2. routeNow' = routeNow BY ConfigFrozen, RouteSame
<1>3. dueNow' = dueNow BY <1>1, <1>2, DueSame
<1>4. outNow' = outNow BY OutSame
<1>5. phaseNow' = [phaseNow EXCEPT ![t] = "asked"] /\ phaseNow[t] = "settled"
  BY <1>1, PhaseMoves DEF PhaseOf, Asking, Locked
<1>6. /\ frame'[t].n = frame[t].n + 1
      /\ \A u \in Threads \ {t} : frame'[u] = frame[u]
  BY DEF BeginLog, TypeOK, FrameType
<1>7. askedNow' = [askedNow EXCEPT ![t] = @ + 1] BY <1>6 DEF askedNow
<1> QED BY <1>2, <1>3, <1>4, <1>5, <1>7 DEF Service!Ask
DueAt(position) ==
  IF position = "unlock" THEN {}
  ELSE IF position \in {"shouldLog", "printText", "printEnd"} THEN routeNow
  ELSE routeNow \ {ConsoleOut}

(* A step inside the critical section.                                     *)
LEMMA LockedMove ==
  ASSUME NoSetters, TypeOK, LockInv, StartInv, RouteInv, [Next]_vars,
         NEW t \in Threads, NEW from \in Locked, NEW to \in Locked,
         Step(t, from, to), mutex' = mutex, initialized' = initialized,
         \A u \in Threads : frame'[u].n = frame[u].n
  PROVE  /\ initialized /\ mutex = t /\ t # NoThread
         /\ routeNow = RouteOf(dst, logFile)
         /\ routeNow' = routeNow /\ askedNow' = askedNow /\ phaseNow' = phaseNow
         /\ dueNow = DueAt(from) /\ dueNow' = DueAt(to)
<1>1. pc[t] = from /\ pc'[t] = to BY DEF Step, TypeOK
<1>2. mutex = t /\ t # NoThread BY <1>1, LoggerAssumption DEF LockInv
<1>3. initialized BY <1>1 DEF RouteInv, Running
<1>4. routeNow' = routeNow /\ routeNow = RouteOf(dst, logFile)
  BY <1>3, ConfigFrozen, RouteSame DEF routeNow
<1>5. askedNow' = askedNow BY DEF askedNow
<1>6. phaseNow' = phaseNow
  <2>1. phaseNow' = [phaseNow EXCEPT ![t] = "accepted"] /\ phaseNow[t] = "accepted"
    BY PhaseMoves DEF PhaseOf
  <2> QED BY <2>1 DEF phaseNow
<1>7. dueNow = DueAt(from) /\ dueNow' = DueAt(to)
  BY <1>1, <1>2, <1>4 DEF dueNow, DueAt
<1> QED BY <1>2, <1>3, <1>4, <1>5, <1>6, <1>7

(* What the piece that completes a line does to an output.                 *)
LEMMA DeliverStep ==
  ASSUME TypeOK, NEW t \in Threads, mutex = t, NEW o \in dueNow, o \in Outputs,
         NEW s \in Seq(Pieces), outNow[o] = OrderIn(s),
         outNow' = [outNow EXCEPT ![o] = OrderIn(Append(s, Piece(t, "log", "end")))],
         dueNow' = dueNow \ {o},
         UNCHANGED <<initialized, routeNow, askedNow, phaseNow, mutex>>
  PROVE  Service!Deliver(t)
<1>1. Piece(t, "log", "end") \in Pieces BY PieceType
<1>2. /\ Piece(t, "log", "end").kind = "log" /\ Piece(t, "log", "end").part = "end"
      /\ Line(Piece(t, "log", "end")) = Service!LineOf(t)
  BY DEF Piece, Line, Service!LineOf, askedNow
<1>3. Firsts(OrderIn(s)) = Service!Present(o) BY DEF Firsts, Service!Present
<1>4. OrderIn(Append(s, Piece(t, "log", "end"))) =
        outNow[o] \cup ((Service!Present(o) \cup {Service!LineOf(t)})
                           \X {Service!LineOf(t)})
  BY <1>1, <1>2, <1>3, OrderGrown
<1> QED BY <1>4 DEF Service!Deliver

LEMMA PrintLineStep ==
  ASSUME NoSetters, TypeOK, LockInv, StartInv, RouteInv, [Next]_vars,
         NEW t \in Threads, PrintLine(t)
  PROVE  Service!Deliver(t) \/ UNCHANGED Service!svars
<1> USE DEF once, config, control
<1>1. UNCHANGED <<initialized, mutex, files, frame>> BY DEF PrintLine
<1>2. CASE Step(t, "printText", "printEnd")
           /\ console' = Append(console, Piece(t, "log", "text"))
  <2>1. Piece(t, "log", "text") \in Pieces /\ Piece(t, "log", "text").part = "text"
    BY PieceType DEF Piece
  <2>2. OrderIn(console)' = OrderIn(console) BY <1>2, <2>1, OrderKept DEF TypeOK
  <2>3. outNow' = outNow BY <1>1, <2>2, OutSameOrder
  <2>4. /\ routeNow' = routeNow /\ askedNow' = askedNow /\ phaseNow' = phaseNow
        /\ dueNow' = dueNow
    BY <1>1, <1>2, LockedMove DEF Locked, DueAt
  <2> QED BY <1>1, <2>3, <2>4 DEF Service!svars
<1>3. CASE Step(t, "printEnd", "shouldWrite")
           /\ console' = Append(console, Piece(t, "log", "end"))
  <2>1. /\ routeNow' = routeNow /\ askedNow' = askedNow /\ phaseNow' = phaseNow
        /\ dueNow = routeNow /\ dueNow' = routeNow \ {ConsoleOut}
        /\ routeNow = RouteOf(dst, logFile) /\ mutex = t /\ initialized
    BY <1>1, <1>3, LockedMove DEF Locked, DueAt
  <2>2. shouldLog /\ shouldLog = ShouldLog(dst)
    BY <1>3, <2>1, ConfigWhole DEF RouteInv, Step
  <2>3. ConsoleOut \in dueNow BY <2>1, <2>2, MapFacts DEF RouteOf
  <2>4. outNow' = [outNow EXCEPT ![ConsoleOut] =
                     OrderIn(Append(console, Piece(t, "log", "end")))]
    BY <1>1, <1>3 DEF outNow
  <2> QED BY <1>1, <2>1, <2>3, <2>4, MapFacts, DeliverStep DEF TypeOK
<1> QED BY <1>2, <1>3 DEF PrintLine

LEMMA WriteFileStep ==
  ASSUME NoSetters, TypeOK, LockInv, StartInv, RouteInv, [Next]_vars,
         NEW t \in Threads, WriteFile(t)
  PROVE  Service!Deliver(t) \/ UNCHANGED Service!svars
<1> USE DEF once, config, control
<1> DEFINE f == frame[t].path
           o == FileOut(f)
<1>1. UNCHANGED <<initialized, mutex, console, frame>> BY DEF WriteFile
<1>2. f \in Paths BY DEF TypeOK, FrameType
<1>3. PICK part \in {"text", "end"} :
        /\ IF part = "text" THEN Step(t, "writeText", "writeEnd")
                            ELSE Step(t, "writeEnd", "unlock")
        /\ files' = [files EXCEPT ![f] = Append(@, Piece(t, "log", part))]
  BY DEF WriteFile
<1>4. Piece(t, "log", part) \in Pieces /\ Piece(t, "log", part).part = part
  BY PieceType DEF Piece
<1>5. files[f] \in Seq(Pieces) BY <1>2 DEF TypeOK
<1>6. outNow' = [outNow EXCEPT ![o] =
                   OrderIn(Append(files[f], Piece(t, "log", part)))]
  <2>1. \A g \in Paths : files'[g] = IF g = f THEN Append(files[f], Piece(t, "log", part))
                                    ELSE files[g]
    BY <1>2, <1>3 DEF TypeOK
  <2>2. ASSUME NEW p \in Outputs
        PROVE  outNow'[p] = IF p = o THEN OrderIn(Append(files[f], Piece(t, "log", part)))
                            ELSE outNow[p]
    <3>1. CASE p = ConsoleOut BY <1>1, <1>2, <3>1, MapFacts DEF outNow
    <3>2. CASE p # ConsoleOut
      <4>1. PICK g \in Paths : p = FileOut(g) BY <3>2 DEF Outputs
      <4>2. outNow'[p] = OrderIn(files'[g]) /\ outNow[p] = OrderIn(files[g])
        BY <3>2, <4>1 DEF outNow, FileOut
      <4>3. p = o <=> g = f BY <4>1 DEF FileOut
      <4> QED BY <2>1, <4>2, <4>3
    <3> QED BY <3>1, <3>2
  <2>3. o \in Outputs BY <1>2, MapFacts
  <2>4. /\ outNow' = [p \in Outputs |-> outNow'[p]]
        /\ outNow = [p \in Outputs |-> outNow[p]]
    BY DEF outNow
  <2> HIDE DEF o, f
  <2> QED BY <2>2, <2>3, <2>4
<1>7. CASE part = "text"
  <2>1. OrderIn(Append(files[f], Piece(t, "log", part))) = outNow[o]
    BY <1>2, <1>4, <1>5, <1>7, OrderKept, MapFacts
  <2>2. outNow' = outNow BY <1>6, <2>1 DEF outNow
  <2>3. Step(t, "writeText", "writeEnd") BY <1>3, <1>7
  <2>4. /\ routeNow' = routeNow /\ askedNow' = askedNow /\ phaseNow' = phaseNow
        /\ dueNow' = dueNow
    BY <1>1, <2>3, LockedMove DEF Locked, DueAt
  <2> QED BY <1>1, <2>2, <2>4 DEF Service!svars
<1>8. CASE part = "end"
  <2>1. Step(t, "writeEnd", "unlock") BY <1>3, <1>8
  <2>2. /\ routeNow' = routeNow /\ askedNow' = askedNow /\ phaseNow' = phaseNow
        /\ dueNow = routeNow \ {ConsoleOut} /\ dueNow' = {}
        /\ routeNow = RouteOf(dst, logFile) /\ mutex = t /\ initialized
    BY <1>1, <2>1, LockedMove DEF Locked, DueAt
  <2>3. f = logFile /\ logFile \in Writable /\ shouldWrite /\ ShouldWrite(dst)
    BY <2>1, <2>2, ConfigWhole DEF RouteInv, Step
  <2>4. dueNow = {o}
    BY <1>2, <2>2, <2>3, MapFacts DEF RouteOf
  <2>5. o \in Outputs /\ outNow[o] = OrderIn(files[f]) BY <1>2, MapFacts
  <2> HIDE DEF o, f
  <2> QED BY <1>1, <1>5, <1>6, <1>8, <2>2, <2>4, <2>5, DeliverStep
<1> QED BY <1>7, <1>8

LEMMA EmitStep ==
  ASSUME NoSetters, TypeOK, LockInv, StartInv, RouteInv, LockInv', [Next]_vars,
         NEW t \in Threads, Emit(t)
  PROVE  [Service!Next]_Service!svars
<1> USE DEF once, config, output, control, sinks
<1> DEFINE Moves == \/ Service!Ask(t) \/ Service!Drop(t) \/ Service!Accept(t)
                    \/ Service!Deliver(t) \/ Service!Finish(t)
                    \/ UNCHANGED Service!svars
<1> SUFFICES Moves BY DEF Service!Next
<1>0. frame[t].resume \in {"idle", "setComm"} BY DEF TypeOK, FrameType
<1>1. UNCHANGED initialized
  BY DEF Emit, Format, BeginLog, Log, EnterWarnOnce, PrintUninitialized, LoadRank,
     CompareRank, FilterLevel, CopyRankString, Lock, TestShouldLog, PrintLine,
     TestShouldWrite, OpenFile, WriteFile, Unlock
<1>2. CASE Format(t)
  <2>0. UNCHANGED <<mutex, console, files>> BY <1>2 DEF Format
  <2>1. CASE BeginLog(t, "format", call[t].level, "idle")
    BY <1>1, <2>0, <2>1, AskStep DEF Locked, Asking
  <2>2. CASE Step(t, "format", "idle") /\ UNCHANGED control
    BY <1>1, <2>0, <2>2, OutSame, OutsideStep DEF Locked, Asking, PhaseOf
  <2> QED BY <1>2, <2>1, <2>2 DEF Format
<1>3. CASE Log(t) \/ EnterWarnOnce(t) \/ CompareRank(t) \/ FilterLevel(t)
  <2>0. UNCHANGED <<mutex, console, files, frame>>
    BY <1>3 DEF Log, EnterWarnOnce, CompareRank, FilterLevel
  <2>1. PICK from \in Asking, to \in Asking \cup {"idle", "setComm"} : Step(t, from, to)
    BY <1>0, <1>3 DEF Log, EnterWarnOnce, CompareRank, FilterLevel, Return, Asking
  <2>2. from \notin Locked /\ to \notin Locked BY DEF Asking, Locked
  <2>3. PhaseOf(to) # PhaseOf(from) => to \notin Asking
    BY <2>2 DEF PhaseOf
  <2> QED BY <1>1, <2>0, <2>1, <2>2, <2>3, OutSame, OutsideStep
<1>4. CASE PrintUninitialized(t)
  <2>1. PICK part \in {"text", "end"} : console' = Append(console, Piece(t, "uninit", part))
    BY <1>4 DEF PrintUninitialized
  <2>2. Piece(t, "uninit", part) \in Pieces /\ Piece(t, "uninit", part).kind = "uninit"
    BY PieceType DEF Piece
  <2>3. UNCHANGED <<mutex, files, frame>> BY <1>4 DEF PrintUninitialized
  <2>4. OrderIn(console)' = OrderIn(console) BY <2>1, <2>2, OrderKept DEF TypeOK
  <2>5. outNow' = outNow BY <2>3, <2>4, OutSameOrder
  <2>6. PICK from \in Asking, to \in Asking \cup {"idle", "setComm"} : Step(t, from, to)
    BY <1>0, <1>4 DEF PrintUninitialized, Return, Asking
  <2>7. from \notin Locked /\ to \notin Locked BY DEF Asking, Locked
  <2>8. PhaseOf(to) # PhaseOf(from) => to \notin Asking BY <2>7 DEF PhaseOf
  <2> QED BY <1>1, <2>3, <2>5, <2>6, <2>7, <2>8, OutsideStep
<1>5. CASE LoadRank(t) \/ CopyRankString(t)
  <2>0. /\ UNCHANGED <<mutex, console, files>>
        /\ \A u \in Threads : frame'[u].n = frame[u].n
    <3>1. CASE LoadRank(t) BY <3>1 DEF LoadRank, TypeOK, FrameType
    <3>2. CASE CopyRankString(t) BY <3>2 DEF CopyRankString, TypeOK, FrameType
    <3> QED BY <1>5, <3>1, <3>2
  <2>1. PICK from \in Asking, to \in Asking : Step(t, from, to)
    BY <1>5 DEF LoadRank, CopyRankString, Asking
  <2>2. from \notin Locked /\ to \notin Locked BY DEF Asking, Locked
  <2>3. PhaseOf(to) = PhaseOf(from) BY <2>2 DEF PhaseOf
  <2> QED BY <1>1, <2>0, <2>1, <2>2, <2>3, OutSame, OutsideStep
<1>6. CASE Lock(t)
  <2>0. /\ UNCHANGED <<console, files, frame>> /\ Step(t, "lock", "shouldLog")
        /\ mutex = NoThread /\ mutex' = t /\ t # NoThread
    BY <1>6, LoggerAssumption DEF Lock
  <2>1. initialized BY <2>0 DEF RouteInv, Running, Step
  <2>2. routeNow' = routeNow BY <1>1, <2>1, ConfigFrozen, RouteSame
  <2>3. dueNow = {} /\ dueNow' = routeNow BY <2>0, <2>2 DEF dueNow, TypeOK, Step
  <2>4. /\ phaseNow' = [phaseNow EXCEPT ![t] = "accepted"] /\ phaseNow[t] = "asked"
    BY <2>0, PhaseMoves DEF PhaseOf, Locked, Asking
  <2>5. askedNow' = askedNow /\ outNow' = outNow BY <2>0, OutSame DEF askedNow
  <2> QED BY <1>1, <2>0, <2>1, <2>2, <2>3, <2>4, <2>5 DEF Service!Accept
<1>7. CASE TestShouldLog(t) \/ TestShouldWrite(t) \/ OpenFile(t)
  <2>0. /\ UNCHANGED <<mutex, console, files>>
        /\ \A u \in Threads : frame'[u].n = frame[u].n
    <3>1. CASE TestShouldLog(t) \/ TestShouldWrite(t)
      BY <3>1 DEF TestShouldLog, TestShouldWrite
    <3>2. CASE OpenFile(t)
      <4>1. /\ UNCHANGED <<mutex, console, files>>
            /\ \E p : frame' = [frame EXCEPT ![t].path = p]
        BY <3>2 DEF OpenFile
      <4> QED BY <4>1 DEF TypeOK, FrameType
    <3> QED BY <1>7, <3>1, <3>2
  <2>1. PICK from \in Locked, to \in Locked :
          /\ Step(t, from, to)
          /\ \/ from = "shouldLog" /\ to = "printText"
             \/ from = "shouldLog" /\ to = "shouldWrite" /\ ~ shouldLog
             \/ from = "shouldWrite" /\ to = "open"
             \/ from = "shouldWrite" /\ to = "unlock" /\ ~ shouldWrite
             \/ from = "open" /\ to = "writeText"
             \/ from = "open" /\ to = "unlock" /\ logFile \notin Writable
    BY <1>7 DEF TestShouldLog, TestShouldWrite, OpenFile, Locked
  <2>2. /\ initialized /\ mutex = t /\ routeNow = RouteOf(dst, logFile)
        /\ routeNow' = routeNow /\ askedNow' = askedNow /\ phaseNow' = phaseNow
        /\ dueNow = DueAt(from) /\ dueNow' = DueAt(to)
    BY <1>1, <2>0, <2>1, LockedMove
  <2>3. ~ shouldLog => ConsoleOut \notin routeNow
    BY <2>2, ConfigWhole DEF RouteOf, ConsoleOut, FileOut
  <2>4. ~ shouldWrite \/ logFile \notin Writable => routeNow \subseteq {ConsoleOut}
    BY <2>2, ConfigWhole DEF RouteOf
  <2>5. dueNow' = dueNow BY <2>1, <2>2, <2>3, <2>4 DEF DueAt
  <2> QED BY <1>1, <2>0, <2>2, <2>5, OutSame DEF Service!svars
<1>8. CASE PrintLine(t) \/ WriteFile(t)
  BY <1>8, PrintLineStep, WriteFileStep
<1>9. CASE Unlock(t)
  <2>0. /\ UNCHANGED <<console, files, frame>> /\ mutex' = NoThread
        /\ Step(t, "unlock", frame[t].resume)
    BY <1>9 DEF Unlock, Return
  <2>1. mutex = t /\ initialized /\ t # NoThread
    BY <2>0, LoggerAssumption DEF LockInv, RouteInv, Running, Locked, Step
  <2>2. routeNow' = routeNow BY <1>1, <2>1, ConfigFrozen, RouteSame
  <2>3. dueNow = {} /\ dueNow' = {} BY <2>0, <2>1 DEF dueNow, Step
  <2>4. phaseNow' = [phaseNow EXCEPT ![t] = "settled"]
    BY <1>0, <2>0, PhaseMoves DEF PhaseOf, Locked, Asking
  <2>5. askedNow' = askedNow /\ outNow' = outNow BY <2>0, OutSame DEF askedNow
  <2> QED BY <1>1, <2>0, <2>1, <2>2, <2>3, <2>4, <2>5 DEF Service!Finish
<1> QED BY <1>2, <1>3, <1>4, <1>5, <1>6, <1>7, <1>8, <1>9 DEF Emit

LEMMA ConfigureStep ==
  ASSUME NoSetters, TypeOK, LockInv, StartInv, RouteInv, TypeOK', StartInv',
         [Next]_vars, NEW t \in Threads, Configure(t)
  PROVE  [Service!Next]_Service!svars
<1> USE DEF once, config, output, control, sinks
<1>1. UNCHANGED <<mutex, console, files>>
  BY QuietConfigure DEF QuietStep
<1>2. CASE CheckLoggingRank(t) \/ Announce(t)
  <2>0. UNCHANGED initialized BY <1>2 DEF CheckLoggingRank, Announce
  <2>1. CASE \E from \in {"setRank", "announce", "finalize"} : \E level, resume :
               BeginLog(t, from, level, resume)
    BY <1>1, <2>0, <2>1, AskStep DEF Locked, Asking, Service!Next
  <2>2. CASE UNCHANGED control /\ \E to \in {"storeRank", AfterSetRank(t)} :
               Step(t, "setRank", to)
    <3>1. PICK to \in {"storeRank", "setComm", "idle"} : Step(t, "setRank", to)
      BY <2>2 DEF AfterSetRank
    <3>2. PhaseOf(to) = PhaseOf("setRank") /\ to \notin Locked /\ "setRank" \notin Locked
      BY DEF PhaseOf, Locked, Asking
    <3> QED BY <1>1, <2>0, <2>2, <3>1, <3>2, OutSame, OutsideStep DEF Service!Next
  <2> QED BY <1>2, <2>1, <2>2 DEF CheckLoggingRank, Announce
<1>3. CASE Publish(t)
  <2>0. /\ Step(t, "publish", "announce") /\ initialized' /\ UNCHANGED <<frame, config>>
    BY <1>3 DEF Publish
  <2>1. ~ initialized BY <2>0 DEF StartInv, Body, Step
  <2>2. mutex = NoThread BY <2>1 DEF RouteInv, Running, LockInv, TypeOK
  <2>3. dueNow = {} /\ dueNow' = {} BY <1>1, <2>2 DEF dueNow
  <2>4. dst' \in Destinations /\ logFile' \in Files
    <3>1. PICK c \in CallType : dst' = c.dst /\ logFile' = c.file
      BY <2>0, LoggerAssumption DEF StartInv, ConfigFromOneCall
    <3> QED BY <3>1 DEF CallType
  <2>5. routeNow = {} /\ routeNow' = RouteOf(dst', logFile')
    BY <2>0, <2>1 DEF routeNow, RouteOf
  <2>6. phaseNow' = phaseNow
    <3>1. phaseNow' = [phaseNow EXCEPT ![t] = "settled"] /\ phaseNow[t] = "settled"
      BY <2>0, PhaseMoves DEF PhaseOf, Locked, Asking
    <3> QED BY <3>1 DEF phaseNow
  <2>7. askedNow' = askedNow /\ outNow' = outNow BY <1>1, <2>0, OutSame DEF askedNow
  <2>8. routeNow' \in {RouteOf(to, f) : to \in Destinations, f \in Files}
    BY <2>4, <2>5
  <2> QED BY <1>1, <2>0, <2>1, <2>3, <2>5, <2>6, <2>7, <2>8
          DEF Service!Configure, Service!Next
<1>4. CASE ~ (CheckLoggingRank(t) \/ Announce(t) \/ Publish(t))
  <2>0. UNCHANGED <<initialized, frame>>
    BY <1>4 DEF Configure, ReadMpiFlag, UpdateCurrentRank, FormatRankString,
       StoreLoggingRank, SetCommunicator, EnterInitOnce, SetLoggingLevel,
       SetOutputStream, SetDestinationBools, SetOutputFilename
  <2>1. PICK from, to \in Quiet : Step(t, from, to) /\ {from, to} \cap Asking = {}
    <3> USE DEF Quiet, Positions, Locked, Asking
    <3>1. CASE ReadMpiFlag(t) \/ UpdateCurrentRank(t) \/ EnterInitOnce(t)
      BY <3>1 DEF ReadMpiFlag, UpdateCurrentRank, EnterInitOnce
    <3>2. CASE FormatRankString(t, "rankStr", "rankStrEnd", "setRank")
      BY <3>2 DEF FormatRankString
    <3>3. CASE StoreLoggingRank(t) \/ SetCommunicator(t)
      BY <3>3 DEF StoreLoggingRank, SetCommunicator, AfterSetRank
    <3>4. CASE SetLoggingLevel(t) \/ SetOutputStream(t)
      BY <3>4 DEF SetLoggingLevel, SetOutputStream
    <3>5. CASE SetDestinationBools(t) BY <3>5 DEF SetDestinationBools
    <3>6. CASE SetOutputFilename(t) BY <3>6 DEF SetOutputFilename
    <3>7. CASE FormatRankString(t, "initStr", "initStrEnd", "publish")
      BY <3>7 DEF FormatRankString
    <3> QED BY <1>4, <3>1, <3>2, <3>3, <3>4, <3>5, <3>6, <3>7 DEF Configure
  <2>2. from \notin Locked /\ to \notin Locked /\ PhaseOf(to) = PhaseOf(from)
    BY <2>1 DEF Quiet, PhaseOf
  <2> QED BY <1>1, <2>0, <2>1, <2>2, OutSame, OutsideStep DEF Service!Next
<1> QED BY <1>2, <1>3, <1>4

LEMMA CallStep ==
  ASSUME NoSetters, TypeOK, LockInv, StartInv, [Next]_vars, NEW t \in Threads, Call(t)
  PROVE  UNCHANGED Service!svars
<1>0. UNCHANGED <<mutex, console, files, frame, initialized>> BY DEF Call, once, sinks
<1>1. PICK c \in Program[t][made[t] + 1] :
        Step(t, "idle",
            CASE c.op = "initialize"        -> "initOnce"
              [] c.op = "initializeWithMPI" -> "mpiFlag"
              [] c.op = "finalize"          -> "finalize"
              [] c.op = "log"               -> "format"
              [] c.op = "setLoggingLevel"   -> "level"
              [] c.op = "setOutputStream"   -> "dst"
              [] c.op = "setOutputFilename" -> "file"
              [] c.op = "setLoggingRank"    -> "setRank"
              [] c.op = "setCommunicator"   -> "setComm")
  BY Zenon DEF Call
<1>2. made[t] + 1 \in DOMAIN Program[t] BY LoggerAssumption DEF Call, TypeOK
<1>3. c.op \in Ops BY <1>2, LoggerAssumption DEF CallType
<1>4. PICK to \in Quiet : Step(t, "idle", to) /\ to \notin Asking
  BY <1>1, <1>3 DEF Ops, Quiet, Positions, Locked, Asking
<1>5. /\ to \notin Locked /\ "idle" \notin Locked \cup Asking
      /\ PhaseOf(to) = PhaseOf("idle")
  BY <1>4 DEF Quiet, PhaseOf, Locked, Asking
<1>6. Service!Drop(t) \/ UNCHANGED Service!svars
  BY <1>0, <1>4, <1>5, OutSame, OutsideStep
<1>7. phaseNow[t] = "settled" BY <1>4, <1>5, PhaseMoves DEF PhaseOf
<1> QED BY <1>6, <1>7 DEF Service!Drop

LEMMA ServiceInitial == Init => Service!Init
<1> SUFFICES ASSUME Init PROVE Service!Init OBVIOUS
<1> USE DEF Init
<1>1. routeNow = {} /\ dueNow = {} BY DEF routeNow, dueNow
<1>2. askedNow = [t \in Threads |-> 0] BY DEF askedNow
<1>3. phaseNow = [t \in Threads |-> "settled"] BY DEF phaseNow, Locked, Asking
<1>4. outNow = [o \in Outputs |-> {}]
  <2>1. OrderIn(<<>>) = {} BY OrderFact
  <2>2. ASSUME NEW o \in Outputs
        PROVE  (IF o = ConsoleOut THEN console ELSE files[o[2]]) = <<>>
    BY DEF Outputs, FileOut
  <2> QED BY <2>1, <2>2 DEF outNow
<1> QED BY <1>1, <1>2, <1>3, <1>4 DEF Service!Init

LEMMA ServiceSimulated ==
  ASSUME NoSetters, TypeOK, LockInv, StartInv, RouteInv,
         TypeOK', LockInv', StartInv', [Next]_vars
  PROVE  [Service!Next]_Service!svars
<1>1. CASE UNCHANGED vars \/ Done \/ MPI_Init
  <2>1. UNCHANGED <<initialized, config, mutex, console, files, pc, frame>>
    BY <1>1 DEF Done, MPI_Init, vars, once, sinks, control
  <2> QED BY <2>1, OutSame
          DEF Service!svars, routeNow, askedNow, phaseNow, dueNow, config, output
<1>2. ASSUME NEW t \in Threads, Call(t) \/ Configure(t) \/ Emit(t)
      PROVE  [Service!Next]_Service!svars
  BY <1>2, CallStep, ConfigureStep, EmitStep
<1> QED BY <1>1, <1>2 DEF Next

(* Every behaviour of the logger under a program without setters is a      *)
(* behaviour of LoggerService.                                             *)
THEOREM LoggerImplementsService == ASSUME NoSetters PROVE Spec => ImplementsService
<1> DEFINE I == TypeOK /\ LockInv /\ StartInv /\ RouteInv
<1>1. I /\ I' /\ [Next]_vars => [Service!Next]_Service!svars
  BY ServiceSimulated
<1>2. Spec => []I BY RouteInvariant
<1> HIDE DEF I
<1> QED BY <1>1, <1>2, ServiceInitial, PTL DEF Spec, ImplementsService, Service!Spec

LEMMA ServiceConstants == ServiceProofs!ServiceAssumption
<1>1. NoThread \notin Threads BY LoggerAssumption
<1>2. \A to, f : RouteOf(to, f) \subseteq Outputs BY DEF RouteOf
<1> QED BY <1>1, <1>2 DEF ServiceProofs!ServiceAssumption

LEMMA SameService == Service!Spec => ServiceProofs!Spec
BY PTL DEF Service!Spec, Service!Init, Service!Next, Service!svars,
  Service!Configure, Service!Ask, Service!Drop, Service!Accept, Service!Deliver,
  Service!Finish, Service!Present, Service!LineOf,
  ServiceProofs!Spec, ServiceProofs!Init, ServiceProofs!Next, ServiceProofs!svars,
  ServiceProofs!Configure, ServiceProofs!Ask, ServiceProofs!Drop,
  ServiceProofs!Accept, ServiceProofs!Deliver, ServiceProofs!Finish,
  ServiceProofs!Present, ServiceProofs!LineOf

(* The console and the files of such a program never disagree on the order *)
(* of two completed lines.                                                 *)
THEOREM LoggerOutputsAgree == ASSUME NoSetters PROVE Spec => []OutputsAgree
<1>1. Spec => Service!Spec BY LoggerImplementsService DEF ImplementsService
<1>2. ServiceProofs!Spec => []ServiceProofs!OutputsAgree
  BY ServiceConstants, ServiceProofs!ServiceAgrees
<1>3. ServiceProofs!OutputsAgree <=> OutputsAgree
  BY DEF ServiceProofs!OutputsAgree, Service!OutputsAgree, OutputsAgree
<1> QED BY <1>1, <1>2, <1>3, SameService, PTL

(* No output of the destination lacks a line another one has.              *)
THEOREM LoggerOutputsComplete == ASSUME NoSetters PROVE Spec => []OutputsComplete
<1>1. Spec => Service!Spec BY LoggerImplementsService DEF ImplementsService
<1>2. ServiceProofs!Spec => []ServiceProofs!OutputsComplete
  BY ServiceConstants, ServiceProofs!ServiceCompletes
<1>3. ServiceProofs!OutputsComplete <=> OutputsComplete
  BY DEF ServiceProofs!OutputsComplete, ServiceProofs!Present, ServiceProofs!LineOf,
     Service!OutputsComplete, Service!Present, Service!LineOf, OutputsComplete
<1> QED BY <1>1, <1>2, <1>3, SameService, PTL

(* An order speaks of completed lines of log_ only.                        *)
LEMMA InOrder ==
  ASSUME NEW s, NEW x \in OrderIn(s)
  PROVE  \E i \in Logged(s) : Line(s[i]) = x[1]
<1>1. PICK i, j \in DOMAIN s :
        /\ i <= j /\ {i, j} \subseteq Logged(s) \cap On(s, "end")
        /\ x = <<Line(s[i]), Line(s[j])>>
  BY OrderFact
<1> QED BY <1>1

(* If the program leaves the configuration to its initialisation and its   *)
(* files can be opened, a call that got through the filters has left its   *)
(* line in an output when it leaves the critical section (log_).           *)
THEOREM LoggerLosesNothing ==
  ASSUME NoSetters, Files \subseteq Writable
  PROVE  Spec => []NothingLost
<1> DEFINE I == TypeOK /\ LockInv /\ StartInv /\ RouteInv
           D == ServiceProofs!DueInv
<1>1. Spec => []I BY RouteInvariant
<1>2. Spec => []D
  <2>1. ServiceProofs!Spec => []ServiceProofs!ServiceInv
    BY ServiceConstants, ServiceProofs!ServiceCorrect
  <2>2. ServiceProofs!ServiceInv => D BY DEF ServiceProofs!ServiceInv
  <2>3. Spec => Service!Spec BY LoggerImplementsService DEF ImplementsService
  <2> QED BY <2>1, <2>2, <2>3, SameService, PTL
<1>3. I /\ D => NothingLost
  <2> SUFFICES ASSUME I, D, NEW t \in Threads, pc[t] = "unlock"
               PROVE  Delivered(t)
    BY DEF NothingLost
  <2>1. mutex = t /\ t # NoThread BY LoggerAssumption DEF LockInv, Locked
  <2>2. initialized BY DEF RouteInv, Running, Locked
  <2>3. dst \in Destinations /\ logFile \in Files BY <2>2, ConfigWhole
  <2>4. dueNow = {} BY <2>1 DEF dueNow
  <2>5. routeNow = RouteOf(dst, logFile) BY <2>2 DEF routeNow
  <2>6. ASSUME NEW o \in routeNow
        PROVE  \E x \in outNow[o] : x[1] = <<t, frame[t].n>>
    <3>1. <<t, askedNow[t]>> \in {x[1] : x \in outNow[o]}
      BY <2>1, <2>4
      DEF ServiceProofs!DueInv, ServiceProofs!LineOf, ServiceProofs!Present
    <3>2. askedNow[t] = frame[t].n BY DEF askedNow
    <3> QED BY <3>1, <3>2
  <2>7. CASE ShouldLog(dst)
    <3>1. ConsoleOut \in routeNow /\ outNow[ConsoleOut] = OrderIn(console)
      BY <2>5, <2>7, MapFacts DEF RouteOf, Outputs
    <3> QED BY <2>6, <3>1, InOrder DEF Delivered
  <2>8. CASE ~ ShouldLog(dst)
    <3>1. ShouldWrite(dst) /\ logFile \in Writable /\ logFile \in Paths
      BY <2>3, <2>8 DEF ShouldLog, ShouldWrite, Destinations, LogTo, Paths
    <3>2. /\ FileOut(logFile) \in routeNow
          /\ outNow[FileOut(logFile)] = OrderIn(files[logFile])
      BY <2>5, <3>1, MapFacts DEF RouteOf, Outputs
    <3>3. \E i \in Logged(files[logFile]) :
            Line(files[logFile][i]) = <<t, frame[t].n>>
      BY <2>6, <3>2, InOrder
    <3> QED BY <2>3, <3>3 DEF Delivered, Logged
  <2> QED BY <2>7, <2>8
<1> HIDE DEF I, D
<1> QED BY <1>1, <1>2, <1>3, PTL
==============================================================================
