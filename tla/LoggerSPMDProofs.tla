--------------------------- MODULE LoggerSPMDProofs ---------------------------
(***************************************************************************)
(* Theorems about LoggerSPMD, for any number of processes, any             *)
(* communicators and any programs.  What the logger of a process holds     *)
(* after k statements is a function of the program and of the process's    *)
(* place in the communicators: processes agree on who logs without a       *)
(* message, each at its own pace, unless a communicator separates them.    *)
(***************************************************************************)
EXTENDS LoggerSPMD, FiniteSetTheorems, TLAPS

Starts(q, i)  == q[i].op = "initializeWithMPI"
Started(q, k) == \E i \in 1 .. k : Starts(q, i)

(* The communicator in force after k statements is the last one given.     *)
SetsComm(q, i)  == q[i].op \in {"initializeWithMPI", "setCommunicator"}
CommAt(q, c, k) ==
  \/ c = World /\ \A i \in 1 .. k : ~ SetsComm(q, i)
  \/ \E i \in 1 .. k : /\ SetsComm(q, i) /\ c = q[i].comm
                       /\ \A j \in i + 1 .. k : ~ SetsComm(q, j)

(* The rank of p after k statements is that in the communicator of before  *)
(* the last initialisation.                                                *)
RankIn(q, p, x, k) == \E c \in Comms : CommAt(q, c, k) /\ x = CommRank[c][p]
CurrentAt(q, p, x, k) ==
  \E i \in 1 .. k : /\ Starts(q, i) /\ RankIn(q, p, x, i - 1)
                    /\ \A j \in i + 1 .. k : ~ Starts(q, j)

(* The logging rank after k statements is the last one that p adopted: the *)
(* first initialisation's, or one that its communicator had.               *)
Exists(q, i, c, p) == q[i].rank < CommSize[c][p]
Adopts(q, p, i) ==
  \/ Starts(q, i) /\ ~ Started(q, i - 1)
  \/ /\ q[i].op \in {"initializeWithMPI", "setLoggingRank"} /\ Started(q, i - 1)
     /\ \E c \in Comms : CommAt(q, c, i - 1) /\ Exists(q, i, c, p)
RankAt(q, p, x, k) ==
  \E i \in 1 .. k : /\ Adopts(q, p, i) /\ x = q[i].rank
                    /\ \A j \in i + 1 .. k : ~ Adopts(q, p, j)

(* Process p is the one that logs after k statements.                      *)
Speaks(q, p, k) == \E x : CurrentAt(q, p, x, k) /\ RankAt(q, p, x, k)

-----------------------------------------------------------------------------
(* What the theorems ask of the programs *)

(* The logger starts once, after MPI and in the world.                     *)
StartsInWorld(q) ==
  \A k \in DOMAIN q : Starts(q, k) =>
    /\ \E i \in 1 .. k - 1 : q[i].op = "MPI_Init"
    /\ \A i \in 1 .. k - 1 : ~ SetsComm(q, i)

(* The parts of a split all have the rank that setLoggingRank asks for, or *)
(* none of them has.                                                       *)
SplitsAgree(q) ==
  \A k \in DOMAIN q : q[k].op = "setLoggingRank" =>
    \A c \in Comms : CommAt(q, c, k - 1) =>
      \A p, r \in Procs : Exists(q, k, c, p) => Exists(q, k, c, r)

(* Every rank asked for and found in a communicator is one of the world,   *)
(* and the logger writes to its file.                                      *)
TargetsAreProcesses(q) ==
  \A k \in DOMAIN q :
    /\ Starts(q, k) => q[k].rank \in Procs /\ ShouldWrite(q[k].dst)
    /\ q[k].op = "setLoggingRank" =>
         \A c \in Comms, p \in Procs : Exists(q, k, c, p) => q[k].rank \in Procs

(* Nothing that asks MPI comes after MPI_Finalize.                         *)
AsksInTime(q) ==
  \A i, k \in DOMAIN q : i < k /\ q[i].op = "MPI_Finalize" =>
    q[k].op \notin {"initializeWithMPI", "setLoggingRank"}

-----------------------------------------------------------------------------
(* One statement more *)

LEMMA StartedMore ==
  ASSUME NEW q, NEW k \in Nat
  PROVE  Started(q, k + 1) <=> Started(q, k) \/ Starts(q, k + 1)
BY DEF Started

LEMMA CommMore ==
  ASSUME NEW q, NEW c, NEW k \in Nat
  PROVE  CommAt(q, c, k + 1) <=>
           IF SetsComm(q, k + 1) THEN c = q[k + 1].comm ELSE CommAt(q, c, k)
<1>1. CASE SetsComm(q, k + 1)
  <2>1. \A i \in 1 .. k : k + 1 \in i + 1 .. k + 1
    OBVIOUS
  <2>2. k + 1 \in 1 .. k + 1 /\ \A j \in k + 2 .. k + 1 : FALSE
    OBVIOUS
  <2>3. CommAt(q, c, k + 1) <=> c = q[k + 1].comm
    BY <1>1, <2>1, <2>2 DEF CommAt
  <2>4. QED
    BY <1>1, <2>3
<1>2. CASE ~ SetsComm(q, k + 1)
  <2>1. \A i \in 1 .. k + 1 : SetsComm(q, i) => i \in 1 .. k
    BY <1>2
  <2>2. \A i \in 1 .. k : /\ i \in 1 .. k + 1
                          /\ \A j \in i + 1 .. k + 1 : j \in i + 1 .. k \/ j = k + 1
                          /\ \A j \in i + 1 .. k : j \in i + 1 .. k + 1
    OBVIOUS
  <2>3. \A i \in 1 .. k + 1 : i \in 1 .. k \/ i = k + 1
    OBVIOUS
  <2>4. CommAt(q, c, k + 1) <=> CommAt(q, c, k)
    BY <1>2, <2>1, <2>2, <2>3 DEF CommAt
  <2>5. QED
    BY <1>2, <2>4
<1>3. QED
  BY <1>1, <1>2

LEMMA CurrentMore ==
  ASSUME NEW q, NEW p, NEW x, NEW k \in Nat
  PROVE  CurrentAt(q, p, x, k + 1) <=>
           IF Starts(q, k + 1) THEN RankIn(q, p, x, k) ELSE CurrentAt(q, p, x, k)
<1>0. k + 1 - 1 = k
  OBVIOUS
<1>1. CASE Starts(q, k + 1)
  <2>1. \A i \in 1 .. k : k + 1 \in i + 1 .. k + 1
    OBVIOUS
  <2>2. k + 1 \in 1 .. k + 1 /\ \A j \in k + 1 + 1 .. k + 1 : FALSE
    OBVIOUS
  <2>3. \A i \in 1 .. k + 1 : i \in 1 .. k \/ i = k + 1
    OBVIOUS
  <2>4. RankIn(q, p, x, k) => CurrentAt(q, p, x, k + 1)
    <3>1. RankIn(q, p, x, k) <=> RankIn(q, p, x, k + 1 - 1)
      BY <1>0
    <3>2. QED
      BY <1>1, <2>2, <3>1 DEF CurrentAt
  <2>5. ASSUME CurrentAt(q, p, x, k + 1) PROVE RankIn(q, p, x, k)
    <3>1. PICK i \in 1 .. k + 1 : /\ Starts(q, i) /\ RankIn(q, p, x, i - 1)
                                  /\ \A j \in i + 1 .. k + 1 : ~ Starts(q, j)
      BY <2>5 DEF CurrentAt
    <3>2. i = k + 1
      BY <1>1, <2>1, <2>3, <3>1
    <3>3. QED
      BY <1>0, <3>1, <3>2
  <2>6. QED
    BY <1>1, <2>4, <2>5
<1>2. CASE ~ Starts(q, k + 1)
  <2>1. \A i \in 1 .. k + 1 : Starts(q, i) => i \in 1 .. k
    BY <1>2
  <2>2. \A i \in 1 .. k : /\ i \in 1 .. k + 1
                          /\ \A j \in i + 1 .. k + 1 : j \in i + 1 .. k \/ j = k + 1
                          /\ \A j \in i + 1 .. k : j \in i + 1 .. k + 1
    OBVIOUS
  <2>3. CurrentAt(q, p, x, k + 1) <=> CurrentAt(q, p, x, k)
    BY <1>2, <2>1, <2>2, Zenon DEF CurrentAt
  <2>4. QED
    BY <1>2, <2>3
<1>3. QED
  BY <1>1, <1>2

LEMMA RankMore ==
  ASSUME NEW q, NEW p, NEW x, NEW k \in Nat
  PROVE  RankAt(q, p, x, k + 1) <=>
           IF Adopts(q, p, k + 1) THEN x = q[k + 1].rank ELSE RankAt(q, p, x, k)
<1>1. CASE Adopts(q, p, k + 1)
  <2>1. \A i \in 1 .. k : k + 1 \in i + 1 .. k + 1
    OBVIOUS
  <2>2. k + 1 \in 1 .. k + 1 /\ \A j \in k + 1 + 1 .. k + 1 : FALSE
    OBVIOUS
  <2>3. \A i \in 1 .. k + 1 : i \in 1 .. k \/ i = k + 1
    OBVIOUS
  <2>4. RankAt(q, p, x, k + 1) <=> x = q[k + 1].rank
    BY <1>1, <2>1, <2>2, <2>3, Zenon DEF RankAt
  <2>5. QED
    BY <1>1, <2>4
<1>2. CASE ~ Adopts(q, p, k + 1)
  <2>1. \A i \in 1 .. k + 1 : Adopts(q, p, i) => i \in 1 .. k
    BY <1>2
  <2>2. \A i \in 1 .. k : /\ i \in 1 .. k + 1
                          /\ \A j \in i + 1 .. k + 1 : j \in i + 1 .. k \/ j = k + 1
                          /\ \A j \in i + 1 .. k : j \in i + 1 .. k + 1
    OBVIOUS
  <2>3. RankAt(q, p, x, k + 1) <=> RankAt(q, p, x, k)
    BY <1>2, <2>1, <2>2, Zenon DEF RankAt
  <2>4. QED
    BY <1>2, <2>3
<1>3. QED
  BY <1>1, <1>2

(* At any point of the program one communicator is in force, and a process *)
(* has one rank and one logging rank.                                      *)
LEMMA OneComm ==
  ASSUME NEW q, NEW k \in Nat, NEW c, NEW d, CommAt(q, c, k), CommAt(q, d, k)
  PROVE  c = d
<1>1. CASE \A i \in 1 .. k : ~ SetsComm(q, i)
  BY <1>1 DEF CommAt
<1>2. CASE \E i \in 1 .. k : SetsComm(q, i)
  <2>1. PICK i \in 1 .. k : /\ SetsComm(q, i) /\ c = q[i].comm
                            /\ \A m \in i + 1 .. k : ~ SetsComm(q, m)
    BY <1>2 DEF CommAt
  <2>2. PICK j \in 1 .. k : /\ SetsComm(q, j) /\ d = q[j].comm
                            /\ \A m \in j + 1 .. k : ~ SetsComm(q, m)
    BY <1>2 DEF CommAt
  <2>3. ~ (i < j) /\ ~ (j < i)
    BY <2>1, <2>2
  <2>4. QED
    BY <2>1, <2>2, <2>3
<1>3. QED
  BY <1>1, <1>2

(* The ranks of two processes come from one communicator.                  *)
LEMMA CurrentFrom ==
  ASSUME NEW q, NEW k \in Nat, NEW p, NEW r, NEW x, NEW y,
         CurrentAt(q, p, x, k), CurrentAt(q, r, y, k)
  PROVE  \E c \in Comms, i \in 1 .. k :
           CommAt(q, c, i - 1) /\ x = CommRank[c][p] /\ y = CommRank[c][r]
<1>1. PICK i \in 1 .. k : /\ Starts(q, i) /\ RankIn(q, p, x, i - 1)
                          /\ \A m \in i + 1 .. k : ~ Starts(q, m)
  BY DEF CurrentAt
<1>2. PICK j \in 1 .. k : /\ Starts(q, j) /\ RankIn(q, r, y, j - 1)
                          /\ \A m \in j + 1 .. k : ~ Starts(q, m)
  BY DEF CurrentAt
<1>3. i = j
  <2>1. ~ (i < j) /\ ~ (j < i)
    BY <1>1, <1>2
  <2>2. QED
    BY <2>1
<1>4. PICK c \in Comms : CommAt(q, c, i - 1) /\ x = CommRank[c][p]
  BY <1>1 DEF RankIn
<1>5. PICK d \in Comms : CommAt(q, d, i - 1) /\ y = CommRank[d][r]
  BY <1>2, <1>3 DEF RankIn
<1>6. i - 1 \in Nat
  OBVIOUS
<1>7. c = d
  BY <1>4, <1>5, <1>6, OneComm
<1>8. QED
  BY <1>4, <1>5, <1>7

LEMMA OneCurrent ==
  ASSUME NEW q, NEW k \in Nat, NEW p, NEW x, NEW y,
         CurrentAt(q, p, x, k), CurrentAt(q, p, y, k)
  PROVE  x = y
BY CurrentFrom

(* Two processes that adopted alike have one logging rank.                 *)
LEMMA OneRank ==
  ASSUME NEW q, NEW k \in Nat, NEW p, NEW r, NEW x, NEW y,
         \A i \in 1 .. k : Adopts(q, p, i) <=> Adopts(q, r, i),
         RankAt(q, p, x, k), RankAt(q, r, y, k)
  PROVE  x = y
<1>1. PICK i \in 1 .. k : /\ Adopts(q, p, i) /\ x = q[i].rank
                          /\ \A m \in i + 1 .. k : ~ Adopts(q, p, m)
  BY DEF RankAt
<1>2. PICK j \in 1 .. k : /\ Adopts(q, r, j) /\ y = q[j].rank
                          /\ \A m \in j + 1 .. k : ~ Adopts(q, r, m)
  BY DEF RankAt
<1>3. ~ (i < j)
  <2>1. SUFFICES ASSUME i < j PROVE FALSE
    OBVIOUS
  <2>2. j \in i + 1 .. k
    BY <2>1
  <2>3. QED
    BY <1>1, <1>2, <2>2
<1>4. ~ (j < i)
  <2>1. SUFFICES ASSUME j < i PROVE FALSE
    OBVIOUS
  <2>2. i \in j + 1 .. k
    BY <2>1
  <2>3. QED
    BY <1>1, <1>2, <2>2
<1>5. i = j
  BY <1>3, <1>4
<1>6. QED
  BY <1>1, <1>2, <1>5

-----------------------------------------------------------------------------
(* Types *)

LoggerType ==
  [initialized: BOOLEAN, level: Levels, dst: Destinations, loggingRank: Int,
   currentRank: Int, mpiInitialized: BOOLEAN, comm: Comms]
MPIStates == {"down", "up", "ended"}
Pieces == [proc: Procs, stmt: Nat, part: {"text", "end", "line"}]

(* Every variable has its type, no process is past the end of the program, *)
(* and all run one of the programs.                                        *)
TypeOK ==
  /\ program \in Programs /\ alive \subseteq Procs
  /\ at \in [Procs -> Nat] /\ \A p \in Procs : at[p] <= Len(program)
  /\ mpi \in [Procs -> MPIStates]
  /\ logger \in [Procs -> LoggerType]
  /\ queue \in [Procs -> Seq(Pieces)] /\ file \in Seq(Pieces)

(* Statement k + 1 begins: what it can be.                                 *)
LEMMA BeginIs ==
  ASSUME TypeOK, NEW p \in Procs, NEW op, Begin(p, op)
  PROVE  /\ at[p] + 1 \in DOMAIN program /\ program[at[p] + 1] \in Statements
         /\ Statement(p) = program[at[p] + 1] /\ Statement(p).op = op
         /\ at' = [at EXCEPT ![p] = at[p] + 1] /\ queue[p] = <<>>
         /\ at[p] \in Nat /\ at' \in [Procs -> Nat] /\ at'[p] = at[p] + 1
         /\ \A r \in Procs : at'[r] <= Len(program)
         /\ \A r \in Procs : r # p => at'[r] = at[r]
<1>1. program \in Seq(Statements) /\ at[p] \in Nat
  BY SPMDAssumption DEF TypeOK
<1>2. at[p] + 1 \in 1 .. Len(program)
  BY <1>1 DEF Begin
<1>3. QED
  BY <1>1, <1>2 DEF Begin, Statement, TypeOK

LEMMA StatementTypes ==
  ASSUME NEW s \in Statements
  PROVE  /\ s.op = "initializeWithMPI" =>
              s.rank \in Int /\ s.comm \in Comms /\ s.level \in Levels
              /\ s.dst \in Destinations
         /\ s.op = "log" => s.level \in Levels
         /\ s.op = "setLoggingRank" => s.rank \in Int
         /\ s.op = "setCommunicator" => s.comm \in Comms
BY DEF Statements

(* What is still to be written of a line.                                  *)
Of(p, k, part) == [proc |-> p, stmt |-> k, part |-> part]
Whole(p, k) == {<<Of(p, k, "text"), Of(p, k, "end")>>, <<Of(p, k, "line")>>}
Unwritten(p, k) == Whole(p, k) \cup {<<Of(p, k, "end")>>}

LEMMA EmittedIs ==
  ASSUME NEW p, NEW l, NEW level
  PROVE  /\ Emitted(p, l, level) \in Whole(p, at[p] + 1) \cup {<<>>}
         /\ Emitted(p, l, level) # <<>> =>
              l.initialized /\ l.currentRank = l.loggingRank
         /\ (/\ l.initialized /\ l.currentRank = l.loggingRank
             /\ Passes(level, l.level) /\ ShouldWrite(l.dst))
              => Emitted(p, l, level) \in Whole(p, at[p] + 1)
BY DEF Emitted, Line, Piece, Whole, Of

LEMMA WholeIs ==
  ASSUME NEW p \in Procs, NEW k \in Nat, NEW s \in Unwritten(p, k)
  PROVE  /\ s \in Seq(Pieces) /\ s # <<>>
         /\ \A i \in DOMAIN s : s[i].proc = p /\ s[i].stmt = k
<1>1. \A part \in {"text", "end", "line"} :
        /\ Of(p, k, part) \in Pieces
        /\ Of(p, k, part).proc = p /\ Of(p, k, part).stmt = k
  BY DEF Of, Pieces
<1>2. CASE s = <<Of(p, k, "text"), Of(p, k, "end")>>
  BY <1>1, <1>2
<1>3. CASE s = <<Of(p, k, "line")>> \/ s = <<Of(p, k, "end")>>
  BY <1>1, <1>3
<1>4. QED
  BY <1>2, <1>3 DEF Unwritten, Whole

(* The insertions of a call are those of the statement it makes.           *)
InsertionsOf(p, s) ==
  s \in Seq(Pieces) /\ \A i \in DOMAIN s : s[i].proc = p /\ s[i].stmt = at[p] + 1

LEMMA EmittedTypes ==
  ASSUME NEW p \in Procs, at[p] \in Nat, NEW l, NEW level
  PROVE  InsertionsOf(p, Emitted(p, l, level))
<1>1. Emitted(p, l, level) \in Unwritten(p, at[p] + 1) \cup {<<>>}
  BY EmittedIs DEF Unwritten
<1>2. <<>> \in Seq(Pieces) /\ DOMAIN <<>> = {}
  OBVIOUS
<1>3. at[p] + 1 \in Nat
  OBVIOUS
<1>4. CASE Emitted(p, l, level) \in Unwritten(p, at[p] + 1)
  BY <1>3, <1>4, WholeIs DEF InsertionsOf
<1>5. QED
  BY <1>1, <1>2, <1>4 DEF InsertionsOf

LEMMA WarningTypes ==
  ASSUME NEW p \in Procs, at[p] \in Nat, NEW l, NEW rank
  PROVE  InsertionsOf(p, RankWarning(p, l, rank))
<1>1. InsertionsOf(p, Emitted(p, l, LogLevel.warning))
  BY EmittedTypes
<1>2. InsertionsOf(p, <<>>)
  BY DEF InsertionsOf
<1>3. QED
  BY <1>1, <1>2 DEF RankWarning

LEMMA TypeInit == Init => TypeOK
<1> SUFFICES ASSUME Init PROVE TypeOK
  OBVIOUS
<1>1. program \in Seq(Statements)
  BY SPMDAssumption DEF Init
<1>2. LogLevel.none \in Levels /\ LogTo.console \in Destinations
  BY DEF LogLevel, Levels, LogTo, Destinations
<1>3. logger \in [Procs -> LoggerType]
  BY <1>2, SPMDAssumption DEF Init, LoggerType
<1>4. queue \in [Procs -> Seq(Pieces)] /\ file \in Seq(Pieces)
  BY DEF Init
<1>5. at \in [Procs -> Nat] /\ \A p \in Procs : at[p] <= Len(program)
  BY <1>1 DEF Init
<1>6. QED
  BY <1>3, <1>4, <1>5 DEF Init, TypeOK, MPIStates

LEMMA LoggerTypes ==
  ASSUME NEW p \in Procs, NEW l \in LoggerType, NEW rank \in Int
  PROVE  /\ WithCurrentRank(p, l) \in LoggerType
         /\ WithLoggingRank(p, l, rank) \in LoggerType
<1>1. CommRank[l.comm][p] \in Int
  BY SPMDAssumption DEF LoggerType
<1>2. QED
  BY <1>1 DEF WithCurrentRank, WithLoggingRank, LoggerType

LEMMA TypeStarts ==
  ASSUME TypeOK, NEW p \in Procs, InitializeWithMPI(p)
  PROVE  TypeOK'
<1> DEFINE s  == Statement(p)
           l0 == [logger[p] EXCEPT !.mpiInitialized = mpi[p] # "down"]
           l1 == WithCurrentRank(p, l0)
           l2 == [WithLoggingRank(p, l1, s.rank) EXCEPT !.comm = s.comm]
           l3 == Initialized(l2, s)
           out == RankWarning(p, l1, s.rank) \o Emitted(p, l3, LogLevel.info)
<1>1. s \in Statements /\ s.op = "initializeWithMPI" /\ at[p] \in Nat
  BY BeginIs DEF InitializeWithMPI
<1>2. /\ s.rank \in Int /\ s.comm \in Comms /\ s.level \in Levels
      /\ s.dst \in Destinations
  BY <1>1, StatementTypes
<1>3. l0 \in LoggerType
  BY DEF TypeOK, LoggerType
<1>4. l1 \in LoggerType /\ WithLoggingRank(p, l1, s.rank) \in LoggerType
  BY <1>2, <1>3, LoggerTypes
<1>5. l2 \in LoggerType
  BY <1>2, <1>4 DEF LoggerType
<1>6. l3 \in LoggerType
  <2> HIDE DEF l2
  <2>1. QED
    BY <1>2, <1>5 DEF Initialized, LoggerType
<1>7. out \in Seq(Pieces)
  <2> HIDE DEF l1, l3, s
  <2>1. Emitted(p, l3, LogLevel.info) \in Seq(Pieces)
    BY <1>1, EmittedTypes DEF InsertionsOf
  <2>2. RankWarning(p, l1, s.rank) \in Seq(Pieces)
    BY <1>1, WarningTypes DEF InsertionsOf
  <2>3. QED
    BY <2>1, <2>2
<1>8. logger' = [logger EXCEPT ![p] = l3] /\ queue' = [queue EXCEPT ![p] = out]
  BY DEF InitializeWithMPI
<1>9. UNCHANGED <<program, alive, mpi, file>>
  BY DEF InitializeWithMPI
<1>10. at' \in [Procs -> Nat] /\ \A r \in Procs : at'[r] <= Len(program)
  BY BeginIs DEF InitializeWithMPI
<1>11. logger' \in [Procs -> LoggerType] /\ queue' \in [Procs -> Seq(Pieces)]
  <2> HIDE DEF l3, out
  <2>1. QED
    BY <1>6, <1>7, <1>8 DEF TypeOK
<1>12. QED
  BY <1>9, <1>10, <1>11 DEF TypeOK

LEMMA TypeTargets ==
  ASSUME TypeOK, NEW p \in Procs, SetLoggingRank(p)
  PROVE  TypeOK'
<1> DEFINE rank == Statement(p).rank
<1>1. /\ Statement(p).rank \in Int /\ at[p] \in Nat
      /\ at' \in [Procs -> Nat] /\ \A r \in Procs : at'[r] <= Len(program)
  BY BeginIs, StatementTypes DEF SetLoggingRank
<1>2. logger[p] \in LoggerType /\ WithLoggingRank(p, logger[p], rank) \in LoggerType
  BY <1>1, LoggerTypes DEF TypeOK
<1>3. RankWarning(p, logger[p], rank) \in Seq(Pieces)
  BY <1>1, WarningTypes DEF InsertionsOf
<1>4. QED
  BY <1>1, <1>2, <1>3 DEF TypeOK, SetLoggingRank

LEMMA TypeOthers ==
  ASSUME TypeOK, NEW p \in Procs,
         SetCommunicator(p) \/ Log(p) \/ MPI_Init(p) \/ MPI_Finalize(p) \/ MPI_Barrier(p)
  PROVE  TypeOK'
<1>1. \E op : Begin(p, op)
  BY DEF SetCommunicator, Log, MPI_Init, MPI_Finalize, MPI_Barrier
<1>2. /\ at' \in [Procs -> Nat] /\ \A r \in Procs : at'[r] <= Len(program)
      /\ at[p] \in Nat
  BY <1>1, BeginIs
<1>3. CASE SetCommunicator(p)
  <2>1. Statement(p).comm \in Comms
    BY <1>3, BeginIs, StatementTypes DEF SetCommunicator
  <2>2. [logger[p] EXCEPT !.comm = Statement(p).comm] \in LoggerType
    BY <2>1 DEF TypeOK, LoggerType
  <2>3. QED
    BY <1>2, <1>3, <2>2 DEF TypeOK, SetCommunicator
<1>4. CASE Log(p)
  <2>1. Emitted(p, logger[p], Statement(p).level) \in Seq(Pieces)
    BY <1>2, EmittedTypes DEF InsertionsOf
  <2>2. QED
    BY <1>2, <1>4, <2>1 DEF TypeOK, Log
<1>5. CASE MPI_Init(p) \/ MPI_Finalize(p) \/ MPI_Barrier(p)
  BY <1>2, <1>5 DEF TypeOK, MPI_Init, MPI_Finalize, MPI_Barrier, MPIStates
<1>6. QED
  BY <1>3, <1>4, <1>5

(* The insertion that is next.                                             *)
LEMMA WriteIs ==
  ASSUME TypeOK, NEW p \in Procs, Write(p)
  PROVE  /\ Head(queue[p]) \in Pieces /\ Head(queue[p]) = queue[p][1]
         /\ 1 \in DOMAIN queue[p] /\ queue'[p] = Tail(queue[p])
         /\ Tail(queue[p]) \in Seq(Pieces)
         /\ \A i \in DOMAIN Tail(queue[p]) :
              i + 1 \in DOMAIN queue[p] /\ Tail(queue[p])[i] = queue[p][i + 1]
         /\ \A r \in Procs : r # p => queue'[r] = queue[r]
         /\ Len(file') = Len(file) + 1 /\ DOMAIN file' = 1 .. Len(file) + 1
         /\ DOMAIN file = 1 .. Len(file) /\ Len(file) \in Nat
         /\ \A i \in DOMAIN file : file'[i] = file[i]
         /\ file'[Len(file) + 1] = queue[p][1]
<1>1. queue[p] \in Seq(Pieces) /\ queue[p] # <<>> /\ file \in Seq(Pieces)
  BY DEF TypeOK, Write
<1>2. /\ Len(queue[p]) \in Nat \ {0} /\ DOMAIN queue[p] = 1 .. Len(queue[p])
      /\ Tail(queue[p]) \in Seq(Pieces) /\ Len(Tail(queue[p])) = Len(queue[p]) - 1
      /\ \A i \in 1 .. Len(queue[p]) - 1 : Tail(queue[p])[i] = queue[p][i + 1]
  BY <1>1
<1>3. /\ Head(queue[p]) = queue[p][1] /\ queue[p][1] \in Pieces
      /\ DOMAIN Tail(queue[p]) = 1 .. Len(queue[p]) - 1
  BY <1>1, <1>2
<1>4. queue'[p] = Tail(queue[p]) /\ \A r \in Procs : r # p => queue'[r] = queue[r]
  BY DEF TypeOK, Write
<1>5. file' = Append(file, queue[p][1])
  BY <1>3 DEF Write
<1>6. /\ Len(file') = Len(file) + 1 /\ Len(file) \in Nat
      /\ DOMAIN file = 1 .. Len(file) /\ DOMAIN file' = 1 .. Len(file) + 1
      /\ \A i \in 1 .. Len(file) : file'[i] = file[i]
      /\ file'[Len(file) + 1] = queue[p][1]
  BY <1>1, <1>3, <1>5
<1>7. QED
  BY <1>2, <1>3, <1>4, <1>6

LEMMA TypeWrites ==
  ASSUME TypeOK, NEW p \in Procs, Write(p)
  PROVE  TypeOK'
<1>1. queue' \in [Procs -> Seq(Pieces)] /\ file' \in Seq(Pieces)
  BY WriteIs DEF TypeOK, Write
<1>2. QED
  BY <1>1 DEF TypeOK, Write

LEMMA TypeNext == TypeOK /\ [Next]_vars => TypeOK'
<1> SUFFICES ASSUME TypeOK, [Next]_vars PROVE TypeOK'
  OBVIOUS
<1>1. CASE UNCHANGED vars \/ Done \/ \E p \in Procs : Abort(p)
  BY <1>1 DEF TypeOK, vars, Done, Abort
<1>2. QED
  BY <1>1, TypeStarts, TypeTargets, TypeOthers, TypeWrites DEF Next

-----------------------------------------------------------------------------
(* What a process knows *)

(* Process p after k statements of q, with the members l of its logger and *)
(* MPI in state m: it is a function of q, k and p's place in the           *)
(* communicators.                                                          *)
Knows(q, p, l, k, m) ==
  /\ l.initialized <=> Started(q, k)
  /\ l.mpiInitialized <=> Started(q, k)
  /\ Started(q, k) =>
       CurrentAt(q, p, l.currentRank, k) /\ RankAt(q, p, l.loggingRank, k)
  /\ CommAt(q, l.comm, k)
  /\ (\E i \in 1 .. k : q[i].op = "MPI_Init") => m # "down"
  /\ \A i \in 1 .. k : Starts(q, i) /\ ~ Started(q, i - 1) =>
       l.level = q[i].level /\ l.dst = q[i].dst
KnowsInv == \A p \in Procs : Knows(program, p, logger[p], at[p], mpi[p])

(* A line still in the queue, or in the file, is that of a process that    *)
(* logs its statement.                                                     *)
Spoken(q, s) == \A i \in DOMAIN s : Speaks(q, s[i].proc, s[i].stmt)
SpeakInv ==
  /\ KnowsInv
  /\ Spoken(program, file) /\ \A p \in Procs : Spoken(program, queue[p])
  /\ \A i \in DOMAIN file : file[i].stmt <= at[file[i].proc]
  /\ \A p \in Procs : \A i \in DOMAIN queue[p] :
       queue[p][i].proc = p /\ queue[p][i].stmt = at[p]

(* A statement that adopts no rank leaves the speaker.                     *)
LEMMA Unchanged ==
  ASSUME NEW q, NEW p, NEW k \in Nat, ~ Starts(q, k + 1)
  PROVE  /\ Started(q, k + 1) <=> Started(q, k)
         /\ \A x : CurrentAt(q, p, x, k + 1) <=> CurrentAt(q, p, x, k)
         /\ ~ Adopts(q, p, k + 1) =>
              \A x : RankAt(q, p, x, k + 1) <=> RankAt(q, p, x, k)
         /\ ~ SetsComm(q, k + 1) => \A c : CommAt(q, c, k + 1) <=> CommAt(q, c, k)
         /\ \A i \in 1 .. k + 1 : i \in 1 .. k \/ i = k + 1
<1>1. \A x : CurrentAt(q, p, x, k + 1) <=> CurrentAt(q, p, x, k)
  BY CurrentMore
<1>2. ~ Adopts(q, p, k + 1) => \A x : RankAt(q, p, x, k + 1) <=> RankAt(q, p, x, k)
  BY RankMore
<1>3. ~ SetsComm(q, k + 1) => \A c : CommAt(q, c, k + 1) <=> CommAt(q, c, k)
  BY CommMore
<1>4. \A i \in 1 .. k + 1 : i \in 1 .. k \/ i = k + 1
  OBVIOUS
<1>5. Started(q, k + 1) <=> Started(q, k)
  BY StartedMore
<1>6. QED
  BY <1>1, <1>2, <1>3, <1>4, <1>5

(* Statements that neither start the logger nor retarget it.               *)
LEMMA KnowsMore ==
  ASSUME NEW q, NEW p, NEW l, NEW k \in Nat, NEW m, NEW n,
         Knows(q, p, l, k, m),
         q[k + 1].op \notin {"initializeWithMPI", "setCommunicator", "setLoggingRank"},
         m # "down" \/ q[k + 1].op = "MPI_Init" => n # "down"
  PROVE  Knows(q, p, l, k + 1, n)
<1>1. ~ Starts(q, k + 1) /\ ~ SetsComm(q, k + 1) /\ ~ Adopts(q, p, k + 1)
  BY DEF Starts, SetsComm, Adopts
<1>2. QED
  BY <1>1, Unchanged DEF Knows

LEMMA KnowsComm ==
  ASSUME NEW q, NEW p, NEW l \in LoggerType, NEW k \in Nat, NEW m, NEW c \in Comms,
         Knows(q, p, l, k, m), q[k + 1].op = "setCommunicator", c = q[k + 1].comm
  PROVE  Knows(q, p, [l EXCEPT !.comm = c], k + 1, m)
<1>1. ~ Starts(q, k + 1) /\ SetsComm(q, k + 1) /\ ~ Adopts(q, p, k + 1)
  BY DEF Starts, SetsComm, Adopts
<1>2. CommAt(q, c, k + 1)
  BY <1>1, CommMore
<1>3. QED
  BY <1>1, <1>2, Unchanged DEF Knows, LoggerType

(* Whether an initialised logger adopts the rank of the next statement.    *)
LEMMA AdoptsIs ==
  ASSUME NEW q, NEW p \in Procs, NEW k \in Nat, NEW c \in Comms, CommAt(q, c, k),
         Started(q, k), q[k + 1].op \in {"initializeWithMPI", "setLoggingRank"},
         q[k + 1].rank \in Int
  PROVE  Adopts(q, p, k + 1) <=> ~ (q[k + 1].rank > CommSize[c][p] - 1)
<1>1. k + 1 - 1 = k
  OBVIOUS
<1>2. \A d \in Comms : CommAt(q, d, k) => d = c
  BY OneComm
<1>3. Adopts(q, p, k + 1) <=> Exists(q, k + 1, c, p)
  BY <1>1, <1>2 DEF Adopts
<1>4. CommSize[c][p] \in Nat
  BY SPMDAssumption
<1>5. QED
  BY <1>3, <1>4 DEF Exists

(* An initialisation: the process learns its rank in the communicator of   *)
(* before.  Only one that is not the first can be refused the rank it asks *)
(* for, and a process warns of that if the rank it learns is the one that  *)
(* logs.                                                                   *)
LEMMA KnowsStart ==
  ASSUME NEW q, NEW p \in Procs, NEW l \in LoggerType, NEW k \in Nat, NEW m,
         Knows(q, p, l, k, m), StartsUnderMPI(q), k + 1 \in DOMAIN q,
         Starts(q, k + 1), q[k + 1] \in Statements
  PROVE  LET s  == q[k + 1]
             l0 == [l EXCEPT !.mpiInitialized = m # "down"]
             l1 == WithCurrentRank(p, l0)
             l2 == [WithLoggingRank(p, l1, s.rank) EXCEPT !.comm = s.comm]
             l3 == Initialized(l2, s)
         IN  /\ Knows(q, p, l3, k + 1, m)
             /\ RankWarning(p, l1, s.rank) # <<>> => Speaks(q, p, k + 1)
<1> DEFINE s  == q[k + 1]
           x  == CommRank[l.comm][p]
           l0 == [l EXCEPT !.mpiInitialized = m # "down"]
           l1 == WithCurrentRank(p, l0)
           lr == WithLoggingRank(p, l1, s.rank)
           l2 == [lr EXCEPT !.comm = s.comm]
           l3 == Initialized(l2, s)
           rank == IF Adopts(q, p, k + 1) THEN s.rank ELSE l.loggingRank
<1>1. m # "down"
  <2>1. \E i \in 1 .. k : q[i].op = "MPI_Init"
    BY DEF StartsUnderMPI, Starts
  <2>2. QED
    BY <2>1 DEF Knows
<1>2. /\ CommAt(q, l.comm, k) /\ l.comm \in Comms /\ x \in Int
      /\ l.initialized <=> Started(q, k)
  BY SPMDAssumption DEF Knows, LoggerType
<1>3. s.rank \in Int /\ s.comm \in Comms /\ s.level \in Levels /\ s.dst \in Destinations
  BY StatementTypes DEF Starts
<1>4. /\ l1 \in LoggerType /\ l1.initialized = l.initialized /\ l1.mpiInitialized
      /\ l1.currentRank = x /\ l1.loggingRank = l.loggingRank /\ l1.comm = l.comm
      /\ l1.level = l.level /\ l1.dst = l.dst
  <2>1. l0 = [l EXCEPT !.mpiInitialized = TRUE]
    BY <1>1
  <2>2. l0.mpiInitialized /\ l0.comm = l.comm /\ l0 \in LoggerType
    BY <2>1 DEF LoggerType
  <2>3. l1 = [l0 EXCEPT !.currentRank = x]
    BY <2>2 DEF WithCurrentRank
  <2>4. QED
    BY <1>2, <2>1, <2>3 DEF LoggerType
<1>5. /\ Started(q, k + 1) /\ CommAt(q, s.comm, k + 1) /\ CurrentAt(q, p, x, k + 1)
  <2>1. CurrentAt(q, p, x, k + 1) <=> RankIn(q, p, x, k)
    BY CurrentMore
  <2>2. RankIn(q, p, x, k)
    BY <1>2 DEF RankIn
  <2>3. QED
    BY <2>1, <2>2, StartedMore, CommMore DEF SetsComm, Starts
<1>6. Refused(p, l1, s.rank) <=> ~ Adopts(q, p, k + 1)
  <2>1. CASE Started(q, k)
    <3>1. q[k + 1].op \in {"initializeWithMPI", "setLoggingRank"}
      BY DEF Starts
    <3>2. Adopts(q, p, k + 1) <=> ~ (s.rank > CommSize[l.comm][p] - 1)
      BY <1>2, <1>3, <2>1, <3>1, AdoptsIs
    <3>3. QED
      BY <1>2, <1>4, <2>1, <3>2 DEF Refused
  <2>2. CASE ~ Started(q, k)
    <3>1. Adopts(q, p, k + 1)
      <4>1. k + 1 - 1 = k
        OBVIOUS
      <4>2. QED
        BY <2>2, <4>1 DEF Adopts
    <3>2. QED
      BY <1>2, <1>4, <2>2, <3>1 DEF Refused
  <2>3. QED
    BY <2>1, <2>2
<1>7. /\ lr \in LoggerType /\ lr.loggingRank = rank
      /\ lr.initialized = l.initialized /\ lr.mpiInitialized /\ lr.currentRank = x
      /\ lr.level = l.level /\ lr.dst = l.dst
  <2> HIDE DEF l1, s
  <2>1. CASE Adopts(q, p, k + 1)
    <3>1. lr = [l1 EXCEPT !.loggingRank = s.rank]
      BY <1>4, <1>6, <2>1 DEF WithLoggingRank
    <3>2. QED
      BY <1>3, <1>4, <2>1, <3>1 DEF LoggerType
  <2>2. CASE ~ Adopts(q, p, k + 1)
    <3>1. lr = l1
      BY <1>4, <1>6, <2>2 DEF WithLoggingRank
    <3>2. QED
      BY <1>4, <2>2, <3>1
  <2>3. QED
    BY <2>1, <2>2
<1>8. RankAt(q, p, rank, k + 1)
  <2>1. CASE Adopts(q, p, k + 1)
    BY <2>1, RankMore
  <2>2. CASE ~ Adopts(q, p, k + 1)
    <3>1. Started(q, k)
      <4>1. k + 1 - 1 = k
        OBVIOUS
      <4>2. QED
        BY <2>2, <4>1 DEF Adopts
    <3>2. RankAt(q, p, l.loggingRank, k)
      BY <3>1 DEF Knows
    <3>3. QED
      BY <2>2, <3>2, RankMore
  <2>3. QED
    BY <2>1, <2>2
<1>9. RankWarning(p, l1, s.rank) # <<>> => Speaks(q, p, k + 1)
  <2> SUFFICES ASSUME RankWarning(p, l1, s.rank) # <<>> PROVE Speaks(q, p, k + 1)
    OBVIOUS
  <2> HIDE DEF l1, s
  <2>1. Refused(p, l1, s.rank) /\ l1.currentRank = l1.loggingRank
    BY <1>4, EmittedIs DEF RankWarning
  <2>2. rank = x
    BY <1>4, <1>6, <2>1
  <2> HIDE DEF x, rank
  <2>3. QED
    BY <1>5, <1>8, <2>2 DEF Speaks
<1>10. /\ l2 \in LoggerType /\ l2.loggingRank = rank /\ l2.comm = s.comm
       /\ l2.initialized = l.initialized /\ l2.mpiInitialized /\ l2.currentRank = x
       /\ l2.level = l.level /\ l2.dst = l.dst
  <2> HIDE DEF lr, s, rank, x
  <2>1. QED
    BY <1>3, <1>7 DEF LoggerType
<1>11. /\ l3.initialized /\ l3.mpiInitialized /\ l3.currentRank = x
       /\ l3.loggingRank = rank /\ l3.comm = s.comm
       /\ ~ l.initialized => l3.level = s.level /\ l3.dst = s.dst
       /\ l.initialized => l3.level = l.level /\ l3.dst = l.dst
  <2> HIDE DEF l2, s, rank, x
  <2>1. QED
    BY <1>10 DEF Initialized, LoggerType
<1>12. \A i \in 1 .. k + 1 : Starts(q, i) /\ ~ Started(q, i - 1) =>
         l3.level = q[i].level /\ l3.dst = q[i].dst
  <2> SUFFICES ASSUME NEW i \in 1 .. k + 1, Starts(q, i), ~ Started(q, i - 1)
               PROVE  l3.level = q[i].level /\ l3.dst = q[i].dst
    OBVIOUS
  <2> HIDE DEF l3
  <2>1. CASE i \in 1 .. k
    <3>1. l.initialized
      BY <1>2, <2>1 DEF Started
    <3>2. l.level = q[i].level /\ l.dst = q[i].dst
      BY <2>1 DEF Knows
    <3>3. QED
      BY <1>11, <3>1, <3>2
  <2>2. CASE i = k + 1
    <3>1. ~ Started(q, k)
      BY <2>2
    <3>2. QED
      BY <1>2, <1>11, <2>2, <3>1
  <2>3. QED
    BY <2>1, <2>2
<1>13. Knows(q, p, l3, k + 1, m)
  <2> HIDE DEF l3, s, rank, x
  <2>1. QED
    BY <1>1, <1>5, <1>8, <1>11, <1>12 DEF Knows
<1>14. QED
  BY <1>9, <1>13

(* setLoggingRank: it warns only when refused, and the process that warns  *)
(* is one that logged before.                                              *)
LEMMA KnowsTarget ==
  ASSUME NEW q, NEW p \in Procs, NEW l \in LoggerType, NEW k \in Nat, NEW m,
         Knows(q, p, l, k, m), k + 1 \in DOMAIN q,
         q[k + 1].op = "setLoggingRank", q[k + 1] \in Statements
  PROVE  /\ Knows(q, p, WithLoggingRank(p, l, q[k + 1].rank), k + 1, m)
         /\ RankWarning(p, l, q[k + 1].rank) # <<>> => Speaks(q, p, k + 1)
<1> DEFINE rank == q[k + 1].rank
           l1 == WithLoggingRank(p, l, rank)
<1>1. ~ Starts(q, k + 1) /\ ~ SetsComm(q, k + 1)
  BY DEF Starts, SetsComm
<1>2. rank \in Int /\ l.comm \in Comms /\ CommAt(q, l.comm, k)
  BY StatementTypes DEF LoggerType, Knows
<1>3. CASE ~ Started(q, k)
  <2>1. l1 = l /\ RankWarning(p, l, rank) = <<>>
    BY <1>3 DEF Knows, WithLoggingRank, RankWarning
  <2>2. QED
    BY <1>1, <1>3, <2>1, Unchanged DEF Knows
<1>4. CASE Started(q, k)
  <2>1. l.initialized /\ l.mpiInitialized
    BY <1>4 DEF Knows
  <2>2. Adopts(q, p, k + 1) <=> ~ (rank > CommSize[l.comm][p] - 1)
    BY <1>2, <1>4, AdoptsIs
  <2>3. Refused(p, l, rank) <=> ~ Adopts(q, p, k + 1)
    BY <2>1, <2>2 DEF Refused
  <2>4. CASE Adopts(q, p, k + 1)
    <3>1. l1 = [l EXCEPT !.loggingRank = rank] /\ RankWarning(p, l, rank) = <<>>
      BY <2>1, <2>3, <2>4 DEF WithLoggingRank, RankWarning
    <3>2. RankAt(q, p, rank, k + 1)
      BY <2>4, RankMore
    <3>3. /\ l1.loggingRank = rank /\ l1.initialized = l.initialized
          /\ l1.mpiInitialized = l.mpiInitialized /\ l1.comm = l.comm
          /\ l1.currentRank = l.currentRank /\ l1.level = l.level /\ l1.dst = l.dst
      BY <3>1 DEF LoggerType
    <3> HIDE DEF rank, l1
    <3>4. Knows(q, p, l1, k + 1, m)
      BY <1>1, <3>2, <3>3, Unchanged DEF Knows
    <3>5. QED
      BY <3>1, <3>4 DEF rank, l1
  <2>5. CASE ~ Adopts(q, p, k + 1)
    <3>1. l1 = l
      BY <2>3, <2>5 DEF WithLoggingRank
    <3>2. CurrentAt(q, p, l.currentRank, k + 1) /\ RankAt(q, p, l.loggingRank, k + 1)
      BY <1>1, <1>4, <2>5, Unchanged DEF Knows
    <3>3. RankWarning(p, l, rank) # <<>> => l.currentRank = l.loggingRank
      BY EmittedIs DEF RankWarning
    <3>4. RankWarning(p, l, rank) # <<>> => Speaks(q, p, k + 1)
      BY <3>2, <3>3 DEF Speaks
    <3>5. Knows(q, p, l, k + 1, m)
      BY <1>1, <2>5, Unchanged DEF Knows
    <3>6. QED
      BY <3>1, <3>4, <3>5
  <2>6. QED
    BY <2>4, <2>5
<1>5. QED
  BY <1>3, <1>4

-----------------------------------------------------------------------------
(* One speaker *)

LEMMA SpeakInit == Init => SpeakInv
<1> SUFFICES ASSUME Init PROVE SpeakInv
  OBVIOUS
<1>1. \A q : ~ Started(q, 0) /\ CommAt(q, World, 0)
  BY DEF Started, CommAt
<1>2. \A p \in Procs : at[p] = 0 /\ queue[p] = <<>>
  BY DEF Init
<1>3. \A p \in Procs : /\ ~ logger[p].initialized /\ ~ logger[p].mpiInitialized
                       /\ logger[p].comm = World
  BY DEF Init
<1>4. KnowsInv
  BY <1>1, <1>2, <1>3 DEF KnowsInv, Knows
<1>5. QED
  BY <1>2, <1>4 DEF SpeakInv, Spoken, Init

(* A line is emitted by a process that knows itself to be the one that logs.*)
LEMMA EmitterIs ==
  ASSUME NEW p \in Procs, NEW l, NEW level, NEW k, NEW m,
         Knows(program, p, l, k, m), Emitted(p, l, level) # <<>>
  PROVE  Speaks(program, p, k)
BY EmittedIs DEF Knows, Speaks

(* The insertions of two messages of one call.                             *)
LEMMA InsertionsJoin ==
  ASSUME NEW p \in Procs, NEW s, NEW t, InsertionsOf(p, s), InsertionsOf(p, t)
  PROVE  InsertionsOf(p, s \o t) /\ (s = <<>> /\ t = <<>> => s \o t = <<>>)
<1>1. s \in Seq(Pieces) /\ t \in Seq(Pieces)
  BY DEF InsertionsOf
<1>2. /\ Len(s) \in Nat /\ DOMAIN s = 1 .. Len(s)
      /\ Len(t) \in Nat /\ DOMAIN t = 1 .. Len(t)
      /\ s \o t \in Seq(Pieces) /\ DOMAIN (s \o t) = 1 .. Len(s) + Len(t)
      /\ \A i \in 1 .. Len(s) + Len(t) :
           (s \o t)[i] = IF i <= Len(s) THEN s[i] ELSE t[i - Len(s)]
  BY <1>1
<1>3. ASSUME NEW i \in DOMAIN (s \o t)
      PROVE  (s \o t)[i].proc = p /\ (s \o t)[i].stmt = at[p] + 1
  <2>1. CASE i <= Len(s)
    BY <1>2, <1>3, <2>1 DEF InsertionsOf
  <2>2. CASE ~ (i <= Len(s))
    <3>1. i - Len(s) \in DOMAIN t
      BY <1>2, <1>3, <2>2
    <3>2. QED
      BY <1>2, <1>3, <2>2, <3>1 DEF InsertionsOf
  <2>3. QED
    BY <2>1, <2>2
<1>4. QED
  BY <1>1, <1>2, <1>3 DEF InsertionsOf

(* What a statement of p does to the knowledge of p and to its queue.      *)
Statemented(p) ==
  /\ Knows(program, p, logger'[p], at[p] + 1, mpi'[p])
  /\ \A i \in DOMAIN queue'[p] :
       /\ queue'[p][i].proc = p /\ queue'[p][i].stmt = at[p] + 1
       /\ Speaks(program, p, at[p] + 1)
  /\ at' = [at EXCEPT ![p] = at[p] + 1]
  /\ UNCHANGED <<program, file>>
  /\ \A r \in Procs : r # p => /\ logger'[r] = logger[r] /\ mpi'[r] = mpi[r]
                               /\ queue'[r] = queue[r]

LEMMA SpeakStatement ==
  ASSUME TypeOK, SpeakInv, NEW p \in Procs, Statemented(p)
  PROVE  SpeakInv'
<1>1. at'[p] = at[p] + 1 /\ \A r \in Procs : r # p => at'[r] = at[r]
  BY DEF Statemented, TypeOK
<1>2. KnowsInv'
  BY <1>1 DEF SpeakInv, KnowsInv, Statemented
<1>3. Spoken(program, file)' /\ \A r \in Procs : Spoken(program, queue[r])'
  BY <1>1 DEF SpeakInv, Spoken, Statemented
<1>4. \A i \in DOMAIN file' : file'[i].stmt <= at'[file'[i].proc]
  <2>1. \A i \in DOMAIN file : file[i] \in Pieces
    <3>1. file \in Seq(Pieces)
      BY DEF TypeOK
    <3>2. QED
      BY <3>1
  <2>2. \A i \in DOMAIN file : file[i].proc \in Procs /\ file[i].stmt \in Nat
    BY <2>1 DEF Pieces
  <2>3. \A r \in Procs : at[r] \in Nat /\ at'[r] >= at[r] /\ at'[r] \in Nat
    <3>1. \A r \in Procs : at[r] \in Nat
      BY DEF TypeOK
    <3>2. QED
      BY <1>1, <3>1
  <2>4. QED
    BY <2>2, <2>3 DEF SpeakInv, Statemented
<1>5. \A r \in Procs : \A i \in DOMAIN queue'[r] :
        queue'[r][i].proc = r /\ queue'[r][i].stmt = at'[r]
  BY <1>1 DEF SpeakInv, Statemented
<1>6. QED
  BY <1>2, <1>3, <1>4, <1>5 DEF SpeakInv

LEMMA StatementStarts ==
  ASSUME TypeOK, SpeakInv, StartsUnderMPI(program), NEW p \in Procs,
         InitializeWithMPI(p)
  PROVE  Statemented(p)
<1> DEFINE s  == Statement(p)
           l0 == [logger[p] EXCEPT !.mpiInitialized = mpi[p] # "down"]
           l1 == WithCurrentRank(p, l0)
           l2 == [WithLoggingRank(p, l1, s.rank) EXCEPT !.comm = s.comm]
           l3 == Initialized(l2, s)
           warning == RankWarning(p, l1, s.rank)
           line == Emitted(p, l3, LogLevel.info)
           out == warning \o line
<1>1. /\ s = program[at[p] + 1] /\ s \in Statements /\ at[p] \in Nat
      /\ s.op = "initializeWithMPI" /\ at[p] + 1 \in DOMAIN program
      /\ at' = [at EXCEPT ![p] = at[p] + 1]
  BY BeginIs DEF InitializeWithMPI
<1>2. Knows(program, p, logger[p], at[p], mpi[p]) /\ logger[p] \in LoggerType
  BY DEF SpeakInv, KnowsInv, TypeOK
<1>3. /\ Knows(program, p, l3, at[p] + 1, mpi[p])
      /\ warning # <<>> => Speaks(program, p, at[p] + 1)
  BY <1>1, <1>2, KnowsStart DEF Starts
<1> HIDE DEF l3, l1
<1>4. /\ logger' = [logger EXCEPT ![p] = l3] /\ queue' = [queue EXCEPT ![p] = out]
      /\ UNCHANGED <<program, mpi, file>>
  BY DEF InitializeWithMPI, l3, l1
<1>5. InsertionsOf(p, warning) /\ InsertionsOf(p, line)
  BY <1>1, EmittedTypes, WarningTypes
<1>6. /\ logger'[p] = l3 /\ queue'[p] = out
      /\ \A r \in Procs : r # p => logger'[r] = logger[r] /\ queue'[r] = queue[r]
  BY <1>4 DEF TypeOK
<1>7. \A i \in DOMAIN out : /\ out[i].proc = p /\ out[i].stmt = at[p] + 1
                            /\ Speaks(program, p, at[p] + 1)
  <2>1. line # <<>> => Speaks(program, p, at[p] + 1)
    BY <1>3, EmitterIs
  <2> HIDE DEF warning, line
  <2>2. InsertionsOf(p, out) /\ (warning = <<>> /\ line = <<>> => out = <<>>)
    BY <1>5, InsertionsJoin
  <2>3. out # <<>> => Speaks(program, p, at[p] + 1)
    BY <1>3, <2>1, <2>2
  <2> HIDE DEF out
  <2>4. QED
    BY <2>2, <2>3 DEF InsertionsOf
<1> HIDE DEF out
<1>8. QED
  BY <1>1, <1>3, <1>4, <1>6, <1>7 DEF Statemented

LEMMA StatementTargets ==
  ASSUME TypeOK, SpeakInv, NEW p \in Procs, SetLoggingRank(p)
  PROVE  Statemented(p)
<1> DEFINE l    == logger[p]
           rank == Statement(p).rank
           out  == RankWarning(p, l, rank)
<1>1. /\ Statement(p) = program[at[p] + 1] /\ Statement(p) \in Statements
      /\ at[p] \in Nat /\ at[p] + 1 \in DOMAIN program
      /\ Statement(p).op = "setLoggingRank"
      /\ at' = [at EXCEPT ![p] = at[p] + 1]
  BY BeginIs DEF SetLoggingRank
<1>2. Knows(program, p, l, at[p], mpi[p]) /\ l \in LoggerType
  BY DEF SpeakInv, KnowsInv, TypeOK
<1>3. /\ Knows(program, p, WithLoggingRank(p, l, rank), at[p] + 1, mpi[p])
      /\ out # <<>> => Speaks(program, p, at[p] + 1)
  BY <1>1, <1>2, KnowsTarget
<1>4. /\ logger' = [logger EXCEPT ![p] = WithLoggingRank(p, l, rank)]
      /\ queue' = [queue EXCEPT ![p] = out] /\ UNCHANGED <<program, mpi, file>>
  BY DEF SetLoggingRank
<1>5. \A i \in DOMAIN out : out[i].proc = p /\ out[i].stmt = at[p] + 1
  BY <1>1, WarningTypes DEF InsertionsOf
<1>6. \A i \in DOMAIN out : Speaks(program, p, at[p] + 1)
  BY <1>3
<1>7. /\ logger'[p] = WithLoggingRank(p, l, rank) /\ queue'[p] = out
      /\ \A r \in Procs : r # p => logger'[r] = logger[r] /\ queue'[r] = queue[r]
  BY <1>4 DEF TypeOK
<1> HIDE DEF out, l
<1>8. QED
  BY <1>1, <1>3, <1>4, <1>5, <1>6, <1>7 DEF Statemented

LEMMA StatementOthers ==
  ASSUME TypeOK, SpeakInv, NEW p \in Procs,
         SetCommunicator(p) \/ Log(p) \/ MPI_Init(p) \/ MPI_Finalize(p) \/ MPI_Barrier(p)
  PROVE  Statemented(p)
<1>1. Knows(program, p, logger[p], at[p], mpi[p]) /\ logger[p] \in LoggerType
  BY DEF SpeakInv, KnowsInv, TypeOK
<1>2. \A op : Begin(p, op) =>
        /\ program[at[p] + 1].op = op /\ Statement(p) = program[at[p] + 1]
        /\ program[at[p] + 1] \in Statements
        /\ at[p] \in Nat /\ at' = [at EXCEPT ![p] = at[p] + 1] /\ queue[p] = <<>>
  BY BeginIs
<1>3. CASE SetCommunicator(p)
  <2>1. Statement(p).comm \in Comms
    BY <1>2, <1>3, StatementTypes DEF SetCommunicator
  <2>2. Knows(program, p, [logger[p] EXCEPT !.comm = Statement(p).comm], at[p] + 1,
              mpi[p])
    BY <1>1, <1>2, <1>3, <2>1, KnowsComm DEF SetCommunicator
  <2>3. /\ logger'[p] = [logger[p] EXCEPT !.comm = Statement(p).comm]
        /\ \A r \in Procs : r # p => logger'[r] = logger[r]
    BY <1>3 DEF SetCommunicator, TypeOK
  <2>4. DOMAIN queue[p] = {}
    BY <1>2, <1>3 DEF SetCommunicator
  <2>5. QED
    BY <1>2, <1>3, <2>2, <2>3, <2>4 DEF Statemented, SetCommunicator
<1>4. CASE Log(p)
  <2> DEFINE out == Emitted(p, logger[p], Statement(p).level)
  <2>1. Knows(program, p, logger[p], at[p] + 1, mpi[p])
    BY <1>1, <1>2, <1>4, KnowsMore DEF Log
  <2>2. \A i \in DOMAIN out : /\ out[i].proc = p /\ out[i].stmt = at[p] + 1
                              /\ Speaks(program, p, at[p] + 1)
    <3>1. InsertionsOf(p, out)
      BY <1>2, <1>4, EmittedTypes DEF Log
    <3>2. out # <<>> => Speaks(program, p, at[p] + 1)
      BY <2>1, EmitterIs
    <3>3. QED
      BY <3>1, <3>2 DEF InsertionsOf
  <2>3. queue'[p] = out /\ \A r \in Procs : r # p => queue'[r] = queue[r]
    BY <1>4 DEF Log, TypeOK
  <2> HIDE DEF out
  <2>4. QED
    BY <1>2, <1>4, <2>1, <2>2, <2>3 DEF Statemented, Log
<1>5. CASE MPI_Init(p) \/ MPI_Finalize(p) \/ MPI_Barrier(p)
  <2>1. /\ mpi[p] # "down" \/ MPI_Init(p) => mpi'[p] # "down"
        /\ \A r \in Procs : r # p => mpi'[r] = mpi[r]
    BY <1>5 DEF MPI_Init, MPI_Finalize, MPI_Barrier, TypeOK
  <2>2. program[at[p] + 1].op = "MPI_Init" => MPI_Init(p)
    BY <1>2, <1>5 DEF MPI_Init, MPI_Finalize, MPI_Barrier
  <2>3. program[at[p] + 1].op \in {"MPI_Init", "MPI_Finalize", "MPI_Barrier"}
    BY <1>2, <1>5 DEF MPI_Init, MPI_Finalize, MPI_Barrier
  <2>4. Knows(program, p, logger[p], at[p] + 1, mpi'[p])
    BY <1>1, <1>2, <1>5, <2>1, <2>2, <2>3, KnowsMore
    DEF MPI_Init, MPI_Finalize, MPI_Barrier
  <2>5. DOMAIN queue[p] = {}
    BY <1>2, <1>5 DEF MPI_Init, MPI_Finalize, MPI_Barrier
  <2>6. QED
    BY <1>2, <1>5, <2>1, <2>4, <2>5 DEF Statemented, MPI_Init, MPI_Finalize, MPI_Barrier
<1>6. QED
  BY <1>3, <1>4, <1>5

LEMMA SpeakWrites ==
  ASSUME TypeOK, SpeakInv, NEW p \in Procs, Write(p)
  PROVE  SpeakInv'
<1>1. /\ queue[p][1].proc = p /\ queue[p][1].stmt = at[p]
      /\ Speaks(program, p, at[p])
  BY WriteIs DEF SpeakInv, Spoken
<1>2. UNCHANGED <<program, at, mpi, logger>> /\ at[p] \in Nat
  BY DEF Write, TypeOK
<1>3. Spoken(program, file)'
  BY <1>1, <1>2, WriteIs DEF SpeakInv, Spoken
<1>4. \A i \in DOMAIN file' : file'[i].stmt <= at'[file'[i].proc]
  BY <1>1, <1>2, WriteIs DEF SpeakInv
<1>5. \A r \in Procs : \A i \in DOMAIN queue'[r] :
        queue'[r][i].proc = r /\ queue'[r][i].stmt = at'[r]
  <2>1. \A i \in DOMAIN queue'[p] :
          queue'[p][i].proc = p /\ queue'[p][i].stmt = at[p]
    <3>1. /\ queue'[p] = Tail(queue[p])
          /\ \A i \in DOMAIN Tail(queue[p]) :
               i + 1 \in DOMAIN queue[p] /\ Tail(queue[p])[i] = queue[p][i + 1]
      BY WriteIs
    <3>2. QED
      BY <3>1 DEF SpeakInv
  <2>2. QED
    BY <1>2, <2>1, WriteIs DEF SpeakInv
<1>6. \A r \in Procs : Spoken(program, queue[r])'
  <2>1. Spoken(program, queue'[p])
    <3>1. queue'[p] = Tail(queue[p]) /\ Spoken(program, queue[p])
      BY WriteIs DEF SpeakInv
    <3>2. \A i \in DOMAIN Tail(queue[p]) :
            i + 1 \in DOMAIN queue[p] /\ Tail(queue[p])[i] = queue[p][i + 1]
      BY WriteIs
    <3>3. QED
      BY <3>1, <3>2 DEF Spoken
  <2>2. QED
    BY <1>2, <2>1, WriteIs DEF SpeakInv, Spoken
<1>7. QED
  BY <1>2, <1>3, <1>4, <1>5, <1>6 DEF SpeakInv, KnowsInv

LEMMA SpeakNext ==
  ASSUME TypeOK, SpeakInv, StartsUnderMPI(program), [Next]_vars
  PROVE  SpeakInv'
<1>1. CASE UNCHANGED vars \/ Done \/ \E p \in Procs : Abort(p)
  BY <1>1 DEF SpeakInv, KnowsInv, Spoken, vars, Done, Abort
<1>2. ASSUME NEW p \in Procs, Write(p) PROVE SpeakInv'
  BY <1>2, SpeakWrites
<1>3. ASSUME NEW p \in Procs,
             \/ InitializeWithMPI(p) \/ SetLoggingRank(p) \/ SetCommunicator(p)
             \/ Log(p) \/ MPI_Init(p) \/ MPI_Finalize(p) \/ MPI_Barrier(p)
      PROVE  SpeakInv'
  BY <1>3, StatementStarts, StatementTargets, StatementOthers, SpeakStatement
<1>4. QED
  BY <1>1, <1>2, <1>3 DEF Next

(* What holds of the processes when the logger starts under MPI.           *)
LEMMA SpeakInvariant ==
  Spec => [](TypeOK /\ (StartsUnderMPI(program) => SpeakInv))
<1>1. TypeOK /\ (StartsUnderMPI(program) => SpeakInv) /\ [Next]_vars
        => (StartsUnderMPI(program) => SpeakInv)'
  <2>1. [Next]_vars => program' = program
    BY DEF Next, vars, Done, InitializeWithMPI, SetLoggingRank, SetCommunicator, Log,
       Write, Abort, MPI_Init, MPI_Finalize, MPI_Barrier
  <2>2. program' = program => (StartsUnderMPI(program)' <=> StartsUnderMPI(program))
    BY DEF StartsUnderMPI
  <2>3. QED
    BY <2>1, <2>2, SpeakNext
<1>2. QED
  BY TypeInit, TypeNext, SpeakInit, <1>1, PTL DEF Spec

(* Processes that no communicator separates have one view of the one in    *)
(* force.                                                                  *)
LEMMA PartAlike ==
  ASSUME TypeOK, NEW p \in Procs, NEW r \in Procs, NEW k \in Nat,
         Together(p, r, k), NEW i \in Nat, i <= k, NEW c \in Comms,
         CommAt(program, c, i)
  PROVE  /\ Part[c][p] = Part[c][r] /\ CommSize[c][p] = CommSize[c][r]
         /\ CommRank[c][p] = CommRank[c][r] => p = r
<1>1. Part[c][p] = Part[c][r]
  <2>1. CASE c = World
    BY <2>1, SPMDAssumption
  <2>2. CASE \E j \in 1 .. i : SetsComm(program, j) /\ c = program[j].comm
    <3>1. PICK j \in 1 .. i : SetsComm(program, j) /\ c = program[j].comm
      BY <2>2
    <3>2. j \in 1 .. k
      OBVIOUS
    <3>3. QED
      BY <3>1, <3>2 DEF Together, SetsComm
  <2>3. QED
    BY <2>1, <2>2 DEF CommAt
<1>2. p \in Part[c][r]
  BY <1>1, SPMDAssumption
<1>3. QED
  BY <1>1, <1>2, SPMDAssumption

LEMMA AdoptsAlike ==
  ASSUME TypeOK, NEW p \in Procs, NEW r \in Procs, NEW k \in Nat,
         Together(p, r, k), NEW i \in 1 .. k
  PROVE  Adopts(program, p, i) <=> Adopts(program, r, i)
<1>1. i - 1 \in Nat /\ i - 1 <= k
  OBVIOUS
<1>2. \A c \in Comms : CommAt(program, c, i - 1) => CommSize[c][p] = CommSize[c][r]
  BY <1>1, PartAlike
<1>3. \A c \in Comms : CommAt(program, c, i - 1) =>
        (Exists(program, i, c, p) <=> Exists(program, i, c, r))
  BY <1>2 DEF Exists
<1>4. QED
  BY <1>3 DEF Adopts

(* Whatever the number of processes, the communicators and the order in    *)
(* which they run: when the logger is initialised under MPI, a statement   *)
(* is spoken by at most one of the processes that no communicator of the   *)
(* program separates.  Nothing is exchanged between the loggers.           *)
(* (initializeWithMPI, setLoggingRank, log.)                               *)
THEOREM OneSpeaks == Spec => []OneSpeaker
<1>1. TypeOK /\ (StartsUnderMPI(program) => SpeakInv) => OneSpeaker
  <2> SUFFICES ASSUME TypeOK, SpeakInv, NEW k \in 1 .. Len(program),
                      NEW p \in Speakers(k), NEW r \in Speakers(k),
                      Together(p, r, k)
               PROVE  p = r
    BY DEF OneSpeaker
  <2>1. p \in Procs /\ r \in Procs
    <3>1. \A i \in DOMAIN file : file[i] \in Pieces
      <4>1. file \in Seq(Pieces)
        BY DEF TypeOK
      <4>2. QED
        BY <4>1
    <3>2. QED
      BY <3>1 DEF Speakers, Pieces
  <2>2. Speaks(program, p, k) /\ Speaks(program, r, k) /\ k \in Nat
    BY DEF Speakers, SpeakInv, Spoken
  <2>3. PICK x : CurrentAt(program, p, x, k) /\ RankAt(program, p, x, k)
    BY <2>2 DEF Speaks
  <2>4. PICK y : CurrentAt(program, r, y, k) /\ RankAt(program, r, y, k)
    BY <2>2 DEF Speaks
  <2>5. \A i \in 1 .. k : Adopts(program, p, i) <=> Adopts(program, r, i)
    BY <2>1, <2>2, AdoptsAlike
  <2>6. x = y
    BY <2>2, <2>3, <2>4, <2>5, OneRank
  <2>7. PICK c \in Comms, i \in 1 .. k :
          CommAt(program, c, i - 1) /\ x = CommRank[c][p] /\ y = CommRank[c][r]
    BY <2>2, <2>3, <2>4, CurrentFrom
  <2>8. i - 1 \in Nat /\ i - 1 <= k
    BY <2>2
  <2>9. CommRank[c][p] = CommRank[c][r] => p = r
    BY <2>1, <2>2, <2>7, <2>8, PartAlike
  <2>10. QED
    BY <2>6, <2>7, <2>9
<1>2. QED
  BY <1>1, SpeakInvariant, PTL

-----------------------------------------------------------------------------
(* What returned is written *)

(* Statement k is a log call whose level passes the threshold the logger   *)
(* was started with.                                                       *)
Due(q, k) ==
  /\ q[k].op = "log"
  /\ \E i \in 1 .. k - 1 : Starts(q, i) /\ Passes(q[k].level, q[i].level)

(* The line of p is in the file once, or still in p's queue.               *)
Own(p, k)  == {i \in Completed(k) : file[i].proc = p}
Once(p, k) == \E j \in Own(p, k) : Own(p, k) = {j}
WrittenBy(p, k) ==
  IF at[p] = k /\ queue[p] # <<>>
  THEN Own(p, k) = {} /\ queue[p] \in Unwritten(p, k)
  ELSE Once(p, k)
WrittenInv ==
  /\ \A p \in Procs : \A k \in 1 .. at[p] :
       Due(program, k) /\ Speaks(program, p, k) => WrittenBy(p, k)
  /\ \A p \in Procs : \A k \in 1 .. at[p] :
       Started(program, k) => \E r \in Procs : RankAt(program, r, r, k)

LEMMA WrittenInit == Init => WrittenInv
BY DEF Init, WrittenInv

(* A logger that starts in the world has the process's rank in the world.  *)
LEMMA CurrentInWorld ==
  ASSUME NEW q \in Seq(Statements), StartsInWorld(q), NEW p \in Procs, NEW k \in Nat,
         k <= Len(q), Started(q, k)
  PROVE  CurrentAt(q, p, p, k)
<1>1. PICK i \in 1 .. k : Starts(q, i)
  BY DEF Started
<1>2. i \in DOMAIN q /\ \A j \in 1 .. k : j \in DOMAIN q
  <2>1. DOMAIN q = 1 .. Len(q) /\ Len(q) \in Nat
    OBVIOUS
  <2>2. QED
    BY <2>1
<1>3. \A j \in 1 .. i - 1 : ~ SetsComm(q, j)
  BY <1>1, <1>2 DEF StartsInWorld
<1>4. \A j \in i + 1 .. k : ~ Starts(q, j)
  <2>1. SUFFICES ASSUME NEW j \in i + 1 .. k, Starts(q, j) PROVE FALSE
    OBVIOUS
  <2>2. j \in 1 .. k /\ i \in 1 .. j - 1
    OBVIOUS
  <2>3. ~ SetsComm(q, i)
    BY <1>2, <2>1, <2>2 DEF StartsInWorld
  <2>4. QED
    BY <1>1, <2>3 DEF Starts, SetsComm
<1>5. World \in Comms /\ p = CommRank[World][p]
  BY SPMDAssumption
<1>6. CommAt(q, World, i - 1)
  BY <1>3 DEF CommAt
<1>7. RankIn(q, p, p, i - 1)
  BY <1>5, <1>6 DEF RankIn
<1>8. QED
  BY <1>1, <1>4, <1>7 DEF CurrentAt

(* The processes adopt a rank together when the parts of a split agree.    *)
LEMMA AdoptTogether ==
  ASSUME NEW q, NEW k \in Nat, k + 1 \in DOMAIN q, StartsInWorld(q), SplitsAgree(q),
         NEW p \in Procs, NEW r \in Procs, Adopts(q, p, k + 1)
  PROVE  Adopts(q, r, k + 1)
<1>1. k + 1 - 1 = k
  OBVIOUS
<1>2. CASE Starts(q, k + 1)
  <2>1. \A i \in 1 .. k : ~ Starts(q, i)
    BY <1>1, <1>2 DEF StartsInWorld, SetsComm, Starts
  <2>2. QED
    BY <1>1, <1>2, <2>1 DEF Adopts, Started
<1>3. CASE ~ Starts(q, k + 1)
  <2>1. /\ q[k + 1].op = "setLoggingRank" /\ Started(q, k)
        /\ \E c \in Comms : CommAt(q, c, k) /\ Exists(q, k + 1, c, p)
    BY <1>1, <1>3 DEF Adopts, Starts
  <2>2. \E c \in Comms : CommAt(q, c, k) /\ Exists(q, k + 1, c, r)
    BY <1>1, <2>1 DEF SplitsAgree
  <2>3. QED
    BY <1>1, <2>1, <2>2 DEF Adopts
<1>4. QED
  BY <1>2, <1>3

(* The logging rank after a statement is one of a process, and that        *)
(* process has it.                                                         *)
LEMMA SomeRank ==
  ASSUME NEW q, NEW k \in Nat, k + 1 \in DOMAIN q, StartsInWorld(q), SplitsAgree(q),
         TargetsAreProcesses(q), NEW p \in Procs, Started(q, k + 1),
         Started(q, k) => \E r \in Procs : RankAt(q, r, r, k)
  PROVE  \E r \in Procs : RankAt(q, r, r, k + 1)
<1>1. CASE \E z \in Procs : Adopts(q, z, k + 1)
  <2>1. PICK z \in Procs : Adopts(q, z, k + 1)
    BY <1>1
  <2>2. q[k + 1].rank \in Procs
    BY <2>1 DEF Adopts, TargetsAreProcesses, Starts
  <2>3. Adopts(q, q[k + 1].rank, k + 1)
    BY <2>1, <2>2, AdoptTogether
  <2>4. RankAt(q, q[k + 1].rank, q[k + 1].rank, k + 1)
    BY <2>3, RankMore
  <2>5. QED
    BY <2>2, <2>4
<1>2. CASE \A z \in Procs : ~ Adopts(q, z, k + 1)
  <2>1. k + 1 - 1 = k
    OBVIOUS
  <2>2. Started(q, k)
    BY <1>2, <2>1, StartedMore DEF Adopts
  <2>3. PICK r \in Procs : RankAt(q, r, r, k)
    BY <2>2
  <2>4. RankAt(q, r, r, k + 1)
    BY <1>2, <2>3, RankMore
  <2>5. QED
    BY <2>4
<1>3. QED
  BY <1>1, <1>2

(* A statement that is due is emitted by the process that logs.         *)
LEMMA DueIsEmitted ==
  ASSUME TypeOK, SpeakInv, StartsInWorld(program), TargetsAreProcesses(program),
         NEW p \in Procs, Log(p),
         Due(program, at[p] + 1), Speaks(program, p, at[p] + 1)
  PROVE  Emitted(p, logger[p], Statement(p).level) \in Whole(p, at[p] + 1)
<1> DEFINE k == at[p] + 1
           l == logger[p]
<1>1. /\ Statement(p) = program[k] /\ program[k].op = "log" /\ at[p] \in Nat
      /\ k \in DOMAIN program /\ DOMAIN program = 1 .. Len(program)
      /\ Len(program) \in Nat
  <2>1. program \in Seq(Statements)
    BY SPMDAssumption DEF TypeOK
  <2>2. QED
    BY <2>1, BeginIs DEF Log
<1>2. Knows(program, p, l, at[p], mpi[p])
  BY DEF SpeakInv, KnowsInv
<1>3. PICK i \in 1 .. at[p] : Starts(program, i) /\ Passes(program[k].level, program[i].level)
  BY <1>1 DEF Due
<1>4. Started(program, at[p])
  BY <1>3 DEF Started
<1>5. /\ l.initialized /\ CurrentAt(program, p, l.currentRank, at[p])
      /\ RankAt(program, p, l.loggingRank, at[p])
  BY <1>2, <1>4 DEF Knows
<1>6. l.loggingRank = l.currentRank
  <2>1. ~ Adopts(program, p, k) /\ ~ Starts(program, k)
    BY <1>1 DEF Adopts, Starts
  <2>2. PICK x : CurrentAt(program, p, x, k) /\ RankAt(program, p, x, k)
    BY DEF Speaks
  <2>3. CurrentAt(program, p, x, at[p]) /\ RankAt(program, p, x, at[p])
    BY <1>1, <2>1, <2>2, Unchanged
  <2>4. x = l.currentRank
    BY <1>1, <1>5, <2>3, OneCurrent
  <2>5. x = l.loggingRank
    BY <1>1, <1>5, <2>3, OneRank
  <2>6. QED
    BY <2>4, <2>5
<1>7. l.level = program[i].level /\ l.dst = program[i].dst
  <2>1. ~ Started(program, i - 1)
    BY <1>1, <1>3 DEF StartsInWorld, Started, SetsComm, Starts
  <2>2. QED
    BY <1>2, <1>3, <2>1 DEF Knows
<1>8. ShouldWrite(l.dst)
  <2>1. i \in DOMAIN program
    BY <1>1
  <2>2. QED
    BY <1>3, <1>7, <2>1 DEF TargetsAreProcesses
<1>9. QED
  BY <1>1, <1>3, <1>5, <1>6, <1>7, <1>8, EmittedIs

LEMMA WrittenStatement ==
  ASSUME TypeOK, SpeakInv, WrittenInv, StartsInWorld(program),
         SplitsAgree(program), TargetsAreProcesses(program),
         NEW p \in Procs, NEW op, Begin(p, op), Statemented(p), op = "log" => Log(p)
  PROVE  WrittenInv'
<1>1. /\ at[p] \in Nat /\ at'[p] = at[p] + 1 /\ queue[p] = <<>>
      /\ \A r \in Procs : r # p => at'[r] = at[r] /\ queue'[r] = queue[r]
      /\ program[at[p] + 1].op = op /\ at[p] + 1 \in DOMAIN program
      /\ UNCHANGED <<program, file>>
  <2>1. /\ at[p] \in Nat /\ at'[p] = at[p] + 1 /\ queue[p] = <<>>
        /\ \A r \in Procs : r # p => at'[r] = at[r]
        /\ program[at[p] + 1].op = op /\ at[p] + 1 \in DOMAIN program
    BY BeginIs
  <2>2. /\ \A r \in Procs : r # p => queue'[r] = queue[r]
        /\ UNCHANGED <<program, file>>
    BY DEF Statemented
  <2>3. QED
    BY <2>1, <2>2
<1>2. \A r, k : Own(r, k)' = Own(r, k)
  BY <1>1 DEF Own, Completed
<1>3. ASSUME NEW r \in Procs, NEW k \in 1 .. at'[r], Due(program, k),
             Speaks(program, r, k)
      PROVE  WrittenBy(r, k)'
  <2>1. CASE r # p
    <3>1. WrittenBy(r, k)
      BY <1>1, <1>3, <2>1 DEF WrittenInv
    <3>2. QED
      BY <1>1, <1>2, <2>1, <3>1 DEF WrittenBy, Once
  <2>2. CASE r = p /\ k \in 1 .. at[p]
    <3>1. WrittenBy(p, k)
      BY <1>3, <2>2 DEF WrittenInv
    <3>2. Once(p, k) /\ at'[p] # k
      BY <1>1, <2>2, <3>1 DEF WrittenBy
    <3>3. QED
      BY <1>2, <2>2, <3>2 DEF WrittenBy, Once
  <2>3. CASE r = p /\ k = at[p] + 1
    <3>1. Log(p)
      BY <1>1, <1>3, <2>3 DEF Due
    <3>2. queue'[p] \in Whole(p, k)
      <4>1. queue'[p] = Emitted(p, logger[p], Statement(p).level)
        BY <3>1 DEF Log, TypeOK
      <4>2. QED
        BY <1>3, <2>3, <3>1, <4>1, DueIsEmitted
    <3>3. Own(p, k) = {}
      <4>1. ASSUME NEW i \in DOMAIN file, file[i].stmt = k, file[i].proc = p PROVE FALSE
        <5>1. k <= at[p]
          BY <4>1 DEF SpeakInv
        <5>2. QED
          BY <1>1, <2>3, <5>1
      <4>2. QED
        BY <4>1 DEF Own, Completed
    <3>4. queue'[p] # <<>> /\ queue'[p] \in Unwritten(p, k)
      BY <3>2 DEF Whole, Unwritten
    <3>5. QED
      BY <1>1, <1>2, <2>3, <3>3, <3>4 DEF WrittenBy
  <2>4. QED
    BY <1>1, <2>1, <2>2, <2>3
<1>4. ASSUME NEW r \in Procs, NEW k \in 1 .. at'[r], Started(program, k)
      PROVE  \E z \in Procs : RankAt(program, z, z, k)
  <2>1. CASE k \in 1 .. at[r]
    BY <1>4, <2>1 DEF WrittenInv
  <2>2. CASE r = p /\ k = at[p] + 1
    <3>1. Started(program, at[p]) => at[p] > 0
      BY <1>1 DEF Started
    <3>2. Started(program, at[p]) => \E z \in Procs : RankAt(program, z, z, at[p])
      BY <1>1, <3>1 DEF WrittenInv
    <3>3. QED
      BY <1>1, <1>4, <2>2, <3>1, <3>2, SomeRank
  <2>3. QED
    BY <1>1, <2>1, <2>2
<1>5. QED
  BY <1>1, <1>3, <1>4 DEF WrittenInv

(* The next insertion completes its line, or the one after it does.        *)
LEMMA OwnMore ==
  ASSUME TypeOK, NEW p \in Procs, Write(p), NEW r, NEW k
  PROVE  Own(r, k)' = Own(r, k) \cup
           (IF /\ queue[p][1].proc = r /\ queue[p][1].stmt = k
               /\ queue[p][1].part # "text"
            THEN {Len(file) + 1} ELSE {})
<1>1. /\ DOMAIN file = 1 .. Len(file) /\ DOMAIN file' = 1 .. Len(file) + 1
      /\ Len(file) \in Nat
      /\ \A i \in DOMAIN file : file'[i] = file[i]
      /\ file'[Len(file) + 1] = queue[p][1]
  BY WriteIs
<1>2. DOMAIN file' = DOMAIN file \cup {Len(file) + 1}
  BY <1>1
<1>3. /\ Own(r, k)' = {i \in DOMAIN file' : /\ file'[i].stmt = k
                                           /\ file'[i].part # "text"
                                           /\ file'[i].proc = r}
      /\ Own(r, k) = {i \in DOMAIN file : /\ file[i].stmt = k
                                         /\ file[i].part # "text"
                                         /\ file[i].proc = r}
  BY DEF Own, Completed
<1>4. QED
  BY <1>1, <1>2, <1>3

LEMMA WrittenWrites ==
  ASSUME TypeOK, SpeakInv, WrittenInv, NEW p \in Procs, Write(p)
  PROVE  WrittenInv'
<1>1. UNCHANGED <<program, at>> /\ queue[p] # <<>> /\ at[p] \in Nat
  BY DEF Write, TypeOK
<1>2. /\ queue[p][1].stmt = at[p] /\ queue[p][1].proc = p
  BY WriteIs DEF SpeakInv
<1>3. ASSUME NEW r \in Procs, NEW k \in 1 .. at[r], Due(program, k),
             Speaks(program, r, k)
      PROVE  WrittenBy(r, k)'
  <2>1. WrittenBy(r, k) /\ k \in Nat
    BY <1>3 DEF WrittenInv, TypeOK
  <2>2. CASE r # p \/ k # at[p]
    <3>1. Own(r, k)' = Own(r, k) \cup
            (IF /\ queue[p][1].proc = r /\ queue[p][1].stmt = k
                /\ queue[p][1].part # "text"
             THEN {Len(file) + 1} ELSE {})
      BY OwnMore
    <3>2. ~ (queue[p][1].proc = r /\ queue[p][1].stmt = k)
      BY <1>2, <2>2
    <3>3. Own(r, k)' = Own(r, k)
      BY <3>1, <3>2
    <3>4. r # p => queue'[r] = queue[r]
      BY WriteIs
    <3>5. QED
      BY <1>1, <2>1, <2>2, <3>3, <3>4 DEF WrittenBy, Once
  <2>3. CASE r = p /\ k = at[p]
    <3>1. r = p
      BY <2>3
    <3>2. Own(p, k) = {} /\ queue[p] \in Unwritten(p, k)
      BY <1>1, <2>1, <2>3, <3>1 DEF WrittenBy
    <3>3. queue'[p] = Tail(queue[p])
      BY WriteIs
    <3>4. CASE queue[p] = <<Of(p, k, "text"), Of(p, k, "end")>>
      <4>1. queue'[p] = <<Of(p, k, "end")>> /\ queue[p][1].part = "text"
        BY <3>3, <3>4 DEF Of
      <4>2. Own(p, k)' = {}
        BY <1>2, <2>3, <3>2, <4>1, OwnMore
      <4>3. QED
        BY <1>1, <2>3, <3>1, <4>1, <4>2 DEF WrittenBy, Unwritten
    <3>5. CASE queue[p] = <<Of(p, k, "line")>> \/ queue[p] = <<Of(p, k, "end")>>
      <4>1. queue'[p] = <<>> /\ queue[p][1].part # "text" /\ queue[p][1].stmt = k
        <5>1. \A part \in {"line", "end"} : queue[p] = <<Of(p, k, part)>> =>
                Tail(queue[p]) = <<>> /\ queue[p][1] = Of(p, k, part)
          OBVIOUS
        <5>2. \A part \in {"line", "end"} :
                Of(p, k, part).part # "text" /\ Of(p, k, part).stmt = k
          BY DEF Of
        <5>3. QED
          BY <3>3, <3>5, <5>1, <5>2
      <4>2. Own(p, k)' = {Len(file) + 1}
        BY <1>2, <2>3, <3>2, <4>1, OwnMore
      <4>3. QED
        BY <3>1, <4>1, <4>2 DEF WrittenBy, Once
    <3>6. QED
      BY <3>2, <3>4, <3>5 DEF Unwritten, Whole
  <2>4. QED
    BY <2>2, <2>3
<1>4. QED
  BY <1>1, <1>3 DEF WrittenInv

LEMMA InWorldIsUnder ==
  ASSUME NEW q, StartsInWorld(q) PROVE StartsUnderMPI(q)
BY DEF StartsInWorld, StartsUnderMPI, Starts

LEMMA WrittenNext ==
  ASSUME TypeOK, SpeakInv, WrittenInv, StartsInWorld(program),
         SplitsAgree(program), TargetsAreProcesses(program), [Next]_vars
  PROVE  WrittenInv'
<1>1. CASE UNCHANGED vars \/ Done \/ \E p \in Procs : Abort(p)
  <2>1. UNCHANGED <<program, at, queue, file>>
    BY <1>1 DEF vars, Done, Abort
  <2>2. \A p, k : Own(p, k)' = Own(p, k)
    BY <2>1 DEF Own, Completed
  <2>3. \A p \in Procs : \A k : WrittenBy(p, k)' = WrittenBy(p, k)
    BY <2>1, <2>2 DEF WrittenBy, Once
  <2>4. QED
    BY <2>1, <2>3 DEF WrittenInv
<1>2. ASSUME NEW p \in Procs, Write(p) PROVE WrittenInv'
  BY <1>2, WrittenWrites
<1>3. ASSUME NEW p \in Procs,
             \/ InitializeWithMPI(p) \/ SetLoggingRank(p) \/ SetCommunicator(p)
             \/ Log(p) \/ MPI_Init(p) \/ MPI_Finalize(p) \/ MPI_Barrier(p)
      PROVE  WrittenInv'
  <2>1. Statemented(p)
    BY <1>3, InWorldIsUnder, StatementStarts, StatementTargets, StatementOthers
  <2>2. \E op : Begin(p, op) /\ (op = "log" => Log(p))
    BY <1>3 DEF InitializeWithMPI, SetLoggingRank, SetCommunicator, Log, MPI_Init,
       MPI_Finalize, MPI_Barrier
  <2>3. QED
    BY <2>1, <2>2, WrittenStatement
<1>4. QED
  BY <1>1, <1>2, <1>3 DEF Next

(* When the logger starts once, under MPI and in the world, the parts of a *)
(* split agree on the ranks they have, the ranks asked for are those of    *)
(* processes and the logger writes to its file: the line of a log          *)
(* statement from which every process has returned is in the file, once    *)
(* from each process that has it, also when processes abort afterwards.    *)
(* (write_.)                                                               *)
THEOREM ReturnedWasWritten ==
  ASSUME \A q \in Programs :
           StartsInWorld(q) /\ SplitsAgree(q) /\ TargetsAreProcesses(q)
  PROVE  Spec => []ReturnedIsWritten
<1>1. TypeOK => /\ StartsInWorld(program) /\ SplitsAgree(program)
                /\ TargetsAreProcesses(program) /\ StartsUnderMPI(program)
  BY InWorldIsUnder DEF TypeOK
<1>2. TypeOK /\ SpeakInv /\ WrittenInv /\ [Next]_vars => WrittenInv'
  BY <1>1, WrittenNext
<1>3. TypeOK /\ SpeakInv /\ WrittenInv => ReturnedIsWritten
  <2> SUFFICES ASSUME TypeOK, SpeakInv, WrittenInv, NEW k \in 1 .. Len(program),
                      program[k].op = "log", Returned(k),
                      NEW m \in 1 .. k - 1,
                      program[m].op = "initializeWithMPI",
                      Passes(program[k].level, program[m].level)
               PROVE  /\ Completed(k) # {}
                      /\ \A i, j \in Completed(k) :
                           file[i].proc = file[j].proc => i = j
    BY DEF ReturnedIsWritten
  <2>1. /\ Due(program, k) /\ Started(program, k) /\ k \in Nat /\ k <= Len(program)
        /\ program \in Seq(Statements) /\ m \in DOMAIN program
    <3>1. program \in Seq(Statements)
      BY SPMDAssumption DEF TypeOK
    <3>2. QED
      BY <3>1 DEF Due, Started, Starts
  <2>2. \A p \in Procs : k \in 1 .. at[p] /\ (at[p] = k => queue[p] = <<>>)
    BY DEF Returned, TypeOK
  <2>3. \A p \in Procs : Speaks(program, p, k) => Once(p, k)
    BY <2>1, <2>2 DEF WrittenInv, WrittenBy
  <2>4. Completed(k) # {}
    <3>1. program[m].rank \in Procs
      BY <1>1, <2>1 DEF TargetsAreProcesses, Starts
    <3>2. PICK r \in Procs : RankAt(program, r, r, k)
      BY <2>1, <2>2, <3>1 DEF WrittenInv
    <3>3. CurrentAt(program, r, r, k)
      BY <1>1, <2>1, CurrentInWorld
    <3>4. Once(r, k)
      BY <2>3, <3>2, <3>3 DEF Speaks
    <3>5. QED
      BY <3>4 DEF Once, Own
  <2>5. ASSUME NEW i \in Completed(k), NEW j \in Completed(k),
               file[i].proc = file[j].proc
        PROVE  i = j
    <3>1. file[i].proc \in Procs
      <4>1. file \in Seq(Pieces) /\ i \in DOMAIN file
        BY DEF TypeOK, Completed
      <4>2. file[i] \in Pieces
        BY <4>1
      <4>3. QED
        BY <4>2 DEF Pieces
    <3>2. Speaks(program, file[i].proc, k)
      BY DEF Completed, SpeakInv, Spoken
    <3>3. Once(file[i].proc, k)
      BY <2>3, <3>1, <3>2
    <3>4. QED
      BY <2>5, <3>3 DEF Once, Own
  <2>6. QED
    BY <2>4, <2>5
<1>4. Spec => [](TypeOK /\ SpeakInv)
  <2>1. TypeOK /\ (StartsUnderMPI(program) => SpeakInv) => TypeOK /\ SpeakInv
    BY <1>1
  <2>2. QED
    BY <2>1, SpeakInvariant, PTL
<1>5. QED
  BY <1>2, <1>3, <1>4, WrittenInit, PTL DEF Spec

-----------------------------------------------------------------------------
(* The calls of MPI *)

LegalInv ==
  /\ used \subseteq {"up"}
  /\ \A p \in Procs :
       /\ logger[p].mpiInitialized => mpi[p] # "down"
       /\ mpi[p] = "ended" =>
            \E i \in 1 .. at[p] : program[i].op = "MPI_Finalize"

(* A call that may ask MPI comes while MPI is up, or MPI is not asked.     *)
LEMMA InTime ==
  ASSUME TypeOK, LegalInv, AsksInTime(program), NEW p \in Procs,
         NEW op \in {"initializeWithMPI", "setLoggingRank"}, Begin(p, op)
  PROVE  mpi[p] \in {"down", "up"}
<1>1. /\ at[p] \in Nat /\ at[p] + 1 \in DOMAIN program
      /\ program[at[p] + 1].op = op
  BY BeginIs
<1>2. program \in Seq(Statements)
  BY SPMDAssumption DEF TypeOK
<1>3. \A i \in 1 .. at[p] : i \in DOMAIN program /\ i < at[p] + 1
  BY <1>1, <1>2
<1>4. \A i \in 1 .. at[p] : program[i].op # "MPI_Finalize"
  BY <1>1, <1>3 DEF AsksInTime
<1>5. QED
  BY <1>4 DEF LegalInv, TypeOK, MPIStates

LEMMA RankFieldsKept ==
  ASSUME NEW p, NEW l \in LoggerType, NEW rank
  PROVE  /\ WithLoggingRank(p, l, rank).mpiInitialized = l.mpiInitialized
         /\ WithCurrentRank(p, l).mpiInitialized = l.mpiInitialized
BY DEF WithLoggingRank, WithCurrentRank, LoggerType

LEMMA LegalNext ==
  ASSUME TypeOK, LegalInv, AsksInTime(program), [Next]_vars
  PROVE  LegalInv'
<1>1. CASE UNCHANGED vars \/ Done \/ \E p \in Procs : Abort(p) \/ Write(p)
  BY <1>1 DEF LegalInv, vars, Done, Abort, Write
<1>2. ASSUME NEW p \in Procs, NEW op, Begin(p, op)
      PROVE  /\ at'[p] = at[p] + 1 /\ at[p] \in Nat
             /\ program[at[p] + 1].op = op
             /\ \A r \in Procs : r # p => at'[r] = at[r]
  BY <1>2, BeginIs
<1>3. ASSUME NEW p \in Procs, InitializeWithMPI(p) PROVE LegalInv'
  <2> DEFINE s  == Statement(p)
             l0 == [logger[p] EXCEPT !.mpiInitialized = mpi[p] # "down"]
             l1 == WithCurrentRank(p, l0)
             l2 == [WithLoggingRank(p, l1, s.rank) EXCEPT !.comm = s.comm]
             l3 == Initialized(l2, s)
  <2>1. mpi[p] \in {"down", "up"}
    BY <1>3, InTime DEF InitializeWithMPI
  <2>2. l0 \in LoggerType /\ l0.mpiInitialized = (mpi[p] # "down")
    BY DEF TypeOK, LoggerType
  <2>3. MPICalls(p, l0) \subseteq {"up"}
    BY <2>1, <2>2 DEF MPICalls
  <2>4. s.rank \in Int /\ s.comm \in Comms /\ s.level \in Levels /\ s.dst \in Destinations
    BY <1>3, BeginIs, StatementTypes DEF InitializeWithMPI
  <2>5. l1 \in LoggerType /\ l1.mpiInitialized = l0.mpiInitialized
    BY <2>2, <2>4, LoggerTypes, RankFieldsKept
  <2>6. /\ WithLoggingRank(p, l1, s.rank) \in LoggerType
        /\ WithLoggingRank(p, l1, s.rank).mpiInitialized = l0.mpiInitialized
    <3> HIDE DEF l1, s
    <3>1. QED
      BY <2>4, <2>5, LoggerTypes, RankFieldsKept
  <2>7. l3.mpiInitialized = l0.mpiInitialized
    <3> HIDE DEF l0, l1
    <3>1. QED
      BY <2>4, <2>6 DEF Initialized, LoggerType
  <2>8. /\ logger' = [logger EXCEPT ![p] = l3] /\ used' = used \cup MPICalls(p, l0)
        /\ UNCHANGED <<program, mpi>>
    BY <1>3 DEF InitializeWithMPI
  <2>9. /\ logger'[p] = l3 /\ \A r \in Procs : r # p => logger'[r] = logger[r]
    BY <2>8 DEF TypeOK
  <2>10. at'[p] = at[p] + 1 /\ at[p] \in Nat /\ \A r \in Procs : r # p => at'[r] = at[r]
    BY <1>2, <1>3 DEF InitializeWithMPI
  <2> HIDE DEF l3, l0
  <2>11. QED
    BY <2>1, <2>2, <2>3, <2>7, <2>8, <2>9, <2>10 DEF LegalInv
<1>4. ASSUME NEW p \in Procs, SetLoggingRank(p) PROVE LegalInv'
  <2> DEFINE l1 == WithLoggingRank(p, logger[p], Statement(p).rank)
  <2>1. mpi[p] \in {"down", "up"}
    BY <1>4, InTime DEF SetLoggingRank
  <2>2. l1.mpiInitialized = logger[p].mpiInitialized
    <3>1. logger[p] \in LoggerType
      BY DEF TypeOK
    <3>2. QED
      BY <3>1 DEF WithLoggingRank, LoggerType
  <2>3. MPICalls(p, logger[p]) \subseteq {"up"}
    BY <2>1 DEF MPICalls, LegalInv
  <2>4. /\ logger'[p] = l1 /\ \A r \in Procs : r # p => logger'[r] = logger[r]
        /\ used' = used \cup MPICalls(p, logger[p]) /\ UNCHANGED <<program, mpi>>
    BY <1>4 DEF SetLoggingRank, TypeOK
  <2>5. at'[p] = at[p] + 1 /\ at[p] \in Nat /\ \A r \in Procs : r # p => at'[r] = at[r]
    BY <1>2, <1>4 DEF SetLoggingRank
  <2> HIDE DEF l1
  <2>6. QED
    BY <2>1, <2>2, <2>3, <2>4, <2>5 DEF LegalInv
<1>5. ASSUME NEW p \in Procs, SetCommunicator(p) \/ Log(p) PROVE LegalInv'
  <2>1. \A r \in Procs : logger'[r].mpiInitialized = logger[r].mpiInitialized
    <3>1. DOMAIN logger = Procs /\ logger[p] \in LoggerType
      BY DEF TypeOK
    <3>2. CASE SetCommunicator(p)
      <4>1. logger' = [logger EXCEPT ![p].comm = Statement(p).comm]
        BY <3>2 DEF SetCommunicator
      <4>2. QED
        BY <3>1, <4>1 DEF LoggerType
    <3>3. CASE Log(p)
      BY <3>3 DEF Log
    <3>4. QED
      BY <1>5, <3>2, <3>3
  <2>2. at'[p] = at[p] + 1 /\ at[p] \in Nat /\ \A r \in Procs : r # p => at'[r] = at[r]
    BY <1>2, <1>5 DEF SetCommunicator, Log
  <2>3. QED
    BY <1>5, <2>1, <2>2 DEF LegalInv, SetCommunicator, Log
<1>6. ASSUME NEW p \in Procs, MPI_Init(p) \/ MPI_Finalize(p) \/ MPI_Barrier(p)
      PROVE  LegalInv'
  <2>1. /\ at'[p] = at[p] + 1 /\ at[p] \in Nat /\ \A r \in Procs : r # p => at'[r] = at[r]
        /\ MPI_Finalize(p) => program[at[p] + 1].op = "MPI_Finalize"
    BY <1>2, <1>6 DEF MPI_Init, MPI_Finalize, MPI_Barrier
  <2>2. /\ \A r \in Procs : r # p => mpi'[r] = mpi[r]
        /\ mpi[p] # "down" => mpi'[p] # "down"
        /\ mpi'[p] = "ended" => mpi[p] = "ended" \/ MPI_Finalize(p)
        /\ UNCHANGED <<program, logger, used>>
    BY <1>6 DEF MPI_Init, MPI_Finalize, MPI_Barrier, TypeOK
  <2>3. QED
    BY <2>1, <2>2 DEF LegalInv
<1>7. QED
  BY <1>1, <1>3, <1>4, <1>5, <1>6 DEF Next

(* When nothing that asks MPI comes after MPI_Finalize, the logger calls   *)
(* MPI only while MPI is up: also a logger that is initialised before MPI, *)
(* or that logs and is finalised after it.  (initializeWithMPI,            *)
(* setLoggingRank, updateCurrentRank_.)                                    *)
THEOREM LegalCalls ==
  ASSUME \A q \in Programs : AsksInTime(q) PROVE Spec => []MPICallsAreLegal
<1>1. Init => LegalInv
  BY DEF Init, LegalInv
<1>2. TypeOK /\ LegalInv /\ [Next]_vars => LegalInv'
  BY LegalNext DEF TypeOK
<1>3. LegalInv => MPICallsAreLegal
  BY DEF LegalInv, MPICallsAreLegal
<1>4. QED
  BY <1>1, <1>2, <1>3, TypeInit, TypeNext, PTL DEF Spec

==============================================================================
