---------------------------- MODULE LoggerHistory ----------------------------
(***************************************************************************)
(* Logger with two history variables about the current call of a thread:   *)
(* whether another thread reconfigured the logger at any time during it,   *)
(* and what the thread can have read since it began.                       *)
(***************************************************************************)
EXTENDS LoggerProperties

VARIABLES
  disturbed,  \* disturbed[t]: another thread was reconfiguring meanwhile
  since       \* since[t]: whether the logger was initialised when the call of
              \* t began, and the communicators in force from then on
hvars == <<vars, disturbed, since>>

(* A thread that is about to write, or is writing, a configuration member. *)
Reconfiguring(t) ==
  pc[t] \in {"mpiFlag", "currentRank", "rankStr", "rankStrEnd", "setRank",
             "storeRank", "setComm", "level", "dst", "bools", "boolLog",
             "boolWrite", "file", "fileEnd", "initStr", "initStrEnd",
             "publish"}

Nothing == [initialized |-> FALSE, comms |-> {}]

HInit ==
  /\ Init
  /\ disturbed = [t \in Threads |-> FALSE]
  /\ since = [t \in Threads |-> Nothing]

RecordDisturbed ==
  disturbed' = [t \in Threads |->
    /\ pc'[t] # "idle"
    /\ \/ disturbed[t]
       \/ \E u \in Threads \ {t} : Reconfiguring(u) \/ Reconfiguring(u)']

RecordSince ==
  since' = [t \in Threads |->
    IF pc'[t] = "idle" THEN Nothing
    ELSE IF pc[t] = "idle"
    THEN [initialized |-> initialized, comms |-> {comm'}]
    ELSE [since[t] EXCEPT !.comms = @ \cup {comm'}]]

Record == RecordDisturbed /\ RecordSince

HNext == Next /\ Record
HSpec == HInit /\ [][HNext]_hvars

(* A log call during which nobody reconfigures the logger does exactly what*)
(* the configuration says: its line, with this process's rank string, is on*)
(* the console and in the current log file if and only if the logger is    *)
(* initialised, this is the logging rank, the level passes and the         *)
(* destination includes that output, and it is in no other file.           *)
(* README.md:28 and :30; a file that cannot be opened is the exception.    *)
Has(s, t) == \E i \in Logged(s) : Line(s[i]) = <<t, frame[t].n>>
                                  /\ s[i].prefix = rankStr /\ s[i].part = "end"
Meant(t) ==
  /\ initialized /\ currentRank = loggingRank
  /\ call[t].level # LogLevel.none /\ loggingLevel >= call[t].level
  /\ call[t].level = LogLevel.warning => ~ SilenceWarnings
UndisturbedLogFollowsConfig ==
  [][\A t \in Threads :
       (/\ pc[t] # "idle" /\ pc'[t] = "idle" /\ ~ disturbed[t]
        /\ call[t].op = "log" /\ call[t].ok) =>
          /\ Has(console, t)' <=> Meant(t) /\ dst # LogTo.file
          /\ \A f \in Paths :
               Has(files[f], t)' <=> Meant(t) /\ dst # LogTo.console
                                     /\ f = logFile /\ f \in Writable]_hvars

(* A logging rank is adopted only if a call under way asked for exactly it *)
(* and MPI is up; and if the logger was initialised when that call began,  *)
(* only if the rank is below the size of a communicator that was in force  *)
(* during the call, whatever ranks and communicators other threads set     *)
(* between its test and its store.  (setLoggingRank.  The test looks for   *)
(* ranks that are too large only: a negative one passes it.)               *)
Asks(t) == pc[t] # "idle" /\ call[t].op \in {"initializeWithMPI", "setLoggingRank"}
AdoptedRankWasInRange ==
  [][loggingRank' # loggingRank =>
       /\ mpiUp
       /\ \E t \in Threads :
            /\ Asks(t) /\ call[t].rank = loggingRank'
            /\ since[t].initialized =>
                 \E c \in since[t].comms : loggingRank' < CommSize[c]]_hvars

==============================================================================
