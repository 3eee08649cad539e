--------------------------- MODULE LoggerRefinement ---------------------------
(***************************************************************************)
(* Logger implements LoggerService, for programs that leave the            *)
(* configuration to their initialize calls: the mapping.                   *)
(***************************************************************************)
EXTENDS LoggerInvariants

ConsoleOut == <<"console", Blank>>
FileOut(f) == <<"file", f>>
Outputs    == {ConsoleOut} \cup {FileOut(f) : f \in Paths}

(* The outputs of a destination; a file that cannot be opened is none.     *)
RouteOf(to, file) ==
  {o \in Outputs : \/ o = ConsoleOut /\ ShouldLog(to)
                   \/ o = FileOut(file) /\ ShouldWrite(to) /\ file \in Writable}

Asking == {"log", "warnOnce", "warnText", "warnEnd", "loadRank", "compareRank",
           "filter", "prefix", "lock"}

(* The order in which the completed lines of log_ stand in a stream.       *)
OrderIn(s) ==
  {<<Line(s[p[1]]), Line(s[p[2]])>> :
     p \in {q \in (DOMAIN s) \X (DOMAIN s) :
              q[1] <= q[2] /\ {q[1], q[2]} \subseteq Logged(s) \cap On(s, "end")}}

routeNow  == IF initialized THEN RouteOf(dst, logFile) ELSE {}
askedNow  == [t \in Threads |-> frame[t].n]
phaseNow  == [t \in Threads |-> IF pc[t] \in Locked THEN "accepted"
                               ELSE IF pc[t] \in Asking THEN "asked"
                               ELSE "settled"]
dueNow    == IF mutex = NoThread \/ pc[mutex] = "unlock" THEN {}
             ELSE IF pc[mutex] \in {"shouldLog", "printText", "printEnd"}
                  THEN routeNow ELSE routeNow \ {ConsoleOut}
outNow    == [o \in Outputs |->
                OrderIn(IF o = ConsoleOut THEN console ELSE files[o[2]])]

Service == INSTANCE LoggerService WITH
  Nobody     <- NoThread,
  Routes     <- {RouteOf(to, f) : to \in Destinations, f \in Files},
  configured <- initialized, route <- routeNow, asked <- askedNow,
  phase      <- phaseNow, turn <- mutex, due <- dueNow, out <- outNow

(* Who writes to an output has found it switched on, and the name that was *)
(* opened is the one of the configuration.                                 *)
RouteInv ==
  /\ \A t \in Threads : pc[t] \in Running => initialized
  /\ \A t \in Threads : pc[t] \in {"printText", "printEnd"} => shouldLog
  /\ \A t \in Threads : pc[t] \in {"open", "writeText", "writeEnd"} => shouldWrite
  /\ \A t \in Threads : pc[t] \in {"writeText", "writeEnd"} =>
       frame[t].path = logFile /\ logFile \in Writable

(* Whatever the threads of such a program do, a reader of the console and  *)
(* of the files sees a service that accepts one line at a time and         *)
(* delivers it to every output before the next.  (The lock_guard of log_,  *)
(* the two once_flags, the release store.)                                 *)
ImplementsService == Service!Spec

(* The completed lines of two outputs are in the same order, and no output *)
(* of the destination lacks one that another has.                          *)
OutputsAgree    == Service!OutputsAgree
OutputsComplete == Service!OutputsComplete
==============================================================================
