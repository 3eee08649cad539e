----------------------------- MODULE LoggerService -----------------------------
(***************************************************************************)
(* What the logger promises to the threads that share it once one of them  *)
(* has configured it: a line is dropped, or it is accepted and, before the *)
(* next line is accepted, delivered to every output of the one route the   *)
(* configuration chose.  There are no locks, flags or switches here.       *)
(*                                                                         *)
(* An output is what a reader can tell of it: out[o] holds <<a, b>> when   *)
(* the line a stands in o at or before the line b.                         *)
(***************************************************************************)
EXTENDS Integers

CONSTANTS Threads, Nobody, Outputs, Routes

(* What the promises below need of the constants.                          *)
ServiceAssumption == Nobody \notin Threads /\ Routes \subseteq SUBSET Outputs

VARIABLES
  configured, route,   \* the outputs that every accepted line goes to
  asked,   \* asked[t]: the number of lines thread t has asked for
  phase,   \* where the last of them is: "settled", "asked" or "accepted"
  turn,    \* the thread whose line is being delivered
  due,     \* the outputs it has not reached yet
  out

svars == <<configured, route, asked, phase, turn, due, out>>

LineOf(t)  == <<t, asked[t]>>
Present(o) == {pair[1] : pair \in out[o]}

Init ==
  /\ configured = FALSE /\ route = {} /\ turn = Nobody /\ due = {}
  /\ asked = [t \in Threads |-> 0]
  /\ phase = [t \in Threads |-> "settled"]
  /\ out = [o \in Outputs |-> {}]

(* The first initialisation is complete.                                   *)
Configure ==
  /\ ~ configured /\ configured' = TRUE /\ route' \in Routes
  /\ UNCHANGED <<asked, phase, turn, due, out>>

(* A thread asks for a line.                                               *)
Ask(t) ==
  /\ phase[t] = "settled" /\ phase' = [phase EXCEPT ![t] = "asked"]
  /\ asked' = [asked EXCEPT ![t] = @ + 1]
  /\ UNCHANGED <<configured, route, turn, due, out>>

(* The line is not for this rank or level, or comes too early.             *)
Drop(t) ==
  /\ phase[t] = "asked" /\ phase' = [phase EXCEPT ![t] = "settled"]
  /\ UNCHANGED <<configured, route, asked, turn, due, out>>

Accept(t) ==
  /\ phase[t] = "asked" /\ turn = Nobody /\ configured
  /\ phase' = [phase EXCEPT ![t] = "accepted"]
  /\ turn' = t /\ due' = route
  /\ UNCHANGED <<configured, route, asked, out>>

(* The accepted line reaches an output, whole and behind all others.       *)
Deliver(t) ==
  /\ turn = t
  /\ \E o \in due :
       /\ due' = due \ {o}
       /\ out' = [out EXCEPT ![o] =
            @ \cup ((Present(o) \cup {LineOf(t)}) \X {LineOf(t)})]
  /\ UNCHANGED <<configured, route, asked, phase, turn>>

(* Only a line that has reached all its outputs lets the next one in.      *)
Finish(t) ==
  /\ turn = t /\ due = {} /\ turn' = Nobody
  /\ phase' = [phase EXCEPT ![t] = "settled"]
  /\ UNCHANGED <<configured, route, asked, due, out>>

Next ==
  \/ Configure
  \/ \E t \in Threads : Ask(t) \/ Drop(t) \/ Accept(t) \/ Deliver(t) \/ Finish(t)

Spec == Init /\ [][Next]_svars

------------------------------------------------------------------------------
(* Two outputs never disagree on which of two lines came first.  (log_     *)
(* prints and writes in one critical section.)                             *)
OutputsAgree ==
  \A o, p \in Outputs : \A x \in out[o], y \in out[p] :
    x[1] = y[2] /\ x[2] = y[1] => x[1] = x[2]

(* What one output of the route has, the others have too, unless it is the *)
(* line being delivered, and the delivered lines are nowhere else.  (The   *)
(* two switches of setDestinationBools_ agree with the destination.)       *)
OutputsComplete ==
  /\ \A o, p \in route : \A l \in Present(o) \ Present(p) :
       turn # Nobody /\ l = LineOf(turn) /\ p \in due
  /\ \A o \in Outputs \ route : out[o] = {}
==============================================================================
