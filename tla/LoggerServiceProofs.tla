-------------------------- MODULE LoggerServiceProofs --------------------------
(***************************************************************************)
(* The two promises of LoggerService, for every number of threads, outputs *)
(* and routes.                                                             *)
(***************************************************************************)
EXTENDS LoggerService, TLAPS

Lines == Threads \X Nat

(* The line of a thread is in no output before it is accepted; while it is *)
(* delivered no other line stands behind it; an output of the route that   *)
(* is no longer due has it.                                                *)
TypeInv ==
  /\ configured \in BOOLEAN /\ route \subseteq Outputs /\ due \subseteq route
  /\ asked \in [Threads -> Nat]
  /\ phase \in [Threads -> {"settled", "asked", "accepted"}]
  /\ turn \in Threads \cup {Nobody}
  /\ out \in [Outputs -> SUBSET (Lines \X Lines)]
TurnInv ==
  /\ \A t \in Threads : phase[t] = "accepted" <=> turn = t
  /\ turn = Nobody => due = {}
  /\ ~ configured => route = {} /\ turn = Nobody
LineInv ==
  \A o \in Outputs : \A x \in out[o] :
    /\ x[1][2] <= asked[x[1][1]]
    /\ phase[x[1][1]] = "asked" => x[1][2] < asked[x[1][1]]
    /\ turn # Nobody /\ x[1] = LineOf(turn) => x[2] = LineOf(turn)
DueInv == turn # Nobody => \A o \in route \ due : LineOf(turn) \in Present(o)
ServiceInv ==
  TypeInv /\ TurnInv /\ LineInv /\ DueInv /\ OutputsAgree /\ OutputsComplete

LEMMA ServiceInit == ASSUME ServiceAssumption, Init PROVE ServiceInv
<1> USE DEF Init
<1>1. TypeInv BY DEF TypeInv
<1>2. TurnInv BY DEF ServiceAssumption, TurnInv
<1>3. LineInv /\ DueInv /\ OutputsAgree BY DEF LineInv, DueInv, OutputsAgree
<1>4. OutputsComplete BY DEF OutputsComplete
<1> QED BY <1>1, <1>2, <1>3, <1>4 DEF ServiceInv

LEMMA ServiceConfigure ==
  ASSUME ServiceAssumption, ServiceInv, Configure
  PROVE  ServiceInv'
<1> USE DEF ServiceInv, Configure
<1>1. TypeInv' BY DEF ServiceAssumption, TypeInv, TurnInv
<1>2. TurnInv' BY DEF TurnInv
<1>3. LineInv' BY DEF LineInv, LineOf
<1>4. DueInv' BY DEF DueInv, TurnInv
<1>5. OutputsAgree' BY DEF OutputsAgree
<1>6. OutputsComplete'
  <2>1. \A o \in Outputs : out[o] = {} BY DEF OutputsComplete, TurnInv
  <2> QED BY <2>1, <1>1 DEF OutputsComplete, Present, TypeInv
<1> QED BY <1>1, <1>2, <1>3, <1>4, <1>5, <1>6

LEMMA ServiceAsk ==
  ASSUME ServiceAssumption, ServiceInv, NEW t \in Threads, Ask(t)
  PROVE  ServiceInv'
<1> USE DEF ServiceInv, Ask
<1>0. /\ asked' \in [Threads -> Nat] /\ asked'[t] = asked[t] + 1
      /\ \A u \in Threads \ {t} : asked'[u] = asked[u] /\ phase'[u] = phase[u]
      /\ phase'[t] = "asked" /\ turn # t
  BY DEF TypeInv, TurnInv
<1>1. TypeInv' BY <1>0 DEF TypeInv
<1>2. TurnInv' BY <1>0 DEF TurnInv, TypeInv
<1>3. turn # Nobody => LineOf(turn)' = LineOf(turn)
  BY <1>0 DEF LineOf, TypeInv
<1>4. LineInv'
  <2> SUFFICES ASSUME NEW o \in Outputs, NEW x \in out[o]
               PROVE  /\ x[1][2] <= asked'[x[1][1]]
                      /\ phase'[x[1][1]] = "asked" => x[1][2] < asked'[x[1][1]]
                      /\ turn # Nobody /\ x[1] = LineOf(turn) => x[2] = LineOf(turn)
    BY <1>3 DEF LineInv
  <2>1. x \in Lines \X Lines BY DEF TypeInv
  <2>2. x[1][1] \in Threads /\ x[1][2] \in Nat BY <2>1 DEF Lines
  <2>3. asked[x[1][1]] \in Nat /\ x[1][2] <= asked[x[1][1]]
    BY <2>2 DEF LineInv, TypeInv
  <2> QED BY <1>0, <2>2, <2>3 DEF LineInv
<1>5. DueInv' BY <1>3 DEF DueInv, Present
<1>6. OutputsAgree' BY DEF OutputsAgree
<1>7. OutputsComplete' BY <1>3 DEF OutputsComplete, Present
<1> QED BY <1>1, <1>2, <1>4, <1>5, <1>6, <1>7

LEMMA ServiceDrop ==
  ASSUME ServiceAssumption, ServiceInv, NEW t \in Threads, Drop(t)
  PROVE  ServiceInv'
<1> USE DEF ServiceInv, Drop
<1>0. /\ \A u \in Threads \ {t} : phase'[u] = phase[u]
      /\ phase'[t] = "settled" /\ turn # t
  BY DEF TypeInv, TurnInv
<1>1. TypeInv' BY DEF TypeInv
<1>2. TurnInv' BY <1>0 DEF TurnInv
<1>3. LineInv'
  <2> SUFFICES ASSUME NEW o \in Outputs, NEW x \in out[o],
                      phase'[x[1][1]] = "asked"
               PROVE  phase[x[1][1]] = "asked"
    BY DEF LineInv, LineOf
  <2>1. x \in Lines \X Lines BY DEF TypeInv
  <2> QED BY <2>1, <1>0 DEF Lines
<1>4. DueInv' BY DEF DueInv, Present, LineOf
<1>5. OutputsAgree' BY DEF OutputsAgree
<1>6. OutputsComplete' BY DEF OutputsComplete, Present, LineOf
<1> QED BY <1>1, <1>2, <1>3, <1>4, <1>5, <1>6

LEMMA ServiceAccept ==
  ASSUME ServiceAssumption, ServiceInv, NEW t \in Threads, Accept(t)
  PROVE  ServiceInv'
<1> USE DEF ServiceInv, Accept
<1>0. /\ \A u \in Threads \ {t} : phase'[u] = phase[u]
      /\ phase'[t] = "accepted" /\ phase[t] = "asked" /\ turn' = t /\ t # Nobody
  BY DEF ServiceAssumption, TypeInv
<1>1. TypeInv' BY DEF TypeInv
<1>2. TurnInv' BY <1>0 DEF ServiceAssumption, TurnInv
<1>3. \A o \in Outputs : \A x \in out[o] : x[1] # <<t, asked[t]>>
  <2> SUFFICES ASSUME NEW o \in Outputs, NEW x \in out[o], x[1] = <<t, asked[t]>>
               PROVE  FALSE
    OBVIOUS
  <2>1. asked[t] < asked[t] BY <1>0 DEF LineInv
  <2> QED BY <2>1 DEF TypeInv
<1>4. LineInv'
  <2> SUFFICES ASSUME NEW o \in Outputs, NEW x \in out[o]
               PROVE  phase'[x[1][1]] = "asked" => phase[x[1][1]] = "asked"
    BY <1>0, <1>3 DEF LineInv, LineOf
  <2>1. x \in Lines \X Lines BY DEF TypeInv
  <2> QED BY <2>1, <1>0 DEF Lines
<1>5. DueInv' BY DEF DueInv
<1>6. OutputsAgree' BY DEF OutputsAgree
<1>7. OutputsComplete' BY DEF OutputsComplete, Present
<1> QED BY <1>1, <1>2, <1>4, <1>5, <1>6, <1>7

LEMMA ServiceDeliver ==
  ASSUME ServiceAssumption, ServiceInv, NEW t \in Threads, Deliver(t)
  PROVE  ServiceInv'
<1> USE DEF ServiceInv
<1> DEFINE cur == LineOf(t)
<1>1. PICK o \in due :
        /\ due' = due \ {o}
        /\ out' = [out EXCEPT ![o] =
             @ \cup ((Present(o) \cup {cur}) \X {cur})]
  BY DEF Deliver
<1>2. turn = t /\ t # Nobody /\ turn' = turn /\ LineOf(t)' = cur
      /\ UNCHANGED <<configured, route, asked, phase>>
  BY DEF ServiceAssumption, Deliver, LineOf
<1>3. cur \in Lines /\ cur[1] = t /\ cur[2] = asked[t]
  BY DEF LineOf, Lines, TypeInv
<1>4. o \in Outputs /\ o \in route BY DEF TypeInv
<1>5. Present(o) \subseteq Lines BY <1>4 DEF Present, TypeInv
<1> HIDE DEF cur
<1>6. out'[o] = out[o] \cup ((Present(o) \cup {cur}) \X {cur})
  BY <1>1, <1>4 DEF TypeInv
<1>7. \A p \in Outputs \ {o} : out'[p] = out[p] BY <1>1 DEF TypeInv
<1>8. TypeInv'
  <2>1. out'[o] \subseteq Lines \X Lines BY <1>3, <1>4, <1>5, <1>6 DEF TypeInv
  <2>2. out' \in [Outputs -> SUBSET (Lines \X Lines)]
    BY <2>1, <1>1, <1>4, <1>6, <1>7 DEF TypeInv
  <2> QED BY <2>2, <1>1, <1>2 DEF TypeInv
<1>9. TurnInv' BY <1>1, <1>2 DEF TurnInv
<1>10. \A p \in Outputs : \A x \in out'[p] :
         \/ x \in out[p]
         \/ p = o /\ x[2] = cur /\ (x[1] = cur \/ \E y \in out[o] : y[1] = x[1])
  BY <1>6, <1>7 DEF Present
<1>11. LineInv'
  <2> SUFFICES ASSUME NEW p \in Outputs, NEW x \in out'[p]
               PROVE  /\ x[1][2] <= asked[x[1][1]]
                      /\ phase[x[1][1]] = "asked" => x[1][2] < asked[x[1][1]]
                      /\ x[1] = cur => x[2] = cur
    BY <1>2 DEF LineInv
  <2>1. x \in out[p] => (x[1] = cur => x[2] = cur)
    BY <1>2 DEF LineInv, cur
  <2>2. cur[2] <= asked[cur[1]] /\ phase[cur[1]] # "asked"
    BY <1>2, <1>3 DEF TypeInv, TurnInv
  <2> QED BY <1>4, <1>10, <2>1, <2>2 DEF LineInv
<1>12. Present(o)' = Present(o) \cup {cur}
  <2>1. \A x \in out'[o] : x[1] \in Present(o) \cup {cur} BY <1>6 DEF Present
  <2>2. \A x \in out[o] : x \in out'[o] BY <1>6
  <2>3. <<cur, cur>> \in out'[o] BY <1>6
  <2>4. \A l : l \in Present(o)' <=> \E x \in out'[o] : l = x[1] BY DEF Present
  <2>5. \A l : l \in Present(o) <=> \E x \in out[o] : l = x[1] BY DEF Present
  <2> QED BY <2>1, <2>2, <2>3, <2>4, <2>5
<1>13. \A p \in Outputs \ {o} : Present(p)' = Present(p)
  BY <1>7 DEF Present
<1>14. DueInv' BY <1>1, <1>2, <1>4, <1>12, <1>13 DEF DueInv, TypeInv, cur
<1>15. OutputsAgree'
  <2> SUFFICES ASSUME NEW p \in Outputs, NEW q \in Outputs,
                      NEW x \in out'[p], NEW y \in out'[q],
                      x[1] = y[2], x[2] = y[1]
               PROVE  x[1] = x[2]
    BY DEF OutputsAgree
  <2>1. CASE x \in out[p] /\ y \in out[q] BY <2>1 DEF OutputsAgree
  <2>2. x[1] = cur => x[2] = cur BY <1>2, <1>11 DEF LineInv
  <2>3. y[1] = cur => y[2] = cur BY <1>2, <1>11 DEF LineInv
  <2> QED BY <2>1, <2>2, <2>3, <1>10
<1>16. OutputsComplete'
  <2>1. \A p \in Outputs \ route : out'[p] = {}
    BY <1>4, <1>7 DEF OutputsComplete
  <2>2. ASSUME NEW p \in route, NEW q \in route,
               NEW l \in Present(p)' \ Present(q)'
        PROVE  l = cur /\ q \in due'
    <3>0. p \in Outputs /\ q \in Outputs BY DEF TypeInv
    <3>1. l = cur \/ l \in Present(p) \ Present(q) BY <3>0, <1>12, <1>13
    <3>2. l = cur BY <3>1, <1>2 DEF OutputsComplete, cur
    <3>3. q # o /\ cur \notin Present(q) BY <3>0, <3>2, <1>12, <1>13
    <3>4. q \in due BY <3>3, <1>2 DEF DueInv, cur
    <3> QED BY <3>2, <3>3, <3>4, <1>1
  <2> QED BY <2>1, <2>2, <1>2 DEF OutputsComplete
<1> QED BY <1>8, <1>9, <1>11, <1>14, <1>15, <1>16

LEMMA ServiceFinish ==
  ASSUME ServiceAssumption, ServiceInv, NEW t \in Threads, Finish(t)
  PROVE  ServiceInv'
<1> USE DEF ServiceInv, Finish
<1>0. /\ \A u \in Threads \ {t} : phase'[u] = phase[u] /\ turn # u
      /\ phase'[t] = "settled" /\ turn' = Nobody /\ t # Nobody
  BY DEF ServiceAssumption, TypeInv
<1>1. TypeInv' BY DEF TypeInv
<1>2. TurnInv' BY <1>0 DEF ServiceAssumption, TurnInv
<1>3. LineInv'
  <2> SUFFICES ASSUME NEW o \in Outputs, NEW x \in out[o],
                      phase'[x[1][1]] = "asked"
               PROVE  phase[x[1][1]] = "asked"
    BY <1>0 DEF LineInv
  <2>1. x \in Lines \X Lines BY DEF TypeInv
  <2> QED BY <2>1, <1>0 DEF Lines
<1>4. DueInv' BY <1>0 DEF DueInv
<1>5. OutputsAgree' BY DEF OutputsAgree
<1>6. OutputsComplete' BY DEF OutputsComplete, Present
<1> QED BY <1>1, <1>2, <1>3, <1>4, <1>5, <1>6

LEMMA ServiceStep ==
  ASSUME ServiceAssumption, ServiceInv, [Next]_svars
  PROVE  ServiceInv'
<1>1. CASE UNCHANGED svars
  <2> USE <1>1 DEF svars, ServiceInv
  <2>1. TypeInv' BY DEF TypeInv
  <2>2. TurnInv' BY DEF TurnInv
  <2>3. LineInv' BY DEF LineInv, LineOf
  <2>4. DueInv' BY DEF DueInv, Present, LineOf
  <2>5. OutputsAgree' BY DEF OutputsAgree
  <2>6. OutputsComplete' BY DEF OutputsComplete, Present, LineOf
  <2> QED BY <2>1, <2>2, <2>3, <2>4, <2>5, <2>6
<1> QED BY <1>1, ServiceConfigure, ServiceAsk, ServiceDrop, ServiceAccept,
           ServiceDeliver, ServiceFinish DEF Next

THEOREM ServiceCorrect ==
  ASSUME ServiceAssumption
  PROVE  Spec => []ServiceInv
BY ServiceInit, ServiceStep, PTL DEF Spec

(* Two outputs of the service never disagree on which of two lines came    *)
(* first.                                                                  *)
THEOREM ServiceAgrees ==
  ASSUME ServiceAssumption
  PROVE  Spec => []OutputsAgree
BY ServiceCorrect, PTL DEF ServiceInv

(* An output of the route lacks a line another one has only while that     *)
(* line is being delivered.                                                *)
THEOREM ServiceCompletes ==
  ASSUME ServiceAssumption
  PROVE  Spec => []OutputsComplete
BY ServiceCorrect, PTL DEF ServiceInv
==============================================================================
