-------------------------- MODULE StatusRelayProofs --------------------------
(***************************************************************************)
(* Proofs that the relay of states is up to date when it is quiet, for     *)
(* every set of states and every bound.                                    *)
(*                                                                         *)
(* UpToDate speaks of quiet relays only. The inductive invariant says for  *)
(* each place an update can be in that the last one in it is the state of  *)
(* the place before: the last post is the state of the service, the last   *)
(* call is that state when nothing is posted, and the last level is that   *)
(* of the UI's state.                                                      *)
(***************************************************************************)
EXTENDS StatusRelay, TLAPS, SequenceTheorems

LastSaved == up => mLastUpdateMessage = mLaststate

LastPosted == posted # << >> => posted[Len(posted)] = mLaststate

LastCall ==
    callback \in {"sent", "registered"} /\ posted = << >> /\ ~lost =>
        IF calls = << >> THEN Agrees(mLaststate) ELSE calls[Len(calls)] = mLaststate

LastLevel ==
    /\ levels # << >> => levels[Len(levels)] = getLevel(uiLaststate)
    /\ levels = << >> /\ told # None => told = getLevel(uiLaststate)
    /\ ~listening => levels = << >> /\ told = None

IInv == TypeOK /\ LastSaved /\ LastPosted /\ LastCall /\ LastLevel

-----------------------------------------------------------------------------
(* Sequences used as queues.                                               *)

\* The end of a queue from which something was taken.
LEMMA QueueTail ==
    ASSUME NEW S, NEW q \in Seq(S), q # << >>
    PROVE  /\ Head(q) \in S /\ Tail(q) \in Seq(S)
           /\ Tail(q) = << >> => Head(q) = q[Len(q)]
           /\ Tail(q) # << >> => Tail(q)[Len(Tail(q))] = q[Len(q)]
<1>1. /\ Head(q) \in S /\ Tail(q) \in Seq(S) /\ Head(q) = q[1]
      /\ Len(q) \in Nat \ {0} /\ Len(Tail(q)) = Len(q) - 1
      /\ \A i \in 1 .. Len(Tail(q)) : Tail(q)[i] = q[i + 1]
  OBVIOUS
<1>2. Tail(q) = << >> => Len(q) = 1
  BY <1>1, EmptySeq
<1>3. Tail(q) # << >> => Len(Tail(q)) \in 1 .. Len(Tail(q)) /\ Len(Tail(q)) + 1 = Len(q)
  BY <1>1, EmptySeq
<1> QED
  BY <1>1, <1>2, <1>3

\* The end of a queue to which something was added, from which something was
\* taken.
LEMMA QueueEnds ==
    ASSUME NEW S, NEW q \in Seq(S), NEW e \in S
    PROVE  /\ Append(q, e) \in Seq(S) /\ Append(q, e) # << >>
           /\ Append(q, e)[Len(Append(q, e))] = e
           /\ q # << >> => /\ Head(q) \in S /\ Tail(q) \in Seq(S)
                           /\ Tail(q) = << >> => Head(q) = q[Len(q)]
                           /\ Tail(q) # << >> => Tail(q)[Len(Tail(q))] = q[Len(q)]
<1>1. /\ Append(q, e) \in Seq(S) /\ Append(q, e) # << >>
      /\ Append(q, e)[Len(Append(q, e))] = e
  OBVIOUS
<1>2. CASE q # << >>
  BY <1>1, <1>2, QueueTail
<1>3. CASE q = << >>
  BY <1>1, <1>3
<1> QED
  BY <1>2, <1>3

-----------------------------------------------------------------------------
\* Nothing is under way at first.
LEMMA InitEstablishes == Init => IInv
  BY StatesAssumption, EmptySeq
  DEF Init, IInv, TypeOK, LastSaved, LastPosted, LastCall, LastLevel

\* Every action keeps the types.
LEMMA TypeStep == TypeOK /\ [Next]_vars => TypeOK'
<1> SUFFICES ASSUME TypeOK, [Next]_vars PROVE TypeOK'
  OBVIOUS
<1> USE StatesAssumption
<1>1. ASSUME NEW state \in States, updateStateString(state) PROVE TypeOK'
  BY <1>1, QueueEnds DEF TypeOK, updateStateString, updateState, ui
<1>2. CASE handleMessage
  BY <1>2, QueueEnds DEF TypeOK, handleMessage, ui
<1>3. CASE ReadLogCache
  BY <1>3 DEF TypeOK, ReadLogCache, ui
<1>4. CASE onCreate
  BY <1>4, QueueEnds DEF TypeOK, onCreate, updateState, ui
<1>5. CASE ServiceDies
  BY <1>5, EmptySeq DEF TypeOK, ServiceDies, ui
<1>6. CASE SendLastUpdate
  BY <1>6, QueueEnds DEF TypeOK, SendLastUpdate, service, ui
<1>7. CASE RegisterCallback
  BY <1>7 DEF TypeOK, RegisterCallback, service, ui
<1>8. CASE LogReceived
  BY <1>8 DEF TypeOK, LogReceived, service, ui
<1>9. CASE UiStarts
  BY <1>9 DEF TypeOK, UiStarts, service, ui
<1>10. CASE UiDies
  BY <1>10, EmptySeq DEF TypeOK, UiDies, service
<1>11. CASE initConnectListener
  BY <1>11 DEF TypeOK, initConnectListener, service
<1>12. CASE UiUpdateStateString
  <2>1. Head(calls) \in States /\ Tail(calls) \in Seq(States)
    BY <1>12, QueueEnds DEF TypeOK, UiUpdateStateString
  <2>2. getLevel(Head(calls)) \in Levels
    BY <2>1 DEF Levels
  <2>3. uiLaststate' \in States
    BY <1>12, <2>1 DEF TypeOK, UiUpdateStateString
  <2>4. levels' \in {levels, Append(levels, getLevel(Head(calls)))}
    BY <1>12 DEF UiUpdateStateString
  <2>5. levels' \in Seq(Levels)
    <3>1. levels \in Seq(Levels)
      BY DEF TypeOK
    <3>2. Append(levels, getLevel(Head(calls))) \in Seq(Levels)
      BY <2>2, <3>1, QueueEnds
    <3> QED
      BY <2>4, <3>1, <3>2
  <2> QED
    BY <1>12, <2>1, <2>3, <2>5 DEF TypeOK, UiUpdateStateString, service
<1>13. CASE connectStatus
  BY <1>13, QueueEnds DEF TypeOK, connectStatus, service
<1>14. CASE UNCHANGED vars
  BY <1>14 DEF TypeOK, vars
<1> QED
  BY <1>1, <1>2, <1>3, <1>4, <1>5, <1>6, <1>7, <1>8, <1>9, <1>10, <1>11, <1>12, <1>13, <1>14 DEF Next

\* An action that leaves the service and its posts alone keeps what is said
\* of them.
LEMMA ServiceSame == LastSaved /\ LastPosted /\ UNCHANGED service => LastSaved' /\ LastPosted'
  BY DEF LastSaved, LastPosted, service

\* Every action keeps the last post equal to the state of the service.
LEMMA ServiceStep == IInv /\ [Next]_vars => LastSaved' /\ LastPosted'
<1> SUFFICES ASSUME IInv, [Next]_vars PROVE LastSaved' /\ LastPosted'
  OBVIOUS
<1>0. TypeOK /\ LastSaved /\ LastPosted
  BY DEF IInv
<1>1. ASSUME NEW state \in States, updateStateString(state) PROVE LastSaved' /\ LastPosted'
  BY <1>0, <1>1, QueueEnds DEF TypeOK, LastSaved, LastPosted, updateStateString, updateState
<1>2. CASE handleMessage
  BY <1>0, <1>2, QueueEnds DEF TypeOK, LastSaved, LastPosted, handleMessage
<1>3. CASE ReadLogCache
  BY <1>0, <1>3 DEF LastSaved, LastPosted, ReadLogCache
<1>4. CASE onCreate
  BY <1>0, <1>4, QueueEnds DEF TypeOK, LastSaved, LastPosted, onCreate, updateState
<1>5. CASE ServiceDies
  BY <1>5 DEF LastSaved, LastPosted, ServiceDies
<1>6. CASE UNCHANGED service
  BY <1>0, <1>6, ServiceSame
<1> QED
  BY <1>1, <1>2, <1>3, <1>4, <1>5, <1>6
  DEF Next, vars, service, SendLastUpdate, RegisterCallback, LogReceived, UiStarts, UiDies,
      initConnectListener, UiUpdateStateString, connectStatus

\* Every action keeps the last call, or the state of the UI, equal to the
\* state of the service when nothing is posted.
LEMMA CallStep == IInv /\ [Next]_vars => LastCall'
<1> SUFFICES ASSUME IInv, [Next]_vars PROVE LastCall'
  OBVIOUS
<1>0. TypeOK /\ LastSaved /\ LastPosted /\ LastCall
  BY DEF IInv
<1>1. ASSUME NEW state \in States, updateStateString(state) PROVE LastCall'
  <2>1. posted' # << >>
    BY <1>0, <1>1, QueueEnds DEF TypeOK, updateStateString, updateState
  <2> QED
    BY <2>1 DEF LastCall
<1>2. CASE handleMessage
  <2>1. CASE posted' = << >> /\ callback = "registered"
    <3>1. Head(posted) \in States /\ Head(posted) = mLaststate
      BY <1>0, <1>2, <2>1, QueueEnds DEF TypeOK, LastPosted, handleMessage
    <3>2. calls' # << >> /\ calls'[Len(calls')] = Head(posted)
      BY <1>0, <1>2, <2>1, <3>1, QueueEnds DEF TypeOK, handleMessage
    <3> QED
      BY <1>2, <3>1, <3>2 DEF LastCall, handleMessage
  <2> QED
    BY <1>2, <2>1 DEF LastCall, handleMessage
<1>3. CASE ReadLogCache
  BY <1>0, <1>3 DEF LastCall, Agrees, ReadLogCache, ui
<1>4. CASE onCreate
  BY <1>0, <1>4, QueueEnds DEF TypeOK, LastCall, onCreate, updateState
<1>5. CASE ServiceDies
  BY <1>5 DEF LastCall, ServiceDies
<1>6. CASE SendLastUpdate
  BY <1>0, <1>6, QueueEnds, StatesAssumption
  DEF TypeOK, LastSaved, LastCall, SendLastUpdate, service
<1>7. CASE RegisterCallback
  BY <1>0, <1>7 DEF LastCall, Agrees, RegisterCallback, service, ui
<1>8. CASE LogReceived
  BY <1>0, <1>8 DEF LastCall, Agrees, LogReceived, service, ui
<1>9. CASE UiStarts
  BY <1>9 DEF LastCall, UiStarts
<1>10. CASE UiDies
  BY <1>10 DEF LastCall, UiDies
<1>11. CASE initConnectListener
  BY <1>0, <1>11 DEF LastCall, Agrees, initConnectListener, service
<1>12. CASE UiUpdateStateString
  <2>1. calls' = << >> => Head(calls) = calls[Len(calls)]
    BY <1>0, <1>12, QueueEnds DEF TypeOK, UiUpdateStateString
  <2>2. calls' # << >> => calls'[Len(calls')] = calls[Len(calls)]
    BY <1>0, <1>12, QueueEnds DEF TypeOK, UiUpdateStateString
  <2>3. \/ Ignored(uiLaststate, Head(calls)) /\ uiLaststate' = uiLaststate
        \/ uiLaststate' = Head(calls)
    BY <1>12 DEF UiUpdateStateString
  <2> QED
    BY <1>0, <1>12, <2>1, <2>2, <2>3 DEF LastCall, Agrees, UiUpdateStateString, service
<1>13. CASE connectStatus
  BY <1>0, <1>13 DEF LastCall, Agrees, connectStatus, service
<1>14. CASE UNCHANGED vars
  BY <1>0, <1>14 DEF LastCall, Agrees, vars
<1> QED
  BY <1>1, <1>2, <1>3, <1>4, <1>5, <1>6, <1>7, <1>8, <1>9, <1>10, <1>11, <1>12, <1>13, <1>14 DEF Next

\* Every action keeps the last level that of the UI's state.
LEMMA LevelStep == IInv /\ [Next]_vars => LastLevel'
<1> SUFFICES ASSUME IInv, [Next]_vars PROVE LastLevel'
  OBVIOUS
<1>0. TypeOK /\ LastLevel
  BY DEF IInv
<1>1. CASE UiUpdateStateString
  <2>1. CASE Ignored(uiLaststate, Head(calls))
    BY <1>0, <1>1, <2>1 DEF LastLevel, UiUpdateStateString
  <2>2. CASE ~Ignored(uiLaststate, Head(calls))
    <3>1. getLevel(Head(calls)) \in Levels
      BY <1>0, <1>1, QueueEnds DEF TypeOK, UiUpdateStateString, Levels
    <3>2. CASE listening
      BY <1>0, <1>1, <2>2, <3>1, <3>2, QueueEnds DEF TypeOK, LastLevel, UiUpdateStateString
    <3>3. CASE ~listening
      BY <1>0, <1>1, <2>2, <3>3 DEF LastLevel, UiUpdateStateString
    <3> QED
      BY <3>2, <3>3
  <2> QED
    BY <2>1, <2>2
<1>2. CASE connectStatus
  <2>1. /\ levels # << >> /\ told' = Head(levels) /\ levels' = Tail(levels)
        /\ uiLaststate' = uiLaststate /\ listening' = listening
    BY <1>2 DEF connectStatus
  <2>2. levels \in Seq(Levels)
    BY <1>0 DEF TypeOK
  <2>3. /\ Tail(levels) = << >> => Head(levels) = levels[Len(levels)]
        /\ Tail(levels) # << >> => Tail(levels)[Len(Tail(levels))] = levels[Len(levels)]
    BY <2>1, <2>2, QueueTail
  <2>4. levels[Len(levels)] = getLevel(uiLaststate) /\ listening
    BY <1>0, <2>1, Zenon DEF LastLevel
  <2>5. levels' # << >> => levels'[Len(levels')] = getLevel(uiLaststate')
    BY <2>1, <2>3, <2>4
  <2>6. levels' = << >> => told' = getLevel(uiLaststate')
    BY <2>1, <2>3, <2>4
  <2> QED
    BY <2>1, <2>4, <2>5, <2>6 DEF LastLevel
<1>3. CASE UiDies
  BY <1>3 DEF LastLevel, UiDies
<1>4. CASE initConnectListener
  BY <1>0, <1>4 DEF LastLevel, initConnectListener
<1>5. CASE UNCHANGED ui
  BY <1>0, <1>5 DEF LastLevel, ui
<1> QED
  BY <1>1, <1>2, <1>3, <1>4, <1>5
  DEF Next, vars, ui, updateStateString, handleMessage, ReadLogCache, onCreate, ServiceDies,
      SendLastUpdate, RegisterCallback, LogReceived, UiStarts

\* The strengthening is an invariant.
LEMMA Invariant == Spec => []IInv
<1>1. IInv /\ [Next]_vars => IInv'
  BY TypeStep, ServiceStep, CallStep, LevelStep DEF IInv
<1> QED
  BY <1>1, InitEstablishes, PTL DEF Spec

\* The types of the relay; a dead service has no posts and no callback, and
\* the UI only waits for a registration that is under way.
THEOREM TypeCorrect == Spec => []TypeOK
<1>1. IInv => TypeOK
  BY DEF IInv
<1> QED
  BY <1>1, Invariant, PTL

\* When every update is through, the UI has the state of the VPN and
\* MainActivity its level, unless an update came between the two halves of
\* registerStatusCallback: for every set of states and every bound.
THEOREM QuietIsUpToDate == Spec => []UpToDate
<1>1. IInv => UpToDate
  BY DEF IInv, LastCall, LastLevel, UpToDate
<1> QED
  BY <1>1, Invariant, PTL
=============================================================================
