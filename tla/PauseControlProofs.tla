------------------------- MODULE PauseControlProofs -------------------------
(***************************************************************************)
(* Invariance proofs about PauseControl, for every set of networks and of  *)
(* binder threads, every preference and every bound.                       *)
(***************************************************************************)
EXTENDS PauseControl, TLAPS

-----------------------------------------------------------------------------
(* Queues of lines and commands.                                           *)

\* What is in a queue after a write.
LEMMA OccursAppend ==
  ASSUME NEW S, NEW q \in Seq(S), NEW e \in S, NEW x
  PROVE  Occurs(x, Append(q, e)) <=> Occurs(x, q) \/ x = e
  BY DEF Occurs

\* What is in a queue after a read.
LEMMA OccursTail ==
  ASSUME NEW S, NEW q \in Seq(S), q # <<>>, NEW x, Head(q) # x, Occurs(x, q)
  PROVE  Occurs(x, Tail(q))
  BY DEF Occurs

\* The last line stays the last when an earlier one is read.
LEMMA LastTail ==
  ASSUME NEW S, NEW q \in Seq(S), q # <<>>, Tail(q) # <<>>
  PROVE  Tail(q)[Len(Tail(q))] = q[Len(q)]
<1>1. Len(q) \in Nat /\ Len(Tail(q)) = Len(q) - 1 /\ Tail(q) \in Seq(S) /\ Len(q) > 0
  OBVIOUS
<1>2. Len(Tail(q)) > 0
  BY <1>1
<1> QED
  BY <1>1, <1>2

\* A queue whose head is not its last line does not end there.
LEMMA HeadNotLast ==
  ASSUME NEW S, NEW q \in Seq(S), q # <<>>, Head(q) # q[Len(q)]
  PROVE  Tail(q) # <<>>
<1>1. Len(q) \in Nat /\ Len(q) # 0
  OBVIOUS
<1>2. Len(Tail(q)) = Len(q) - 1
  OBVIOUS
<1>3. Head(q) = q[1]
  OBVIOUS
<1>4. Len(q) # 1
  BY <1>3
<1>5. Len(Tail(q)) # 0
  BY <1>1, <1>2, <1>4
<1>6. Len(<<>>) = 0
  OBVIOUS
<1> QED
  BY <1>5, <1>6

-----------------------------------------------------------------------------
(* Type correctness.                                                       *)

\* Where the thread t may be.
Where(t) == IF t = "mgmt" THEN {"idle", "pause", "testPause", "usr1"} \cup MgmtPc
            ELSE IF t = "main" THEN Pc \ MgmtPc
            ELSE IF Orderly THEN {"idle"} ELSE Pc \ (MainPc \cup MgmtPc)

\* The three kinds of threads.
LEMMA Kinds ==
  /\ Threads = {"main", "mgmt"} \cup BinderThreads
  /\ \A t \in BinderThreads : t # "main" /\ t # "mgmt"
  /\ "idle" \in Pc \ (MainPc \cup MgmtPc)
  /\ {"idle", "pause", "testPause", "usr1"} \cup MgmtPc \subseteq Pc
<1>1. Threads = {"main", "mgmt"} \cup BinderThreads
  BY DEF Threads, Callers
<1>2. \A t \in BinderThreads : t # "main" /\ t # "mgmt"
  BY ThreadsAssumption
<1>3. "idle" \in Pc \ (MainPc \cup MgmtPc)
  BY DEF Pc, MainPc, MgmtPc
<1>4. {"idle", "pause", "testPause", "usr1"} \cup MgmtPc \subseteq Pc
  BY DEF Pc, MgmtPc, Operation
<1> QED
  BY <1>1, <1>2, <1>3, <1>4

\* A thread that goes where it may be keeps the threads well typed.
LEMMA GoesWhereItMay ==
  ASSUME ThreadsTypeOK, NEW t \in Threads, NEW w \in Pc, w \in Where(t), Goto(t, w),
         connected' \in [Callers -> BOOLEAN]
  PROVE  ThreadsTypeOK'
<1>1. pc' \in [Threads -> Pc] /\ pc'[t] = w /\ \A u \in Threads \ {t} : pc'[u] = pc[u]
  BY DEF Goto, ThreadsTypeOK
<1>2. pc'["mgmt"] \in {"idle", "pause", "testPause", "usr1"} \cup MgmtPc
  BY <1>1, Kinds DEF Where, ThreadsTypeOK
<1>3. pc'["main"] \notin MgmtPc
  BY <1>1, Kinds DEF Where, ThreadsTypeOK
<1>4. \A u \in BinderThreads : pc'[u] \notin MainPc \cup MgmtPc
  BY <1>1, Kinds DEF Where, ThreadsTypeOK
<1>5. Orderly => \A u \in BinderThreads : pc'[u] = "idle"
  BY <1>1, Kinds DEF Where, ThreadsTypeOK
<1> QED
  BY <1>1, <1>2, <1>3, <1>4, <1>5 DEF ThreadsTypeOK

\* A thread is where it may be.
LEMMA IsWhereItMay ==
  ASSUME ThreadsTypeOK, NEW t \in Threads
  PROVE  pc[t] \in Pc /\ pc[t] \in Where(t)
  BY Kinds DEF ThreadsTypeOK, Where

\* A write or a read keeps the commands well typed.
LEMMA CommandsTyped ==
  ASSUME cmds \in Seq(Command), NEW t, NEW c \in Command, managmentCommand(t, c)
  PROVE  cmds' \in Seq(Command)
  BY DEF managmentCommand

\* The operations of OpenVPNManagement, on any thread, keep the types.
LEMMA OperationTyped ==
  ASSUME TypeOK, NEW t \in Threads, OpenVPNManagement(t)
  PROVE  TypeOK'
<1>0. /\ ThreadsTypeOK /\ ManagementTypeOK
      /\ pc[t] \in Where(t)
      /\ cmds \in Seq(Command)
  BY IsWhereItMay DEF TypeOK, ManagementTypeOK
<1>1. Rest
  BY DEF OpenVPNManagement, Pause, TestPause, WriteUsr1, ReleaseHold, NetworkChange,
         WriteNetworkChange, ReleaseHoldCmd, ClearFlag, WriteRelease
<1>2. ReceiverTypeOK' /\ screenOn' \in BOOLEAN
  BY <1>1 DEF Rest, receiverVars, states, TypeOK, ReceiverTypeOK
<1>3. cmds' \in Seq(Command)
  <2>1. Command = {"release", "usr1", "networkChange", "sameNetwork"}
    BY DEF Command
  <2>2. CASE WriteUsr1(t) \/ WriteNetworkChange(t) \/ WriteRelease(t)
    <3>1. \/ managmentCommand(t, "usr1") \/ managmentCommand(t, "networkChange")
          \/ managmentCommand(t, "sameNetwork") \/ managmentCommand(t, "release")
      BY <2>2 DEF WriteUsr1, WriteNetworkChange, WriteRelease
    <3> QED
      BY <1>0, <2>1, <3>1, CommandsTyped
  <2>3. CASE \/ Pause(t) \/ TestPause(t) \/ ReleaseHold(t) \/ NetworkChange(t)
             \/ ReleaseHoldCmd(t) \/ ClearFlag(t)
    <3>1. Pause(t) => UNCHANGED cmds
      BY DEF Pause
    <3>2. TestPause(t) \/ ReleaseHold(t) => UNCHANGED cmds
      BY DEF TestPause, ReleaseHold
    <3>3. NetworkChange(t) => UNCHANGED cmds
      BY DEF NetworkChange
    <3>4. ReleaseHoldCmd(t) \/ ClearFlag(t) => UNCHANGED cmds
      BY DEF ReleaseHoldCmd, ClearFlag
    <3>5. UNCHANGED cmds
      BY <2>3, <3>1, <3>2, <3>3, <3>4
    <3> QED
      BY <1>0, <3>5
  <2> QED
    BY <2>2, <2>3 DEF OpenVPNManagement
<1>4. ManagementTypeOK'
  <2>1. waiting' = waiting \/ waiting' = FALSE
    BY DEF OpenVPNManagement, Pause, TestPause, WriteUsr1, ReleaseHold, NetworkChange,
           WriteNetworkChange, ReleaseHoldCmd, ClearFlag, WriteRelease, mgmtVars
  <2>2. resumePosts' = resumePosts \/ resumePosts' = 0
    BY DEF OpenVPNManagement, Pause, TestPause, WriteUsr1, ReleaseHold, NetworkChange,
           WriteNetworkChange, ReleaseHoldCmd, ClearFlag, WriteRelease, mgmtVars
  <2>3. waiting' \in BOOLEAN
    BY <1>0, <2>1 DEF ManagementTypeOK
  <2>4. resumePosts' \in Nat
    BY <1>0, <2>2 DEF ManagementTypeOK
  <2> QED
    BY <1>0, <1>1, <1>3, <2>3, <2>4 DEF Rest, ManagementTypeOK
<1>5. ThreadsTypeOK'
  <2>1. PICK w \in {"idle"} \cup Operation :
          /\ Goto(t, w)
          /\ pc[t] \in Operation
          /\ pc[t] \in {"pause", "testPause", "usr1"} => w \in {"idle", "testPause", "usr1"}
    BY DEF OpenVPNManagement, Pause, TestPause, WriteUsr1, ReleaseHold, NetworkChange,
           WriteNetworkChange, ReleaseHoldCmd, ClearFlag, WriteRelease, At, Operation
  <2>2. w \in Pc /\ w \in Where(t)
    BY <1>0, <2>1 DEF Where, Pc, Operation, MgmtPc, MainPc
  <2>3. connected' \in [Callers -> BOOLEAN]
    BY <1>0, <1>1 DEF Rest, ThreadsTypeOK
  <2> QED
    BY <1>0, <2>1, <2>2, <2>3, GoesWhereItMay
<1> QED
  BY <1>2, <1>4, <1>5 DEF TypeOK

\* userPause, on any caller, keeps them.
LEMMA userPauseTyped ==
  ASSUME TypeOK, NEW t \in Callers, userPause(t)
  PROVE  TypeOK'
<1>0. ThreadsTypeOK /\ ManagementTypeOK /\ ReceiverTypeOK /\ t \in Threads /\ t # "mgmt"
  BY ThreadsAssumption DEF TypeOK, Threads, Callers
<1>1. ReceiverTypeOK' /\ screenOn' \in BOOLEAN
  BY <1>0 DEF userPause, UserPause, UserResume, SetUserpause, UserpauseSet, ReceiverTypeOK,
              receiverVars, states, connectState, TypeOK
<1>2. ManagementTypeOK'
  BY <1>0 DEF userPause, UserPause, UserResume, SetUserpause, UserpauseSet, ManagementTypeOK,
              mgmtVars
<1>3. connected' \in [Callers -> BOOLEAN]
  <2>1. shouldBeConnected \in BOOLEAN
    BY DEF shouldBeConnected
  <2> QED
    BY <1>0, <2>1 DEF userPause, UserPause, UserResume, SetUserpause, UserpauseSet,
                      ThreadsTypeOK
<1>4. PICK w \in {"pause", "releaseHold"} \cup CallerPc : Goto(t, w)
  BY DEF userPause, UserPause, UserResume, SetUserpause, UserpauseSet, CallerPc
<1>5. t = "main" \/ ~Orderly
  <2>1. pc[t] = "idle" => t = "main" \/ ~Orderly \/ ~MayCall(t)
    BY DEF MayCall
  <2>2. pc[t] # "idle" => t = "main" \/ ~Orderly
    BY <1>0 DEF ThreadsTypeOK, Callers
  <2> QED
    BY <2>1, <2>2 DEF userPause, UserPause, UserResume, SetUserpause, UserpauseSet, At
<1>6. w \in Pc /\ w \in Where(t)
  BY <1>0, <1>5 DEF Where, Pc, Operation, CallerPc, MainPc, MgmtPc
<1> QED
  BY <1>0, <1>1, <1>2, <1>3, <1>4, <1>6, GoesWhereItMay DEF TypeOK

\* networkStateChange, on the main thread, keeps them.
LEMMA networkStateChangeTyped ==
  ASSUME TypeOK, registered' \in BOOLEAN, networkStateChange
  PROVE  TypeOK'
<1>0. ThreadsTypeOK /\ ManagementTypeOK /\ ReceiverTypeOK /\ "main" \in Threads
  BY DEF TypeOK, Threads, Callers
<1>1. PICK info \in Info :
        NetworkConnected(info) \/ NetworkGone(info) \/ NetworkUnsettled(info)
  BY DEF networkStateChange
<1>2. UNCHANGED <<userpause, waiting, resumePosts, cmds, lines, ovpn, connected, screenOn>>
  BY DEF networkStateChange, MainRest, mgmtVars
<1>3. ManagementTypeOK' /\ screenOn' \in BOOLEAN
  BY <1>0, <1>2 DEF ManagementTypeOK, TypeOK
<1>4. ReceiverTypeOK'
  BY <1>0, <1>1, <1>2 DEF NetworkConnected, NetworkGone, NetworkUnsettled, ReceiverTypeOK,
                          connectState
<1>5. UNCHANGED pc \/ \E w \in {"same", "askResume", "askChange"} : Goto("main", w)
  BY <1>1 DEF NetworkConnected, NetworkGone, NetworkUnsettled
<1>6. ThreadsTypeOK'
  <2>1. CASE UNCHANGED pc
    BY <1>0, <1>2, <2>1 DEF ThreadsTypeOK
  <2>2. ASSUME NEW w \in {"same", "askResume", "askChange"}, Goto("main", w)
        PROVE  ThreadsTypeOK'
    <3>1. w \in Pc /\ w \in Where("main")
      BY DEF Where, Pc, Operation, MainPc, MgmtPc
    <3>2. connected' \in [Callers -> BOOLEAN]
      BY <1>0, <1>2 DEF ThreadsTypeOK
    <3> QED
      BY <1>0, <2>2, <3>1, <3>2, GoesWhereItMay
  <2> QED
    BY <1>5, <2>1, <2>2
<1> QED
  BY <1>3, <1>4, <1>6 DEF TypeOK

\* The other handlers of the main thread keep them.
LEMMA HandlersTyped ==
  ASSUME TypeOK,
         \/ AskNetwork \/ DelayDisconnect \/ ScreenOff \/ ScreenPending \/ ScreenOn
         \/ SetScreen \/ ScreenSet \/ ResumeHold \/ AskHold
  PROVE  TypeOK'
<1>0. ThreadsTypeOK /\ ManagementTypeOK /\ ReceiverTypeOK /\ "main" \in Threads
  BY DEF TypeOK, Threads, Callers
<1>1. UNCHANGED <<registered, userpause, lastConnectedNetwork, waiting, cmds, lines, ovpn>>
  BY DEF AskNetwork, DelayDisconnect, ScreenOff, ScreenPending, ScreenOn, SetScreen, ScreenSet,
         ResumeHold, AskHold, MainRest, ScreenRest, Rest, mgmtVars, receiverVars, states
<1>2. resumePosts' \in Nat
  <2>1. CASE ResumeHold
    BY <1>0, <2>1 DEF ResumeHold, ManagementTypeOK
  <2>2. CASE ~ResumeHold
    <3>1. UNCHANGED resumePosts
      BY <2>2 DEF AskNetwork, DelayDisconnect, ScreenOff, ScreenPending, ScreenOn, SetScreen,
                  ScreenSet, AskHold, MainRest, mgmtVars
    <3> QED
      BY <1>0, <3>1 DEF ManagementTypeOK
  <2> QED
    BY <2>1, <2>2
<1>3. network' \in connectState /\ screen' \in connectState
  BY <1>0 DEF AskNetwork, DelayDisconnect, ScreenOff, ScreenPending, ScreenOn, SetScreen,
              ScreenSet, ResumeHold, AskHold, ScreenRest, Rest, receiverVars, states,
              ReceiverTypeOK, connectState
<1>4. delayPosts' \in Nat
  <2>1. CASE DelayDisconnect
    BY <1>0, <2>1 DEF DelayDisconnect, ReceiverTypeOK
  <2>2. CASE ~DelayDisconnect
    <3>1. delayPosts' = delayPosts \/ delayPosts' = 0
      BY <2>2 DEF AskNetwork, ScreenOff, ScreenPending, ScreenOn, SetScreen, ScreenSet,
                  ResumeHold, AskHold, Rest, receiverVars
    <3> QED
      BY <1>0, <3>1 DEF ReceiverTypeOK
  <2> QED
    BY <2>1, <2>2
<1>5. screenOn' \in BOOLEAN
  BY DEF TypeOK, AskNetwork, DelayDisconnect, ScreenOff, ScreenPending, ScreenOn, SetScreen,
         ScreenSet, ResumeHold, AskHold, Rest
<1>6. connected' \in [Callers -> BOOLEAN]
  <2>1. shouldBeConnected \in BOOLEAN
    BY DEF shouldBeConnected
  <2>2. \/ UNCHANGED connected
        \/ \E b \in BOOLEAN : connected' = [connected EXCEPT !["main"] = b]
    BY <2>1 DEF AskNetwork, DelayDisconnect, ScreenOff, ScreenPending, ScreenOn, SetScreen,
                ScreenSet, ResumeHold, AskHold, Rest
  <2> QED
    BY <1>0, <2>2 DEF ThreadsTypeOK
<1>7. \/ UNCHANGED pc
      \/ \E w \in {"idle", "pause", "releaseHold", "change", "release"} \cup MainPc : Goto("main", w)
  BY DEF AskNetwork, DelayDisconnect, ScreenOff, ScreenPending, ScreenOn, SetScreen, ScreenSet,
         ResumeHold, AskHold, MainPc
<1>8. ThreadsTypeOK'
  <2>1. CASE UNCHANGED pc
    BY <1>0, <1>6, <2>1 DEF ThreadsTypeOK
  <2>2. ASSUME NEW w \in {"idle", "pause", "releaseHold", "change", "release"} \cup MainPc,
               Goto("main", w)
        PROVE  ThreadsTypeOK'
    <3>1. w \in Pc /\ w \in Where("main")
      BY DEF Where, Pc, Operation, MainPc, MgmtPc
    <3> QED
      BY <1>0, <1>6, <2>2, <3>1, GoesWhereItMay
  <2> QED
    BY <1>7, <2>1, <2>2
<1>9. ManagementTypeOK'
  BY <1>0, <1>1, <1>2 DEF ManagementTypeOK
<1>10. ReceiverTypeOK'
  BY <1>0, <1>1, <1>3, <1>4 DEF ReceiverTypeOK
<1> QED
  BY <1>5, <1>8, <1>9, <1>10 DEF TypeOK

\* The management thread keeps them.
LEMMA ManagementThreadTyped ==
  ASSUME TypeOK, ManagementThread
  PROVE  TypeOK'
<1>0. ThreadsTypeOK /\ ManagementTypeOK /\ ReceiverTypeOK /\ "mgmt" \in Threads
  BY DEF TypeOK, Threads, Callers
<1>1. MgmtRest
  BY DEF ManagementThread, HandleHold, HandleHoldAsk, HandleHoldPost, updateByteCount, LowTraffic
<1>2. ReceiverTypeOK' /\ screenOn' \in BOOLEAN
  BY <1>0, <1>1 DEF ManagementThread, HandleHold, HandleHoldAsk, HandleHoldPost,
                    updateByteCount, LowTraffic, MgmtRest, ReceiverTypeOK, connectState, TypeOK
<1>3. lines' \in Seq(Line)
  <2>1. lines' = lines \/ (lines # <<>> /\ lines' = Tail(lines))
    BY DEF ManagementThread, HandleHold, HandleHoldAsk, HandleHoldPost, updateByteCount,
           LowTraffic, ReadLine
  <2> QED
    BY <1>0, <2>1 DEF ManagementTypeOK
<1>4. waiting' \in BOOLEAN
  <2>1. waiting' = waiting \/ waiting' = TRUE
    BY DEF ManagementThread, HandleHold, HandleHoldAsk, HandleHoldPost, updateByteCount,
           LowTraffic, mgmtVars
  <2> QED
    BY <1>0, <2>1 DEF ManagementTypeOK
<1>5. resumePosts' \in Nat
  <2>1. resumePosts' = resumePosts \/ resumePosts' = resumePosts + 1
    BY DEF ManagementThread, HandleHold, HandleHoldAsk, HandleHoldPost, updateByteCount,
           LowTraffic, mgmtVars
  <2> QED
    BY <1>0, <2>1 DEF ManagementTypeOK
<1>6. ManagementTypeOK'
  BY <1>0, <1>1, <1>3, <1>4, <1>5 DEF MgmtRest, ManagementTypeOK
<1>7. connected' \in [Callers -> BOOLEAN]
  BY <1>0, <1>1 DEF MgmtRest, ThreadsTypeOK
<1>8. UNCHANGED pc \/ \E w \in {"idle", "pause"} \cup MgmtPc : Goto("mgmt", w)
  BY DEF ManagementThread, HandleHold, HandleHoldAsk, HandleHoldPost, updateByteCount,
         LowTraffic, MgmtPc
<1>9. ThreadsTypeOK'
  <2>1. CASE UNCHANGED pc
    BY <1>0, <1>7, <2>1 DEF ThreadsTypeOK
  <2>2. ASSUME NEW w \in {"idle", "pause"} \cup MgmtPc, Goto("mgmt", w)
        PROVE  ThreadsTypeOK'
    <3>1. w \in Pc /\ w \in Where("mgmt")
      BY Kinds DEF Where
    <3> QED
      BY <1>0, <1>7, <2>2, <3>1, GoesWhereItMay
  <2> QED
    BY <1>8, <2>1, <2>2
<1> QED
  BY <1>2, <1>6, <1>9 DEF TypeOK

\* The process keeps them.
LEMMA OvpnProcessTyped ==
  ASSUME TypeOK, OvpnProcess
  PROVE  TypeOK'
<1>0. ThreadsTypeOK /\ ManagementTypeOK /\ ReceiverTypeOK
  BY DEF TypeOK
<1>1. OvpnRest
  BY DEF OvpnProcess, OvpnUsr1, OvpnRelease, OvpnNetworkChange, OvpnRestart, OvpnByteCount
<1>2. cmds' \in Seq(Command)
  <2>1. cmds' = cmds \/ (cmds # <<>> /\ cmds' = Tail(cmds))
    BY DEF OvpnProcess, OvpnUsr1, OvpnRelease, OvpnNetworkChange, OvpnRestart, OvpnByteCount,
           ReadCommand
  <2> QED
    BY <1>0, <2>1 DEF ManagementTypeOK
<1>3. lines' \in Seq(Line)
  <2>1. lines' = lines \/ \E l \in Line : lines' = Append(lines, l)
    BY DEF OvpnProcess, OvpnUsr1, OvpnRelease, OvpnNetworkChange, OvpnRestart, OvpnByteCount,
           EnterHold, Line
  <2> QED
    BY <1>0, <2>1 DEF ManagementTypeOK
<1>4. ovpn' \in {"hold", "run"}
  BY <1>0 DEF OvpnProcess, OvpnUsr1, OvpnRelease, OvpnNetworkChange, OvpnRestart, OvpnByteCount,
              EnterHold, ManagementTypeOK
<1>5. ManagementTypeOK'
  BY <1>0, <1>1, <1>2, <1>3, <1>4 DEF OvpnRest, mgmtVars, ManagementTypeOK
<1>6. ReceiverTypeOK' /\ ThreadsTypeOK' /\ screenOn' \in BOOLEAN
  BY <1>0, <1>1 DEF OvpnRest, receiverVars, states, ReceiverTypeOK, ThreadsTypeOK, TypeOK
<1> QED
  BY <1>5, <1>6 DEF TypeOK

\* The type invariant holds in every reachable state of the pause control.
THEOREM TypeCorrect == Spec => []TypeOK
<1>1. Init => TypeOK
  <2> SUFFICES ASSUME Init PROVE TypeOK
    OBVIOUS
  <2>1. lines \in Seq(Line) /\ cmds \in Seq(Command)
    BY DEF Init, Line
  <2>2. ReceiverTypeOK
    BY DEF Init, ReceiverTypeOK, connectState
  <2>3. ManagementTypeOK
    BY <2>1 DEF Init, ManagementTypeOK
  <2>4. ThreadsTypeOK
    BY Kinds DEF Init, ThreadsTypeOK
  <2> QED
    BY <2>2, <2>3, <2>4 DEF Init, TypeOK
<1>2. TypeOK /\ [Next]_vars => TypeOK'
  <2> SUFFICES ASSUME TypeOK, [Next]_vars PROVE TypeOK'
    OBVIOUS
  <2>1. CASE RegisterReceiver \/ OnConnectivity
    <3>1. registered' \in BOOLEAN /\ networkStateChange
      BY <2>1 DEF RegisterReceiver, OnConnectivity, TypeOK, ReceiverTypeOK
    <3> QED
      BY <3>1, networkStateChangeTyped
  <2>2. CASE MainThread /\ ~RegisterReceiver /\ ~OnConnectivity
    BY <2>2, HandlersTyped DEF MainThread
  <2>3. CASE ManagementThread
    BY <2>3, ManagementThreadTyped
  <2>4. CASE \E t \in Callers : userPause(t)
    BY <2>4, userPauseTyped
  <2>5. CASE \E t \in Threads : OpenVPNManagement(t)
    BY <2>5, OperationTyped
  <2>6. CASE OvpnProcess
    BY <2>6, OvpnProcessTyped
  <2>7. CASE UNCHANGED vars
    BY <2>7 DEF vars, receiverVars, states, mgmtVars, TypeOK, ReceiverTypeOK, ManagementTypeOK,
                ThreadsTypeOK
  <2> QED
    BY <2>1, <2>2, <2>3, <2>4, <2>5, <2>6, <2>7 DEF Next, MainThread
<1> QED
  BY <1>1, <1>2, PTL DEF Spec

-----------------------------------------------------------------------------
(* A process in hold can be released: for every schedule.                  *)

\* Whatever is written, a release that is under way stays so.
LEMMA ReleaseStays ==
  ASSUME cmds \in Seq(Command),
         UNCHANGED cmds \/ \E t \in Threads, c \in Command : managmentCommand(t, c)
  PROVE  Occurs("release", cmds) => Occurs("release", cmds')
<1>1. CASE UNCHANGED cmds
  BY <1>1
<1>2. ASSUME NEW t \in Threads, NEW c \in Command, managmentCommand(t, c)
      PROVE  Occurs("release", cmds) => Occurs("release", cmds')
  BY <1>2, OccursAppend DEF managmentCommand
<1> QED
  BY <1>1, <1>2

\* An operation of OpenVPNManagement loses no release that is under way.
LEMMA OperationKeepsRelease ==
  ASSUME TypeOK, NEW t \in Threads, OpenVPNManagement(t)
  PROVE  Occurs("release", cmds) => Occurs("release", cmds')
<1>1. CASE WriteUsr1(t) \/ WriteNetworkChange(t) \/ WriteRelease(t)
  <2>1. Command = {"release", "usr1", "networkChange", "sameNetwork"}
    BY DEF Command
  <2>2. \E c \in Command : managmentCommand(t, c)
    BY <1>1, <2>1 DEF WriteUsr1, WriteNetworkChange, WriteRelease
  <2> QED
    BY <2>2, ReleaseStays DEF TypeOK, ManagementTypeOK
<1>2. CASE \/ Pause(t) \/ TestPause(t) \/ ReleaseHold(t) \/ NetworkChange(t)
           \/ ReleaseHoldCmd(t) \/ ClearFlag(t)
  <2>1. UNCHANGED cmds
    BY <1>2 DEF Pause, TestPause, ReleaseHold, NetworkChange, ReleaseHoldCmd, ClearFlag
  <2> QED
    BY <2>1
<1> QED
  BY <1>1, <1>2 DEF OpenVPNManagement

\* A thread that has cleared the flag writes the release.
LEMMA OperationKnown ==
  ASSUME TypeOK, HoldIsKnown, NEW t \in Threads, OpenVPNManagement(t)
  PROVE  HoldIsKnown'
<1>0. pc \in [Threads -> Pc] /\ cmds \in Seq(Command)
  BY DEF TypeOK, ThreadsTypeOK, ManagementTypeOK
<1>1. UNCHANGED <<lines, ovpn>>
  BY DEF OpenVPNManagement, Pause, TestPause, WriteUsr1, ReleaseHold, NetworkChange,
         WriteNetworkChange, ReleaseHoldCmd, ClearFlag, WriteRelease, Rest
<1>2. Occurs("release", cmds) => Occurs("release", cmds')
  BY OperationKeepsRelease
<1>3. CASE ClearFlag(t)
  <2>1. pc'[t] = "writeRelease"
    BY <1>0, <1>3 DEF ClearFlag, Goto
  <2> QED
    BY <2>1 DEF HoldIsKnown
<1>4. CASE WriteRelease(t)
  <2>1. "release" \in Command /\ cmds' = Append(cmds, "release")
    BY <1>4 DEF WriteRelease, managmentCommand, Command
  <2>2. Occurs("release", cmds')
    BY <1>0, <2>1, OccursAppend
  <2> QED
    BY <2>2 DEF HoldIsKnown
<1>5. CASE ~ClearFlag(t) /\ ~WriteRelease(t)
  <2>1. UNCHANGED waiting
    BY <1>5 DEF OpenVPNManagement, Pause, TestPause, WriteUsr1, ReleaseHold, NetworkChange,
                WriteNetworkChange, ReleaseHoldCmd, mgmtVars
  <2>2. pc[t] # "writeRelease"
    BY <1>5 DEF OpenVPNManagement, Pause, TestPause, WriteUsr1, ReleaseHold, NetworkChange,
                WriteNetworkChange, ReleaseHoldCmd, At
  <2>3. \A u \in Threads \ {t} : pc'[u] = pc[u]
    BY <1>0, <1>5 DEF OpenVPNManagement, Pause, TestPause, WriteUsr1, ReleaseHold,
                      NetworkChange, WriteNetworkChange, ReleaseHoldCmd, Goto
  <2> QED
    BY <1>1, <1>2, <2>1, <2>2, <2>3 DEF HoldIsKnown, Occurs
<1> QED
  BY <1>3, <1>4, <1>5

\* The handlers touch neither the flag nor the process, nor a thread about to
\* write its release.
LEMMA HandlersKnown ==
  ASSUME TypeOK, HoldIsKnown,
         UNCHANGED <<waiting, cmds, lines, ovpn>>,
         NEW t \in Threads, pc[t] # "writeRelease",
         UNCHANGED pc \/ \E w : Goto(t, w)
  PROVE  HoldIsKnown'
<1>1. \A u \in Threads \ {t} : pc'[u] = pc[u]
  BY DEF TypeOK, ThreadsTypeOK, Goto
<1> QED
  BY <1>1 DEF HoldIsKnown, Occurs

\* MainThread moves the main thread only, and writes no line.
LEMMA MainThreadMoves ==
  ASSUME MainThread
  PROVE  /\ UNCHANGED <<userpause, waiting, cmds, lines, ovpn>>
         /\ UNCHANGED pc \/ \E w : Goto("main", w)
<1>1. networkStateChange => UNCHANGED pc \/ \E w : Goto("main", w)
  BY DEF networkStateChange, NetworkConnected, NetworkGone, NetworkUnsettled
<1>2. UNCHANGED pc \/ \E w : Goto("main", w)
  BY <1>1 DEF MainThread, RegisterReceiver, OnConnectivity, AskNetwork, DelayDisconnect,
              ScreenOff, ScreenPending, ScreenOn, SetScreen, ScreenSet, ResumeHold, AskHold
<1>3. UNCHANGED <<userpause, waiting, cmds, lines, ovpn>>
  BY DEF MainThread, RegisterReceiver, OnConnectivity, networkStateChange, AskNetwork,
         DelayDisconnect, ScreenOff, ScreenPending, ScreenOn, SetScreen, ScreenSet,
         ResumeHold, AskHold, MainRest, Rest, mgmtVars, receiverVars, states
<1> QED
  BY <1>2, <1>3

\* So does userPause on a caller.
LEMMA userPauseMoves ==
  ASSUME NEW t \in Callers, userPause(t)
  PROVE  /\ UNCHANGED <<network, screen, screenOn, waiting, resumePosts, cmds, lines, ovpn>>
         /\ \E w : Goto(t, w)
  BY DEF userPause, UserPause, UserResume, SetUserpause, UserpauseSet, mgmtVars, receiverVars,
         states

\* So none of the main thread's handlers forgets a hold.
LEMMA MainThreadKnown ==
  ASSUME TypeOK, HoldIsKnown, MainThread
  PROVE  HoldIsKnown'
<1>1. pc["main"] # "writeRelease"
  BY DEF MainThread, RegisterReceiver, OnConnectivity, AskNetwork, DelayDisconnect, ScreenOff,
         ScreenPending, ScreenOn, SetScreen, ScreenSet, ResumeHold, AskHold, MainIdle, At
<1> QED
  BY <1>1, MainThreadMoves, HandlersKnown DEF Threads, Callers

\* A process in hold is known to be, whatever threads pause, resume and release.
LEMMA HoldKnown == Spec => []HoldIsKnown
<1>1. Init => HoldIsKnown
  BY DEF Init, HoldIsKnown, Occurs
<1>2. TypeOK /\ HoldIsKnown /\ [Next]_vars => HoldIsKnown'
  <2> SUFFICES ASSUME TypeOK, HoldIsKnown, [Next]_vars PROVE HoldIsKnown'
    OBVIOUS
  <2>0. /\ lines \in Seq(Line) /\ cmds \in Seq(Command)
        /\ pc \in [Threads -> Pc] /\ "mgmt" \in Threads
    BY DEF TypeOK, ManagementTypeOK, ThreadsTypeOK, Threads, Callers
  <2>1. CASE MainThread
    BY <2>1, MainThreadKnown
  <2>2. CASE HandleHold
    BY <2>2 DEF HandleHold, HoldIsKnown
  <2>3. CASE HandleHoldAsk \/ HandleHoldPost \/ updateByteCount \/ LowTraffic
    <3>1. UNCHANGED <<waiting, cmds, ovpn>>
      BY <2>3 DEF HandleHoldAsk, HandleHoldPost, updateByteCount, LowTraffic, MgmtRest, mgmtVars
    <3>2. pc["mgmt"] # "writeRelease" /\ (UNCHANGED pc \/ \E w : Goto("mgmt", w))
      BY <2>3 DEF HandleHoldAsk, HandleHoldPost, updateByteCount, LowTraffic, ReadLine, At
    <3>3. UNCHANGED lines \/ (lines # <<>> /\ Head(lines) # "HOLD" /\ lines' = Tail(lines))
      BY <2>3 DEF HandleHoldAsk, HandleHoldPost, updateByteCount, LowTraffic, ReadLine
    <3>4. Occurs("HOLD", lines) => Occurs("HOLD", lines')
      BY <2>0, <3>3, OccursTail
    <3>5. \A u \in Threads \ {"mgmt"} : pc'[u] = pc[u]
      BY <2>0, <3>2 DEF Goto
    <3> QED
      BY <3>1, <3>2, <3>4, <3>5 DEF HoldIsKnown, Occurs
  <2>4. ASSUME NEW t \in Callers, userPause(t)
        PROVE  HoldIsKnown'
    <3>1. UNCHANGED <<waiting, cmds, lines, ovpn>>
      BY <2>4 DEF userPause, UserPause, UserResume, SetUserpause, UserpauseSet, mgmtVars
    <3>2. pc[t] # "writeRelease" /\ \E w : Goto(t, w)
      BY <2>4 DEF userPause, UserPause, UserResume, SetUserpause, UserpauseSet, MayCall, At
    <3> QED
      BY <3>1, <3>2, HandlersKnown DEF Threads
  <2>5. CASE \E t \in Threads : OpenVPNManagement(t)
    BY <2>5, OperationKnown
  <2>6. CASE OvpnUsr1 \/ OvpnRestart
    <3>1. "HOLD" \in Line /\ lines' = Append(lines, "HOLD")
      BY <2>6 DEF OvpnUsr1, OvpnRestart, EnterHold, Line
    <3>2. Occurs("HOLD", lines')
      BY <2>0, <3>1, OccursAppend
    <3> QED
      BY <3>2 DEF HoldIsKnown
  <2>7. CASE OvpnRelease \/ OvpnByteCount
    BY <2>7 DEF OvpnRelease, OvpnByteCount, HoldIsKnown
  <2>8. CASE OvpnNetworkChange
    <3>1. CASE EnterHold
      <4>1. "HOLD" \in Line /\ lines' = Append(lines, "HOLD")
        BY <3>1 DEF EnterHold, Line
      <4>2. Occurs("HOLD", lines')
        BY <2>0, <4>1, OccursAppend
      <4> QED
        BY <4>2 DEF HoldIsKnown
    <3>2. CASE UNCHANGED <<ovpn, lines>>
      <4>1. cmds # <<>> /\ Head(cmds) # "release" /\ cmds' = Tail(cmds)
        BY <2>8 DEF OvpnNetworkChange, ReadCommand
      <4>2. Occurs("release", cmds) => Occurs("release", cmds')
        BY <2>0, <4>1, OccursTail
      <4>3. UNCHANGED <<waiting, pc>>
        BY <2>8 DEF OvpnNetworkChange, OvpnRest, mgmtVars
      <4> QED
        BY <3>2, <4>2, <4>3 DEF HoldIsKnown, Occurs
    <3> QED
      BY <2>8, <3>1, <3>2 DEF OvpnNetworkChange
  <2>9. CASE UNCHANGED vars
    BY <2>9 DEF vars, mgmtVars, HoldIsKnown, Occurs
  <2> QED
    BY <2>1, <2>2, <2>3, <2>4, <2>5, <2>6, <2>7, <2>8, <2>9
       DEF Next, ManagementThread, OvpnProcess
<1> QED
  BY <1>1, <1>2, TypeCorrect, PTL DEF Spec

\* Once everything written has been read, the flag of a process in hold is set, so
\* the next resume() or networkChange() releases it: for any number of threads
\* that call userPause at any time.
THEOREM HoldEndable == Spec => []HoldCanBeEnded
<1>1. TypeOK /\ HoldIsKnown => HoldCanBeEnded
  BY DEF HoldIsKnown, HoldCanBeEnded, Quiet, Occurs
<1> QED
  BY <1>1, TypeCorrect, HoldKnown, PTL

-----------------------------------------------------------------------------
(* What holds besides, for every schedule: the last line of a process in     *)
(* hold, and what the screen is while threads act for it.                    *)

\* Where an operation may take the management thread.
LEMMA MgmtOperation ==
  ASSUME TypeOK, NEW t \in Threads, OpenVPNManagement(t)
  PROVE  \/ UNCHANGED pc["mgmt"] /\ t # "mgmt"
         \/ /\ t = "mgmt"
            /\ pc["mgmt"] \in {"pause", "testPause", "usr1"}
            /\ pc'["mgmt"] \in {"idle", "testPause", "usr1"}
            /\ UNCHANGED waiting
<1>0. pc \in [Threads -> Pc] /\ "mgmt" \in Threads
  BY DEF TypeOK, ThreadsTypeOK, Threads, Callers
<1>1. \E w : Goto(t, w)
  BY DEF OpenVPNManagement, Pause, TestPause, WriteUsr1, ReleaseHold, NetworkChange,
         WriteNetworkChange, ReleaseHoldCmd, ClearFlag, WriteRelease
<1>2. CASE t # "mgmt"
  BY <1>0, <1>1, <1>2 DEF Goto
<1>3. CASE t = "mgmt"
  <2>1. Pause(t) \/ TestPause(t) \/ WriteUsr1(t)
    BY <1>3 DEF OpenVPNManagement, ReleaseHold, NetworkChange, WriteNetworkChange,
                ReleaseHoldCmd, ClearFlag, WriteRelease, At, TypeOK, ThreadsTypeOK, MgmtPc
  <2> QED
    BY <1>0, <1>3, <2>1 DEF Pause, TestPause, WriteUsr1, At, Goto, mgmtVars
<1> QED
  BY <1>2, <1>3

\* A handler of another thread leaves the management thread where it is.
LEMMA MgmtStays ==
  ASSUME TypeOK, NEW t \in Callers, UNCHANGED pc \/ \E w : Goto(t, w)
  PROVE  pc'["mgmt"] = pc["mgmt"]
  BY ThreadsAssumption DEF TypeOK, ThreadsTypeOK, Threads, Callers, Goto

\* A process in hold has written HOLD last, and what the management thread still
\* does about low traffic comes before it.
LEMMA HoldLast == Spec => []HoldIsLast
<1>1. Init => HoldIsLast
  BY DEF Init, HoldIsLast, LowTrafficPc
<1>2. TypeOK /\ HoldIsLast /\ [Next]_vars => HoldIsLast'
  <2> SUFFICES ASSUME TypeOK, HoldIsLast, [Next]_vars PROVE HoldIsLast'
    OBVIOUS
  <2>0. lines \in Seq(Line) /\ pc \in [Threads -> Pc] /\ "mgmt" \in Threads
    BY DEF TypeOK, ManagementTypeOK, ThreadsTypeOK, Threads, Callers
  <2>1. CASE MainThread
    <3>1. UNCHANGED <<lines, ovpn>> /\ pc'["mgmt"] = pc["mgmt"]
      BY <2>1, MainThreadMoves, MgmtStays DEF Callers
    <3> QED
      BY <3>1 DEF HoldIsLast
  <2>2. ASSUME NEW t \in Callers, userPause(t)
        PROVE  HoldIsLast'
    <3>1. UNCHANGED <<lines, ovpn>> /\ pc'["mgmt"] = pc["mgmt"]
      BY <2>2, userPauseMoves, MgmtStays
    <3> QED
      BY <3>1 DEF HoldIsLast
  <2>3. ASSUME NEW t \in Threads, OpenVPNManagement(t)
        PROVE  HoldIsLast'
    <3>1. UNCHANGED <<lines, ovpn>>
      BY <2>3 DEF OpenVPNManagement, Pause, TestPause, WriteUsr1, ReleaseHold, NetworkChange,
                  WriteNetworkChange, ReleaseHoldCmd, ClearFlag, WriteRelease, Rest
    <3>2. pc'["mgmt"] \in LowTrafficPc => pc["mgmt"] \in LowTrafficPc
      BY <2>3, MgmtOperation DEF LowTrafficPc
    <3> QED
      BY <3>1, <3>2 DEF HoldIsLast
  <2>4. CASE HandleHold
    <3>1. lines # <<>> /\ lines' = Tail(lines) /\ UNCHANGED ovpn /\ pc'["mgmt"] = "holdAsk"
      BY <2>0, <2>4 DEF HandleHold, ReadLine, MgmtRest, Goto
    <3> QED
      BY <2>0, <3>1, LastTail DEF HoldIsLast, LowTrafficPc
  <2>5. CASE updateByteCount
    <3>1. /\ lines # <<>> /\ Head(lines) = "BYTECOUNT" /\ lines' = Tail(lines)
          /\ UNCHANGED ovpn
      BY <2>5 DEF updateByteCount, ReadLine, MgmtRest
    <3>2. ovpn = "hold" => lines' # <<>>
      BY <2>0, <3>1, HeadNotLast DEF HoldIsLast
    <3> QED
      BY <2>0, <3>1, <3>2, LastTail DEF HoldIsLast
  <2>6. CASE HandleHoldAsk \/ HandleHoldPost
    <3>1. UNCHANGED <<lines, ovpn>> /\ pc'["mgmt"] \in {"idle", "holdPost"}
      BY <2>0, <2>6 DEF HandleHoldAsk, HandleHoldPost, MgmtRest, Goto
    <3> QED
      BY <3>1 DEF HoldIsLast, LowTrafficPc
  <2>7. CASE LowTraffic
    <3>1. UNCHANGED <<lines, ovpn>> /\ pc["mgmt"] = "byteCount"
      BY <2>7 DEF LowTraffic, MgmtRest, At
    <3> QED
      BY <3>1 DEF HoldIsLast, LowTrafficPc
  <2>8. CASE OvpnProcess
    <3>1. UNCHANGED pc
      BY <2>8 DEF OvpnProcess, OvpnUsr1, OvpnRelease, OvpnNetworkChange, OvpnRestart,
                  OvpnByteCount, OvpnRest
    <3>2. ovpn' = "run" \/ UNCHANGED <<ovpn, lines>> \/ lines' = Append(lines, "HOLD")
      BY <2>8 DEF OvpnProcess, OvpnUsr1, OvpnRelease, OvpnNetworkChange, OvpnRestart,
                  OvpnByteCount, EnterHold
    <3>3. CASE lines' = Append(lines, "HOLD")
      <4>1. "HOLD" \in Line
        BY DEF Line
      <4>2. Len(lines') = Len(lines) + 1 /\ lines'[Len(lines) + 1] = "HOLD" /\ lines' # <<>>
        BY <2>0, <3>3, <4>1
      <4> QED
        BY <4>2 DEF HoldIsLast
    <3> QED
      BY <3>1, <3>2, <3>3 DEF HoldIsLast
  <2>9. CASE UNCHANGED vars
    BY <2>9 DEF vars, HoldIsLast
  <2> QED
    BY <2>1, <2>2, <2>3, <2>4, <2>5, <2>6, <2>7, <2>8, <2>9 DEF Next, ManagementThread
<1> QED
  BY <1>1, <1>2, TypeCorrect, PTL DEF Spec

\* The screen, while the management thread acts for one that is off.
LEMMA ScreenRight == Spec => []ScreenIsRight
<1>1. Init => ScreenIsRight
  BY DEF Init, ScreenIsRight, Threads, Callers
<1>2. TypeOK /\ ScreenIsRight /\ [Next]_vars => ScreenIsRight'
  <2> SUFFICES ASSUME TypeOK, ScreenIsRight, [Next]_vars PROVE ScreenIsRight'
    OBVIOUS
  <2>0. /\ pc \in [Threads -> Pc] /\ "mgmt" \in Threads /\ "main" \in Callers
        /\ "main" \in Threads /\ screen \in connectState
    BY DEF TypeOK, ReceiverTypeOK, ThreadsTypeOK, Threads, Callers
  <2>1. CASE MainThread
    <3>1. pc'["mgmt"] = pc["mgmt"]
      BY <2>0, <2>1, MainThreadMoves, MgmtStays
    <3>2. CASE RegisterReceiver \/ OnConnectivity
      <4>1. PICK info \in Info :
              NetworkConnected(info) \/ NetworkGone(info) \/ NetworkUnsettled(info)
        BY <3>2 DEF RegisterReceiver, OnConnectivity, networkStateChange
      <4>2. /\ screen' = screen \/ (screen = "PENDINGDISCONNECT" /\ screen' = "DISCONNECTED")
            /\ UNCHANGED pc \/ \E w \in {"same", "askResume", "askChange"} : Goto("main", w)
        BY <4>1 DEF NetworkConnected, NetworkGone, NetworkUnsettled
      <4>3. UNCHANGED screenOn /\ pc["main"] = "idle"
        BY <3>2 DEF RegisterReceiver, OnConnectivity, networkStateChange, MainIdle, At
      <4>4. pc'["main"] \notin {"setScreen", "screenPending"}
        BY <2>0, <4>2, <4>3 DEF Goto
      <4> QED
        BY <3>1, <4>2, <4>3, <4>4 DEF ScreenIsRight
    <3>3. CASE AskNetwork \/ ScreenSet \/ ResumeHold \/ AskHold
      <4>1. UNCHANGED <<screen, screenOn>> /\ pc'["main"] \notin {"setScreen", "screenPending"}
        BY <2>0, <3>3 DEF AskNetwork, ScreenSet, ResumeHold, AskHold, Rest, receiverVars, states,
                          Goto
      <4> QED
        BY <3>1, <4>1 DEF ScreenIsRight
    <3>4. CASE DelayDisconnect
      <4>1. /\ screen' = screen \/ (screen = "PENDINGDISCONNECT" /\ screen' = "DISCONNECTED")
            /\ UNCHANGED screenOn
            /\ pc'["main"] \notin {"setScreen", "screenPending"}
        BY <2>0, <3>4 DEF DelayDisconnect, MainIdle, At, Goto
      <4> QED
        BY <3>1, <4>1 DEF ScreenIsRight
    <3>5. CASE ScreenOff
      <4>1. pc["main"] = "idle"
        BY <3>5 DEF ScreenOff, MainIdle, At
      <4>2. CASE ScreenOffPref
        BY <2>0, <3>1, <3>5, <4>2 DEF ScreenOff, Goto, ScreenIsRight
      <4>3. CASE ~ScreenOffPref
        BY <3>1, <3>5, <4>1, <4>3 DEF ScreenOff, ScreenIsRight
      <4> QED
        BY <4>2, <4>3
    <3>6. CASE ScreenPending
      <4>1. /\ screen' = screen \/ screen' = "DISCONNECTED"
            /\ pc["main"] = "screenPending" /\ pc'["main"] = "idle"
            /\ UNCHANGED screenOn
        BY <2>0, <3>6 DEF ScreenPending, At, Goto
      <4>2. ScreenOffPref
        BY <4>1 DEF ScreenIsRight
      <4> QED
        BY <3>1, <4>1, <4>2 DEF ScreenIsRight
    <3>7. CASE ScreenOn
      BY <2>0, <3>1, <3>7 DEF ScreenOn, Goto, ScreenIsRight
    <3>8. CASE SetScreen
      <4>1. screenOn /\ UNCHANGED screenOn
        BY <3>8 DEF SetScreen, At, ScreenIsRight
      <4> QED
        BY <2>0, <3>1, <3>8, <4>1 DEF SetScreen, Goto, ScreenIsRight
    <3> QED
      BY <2>1, <3>2, <3>3, <3>4, <3>5, <3>6, <3>7, <3>8 DEF MainThread
  <2>2. ASSUME NEW t \in Callers, userPause(t)
        PROVE  ScreenIsRight'
    <3>1. UNCHANGED <<screen, screenOn>> /\ pc'["mgmt"] = pc["mgmt"]
      BY <2>2, userPauseMoves, MgmtStays
    <3>2. pc'["main"] \in {"setScreen", "screenPending"} => pc'["main"] = pc["main"]
      BY <2>0, <2>2 DEF userPause, UserPause, UserResume, SetUserpause, UserpauseSet, Goto,
                        Threads
    <3> QED
      BY <3>1, <3>2 DEF ScreenIsRight
  <2>3. ASSUME NEW t \in Threads, OpenVPNManagement(t)
        PROVE  ScreenIsRight'
    <3>1. UNCHANGED <<screen, screenOn>>
      BY <2>3 DEF OpenVPNManagement, Pause, TestPause, WriteUsr1, ReleaseHold, NetworkChange,
                  WriteNetworkChange, ReleaseHoldCmd, ClearFlag, WriteRelease, Rest,
                  receiverVars, states
    <3>2. pc'["mgmt"] = "byteCount" => pc["mgmt"] = "byteCount"
      BY <2>3, MgmtOperation
    <3>3. pc'["main"] \in {"setScreen", "screenPending"} => pc'["main"] = pc["main"]
      BY <2>0, <2>3 DEF OpenVPNManagement, Pause, TestPause, WriteUsr1, ReleaseHold,
                        NetworkChange, WriteNetworkChange, ReleaseHoldCmd, ClearFlag,
                        WriteRelease, Goto
    <3> QED
      BY <3>1, <3>2, <3>3 DEF ScreenIsRight
  <2>4. CASE ManagementThread
    <3>1. UNCHANGED screenOn /\ pc'["main"] = pc["main"]
      BY <2>0, <2>4, ThreadsAssumption
         DEF ManagementThread, HandleHold, HandleHoldAsk, HandleHoldPost, updateByteCount,
             LowTraffic, MgmtRest, Goto
    <3>2. CASE LowTraffic
      BY <2>0, <3>1, <3>2 DEF LowTraffic, At, Goto, ScreenIsRight
    <3>3. CASE updateByteCount
      <4>1. UNCHANGED screen
        BY <3>3 DEF updateByteCount
      <4>2. UNCHANGED pc \/ screen = "PENDINGDISCONNECT"
        BY <3>3 DEF updateByteCount
      <4> QED
        BY <3>1, <4>1, <4>2 DEF ScreenIsRight
    <3>4. CASE HandleHold \/ HandleHoldAsk \/ HandleHoldPost
      <4>1. UNCHANGED screen /\ pc'["mgmt"] # "byteCount"
        BY <2>0, <3>4 DEF HandleHold, HandleHoldAsk, HandleHoldPost, Goto
      <4> QED
        BY <3>1, <4>1 DEF ScreenIsRight
    <3> QED
      BY <2>4, <3>2, <3>3, <3>4 DEF ManagementThread
  <2>5. CASE OvpnProcess \/ UNCHANGED vars
    <3>1. UNCHANGED <<screen, screenOn, pc>>
      BY <2>5 DEF OvpnProcess, OvpnUsr1, OvpnRelease, OvpnNetworkChange, OvpnRestart,
                  OvpnByteCount, OvpnRest, vars, receiverVars, states
    <3> QED
      BY <3>1 DEF ScreenIsRight
  <2> QED
    BY <2>1, <2>2, <2>3, <2>4, <2>5 DEF Next
<1> QED
  BY <1>1, <1>2, TypeCorrect, PTL DEF Spec

-----------------------------------------------------------------------------
(* Orderly use: userPause on the main thread only, RESUME after PAUSE only.  *)

\* Then only the main thread calls it.
LEMMA OrderlyCaller ==
  ASSUME TypeOK, Orderly
  PROVE  /\ \A t \in Callers : userPause(t) => t = "main"
         /\ \A t \in Threads : OpenVPNManagement(t) => t \in {"main", "mgmt"}
<1>1. \A t \in BinderThreads : pc[t] = "idle"
  BY DEF TypeOK, ThreadsTypeOK
<1>2. ASSUME NEW t \in BinderThreads, t # "main"
      PROVE  ~userPause(t) /\ ~OpenVPNManagement(t)
  BY <1>1, <1>2 DEF userPause, UserPause, UserResume, SetUserpause, UserpauseSet, MayCall, At,
       OpenVPNManagement, Pause, TestPause, WriteUsr1, ReleaseHold, NetworkChange,
       WriteNetworkChange, ReleaseHoldCmd, ClearFlag, WriteRelease
<1> QED
  BY <1>2, Kinds DEF Callers

\* An operation of OpenVPNManagement leaves the three fields alone.
LEMMA OperationRest ==
  ASSUME NEW t \in Threads, OpenVPNManagement(t)
  PROVE  UNCHANGED <<network, screen, userpause, screenOn, connected, lines, ovpn>>
  BY DEF OpenVPNManagement, Pause, TestPause, WriteUsr1, ReleaseHold, NetworkChange,
         WriteNetworkChange, ReleaseHoldCmd, ClearFlag, WriteRelease, Rest, receiverVars, states

\* The steps of the other two: nothing raises shouldBeConnected, the main thread
\* stays where it is.
LEMMA OthersLower ==
  ASSUME TypeOK, ManagementThread \/ OvpnProcess \/ UNCHANGED vars
  PROVE  /\ shouldBeConnected' => shouldBeConnected
         /\ UNCHANGED <<network, userpause, connected>>
         /\ pc'["main"] = pc["main"]
<1>0. pc \in [Threads -> Pc] /\ "mgmt" \in Threads /\ "main" \in Threads
  BY DEF TypeOK, ThreadsTypeOK, Threads, Callers
<1>1. CASE ManagementThread
  <2>1. UNCHANGED screen \/ screen' = "DISCONNECTED"
    BY <1>1 DEF ManagementThread, HandleHold, HandleHoldAsk, HandleHoldPost, updateByteCount,
                LowTraffic
  <2>2. UNCHANGED <<network, userpause, connected>>
    BY <1>1 DEF ManagementThread, HandleHold, HandleHoldAsk, HandleHoldPost, updateByteCount,
                LowTraffic, MgmtRest
  <2>3. UNCHANGED pc \/ \E w : Goto("mgmt", w)
    BY <1>1 DEF ManagementThread, HandleHold, HandleHoldAsk, HandleHoldPost, updateByteCount,
                LowTraffic
  <2>4. pc'["main"] = pc["main"]
    BY <1>0, <2>3 DEF Goto
  <2> QED
    BY <2>1, <2>2, <2>4 DEF shouldBeConnected
<1>2. CASE OvpnProcess \/ UNCHANGED vars
  <2>1. UNCHANGED <<network, screen, userpause, connected, pc>>
    BY <1>2 DEF OvpnProcess, OvpnUsr1, OvpnRelease, OvpnNetworkChange, OvpnRestart,
                OvpnByteCount, OvpnRest, vars, receiverVars, states
  <2> QED
    BY <2>1 DEF shouldBeConnected
<1> QED
  BY <1>1, <1>2

\* What networkStateChange leads to.
LEMMA networkStateChangeLeadsTo ==
  ASSUME TypeOK, pc["main"] = "idle", networkStateChange
  PROVE  \/ pc'["main"] = "idle" /\ (shouldBeConnected' => shouldBeConnected)
         \/ pc'["main"] \in {"same", "askResume", "askChange"}
<1>0. pc \in [Threads -> Pc] /\ "main" \in Threads
  BY DEF TypeOK, ThreadsTypeOK, Threads, Callers
<1>1. PICK info \in Info :
        NetworkConnected(info) \/ NetworkGone(info) \/ NetworkUnsettled(info)
  BY DEF networkStateChange
<1>2. CASE NetworkConnected(info)
  BY <1>0, <1>2 DEF NetworkConnected, Goto
<1>3. CASE NetworkGone(info) \/ NetworkUnsettled(info)
  <2>1. UNCHANGED <<screen, userpause, pc>>
    BY <1>3 DEF NetworkGone, NetworkUnsettled, networkStateChange, MainRest
  <2>2. UNCHANGED network \/ network' = "PENDINGDISCONNECT"
    BY <1>3 DEF NetworkGone, NetworkUnsettled
  <2> QED
    BY <2>1, <2>2 DEF shouldBeConnected
<1> QED
  BY <1>1, <1>2, <1>3

\* What a handler of the main thread has found still holds at its next step.
LEMMA MainRight == Spec => []MainIsRight
<1>1. Init => MainIsRight
  BY DEF Init, MainIsRight, Threads, Callers
<1>2. TypeOK /\ ScreenIsRight /\ MainIsRight /\ [Next]_vars => MainIsRight'
  <2> SUFFICES ASSUME TypeOK, ScreenIsRight, MainIsRight, [Next]_vars, Orderly
               PROVE  MainIsRight'
    BY DEF MainIsRight
  <2>0. /\ pc \in [Threads -> Pc] /\ connected \in [Callers -> BOOLEAN]
        /\ "mgmt" \in Threads /\ "main" \in Threads /\ "main" \in Callers
    BY DEF TypeOK, ThreadsTypeOK, Threads, Callers
  <2>1. CASE MainThread
    <3>1. pc'["mgmt"] = pc["mgmt"]
      BY <2>0, <2>1, MainThreadMoves, MgmtStays
    <3>2. CASE RegisterReceiver \/ OnConnectivity
      <4>1. pc["main"] = "idle" /\ networkStateChange
        BY <3>2 DEF RegisterReceiver, OnConnectivity, MainIdle, At
      <4> QED
        BY <4>1, networkStateChangeLeadsTo DEF MainIsRight
    <3>3. CASE AskNetwork \/ ResumeHold \/ AskHold \/ ScreenOff \/ ScreenPending
      <4>1. pc'["main"] \in {"idle", "change", "releaseHold", "askHold", "release", "screenPending"}
        BY <2>0, <3>3 DEF AskNetwork, ResumeHold, AskHold, ScreenOff, ScreenPending, MainIdle,
                          At, Goto
      <4> QED
        BY <4>1 DEF MainIsRight
    <3>4. CASE DelayDisconnect
      <4>1. pc'["main"] = "idle" \/ (pc'["main"] = "pause" /\ network' = "DISCONNECTED")
        BY <2>0, <3>4 DEF DelayDisconnect, MainIdle, At, Goto
      <4> QED
        BY <4>1 DEF MainIsRight, shouldBeConnected
    <3>5. CASE ScreenOn
      <4>1. /\ pc'["main"] = "setScreen"
            /\ connected'["main"] = shouldBeConnected
            /\ UNCHANGED <<network, screen, userpause>>
            /\ ~screenOn
        BY <2>0, <3>5 DEF ScreenOn, MainRest, ScreenRest, Goto
      <4>2. shouldBeConnected => pc["mgmt"] # "byteCount"
        BY <4>1 DEF ScreenIsRight, shouldBeConnected
      <4> QED
        BY <3>1, <4>1, <4>2 DEF MainIsRight, shouldBeConnected
    <3>6. CASE SetScreen
      <4>1. /\ pc["main"] = "setScreen" /\ pc'["main"] = "screenSet"
            /\ screen' = "SHOULDBECONNECTED"
            /\ UNCHANGED <<network, userpause, connected>>
        BY <2>0, <3>6 DEF SetScreen, MainRest, ScreenRest, At, Goto
      <4> QED
        BY <3>1, <4>1 DEF MainIsRight, shouldBeConnected
    <3>7. CASE ScreenSet
      <4>1. /\ pc'["main"] \in {"releaseHold", "idle"} \/ (pc'["main"] = "pause" /\ ~shouldBeConnected)
            /\ UNCHANGED <<network, screen, userpause>>
        BY <2>0, <3>7 DEF ScreenSet, MainRest, ScreenRest, Goto
      <4> QED
        BY <4>1 DEF MainIsRight, shouldBeConnected
    <3> QED
      BY <2>1, <3>2, <3>3, <3>4, <3>5, <3>6, <3>7 DEF MainThread
  <2>2. CASE userPause("main")
    <3>1. CASE UserPause("main")
      <4>1. pc'["main"] = "pause" /\ userpause' = "DISCONNECTED"
        BY <2>0, <3>1 DEF UserPause, Goto
      <4> QED
        BY <4>1 DEF MainIsRight, shouldBeConnected
    <3>2. CASE UserResume("main")
      <4>1. pc'["main"] = "setUserpause" /\ connected'["main"] = shouldBeConnected
        BY <2>0, <3>2 DEF UserResume, Goto
      <4>2. ~shouldBeConnected
        BY <3>2 DEF UserResume, shouldBeConnected
      <4> QED
        BY <4>1, <4>2 DEF MainIsRight
    <3>3. CASE SetUserpause("main")
      <4>1. /\ pc["main"] = "setUserpause" /\ pc'["main"] = "userpauseSet"
            /\ UNCHANGED connected
        BY <2>0, <3>3 DEF SetUserpause, At, Goto
      <4> QED
        BY <4>1 DEF MainIsRight
    <3>4. CASE UserpauseSet("main")
      <4>1. ~connected["main"]
        BY <3>4 DEF UserpauseSet, At, MainIsRight
      <4>2. /\ pc'["main"] = "releaseHold" \/ (pc'["main"] = "pause" /\ ~shouldBeConnected)
            /\ UNCHANGED <<network, screen, userpause>>
        BY <2>0, <3>4, <4>1 DEF UserpauseSet, receiverVars, states, Goto
      <4> QED
        BY <4>2 DEF MainIsRight, shouldBeConnected
    <3> QED
      BY <2>2, <3>1, <3>2, <3>3, <3>4 DEF userPause
  <2>3. CASE OpenVPNManagement("mgmt")
    <3>1. UNCHANGED <<network, screen, userpause, connected>>
      BY <2>0, <2>3, OperationRest
    <3>2. pc'["main"] = pc["main"]
      BY <2>0, <2>3 DEF OpenVPNManagement, Pause, TestPause, WriteUsr1, ReleaseHold,
                        NetworkChange, WriteNetworkChange, ReleaseHoldCmd, ClearFlag,
                        WriteRelease, Goto
    <3>3. pc'["mgmt"] # "byteCount"
      BY <2>0, <2>3, MgmtOperation
    <3> QED
      BY <3>1, <3>2, <3>3 DEF MainIsRight, shouldBeConnected
  <2>4. CASE OpenVPNManagement("main")
    <3>1. UNCHANGED <<network, screen, userpause, connected>>
      BY <2>0, <2>4, OperationRest
    <3>2. /\ pc'["main"] \notin {"pause", "setUserpause", "userpauseSet", "setScreen", "screenSet"}
          /\ pc'["main"] \in {"testPause", "usr1"} => pc["main"] \in {"pause", "testPause"}
      BY <2>0, <2>4 DEF OpenVPNManagement, Pause, TestPause, WriteUsr1, ReleaseHold,
                        NetworkChange, WriteNetworkChange, ReleaseHoldCmd, ClearFlag,
                        WriteRelease, Goto, At
    <3> QED
      BY <3>1, <3>2 DEF MainIsRight, shouldBeConnected
  <2>5. CASE ManagementThread \/ OvpnProcess \/ UNCHANGED vars
    <3>1. /\ shouldBeConnected' => shouldBeConnected
          /\ UNCHANGED connected /\ pc'["main"] = pc["main"]
      BY <2>5, OthersLower
    <3>2. CASE LowTraffic
      <4>1. pc["mgmt"] = "byteCount"
        BY <3>2 DEF LowTraffic, At
      <4> QED
        BY <3>1, <4>1 DEF MainIsRight
    <3>3. CASE ~LowTraffic
      <4>1. UNCHANGED <<network, screen, userpause>>
        BY <2>5, <3>3, OthersLower
           DEF ManagementThread, HandleHold, HandleHoldAsk, HandleHoldPost, updateByteCount,
               OvpnProcess, OvpnUsr1, OvpnRelease, OvpnNetworkChange, OvpnRestart,
               OvpnByteCount, OvpnRest, vars, receiverVars, states
      <4>2. pc'["mgmt"] = "byteCount" => pc["mgmt"] = "byteCount" \/ screen = "PENDINGDISCONNECT"
        BY <2>0, <2>5, <3>3
           DEF ManagementThread, HandleHold, HandleHoldAsk, HandleHoldPost, updateByteCount,
               OvpnProcess, OvpnUsr1, OvpnRelease, OvpnNetworkChange, OvpnRestart,
               OvpnByteCount, OvpnRest, vars, Goto
      <4> QED
        BY <3>1, <4>1, <4>2 DEF MainIsRight, shouldBeConnected
    <3> QED
      BY <3>2, <3>3
  <2> QED
    BY <2>1, <2>2, <2>3, <2>4, <2>5, OrderlyCaller DEF Next
<1> QED
  BY <1>1, <1>2, TypeCorrect, ScreenRight, PTL DEF Spec

\* Who, but the main thread, takes care of a process in hold.
OthersHandle == \/ Occurs("HOLD", lines)
                \/ pc["mgmt"] \in {"holdAsk", "holdPost"}
                \/ resumePosts > 0
                \/ Occurs("release", cmds)

\* It is enough that those who did still do.
LEMMA StillHandled ==
  ASSUME HoldIsHandled, ovpn' = ovpn, shouldBeConnected' => shouldBeConnected,
         OthersHandle => OthersHandle',
         MainMayRelease => OthersHandle' \/ MainMayRelease' \/ ~shouldBeConnected' \/ ovpn = "run"
  PROVE  HoldIsHandled'
  BY DEF HoldIsHandled, OthersHandle

\* A handler of the main thread hands a hold on to its next step.
LEMMA MainThreadHandled ==
  ASSUME TypeOK, ScreenIsRight, MainIsRight, MainIsRight', HoldIsHandled, Orderly, MainThread
  PROVE  HoldIsHandled'
<1>0. /\ pc \in [Threads -> Pc] /\ connected \in [Callers -> BOOLEAN]
      /\ "main" \in Threads /\ "main" \in Callers
  BY DEF TypeOK, ThreadsTypeOK, Threads, Callers
<1>1. UNCHANGED <<userpause, cmds, lines, ovpn>> /\ pc'["mgmt"] = pc["mgmt"]
  BY <1>0, MainThreadMoves, MgmtStays
<1>2. UNCHANGED resumePosts => (OthersHandle => OthersHandle')
  BY <1>1 DEF OthersHandle, Occurs
<1>3. CASE RegisterReceiver \/ OnConnectivity
  <2>1. pc["main"] = "idle" /\ networkStateChange /\ UNCHANGED resumePosts
    BY <1>3 DEF RegisterReceiver, OnConnectivity, MainIdle, At, networkStateChange, MainRest,
                mgmtVars
  <2>2. ~MainMayRelease
    BY <2>1 DEF MainMayRelease
  <2>3. CASE pc'["main"] = "idle" /\ (shouldBeConnected' => shouldBeConnected)
    BY <1>1, <1>2, <2>1, <2>2, <2>3, StillHandled
  <2>4. CASE pc'["main"] \in {"same", "askResume", "askChange"}
    BY <2>4 DEF HoldIsHandled, MainMayRelease
  <2> QED
    BY <2>1, <2>3, <2>4, networkStateChangeLeadsTo
<1>4. CASE AskNetwork \/ AskHold
  <2>1. UNCHANGED <<network, screen>>
    BY <1>4 DEF AskNetwork, AskHold, Rest, receiverVars, states
  <2>2. shouldBeConnected => pc'["main"] \in {"change", "releaseHold", "release"}
    BY <1>0, <1>4 DEF AskNetwork, AskHold, shouldBeRunning, Goto
  <2> QED
    BY <1>1, <2>1, <2>2 DEF HoldIsHandled, MainMayRelease, shouldBeConnected
<1>5. CASE ResumeHold
  <2>1. pc'["main"] = "askHold"
    BY <1>0, <1>5 DEF ResumeHold, Goto
  <2> QED
    BY <2>1 DEF HoldIsHandled, MainMayRelease
<1>6. CASE DelayDisconnect \/ ScreenOff
  <2>1. pc["main"] = "idle" /\ UNCHANGED resumePosts
    BY <1>6 DEF DelayDisconnect, ScreenOff, MainIdle, At, MainRest, mgmtVars
  <2>2. \/ network' = "DISCONNECTED" \/ screen' = "PENDINGDISCONNECT"
        \/ UNCHANGED <<network, screen>>
    BY <1>6 DEF DelayDisconnect, ScreenOff, ScreenRest
  <2>3. shouldBeConnected' => shouldBeConnected
    BY <1>1, <2>2 DEF shouldBeConnected
  <2>4. ~MainMayRelease
    BY <2>1 DEF MainMayRelease
  <2> QED
    BY <1>1, <1>2, <2>1, <2>3, <2>4, StillHandled
<1>7. CASE ScreenPending
  <2>1. screen # "SHOULDBECONNECTED" /\ (screen' = screen \/ screen' = "DISCONNECTED")
    BY <1>7 DEF ScreenPending, At, ScreenIsRight
  <2> QED
    BY <2>1 DEF HoldIsHandled, shouldBeConnected
<1>8. CASE ScreenOn
  <2>1. pc["main"] = "idle" /\ UNCHANGED <<resumePosts, network, screen>>
    BY <1>8 DEF ScreenOn, MainIdle, At, MainRest, ScreenRest, mgmtVars
  <2>2. ~MainMayRelease
    BY <2>1 DEF MainMayRelease
  <2> QED
    BY <1>1, <1>2, <2>1, <2>2, StillHandled DEF shouldBeConnected
<1>9. CASE SetScreen
  <2>1. /\ pc["main"] = "setScreen" /\ pc'["main"] = "screenSet"
        /\ UNCHANGED <<resumePosts, network, connected>>
    BY <1>0, <1>9 DEF SetScreen, At, MainRest, ScreenRest, mgmtVars, Goto
  <2>2. CASE connected["main"]
    <3>1. shouldBeConnected /\ ~MainMayRelease
      BY <2>1, <2>2 DEF MainIsRight, MainMayRelease
    <3> QED
      BY <1>1, <1>2, <2>1, <3>1, StillHandled
  <2>3. CASE ~connected["main"]
    BY <2>1, <2>3 DEF HoldIsHandled, MainMayRelease
  <2> QED
    BY <2>2, <2>3
<1>10. CASE ScreenSet
  <2>1. pc["main"] = "screenSet" /\ UNCHANGED <<resumePosts, network, screen>>
    BY <1>10 DEF ScreenSet, At, MainRest, ScreenRest, mgmtVars
  <2>2. CASE connected["main"]
    <3>1. ~MainMayRelease
      BY <2>1, <2>2 DEF MainMayRelease
    <3> QED
      BY <1>1, <1>2, <2>1, <3>1, StillHandled DEF shouldBeConnected
  <2>3. CASE ~connected["main"]
    <3>1. shouldBeConnected => pc'["main"] = "releaseHold"
      BY <1>0, <1>10, <2>3 DEF ScreenSet, Goto, shouldBeConnected
    <3> QED
      BY <1>1, <2>1, <3>1 DEF HoldIsHandled, MainMayRelease, shouldBeConnected
  <2> QED
    BY <2>2, <2>3
<1> QED
  BY <1>3, <1>4, <1>5, <1>6, <1>7, <1>8, <1>9, <1>10 DEF MainThread

\* So does userPause.
LEMMA userPauseHandled ==
  ASSUME TypeOK, MainIsRight', HoldIsHandled, Orderly, userPause("main")
  PROVE  HoldIsHandled'
<1>0. pc \in [Threads -> Pc] /\ "main" \in Threads
  BY DEF TypeOK, ThreadsTypeOK, Threads, Callers
<1>1. pc'["main"] \in {"pause", "setUserpause", "userpauseSet", "releaseHold"}
  BY <1>0 DEF userPause, UserPause, UserResume, SetUserpause, UserpauseSet, Goto
<1>2. pc'["main"] = "pause" => ~shouldBeConnected'
  BY DEF MainIsRight
<1> QED
  BY <1>1, <1>2 DEF HoldIsHandled, MainMayRelease

\* The management thread's pause leaves the line that will tell of the hold.
LEMMA MgmtOperationHandled ==
  ASSUME TypeOK, HoldIsLast, OpenVPNManagement("mgmt")
  PROVE  HoldIsHandled'
<1>0. "mgmt" \in Threads /\ lines \in Seq(Line)
  BY DEF TypeOK, ManagementTypeOK, Threads, Callers
<1>1. UNCHANGED <<lines, ovpn>>
  BY <1>0, OperationRest
<1>2. pc["mgmt"] \in LowTrafficPc
  BY <1>0, MgmtOperation DEF LowTrafficPc
<1>3. ovpn = "hold" => Occurs("HOLD", lines)
  <2>1. lines # <<>> => Len(lines) \in 1 .. Len(lines)
    BY <1>0
  <2> QED
    BY <1>2, <2>1 DEF HoldIsLast, Occurs
<1> QED
  BY <1>1, <1>3 DEF HoldIsHandled, Occurs

\* An operation on the main thread releases, or leaves a hold to whom it was with.
LEMMA MainOperationHandled ==
  ASSUME TypeOK, HoldIsKnown, MainIsRight, HoldIsHandled, Orderly, OpenVPNManagement("main")
  PROVE  HoldIsHandled'
<1>0. pc \in [Threads -> Pc] /\ "main" \in Threads /\ cmds \in Seq(Command)
  BY DEF TypeOK, ManagementTypeOK, ThreadsTypeOK, Threads, Callers
<1>1. UNCHANGED <<network, screen, userpause, lines, ovpn>>
  BY <1>0, OperationRest
<1>2. shouldBeConnected' = shouldBeConnected
  BY <1>1 DEF shouldBeConnected
<1>3. Occurs("release", cmds) => Occurs("release", cmds')
  BY <1>0, OperationKeepsRelease
<1>4. CASE pc["main"] \in {"pause", "testPause", "usr1"}
  BY <1>2, <1>4 DEF MainIsRight, HoldIsHandled
<1>5. CASE ReleaseHold("main") \/ NetworkChange("main")
  <2>1. CASE waiting
    <3>1. pc'["main"] \in {"release", "releaseHold"}
      BY <1>0, <1>5, <2>1 DEF ReleaseHold, NetworkChange, Goto
    <3> QED
      BY <3>1 DEF HoldIsHandled, MainMayRelease
  <2>2. CASE ~waiting
    <3>1. \A t \in Threads : pc[t] # "writeRelease"
      <4>1. pc["main"] # "writeRelease"
        BY <1>5 DEF ReleaseHold, NetworkChange, At
      <4>2. pc["mgmt"] # "writeRelease"
        BY DEF TypeOK, ThreadsTypeOK, MgmtPc
      <4>3. \A t \in BinderThreads : pc[t] = "idle"
        BY DEF TypeOK, ThreadsTypeOK
      <4> QED
        BY <4>1, <4>2, <4>3, Kinds
    <3>2. ovpn = "hold" => Occurs("HOLD", lines) \/ Occurs("release", cmds)
      BY <2>2, <3>1 DEF HoldIsKnown
    <3> QED
      BY <1>1, <1>3, <3>2 DEF HoldIsHandled, Occurs
  <2> QED
    BY <2>1, <2>2
<1>6. CASE WriteNetworkChange("main")
  <2>1. ~MainMayRelease
    BY <1>6 DEF WriteNetworkChange, At, MainMayRelease
  <2>2. UNCHANGED resumePosts
    BY <1>6 DEF WriteNetworkChange, mgmtVars
  <2>3. pc'["mgmt"] = pc["mgmt"]
    BY <1>0, <1>6, ThreadsAssumption DEF WriteNetworkChange, Goto, Threads, Callers
  <2>4. OthersHandle => OthersHandle'
    BY <1>1, <1>3, <2>2, <2>3 DEF OthersHandle, Occurs
  <2> QED
    BY <1>1, <1>2, <2>1, <2>4, StillHandled
<1>7. CASE ReleaseHoldCmd("main") \/ ClearFlag("main")
  <2>1. pc'["main"] \in {"clearFlag", "writeRelease"}
    BY <1>0, <1>7 DEF ReleaseHoldCmd, ClearFlag, Goto
  <2> QED
    BY <2>1 DEF HoldIsHandled, MainMayRelease
<1>8. CASE WriteRelease("main")
  <2>1. "release" \in Command /\ cmds' = Append(cmds, "release")
    BY <1>8 DEF WriteRelease, managmentCommand, Command
  <2>2. Occurs("release", cmds')
    BY <1>0, <2>1, OccursAppend
  <2> QED
    BY <2>2 DEF HoldIsHandled
<1> QED
  BY <1>4, <1>5, <1>6, <1>7, <1>8 DEF OpenVPNManagement, Pause, TestPause, WriteUsr1, At

\* The management thread turns a HOLD line into the runnable.
LEMMA ManagementThreadHandled ==
  ASSUME TypeOK, HoldIsHandled, ManagementThread
  PROVE  HoldIsHandled'
<1>0. /\ pc \in [Threads -> Pc] /\ "mgmt" \in Threads
      /\ lines \in Seq(Line) /\ resumePosts \in Nat
  BY DEF TypeOK, ManagementTypeOK, ThreadsTypeOK, Threads, Callers
<1>1. shouldBeConnected' => shouldBeConnected /\ pc'["main"] = pc["main"]
  BY OthersLower
<1>2. UNCHANGED <<cmds, ovpn, connected>> /\ pc'["main"] = pc["main"]
  <2>1. MgmtRest
    BY DEF ManagementThread, HandleHold, HandleHoldAsk, HandleHoldPost, updateByteCount,
           LowTraffic
  <2> QED
    BY <2>1, OthersLower DEF MgmtRest
<1>3. CASE HandleHold
  <2>1. pc'["mgmt"] = "holdAsk"
    BY <1>0, <1>3 DEF HandleHold, Goto
  <2> QED
    BY <2>1 DEF HoldIsHandled
<1>4. CASE HandleHoldAsk
  <2>1. shouldBeConnected => pc'["mgmt"] = "holdPost"
    BY <1>0, <1>4 DEF HandleHoldAsk, shouldBeRunning, Goto
  <2> QED
    BY <1>1, <2>1 DEF HoldIsHandled
<1>5. CASE HandleHoldPost
  <2>1. resumePosts' > 0
    BY <1>0, <1>5 DEF HandleHoldPost
  <2> QED
    BY <2>1 DEF HoldIsHandled
<1>6. CASE updateByteCount
  <2>1. /\ lines # <<>> /\ Head(lines) # "HOLD" /\ lines' = Tail(lines)
        /\ pc["mgmt"] = "idle" /\ UNCHANGED resumePosts
    BY <1>6 DEF updateByteCount, ReadLine, At, mgmtVars
  <2>2. Occurs("HOLD", lines) => Occurs("HOLD", lines')
    BY <1>0, <2>1, OccursTail
  <2>3. OthersHandle => OthersHandle'
    BY <1>2, <2>1, <2>2 DEF OthersHandle, Occurs
  <2>4. MainMayRelease => MainMayRelease'
    BY <1>2 DEF MainMayRelease
  <2> QED
    BY <1>1, <1>2, <2>3, <2>4, StillHandled
<1>7. CASE LowTraffic
  <2>1. screen' = "DISCONNECTED"
    BY <1>7 DEF LowTraffic
  <2> QED
    BY <2>1 DEF HoldIsHandled, shouldBeConnected
<1> QED
  BY <1>3, <1>4, <1>5, <1>6, <1>7 DEF ManagementThread

\* The process says that it is in hold, and reads what it is sent.
LEMMA OvpnProcessHandled ==
  ASSUME TypeOK, HoldIsHandled, OvpnProcess
  PROVE  HoldIsHandled'
<1>0. lines \in Seq(Line) /\ cmds \in Seq(Command)
  BY DEF TypeOK, ManagementTypeOK
<1>1. CASE EnterHold
  <2>1. "HOLD" \in Line /\ lines' = Append(lines, "HOLD")
    BY <1>1 DEF EnterHold, Line
  <2>2. Occurs("HOLD", lines')
    BY <1>0, <2>1, OccursAppend
  <2> QED
    BY <2>2 DEF HoldIsHandled
<1>2. CASE ovpn' = "run"
  BY <1>2 DEF HoldIsHandled
<1>3. CASE OvpnNetworkChange /\ UNCHANGED <<ovpn, lines>>
  <2>1. cmds # <<>> /\ Head(cmds) # "release" /\ cmds' = Tail(cmds)
    BY <1>3 DEF OvpnNetworkChange, ReadCommand
  <2>2. Occurs("release", cmds) => Occurs("release", cmds')
    BY <1>0, <2>1, OccursTail
  <2>3. UNCHANGED <<resumePosts, pc, connected, network, screen, userpause>>
    BY <1>3 DEF OvpnNetworkChange, OvpnRest, mgmtVars, receiverVars, states
  <2>4. OthersHandle => OthersHandle'
    BY <1>3, <2>2, <2>3 DEF OthersHandle, Occurs
  <2>5. MainMayRelease' = MainMayRelease /\ shouldBeConnected' = shouldBeConnected
    BY <2>3 DEF MainMayRelease, shouldBeConnected
  <2> QED
    BY <1>3, <2>4, <2>5, StillHandled
<1> QED
  BY <1>1, <1>2, <1>3 DEF OvpnProcess, OvpnUsr1, OvpnRelease, OvpnNetworkChange, OvpnRestart,
                          OvpnByteCount

\* A process in hold is known to be and, in orderly use, one that should run is
\* taken care of in every intermediate state: by a line or a command still to be
\* read, a handler under way or the runnable that releases it.
THEOREM HoldTracked == Spec => []HoldInv
<1>1. Init => HoldIsHandled
  BY DEF Init, HoldIsHandled, shouldBeConnected
<1>2. /\ TypeOK /\ HoldIsKnown /\ HoldIsLast /\ ScreenIsRight /\ MainIsRight /\ MainIsRight'
      /\ HoldIsHandled /\ [Next]_vars
      => HoldIsHandled'
  <2> SUFFICES ASSUME TypeOK, HoldIsKnown, HoldIsLast, ScreenIsRight, MainIsRight,
                      MainIsRight', HoldIsHandled, [Next]_vars, Orderly
               PROVE  HoldIsHandled'
    BY DEF HoldIsHandled
  <2>1. CASE MainThread
    BY <2>1, MainThreadHandled
  <2>2. CASE ManagementThread
    BY <2>2, ManagementThreadHandled
  <2>3. CASE \E t \in Callers : userPause(t)
    BY <2>3, OrderlyCaller, userPauseHandled
  <2>4. CASE \E t \in Threads : OpenVPNManagement(t)
    BY <2>4, OrderlyCaller, MgmtOperationHandled, MainOperationHandled
  <2>5. CASE OvpnProcess
    BY <2>5, OvpnProcessHandled
  <2>6. CASE UNCHANGED vars
    BY <2>6 DEF vars, mgmtVars, receiverVars, states, HoldIsHandled, MainMayRelease, Occurs,
                shouldBeConnected
  <2> QED
    BY <2>1, <2>2, <2>3, <2>4, <2>5, <2>6 DEF Next
<1>3. HoldIsKnown /\ HoldIsLast /\ HoldIsHandled /\ MainIsRight /\ ScreenIsRight => HoldInv
  BY DEF HoldInv
<1> QED
  BY <1>1, <1>2, <1>3, TypeCorrect, HoldKnown, HoldLast, ScreenRight, MainRight, PTL DEF Spec

\* In orderly use, once everything in flight has been read, a process in hold
\* that should run has the runnable that releases it posted: no order of pauses,
\* network changes, screen events, low traffic and HOLD lines loses it.
THEOREM HoldNeverStuck == Spec => []NoStuckHold
<1>1. TypeOK /\ HoldInv => NoStuckHold
  <2>1. Quiet => pc["main"] = "idle" /\ pc["mgmt"] = "idle"
    BY DEF Quiet, Threads, Callers
  <2> QED
    BY <2>1 DEF HoldInv, HoldIsHandled, MainMayRelease, NoStuckHold, Quiet, Occurs
<1> QED
  BY <1>1, TypeCorrect, HoldTracked, PTL

=============================================================================
