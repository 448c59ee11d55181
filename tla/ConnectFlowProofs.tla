------------------------- MODULE ConnectFlowProofs -------------------------
(***************************************************************************)
(* Type correctness of ConnectFlow and its two safety invariants, for      *)
(* every set of instances of MainActivity, every list of strategies and    *)
(* every assignment of ports.                                              *)
(***************************************************************************)
EXTENDS ConnectFlow, TLAPS

PortOrNone == Ports \cup {NullPort, NoPort}
Counters == [Instances -> Nat]

\* TypeOK, with the set of the four counters taken apart.
LEMMA Types ==
    ASSUME TypeOK
    PROVE  /\ process \in {"running", "killed", "crashed"} /\ status \in Status
           /\ index \in Nat /\ activity \in Instances
           /\ continueConnect \in [Instances -> BOOLEAN]
           /\ port \in [Instances -> PortOrNone]
           /\ loaded \in [Instances -> BOOLEAN]
           /\ timeoutPosts \in Counters /\ maxPosts \in Counters
           /\ retryPosts \in Counters /\ checkPosts \in Counters
           /\ dialogs \in Nat /\ asking \in BOOLEAN /\ page \in Page /\ binds \in Nat
           /\ starts \in Nat /\ vpn \in Vpn /\ dying \in Nat /\ events \in Seq(Event)
BY DEF TypeOK, UiTypeOK, ServiceTypeOK, PortOrNone, Counters

\* A step whose new values all have their types keeps TypeOK.
LEMMA Typed ==
    ASSUME process' \in {"running", "killed", "crashed"}, status' \in Status,
           index' \in Nat, activity' \in Instances,
           continueConnect' \in [Instances -> BOOLEAN],
           port' \in [Instances -> PortOrNone], loaded' \in [Instances -> BOOLEAN],
           timeoutPosts' \in Counters, maxPosts' \in Counters,
           retryPosts' \in Counters, checkPosts' \in Counters,
           dialogs' \in Nat, asking' \in BOOLEAN, page' \in Page, binds' \in Nat,
           starts' \in Nat, vpn' \in Vpn, dying' \in Nat, events' \in Seq(Event)
    PROVE  TypeOK'
<1>1. UiTypeOK'
  BY DEF UiTypeOK, PortOrNone, Counters, Ports
<1>2. ServiceTypeOK'
  BY DEF ServiceTypeOK
<1> QED BY <1>1, <1>2 DEF TypeOK

\* A step of the UI on the attempt under way: the service, the process, the
\* instance shown, its port and its list stay.
LEMMA UiTyped ==
    ASSUME TypeOK, UNCHANGED <<service, process, activity, port, loaded>>, status' \in Status,
           index' \in Nat, continueConnect' \in [Instances -> BOOLEAN],
           timeoutPosts' \in Counters, maxPosts' \in Counters,
           retryPosts' \in Counters, checkPosts' \in Counters,
           dialogs' \in Nat, asking' \in BOOLEAN, page' \in Page, binds' \in Nat
    PROVE  TypeOK'
BY Types, Typed DEF service

\* Losing the process resets what the UI keeps, within its types.
LEMMA DieType ==
    ASSUME TypeOK, NEW how \in {"killed", "crashed"}, Die(how)
    PROVE  TypeOK'
<1>1. /\ index' \in Nat /\ activity' \in Instances
      /\ timeoutPosts' \in Counters /\ maxPosts' \in Counters
      /\ retryPosts' \in Counters /\ checkPosts' \in Counters /\ dialogs' \in Nat /\ binds' \in Nat
  BY Types DEF Die, Counters
<1>2. continueConnect' \in [Instances -> BOOLEAN] /\ loaded' \in [Instances -> BOOLEAN]
      /\ asking' \in BOOLEAN
  BY DEF Die
<1>3. port' \in [Instances -> PortOrNone]
  BY DEF Die, PortOrNone
<1>4. process' \in {"running", "killed", "crashed"} /\ status' \in Status /\ page' \in Page
  BY DEF Die, Status, Page
<1>5. starts' \in Nat /\ vpn' \in Vpn /\ dying' \in Nat /\ events' \in Seq(Event)
  BY Types DEF Die
<1> QED BY <1>1, <1>2, <1>3, <1>4, <1>5, Typed

\* A report extends the queue of levels by one, or leaves it.
LEMMA ReportType ==
    ASSUME TypeOK, NEW level \in Level, Report(level)
    PROVE  events' \in Seq(Event)
<1>1. [level |-> level, to |-> activity] \in Event
  BY Types DEF Event
<1>2. events \in Seq(Event)
  BY Types
<1> DEFINE e == [level |-> level, to |-> activity]
<1>3. events' = Append(events, e) \/ UNCHANGED events
  BY DEF Report
<1> HIDE DEF e
<1>4. e \in Event
  BY <1>1 DEF e
<1> QED BY <1>2, <1>3, <1>4

\* A session that ends is counted among the dying ones.
LEMMA EndSessionType ==
    ASSUME TypeOK, EndSession
    PROVE  dying' \in Nat /\ events' \in Seq(Event)
<1>1. dying' \in Nat
  BY Types DEF EndSession
<1>2. CASE Report("NOTCONNECTED")
  <2>1. "NOTCONNECTED" \in Level
    BY DEF Level
  <2> QED BY <1>1, <1>2, <2>1, ReportType
<1>3. CASE UNCHANGED events
  BY <1>1, <1>3, Types
<1> QED BY <1>2, <1>3 DEF EndSession

\* A port that is drawn is one the proxy has, or the one at hand.
LEMMA RandomPortsType ==
    ASSUME NEW x \in Nat, x < Len(Strategies), NEW current \in PortOrNone,
           NEW p \in RandomPorts(PortsOf[Strategies[x + 1]], current)
    PROVE  p \in PortOrNone
<1>1. Strategies[x + 1] \in {"TCP", "UDP"}
  BY StrategiesAssumption DEF Protocol
<1>2. PortsOf[Strategies[x + 1]] \subseteq Ports
  BY <1>1 DEF Ports
<1> QED BY <1>2 DEF RandomPorts, PortOrNone

\* startConnect posts a timeout of its instance and sends a start.
LEMMA StartType ==
    ASSUME TypeOK, NEW i \in Instances, NEW x \in Nat, NEW current \in PortOrNone,
           x < Len(Strategies), startConnect(i, x, current)
    PROVE  /\ timeoutPosts' \in Counters /\ timeoutPosts'[i] > 0
           /\ port' \in [Instances -> PortOrNone]
           /\ starts' \in Nat /\ UNCHANGED <<vpn, dying, events>>
<1>1. timeoutPosts' \in Counters /\ timeoutPosts'[i] > 0
  <2>1. timeoutPosts \in [Instances -> Nat]
    BY Types DEF Counters
  <2>2. timeoutPosts' = [timeoutPosts EXCEPT ![i] = @ + 1]
    BY DEF startConnect, Add
  <2> QED BY <2>1, <2>2 DEF Counters
<1>2. port' \in [Instances -> PortOrNone]
  BY Types, RandomPortsType DEF startConnect, Set
<1> QED BY <1>1, <1>2, Types DEF startConnect

\* The same at the current index, with the instance's own port.
LEMMA StartHereType ==
    ASSUME TypeOK, NEW i \in Instances, index < Len(Strategies), startConnect(i, index, port[i])
    PROVE  /\ timeoutPosts' \in Counters /\ port' \in [Instances -> PortOrNone]
           /\ starts' \in Nat /\ UNCHANGED <<vpn, dying, events>>
<1>1. PICK c \in PortOrNone, x \in Nat : c = port[i] /\ x = index
  BY Types
<1>2. startConnect(i, x, c) /\ x < Len(Strategies)
  BY <1>1 DEF startConnect
<1> QED BY <1>2, StartType

\* startConnect as the core of a handler that changes nothing else but what is
\* listed here.
LEMMA StartTyped ==
    ASSUME TypeOK, NEW i \in Instances, NEW x \in Nat, NEW current \in PortOrNone,
           x < Len(Strategies), startConnect(i, x, current),
           UNCHANGED <<process, activity, maxPosts, asking, binds>>, status' \in Status,
           index' \in Nat, continueConnect' \in [Instances -> BOOLEAN],
           loaded' \in [Instances -> BOOLEAN], retryPosts' \in Counters,
           checkPosts' \in Counters, dialogs' \in Nat, page' \in Page
    PROVE  TypeOK'
<1>1. timeoutPosts' \in Counters /\ port' \in [Instances -> PortOrNone]
      /\ starts' \in Nat /\ vpn' \in Vpn /\ dying' \in Nat /\ events' \in Seq(Event)
  BY StartType, Types
<1> QED BY <1>1, Types, Typed

\* The cases of checkVPNPermission: it asks, starts or crashes.
LEMMA CheckCases ==
    ASSUME NEW i, NEW cp, NEW pg, checkVPNPermission(i, cp, pg)
    PROVE  \/ Die("crashed")
           \/ /\ status' = "CONNECTING" /\ index' = 0 /\ checkPosts' = cp /\ page' = pg
              /\ Set(continueConnect, i, FALSE) /\ Set(loaded, i, TRUE)
              /\ UNCHANGED <<process, activity, maxPosts, retryPosts, asking, binds>>
              /\ \E current \in {port[i], NoPort} :
                    \/ /\ Set(port, i, current)
                       /\ dialogs' = dialogs + 1 \/ (MayDeny /\ UNCHANGED dialogs)
                       /\ UNCHANGED <<timeoutPosts, service>>
                    \/ /\ 0 < Len(Strategies)
                       /\ startConnect(i, 0, current)
                       /\ UNCHANGED dialogs
<1> DEFINE current == IF status = "CONNECTED" THEN port[i] ELSE NoPort
<1>1. current \in {port[i], NoPort}
  OBVIOUS
<1>2. StartReturns(TRUE, 0, current) => 0 < Len(Strategies)
  BY DEF StartReturns
<1>3. CASE /\ MayAsk
           /\ Set(continueConnect, i, FALSE) /\ index' = 0
           /\ Set(port, i, current) /\ Set(loaded, i, TRUE)
           /\ status' = "CONNECTING"
           /\ \/ dialogs' = dialogs + 1
              \/ MayDeny /\ UNCHANGED dialogs
           /\ checkPosts' = cp /\ page' = pg
           /\ UNCHANGED <<process, activity, timeoutPosts, maxPosts, retryPosts, asking, binds, service>>
  <2> HIDE DEF current
  <2> QED BY <1>1, <1>3 DEF Set
<1>4. CASE /\ StartReturns(TRUE, 0, current)
           /\ Set(continueConnect, i, FALSE) /\ index' = 0 /\ Set(loaded, i, TRUE)
           /\ status' = "CONNECTING"
           /\ startConnect(i, 0, current)
           /\ checkPosts' = cp /\ page' = pg
           /\ UNCHANGED <<process, activity, maxPosts, retryPosts, dialogs, asking, binds>>
  <2> HIDE DEF current
  <2> QED BY <1>1, <1>2, <1>4 DEF Set
<1>5. CASE Die("crashed")
  BY <1>5
<1> QED BY <1>3, <1>4, <1>5, Zenon DEF checkVPNPermission

\* checkVPNPermission keeps the types.
LEMMA CheckType ==
    ASSUME TypeOK, NEW i \in Instances, NEW cp \in Counters, NEW pg \in Page,
           checkVPNPermission(i, cp, pg)
    PROVE  TypeOK'
<1>1. CASE Die("crashed")
  BY <1>1, DieType
<1>2. CASE ~Die("crashed")
  <2>1. /\ status' = "CONNECTING" /\ index' = 0 /\ checkPosts' = cp /\ page' = pg
        /\ Set(continueConnect, i, FALSE) /\ Set(loaded, i, TRUE)
        /\ UNCHANGED <<process, activity, maxPosts, retryPosts, asking, binds>>
    BY <1>2, CheckCases
  <2>2. status' \in Status /\ retryPosts' \in Counters
    BY <2>1, Types DEF Status
  <2>3. continueConnect' \in [Instances -> BOOLEAN] /\ loaded' \in [Instances -> BOOLEAN]
    BY <2>1, Types DEF Set
  <2>4. PICK current \in {port[i], NoPort} :
            \/ /\ Set(port, i, current)
               /\ dialogs' = dialogs + 1 \/ (MayDeny /\ UNCHANGED dialogs)
               /\ UNCHANGED <<timeoutPosts, service>>
            \/ /\ 0 < Len(Strategies)
               /\ startConnect(i, 0, current)
               /\ UNCHANGED dialogs
    BY <1>2, CheckCases
  <2>5. current \in PortOrNone
    BY Types DEF PortOrNone
  <2>6. CASE 0 < Len(Strategies) /\ startConnect(i, 0, current) /\ UNCHANGED dialogs
    BY <2>1, <2>2, <2>3, <2>5, <2>6, StartTyped, Types
  <2>7. CASE /\ Set(port, i, current)
             /\ dialogs' = dialogs + 1 \/ (MayDeny /\ UNCHANGED dialogs)
             /\ UNCHANGED <<timeoutPosts, service>>
    <3>1. port' \in [Instances -> PortOrNone]
      BY <2>5, <2>7, Types DEF Set
    <3>2. dialogs' \in Nat /\ timeoutPosts' \in Counters
      BY <2>7, Types
    <3>3. starts' \in Nat /\ vpn' \in Vpn /\ dying' \in Nat /\ events' \in Seq(Event)
      BY <2>7, Types DEF service
    <3> QED BY <2>1, <2>2, <2>3, <3>1, <3>2, <3>3, Types, Typed
  <2> QED BY <2>4, <2>6, <2>7
<1> QED BY <1>1, <1>2

\* The same on the instance shown.
LEMMA CheckHereType ==
    ASSUME TypeOK, NEW pg \in Page, checkVPNPermission(activity, checkPosts, pg)
    PROVE  TypeOK'
<1>1. PICK i \in Instances, cp \in Counters : i = activity /\ cp = checkPosts
  BY Types
<1>2. checkVPNPermission(i, cp, pg)
  BY <1>1 DEF checkVPNPermission, startConnect, Set, Add
<1> QED BY <1>2, CheckType

-----------------------------------------------------------------------------
(* Type correctness.                                                       *)

\* The initial state is well typed.
LEMMA InitType == Init => TypeOK
<1> SUFFICES ASSUME Init PROVE TypeOK
  OBVIOUS
<1>1. UiTypeOK
  <2>1. {timeoutPosts, maxPosts, retryPosts, checkPosts} \subseteq [Instances -> Nat]
    BY DEF Init
  <2>2. continueConnect \in [Instances -> BOOLEAN] /\ loaded \in [Instances -> BOOLEAN]
        /\ asking \in BOOLEAN
    BY DEF Init
  <2>3. port \in [Instances -> Ports \cup {NullPort, NoPort}]
    BY DEF Init
  <2>4. /\ process \in {"running", "killed", "crashed"} /\ status \in Status
        /\ index \in Nat /\ activity \in Instances
        /\ dialogs \in Nat /\ page \in Page /\ binds \in Nat
    BY DEF Init, Status, Page
  <2> QED BY <2>1, <2>2, <2>3, <2>4 DEF UiTypeOK
<1>2. ServiceTypeOK
  BY DEF Init, ServiceTypeOK, Vpn
<1> QED BY <1>1, <1>2 DEF TypeOK

\* Steps of the service leave the UI's own state alone and keep their types.
LEMMA ServiceTyped ==
    ASSUME TypeOK, Service
    PROVE  TypeOK'
<1>1. UNCHANGED <<process, status, attempt, timers, screen, binds>>
  BY DEF Service, ServiceStart, SessionSocket, SessionUp, SessionReconnects,
         SessionFails, ProcessGone
<1>2. starts \in Nat /\ vpn \in Vpn /\ dying \in Nat /\ events \in Seq(Event)
  BY Types
<1>3. starts' \in Nat /\ vpn' \in Vpn /\ dying' \in Nat /\ events' \in Seq(Event)
  <2>1. CASE ServiceStart
    <3>1. starts' \in Nat /\ vpn' \in Vpn
      BY <1>2, <2>1 DEF ServiceStart, Vpn
    <3>2. CASE vpn = "none"
      BY <1>2, <2>1, <3>1, <3>2 DEF ServiceStart
    <3>3. CASE vpn # "none"
      <4>1. EndSession
        BY <2>1, <3>3 DEF ServiceStart
      <4> QED BY <3>1, <4>1, EndSessionType
    <3> QED BY <3>2, <3>3
  <2>2. CASE SessionSocket
    BY <1>2, <2>2 DEF SessionSocket, Vpn
  <2>3. CASE SessionUp
    <3>1. "CONNECTED" \in Level /\ Report("CONNECTED")
      BY <2>3 DEF SessionUp, Level
    <3>2. events' \in Seq(Event)
      BY <3>1, ReportType
    <3> QED BY <1>2, <2>3, <3>2 DEF SessionUp, Vpn
  <2>4. CASE SessionReconnects
    BY <1>2, <2>4 DEF SessionReconnects, Vpn
  <2>5. CASE SessionFails
    <3>1. dying' \in Nat /\ events' \in Seq(Event)
      BY <2>5, EndSessionType DEF SessionFails
    <3> QED BY <1>2, <2>5, <3>1 DEF SessionFails, Vpn
  <2>6. CASE ProcessGone
    <3>1. "NOTCONNECTED" \in Level
      BY DEF Level
    <3>2. events' \in Seq(Event)
      BY <2>6, <3>1, ReportType DEF ProcessGone
    <3> QED BY <1>2, <2>6, <3>2 DEF ProcessGone
  <2> QED BY <2>1, <2>2, <2>3, <2>4, <2>5, <2>6 DEF Service
<1> QED BY <1>1, <1>3, Types, Typed DEF attempt, timers, screen

\* The runnables keep the types.
LEMMA RunnablesTyped ==
    ASSUME TypeOK, NEW i \in Instances,
           SingleConnectTimeout(i) \/ MaxConnectedTime(i) \/ Retry(i) \/ CheckLater(i)
    PROVE  TypeOK'
<1>1. /\ timeoutPosts \in [Instances -> Nat] /\ maxPosts \in [Instances -> Nat]
      /\ retryPosts \in [Instances -> Nat] /\ checkPosts \in [Instances -> Nat]
  BY Types DEF Counters
<1>2. index \in Nat /\ binds \in Nat /\ activity \in Instances
  BY Types
<1>3. continueConnect \in [Instances -> BOOLEAN]
  BY Types
<1>4. "UN_CONNECT" \in Status
  BY DEF Status
<1>5. CASE SingleConnectTimeout(i)
  <2>1. CASE port[i] = NullPort
    BY <1>5, <2>1, DieType DEF SingleConnectTimeout
  <2>2. CASE port[i] # NullPort
    <3>1. timeoutPosts' \in Counters
      BY <1>1, <1>5, <2>2 DEF SingleConnectTimeout, Take, Counters
    <3>2. retryPosts' \in Counters /\ index' \in Nat /\ binds' \in Nat
      BY <1>1, <1>2, <1>5, <2>2
      DEF SingleConnectTimeout, judgeIsReconnectByLastStrategy, Add, stopVpn, Counters
    <3>3. continueConnect' \in [Instances -> BOOLEAN]
      BY <1>3, <1>5, <2>2 DEF SingleConnectTimeout, judgeIsReconnectByLastStrategy, Set
    <3>4. UNCHANGED <<process, status, activity, port, loaded, maxPosts, checkPosts, screen, service>>
      BY <1>5, <2>2 DEF SingleConnectTimeout
    <3> QED BY <3>1, <3>2, <3>3, <3>4, Types, UiTyped DEF screen
  <2> QED BY <2>1, <2>2
<1>6. CASE MaxConnectedTime(i)
  <2>1. timeoutPosts' \in Counters
    BY <1>1, <1>2, <1>6 DEF MaxConnectedTime, Set, Counters
  <2>2. maxPosts' \in Counters
    BY <1>1, <1>2, <1>6 DEF MaxConnectedTime, Counters
  <2>3. binds' \in Nat /\ status' \in Status
    BY <1>2, <1>4, <1>6 DEF MaxConnectedTime, stopVpn
  <2>4. UNCHANGED <<process, attempt, retryPosts, checkPosts, screen, service>>
    BY <1>6 DEF MaxConnectedTime
  <2> QED BY <2>1, <2>2, <2>3, <2>4, Types, UiTyped DEF screen, attempt
<1>7. CASE Retry(i)
  <2>1. CASE Die("crashed")
    BY <2>1, DieType
  <2>2. CASE ~Die("crashed") /\ loaded[i] /\ index < Len(Strategies)
    <3>1. startConnect(i, index, port[i]) /\ Take(retryPosts, i)
          /\ UNCHANGED <<process, status, index, activity, continueConnect, loaded,
                         maxPosts, checkPosts, screen, binds>>
      BY <1>7, <2>2 DEF Retry
    <3>2. retryPosts' \in Counters
      BY <1>1, <1>7, <3>1 DEF Retry, Take, Counters
    <3>3. /\ status' \in Status /\ index' \in Nat
          /\ continueConnect' \in [Instances -> BOOLEAN]
          /\ loaded' \in [Instances -> BOOLEAN]
          /\ checkPosts' \in Counters /\ dialogs' \in Nat /\ page' \in Page
      BY <3>1, Types DEF screen
    <3>4. UNCHANGED <<process, activity, maxPosts, asking, binds>>
      BY <3>1 DEF screen
    <3>5. timeoutPosts' \in Counters /\ port' \in [Instances -> PortOrNone]
          /\ starts' \in Nat /\ UNCHANGED <<vpn, dying, events>>
      BY <2>2, <3>1, StartHereType
    <3> QED BY <3>2, <3>3, <3>4, <3>5, Types, Typed
  <2>3. CASE ~(loaded[i] /\ index < Len(Strategies))
    <3>1. /\ stopConnect
          /\ Set(continueConnect, i, FALSE)
          /\ asking' = (asking /\ i # activity)
          /\ Take(retryPosts, i)
          /\ UNCHANGED <<process, index, activity, port, loaded, checkPosts, dialogs, page, service>>
      BY <1>7, <2>3 DEF Retry
    <3>2. retryPosts' \in Counters
      BY <1>1, <1>7, <3>1 DEF Retry, Take, Counters
    <3>3. timeoutPosts' \in Counters /\ maxPosts' \in Counters
      BY <1>1, <1>2, <3>1 DEF stopConnect, setStatusUnConnect, Set, Counters
    <3>4. binds' \in Nat /\ status' \in Status
      BY <1>2, <1>4, <3>1 DEF stopConnect, setStatusUnConnect, stopVpn
    <3>5. continueConnect' \in [Instances -> BOOLEAN]
      BY <1>3, <3>1 DEF Set
    <3>6. asking' \in BOOLEAN
      BY <3>1, Zenon
    <3> QED BY <3>1, <3>2, <3>3, <3>4, <3>5, <3>6, Types, UiTyped
  <2> QED BY <2>1, <2>2, <2>3
<1>8. CASE CheckLater(i)
  <2>1. [checkPosts EXCEPT ![i] = @ - 1] \in Counters
    BY <1>1, <1>8 DEF CheckLater, Counters
  <2> QED BY <1>8, <2>1, CheckType, Types DEF CheckLater
<1> QED BY <1>5, <1>6, <1>7, <1>8

\* The callbacks keep the types.
LEMMA CallbacksTyped ==
    ASSUME TypeOK, Callbacks
    PROVE  TypeOK'
<1> DEFINE i == Head(events).to
<1>1. /\ timeoutPosts \in [Instances -> Nat] /\ maxPosts \in [Instances -> Nat]
      /\ retryPosts \in [Instances -> Nat]
  BY Types DEF Counters
<1>2. index \in Nat /\ binds \in Nat /\ activity \in Instances /\ events \in Seq(Event)
  BY Types
<1>3. continueConnect \in [Instances -> BOOLEAN]
  BY Types
<1>4. events # <<>> => i \in Instances /\ Tail(events) \in Seq(Event)
  <2> SUFFICES ASSUME events # <<>> PROVE i \in Instances /\ Tail(events) \in Seq(Event)
    OBVIOUS
  <2>1. Head(events) \in Event /\ Tail(events) \in Seq(Event)
    BY <1>2
  <2> QED BY <2>1 DEF Event
<1>5. CASE OnConnected
  <2>1. CASE port[i] = NullPort
    BY <1>5, <2>1, DieType DEF OnConnected
  <2>2. CASE port[i] # NullPort
    <3>1. /\ status' = "CONNECTED"
          /\ Add(maxPosts, activity)
          /\ Set(timeoutPosts, i, 0)
          /\ asking' = (asking /\ i # activity)
          /\ events' = Tail(events) /\ events # <<>>
          /\ UNCHANGED <<process, attempt, retryPosts, checkPosts, dialogs, page, binds,
                         starts, vpn, dying>>
      BY <1>5, <2>2 DEF OnConnected
    <3> HIDE DEF i
    <3>2. timeoutPosts' \in Counters /\ maxPosts' \in Counters
      BY <1>1, <1>2, <1>4, <3>1 DEF Set, Add, Counters
    <3>3. asking' \in BOOLEAN
      BY <3>1, Zenon
    <3>4. status' \in Status
      BY <3>1 DEF Status
    <3> QED BY <1>4, <3>1, <3>2, <3>3, <3>4, Types, Typed DEF attempt
  <2> QED BY <2>1, <2>2
<1>6. CASE OnNotConnected
  <2>1. CASE Die("crashed")
    BY <2>1, DieType
  <2>2. CASE ~Die("crashed")
    <3>1. /\ events' = Tail(events) /\ events # <<>>
          /\ UNCHANGED <<process, status, activity, port, loaded, maxPosts,
                         checkPosts, screen, starts, vpn, dying>>
      BY <1>6, <2>2 DEF OnNotConnected
    <3>2. \/ Set(continueConnect, i, FALSE) /\ UNCHANGED <<index, timeoutPosts, retryPosts, binds>>
          \/ Set(timeoutPosts, i, 0) /\ judgeIsReconnectByLastStrategy(i)
          \/ UNCHANGED <<index, continueConnect, timeoutPosts, retryPosts, binds>>
      BY <1>6, <2>2 DEF OnNotConnected
    <3> HIDE DEF i
    <3>3. /\ index' \in Nat /\ binds' \in Nat /\ timeoutPosts' \in Counters
          /\ retryPosts' \in Counters /\ continueConnect' \in [Instances -> BOOLEAN]
      <4>1. CASE Set(continueConnect, i, FALSE) /\ UNCHANGED <<index, timeoutPosts, retryPosts, binds>>
        <5>1. continueConnect' \in [Instances -> BOOLEAN]
          BY <1>3, <1>4, <3>1, <4>1 DEF Set
        <5> QED BY <4>1, <5>1, Types
      <4>2. CASE Set(timeoutPosts, i, 0) /\ judgeIsReconnectByLastStrategy(i)
        <5>1. index' \in Nat /\ binds' \in Nat
          BY <1>2, <4>2 DEF judgeIsReconnectByLastStrategy, stopVpn
        <5>2. timeoutPosts' \in Counters
          BY <1>1, <1>4, <3>1, <4>2 DEF Set, Counters
        <5>3. retryPosts' \in Counters
          BY <1>1, <1>4, <3>1, <4>2 DEF judgeIsReconnectByLastStrategy, Add, Counters
        <5>4. continueConnect' \in [Instances -> BOOLEAN]
          BY <1>3, <1>4, <3>1, <4>2 DEF judgeIsReconnectByLastStrategy, Set
        <5> QED BY <5>1, <5>2, <5>3, <5>4
      <4>3. CASE UNCHANGED <<index, continueConnect, timeoutPosts, retryPosts, binds>>
        BY <4>3, Types
      <4> QED BY <3>2, <4>1, <4>2, <4>3
    <3> QED BY <1>4, <3>1, <3>3, Types, Typed DEF screen
  <2> QED BY <2>1, <2>2
<1>7. CASE StopVPN
  <2>1. binds' \in Nat /\ UNCHANGED <<process, status, attempt, timers, screen, starts>>
    BY <1>2, <1>7 DEF StopVPN
  <2>2. vpn' \in Vpn /\ dying' \in Nat /\ events' \in Seq(Event)
    <3>1. CASE vpn \in {"connecting", "up"}
      <4>1. vpn' = "none" /\ EndSession
        BY <1>7, <3>1 DEF StopVPN
      <4> QED BY <4>1, EndSessionType DEF Vpn
    <3>2. CASE vpn \notin {"connecting", "up"}
      BY <1>7, <3>2, Types DEF StopVPN
    <3> QED BY <3>1, <3>2
  <2> QED BY <2>1, <2>2, Types, Typed DEF attempt, timers, screen
<1> QED BY <1>5, <1>6, <1>7 DEF Callbacks

\* What the user does without stopping, starting or replacing anything.
LEMMA ScreenTyped ==
    ASSUME TypeOK, UNCHANGED <<process, status, attempt, timers, binds, service>>,
           dialogs' \in Nat, asking' \in BOOLEAN, page' \in Page
    PROVE  TypeOK'
BY Types, Typed DEF attempt, timers, service

\* What the user does where the session is stopped.
LEMMA StopTyped ==
    ASSUME TypeOK, stopConnect, UNCHANGED <<process, attempt, retryPosts, dialogs, service>>,
           checkPosts' \in Counters, asking' \in BOOLEAN, page' \in Page
    PROVE  TypeOK'
<1>1. timeoutPosts' \in Counters /\ maxPosts' \in Counters
  BY Types DEF stopConnect, setStatusUnConnect, Set, Counters
<1>2. binds' \in Nat /\ status' \in Status
  BY Types DEF stopConnect, setStatusUnConnect, stopVpn, Status
<1> QED BY <1>1, <1>2, Types, Typed DEF attempt, service

\* What the user does keeps the types.
LEMMA UserTyped ==
    ASSUME TypeOK, User
    PROVE  TypeOK'
<1>0. activity \in Instances /\ checkPosts \in Counters /\ dialogs \in Nat
      /\ page \in Page /\ asking \in BOOLEAN
  BY Types
<1>1. {"main", "list", "askRefresh", "refreshing", "offer"} \subseteq Page
  BY DEF Page
<1>2. CASE ClickConnect
  BY <1>0, <1>2, CheckHereType DEF ClickConnect
<1>3. CASE ClickStop
  BY <1>0, <1>3, ScreenTyped DEF ClickStop
<1>4. CASE ConfirmStop
  BY <1>0, <1>4, StopTyped DEF ConfirmStop
<1>5. CASE CancelStop
  BY <1>0, <1>5, ScreenTyped DEF CancelStop
<1>6. CASE GrantPermission
  <2>1. CASE Die("crashed")
    BY <2>1, DieType
  <2>2. CASE ~Die("crashed")
    <3>1. /\ StartReturns(loaded[activity], index, port[activity])
          /\ startConnect(activity, index, port[activity])
          /\ dialogs' = dialogs - 1
          /\ UNCHANGED <<process, status, index, activity, continueConnect, loaded, maxPosts,
                         retryPosts, checkPosts, asking, page, binds>>
      BY <1>6, <2>2 DEF GrantPermission
    <3>2. index < Len(Strategies)
      BY <3>1 DEF StartReturns
    <3>3. timeoutPosts' \in Counters /\ port' \in [Instances -> PortOrNone]
          /\ starts' \in Nat /\ UNCHANGED <<vpn, dying, events>>
      <4>1. PICK i \in Instances : i = activity
        BY <1>0
      <4>2. startConnect(i, index, port[i])
        BY <3>1, <4>1 DEF startConnect, Add, Set
      <4> QED BY <3>2, <4>2, StartHereType
    <3>4. dialogs' \in Nat
      BY <1>0, <1>6, <3>1 DEF GrantPermission
    <3> QED BY <3>1, <3>3, <3>4, Types, Typed
  <2> QED BY <2>1, <2>2
<1>7. CASE DenyPermission
  <2>1. dialogs' \in Nat /\ UNCHANGED <<process, status, attempt, timers, asking, page, binds, service>>
    BY <1>0, <1>7 DEF DenyPermission
  <2> QED BY <1>0, <2>1, ScreenTyped
<1>8. ASSUME NEW pg \in Visits, OpenPage(pg)
      PROVE  TypeOK'
  BY <1>0, <1>1, <1>8, VisitsAssumption, ScreenTyped DEF OpenPage
<1>9. CASE ClosePage
  BY <1>0, <1>1, <1>9, ScreenTyped DEF ClosePage
<1>10. CASE ConnectFromPage
  BY <1>0, <1>1, <1>10, CheckHereType DEF ConnectFromPage
<1>11. CASE SelectProxy
  <2>1. checkPosts' \in Counters
    BY <1>0, <1>11 DEF SelectProxy, Add, Counters
  <2> QED BY <1>0, <1>1, <1>11, <2>1, StopTyped DEF SelectProxy
<1>12. CASE RefreshList
  <2>1. page' \in Page
    BY <1>1, <1>12 DEF RefreshList
  <2> QED BY <1>0, <1>12, <2>1, ScreenTyped DEF RefreshList
<1>13. CASE ConfirmRefresh
  BY <1>0, <1>1, <1>13, StopTyped DEF ConfirmRefresh
<1>14. CASE EndRefresh
  BY <1>0, <1>1, <1>14, ScreenTyped DEF EndRefresh
<1>15. CASE Background
  <2>1. asking' \in BOOLEAN
    BY <1>15, Zenon DEF Background
  <2>2. CASE stopConnect
    BY <1>0, <1>15, <2>1, <2>2, StopTyped DEF Background
  <2>3. CASE UNCHANGED <<status, timeoutPosts, maxPosts, binds>>
    <3>1. UNCHANGED <<process, attempt, retryPosts, checkPosts, dialogs, page, service>>
      BY <1>15 DEF Background
    <3> QED BY <1>0, <2>1, <2>3, <3>1, ScreenTyped DEF timers
  <2> QED BY <1>15, <2>2, <2>3 DEF Background
<1>16. CASE KillProcess
  BY <1>16, DieType DEF KillProcess
<1>17. CASE Reopen
  <2>1. process' \in {"running", "killed", "crashed"}
        /\ UNCHANGED <<status, attempt, timers, screen, binds, starts, vpn, dying>>
    BY <1>17 DEF Reopen
  <2>2. events' \in Seq(Event)
    <3>1. \A l \in Level : [level |-> l, to |-> activity] \in Event
      BY <1>0 DEF Event
    <3>2. CASE events' = <<>>
      BY <3>2
    <3>3. ASSUME NEW l \in Level, events' = <<[level |-> l, to |-> activity]>>
          PROVE  events' \in Seq(Event)
      <4> DEFINE e == [level |-> l, to |-> activity]
      <4>1. e \in Event
        BY <3>1
      <4> HIDE DEF e
      <4>2. <<e>> \in Seq(Event)
        BY <4>1
      <4> QED BY <3>3, <4>2 DEF e
    <3> QED BY <1>17, <3>2, <3>3 DEF Reopen, Level
  <2> QED BY <2>1, <2>2, Types, Typed DEF attempt, timers, screen
<1>18. CASE Recreate
  <2>1. PICK i \in Instances :
            /\ activity' = i
            /\ Set(continueConnect, i, FALSE) /\ Set(port, i, NullPort) /\ Set(loaded, i, FALSE)
    BY <1>18 DEF Recreate
  <2>2. continueConnect' \in [Instances -> BOOLEAN] /\ loaded' \in [Instances -> BOOLEAN]
    BY <2>1, Types DEF Set
  <2>3. port' \in [Instances -> PortOrNone]
    BY <2>1, Types DEF Set, PortOrNone
  <2>4. status' \in Status /\ asking' \in BOOLEAN
    BY <1>18 DEF Recreate, Status
  <2>5. binds' \in Nat
    <3>1. binds' \in IF MayForget THEN 0..binds ELSE {binds}
      BY <1>18 DEF Recreate
    <3>2. (IF MayForget THEN 0..binds ELSE {binds}) \subseteq Nat
      <4>1. CASE MayForget
        BY <4>1, Types
      <4>2. CASE ~MayForget
        BY <4>2, Types
      <4> QED BY <4>1, <4>2
    <3> QED BY <3>1, <3>2
  <2>6. UNCHANGED <<process, index, timers, dialogs, page, service>>
    BY <1>18 DEF Recreate
  <2> QED BY <2>1, <2>2, <2>3, <2>4, <2>5, <2>6, Types, Typed DEF timers, service
<1> QED BY <1>2, <1>3, <1>4, <1>5, <1>6, <1>7, <1>8, <1>9, <1>10, <1>11, <1>12,
           <1>13, <1>14, <1>15, <1>16, <1>17, <1>18 DEF User

\* A step keeps the types.
LEMMA NextTyped ==
    ASSUME TypeOK, [Next]_vars
    PROVE  TypeOK'
<1>1. CASE Next
  BY <1>1, ServiceTyped, RunnablesTyped, CallbacksTyped, UserTyped DEF Next, Runnables
<1>2. CASE UNCHANGED vars
  BY <1>2, Types, Typed DEF vars, attempt, timers, screen, service
<1> QED BY <1>1, <1>2

\* Every variable of MainActivity's connection flow keeps its type, for every
\* number of instances, every list of strategies, every set of ports and every
\* bound; no counter of posts goes below zero.
THEOREM TypeCorrect == Spec => []TypeOK
BY InitType, NextTyped, PTL DEF Spec

-----------------------------------------------------------------------------
(* What ends a session that is up.                                         *)

\* A level that will post the limit is under way.
ConnectedDue == \E e \in DOMAIN events : events[e].level = "CONNECTED"

\* What limits the session that is up, or is going to limit or end it.
Limited == (\E i \in Instances : maxPosts[i] > 0) \/ ConnectedDue \/ binds > 0

\* A level that is added to the queue does not displace another one.
LEMMA ReportKeepsDue ==
    ASSUME TypeOK, NEW level, Report(level), ConnectedDue
    PROVE  ConnectedDue'
<1>1. events \in Seq(Event)
  BY Types
<1>2. PICK e \in DOMAIN events : events[e].level = "CONNECTED"
  BY DEF ConnectedDue
<1>3. CASE events' = Append(events, [level |-> level, to |-> activity])
  <2>1. e \in DOMAIN events' /\ events'[e] = events[e]
    BY <1>1, <1>2, <1>3
  <2> QED BY <1>2, <2>1 DEF ConnectedDue
<1>4. CASE UNCHANGED events
  BY <1>2, <1>4 DEF ConnectedDue
<1> QED BY <1>3, <1>4 DEF Report

\* What the session reports when it is up is a level that will limit it.
LEMMA UpIsReported ==
    ASSUME TypeOK, Running, Report("CONNECTED")
    PROVE  ConnectedDue'
<1>1. events \in Seq(Event)
  BY Types
<1>2. events' = Append(events, [level |-> "CONNECTED", to |-> activity])
  BY DEF Report
<1>3. Len(events) + 1 \in DOMAIN events' /\ events'[Len(events) + 1].level = "CONNECTED"
  BY <1>1, <1>2
<1> QED BY <1>3 DEF ConnectedDue

\* A level that is not CONNECTED does not hide one that is.
LEMMA TailKeepsDue ==
    ASSUME TypeOK, events # <<>>, Head(events).level # "CONNECTED", events' = Tail(events),
           ConnectedDue
    PROVE  ConnectedDue'
<1>1. events \in Seq(Event)
  BY Types
<1>2. PICK e \in DOMAIN events : events[e].level = "CONNECTED"
  BY DEF ConnectedDue
<1>3. e # 1 /\ e \in 1 .. Len(events)
  BY <1>1, <1>2
<1>4. e - 1 \in DOMAIN events' /\ events'[e - 1] = events[e]
  BY <1>1, <1>3
<1> QED BY <1>2, <1>4 DEF ConnectedDue

\* A step that changes none of it keeps the limit.
LEMMA LimitKept ==
    ASSUME Limited, UNCHANGED <<maxPosts, binds, events>>
    PROVE  Limited'
BY DEF Limited, ConnectedDue

\* checkVPNPermission does not touch the limit.
LEMMA CheckKeepsLimit ==
    ASSUME NEW i, NEW cp, NEW pg, checkVPNPermission(i, cp, pg), Running'
    PROVE  UNCHANGED <<maxPosts, binds, events, vpn, process>>
<1>1. ~Die("crashed")
  BY DEF Die, Running
<1> QED BY <1>1, CheckCases DEF startConnect, service

\* Every step of the process that leaves it running takes the limit along: a
\* stop is counted in binds, a CONNECTED is exchanged for a post.
LEMMA LimitStep ==
    ASSUME TypeOK, UpIsLimited, Running, Running', ~(MayRecreate /\ MayForget), [Next]_vars
    PROVE  UpIsLimited'
<1> SUFFICES ASSUME vpn' = "up" PROVE Limited'
  BY DEF UpIsLimited, Limited, ConnectedDue
<1>1. binds \in Nat /\ maxPosts \in [Instances -> Nat] /\ activity \in Instances
  BY Types DEF Counters
<1>2. vpn = "up" => Limited
  BY DEF UpIsLimited, Limited, ConnectedDue
<1>3. \A how \in {"killed", "crashed"} : ~Die(how)
  BY DEF Die, Running
<1>4. ASSUME binds' = binds + 1 PROVE Limited'
  BY <1>1, <1>4 DEF Limited
<1>5. ASSUME UNCHANGED <<maxPosts, binds, events, vpn>> PROVE Limited'
  BY <1>2, <1>5, LimitKept
<1>6. CASE Service
  <2>1. CASE SessionUp
    BY <2>1, UpIsReported DEF SessionUp, Limited
  <2>2. CASE ProcessGone
    <3>1. UNCHANGED <<maxPosts, binds, vpn>> /\ Report("NOTCONNECTED")
      BY <2>2 DEF ProcessGone, timers
    <3>2. ConnectedDue => ConnectedDue'
      BY <3>1, ReportKeepsDue
    <3> QED BY <1>2, <3>1, <3>2 DEF Limited
  <2>3. ~ServiceStart /\ ~SessionSocket /\ ~SessionReconnects /\ ~SessionFails
    BY DEF ServiceStart, SessionSocket, SessionReconnects, SessionFails
  <2> QED BY <1>6, <2>1, <2>2, <2>3 DEF Service
<1>7. ASSUME NEW i \in Instances, SingleConnectTimeout(i) PROVE Limited'
  BY <1>3, <1>4, <1>7 DEF SingleConnectTimeout, judgeIsReconnectByLastStrategy, stopVpn
<1>8. ASSUME NEW i \in Instances, MaxConnectedTime(i) PROVE Limited'
  BY <1>4, <1>8 DEF MaxConnectedTime, stopVpn
<1>9. ASSUME NEW i \in Instances, Retry(i) PROVE Limited'
  <2>1. binds' = binds + 1 \/ UNCHANGED <<maxPosts, binds, events, vpn>>
    BY <1>3, <1>9 DEF Retry, startConnect, stopConnect, stopVpn
  <2> QED BY <1>4, <1>5, <2>1
<1>10. ASSUME NEW i \in Instances, CheckLater(i) PROVE Limited'
  BY <1>5, <1>10, CheckKeepsLimit DEF CheckLater
<1>11. CASE OnConnected
  <2>1. Add(maxPosts, activity)
    BY <1>3, <1>11 DEF OnConnected
  <2>2. maxPosts'[activity] > 0
    BY <1>1, <2>1 DEF Add
  <2> QED BY <1>1, <2>2 DEF Limited
<1>12. CASE OnNotConnected
  <2>1. UNCHANGED <<maxPosts, vpn>> /\ (binds' = binds \/ binds' = binds + 1)
    BY <1>3, <1>12 DEF OnNotConnected, judgeIsReconnectByLastStrategy, stopVpn
  <2>2. ConnectedDue => ConnectedDue'
    BY <1>3, <1>12, TailKeepsDue DEF OnNotConnected
  <2> QED BY <1>2, <1>4, <2>1, <2>2 DEF Limited
<1>13. ~StopVPN
  BY DEF StopVPN
<1>14. CASE ClickConnect \/ ConnectFromPage
  <2>1. PICK i \in Instances : i = activity
    BY <1>1
  <2>2. PICK pg : checkVPNPermission(i, checkPosts, pg)
    BY <1>14, <2>1 DEF ClickConnect, ConnectFromPage, checkVPNPermission, startConnect, Set, Add
  <2> QED BY <1>5, <2>2, CheckKeepsLimit
<1>15. CASE ConfirmStop \/ SelectProxy \/ ConfirmRefresh
  BY <1>4, <1>15 DEF ConfirmStop, SelectProxy, ConfirmRefresh, stopConnect, stopVpn
<1>16. CASE Background
  <2>1. binds' = binds + 1 \/ UNCHANGED <<maxPosts, binds, events, vpn>>
    BY <1>16 DEF Background, stopConnect, stopVpn, service
  <2> QED BY <1>4, <1>5, <2>1
<1>17. CASE GrantPermission
  BY <1>3, <1>5, <1>17 DEF GrantPermission, startConnect
<1>18. CASE ClickStop \/ CancelStop \/ DenyPermission \/ ClosePage \/ RefreshList \/ EndRefresh
            \/ (\E pg \in Visits : OpenPage(pg)) \/ UNCHANGED vars
  BY <1>5, <1>18 DEF ClickStop, CancelStop, DenyPermission, ClosePage, RefreshList, EndRefresh,
                     OpenPage, vars, timers, service
<1>19. CASE Recreate
  <2>1. binds' \in IF MayForget THEN 0..binds ELSE {binds}
    BY <1>19 DEF Recreate
  <2>2. ~MayForget
    BY <1>19 DEF Recreate
  <2>3. binds' = binds
    BY <2>1, <2>2
  <2> QED BY <1>5, <1>19, <2>3 DEF Recreate, timers, service
<1>20. ~KillProcess /\ ~Reopen
  BY <1>3 DEF KillProcess, Reopen
<1> QED BY <1>6, <1>7, <1>8, <1>9, <1>10, <1>11, <1>12, <1>13, <1>14, <1>15, <1>16,
           <1>17, <1>18, <1>19, <1>20 DEF Next, Runnables, Callbacks, User

\* A process that is gone stays gone where the app is not opened again.
LEMMA NeverReopened ==
    ASSUME ~MayReopen, ~Running, [Next]_vars
    PROVE  ~Running'
<1>1. CASE Service
  BY <1>1 DEF Service, ServiceStart, SessionSocket, SessionUp, SessionReconnects,
              SessionFails, ProcessGone, Running
<1>2. CASE Runnables
  BY <1>2 DEF Runnables, SingleConnectTimeout, MaxConnectedTime, Retry, CheckLater
<1>3. CASE Callbacks
  BY <1>3 DEF Callbacks, OnConnected, OnNotConnected, StopVPN
<1>4. CASE User
  BY <1>4 DEF User, ClickConnect, ClickStop, ConfirmStop, CancelStop, GrantPermission,
              DenyPermission, OpenPage, ClosePage, ConnectFromPage, SelectProxy, RefreshList,
              ConfirmRefresh, EndRefresh, Background, KillProcess, Reopen, Recreate,
              OnMain, UserActs
<1>5. CASE UNCHANGED vars
  BY <1>5 DEF vars, Running
<1> QED BY <1>1, <1>2, <1>3, <1>4, <1>5 DEF Next

\* As long as the first UI process lives, and no recreation of the activity drops
\* a binding of stopVpn on its way, a session that is up is always limited or
\* about to be, or to be stopped: whatever the other instances of the activity,
\* refused permissions, stops, late levels and retries do.
THEOREM SessionsAreLimited ==
    ASSUME ~MayReopen, ~(MayRecreate /\ MayForget)
    PROVE  Spec => []UpIsLimited
<1>1. Init => UpIsLimited
  BY DEF Init, UpIsLimited
<1>2. TypeOK /\ UpIsLimited /\ [Next]_vars => UpIsLimited'
  <2>1. ~Running' => UpIsLimited'
    BY DEF UpIsLimited
  <2> QED BY <2>1, NeverReopened, LimitStep
<1> QED BY <1>1, <1>2, TypeCorrect, PTL DEF Spec

-----------------------------------------------------------------------------
(* What moves an attempt on.                                               *)

\* checkVPNPermission opens a dialog, posts a timeout or crashes.
LEMMA CheckWatches ==
    ASSUME TypeOK, TypeOK', ~MayDeny, NEW i \in Instances, NEW cp, NEW pg,
           checkVPNPermission(i, cp, pg)
    PROVE  ConnectingIsWatched'
<1>1. CASE Die("crashed")
  BY <1>1 DEF Die, ConnectingIsWatched
<1>2. ASSUME NEW current, startConnect(i, 0, current) PROVE ConnectingIsWatched'
  <2>1. timeoutPosts \in [Instances -> Nat] /\ retryPosts' \in [Instances -> Nat]
    BY Types DEF TypeOK, UiTypeOK
  <2>2. timeoutPosts'[i] > 0 /\ timeoutPosts'[i] \in Nat
    BY <1>2, <2>1 DEF startConnect, Add
  <2> QED BY <2>1, <2>2 DEF ConnectingIsWatched
<1>3. CASE dialogs' = dialogs + 1
  <2>1. dialogs' > 0
    BY <1>3, Types
  <2> QED BY <2>1 DEF ConnectingIsWatched
<1> QED BY <1>1, <1>2, <1>3, CheckCases

\* A step never leaves an attempt without anything to move it on.
LEMMA WatchStep ==
    ASSUME TypeOK, TypeOK', ConnectingIsWatched, ~MayDeny, [Next]_vars
    PROVE  ConnectingIsWatched'
<1>1. /\ timeoutPosts \in [Instances -> Nat] /\ retryPosts \in [Instances -> Nat]
      /\ timeoutPosts' \in [Instances -> Nat] /\ retryPosts' \in [Instances -> Nat]
      /\ dialogs \in Nat /\ activity \in Instances
  BY Types DEF TypeOK, UiTypeOK, Counters
<1>2. ASSUME UNCHANGED <<status, timeoutPosts, retryPosts, dialogs>> PROVE ConnectingIsWatched'
  BY <1>2 DEF ConnectingIsWatched
<1>3. ASSUME status' # "CONNECTING" PROVE ConnectingIsWatched'
  BY <1>3 DEF ConnectingIsWatched
<1>4. ASSUME NEW i \in Instances, timeoutPosts'[i] > 0 PROVE ConnectingIsWatched'
  BY <1>1, <1>4 DEF ConnectingIsWatched
<1>5. ASSUME NEW i \in Instances, retryPosts'[i] > 0 PROVE ConnectingIsWatched'
  BY <1>1, <1>5 DEF ConnectingIsWatched
<1>6. ASSUME NEW how, Die(how) PROVE ConnectingIsWatched'
  BY <1>3, <1>6 DEF Die
<1>7. ASSUME stopConnect PROVE ConnectingIsWatched'
  BY <1>3, <1>7 DEF stopConnect, setStatusUnConnect
<1>8. CASE Service
  BY <1>2, <1>8 DEF Service, ServiceStart, SessionSocket, SessionUp, SessionReconnects,
                    SessionFails, ProcessGone, timers, screen
<1>9. ASSUME NEW i \in Instances, SingleConnectTimeout(i) PROVE ConnectingIsWatched'
  <2>1. CASE Add(retryPosts, i)
    <3>1. retryPosts'[i] > 0
      BY <1>1, <2>1 DEF Add
    <3> QED BY <1>5, <3>1
  <2> QED BY <1>6, <1>9, <2>1 DEF SingleConnectTimeout, judgeIsReconnectByLastStrategy
<1>10. ASSUME NEW i \in Instances, MaxConnectedTime(i) PROVE ConnectingIsWatched'
  BY <1>3, <1>10 DEF MaxConnectedTime
<1>11. ASSUME NEW i \in Instances, Retry(i) PROVE ConnectingIsWatched'
  <2>1. CASE startConnect(i, index, port[i])
    <3>1. timeoutPosts'[i] > 0
      BY <1>1, <2>1 DEF startConnect, Add
    <3> QED BY <1>4, <3>1
  <2> QED BY <1>6, <1>7, <1>11, <2>1 DEF Retry
<1>12. ASSUME NEW i \in Instances, CheckLater(i) PROVE ConnectingIsWatched'
  BY <1>12, CheckWatches DEF CheckLater
<1>13. CASE OnConnected
  BY <1>3, <1>6, <1>13 DEF OnConnected
<1>14. CASE OnNotConnected
  <2> DEFINE i == Head(events).to
  <2>1. CASE judgeIsReconnectByLastStrategy(i) /\ events # <<>>
    <3>1. i \in Instances
      <4>1. Head(events) \in Event
        BY <2>1, Types
      <4> QED BY <4>1 DEF Event
    <3>2. retryPosts'[i] > 0
      BY <1>1, <2>1, <3>1 DEF judgeIsReconnectByLastStrategy, Add
    <3> QED BY <1>5, <3>1, <3>2
  <2>2. CASE UNCHANGED <<status, timeoutPosts, retryPosts, dialogs>>
    BY <1>2, <2>2
  <2> QED BY <1>6, <1>14, <2>1, <2>2 DEF OnNotConnected, screen
<1>15. CASE StopVPN
  BY <1>2, <1>15 DEF StopVPN, timers, screen
<1>16. CASE ClickConnect \/ ConnectFromPage
  <2>1. PICK i \in Instances : i = activity
    BY <1>1
  <2>2. PICK pg : checkVPNPermission(i, checkPosts, pg)
    BY <1>16, <2>1 DEF ClickConnect, ConnectFromPage, checkVPNPermission, startConnect, Set, Add
  <2> QED BY <2>2, CheckWatches
<1>17. CASE GrantPermission
  <2>1. CASE startConnect(activity, index, port[activity])
    <3>1. timeoutPosts'[activity] > 0
      BY <1>1, <2>1 DEF startConnect, Add
    <3> QED BY <1>1, <1>4, <3>1
  <2> QED BY <1>6, <1>17, <2>1 DEF GrantPermission
<1>18. CASE ConfirmStop \/ SelectProxy \/ ConfirmRefresh
  BY <1>7, <1>18 DEF ConfirmStop, SelectProxy, ConfirmRefresh
<1>19. CASE Background
  <2>1. CASE status = "CONNECTING"
    BY <1>7, <1>19, <2>1 DEF Background
  <2>2. CASE status # "CONNECTING"
    BY <1>3, <1>19, <2>2 DEF Background
  <2> QED BY <2>1, <2>2
<1>20. CASE ClickStop \/ CancelStop \/ ClosePage \/ RefreshList \/ EndRefresh \/ Reopen
            \/ (\E pg \in Visits : OpenPage(pg)) \/ UNCHANGED vars
  BY <1>2, <1>20 DEF ClickStop, CancelStop, ClosePage, RefreshList, EndRefresh, Reopen, OpenPage,
                     vars, timers, screen
<1>21. CASE KillProcess
  BY <1>6, <1>21 DEF KillProcess
<1>22. CASE Recreate
  BY <1>3, <1>22 DEF Recreate
<1> QED BY <1>8, <1>9, <1>10, <1>11, <1>12, <1>13, <1>14, <1>15, <1>16, <1>17, <1>18, <1>19,
           <1>20, <1>21, <1>22 DEF Next, Runnables, Callbacks, User, DenyPermission

\* Unless the VPN permission is refused, an attempt always has a timeout, a next
\* try or the permission dialog to move it on, also across kills of the process
\* and recreations of the activity.
THEOREM AttemptsAreWatched ==
    ASSUME ~MayDeny
    PROVE  Spec => []ConnectingIsWatched
<1>1. Init => ConnectingIsWatched
  BY DEF Init, ConnectingIsWatched
<1>2. TypeOK /\ ConnectingIsWatched /\ [Next]_vars => ConnectingIsWatched'
  BY NextTyped, WatchStep
<1> QED BY <1>1, <1>2, TypeCorrect, PTL DEF Spec
=============================================================================
