----------------------------- MODULE ConnectFlow -----------------------------
(***************************************************************************)
(* How the app connects: MainActivity and the pages that return to it.     *)
(*                                                                         *)
(* All handlers below run on the main thread of the UI process, so each is *)
(* one action.  What interleaves is when they run: clicks, the runnables   *)
(* in an activity's Handler, onServiceConnected of the bindings stopVpn    *)
(* makes, and the levels the :openvpn process reports.  MainActivity is    *)
(* recreated in the live process when the language, the font size or the   *)
(* dark mode changes (the manifest has no configChanges): runnables and    *)
(* levels posted by an earlier instance then still run, on its own fields, *)
(* beside those of the instance shown.  Shared are the status and the      *)
(* index, which are static.  The :openvpn process is reduced to what the   *)
(* UI can tell: it obeys start intents in order, a stop reaches a session  *)
(* only once its management socket is open, and a session that ends        *)
(* reports NOTCONNECTED once or twice, at its leisure.  The app offers the *)
(* same ports on every proxy here.                                         *)
(***************************************************************************)
EXTENDS Naturals, Sequences, Functions

CONSTANTS
    Instances,   \* objects of class MainActivity
    Strategies,  \* SpUtil.getConnectType: the protocols to try, in order
    PortsOf,     \* the ports of a proxy, by protocol
    NullPort,    \* currentConnectPort = null
    NoPort,      \* currentConnectPort = ""
    MayAsk,      \* may VpnService.prepare ask the user for permission?
    MayDeny,     \* may that permission be refused, or its dialog be missing?
    Visits,      \* the pages the user may open
    MayLeave,    \* may the user send the app to the background?
    MayRecreate, \* may the activity be recreated in the live process?
    MayForget,   \* may Android then drop bindings that were not yet connected?
    MayReopen,   \* may the process be killed, and the app be opened once it is gone?
    MaxPosts,    \* bound on the runnables and dialogs pending when the user acts
    MaxCalls,    \* bound on the starts and bindings under way when the user acts
    MaxLeft,     \* bound on all of these, and the limits posted, at a recreation
    MaxDying,    \* bound on the sessions dying when the service acts
    MaxEvents    \* bound on the levels under way when the service reports one

Protocol == {"TCP", "UDP"}

ASSUME StrategiesAssumption == Strategies \in Seq(Protocol)
ASSUME PortsAssumption == /\ DOMAIN PortsOf = Protocol
                          /\ \A p \in Protocol : {NullPort, NoPort} \cap PortsOf[p] = {}
                          /\ NullPort # NoPort
ASSUME SwitchesAssumption ==
    {MayAsk, MayDeny, MayLeave, MayRecreate, MayForget, MayReopen} \subseteq BOOLEAN
ASSUME VisitsAssumption == Visits \subseteq {"list", "offer"}
ASSUME BoundsAssumption == {MaxPosts, MaxCalls, MaxLeft, MaxDying, MaxEvents} \subseteq Nat

VARIABLES
    process,          \* the UI process: running, killed, crashed by an exception
    status,           \* ConnectStatusUtil.status
    index,            \* currentConnectStrategyIndex
    activity,         \* the instance shown, whose listeners are registered
    continueConnect,  \* by instance
    port,             \* currentConnectPort, by instance
    loaded,           \* is the instance's connectStrategyList filled?
    timeoutPosts,     \* posts of singleConnectTimeout, by instance
    maxPosts,         \* posts of maxConnectedTime, by instance
    retryPosts,       \* posts of judgeIsReconnectByLastStrategy's runnable, by instance
    checkPosts,       \* posts of the runnable that calls checkVPNPermission, by instance
    dialogs,          \* permission dialogs (request 95270) not yet answered
    asking,           \* the interrupt or the disconnect dialog is showing
    page,             \* what covers MainActivity
    binds,            \* bindings of stopVpn not yet connected
    starts,           \* start intents the service has not yet obeyed
    vpn,              \* the session of the service
    dying,            \* sessions that still have to report NOPROCESS
    events            \* levels under way to the UI thread

timers == <<timeoutPosts, maxPosts, retryPosts, checkPosts>>
attempt == <<index, activity, continueConnect, port, loaded>>
screen == <<dialogs, asking, page>>
service == <<starts, vpn, dying, events>>
vars == <<process, status, attempt, timers, screen, binds, service>>

-----------------------------------------------------------------------------
Status == {"UN_CONNECT", "CONNECTING", "CONNECTED"}
\* the main page; the proxy list: idle, asking whether to refresh, refreshing;
\* the speed or location page with its connect button
Page == {"main", "list", "askRefresh", "refreshing", "offer"}
Vpn == {"none", "launching", "connecting", "up"}
Level == {"CONNECTED", "NOTCONNECTED"}
\* a level, and the instance whose listener posted it to the UI thread
Event == [level : Level, to : Instances]
Ports == PortsOf["TCP"] \cup PortsOf["UDP"]

Running == process = "running"
Posts(i) == timeoutPosts[i] + retryPosts[i] + checkPosts[i]
Pending == FoldFunction(+, dialogs, [i \in Instances |-> Posts(i)])
Limits == FoldFunction(+, 0, maxPosts)
\* The bounds hold back the user and the service, never the main looper.
UserActs == /\ Running
            /\ Pending <= MaxPosts
            /\ starts + binds <= MaxCalls
ServiceActs == dying < MaxDying
OnMain == UserActs /\ page = "main" /\ dialogs = 0

-----------------------------------------------------------------------------
(* The service.                                                            *)

\* VpnStatus.updateStateString, as the listener of the instance shown posts it
\* to the UI thread: lost when there is no UI process to tell.
Report(level) ==
    IF Running
    THEN /\ Len(events) < MaxEvents
         /\ events' = Append(events, [level |-> level, to |-> activity])
    ELSE UNCHANGED events

\* The session ends.  EXITING may be read from the socket before it closes;
\* NOPROCESS follows when the process is gone.
EndSession ==
    /\ dying' = dying + 1
    /\ Report("NOTCONNECTED") \/ UNCHANGED events

\* startOpenVPN: the running session is replaced.  Without a management socket
\* it gives up and reports nothing.
ServiceStart ==
    /\ ServiceActs /\ starts > 0
    /\ starts' = starts - 1
    /\ vpn' \in {"launching", "none"}
    /\ IF vpn = "none" THEN UNCHANGED <<dying, events>> ELSE EndSession
    /\ UNCHANGED <<process, status, attempt, timers, screen, binds>>

\* openvpn connects to the management socket.
SessionSocket ==
    /\ vpn = "launching"
    /\ vpn' = "connecting"
    /\ UNCHANGED <<process, status, attempt, timers, screen, binds, starts, dying, events>>

SessionUp ==
    /\ vpn = "connecting"
    /\ vpn' = "up"
    /\ Report("CONNECTED")
    /\ UNCHANGED <<process, status, attempt, timers, screen, binds, starts, dying>>

\* The network changed or the server restarted the session.
SessionReconnects ==
    /\ vpn = "up" /\ Limits <= MaxPosts /\ binds <= MaxCalls
    /\ vpn' = "connecting"
    /\ UNCHANGED <<process, status, attempt, timers, screen, binds, starts, dying, events>>

SessionFails ==
    /\ ServiceActs /\ vpn # "none"
    /\ vpn' = "none"
    /\ EndSession
    /\ UNCHANGED <<process, status, attempt, timers, screen, binds, starts>>

ProcessGone ==
    /\ dying > 0
    /\ dying' = dying - 1
    /\ Report("NOTCONNECTED")
    /\ UNCHANGED <<process, status, attempt, timers, screen, binds, starts, vpn>>

-----------------------------------------------------------------------------
(* What the handlers of MainActivity call, on the instance i they belong to. *)

Set(f, i, v) == f' = [f EXCEPT ![i] = v]
Add(f, i) == f' = [f EXCEPT ![i] = @ + 1]
Take(f, i) == f' = [f EXCEPT ![i] = @ - 1]

\* VpnManage.stopVpn
stopVpn == binds' = binds + 1

\* ConnectStatusUtil.setStatus(UN_CONNECT): the listener is the shown instance's,
\* and so are the runnables it removes.
setStatusUnConnect ==
    /\ status' = "UN_CONNECT"
    /\ Set(timeoutPosts, activity, 0)
    /\ Set(maxPosts, activity, 0)

stopConnect == stopVpn /\ setStatusUnConnect

\* The process is gone, and with it what it kept and what was on its way to it.
Die(how) ==
    /\ process' = how
    /\ status' = "UN_CONNECT" /\ index' = 0
    /\ continueConnect' = [i \in Instances |-> FALSE]
    /\ port' = [i \in Instances |-> NullPort]
    /\ loaded' = [i \in Instances |-> FALSE]
    /\ timeoutPosts' = [i \in Instances |-> 0] /\ maxPosts' = [i \in Instances |-> 0]
    /\ retryPosts' = [i \in Instances |-> 0] /\ checkPosts' = [i \in Instances |-> 0]
    /\ dialogs' = 0 /\ asking' = FALSE /\ page' = "main"
    /\ binds' = 0 /\ events' = <<>>
    /\ UNCHANGED <<activity, starts, vpn, dying>>

\* getRandomPort(portList): it calls itself until the port differs from the
\* current one, and keeps the current one when there is no port at all.
RandomPorts(portList, current) ==
    IF portList = {} THEN {current} ELSE portList \ {current}

\* Does startConnect return, with the list filled or not, index x and
\* currentConnectPort = current?  get(x) throws beyond the end, and getRandomPort
\* overflows the stack when the only port is the current one.
StartReturns(filled, x, current) ==
    /\ filled /\ x < Len(Strategies)
    /\ RandomPorts(PortsOf[Strategies[x + 1]], current) # {}

\* startConnect, at index x, with currentConnectPort = current
startConnect(i, x, current) ==
    /\ Add(timeoutPosts, i)
    /\ \E p \in RandomPorts(PortsOf[Strategies[x + 1]], current) : Set(port, i, p)
    /\ starts' = starts + 1
    /\ UNCHANGED <<vpn, dying, events>>

\* checkVPNPermission, as the whole of a handler that leaves cp for checkPosts
\* and the page pg.  It resets the port unless it is called while CONNECTED.
checkVPNPermission(i, cp, pg) ==
    LET current == IF status = "CONNECTED" THEN port[i] ELSE NoPort IN
    \/ /\ MayAsk
       /\ Set(continueConnect, i, FALSE) /\ index' = 0
       /\ Set(port, i, current) /\ Set(loaded, i, TRUE)
       /\ status' = "CONNECTING"
       /\ \/ dialogs' = dialogs + 1
          \/ MayDeny /\ UNCHANGED dialogs
       /\ checkPosts' = cp /\ page' = pg
       /\ UNCHANGED <<process, activity, timeoutPosts, maxPosts, retryPosts, asking, binds, service>>
    \/ /\ StartReturns(TRUE, 0, current)
       /\ Set(continueConnect, i, FALSE) /\ index' = 0 /\ Set(loaded, i, TRUE)
       /\ status' = "CONNECTING"
       /\ startConnect(i, 0, current)
       /\ checkPosts' = cp /\ page' = pg
       /\ UNCHANGED <<process, activity, maxPosts, retryPosts, dialogs, asking, binds>>
    \/ ~StartReturns(TRUE, 0, current) /\ Die("crashed")

judgeIsReconnectByLastStrategy(i) ==
    /\ index' = index + 1
    /\ Set(continueConnect, i, TRUE)
    /\ stopVpn
    /\ Add(retryPosts, i)

-----------------------------------------------------------------------------
(* Runnables of the Handler of an instance, the one shown or not.          *)

\* singleConnectTimeout; uploadConnectResult needs a port that is not null.
SingleConnectTimeout(i) ==
    /\ Running /\ timeoutPosts[i] > 0
    /\ IF port[i] = NullPort
       THEN Die("crashed")
       ELSE /\ judgeIsReconnectByLastStrategy(i)
            /\ Take(timeoutPosts, i)
            /\ UNCHANGED <<process, status, activity, port, loaded, maxPosts, checkPosts, screen, service>>

MaxConnectedTime(i) ==
    /\ Running /\ maxPosts[i] > 0
    /\ stopVpn
    /\ status' = "UN_CONNECT"
    /\ Set(timeoutPosts, activity, 0)
    /\ maxPosts' = [[maxPosts EXCEPT ![i] = @ - 1] EXCEPT ![activity] = 0]
    /\ UNCHANGED <<process, attempt, retryPosts, checkPosts, screen, service>>

\* The runnable of judgeIsReconnectByLastStrategy, 200 ms later.
Retry(i) ==
    /\ Running /\ retryPosts[i] > 0
    /\ IF loaded[i] /\ index < Len(Strategies)
       THEN \/ /\ StartReturns(TRUE, index, port[i])
               /\ startConnect(i, index, port[i])
               /\ Take(retryPosts, i)
               /\ UNCHANGED <<process, status, index, activity, continueConnect, loaded,
                              maxPosts, checkPosts, screen, binds>>
            \/ ~StartReturns(TRUE, index, port[i]) /\ Die("crashed")
       ELSE /\ stopConnect
            /\ Set(continueConnect, i, FALSE)
            /\ asking' = (asking /\ i # activity)
            /\ Take(retryPosts, i)
            /\ UNCHANGED <<process, index, activity, port, loaded, checkPosts, dialogs, page, service>>

\* The runnable posted by onActivityResult for 5001 and 5002, 200 ms later.
CheckLater(i) ==
    /\ Running /\ checkPosts[i] > 0
    /\ checkVPNPermission(i, [checkPosts EXCEPT ![i] = @ - 1], page)

-----------------------------------------------------------------------------
(* Levels reported by VpnStatus.connectStatusListener, as the runnable the *)
(* listener of an instance posted handles them.                            *)

\* Mutant: the attempt is given up, and nothing is tried after it.
OnNotConnectedGivesUp ==
    /\ Running /\ events # <<>> /\ Head(events).level = "NOTCONNECTED"
    /\ LET i == Head(events).to IN
       \/ /\ continueConnect[i]
          /\ Set(continueConnect, i, FALSE)
          /\ UNCHANGED timeoutPosts
       \/ /\ ~continueConnect[i] /\ status = "CONNECTING"
          /\ Set(timeoutPosts, i, 0)
          /\ UNCHANGED continueConnect
       \/ /\ ~continueConnect[i] /\ status # "CONNECTING"
          /\ UNCHANGED <<continueConnect, timeoutPosts>>
    /\ events' = Tail(events)
    /\ UNCHANGED <<process, status, index, activity, port, loaded, maxPosts, retryPosts,
                   checkPosts, screen, binds, starts, vpn, dying>>

\* Mutant: a CONNECTED that comes after a stop is ignored.
OnConnectedUnlessStopped ==
    /\ Running /\ events # <<>> /\ Head(events).level = "CONNECTED"
    /\ LET i == Head(events).to IN
       IF status = "UN_CONNECT"
       THEN UNCHANGED <<status, maxPosts, timeoutPosts, asking>>
       ELSE /\ status' = "CONNECTED"
            /\ Add(maxPosts, activity)
            /\ Set(timeoutPosts, i, 0)
            /\ asking' = (asking /\ i # activity)
    /\ events' = Tail(events)
    /\ UNCHANGED <<process, attempt, retryPosts, checkPosts, dialogs, page, binds, starts, vpn, dying>>

\* The status is the shown instance's affair, the rest the receiver's.  No port
\* is no result: uploadConnectResult throws on the null of an instance that did
\* not start the session.
OnConnected ==
    /\ Running /\ events # <<>> /\ Head(events).level = "CONNECTED"
    /\ LET i == Head(events).to IN
       IF port[i] = NullPort
       THEN Die("crashed")
       ELSE /\ status' = "CONNECTED"
            /\ Add(maxPosts, activity)
            /\ Set(timeoutPosts, i, 0)
            /\ asking' = (asking /\ i # activity)
            /\ events' = Tail(events)
            /\ UNCHANGED <<process, attempt, retryPosts, checkPosts, dialogs, page, binds,
                           starts, vpn, dying>>

OnNotConnected ==
    /\ Running /\ events # <<>> /\ Head(events).level = "NOTCONNECTED"
    /\ LET i == Head(events).to
           failed == ~continueConnect[i] /\ status = "CONNECTING"
           handled == /\ events' = Tail(events)
                      /\ UNCHANGED <<process, status, activity, port, loaded, maxPosts,
                                     checkPosts, screen, starts, vpn, dying>>
       IN
       \/ /\ continueConnect[i]
          /\ Set(continueConnect, i, FALSE)
          /\ UNCHANGED <<index, timeoutPosts, retryPosts, binds>>
          /\ handled
       \/ /\ failed /\ port[i] # NullPort
          /\ Set(timeoutPosts, i, 0)
          /\ judgeIsReconnectByLastStrategy(i)
          /\ handled
       \/ failed /\ port[i] = NullPort /\ Die("crashed")
       \/ /\ ~continueConnect[i] /\ ~failed
          /\ UNCHANGED <<index, continueConnect, timeoutPosts, retryPosts, binds>>
          /\ handled

\* Mutant: the stop is sent whether or not a binding is due.
StopVPNUnbound ==
    /\ Running
    /\ binds' = binds - 1
    /\ IF vpn \in {"connecting", "up"}
       THEN vpn' = "none" /\ EndSession
       ELSE UNCHANGED <<vpn, dying, events>>
    /\ UNCHANGED <<process, status, attempt, timers, screen, starts>>

\* onServiceConnected of a binding made by stopVpn: a session whose socket is
\* not open yet does not hear of it.  No binding is ever undone, so it runs
\* again when the :openvpn process is restarted; what it does then is a step of
\* SessionFails.
StopVPN ==
    /\ Running /\ binds > 0
    /\ binds' = binds - 1
    /\ IF vpn \in {"connecting", "up"}
       THEN vpn' = "none" /\ EndSession
       ELSE UNCHANGED <<vpn, dying, events>>
    /\ UNCHANGED <<process, status, attempt, timers, screen, starts>>

-----------------------------------------------------------------------------
(* The user, on the instance shown.                                        *)

\* unConnectAnimation is the button that is shown in UN_CONNECT.
ClickConnect ==
    /\ OnMain /\ ~asking /\ status = "UN_CONNECT"
    /\ checkVPNPermission(activity, checkPosts, page)

\* connectingAnimation and connectedAnimation ask before they stop.
ClickStop ==
    /\ OnMain /\ ~asking /\ status # "UN_CONNECT"
    /\ asking' = TRUE
    /\ UNCHANGED <<process, status, attempt, timers, dialogs, page, binds, service>>

ConfirmStop ==
    /\ OnMain /\ asking
    /\ asking' = FALSE
    /\ stopConnect
    /\ UNCHANGED <<process, attempt, retryPosts, checkPosts, dialogs, page, service>>

CancelStop ==
    /\ OnMain /\ asking
    /\ asking' = FALSE
    /\ UNCHANGED <<process, status, attempt, timers, dialogs, page, binds, service>>

\* The answer of the permission dialog (request 95270).
GrantPermission ==
    /\ Running /\ dialogs > 0
    /\ LET returns == StartReturns(loaded[activity], index, port[activity]) IN
       \/ /\ returns
          /\ startConnect(activity, index, port[activity])
          /\ dialogs' = dialogs - 1
          /\ UNCHANGED <<process, status, index, activity, continueConnect, loaded, maxPosts,
                         retryPosts, checkPosts, asking, page, binds>>
       \/ ~returns /\ Die("crashed")

DenyPermission ==
    /\ Running /\ dialogs > 0 /\ MayDeny
    /\ dialogs' = dialogs - 1
    /\ UNCHANGED <<process, status, attempt, timers, asking, page, binds, service>>

\* The proxy list opens unless CONNECTING.  The speed and location pages do so
\* too, and have a connect button if they open in UN_CONNECT.
OpenPage(pg) ==
    /\ OnMain /\ ~asking
    /\ \/ pg = "list" /\ status # "CONNECTING"
       \/ pg = "offer" /\ status = "UN_CONNECT"
    /\ page' = pg
    /\ UNCHANGED <<process, status, attempt, timers, dialogs, asking, binds, service>>

\* Results 5003, and the back button of the other pages.
ClosePage ==
    /\ Running /\ page \in {"list", "offer"}
    /\ page' = "main"
    /\ UNCHANGED <<process, status, attempt, timers, dialogs, asking, binds, service>>

\* Results 6001 and 7001.
ConnectFromPage ==
    /\ UserActs /\ page = "offer"
    /\ checkVPNPermission(activity, checkPosts, "main")

\* Results 5001 and 5002: another proxy was chosen.
SelectProxy ==
    /\ UserActs /\ page = "list"
    /\ page' = "main"
    /\ stopConnect
    /\ Add(checkPosts, activity)
    /\ UNCHANGED <<process, attempt, retryPosts, dialogs, asking, service>>

\* readyRefreshList
RefreshList ==
    /\ Running /\ page = "list"
    /\ page' = IF status = "CONNECTED" THEN "askRefresh" ELSE "refreshing"
    /\ UNCHANGED <<process, status, attempt, timers, dialogs, asking, binds, service>>

ConfirmRefresh ==
    /\ UserActs /\ page = "askRefresh"
    /\ page' = "refreshing"
    /\ stopConnect
    /\ UNCHANGED <<process, attempt, retryPosts, checkPosts, dialogs, asking, service>>

\* The refresh is declined, or the new list has been pinged.
EndRefresh ==
    /\ Running /\ page \in {"askRefresh", "refreshing"}
    /\ page' = "list"
    /\ UNCHANGED <<process, status, attempt, timers, dialogs, asking, binds, service>>

\* Mutant: in the background the timers are dropped, the status is kept.
BackgroundKeepsStatus ==
    /\ UserActs /\ MayLeave /\ page = "main"
    /\ asking' = FALSE
    /\ IF status = "CONNECTING"
       THEN stopVpn /\ Set(timeoutPosts, activity, 0) /\ UNCHANGED <<status, maxPosts>>
       ELSE UNCHANGED <<status, timeoutPosts, maxPosts, binds>>
    /\ UNCHANGED <<process, attempt, retryPosts, checkPosts, dialogs, page, service>>

\* onStop, with the app in the background.
Background ==
    /\ UserActs /\ MayLeave /\ page = "main"
    /\ asking' = FALSE
    /\ IF status = "CONNECTING"
       THEN stopConnect
       ELSE UNCHANGED <<status, timeoutPosts, maxPosts, binds>>
    /\ UNCHANGED <<process, attempt, retryPosts, checkPosts, dialogs, page, service>>

KillProcess == Running /\ MayReopen /\ Die("killed")

-----------------------------------------------------------------------------
(* MainActivity.onCreate: no session yet, process restarted, configuration  *)
(* changed.                                                                 *)

\* Has instance i nothing left to run?
Idle(i) == /\ Posts(i) = 0 /\ maxPosts[i] = 0
           /\ \A e \in DOMAIN events : events[e].to # i

Init ==
    /\ process = "running"
    /\ status = "UN_CONNECT" /\ index = 0
    /\ activity \in Instances
    /\ continueConnect = [i \in Instances |-> FALSE]
    /\ port = [i \in Instances |-> NullPort]
    /\ loaded = [i \in Instances |-> FALSE]
    /\ timeoutPosts = [i \in Instances |-> 0] /\ maxPosts = [i \in Instances |-> 0]
    /\ retryPosts = [i \in Instances |-> 0] /\ checkPosts = [i \in Instances |-> 0]
    /\ dialogs = 0 /\ asking = FALSE /\ page = "main"
    /\ binds = 0 /\ starts = 0 /\ vpn = "none"
    /\ dying = 0 /\ events = <<>>

\* The app is opened again.  registerStatusCallback sends the last level, which
\* is lost if it comes before onCreate has set the listener.
Reopen ==
    /\ ~Running /\ MayReopen
    /\ process' = "running"
    /\ events' \in {<<>>} \cup { <<[level |-> l, to |-> activity]>> :
                                   l \in IF vpn = "up" THEN Level ELSE {"NOTCONNECTED"} }
    /\ UNCHANGED <<status, attempt, timers, screen, binds, starts, vpn, dying>>

\* The configuration changes: a new instance replaces the one shown.  It shows
\* UN_CONNECT and stops nothing; what the old one has posted stays.  Permission
\* dialogs and pages answer the new one.  A binding the old one made and that is
\* not connected yet may be dropped with it.
Recreate ==
    /\ Running /\ MayRecreate /\ Pending + Limits + binds + starts <= MaxLeft
    /\ \E i \in Instances \ {activity} :
          /\ Idle(i)
          /\ activity' = i
          /\ Set(continueConnect, i, FALSE) /\ Set(port, i, NullPort) /\ Set(loaded, i, FALSE)
    /\ status' = "UN_CONNECT"
    /\ asking' = FALSE
    /\ binds' \in IF MayForget THEN 0..binds ELSE {binds}
    /\ UNCHANGED <<process, index, timers, dialogs, page, service>>

-----------------------------------------------------------------------------
Service == \/ ServiceStart \/ SessionSocket \/ SessionUp \/ SessionReconnects
           \/ SessionFails \/ ProcessGone

Runnables == \E i \in Instances :
    SingleConnectTimeout(i) \/ MaxConnectedTime(i) \/ Retry(i) \/ CheckLater(i)

Callbacks == OnConnected \/ OnNotConnected \/ StopVPN

User == \/ ClickConnect \/ ClickStop \/ ConfirmStop \/ CancelStop
        \/ GrantPermission \/ DenyPermission
        \/ \E pg \in Visits : OpenPage(pg)
        \/ ClosePage \/ ConnectFromPage \/ SelectProxy
        \/ RefreshList \/ ConfirmRefresh \/ EndRefresh
        \/ Background \/ KillProcess \/ Reopen \/ Recreate

Next == Service \/ Runnables \/ Callbacks \/ User

Spec == Init /\ [][Next]_vars

\* The main looper runs every runnable that is due and every callback posted to
\* it.  No session need ever get anywhere, and of the user it is only assumed
\* that a permission dialog is answered.
Fairness ==
    /\ \A i \in Instances :
          /\ WF_vars(SingleConnectTimeout(i)) /\ WF_vars(MaxConnectedTime(i))
          /\ WF_vars(Retry(i)) /\ WF_vars(CheckLater(i))
    /\ WF_vars(OnConnected) /\ WF_vars(OnNotConnected) /\ WF_vars(StopVPN)
    /\ WF_vars(GrantPermission)

FairSpec == Spec /\ Fairness

-----------------------------------------------------------------------------
UiTypeOK ==
    /\ process \in {"running", "killed", "crashed"}
    /\ status \in Status
    /\ index \in Nat /\ activity \in Instances
    /\ continueConnect \in [Instances -> BOOLEAN]
    /\ port \in [Instances -> Ports \cup {NullPort, NoPort}]
    /\ loaded \in [Instances -> BOOLEAN]
    /\ {timeoutPosts, maxPosts, retryPosts, checkPosts} \subseteq [Instances -> Nat]
    /\ dialogs \in Nat /\ asking \in BOOLEAN /\ page \in Page
    /\ binds \in Nat

ServiceTypeOK ==
    /\ starts \in Nat /\ vpn \in Vpn
    /\ dying \in Nat
    /\ events \in Seq(Event)

\* Every variable has the type its comment gives it; the counters of posts never
\* go below zero, so every runnable that runs and every binding that connects
\* was posted or made before.
TypeOK == UiTypeOK /\ ServiceTypeOK

\* As long as the UI process lives, a session that is up will be ended: the
\* runnable that ends it after the configured maximum (maxConnectedTime) is
\* posted, or the CONNECTED that posts it or a stop is on its way. No stop that
\* met the session before its socket was open, no level handled after a click,
\* no reconnection and no new instance of the activity takes the limit away
\* from the session.
UpIsLimited ==
    Running /\ vpn = "up" =>
        \/ \E i \in Instances : maxPosts[i] > 0
        \/ \E e \in DOMAIN events : events[e].level = "CONNECTED"
        \/ binds > 0

\* An attempt is never left alone: while the app shows CONNECTING, a timeout or
\* a next try of some instance or the permission dialog is still going to move
\* it on. A failure removes the timeout, and every path that removes it must arm
\* something else.
ConnectingIsWatched ==
    status = "CONNECTING" =>
        \/ \E i \in Instances : timeoutPosts[i] + retryPosts[i] > 0
        \/ dialogs > 0

\* An attempt ends, connected or given up, whatever the service does: the
\* chain of timeouts and strategies that judgeIsReconnectByLastStrategy walks
\* cannot go on for ever.
ConnectingEnds == []<>(status # "CONNECTING")

=============================================================================
