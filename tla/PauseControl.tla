---------------------------- MODULE PauseControl ----------------------------
(***************************************************************************)
(* Pausing and resuming the VPN of one connection.                         *)
(*                                                                         *)
(* DeviceStateReceiver decides from the network, the screen and the user   *)
(* whether the VPN should run; OpenVpnManagementThread turns the decision  *)
(* into commands for the openvpn process, which waits in "hold" until it   *)
(* is released.  Nothing in either class is locked.  These interleave:     *)
(*   - the main thread of the :openvpn process: broadcasts, the intents of *)
(*     the notification, the two delayed runnables;                        *)
(*   - the management thread: HOLD and BYTECOUNT lines it reads;           *)
(*   - binder threads, on which clients of the service call userPause;     *)
(*   - the openvpn process behind the management socket.                   *)
(* A thread takes one step for each field of another thread's concern that *)
(* it reads or writes; pc tells what it does next.  shouldBeConnected(),   *)
(* which reads three fields, is evaluated in one step.  What is displayed  *)
(* (lastPauseReason and the states of VpnStatus) guards nothing and is     *)
(* left out.                                                               *)
(***************************************************************************)
EXTENDS Naturals, Sequences

CONSTANTS
    BinderThreads,       \* threads on which clients call userPause
    Networks,            \* networks, told apart by type and extra info
    NoNetwork,           \* getActiveNetworkInfo() = null
    Unsettled,           \* a NetworkInfo whose state is not CONNECTED
    ScreenOffPref,       \* preference "screenoff" (default false)
    NetChangeReconnect,  \* preference "netchangereconnect" (default true)
    Orderly,             \* is userPause called by the notification only, on the
                         \* main thread, and RESUME only after PAUSE?
    MaxPosts,            \* bound on the posts of one Runnable in a Handler queue
    MaxQueue             \* bound on the lines in flight on the socket, each way

Callers == {"main"} \cup BinderThreads
Threads == Callers \cup {"mgmt"}

ASSUME ThreadsAssumption == BinderThreads \cap {"main", "mgmt"} = {}
ASSUME NetworksAssumption == NoNetwork \notin Networks /\ Unsettled \notin Networks
ASSUME PrefsAssumption == {ScreenOffPref, NetChangeReconnect, Orderly} \subseteq BOOLEAN
ASSUME BoundsAssumption == MaxPosts \in Nat \ {0} /\ MaxQueue \in Nat \ {0}

VARIABLES
    registered,   \* mDeviceStateReceiver is registered
    network, screen, userpause,      \* the three connectState fields
    lastConnectedNetwork,
    delayPosts,   \* posts of mDelayDisconnectRunnable in mDisconnectHandler
    waiting,      \* mWaitingForRelease
    resumePosts,  \* posts of mResumeHoldRunnable in mResumeHandler
    pc,           \* what each thread does next
    connected,    \* the local of that name (wereConnected) of each caller
    cmds,         \* lines written to the openvpn process, not yet read
    lines,        \* lines written by the openvpn process, not yet read
    ovpn,         \* the openvpn process: waiting in hold, or running
    screenOn      \* environment: the display

states == <<network, screen, userpause>>
receiverVars == <<registered, states, lastConnectedNetwork, delayPosts>>
mgmtVars == <<waiting, resumePosts>>
vars == <<receiverVars, mgmtVars, pc, connected, cmds, lines, ovpn, screenOn>>

-----------------------------------------------------------------------------
connectState == {"SHOULDBECONNECTED", "PENDINGDISCONNECT", "DISCONNECTED"}
Command == {"release", "usr1", "networkChange", "sameNetwork"}
Line == {"HOLD", "BYTECOUNT"}

\* idle stands for a looper, a socket or a binder that waits.  The others are
\* named after the next statement: those of OpenVPNManagement's operations,
Operation == {"pause", "testPause", "usr1", "releaseHold", "change", "same",
              "writeChange", "writeSame", "release", "clearFlag", "writeRelease"}
\* of userPause(false), of the main thread's handlers, of the management thread's.
CallerPc == {"setUserpause", "userpauseSet"}
MainPc == {"setScreen", "screenSet", "screenPending", "askChange", "askResume", "askHold"}
MgmtPc == {"holdAsk", "holdPost", "byteCount"}
Pc == {"idle"} \cup Operation \cup CallerPc \cup MainPc \cup MgmtPc

shouldBeConnected == /\ screen = "SHOULDBECONNECTED"
                     /\ userpause = "SHOULDBECONNECTED"
                     /\ network = "SHOULDBECONNECTED"

\* The receiver's fields tell before it is registered, too: setPauseCallback is
\* called in its constructor, and network starts DISCONNECTED.
shouldBeRunning == shouldBeConnected

At(t, where) == pc[t] = where
Goto(t, where) == pc' = [pc EXCEPT ![t] = where]

\* managmentCommand.  MaxQueue bounds what the callers have in flight; it never
\* holds back the management thread, which empties the other direction.
managmentCommand(t, cmd) == /\ t = "mgmt" \/ Len(cmds) < MaxQueue
                            /\ cmds' = Append(cmds, cmd)

-----------------------------------------------------------------------------
(* OpenVPNManagement, step by step, on the thread t that calls it.         *)

Rest == UNCHANGED <<receiverVars, connected, lines, ovpn, screenOn>>

\* pause(reason), with signalusr1
Pause(t) ==
    /\ At(t, "pause")
    /\ resumePosts' = 0
    /\ Goto(t, "testPause")
    /\ Rest /\ UNCHANGED <<waiting, cmds>>

TestPause(t) ==
    /\ At(t, "testPause")
    /\ Goto(t, IF waiting THEN "idle" ELSE "usr1")
    /\ Rest /\ UNCHANGED <<mgmtVars, cmds>>

WriteUsr1(t) ==
    /\ At(t, "usr1")
    /\ managmentCommand(t, "usr1")
    /\ Goto(t, "idle")
    /\ Rest /\ UNCHANGED mgmtVars

\* releaseHold, all there is to resume()
ReleaseHold(t) ==
    /\ At(t, "releaseHold")
    /\ Goto(t, IF waiting THEN "release" ELSE "idle")
    /\ Rest /\ UNCHANGED <<mgmtVars, cmds>>

\* Mutant: networkChange does not look at mWaitingForRelease.
NetworkChangeAlways(t) ==
    /\ \/ At(t, "change") /\ Goto(t, "writeChange")
       \/ At(t, "same") /\ Goto(t, "writeSame")
    /\ Rest /\ UNCHANGED <<mgmtVars, cmds>>

\* networkChange(samenetwork)
NetworkChange(t) ==
    /\ \/ At(t, "change") /\ Goto(t, IF waiting THEN "releaseHold" ELSE "writeChange")
       \/ At(t, "same") /\ Goto(t, IF waiting THEN "releaseHold" ELSE "writeSame")
    /\ Rest /\ UNCHANGED <<mgmtVars, cmds>>

WriteNetworkChange(t) ==
    /\ \/ At(t, "writeChange") /\ managmentCommand(t, "networkChange")
       \/ At(t, "writeSame") /\ managmentCommand(t, "sameNetwork")
    /\ Goto(t, "idle")
    /\ Rest /\ UNCHANGED mgmtVars

\* releaseHoldCmd: the runnable goes, then there may be three seconds of sleep
ReleaseHoldCmd(t) ==
    /\ At(t, "release")
    /\ resumePosts' = 0
    /\ Goto(t, "clearFlag")
    /\ Rest /\ UNCHANGED <<waiting, cmds>>

ClearFlag(t) ==
    /\ At(t, "clearFlag")
    /\ waiting' = FALSE
    /\ Goto(t, "writeRelease")
    /\ Rest /\ UNCHANGED <<resumePosts, cmds>>

\* Mutant: it is asked again after the sleep, the flag stays cleared.
WriteReleaseIfWanted(t) ==
    /\ At(t, "writeRelease")
    /\ IF shouldBeRunning THEN managmentCommand(t, "release") ELSE UNCHANGED cmds
    /\ Goto(t, "idle")
    /\ Rest /\ UNCHANGED mgmtVars

WriteRelease(t) ==
    /\ At(t, "writeRelease")
    /\ managmentCommand(t, "release")
    /\ Goto(t, "idle")
    /\ Rest /\ UNCHANGED mgmtVars

OpenVPNManagement(t) == \/ Pause(t) \/ TestPause(t) \/ WriteUsr1(t) \/ ReleaseHold(t)
                        \/ NetworkChange(t) \/ WriteNetworkChange(t)
                        \/ ReleaseHoldCmd(t) \/ ClearFlag(t) \/ WriteRelease(t)

-----------------------------------------------------------------------------
(* userPause, on the main thread or a binder thread.                       *)

MayCall(t) == At(t, "idle") /\ registered /\ (t = "main" \/ ~Orderly)

\* Mutant: a pause waits for the traffic, as the screen does.
UserPausePending(t) ==
    /\ MayCall(t)
    /\ userpause' = "PENDINGDISCONNECT"
    /\ Goto(t, "pause")
    /\ UNCHANGED <<registered, network, screen, lastConnectedNetwork, delayPosts, mgmtVars,
                   connected, cmds, lines, ovpn, screenOn>>

\* userPause(true)
UserPause(t) ==
    /\ MayCall(t)
    /\ userpause' = "DISCONNECTED"
    /\ Goto(t, "pause")
    /\ UNCHANGED <<registered, network, screen, lastConnectedNetwork, delayPosts, mgmtVars,
                   connected, cmds, lines, ovpn, screenOn>>

\* userPause(false): wereConnected = shouldBeConnected(), then the field, then
\* what follows from both
UserResume(t) ==
    /\ MayCall(t)
    /\ Orderly => userpause = "DISCONNECTED"
    /\ connected' = [connected EXCEPT ![t] = shouldBeConnected]
    /\ Goto(t, "setUserpause")
    /\ UNCHANGED <<receiverVars, mgmtVars, cmds, lines, ovpn, screenOn>>

SetUserpause(t) ==
    /\ At(t, "setUserpause")
    /\ userpause' = "SHOULDBECONNECTED"
    /\ Goto(t, "userpauseSet")
    /\ UNCHANGED <<registered, network, screen, lastConnectedNetwork, delayPosts, mgmtVars,
                   connected, cmds, lines, ovpn, screenOn>>

\* Mutant: the negation of wereConnected is lost.
UserpauseSetInverted(t) ==
    /\ At(t, "userpauseSet")
    /\ Goto(t, IF shouldBeConnected /\ connected[t] THEN "releaseHold" ELSE "pause")
    /\ connected' = [connected EXCEPT ![t] = FALSE]
    /\ UNCHANGED <<receiverVars, mgmtVars, cmds, lines, ovpn, screenOn>>

UserpauseSet(t) ==
    /\ At(t, "userpauseSet")
    /\ Goto(t, IF shouldBeConnected /\ ~connected[t] THEN "releaseHold" ELSE "pause")
    /\ connected' = [connected EXCEPT ![t] = FALSE]
    /\ UNCHANGED <<receiverVars, mgmtVars, cmds, lines, ovpn, screenOn>>

userPause(t) == UserPause(t) \/ UserResume(t) \/ SetUserpause(t) \/ UserpauseSet(t)

-----------------------------------------------------------------------------
(* Handlers of the main thread.                                            *)

MainIdle == At("main", "idle") /\ registered
MainRest == UNCHANGED <<userpause, mgmtVars, cmds, lines, ovpn>>

\* What getActiveNetworkInfo() may return, at any time
Info == Networks \cup {NoNetwork, Unsettled}

\* networkStateChange with a connected network: one that returned within 20 s is
\* protected again, for another the other fields count.
NetworkConnected(networkInfo) ==
    LET pendingDisconnect == network = "PENDINGDISCONNECT"
        sameNetwork == lastConnectedNetwork = networkInfo
    IN  /\ networkInfo \in Networks
        /\ network' = "SHOULDBECONNECTED"
        /\ IF pendingDisconnect /\ sameNetwork
           THEN /\ delayPosts' = 0
                /\ Goto("main", "same")
                /\ UNCHANGED <<screen, lastConnectedNetwork>>
           ELSE /\ screen' = IF screen = "PENDINGDISCONNECT" THEN "DISCONNECTED" ELSE screen
                /\ lastConnectedNetwork' = networkInfo
                /\ Goto("main", IF sameNetwork THEN "askResume" ELSE "askChange")
                /\ UNCHANGED delayPosts

\* networkStateChange without an active network
NetworkGone(networkInfo) ==
    /\ networkInfo = NoNetwork
    /\ IF NetChangeReconnect
       THEN /\ delayPosts < MaxPosts
            /\ network' = "PENDINGDISCONNECT"
            /\ delayPosts' = delayPosts + 1
       ELSE UNCHANGED <<network, delayPosts>>
    /\ UNCHANGED <<screen, lastConnectedNetwork, pc>>

\* networkStateChange with a network that is, say, still connecting
NetworkUnsettled(networkInfo) ==
    /\ networkInfo = Unsettled
    /\ UNCHANGED <<network, screen, lastConnectedNetwork, delayPosts, pc>>

networkStateChange ==
    /\ \E info \in Info : NetworkConnected(info) \/ NetworkGone(info) \/ NetworkUnsettled(info)
    /\ MainRest
    /\ UNCHANGED <<connected, screenOn>>

\* startOpenVPN's runnable on the gui handler: the receiver reads the network
\* once and is then registered.  (Clients may call from its first step on, a
\* little earlier than in the code.)
RegisterReceiver ==
    /\ At("main", "idle")
    /\ ~registered
    /\ registered' = TRUE
    /\ networkStateChange

\* onReceive(CONNECTIVITY_ACTION)
OnConnectivity ==
    /\ MainIdle
    /\ UNCHANGED registered
    /\ networkStateChange

\* the rest of networkStateChange for a connected network
AskNetwork ==
    /\ At("main", "askChange") \/ At("main", "askResume")
    /\ IF shouldBeConnected
       THEN /\ delayPosts' = 0
            /\ Goto("main", IF At("main", "askChange") THEN "change" ELSE "releaseHold")
       ELSE Goto("main", "idle") /\ UNCHANGED delayPosts
    /\ MainRest
    /\ UNCHANGED <<registered, network, screen, lastConnectedNetwork, connected, screenOn>>

\* mDelayDisconnectRunnable, 20 s after the network went away
DelayDisconnect ==
    /\ MainIdle
    /\ delayPosts > 0
    /\ delayPosts' = delayPosts - 1
    /\ IF network = "PENDINGDISCONNECT"
       THEN /\ network' = "DISCONNECTED"
            /\ screen' = IF screen = "PENDINGDISCONNECT" THEN "DISCONNECTED" ELSE screen
            /\ Goto("main", "pause")
       ELSE UNCHANGED <<network, screen, pc>>
    /\ MainRest
    /\ UNCHANGED <<registered, lastConnectedNetwork, connected, screenOn>>

ScreenRest == UNCHANGED <<registered, network, lastConnectedNetwork>>

\* onReceive(ACTION_SCREEN_OFF)
ScreenOff ==
    /\ MainIdle
    /\ screenOn
    /\ screenOn' = FALSE
    /\ IF ScreenOffPref
       THEN screen' = "PENDINGDISCONNECT" /\ Goto("main", "screenPending")
       ELSE UNCHANGED <<screen, pc>>
    /\ MainRest /\ ScreenRest
    /\ UNCHANGED <<delayPosts, connected>>

ScreenPending ==
    /\ At("main", "screenPending")
    /\ screen' = IF network = "DISCONNECTED" \/ userpause = "DISCONNECTED"
                 THEN "DISCONNECTED" ELSE screen
    /\ Goto("main", "idle")
    /\ MainRest /\ ScreenRest
    /\ UNCHANGED <<delayPosts, connected, screenOn>>

\* onReceive(ACTION_SCREEN_ON): connected = shouldBeConnected(), then the field,
\* then what follows from both
ScreenOn ==
    /\ MainIdle
    /\ ~screenOn
    /\ screenOn' = TRUE
    /\ connected' = [connected EXCEPT !["main"] = shouldBeConnected]
    /\ Goto("main", "setScreen")
    /\ MainRest /\ ScreenRest
    /\ UNCHANGED <<screen, delayPosts>>

SetScreen ==
    /\ At("main", "setScreen")
    /\ screen' = "SHOULDBECONNECTED"
    /\ delayPosts' = 0
    /\ Goto("main", "screenSet")
    /\ MainRest /\ ScreenRest
    /\ UNCHANGED <<connected, screenOn>>

ScreenSet ==
    /\ At("main", "screenSet")
    /\ Goto("main", IF shouldBeConnected # connected["main"] THEN "releaseHold"
                    ELSE IF shouldBeConnected THEN "idle" ELSE "pause")
    /\ connected' = [connected EXCEPT !["main"] = FALSE]
    /\ MainRest /\ ScreenRest
    /\ UNCHANGED <<screen, delayPosts, screenOn>>

\* mResumeHoldRunnable.  It does not ask whether a hold is still waited for.
ResumeHold ==
    /\ At("main", "idle")
    /\ resumePosts > 0
    /\ resumePosts' = resumePosts - 1
    /\ Goto("main", "askHold")
    /\ Rest /\ UNCHANGED <<waiting, cmds>>

AskHold ==
    /\ At("main", "askHold")
    /\ Goto("main", IF shouldBeRunning THEN "release" ELSE "idle")
    /\ Rest /\ UNCHANGED <<mgmtVars, cmds>>

-----------------------------------------------------------------------------
(* Management thread.                                                      *)

ReadLine(line) == /\ At("mgmt", "idle")
                  /\ lines # <<>>
                  /\ Head(lines) = line
                  /\ lines' = Tail(lines)

MgmtRest == UNCHANGED <<registered, network, userpause, lastConnectedNetwork, delayPosts,
                        connected, cmds, ovpn, screenOn>>

\* Mutant: handleHold forgets mWaitingForRelease.
HandleHoldUnnoted ==
    /\ ReadLine("HOLD")
    /\ Goto("mgmt", "holdAsk")
    /\ MgmtRest /\ UNCHANGED <<screen, mgmtVars>>

HandleHold ==
    /\ ReadLine("HOLD")
    /\ waiting' = TRUE
    /\ Goto("mgmt", "holdAsk")
    /\ MgmtRest /\ UNCHANGED <<screen, resumePosts>>

HandleHoldAsk ==
    /\ At("mgmt", "holdAsk")
    /\ Goto("mgmt", IF shouldBeRunning THEN "holdPost" ELSE "idle")
    /\ MgmtRest /\ UNCHANGED <<screen, mgmtVars, lines>>

HandleHoldPost ==
    /\ At("mgmt", "holdPost")
    /\ resumePosts' = resumePosts + 1
    /\ Goto("mgmt", "idle")
    /\ MgmtRest /\ UNCHANGED <<screen, waiting, lines>>

\* updateByteCount up to the comparison of the traffic of the last 60 s with
\* the limit, whose outcome the traffic decides
updateByteCount ==
    /\ ReadLine("BYTECOUNT")
    /\ \/ UNCHANGED pc
       \/ registered /\ screen = "PENDINGDISCONNECT" /\ Goto("mgmt", "byteCount")
    /\ MgmtRest /\ UNCHANGED <<screen, mgmtVars>>

\* too little traffic: screen is set, whatever it has become, then pause
LowTraffic ==
    /\ At("mgmt", "byteCount")
    /\ screen' = "DISCONNECTED"
    /\ Goto("mgmt", "pause")
    /\ MgmtRest /\ UNCHANGED <<mgmtVars, lines>>

-----------------------------------------------------------------------------
(* The openvpn process: management_hold, man_hold, man_network_change.     *)

OvpnRest == UNCHANGED <<receiverVars, mgmtVars, pc, connected, screenOn>>

ReadCommand(cmd) == /\ cmds # <<>>
                    /\ Head(cmds) = cmd
                    /\ cmds' = Tail(cmds)

\* The process waits in hold and says so.
EnterHold == /\ Len(lines) < MaxQueue
             /\ lines' = Append(lines, "HOLD")
             /\ ovpn' = "hold"

\* "signal SIGUSR1" restarts a running tunnel into its next hold; one already
\* in hold ignores it and repeats its HOLD line.
OvpnUsr1 == ReadCommand("usr1") /\ EnterHold /\ OvpnRest

OvpnRelease ==
    /\ ReadCommand("release")
    /\ ovpn' = "run"
    /\ UNCHANGED lines
    /\ OvpnRest

\* A network change without peer-id restarts a running tunnel; the same network,
\* or a process without a link socket (in hold), only answers PROTECTFD.
OvpnNetworkChange ==
    /\ \/ \E cmd \in {"networkChange", "sameNetwork"} :
             ReadCommand(cmd) /\ UNCHANGED <<ovpn, lines>>
       \/ ReadCommand("networkChange") /\ ovpn = "run" /\ EnterHold
    /\ OvpnRest

\* What the process does of itself, it does with no command unread: it commutes
\* with the writing of a command it has not yet seen.
\* A ping timeout or a lost connection restarts the tunnel.
OvpnRestart ==
    /\ ovpn = "run"
    /\ cmds = <<>>
    /\ EnterHold
    /\ UNCHANGED cmds
    /\ OvpnRest

OvpnByteCount ==
    /\ ovpn = "run"
    /\ cmds = <<>>
    /\ Len(lines) < MaxQueue
    /\ lines' = Append(lines, "BYTECOUNT")
    /\ UNCHANGED <<cmds, ovpn>>
    /\ OvpnRest

-----------------------------------------------------------------------------
Init ==
    /\ registered = FALSE
    /\ network = "DISCONNECTED"
    /\ screen = "SHOULDBECONNECTED"
    /\ userpause = "SHOULDBECONNECTED"
    /\ lastConnectedNetwork = NoNetwork
    /\ delayPosts = 0
    /\ waiting = FALSE
    /\ resumePosts = 0
    /\ pc = [t \in Threads |-> "idle"]
    /\ connected = [t \in Callers |-> FALSE]
    /\ cmds = <<>>
    /\ lines = <<"HOLD">>
    /\ ovpn = "hold"
    /\ screenOn \in BOOLEAN

MainThread == \/ RegisterReceiver \/ OnConnectivity \/ AskNetwork \/ DelayDisconnect
              \/ ScreenOff \/ ScreenPending \/ ScreenOn \/ SetScreen \/ ScreenSet
              \/ ResumeHold \/ AskHold

ManagementThread == \/ HandleHold \/ HandleHoldAsk \/ HandleHoldPost
                    \/ updateByteCount \/ LowTraffic

OvpnProcess == \/ OvpnUsr1 \/ OvpnRelease \/ OvpnNetworkChange
               \/ OvpnRestart \/ OvpnByteCount

Next == \/ MainThread \/ ManagementThread
        \/ \E t \in Callers : userPause(t)
        \/ \E t \in Threads : OpenVPNManagement(t)
        \/ OvpnProcess

Spec == Init /\ [][Next]_vars

\* A thread inside a handler goes on; the management thread and the process read
\* what they are sent; a posted runnable runs.  Nothing is assumed of the user, the
\* display, the network or of what the process does of itself.
CallerGoesOn(t) == OpenVPNManagement(t) \/ SetUserpause(t) \/ UserpauseSet(t)

Fairness ==
    /\ WF_vars(RegisterReceiver)
    /\ WF_vars(DelayDisconnect)
    /\ WF_vars(ResumeHold)
    /\ WF_vars(AskNetwork \/ ScreenPending \/ SetScreen \/ ScreenSet \/ AskHold
               \/ CallerGoesOn("main"))
    /\ \A t \in BinderThreads : WF_vars(CallerGoesOn(t))
    /\ WF_vars(ManagementThread \/ OpenVPNManagement("mgmt"))
    /\ WF_vars(OvpnUsr1 \/ OvpnRelease \/ OvpnNetworkChange)

FairSpec == Spec /\ Fairness

-----------------------------------------------------------------------------
(* Properties.                                                             *)

ReceiverTypeOK ==
    /\ registered \in BOOLEAN
    /\ network \in connectState
    /\ screen \in connectState
    /\ userpause \in connectState \ {"PENDINGDISCONNECT"}
    /\ lastConnectedNetwork \in Networks \cup {NoNetwork}
    /\ delayPosts \in Nat

ManagementTypeOK ==
    /\ waiting \in BOOLEAN
    /\ resumePosts \in Nat
    /\ cmds \in Seq(Command)
    /\ lines \in Seq(Line)
    /\ ovpn \in {"hold", "run"}

\* Each thread is inside code it may execute.
ThreadsTypeOK ==
    /\ pc \in [Threads -> Pc]
    /\ connected \in [Callers -> BOOLEAN]
    /\ pc["mgmt"] \in {"idle", "pause", "testPause", "usr1"} \cup MgmtPc
    /\ pc["main"] \notin MgmtPc
    /\ \A t \in BinderThreads : pc[t] \notin MainPc \cup MgmtPc
    /\ Orderly => \A t \in BinderThreads : pc[t] = "idle"

\* Type invariant.
TypeOK ==
    /\ ReceiverTypeOK
    /\ ManagementTypeOK
    /\ ThreadsTypeOK
    /\ screenOn \in BOOLEAN

\* No line or command is in flight and no thread is inside a handler.
Quiet == cmds = <<>> /\ lines = <<>> /\ \A t \in Threads : pc[t] = "idle"

Occurs(x, s) == \E i \in 1 .. Len(s) : s[i] = x

\* A process in hold can always be released: once everything written has been
\* read, mWaitingForRelease is set, so the next resume() or networkChange()
\* releases it.  However many threads pause, resume and release at once, the flag
\* of a hold is never cleared by a release meant for an earlier one.
HoldCanBeEnded == Quiet /\ ovpn = "hold" => waiting

\* In orderly use, a process in hold that should run is never forgotten: once
\* everything written has been read, the runnable that will release it is in the
\* handler's queue.  The management thread may pause (for low traffic) and handle
\* HOLD between any two steps of the main thread.
NoStuckHold == Orderly /\ Quiet /\ ovpn = "hold" /\ shouldBeConnected => resumePosts > 0

\* What makes HoldCanBeEnded inductive: a process in hold is known to be.  The
\* flag is set, or the line that sets it, or the release that ends the hold, is
\* still to be read or written.
HoldIsKnown ==
    ovpn = "hold" =>
        \/ waiting
        \/ Occurs("HOLD", lines)
        \/ Occurs("release", cmds)
        \/ \E t \in Threads : pc[t] = "writeRelease"

\* The last line a process in hold has written is HOLD; what the management thread
\* does about low traffic comes before it.
LowTrafficPc == {"byteCount", "pause", "testPause", "usr1"}

HoldIsLast ==
    ovpn = "hold" =>
        /\ lines # <<>> => lines[Len(lines)] = "HOLD"
        /\ pc["mgmt"] \in LowTrafficPc => lines # <<>>

\* What makes NoStuckHold inductive.  A process in hold that should run is being
\* taken care of: the main thread may be about to release it,
MainMayRelease ==
    \/ pc["main"] \in {"releaseHold", "change", "same", "release", "clearFlag", "writeRelease"}
    \/ pc["main"] \in {"askHold", "askChange", "askResume", "setUserpause", "userpauseSet"}
    \/ pc["main"] \in {"setScreen", "screenSet"} /\ ~connected["main"]

HoldIsHandled ==
    Orderly /\ ovpn = "hold" /\ shouldBeConnected =>
        \/ Occurs("HOLD", lines)
        \/ pc["mgmt"] \in {"holdAsk", "holdPost"}
        \/ resumePosts > 0
        \/ MainMayRelease
        \/ Occurs("release", cmds)

\* what a handler of the main thread has found still holds at its next step,
MainIsRight ==
    Orderly =>
        /\ pc["main"] \in {"pause", "testPause", "usr1"} => ~shouldBeConnected
        /\ pc["main"] \in {"setUserpause", "userpauseSet"} => ~connected["main"]
        /\ pc["main"] \in {"setScreen", "screenSet"} /\ connected["main"] =>
               shouldBeConnected /\ pc["mgmt"] # "byteCount"

\* and the management thread pauses for a screen that is off, or was when it asked.
ScreenIsRight ==
    /\ ~ScreenOffPref => screen = "SHOULDBECONNECTED" /\ pc["mgmt"] # "byteCount"
    /\ pc["mgmt"] = "byteCount" => screenOn \/ screen # "SHOULDBECONNECTED"
    /\ pc["main"] = "setScreen" => screenOn
    /\ pc["main"] = "screenPending" => screen # "SHOULDBECONNECTED"

HoldInv == HoldIsKnown /\ HoldIsLast /\ HoldIsHandled /\ MainIsRight /\ ScreenIsRight

\* If from some time on the VPN should be connected, in orderly use, the process
\* runs again and again: no order of HOLD lines, runnables and releases leaves it
\* in hold.
ResumesEventually == Orderly /\ <>[]shouldBeConnected => []<>(ovpn = "run")

\* What the interface for other apps says of pause(): "Pause the VPN (same as
\* using the pause feature in the notifcation bar)" (IOpenVPNAPIService.aidl:38).
\* Once everything written has been read, the process of a user who has paused
\* waits in hold.
PausedIsHeld == Quiet /\ registered /\ userpause = "DISCONNECTED" => ovpn = "hold"

=============================================================================
