----------------------------- MODULE StatusRelay -----------------------------
(***************************************************************************)
(* How a state of the VPN gets from the service, in the process :openvpn,  *)
(* to MainActivity in the process of the UI (VpnStatus,                    *)
(* OpenVPNStatusService, StatusListener).                                  *)
(*                                                                         *)
(* VpnStatus exists once in each process. In :openvpn any thread updates   *)
(* it, its listener OpenVPNStatusService posts the update to the main      *)
(* looper, and the looper sends it to the registered callback. The UI      *)
(* registers its callback with a call that runs on a binder thread, beside *)
(* the looper. Calls to one callback arrive in the order they were made.   *)
(* Either process may die; the other one stays.                            *)
(***************************************************************************)
EXTENDS Naturals, Sequences

CONSTANTS
    States,     \* the states that are reported
    None,       \* null, or nothing yet
    MaxPosted,  \* bound on the posts in mHandler
    MaxCalls,   \* bound on the calls under way to the UI
    MaxLevels   \* bound on the levels posted to the UI's main looper

ASSUME StatesAssumption == "NOPROCESS" \in States /\ None \notin States
ASSUME BoundAssumption == {MaxPosted, MaxCalls, MaxLevels} \subseteq Nat \ {0}

VARIABLES
    up,                  \* :openvpn is there, with OpenVPNStatusService created
    mLaststate,          \* VpnStatus.mLaststate of :openvpn
    mLastUpdateMessage,
    posted,              \* SEND_NEW_STATE in mHandler
    readFileLog,         \* the cached log was read, so that it can be pushed
    callback,            \* the UI's: "none", "binding", "sent" or "registered"
    calls,               \* calls of updateStateString under way to the UI
    uiLaststate,         \* VpnStatus.mLaststate of the UI
    waiting,             \* the UI's main thread is inside onServiceConnected
    listening,           \* MainActivity has set connectStatusListener
    levels,              \* what runOnUiThread has posted
    told,                \* the level MainActivity was told last
    lost                 \* the callback was not yet registered at the last broadcast

service == <<up, mLaststate, mLastUpdateMessage, posted, readFileLog>>
ui == <<uiLaststate, listening, levels, told>>
vars == <<up, mLaststate, mLastUpdateMessage, posted, readFileLog, callback, calls,
          uiLaststate, waiting, listening, levels, told, lost>>

-----------------------------------------------------------------------------
(* VpnStatus, in both processes.                                           *)

\* getLevel, and the levels of the states that are not openvpn's
getLevel(state) ==
    CASE state \in {"CONNECTING", "WAIT", "RECONNECTING", "RESOLVE", "TCP_CONNECT",
                    "CONNECTRETRY", "WAIT_ORBOT"}
            -> "LEVEL_CONNECTING_NO_SERVER_REPLY_YET"
      [] state \in {"AUTH", "GET_CONFIG", "ASSIGN_IP", "ADD_ROUTES", "AUTH_PENDING"}
            -> "LEVEL_CONNECTING_SERVER_REPLIED"
      [] state = "CONNECTED" -> "LEVEL_CONNECTED"
      [] state \in {"DISCONNECTED", "EXITING", "NOPROCESS"} -> "LEVEL_NOTCONNECTED"
      [] state \in {"SCREENOFF", "USERPAUSE"} -> "LEVEL_VPNPAUSED"
      [] state = "NONETWORK" -> "LEVEL_NONETWORK"
      [] state \in {"NEED", "USER_INPUT"} -> "LEVEL_WAITING_FOR_USER_INPUT"
      [] state = "VPN_GENERATE_CONFIG" -> "LEVEL_START"
      [] state = "AUTH_FAILED" -> "LEVEL_AUTH_FAILED"
      [] OTHER -> "UNKNOWN_LEVEL"
Levels == {getLevel(state) : state \in States}

\* "Workound for OpenVPN doing AUTH and wait and being connected"
Ignored(last, state) == getLevel(last) = "LEVEL_CONNECTED" /\ state \in {"WAIT", "AUTH"}

\* "We want to skip announcing that we are trying to get the configuration". Only
\* the thread that asks also reports that the VPN waits for the user.
Skipped(state) ==
    getLevel(mLaststate) = "LEVEL_WAITING_FOR_USER_INPUT" /\ state = "GET_CONFIG"

-----------------------------------------------------------------------------
(* The process :openvpn.                                                   *)

\* Mutant: the update is only posted.
updateStatePosted(state) == /\ posted' = Append(posted, state)
                            /\ UNCHANGED mLastUpdateMessage

\* OpenVPNStatusService.updateState
updateState(state) == /\ mLastUpdateMessage' = state
                      /\ posted' = Append(posted, state)

\* The method is synchronized, its listeners are called inside.
updateStateString(state) ==
    /\ up /\ Len(posted) < MaxPosted
    /\ ~Skipped(state) /\ ~Ignored(mLaststate, state)
    /\ mLaststate' = state
    /\ updateState(state)
    /\ UNCHANGED <<up, readFileLog, callback, calls, ui, waiting, lost>>

\* The main looper sends an update to the callback, if it is registered.
handleMessage ==
    /\ posted # << >>
    /\ callback = "registered" => Len(calls) < MaxCalls
    /\ posted' = Tail(posted)
    /\ calls' = IF callback = "registered" THEN Append(calls, Head(posted)) ELSE calls
    /\ lost' = (callback # "registered")
    /\ UNCHANGED <<up, mLaststate, mLastUpdateMessage, readFileLog, callback, ui, waiting>>

\* Mutant: after an exception the flag is not set.
ReadLogCacheFails == up /\ ~readFileLog /\ UNCHANGED vars

\* readLogCache: the flag is set even if the file cannot be read.
ReadLogCache == /\ up /\ ~readFileLog
                /\ readFileLog' = TRUE
                /\ UNCHANGED <<up, mLaststate, mLastUpdateMessage, posted, callback, calls, ui,
                               waiting, lost>>

\* OpenVPNStatusService.onCreate in a new process: addStateListener reports
\* the state VpnStatus begins with.
onCreate == /\ ~up
            /\ up' = TRUE
            /\ updateState(mLaststate)
            /\ UNCHANGED <<mLaststate, readFileLog, callback, calls, ui, waiting, lost>>

\* Mutant: the UI goes on waiting.
ServiceDiesSilently == /\ up
                       /\ up' = FALSE
                       /\ mLaststate' = "NOPROCESS" /\ mLastUpdateMessage' = None
                       /\ posted' = << >> /\ readFileLog' = FALSE
                       /\ callback' = IF callback = "none" THEN "none" ELSE "binding"
                       /\ UNCHANGED <<calls, ui, waiting, lost>>

\* The process dies. A pending call of the UI fails, its callback is
\* forgotten, and the UI is bound again when the service is back.
ServiceDies == /\ up
               /\ up' = FALSE
               /\ mLaststate' = "NOPROCESS" /\ mLastUpdateMessage' = None
               /\ posted' = << >> /\ readFileLog' = FALSE
               /\ callback' = IF callback = "none" THEN "none" ELSE "binding"
               /\ waiting' = FALSE
               /\ UNCHANGED <<calls, ui, lost>>

-----------------------------------------------------------------------------
(* Registration: onServiceConnected on the UI's main thread waits for      *)
(* registerStatusCallback on a binder thread of :openvpn, and for the log. *)

SendLastUpdate ==
    /\ up /\ callback = "binding" /\ Len(calls) < MaxCalls
    /\ callback' = "sent" /\ waiting' = TRUE
    /\ calls' = IF mLastUpdateMessage = None THEN calls ELSE Append(calls, mLastUpdateMessage)
    /\ lost' = FALSE
    /\ UNCHANGED <<service, ui>>

RegisterCallback == /\ callback = "sent"
                    /\ callback' = "registered"
                    /\ UNCHANGED <<service, calls, ui, waiting, lost>>

\* pushLogs waits for the cached log, then the UI has read it to its end.
LogReceived == /\ waiting /\ callback = "registered" /\ readFileLog
               /\ waiting' = FALSE
               /\ UNCHANGED <<service, callback, calls, ui, lost>>

-----------------------------------------------------------------------------
(* The process of the UI.                                                  *)

\* StatusListener.init
UiStarts == /\ callback = "none"
            /\ callback' = "binding"
            /\ UNCHANGED <<service, calls, ui, waiting, lost>>

UiDies == /\ callback # "none"
          /\ callback' = "none" /\ calls' = << >> /\ waiting' = FALSE
          /\ uiLaststate' = "NOPROCESS" /\ listening' = FALSE /\ levels' = << >> /\ told' = None
          /\ UNCHANGED <<service, lost>>

\* MainActivity.onCreate: nobody tells the new listener what came before it.
initConnectListener == /\ callback # "none" /\ ~waiting /\ ~listening
                       /\ listening' = TRUE
                       /\ UNCHANGED <<service, callback, calls, uiLaststate, waiting, levels, told, lost>>

\* StatusListener.mCallback.updateStateString
UiUpdateStateString ==
    /\ calls # << >> /\ Len(levels) < MaxLevels
    /\ calls' = Tail(calls)
    /\ LET state == Head(calls) IN
        IF Ignored(uiLaststate, state)
        THEN UNCHANGED <<uiLaststate, levels>>
        ELSE /\ uiLaststate' = state
             /\ levels' = IF listening THEN Append(levels, getLevel(state)) ELSE levels
    /\ UNCHANGED <<service, callback, waiting, listening, told, lost>>

connectStatus == /\ levels # << >> /\ ~waiting
                 /\ told' = Head(levels) /\ levels' = Tail(levels)
                 /\ UNCHANGED <<service, callback, calls, uiLaststate, waiting, listening, lost>>

-----------------------------------------------------------------------------
Init == /\ up = FALSE /\ mLaststate = "NOPROCESS" /\ mLastUpdateMessage = None
        /\ posted = << >> /\ readFileLog = FALSE
        /\ callback = "none" /\ calls = << >> /\ waiting = FALSE
        /\ uiLaststate = "NOPROCESS" /\ listening = FALSE /\ levels = << >> /\ told = None
        /\ lost = FALSE

Next == \/ \E state \in States : updateStateString(state)
        \/ handleMessage \/ ReadLogCache \/ onCreate \/ ServiceDies
        \/ SendLastUpdate \/ RegisterCallback \/ LogReceived
        \/ UiStarts \/ UiDies \/ initConnectListener \/ UiUpdateStateString \/ connectStatus

Spec == Init /\ [][Next]_vars

\* Loopers, binder threads and the log thread keep running, and Android
\* creates a service that is bound.
FairSpec == /\ Spec
            /\ WF_vars(handleMessage) /\ WF_vars(ReadLogCache) /\ WF_vars(onCreate)
            /\ WF_vars(SendLastUpdate) /\ WF_vars(RegisterCallback) /\ WF_vars(LogReceived)
            /\ WF_vars(UiUpdateStateString) /\ WF_vars(connectStatus)

-----------------------------------------------------------------------------
(* Properties.                                                             *)

TypeOK == /\ up \in BOOLEAN /\ readFileLog \in BOOLEAN
          /\ mLaststate \in States /\ mLastUpdateMessage \in States \cup {None}
          /\ posted \in Seq(States)
          /\ callback \in {"none", "binding", "sent", "registered"}
          /\ calls \in Seq(States)
          /\ uiLaststate \in States
          /\ waiting \in BOOLEAN /\ listening \in BOOLEAN
          /\ levels \in Seq(Levels) /\ told \in Levels \cup {None}
          /\ lost \in BOOLEAN
          /\ ~up => posted = << >> /\ callback \in {"none", "binding"} /\ ~readFileLog
          /\ waiting => callback \in {"sent", "registered"}

\* The state of the UI is the service's, but for what VpnStatus ignores.
Agrees(s) == uiLaststate = s \/ Ignored(uiLaststate, s)

\* When every update is through, the UI knows the state of the VPN and
\* MainActivity was told its level, however updates, registration and the ends
\* of both processes interleave; the exception is an update that came between
\* the two halves of registerStatusCallback, and only until the next one.
UpToDate ==
    callback = "registered" /\ posted = << >> /\ calls = << >> =>
        /\ Agrees(mLaststate) \/ lost
        /\ levels = << >> /\ told # None => told = getLevel(uiLaststate)

\* If the VPN stays in a state and the UI is there, the UI comes to know that
\* state and MainActivity to be told: no lost callback, dead process or wait
\* for the log keeps the levels from it (StatusListener, OpenVPNStatusService).
InformedAtLast ==
    \A s \in States :
        <>[](up /\ mLaststate = s /\ callback # "none") =>
            <>[](/\ Agrees(s) \/ lost
                 /\ told \in {None, getLevel(uiLaststate)})

\* "Registers to receive OpenVPN Status Updates" (IServiceStatus.aidl): when
\* every update is through, a UI that has registered has the last state.
UpdatesReceived ==
    callback = "registered" /\ posted = << >> /\ calls = << >> => Agrees(mLaststate)
=============================================================================
