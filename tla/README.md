# C424: a TLA+ model of the VPN client

C424 is an Android VPN client. The app (`app/`) shows a list of proxies, connects to one of them,
tries another protocol when a connection fails and ends a connection after a configured time. It drives a
copy of OpenVPN for Android (`vpn/`), whose service runs in a process of its own (`:openvpn`), starts the
native `openvpn` executable and talks to it over its management socket.

This directory holds TLA+ modules for the parts of the program that are hard to test, TLC configurations that
check them on small instances, and TLAPS proofs of the main safety properties for every instance.
`PROJECT.json` maps each definition to the lines it models and lists components, hazards, runs, mutants,
findings and theorems.

Contents: [1 the system](#1-the-system), [2 the modules](#2-the-modules), [3 the runs](#3-the-runs),
[4 the proofs](#4-the-proofs), [5 findings](#5-findings), [6 what is not modelled](#6-what-is-not-modelled),
[7 plan](#7-plan). To check a run: `tlc -config <name>.cfg <MC module>`; to check the proofs of a
module: `tlapm <Module>Proofs.tla`.

## 1 The system

### Processes and threads

| where | thread | runs |
|---|---|---|
| UI process | main thread | `MainActivity` and the other pages, four runnables in one `Handler`, dialogs, `onServiceConnected`, the levels `VpnStatus` reports |
| UI process | pool of 30 | `PingRunnable`, one per proxy |
| `:openvpn` process | main thread | `OpenVPNService` callbacks, `DeviceStateReceiver` broadcasts, two delayed runnables |
| `:openvpn` process | start thread | `startOpenVPN`: stops the old session, writes the configuration, starts the new one |
| `:openvpn` process | `OpenVPNManagementThread` | reads the management socket, answers it |
| `:openvpn` process | binder threads | calls of other apps and of `RemoteAction`: `userPause`, `stopVPN` |
| `:openvpn` process | `OpenVPNProcessThread` | waits for the native process, reports its end |
| `openvpn` | | the tunnel; waits in *hold* until released |

The UI learns of the service only through *levels* (CONNECTED, NOTCONNECTED, ...), sent over a binder
callback and posted to its main thread. A level does not say which session it belongs to. The UI commands the
service with a start intent, or by binding to it and calling `stopVPN` once bound.

### Components

| component | state | operations | what makes it correct | status |
|---|---|---|---|---|
| Pause control: `DeviceStateReceiver`, hold protocol of `OpenVpnManagementThread` | network, screen, userpause; mWaitingForRelease; posted runnables | broadcasts, user pause and resume (also by other apps), HOLD and BYTECOUNT lines, delayed disconnect and delayed release | a hold can always be ended; a VPN that should run is released; a paused one stays paused (it does not, section 5) | `PauseControl` |
| Connection flow: `MainActivity`, `ConnectStatusUtil`, `VpnManage`, the pages that return to it | status, strategy index, port, continueConnect, runnables, dialogs | clicks, dialogs, timeouts, next strategy, permission, levels, background, recreation of the activity, process death | every attempt ends; a session that is up is limited in time | `ConnectFlow` |
| Reliability of the control channel: `reliable.c`, driven by `ssl.c` | send and receive windows, pending and repeated acknowledgements, next packet id | write, send, retransmit, receive, acknowledge, deliver | what one end writes the other's TLS library gets once and in order, over any network; nothing blocks | `Reliable`, `Channel` |
| Packet ids and replay window: `packet_id.c` | next id and time stamp; highest id, window of arrival times | number a packet, check a packet, reap | no packet is accepted twice, late ones only within limits, no id is used twice | `PacketId` |
| Tunnel configuration: NEED-OK of `OpenVpnManagementThread`, `openTun`, `addRoute`, `setLocalIP`, `getTunReopenStatus`, `open_tun` of the process | addresses, routes, DNS servers, domain, proxy; last configuration; the tunnel | one per question, keep or open, fail | a kept tunnel is the requested one; no tunnel lacks anything requested | `TunnelConfig` |
| Routes: `NetworkSpace`, `CIDRIP` | a set of networks, a priority queue | addIP, generateIPList, getPositiveIPList | no overlap; exactly the wanted addresses; returns | `NetworkSpace` |
| Status relay: `VpnStatus`, `OpenVPNStatusService`, `StatusListener` | last state in both processes, posts, callback, calls under way | update, broadcast, register, deliver | the UI ends with the state of the VPN | `StatusRelay`; its outside in `ConnectFlow` |
| Service lifecycle: `OpenVPNService`, `OpenVPNThread` | mProcessThread, mManagement, mStarting, the receiver | start (replacing a session), stop, revoke, end | one session at a time; an end of an old session never harms the new one | its outside in `ConnectFlow`, its receiver in `PauseControl` |
| Profile store: `ProfileManager` | files, list, cache | save, load, remove | a crash loses no profile | planned |
| Log file: `LogFileHandler`, `LogItem` | a byte stream | write, trim, read back | what is read was written | planned |
| Traffic history | three windows | add | windows ordered and bounded | planned |
| Delays: `PingUtil`, `Ping` | counter, two lists | refresh, answer | the list is finished once, with all answers | planned |
| Profiles and their text, remote API, passwords and certificates, Orbot, app start, advertisements, server requests, display, native libraries | | | | not modelled, see section 6 |

### What is hard here

* The main thread, the management thread and binder threads change the same fields without a lock
  (`DeviceStateReceiver`, `OpenVpnManagementThread`), and one of them may sleep in between.
* Runnables posted with a delay run after the reason for them is gone (`MainActivity`, both handlers of the
  pause control).
* Levels of an old session arrive during the next one.
* A stop can meet a session that cannot hear it, or the session after the one it was meant for.
* The UI process dies, or `MainActivity` is recreated in it, while the service lives; runnables and levels of the
  old activity then run beside those of the new one.
* Splitting networks meets every boundary of address arithmetic.
* Packets and acknowledgements of the native process are lost, repeated and reordered; ids and windows reach
  their ends.
* A tunnel's configuration is collected over many questions, and the process can end between any two of them.
* A callback is registered while the looper that serves it goes on.

The list with lines is "hazards" in `PROJECT.json`; sections 3 and 4 say which property watches which.

## 2 The modules

| module | contents |
|---|---|
| `PauseControl` | pausing and releasing the openvpn process; threads of the service and the process |
| `ConnectFlow` | the connection as the app sees it; composes the UI with an outline of the service |
| `StatusRelay` | how a state gets from a thread of the service to MainActivity; two processes |
| `TunnelConfig` | how the process and the service agree on a tunnel |
| `NetworkSpace` | the route computation as a loop over a bag |
| `Reliable` | the control channel of the native process; two ends and a network |
| `Channel` | what `Reliable` promises: a bounded FIFO channel |
| `PacketId` | numbering packets and refusing replays; two ends and a network |
| `MC...` | constants for TLC, one module for each |
| `NetworkLemmas` | powers of two and networks as intervals: what `NetworkSpaceProofs` needs of arithmetic |
| `...Proofs` | theorems, one module for each but `Channel` |

Each property has a *mutant*: a changed form of one definition (a dropped guard, a missing reset), written
before the original and marked `Mutant:`, under which TLC finds the property violated.

### PauseControl

State: the three `connectState` fields, `lastConnectedNetwork`, the flag `mWaitingForRelease` (`waiting`), how
often each runnable is posted, the lines in flight each way, whether the process is in hold, and for each thread
what it does next (`pc`).

* Nothing in the two classes is locked, so a thread takes one step for each field of another thread's concern that it
  reads or writes, and for each command it writes: `pause` is `Pause`, `TestPause`, `WriteUsr1`; the release is
  `ReleaseHold`, `ReleaseHoldCmd`, `ClearFlag`, `WriteRelease`, with the sleep of up to three seconds before
  `ClearFlag`; `handleHold` is `HandleHold`, `HandleHoldAsk`, `HandleHoldPost`; `updateByteCount` its test and
  `LowTraffic`. These steps are the same on every thread (`OpenVPNManagement(t)`).
* `shouldBeConnected()`, which reads three fields, is one step. Fields are read and written in some
  sequential order (no torn or cached reads).
* `userPause(t)` runs on the main thread (the notification) and on `BinderThreads` (other apps through
  `ExternalOpenVPNService`, and `RemoteAction`), at any time, also during another thread's sleep. `Orderly` says
  that only the notification calls it and RESUME only follows PAUSE, as the notification's button allows.
* `networkStateChange` has three alternatives: `NetworkConnected`, `NetworkGone`, `NetworkUnsettled` (a
  `NetworkInfo` that is not CONNECTED); `AskNetwork` is what follows for a connected network.
* The traffic window of `updateByteCount` is reduced to its outcome: below the limit or not.
* `lastPauseReason` and the states `VpnStatus` is told are left out: they are displayed and guard nothing.
* The process obeys `hold release`, `signal SIGUSR1` and `network-change` as `manage.c` does and may restart
  of itself. Byte counts and restarts happen with no unread command, which loses nothing: such a step commutes
  with a command not yet seen.
* Environment: networks and the display change at any time.

### ConnectFlow

State: `ConnectStatusUtil.status` and the strategy `index`, which are static; per instance of `MainActivity` its
`port`, `continueConnect`, whether its list is filled (`loaded`) and the posts of its four runnables; which instance
is shown (`activity`); dialogs and page; bindings and start intents under way; and an outline of the service: the
session (`vpn`), sessions whose end is not yet reported (`dying`) and levels under way (`events`).

* One action per handler; everything runs on the main thread. Runnables carry no time and may run in any
  order, which allows more than real delays do; no property relies on an order of delays.
* `checkVPNPermission`, `startConnect`, `stopConnect` and `judgeIsReconnectByLastStrategy` are operators the
  handlers use, with everything they call. `getRandomPort`, which calls itself until the port differs, is
  modelled by what it returns (`RandomPorts`) and by whether it returns (`StartReturns`); a handler
  that does not return, an index past the end and a result reported with a null port crash the process.
* The manifest gives `MainActivity` no `configChanges`, so a change of language, font size or dark mode recreates it in
  the live process (`Recreate`): a new instance replaces the one shown, sets UN_CONNECT, stops nothing and
  knows neither port nor list. Runnables and levels of the old instance still run, on its own fields; the
  status they set is that of the new one. A level says which instance's listener posted it (`to`).
* A binding of `stopVpn` may be dropped with the activity it was made with (`MayForget`).
* When the UI process dies or throws (`Die`), its state goes back to that of `onCreate`; the service keeps its own.
* The service obeys starts in order; a start replaces the session, whose end is reported once or twice, later;
  a stop reaches only a session whose socket is open. Levels are delivered in order and lost when no UI
  process exists. `VpnManage` never unbinds, so `onServiceConnected` runs again when `:openvpn` restarts; what it
  does then, ending a session, `SessionFails` does too.
* Simplifications: every proxy offers the same ports; the configured strategies do not change while the
  process lives; `ReportActivity` counts as the main page, whose handlers go on below it.
* Bounds: `MaxPosts`, `MaxCalls`, `MaxLeft`, `MaxDying` and `MaxEvents` hold back the user, a recreation and the
  service while that much is pending; a runnable or callback that is due is never held back.

### NetworkSpace

A network is its first address, its mask and its type. Collecting calls and iterations of the loop are the
actions, each branch of the loop an operator of its own (`Disjoint`, `ForgetCurrent`, `SplitNext`, `ForgetNext`,
`SplitCurrent`). A `TreeSet` is a set that refuses an equal element (equality ignores the type, as `compareTo`
and `equals` do); the `PriorityQueue` is a bag whose `poll` returns any of the least elements, because Java
does not say which of several equal ones comes first.

Below API 33 `openTun` installs the positive list. From API 33 on `installRoutesExcluded` installs the networks as they
were collected, included and excluded ones, which may nest and overlap (`OpenVPNService.java:822`, `:927`), and
leaves it to Android to choose the most specific; the list is computed there too, but only a warning about a DNS
server outside of it is drawn from it. `DoneDisjoint`, `PositiveIsExact` and `RoutesAreValid` are about the list, so about what the system is given below API 33 only.

### StatusRelay

State: `VpnStatus.mLaststate` of each process, `mLastUpdateMessage`, the posts of `mHandler`, the calls under way
to the UI's callback, how far its registration is (`callback`), whether the UI's main thread is inside
`onServiceConnected` (`waiting`), and what was posted and told to MainActivity.

* `updateStateString` is synchronized and calls its listeners inside: one action, with the two filters
  (`Ignored`, `Skipped`). The UI runs the same method on what it receives.
* `registerStatusCallback` runs on a binder thread and is cut in two: `SendLastUpdate`, `RegisterCallback`.
  The looper (`handleMessage`) runs between them. After it the UI's main thread waits for the log, which the writer
  sends when the cached log was read (`ReadLogCache`, `LogReceived`).
* Calls to one callback are `oneway` and arrive in order. A call made before its sender died still arrives.
* `lost` is a history variable: the last broadcast found the callback not registered.
* MainActivity sets its listener some time after the process started (`initConnectListener`); nobody tells it
  what came before, so `told` may stay `None`.

### TunnelConfig

State: the seven fields the service collects a configuration in, `mLastTunCfg`, the question the process asks
next (`phase`), the configuration it sets up (`want`) and what of it is still to be sent (`todo`), and what its
tunnel was opened with (`tun`). `clean` is a history variable: nothing is left over of an earlier round.

* One action per question, in the order of `do_ifconfig`, `do_route` and `open_tun`. The process waits for each
  answer, so a question and its handling are one step.
* `getTunConfigString` is modelled by the record of what it prints.
* The process may end between any two questions (`Exit`), be restarted by SIGUSR1 with or without its tunnel
  (`Restart`) or be replaced by a new one of the same service instance (`StartProcess`). Two rounds never
  overlap: `stopOldOpenVPNProcess` waits for the old process, and the order in which it does not wait long enough
  is a hazard of the service lifecycle.
* `establish()` may fail after the lists were reset, an address may be refused before (`EstablishFails`,
  `AddressRefused`).
* Collected routes are a function from networks to *absent*, *include* or *exclude*. `TreeSet.add` compares networks
  without the flag, so a network that is there already is refused and its first flag stays (`Add`): over leftovers of
  an earlier round, for the own network of an address that the server also pushes (`IFCONFIG` comes first), and for
  a local network. `Requested` collects in the same order.
* Configurations without a DNS server are ordinary ones. A configuration names each network once, with one gateway;
  `OnTunnel` says whether it counts as included.

### Reliable and Channel

One direction of a key state: `send` and `rec` are the two arrays of `reliable_entry`, `rec_ack` and `lru_acks`
the pending and the repeated acknowledgements, `packets` and `records` the network. An action is one pass of an
event loop through one branch of `tls_process_state`, `tls_process` or `tls_pre_decrypt`. Packet ids wrap at
`2 * Half`; a key state ends long before (`HalfAssumption`), and a theorem covers the arithmetic at the wrap. Time is
whether an entry is due.

`Channel` has two variables, what was written and what was delivered. `Reliable` implements it with `sent` the
packets numbered so far and `Capacity` the two windows (`FifoChannel`): checked by TLC, proved by TLAPS.

### PacketId

The sender's id and time stamp, the receiver's window (`seq_list`, by id), the clock. All packets sent stay in
flight, so each may come any number of times, in any order. Both forms of an id (with and without time stamp) and both
modes (with a window for UDP, `seq_backtrack = 0` for TCP) are initial choices. `packet_id_reap` is modelled by which
entries its loop reaches. `--replay-persist` is not used by the app.

## 3 The runs

### Passing

| run | instance | shows |
|---|---|---|
| `pause` | two networks, screen-off preference, networks that blink, one line each way, orderly use, fair threads | `HoldCanBeEnded`: a hold can be ended; `NoStuckHold` and its strengthening `HoldInv`: one that should end is not forgotten; `ResumesEventually`: a VPN that should run is not left in hold |
| `connect_limit` | two instances, TCP then UDP on one port each; permission asked, granted, refused; background; recreation; crashes | `UpIsLimited`: a session that is up has its limit, the report that posts it or a stop under way |
| `connect_attempt` | one instance, one port per protocol, permission there, all pages, background, kills and restarts, fair main looper | `ConnectingIsWatched`: an attempt has something pending that moves it on; `ConnectingEnds`: no attempt lasts for ever, whatever the service does |
| `status` | five states, both processes may die, fair loopers | `UpToDate`: a quiet relay has told the UI; `InformedAtLast`: a state that lasts reaches MainActivity |
| `tunnel` | five configurations (three of one server, of which one has no DNS server; one of another, which also pushes the own network; one with IPv6 only), a local network | `KeptIsRequested`, `NothingMissing`, `OpenedIsRequested` |
| `reliable` | three packets, windows of two, a record of two packets, two packets and one record in flight, fair network | `FifoChannel`, `NothingForgotten`, `WindowOpen`, `AvailableIsFree`; `Acknowledged`: every packet is delivered and its entry freed |
| `packet_id` | three ids, windows 0 and 2, time up to 5, time limit 1, reaping every 2 | `NoReplay`, `InTimeIsAccepted`, `LateIsRejected`, `NoReuse` |
| `routes` | all sets of up to four networks over 3-bit addresses | `DoneDisjoint`, `PositiveIsExact`, `RoutesAreValid` (Android refuses none of the list), `Terminates` |

Why the bounds are enough:

* Pause control: the races need a HOLD line under way while another command is written, a runnable posted and
  one event of the other thread: one line each way and one post per runnable have these. The run is orderly, so it has
  no binder thread; `HoldCanBeEnded` with such threads is a theorem, for any number of them. Two networks tell
  "the same" from "another" network; a third adds nothing, as only the last one is remembered. All safety
  properties are proved without these bounds.
* Connection flow: two strategies have a first, a next and a last. With one port per protocol a second start with the
  same protocol finds no other port and crashes, so crashes are among what happens in both runs. Two
  instances are an old and a new one; one runnable or limit left over at a recreation (`MaxLeft`) is enough to act on the wrong instance. One old session dying while
  the next starts is enough for its late level to be taken for the new one's, and one runnable more than the
  code ever intends lets them pile up. The safety properties are also proved without these bounds.
* Status relay: the states are one for each way `VpnStatus` treats them (ignored after CONNECTED, skipped while
  waiting for the user, passed on). Two posts let an older update follow the one that was sent at registration
  (`MaxPosted`); one call and one level under way (`MaxCalls`, `MaxLevels`) keep the order, and the theorem has no bound.
* Tunnel: `MaxDns` 3 lets two configurations pile up in the lists, which needs a kept or broken round before.
  The configurations share the address, the routes or the servers in part, so that lists that were not reset can
  look like another request.
* Control channel: with windows of two a packet can be ahead, in order and behind; two packets in flight
  reorder; one acknowledgement per record (`AckSize` 1) makes the list of pending ones full. `Half` 16 is far above
  the three ids. The safety properties and the refinement are proved for every size.
* Packet ids: three ids reach the roll-over and move a window of two past its end; five seconds have a
  reaping that is due, one that is not, and an entry that expires between them.
* Routes: with 3 bits a network can have a strictly nested, a touching, a beginning and an ending neighbour and
  all three at once; the four networks make every branch of the loop fire after every other.

`PositiveIsExact` and `RoutesAreValid` have a condition. `Plain` excludes networks inside an excluded one, and `~Clash` excludes
two exclusions below one included network of which one is the upper half of a network that has the other in its
lower half. Outside either condition the code computes other routes (section 5); both were found by
checking all small inputs; inside them the result is proved exact for addresses of any length.

Deadlock is checked except in ConnectFlow, where a crashed process with bounds reached may stop, in Reliable,
which is finished when the stream is acknowledged, and in PacketId, where the time and the ids end.

### Fairness

* `pause`: all threads and the process take the next step of what they have begun, a posted runnable
  runs, and the receiver is registered: what Android's looper and the scheduler give. Nothing is
  assumed of user, display, networks, or restarts.
* `connect_attempt`: the main looper runs every runnable and callback, and a permission dialog is answered. The
  service may do nothing for ever.
* `status`: both loopers, binder threads and the log thread keep running, and Android creates a service that is
  bound. Nothing is assumed of updates, deaths and restarts of the UI.
* `reliable`: both event loops keep running and time passes. Of the network strong fairness: a packet that is
  sent again and again is received at some time, and so is the acknowledgement of a packet. Without that no
  retransmission can help; openvpn gives up after `hand-window` instead.
* `routes`: the loop goes on.

### Violations

`pause_lost`, `tunnel_requested`, `status_lost` and `routes_assert` each check one sentence of the repository that the code does not
keep; see section 5.

## 4 The proofs

All theorems hold for every value of the constants that satisfies the named assumptions.

| theorem | says | extra hypotheses |
|---|---|---|
| `PauseControlProofs!TypeCorrect` | `TypeOK` | |
| `PauseControlProofs!HoldEndable` | `HoldCanBeEnded` | |
| `PauseControlProofs!HoldTracked` | `HoldInv` | its parts `HoldIsHandled`, `MainIsRight`: `Orderly` |
| `PauseControlProofs!HoldNeverStuck` | `NoStuckHold` | `Orderly` (in the property) |
| `ConnectFlowProofs!TypeCorrect` | `TypeOK` | |
| `ConnectFlowProofs!SessionsAreLimited` | `UpIsLimited` | no kill; no recreation that drops a binding |
| `ConnectFlowProofs!AttemptsAreWatched` | `ConnectingIsWatched` | `~MayDeny` |
| `StatusRelayProofs!TypeCorrect` | `TypeOK` | |
| `StatusRelayProofs!QuietIsUpToDate` | `UpToDate` | |
| `TunnelConfigProofs!TypeCorrect` | `TypeOK` | |
| `TunnelConfigProofs!KeptExactly` | `KeptIsRequested` | the round names a DNS server or is clean (in the property) |
| `TunnelConfigProofs!NeverIncomplete` | `NothingMissing` | |
| `TunnelConfigProofs!OpenedExactly` | `OpenedIsRequested` | |
| `ReliableProofs!OrderAcrossWrap` | order of ids on both sides of the wrap | ids less than `Half` apart |
| `ReliableProofs!TypeCorrect` | `TypeOK`: no array overflows | |
| `ReliableProofs!NothingIsForgotten` | `NothingForgotten` | |
| `ReliableProofs!WindowStaysOpen` | `WindowOpen` | |
| `ReliableProofs!AvailableBuffersAreFree` | `AvailableIsFree` | |
| `ReliableProofs!ImplementsChannel` | `Spec` implies `Channel!Spec` | |
| `PacketIdProofs!TypeCorrect` | `TypeOK`: the window is the ids behind the highest | |
| `PacketIdProofs!NeverReplayed` | `NoReplay` | |
| `PacketIdProofs!InTimeAccepted` | `InTimeIsAccepted` | |
| `PacketIdProofs!LateRejected` | `LateIsRejected` | |
| `PacketIdProofs!NeverReused` | `NoReuse` | |
| `NetworkSpaceProofs!TypeCorrect` | `TypeOK` | |
| `NetworkSpaceProofs!ListIsDisjoint` | `DoneDisjoint` | |
| `NetworkSpaceProofs!PositiveExact` | `PositiveIsExact` | |
| `NetworkSpaceProofs!InstalledAreValid` | `RoutesAreValid` | |
| `NetworkSpaceProofs!AssertionHolds` | `NextBeginsLater` for the usual routes | |

The arguments:

* **Hold.** `HoldCanBeEnded` and `NoStuckHold` speak of quiet states only; `HoldInv` says for every state who
  takes care of a hold.
  * `HoldIsKnown` needs no assumption: a process in hold has its flag set, or the HOLD line that sets it is unread, or the
    release that ends it is unread or about to be written. A thread that clears the flag goes on to write the
    release, and the process answers every signal in hold with another HOLD line; so it does not matter how
    many threads pause and resume at once, or who sleeps.
  * `HoldIsHandled`, in orderly use: a hold that should end has its HOLD line unread, or `handleHold` or a handler of the main
    thread on its way to release or post, or the runnable posted, or the release unread. A pause of the main thread
    removes the runnable; `MainIsRight` says that it does so only while the VPN should not run. A pause of the
    management thread does so at another time; then the process runs, or a HOLD line follows (`HoldIsLast`).
    `ScreenIsRight` relates the display, the screen state and the management thread's stale test of it, which may
    overwrite the value SCREEN_ON has just set.
* **Limit.** `UpIsLimited` is inductive. A session comes up with a CONNECTED that posts the runnable when handled; whatever
  removes a runnable of the instance shown sets UN_CONNECT, and comes with a stop (a binding), or with a
  recreation, which leaves the runnables of the old instance in their queue; a stop that connects finds a session that
  is up and ends it. A handler that throws or a kill ends the process, hence "as long as it runs"; one restarted
  beside a live session has no timer for it, hence "no kill". A binding dropped with the old activity is the one case in
  which a recreation loses the limit.
* **Attempts.** Each path that removes a timeout posts one, posts the next try, opens the permission dialog or
  leaves CONNECTING (`WatchStep`). `connect_attempt` checks it with the permission there, the theorem also covers
  a permission that is asked for and granted, and recreations.
* **Routes, order.** `InOrder`: nothing queued begins before the current network, and everything done ended before
  it. Splitting keeps this because both halves begin no earlier.
* **Routes, exactness.** `PositiveIsExact` speaks of the end, so the invariant (`ExactInv`) describes the networks in
  play at any time: the list, the current one and the queue. An excluded network in play is one that was added, an
  included one a piece of one that was added and not inside an excluded one (`Good`); all excluded networks stay in
  play; what was included stays covered by included ones in play and excluded ones (`Covered`). `PolledFirst` says
  that the current network precedes the queue. Each branch of the loop replaces included networks by pieces that
  cover them (`Replace`). Two networks that overlap are nested (`Nested`), so a branch that splits has an excluded
  network strictly inside an included one, never the reverse. The danger is a half that equals an excluded network:
  * `SplitNext` looks for both halves in the queue, and an excluded network that equals one of them is there
    (`ExcludedAhead`) or is the current network, whose last address is compared.
  * `SplitCurrent` does not look. Its lower half cannot equal an excluded network, which would have been polled
    before. If its upper half has the length of the next network, the next network is that half
    (`NextIsUpperHalf`) and the code is right not to add it. Otherwise an excluded network that equals it and the
    next network would be a `Clash` (`NoClash`), which is where that condition comes from.

  At the end the list is disjoint, so an address of an included piece is in no excluded network, and the most specific
  network it is in (`MostSpecific`) is included. `Plain` is needed for the reverse.
* **Routes, arithmetic.** The provers know neither that 2^(m+n) = 2^m 2^n nor induction. `NetworkLemmas` gets the first
  from counting: subsets of a union of disjoint sets are pairs of subsets. That a bounded set of numbers has a
  greatest element comes from the well-foundedness of the strict-subset order on finite sets.
* **Relay.** `UpToDate` speaks of quiet states. The invariant says of each place an update can be in that the last
  one there is the state of the place before: `LastPosted`, `LastCall` (when nothing is posted and nothing was
  lost), `LastLevel`. A filter never breaks it: an ignored state leaves the UI in a state that ignores it.
* **Tunnel.** A round is clean or on top of something. A clean round has collected exactly the part of the
  request that is no longer in `todo`, each network with its first flag (`CleanAsking`), so at the end it is the
  request. A round on top of a kept tunnel has all of that tunnel's DNS servers; if it names one itself it has more
  (`LeftAsking`), so the comparison fails and the tunnel is opened anew. That is why NOACTION is right even though
  the lists are not reset, and why the property asks for a DNS server or a clean round.
* **Control channel.** Ids in use stay below `Half`, which turns the modular comparisons into plain ones. Entries
  of `send` hold different ids out of the last `SendSize`, entries of `rec` different ids of the next `RecSize`;
  an acknowledgement in any place names an id that was stored; every stored or flying packet has the content its id
  has in the stream. The refinement follows from these: numbering packets is `Write`, delivering the next is
  `Deliver`, all else stutters.
* **Packet ids.** The window's marks and the times of acceptance agree: an id of the current sequence that was
  accepted is in the window with its time, or expired, or below it. Expired ids form a prefix up to one that was too
  old, which gives both bounds on late packets.

All invariants the passing runs check are proved. Only model-checked are the liveness properties
(`ResumesEventually`, `ConnectingEnds`, `InformedAtLast`, `Acknowledged`, `Terminates`), since the prover has no rule
for fairness; for `Terminates` a measure would also have to be summed over a bag, an induction over data.

## 5 Findings

| run | the code | the repository says |
|---|---|---|
| `pause_lost` | a network that comes back within 20 s releases a hold without asking whether the user has paused (`DeviceStateReceiver.java:233`) | "Pause the VPN" (`IOpenVPNAPIService.aidl:38`); "connection still 'established'" (`DeviceStateReceiver.java:229`) |
| `tunnel_requested` | only `openTun` resets what was collected; after NOACTION, or when the process ends between two questions, the next tunnel also has the old routes, DNS servers and domain, and keeps excluded what was excluded (`OpenVPNService.java:1290`) | "calls the OPENTUN command to receive a tun fd with the requested configuration" (`doc/android.txt`) |
| `status_lost` | `registerStatusCallback` sends the last update, then registers; an update broadcast between the two reaches nobody (`OpenVPNStatusService.java:67`) | "Registers to receive OpenVPN Status Updates" (`IServiceStatus.aidl`) |
| `routes_assert` | `SplitCurrent` can queue a network twice with both types (`NetworkSpace.java:344`); the routes are then wrong (never for the usual routes: `AssertionHolds`) | the assertion at line 321 |

Also visible in the models, without a run of their own:

* Pause control
  * A second RESUME takes the branch that pauses and removes the runnable of a hold that waits for its retry, and
    binder threads may resume and pause in any order: without `Orderly`, `NoStuckHold` fails.
  * A pause on a binder thread during the three seconds a release sleeps does not stop the release: the process runs
    although the user has paused.
  * After PAUSE, RESUME, PAUSE a HOLD line read late sets the flag, and the second pause signals nothing
    (`OpenVpnManagementThread.java:748`).
  * `updateByteCount` may overwrite the screen state SCREEN_ON has just set, and its pause the reason of a user's
    pause: the VPN pauses with the display on, or shows "screen off" to a user who has paused (the reason is not modelled).
  * SCREEN_ON removes the delayed disconnect of a missing network.
* Connection flow
  * `getRandomPort` never returns if the next protocol has only the current port (`MainActivity.java:532`); an empty
    list of strategies throws.
  * The end of a stopped session skips a strategy of the next attempt (`MainActivity.java:262`).
  * An interrupt within 200 ms of a timeout does not stop the next strategy (`MainActivity.java:454`).
  * A recreated activity, like a restarted process, shows UN_CONNECT beside a live session (`MainActivity.java:179`) and throws
    at the next CONNECTED, for want of a port (`MainActivity.java:251`).
  * The runnable that limits a session survives the activity that posted it and may end a later session early.
  * With `MayForget`, a stop whose binding is dropped with the old activity leaves a session without limit; so does a kill.
    Hence the hypotheses of `SessionsAreLimited`.
  * A refused permission leaves CONNECTING shown until the user interrupts, hence `~MayDeny`.
  * A CONNECTED under way when the user stops is shown afterwards; a connection that is lost while CONNECTED is
    shown goes on being shown, until the time limit.
  * A refresh of the list whose request fails never ends.
* Status relay
  * If `:openvpn` dies while the UI has CONNECTED and the new process is in WAIT or AUTH when the UI registers
    again, the UI ignores that and stays CONNECTED until the next state (`Agrees` allows for it).
  * MainActivity learns nothing that was delivered before it set its listener.
* Tunnel
  * A round without a DNS server on top of what a kept tunnel left can look like that tunnel, which is then kept although
    less is asked for: hence the condition of `KeptIsRequested`.
  * A network left over as excluded stays so when it is to be included (`NetworkSpace.java:256`): `NothingMissing` says that it
    is there, not with which flag.
  * After one kept tunnel the third identical round has a longer list of DNS servers and is answered
    OPEN_BEFORE_CLOSE, where a comment promises the same string for the same configuration
    (`OpenVPNService.java:719`).
  * The excluded local networks are in `mLastTunCfg` but are added after the comparison: with a local network
    allowed, no tunnel is ever kept.
  * A pause whose SIGUSR1 meets a question of the process is fatal to the process.
* Routes
  * An included network that shares its first address with an excluded one around it is dropped if a larger
    included network has both, hence `Plain`.

## 6 What is not modelled

* **Text and encoding:** `VpnProfile`, `ConfigParser`, `CIDRIP` text, beans, request encryption. Functions of
  their input, tested more cheaply than modelled.
* **I/O wrappers:** server requests, certificates, `NativeUtils`, `FileProvider`, ICMP packets.
* **Advertisements:** a closed library's callbacks.
* **Display:** layouts, animations, adapters.
* **Service lifecycle:** the start thread, the process thread and the ends of two sessions. `forceStopOpenVpnProcess`
  sleeps with `mProcessLock` held, so the end of the old session waits for the lock and runs when `mStarting` is
  false again; it then clears what belongs to the new session. The hazards say where. The UI's side of it (an
  old session ends late, once or twice) is in `ConnectFlow`.
* **Native code:** the repository vendors openvpn, openvpn3, openssl, mbedtls, asio, lz4 and lzo, more than a million
  lines of which the app's own code is well under one percent. Modelled are the parts of openvpn whose state machines the
  app depends on. Cryptography and compression are functions of their input; openvpn3 is not selected in this build.
* **Entry points:** remote API, `LaunchVPN`, boot receiver: they end in modelled operations (pause and resume through
  the remote API are the binder threads of `PauseControl`).
* **Orbot:** the app makes no profile that uses it.
* Of the modelled parts: real time (delays are orders), Java memory effects finer than single reads and
  writes, the reason shown for a pause, and the routes as installed from API 33 on. Of the status relay: the log buffer.

## 7 Plan

Done: `PauseControl`, `ConnectFlow`, `NetworkSpace`, `TunnelConfig`, `StatusRelay`, `Reliable` with `Channel`,
`PacketId`, all with proofs. What would come next:

1. **ServiceLifecycle** — start thread, process thread, management thread and main thread of the service with
   `mProcessLock` and `mStarting`, for two sessions; what holds of it has first to be found, see section 6.
2. **PingList** — the counter and lists `PingUtil` shares between refreshes.
3. **LogFile**, **Traffic**, **ProfileStore** — framing against a reference over short byte strings; two windows with
   a clock; saves cut by a crash.
4. The key states of `ssl.c` above `Reliable`: renegotiation and the lame duck key.

Theorems to add: which strategies an attempt of `ConnectFlow` tries, once the places that skip one are told apart.
