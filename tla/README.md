# A verification development of esp-idf-matter

`esp-idf-matter` runs the Matter stack (`rs-matter`) on ESP-IDF: it supplies the
BLE transport used for commissioning, the Thread, Wi-Fi and Ethernet network
controllers, mDNS/SRP registration, persistence and diagnostics.  This directory
holds TLA+ models of its concurrent parts, TLC configurations that check them on
small instances, and TLAPS proofs for every value of the constants.

All line numbers below are of `src/src/` in the repository unless a path is given.

## 1. The system

| Component | Source | State | Operations | Talks to |
|---|---|---|---|---|
| BTP GATT peripheral, NimBLE | `ble/nimble.rs` 40-630 | `State` (connection, conn_gen, btp_gen, in_data, need_advertise, adv_data), `out_nack`, two signals, the global `CONTEXT`, `C2_VAL_HANDLE` | `new`, `run`, `drop`, ten event hooks, `process_incoming`, `process_outgoing`, `advertise` | NimBLE host task (hooks, driver calls), the `Btp` engine |
| BTP GATT central, NimBLE | `ble/nimble.rs` 632-1167 | `State` (conn_handle, handles found, in_data, out_inflight, failed, ...), three signals | `new`, `run` (scan, connect, MTU, discovery, CCCD, pumps), hooks, `wait_state` | the same |
| BTP GATT peripheral, Bluedroid | `ble/bluedroid.rs` | `State` (handles, one connection, conn_gen, btp_gen, in_data, in_trans, out_nack), two signals | `new`, `run`, GAP and GATTS event handlers, two pumps | Bluedroid task, `Btp` |
| Thread controller | `thread.rs` 60-677 | async mutex around `EspThread`, `operational` | `scan`, `connect`, `wait_changed`, `access`, diagnostics | OpenThread, `netif.rs` |
| Thread driver | `wireless/thread.rs` | the `EspThread` built per run, `ThreadQuiesce`; the ICD parameters applied | `run` (two variants), `configure_sed`, `run_icd` | controller, SRP, NVS, the ICD |
| Thread SRP and DNS client | `thread.rs` 679-1096 | the list of registered services and slots | `run`, `update_services`, `run_serve` | OpenThread SRP and DNS clients |
| Interface state | `netif.rs` | cached `NetifInfoOwned` | `wait_changed`, `load`, `wait_any_conf_change`, `netifs` | the controllers, the event loop |
| Wi-Fi controller and driver | `wifi.rs`, `wireless/wifi.rs` | async mutex around `AsyncWifi`, `operational` | `scan`, `connect`, `wait_changed`, diagnostics | ESP Wi-Fi driver, `netif.rs` |
| Battery sensor | `../examples/temp_sensor_battery_thread.rs` | `WAKE_COUNT` and `SLEPT_CLOCK` in RTC RAM, the system clock | `matter` (each boot), `deep_sleep_when_idle`, `save_clock`, `restore_clock`, `ClockKeeper::run`, `wait_reset` | the ICD, the stack's persistence, the driver |
| UDP sockets | `netif/udp.rs` | none of its own | bind, send, receive, join, leave | async-io |
| Persistence | `persist.rs` | none beside NVS | `load`, `store`, `remove` | NVS |
| Software diagnostics | `sw_diag.rs` | none | task list, heap | FreeRTOS |
| Ethernet, glue | `eth.rs`, `lib.rs`, `error.rs`, `ble.rs`, ... | none | getters, re-exports | |

What is hard in it:

* **Two kinds of threads.**  Event hooks run on the BLE host's task; pumps and
  controllers are futures of one executor.  They share a state behind a
  critical section, and one-slot signals.  The NimBLE hooks signal *after* they
  release the lock, so a pump can look and fall asleep in between.
* **Re-entrancy.**  NimBLE may complete an indication inside the very call that
  sends it, while the pump holds the lock.
* **One BTP session, many links.**  The session belongs to a link that may be
  gone; `conn_gen` and `btp_gen` are how the pumps find out.
* **Failure at every call.**  `advertise`, `indicate`, `read`, `send_response`,
  `enable_thread`, the readings of a netif; and each future may be dropped at
  any await.
* **The stack moves under the code.**  Links, attachments and addresses come and
  go between a reading and its use; Thread keeps its dataset over a reboot.
* **Sleep is a crash.**  The battery sensor powers everything off between two
  polls: what was not flushed, set or programmed in time is gone or wrong.
* **Two records of one thing.**  The registrar keeps a list of what it thinks the
  SRP client holds, the client of what it thinks the server holds.

What makes each component correct: no session or frame crosses from one link to
the next; no write, frame, confirmation or advertising request is lost; a
peripheral without a link is discoverable; the central's `run()` ends when its
link does; a `connect` reports success only for the network it was asked for;
cached interface state converges to the truth; no stale credentials reach the
radio; what the SRP client reports as registered can be discovered; a sleeping
device finds its registrations and its time again, and its parent keeps it.
`PROJECT.json` lists every hazard with its line and the properties that cover it, or why none does.

## 2. The modules

| Module | Models |
|---|---|
| `BtpTransport` | Abstract specification: what a GATT peripheral promises the BTP engine, one session per link |
| `NimblePeripheral` | `EspBtpGattPeripheral` on NimBLE |
| `NimblePeripheralProofs` | Its inductive invariant, safety theorems and refinement of `BtpTransport` |
| `NimbleCentral` | `EspBtpGattClient` on NimBLE |
| `NimbleCentralProofs` | Its inductive invariant and safety theorems |
| `BluedroidPeripheral` | `EspBtpGattPeripheral` on Bluedroid; refines `BtpTransport` too |
| `BluedroidPeripheralProofs` | Its inductive invariant, safety theorems and refinement of `BtpTransport` |
| `NetController` | Abstract specification: what a wireless network controller promises the Matter stack |
| `ThreadNet` | Composes `EspMatterThread::run`, `EspMatterThreadCtl` and `EspMatterNetif`; refines `NetController` |
| `ThreadNetProofs` | Its inductive invariant, safety theorems and refinement of `NetController` |
| `WifiNet` | Composes `EspMatterWifi::run` and `EspMatterWifiCtl`; refines `NetController` too |
| `WifiNetProofs` | Its inductive invariant, types and refinement of `NetController` |
| `ThreadSrp` | `EspMatterThreadSrp` over the SRP client and a server |
| `ThreadSrpProofs` | Its inductive invariant and safety theorems |
| `IcdTimeouts` | The keep-alive arithmetic of `wireless/thread.rs`, without state |
| `SleepyDevice` | Composes the battery sensor's deep-sleep loop and clock with `run_icd`; uses `IcdTimeouts` |
| `SleepyDeviceProofs` | Theorems about the arithmetic for every period, the inductive invariant and the safety theorems |

The modules are instantiated for TLC directly: their constants are bounds and
small sets, so each `.cfg` gives them values and no `MC` wrapper is needed.

### NimblePeripheral

State variables carry the source's names (`connection`, `conn_gen`, `btp_gen`,
`in_data`, `need_advertise`, `out_nack`; `notify_in` and `notify_out` for the two
signals; `c2` for `C2_VAL_HANDLE`; `adv_data` only as present or not).  `life` is
the owner's view: created, running, failed (Err returned, hooks still live),
dropping.  A packet or a frame is identified by the link it came from or belongs
to; link identities are ghosts, the code sees only `conn_handle`, which the model
hands out round robin in `HandleSpace`.

* A hook is two kinds of steps: its critical section (`OnConnect`, `OnWrite`,
  ...), and one step for each store or signal that it makes after the lock
  (`HookTail`, variable `todo`).  The pumps may run between any two of them.
* A pump turn is a critical section (`Feed`/`NothingIncoming`,
  `Indicate`/`NothingOutgoing`, `TakeAdvertise`), then `park` (it has decided to
  wait, but has not registered) and `wait`.
* `Indicated` covers the re-entrant completion: `out_nack` is set, then the host
  accepts, and may complete at once, or refuses.
* External, from how the code uses them: the host (`host`, `hostEv`, `link`,
  `link_mtu`, `adv`, `inflight`), with a host reset and events delivered one at a
  time; and the BTP engine (`session`, `frames`, `btpWake`).

### NimbleCentral

`step` is where `run()` is: one of the waits of the connection procedure, or
`"pumps"`.  `wait_state` is a check, a park and a wake; `Proceed` takes the result and makes the
next driver call, which may fail.  The host holds one client procedure at a time
(`proc`), answers it with success, with an error or with missing items
(`peerHas`), and may lose the link or never answer.

### BluedroidPeripheral

The handlers signal inside the critical section and Bluedroid delivers events in
order, so a handler is one step.  A controller may go on advertising over a
connection, so a second central can connect: its events are queued in `events`
and the code has to ignore it.  `c1Req` and `cccdReq` are the write requests the
peer's ATT layer still waits on.  Connection ids and addresses (`Handle`) come
round, but not while the host or an unhandled event still uses them.  An MTU is
identified by the link it was exchanged on.

### ThreadNet

A step is what a future does between two awaits.  `lock` is the async mutex: a
`connect` or a `scan` holds it while it polls, the `wait_changed` loops for one
reading.  `role` is the network OpenThread is attached to, which the code cannot
see: it reads only whether there is one.  `Start` and `Stop` are the driver's
`run` and everything its end does (futures dropped, then `ThreadQuiesce`); a
power loss has the same effect on the model's state, the dataset in NVS stays.
`Watchers` are the two loops on `wait_any_conf_change`: `ctl` for `operational`,
`netif` for the cached interface state.  A role that cannot be read is for `netif` a
stack that is down (`UnreadNetifInfo`, thread.rs:668-671): a change is stored and
reported, and the next reading takes it back.

### NetController, WifiNet

`NetController` is the promise the two controllers share: one call in control at a
time; a call turns the stack to its network, which leaves the one joined before;
after that the stack is on that network or on none; Ok only on the network asked
for.  `ThreadNet` maps the call that holds the mutex in its poll to `owner`, the
dataset to `wanted`, the attachment to `joined`; `WifiNet` the client configuration
and the association.

In `WifiNet` the driver's attempt to associate (`trying`) outlives the caller's wait
for it, so it may succeed when the call has gone on to the next method or has
returned.  `tried` counts the methods.  `disconnect` is taken to fail only when
there is nothing to end; an `ESP_FAIL` that leaves an association standing is not
modelled.  The loop of `wait_changed` is the one for `operational`; the cached
interface state beside it runs the same code as in `ThreadNet` and is left out.

### ThreadSrp

`services` is the code's list, `client` the state of each service in OpenThread's
SRP client, `msg` the one update on its way, `published` what others can discover.
`Start` is `run` up to its `select`, also when it fails after `srp_remove_all`.
`Register` is a whole turn of `run_register`: nothing, or both loops of
`update_services`; `ReleaseFails` and `AddFails` stop after any subset of the calls
of one loop (the list's order is not observable otherwise).  A server is `merging`
(OpenThread's) or `strict` (takes an update for the complete description of the
host, thread.rs:990-999).  `WaitSrpServer`, `TakeRequest` and `QueryEnds` are
`run_serve` and the two futures it selects; `look` is whether it has to look at the
server again.

### SleepyDevice

A sleep ends in a reboot (`Wake`) that finds `stored`, `slept` and the system clock;
`ColdBoot` finds `stored` only.  `pc` is the place in `deep_sleep_when_idle`,
`applied` the variable of `run_icd`, `ot` what OpenThread was programmed with,
`keeper` the place in `ClockKeeper::run`, `rtc` where Matter's time comes from.
`now` is counted in parts of a day; `Every` of them are `TIME_SYNC_EVERY_US`.

External: the ICD's state machine (`power`, `ready`, the registrations), messages,
persistence, the parent.  `deep_sleep` looks at the power mode again (`StillIdle`) and
asks for nothing else: neither that there is a client nor that anything was flushed.
The settling before it is a bare timer.  `owed` holds the tasks (`run_icd`, the flush)
that had been woken when it was set (`Woken`); that it is over (`Settled`) tells that
those have been polled, and nothing about what a message changes while it runs.
These are the two facts about time in the model, both relied on by the code
(`SLEEP_SETTLE_MS`, the ICD's five seconds): a future that has been woken is polled
within the 500 ms, and the loop is polled within an active period (`GoIdle`).  Only the
polling periods of the example occur (300, 5000 and 300000 ms), so the 16-bit clamp of
the supervision time-out is left to the theorem `SupervisionCovers`.  The granularity that steps down with
each restored time is rs-matter's and left out.

## 3. The runs

| Run | Configuration | What it shows |
|---|---|---|
| `nimble_safety` | `NimblePeripheral_safety.cfg` | all safety properties and the refinement |
| `nimble_liveness` | `NimblePeripheral_liveness.cfg` | writes served, frames served, advertising resumed |
| `nimble_linkloss` | `NimblePeripheral_linkloss.cfg` | violation, finding 1 |
| `central` | `NimbleCentral.cfg` | no lost progress, pumps only on a complete set-up, link loss ends `run()` |
| `central_cccd` | `NimbleCentral_cccd.cfg` | violation, finding 2 |
| `bluedroid` | `BluedroidPeripheral.cfg` | safety and refinement with two centrals at once |
| `thread` | `ThreadNet.cfg` | mutual exclusion of polls, refinement of `NetController`, no stale credentials, convergence |
| `thread_churn` | `ThreadNet_churn.cfg` | violation, finding 3 |
| `srp` | `ThreadSrp.cfg` | list, client and server agree; the published services converge; requests are served |
| `sleepy` | `SleepyDevice.cfg` | no message slips between the settling timer and the sleep; what the wake-up finds, what the parent must know, that the device sleeps |
| `sleepy_clock` | `SleepyDevice_clock.cfg` | violation, finding 4 |
| `wifi` | `WifiNet.cfg` | refinement of `NetController`, convergence, every call ends |

The properties, each with its comment in the module:

* **NimBLE peripheral.** `TypeOK` (at most one unconfirmed indication),
  `SessionIsolation`, `PumpsNotLost`, `NackHonest`,
  `Discoverable`, `MtuFits`, `ImplementsTransport`; liveness `PumpsServe` (writes
  fed, frames sent), `Readvertises`.  `Coherent`, the core of the inductive
  invariant, is a theorem only.
* **NimBLE central.** `NothingLost` (no progress, packet or completion),
  `InflightHonest`, `PumpsReady`; liveness `LossEndsRun`.
* **Bluedroid.** `AnswersWhatItFed` (a response goes to the write that was fed),
  `MtuIsOwn`, `PumpsNotLost`, `Discoverable`, `KeepsItsPeer` (action property),
  `ImplementsTransport`.
* **Thread.** `PollsItsOwn`, `NoStaleCredentials`, `ImplementsController`; liveness
  `Converges`.  `OkMeansTheTarget`, a part of the refinement, is a theorem only.
* **Wi-Fi.** `ImplementsController`; liveness `Converges`, `ConnectEnds`.
* **SRP.** `BeliefsAgree` (the list is what the client holds),
  `RegisteredMeansPublished`; liveness `Converges`, `ServeTracks`.
* **Sleepy device.** `AsleepSafely`, `KeptByParent`, `ClockRight`; liveness
  `SleepsAgain`.

Stated as theorems only (section 4): `RestIsServed`, `WaitsOnlyForAnswers`,
`LeftAloneUnlessUnread`, `StepsLeft` and `NeverSetBack`, `SettledIsRight`,
`IdleIsOnItsWay`, `SettlesOnce`.

Each property of a passing run has a mutant: a plausible bug in a mapped definition (a signal not
latched, `out_nack` set after `indicate`, the dataset swapped under a running
stack, ...) under which TLC finds it violated.

### Bounds, and why they are enough

* `MaxLinks` 2 (NimBLE) covers everything that one link can leave to the next;
  what a third could add is what the second already has, and the proofs cover
  any number.  `MaxLinks` 3 with `HandleSpace` 2 (Bluedroid) lets two centrals
  overlap and an identity be reused after both.
* `MaxRuns` 2: a run inherits what `reset` keeps from another.  `MaxResets` 1: a
  host reset at any point of a link's life.  The Bluedroid run uses one.
* `MaxFrames` 1: a frame that is ready, one in flight, and the next one.
* `HandleSpace` 1 (NimBLE): every link has the same handle, the worst case of reuse.
* `Generations` 3 keeps `conn_gen` from coming round, see section 5.
* `ThreadNet`: two networks and two callers (one to be disturbed, one to
  disturb), two calls, two changes, one failing call, two runs of the driver;
  `Init` starts with any dataset in NVS.
* `WifiNet`: the same, with all four authentication methods.
* `ThreadSrp`: two services (one that goes while the other stays), two changes, two
  moves of the server, network or device, one failing call or lost message; the
  constants in the `.cfg` say how many of each.
* `SleepyDevice`: two clients (one may go while the other stays), three boots, three
  messages, one failing call, a time of three parts.  The proofs cover any number.

`CHECK_DEADLOCK FALSE` is set because every bounded counter stops the model when
it is used up, and because a device nobody connects to may stay idle.

### Fairness

Weak fairness of the pumps (the executor polls a woken future), of the rest of a
hook that has begun, and of delivering an event the host already has.  In
`NimbleCentral` also of the host's answer to a procedure in progress, which NimBLE
guarantees by its procedure timer.  In `ThreadNet` also of a `connect` call's polls
(its timer fires), of the end of an OpenThread scan, and of the watchers; in `WifiNet`
also that an attempt to associate ends.  In `ThreadSrp` also of the SRP client and a
server that is there, of leases and of queries (they have time-outs), and of `run` being
started again after a netif change - not after an error, which Matter need not survive.
In `SleepyDevice` of `run_icd`, the persistence and the loop, not of the ICD's
periods.  Nothing
is assumed of centrals, of peers, of the network or of the Matter stack: nobody is
obliged to connect, to confirm, to write, to call or to cancel.

### Findings

1. `nimble.rs:578`: an indication on a link that has just gone ends `run()`, so
   the disconnect is not followed by advertising until the owner starts anew.
2. `nimble.rs:1039`: a CCCD write that completes with an error leaves the
   central's `run()` waiting.
3. `thread.rs:276`: a netif reading that fails returns from `connect` with
   Thread still enabled on the network that was not joined.
4. `../examples/temp_sensor_battery_thread.rs:531`: `save_clock` stores the current
   time where `SleptClock.set_utc_us` is to be the time of the last setting; a device
   that stays awake for days (as a SIT does) and then sleeps takes its clock
   for freshly set.

Observations, in the models but without a run of their own:

* `nimble.rs:414`: a C1 write whose copy fails leaves zeros in `in_data`; writes
  are refused although no accepted write is pending, against the comment at line 410.
* `nimble.rs:1054`: an indication that finds `in_data` occupied is dropped though
  it was confirmed to the peer.
* `bluedroid.rs:836`: a C1 write that leaves `in_data` empty is never answered,
  against the comment at line 844.
* `bluedroid.rs:538`: a `Confirm` with an error status leaves `out_nack` set with nothing in
  flight; no further frame is indicated on that connection.  The NimBLE peripheral, by
  `NackTheorem`, has no such state.
* `wireless/thread.rs:307`: the child time-out's margin of 30 s is said to be "two
  missed polls plus some slack".  By theorem `MissedPolls` the time-out tolerates two
  missed polls up to a period of 80 s, thanks to the default of 240 s, and does not
  above 120 s: at the example's 300 s one missed poll may end in an eviction.

## 4. What is proved

`NimblePeripheralProofs` proves, for all values of the constants that satisfy
the assumptions:

* `Invariance`: `Spec => []IInv`, where `IInv` is the conjunction of `TypeOK`,
  `Coherent` and the safety properties;
* from it `TypeCorrect`, `CoherentTheorem`, `IsolationTheorem`,
  `PumpsTheorem`, `NackTheorem`, `DiscoverableTheorem`,
  `MtuTheorem`;
* `TransportTheorem`: `Spec => Transport!Spec`, the refinement of `BtpTransport`.

The argument.  None of the properties is inductive: that no wake-up is lost
depends on which signals the running hook still owes (`todo`), and that a session
is not used on the wrong link depends on how far the code's `connection` lags
behind the host's link.  `Coherent` states exactly that, in seven named parts:

* `Lifecycle`, `HostSane`: what the object and the host can be at the same time;
* `LinkTracked`: `connection` differs from the link by at most the one event
  about to be delivered;
* `DataOwned`: `in_data` belongs to the connected peer;
* `NackTracked`: an indication in flight has `out_nack` set, and a hook that is
  still to clear `out_nack` finds none in flight;
* `RequestKept`: a request to advertise made behind the pump's back comes with a signal;
* `SessionTracked`: a new link has no session yet, and frames come from one.

The proof has one lemma per action and under it one step per conjunct the action can
disturb.  `SessionIsolation` follows because an out-of-date `btp_gen` means the next
pump turn resets before it touches the session, and because `conn_gen` counts the
links: `Generations > MaxLinks` keeps it from repeating.

`NimbleCentralProofs` proves, under `CentralAssumption` (the bounds are natural),
`CentralInvariance`, `CentralTypes`, `WakeTheorem`, `InflightTheorem` and `ReadyTheorem`.
`NothingLost` and `InflightHonest` are nearly inductive; the strengthening says what the
host may be doing at each step of `run` (`ProcOfStep`), that the pumps start with no
write outstanding (`PumpsFresh`), that the subscription is the peer's last answer
(`SubscribedLast`) and what each step has learnt of the peer (`PeerKnown`), whence
`PumpsReady`.

`BluedroidPeripheralProofs` proves, under `BluedroidAssumption` (the bounds are natural,
`HandleSpace` positive), `BluedroidInvariance`, `BluedroidTypes`, `AnswerTheorem`,
`MtuTheorem`, `PumpsTheorem`, `DiscoverableTheorem`, `KeepsTheorem` (an action property) and
`TransportTheorem` (`Spec => Transport!Spec`).  The code sees ids that come round and
hears of links late, so the invariant is about the events not yet handled:
`EventsTrackUp` (each link connects once, and is up unless its end is queued behind),
`ConnTracked` (the connection is up or its end is queued), `HandlesDiffer` (the ids in
use tell links apart, so an event with the connection's id is the connection's),
`ConnectFresh` (nobody has heard of a link still to be announced), `SessionTracked`
(packet, session and indications are the connection's) and `AdvTracked`.  `KeepsItsPeer`
and the refinement's `Detach` rest on `DisconnectOwn`: a disconnect event is taken for the
connection's exactly if it is.

`ThreadSrpProofs` proves, for any finite set of services and any bounds, `SrpInvariance`,
`SrpTypes`, `BeliefsTheorem` and `PublishedTheorem`.  The invariant: `Underway` (the
client counts as sent what the update on its way holds, and the server has what it took
from it) and `Complete` (an update of a live run leaves out nothing that is to stay: while
something is being added nothing else is registered, and once something is registered
nothing is pending).  `Complete` is why a server that reads an update as the complete
description never drops a registered service, also after the device has moved.

`ThreadNetProofs` proves, for any networks, callers and bounds that satisfy
`ThreadAssumption` (the constants are distinct, the bounds natural):

* `ThreadInvariance`: `Spec => []IInv`;
* from it `ThreadTypes`, `PollTheorem`, `CredentialsTheorem`;
* `OkTheorem`: `Spec => OkMeansTheTarget`, an action property;
* `ControllerTheorem`: `Spec => ImplementsController`, the refinement of `NetController`.

That a polling call keeps its dataset depends on nobody else being past the mutex,
and that its Ok is about its own network on the attachment having been made after
the swap.  Hence the invariant: `MutexHeld` (exactly the polling call, or the scan,
holds the mutex, on its own dataset), `Called` (a waiting call knows its network),
`AtRest` (without a driver the stack rests and nobody calls) and `RoleTracked` (the
stack is attached to nothing but its dataset, which was supplied in this run).

For the refinement each action is mapped to one of `NetController`: a poll that turns
the dataset to `Control`, its results to `SayOk` and `SayError`, an attachment to
`Join`, the driver's start and end to `Restart`; the watchers and the scan stutter.

`WifiNetProofs` proves, for any networks, callers and bounds that satisfy
`WifiAssumption`: `WifiInvariance`, `WifiTypes` and `ControllerTheorem`
(`Spec => ImplementsController`).  The driver's attempt to associate outlives the wait
for it, so the invariant says what rules out an Ok for the wrong network:
`StationTurned` (a call that configures the station finds it neither associated nor
trying, one that waits finds its own configuration, and the association is always the
configured network), with `MutexHeld` and `CallsAsk` as above.  Retries and waits map
to `Control`, an attempt that succeeds late to `Join` or a stutter.

`SleepyDeviceProofs` proves, under `SleepyAssumption` (the bounds are natural, `Nothing` is not a
record of parameters):

* arithmetic, for every polling period in milliseconds: `ChildTimeoutCovers`,
  `SupervisionCovers` (with the exact period from which the 16-bit clamp makes the
  time-out too short), `MissedPolls`; and `ReadingsDiffer` of the simulated reading;
* `SleepyInvariance`, and from it `SleepyTypes`, `AsleepTheorem`, `ClockTheorem`,
  `ParentTheorem`.

The invariant: `IdleRuns` (only a running ICD is idle, so its slowest period is
known by then), `LoopInv` (while it settles and the device is still idle there is a
client, and the registrations are in flash and the parameters applied unless a task
in `owed` is about to do it; in the sleep they are), `ParentInv` (OpenThread has what was applied, and that is what is in force
unless a change has been signalled) and `ClockInv` (who claims to know the time has a
reason).  `ParentTheorem` joins `ParentInv` with the arithmetic.

Assumptions on constants of `NimblePeripheral`: `ConstantsAssumption` (they are naturals,
`HandleSpace` positive) and `GenerationsAssumption` (`MaxLinks < Generations`: a
device makes fewer than 2^32 connections between two boots).  TLC evaluates all of
them on every run of the modules.

### What the liveness properties and the findings rest on

Fairness is out of the prover's reach, but most of what a liveness property could get
wrong is a state in which the component rests short of its goal, or a step that sets it
back.  That part is proved, from the same inductive invariants:

* `RestTheorem` (`NimblePeripheral`; of `PumpsServe`, `Readvertises`): with both pumps
  asleep, no hook running and no event due, no accepted write and no request to advertise
  is pending, `connection` is the host's link, or the peripheral advertises (or was
  refused), and a frame that could be sent waits only for the peer's answer to an indication.
* `SettledTheorem` (`ThreadSrp`; of `Converges`, `ServeTracks`): with nothing left for
  `run_register`, the client and the leases to do, `published = wanted`; a `run_serve` with
  nothing to look at serves exactly when there is a server.  Added to the invariant: `Seen`,
  what `run_register` and `run_serve` last saw is current or a change has been signalled.
* `OnItsWayTheorem`, `SettlesTheorem` (`SleepyDevice`; of `SleepsAgain`): while a device
  with a client is idle the loop is never in the wait for an active period, and once it
  settles it sleeps next, unless the device becomes active or the application ends.
* `SetBackTheorem` (`WifiNet`; of `ConnectEnds`): whatever the driver and the other futures
  do, a connect call stays or gets nearer to its end by the measure `StepsLeft`, of 14 at most.
* `WaitTheorem` (`NimbleCentral`; of finding 2): every wait of the setup is owed an answer
  by a hook or by the host, but for a CCCD write the peer has refused.
* `AloneTheorem` (`ThreadNet`; of finding 3): unless a reading of the stack has failed,
  `LeftAlone` holds, for any number of callers, networks and runs.

The last two say that the cause shown by the counterexample is the only one.  What remains
with TLC is that the steps are taken: the fairness and the ENABLED that WF hides.

Only model-checked, and why: liveness and everything that needs fairness or
ENABLED is out of TLAPS' reach; so is induction over data, and anything behind a
RECURSIVE operator, of which the modules have none.  Every invariant and every action
property that a passing run checks, and every refinement, is also a theorem.

## 5. What is abstracted or left out

* Of NimBLE: `run` is called once per object (the code allows a second call
  without `new`); `new` succeeds; an advertising payload that does not fit; a
  `NotifyComplete` with status 0, which the code ignores and NimBLE sends only as
  "indication transmitted"; `out_data`, scratch space; a hook's load of `CONTEXT` and its
  critical section are one step; one connection at a time
  (`MAX_CONNECTIONS` = 1).
* `conn_gen` as a `usize` wraps; the NimBLE model wraps it at `Generations`.
* Of Bluedroid: `ServiceDeleted` and
  `ServiceUnregistered`; a failure while the service is set up is as if the
  event never came.
* Of Thread: scan results; `enable_thread(false)` does not fail; the credentials
  of another kind (`InvalidData`), which change no state.
* Of Wi-Fi: scan results; credentials that cannot be converted; a `disconnect` that
  fails and leaves the association.
* Of SRP: the texts of names and answers; `MAX_MATTER_SERVICES`, which `mdns_services`
  of a node with at most `MAX_FABRICS` fabrics cannot exceed; an instant at which
  OpenThread sends between two calls of one loop (it collects changes first).
* Of the sensor: the data model's tables and getters, the debouncing of the button, a
  system clock before the Matter epoch, an SII other than the example's.
* Not modelled: persistence, diagnostics, UDP, Ethernet, glue, the other examples; see
  `PROJECT.json` for each reason.

## 6. Plan

In order of what a failure would cost the device.

1. *Done.* `BtpTransport`, `NimblePeripheral`, its proofs: the transport of commissioning.
2. *Done.* `NimbleCentral`, `BluedroidPeripheral`, their proofs: the same promises elsewhere.
3. *Done.* `ThreadNet`, its proofs: what happens after commissioning.
4. *Done.* `ThreadSrp`, its proofs: whether others can find the device.
5. *Done.* `IcdTimeouts`, `SleepyDevice`, its proofs: whether it survives its own sleep.
6. *Done.* `NetController`, `WifiNet`, its proofs: the abstract controller that Thread and Wi-Fi
   both implement.
7. Left: what a scan reports (its buffer of five and a callback that outlives its call),
   the task snapshot of `sw_diag.rs`, and the getters, which hold no state.

Nothing is left to prove of the safety properties that are stated.  Of the liveness
properties the safety core is proved (section 4); that the steps are taken stays with TLC.
