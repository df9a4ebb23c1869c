------------------------------ MODULE ThreadNet ------------------------------
(***************************************************************************)
(* The Thread driver (src/wireless/thread.rs, EspMatterThread), its network *)
(* controller (src/thread.rs, EspMatterThreadCtl) and the cached interface  *)
(* state (src/netif.rs, EspMatterNetif).                                    *)
(*                                                                         *)
(* connect and scan hold the async mutex around the OpenThread stack while  *)
(* they poll; the two wait_changed loops take it for one reading at a time. *)
(* A step is what a future does between two awaits.  External: OpenThread   *)
(* and the netif (dataset, ip6, enabled, role, addr, scanning), which keep  *)
(* moving meanwhile, and the Matter stack that calls and cancels.           *)
(***************************************************************************)
EXTENDS Naturals

CONSTANTS
    Networks,    \* the Thread networks (operational datasets)
    NoNetwork,   \* no dataset, no attachment, no address
    LinkLocal,   \* an interface with nothing but its link-local address
    Callers,     \* futures of the Matter stack that may call connect
    NoOne,       \* the mutex is free
    Scanner,     \* the future that may call scan
    MaxRuns,     \* bound: runs of the driver, reboots included
    MaxCalls,    \* bound: calls of connect and scan
    MaxChanges,  \* bound: attachments, detachments and address changes
    MaxFaults    \* bound: readings of the stack that fail

ASSUME ThreadAssumption ==
    /\ NoNetwork \notin Networks /\ LinkLocal \notin Networks \cup {NoNetwork}
    /\ NoOne \notin Callers /\ Scanner \notin Callers \cup {NoOne}
    /\ MaxRuns \in Nat /\ MaxCalls \in Nat
    /\ MaxChanges \in Nat /\ MaxFaults \in Nat

VARIABLES
    driver,      \* "off", or "up" while EspMatterThread::run awaits its task
    dataset,     \* the Active Operational Dataset, kept in NVS
    ip6,         \* enable_ipv6
    enabled,     \* enable_thread
    role,        \* the network OpenThread is attached to
    addr,        \* the address info_ipv6_addr would single out
    scanning,    \* an OpenThread scan is in progress
    lock,        \* holder of EspMatterThreadCtl.thread
    operational, \* EspMatterThreadCtl.operational
    netifState,  \* EspMatterNetif.netif_state: operational, addr
    pc,          \* each connect call: "idle", "enter" or "poll"
    target,      \* the dataset each connect call was given
    late,        \* calls for which CONNECT_WAIT has elapsed
    outcome,     \* what each caller's last connect returned
    scanPc,      \* the scan call: "idle" or "poll"
    wpc,         \* each wait_changed loop: "check", "subscribe" or "wait"
    wevent,      \* an IpEvent has reached its subscription
    supplied,    \* ghost: datasets the Matter stack supplied in this run
    calls, changes, faults, runs   \* counters for the bounds

stackVars == <<dataset, ip6, enabled, role, addr, scanning>>
callVars  == <<pc, target, late, outcome, scanPc, supplied, calls>>
watchVars == <<wpc, wevent, netifState>>
vars == <<driver, stackVars, lock, operational, callVars, watchVars, changes,
          faults, runs>>

Watchers == {"ctl", "netif"}   \* the two NetChangeNotif loops
NoState  == [operational |-> FALSE, addr |-> NoNetwork]

\* fetch_is_thread_connected, and fetch_is_operational on top of it.
Attached    == role # NoNetwork
Operational == Attached /\ ip6 /\ addr # NoNetwork

\* What load_from_info makes of the interface.
NetifInfo == [operational |-> Attached /\ ip6, addr |-> addr]

\* access passes on a role that cannot be read as a detached one.
UnreadNetifInfo == [operational |-> FALSE, addr |-> addr]

\* A reading of the stack succeeds with `value`, or one of its calls fails.
ReadFails == faults < MaxFaults /\ faults' = faults + 1

Init ==
    /\ driver = "off" /\ dataset \in Networks \cup {NoNetwork}
    /\ ip6 = FALSE /\ enabled = FALSE /\ role = NoNetwork
    /\ addr = NoNetwork /\ scanning = FALSE
    /\ lock = NoOne /\ operational = FALSE /\ netifState = NoState
    /\ pc = [c \in Callers |-> "idle"] /\ late = {}
    /\ target = [c \in Callers |-> NoNetwork]
    /\ outcome = [c \in Callers |-> "none"] /\ scanPc = "idle"
    /\ wpc = [w \in Watchers |-> "check"]
    /\ wevent = [w \in Watchers |-> FALSE]
    /\ supplied = {} /\ calls = 0 /\ changes = 0 /\ faults = 0 /\ runs = 0

-----------------------------------------------------------------------------
(* The driver: EspMatterThread::run.                                       *)

\* Mutant: the dataset a previous run left in NVS is kept.
PurgedDatasetKept == dataset

\* set_tod(&[]) before IPv6 comes up.
PurgedDataset == NoNetwork

\* The stack is built and started, or one of the calls fails and it is
\* dropped, before or after the dataset was purged.
Start ==
    /\ driver = "off" /\ runs < MaxRuns /\ runs' = runs + 1
    /\ \/ /\ driver' = "up" /\ ip6' = TRUE /\ dataset' = PurgedDataset
       \/ dataset' \in {dataset, PurgedDataset} /\ UNCHANGED <<driver, ip6>>
    /\ UNCHANGED <<enabled, role, addr, scanning, lock, operational, callVars,
                   watchVars, changes, faults>>

\* The task ends or is dropped at any await, with it every future, the
\* controller and the cached state, and ThreadQuiesce runs; a power loss
\* leaves the same behind.
Stop ==
    /\ driver = "up" /\ driver' = "off"
    /\ enabled' = FALSE /\ ip6' = FALSE /\ role' = NoNetwork
    /\ addr' = NoNetwork /\ scanning' = FALSE /\ lock' = NoOne
    /\ pc' = [c \in Callers |-> "idle"] /\ late' = {} /\ scanPc' = "idle"
    /\ target' = [c \in Callers |-> NoNetwork]
    /\ outcome' = [c \in Callers |-> "none"] /\ supplied' = {}
    /\ operational' = FALSE /\ netifState' = NoState
    /\ wpc' = [w \in Watchers |-> "check"]
    /\ wevent' = [w \in Watchers |-> FALSE]
    /\ UNCHANGED <<dataset, calls, changes, faults, runs>>

-----------------------------------------------------------------------------
(* OpenThread and the netif (external).                                    *)

\* An IpEvent reaches the subscriptions that exist.
IpEvent == wevent' = [w \in Watchers |-> wevent[w] \/ wpc[w] = "wait"]

Change == /\ driver = "up" /\ changes < MaxChanges /\ changes' = changes + 1
          /\ UNCHANGED <<driver, dataset, ip6, enabled, scanning, lock,
                         operational, callVars, wpc, netifState, faults, runs>>

Attach == /\ enabled /\ ~Attached /\ dataset # NoNetwork
          /\ role' = dataset
          /\ Change /\ UNCHANGED <<addr, wevent>>

Detach == /\ Attached /\ role' = NoNetwork
          /\ Change /\ UNCHANGED <<addr, wevent>>

\* Addresses come and go with an IpEvent, and may outlive the attachment.
AddrChange == /\ addr' \in {NoNetwork, LinkLocal, role} \ {addr}
              /\ IpEvent
              /\ Change /\ UNCHANGED role

ScanDone == /\ scanning /\ scanning' = FALSE
            /\ UNCHANGED <<driver, dataset, ip6, enabled, role, addr, lock,
                           operational, callVars, watchVars, changes, faults,
                           runs>>

-----------------------------------------------------------------------------
(* EspMatterThreadCtl::connect, called by the Matter stack.                *)

Call(c) ==
    /\ driver = "up" /\ pc[c] = "idle" /\ calls < MaxCalls
    /\ pc' = [pc EXCEPT ![c] = "enter"]
    /\ target' \in {[target EXCEPT ![c] = n] : n \in Networks}
    /\ outcome' = [outcome EXCEPT ![c] = "none"]
    /\ calls' = calls + 1
    /\ UNCHANGED <<driver, stackVars, lock, operational, late, scanPc, supplied,
                   watchVars, changes, faults, runs>>

\* The caller's result, and its guard dropped.
Return(c, result) ==
    /\ pc' = [pc EXCEPT ![c] = "idle"]
    /\ outcome' = [outcome EXCEPT ![c] = result]
    /\ target' = [target EXCEPT ![c] = NoNetwork] /\ late' = late \ {c}
    /\ lock' = NoOne

\* Mutant: the stack is locked for the set-up only, not while it is polled.
PollHolderNone(c) == NoOne

\* The guard lives as long as the call.
PollHolder(c) == c

\* Mutant: the dataset is swapped under a running stack.
RoleOnceStoppedKept == role

\* enable_thread(false) before the dataset is set.
RoleOnceStopped == NoNetwork

\* Lock, stop Thread, set the dataset, start Thread: no await in between.
Begin(c) ==
    /\ pc[c] = "enter" /\ lock = NoOne
    /\ role' = RoleOnceStopped
    /\ \/ /\ dataset' = target[c] /\ supplied' = supplied \cup {target[c]}
          /\ enabled' = TRUE /\ lock' = PollHolder(c)
          /\ pc' = [pc EXCEPT ![c] = "poll"]
          /\ UNCHANGED <<target, late, outcome>>
       \/ \* enable_thread(true) fails
          /\ dataset' = target[c] /\ supplied' = supplied \cup {target[c]}
          /\ enabled' = FALSE /\ Return(c, "error")
       \/ \* set_tod fails
          /\ enabled' = FALSE /\ Return(c, "error")
          /\ UNCHANGED <<dataset, supplied>>
    /\ UNCHANGED <<driver, ip6, addr, scanning, operational, scanPc, calls,
                   watchVars, changes, faults, runs>>

PollFrame == UNCHANGED <<driver, dataset, ip6, addr, scanning, scanPc,
                         supplied, calls, watchVars, changes, runs>>

\* CONNECT_WAIT is over.
Elapse(c) ==
    /\ pc[c] = "poll" /\ c \notin late /\ late' = late \cup {c}
    /\ UNCHANGED <<enabled, role, lock, operational, pc, target, outcome, faults>>
    /\ PollFrame

PollSucceeds(c) ==
    /\ pc[c] = "poll" /\ Operational
    /\ operational' = TRUE /\ Return(c, "ok")
    /\ UNCHANGED <<enabled, role, faults>> /\ PollFrame

\* Also when it is only the reading of the role that failed.
PollGivesUp(c) ==
    /\ pc[c] = "poll" /\ c \in late
    /\ \/ ~Operational /\ UNCHANGED faults
       \/ Operational /\ ReadFails
    /\ enabled' = FALSE /\ role' = NoNetwork /\ Return(c, "auth")
    /\ UNCHANGED operational /\ PollFrame

\* The netif cannot be read: an early return.
PollFails(c) ==
    /\ pc[c] = "poll" /\ ReadFails /\ Return(c, "error")
    /\ UNCHANGED <<enabled, role, operational>> /\ PollFrame

Poll(c) == Elapse(c) \/ PollSucceeds(c) \/ PollGivesUp(c) \/ PollFails(c)

\* The caller drops the future at an await.
Cancel(c) ==
    /\ pc[c] # "idle" /\ pc' = [pc EXCEPT ![c] = "idle"]
    /\ target' = [target EXCEPT ![c] = NoNetwork] /\ late' = late \ {c}
    /\ lock' = IF lock = c THEN NoOne ELSE lock
    /\ UNCHANGED <<enabled, role, operational, outcome, faults>>
    /\ PollFrame

-----------------------------------------------------------------------------
(* EspMatterThreadCtl::scan, its results left out.                         *)

ScanFrame == UNCHANGED <<driver, dataset, ip6, enabled, role, addr, operational,
                         pc, target, late, outcome, supplied, watchVars,
                         changes, faults, runs>>

\* A scan that cannot be started returns at once.
ScanBegin ==
    /\ driver = "up" /\ scanPc = "idle" /\ lock = NoOne /\ ~scanning
    /\ calls < MaxCalls /\ calls' = calls + 1
    /\ scanPc' = "poll" /\ scanning' = TRUE /\ lock' = Scanner
    /\ ScanFrame

\* It is over, its poll fails, or the caller drops it.
ScanReturn ==
    /\ scanPc = "poll" /\ scanPc' = "idle" /\ lock' = NoOne
    /\ UNCHANGED <<scanning, calls>> /\ ScanFrame

-----------------------------------------------------------------------------
(* The wait_changed loops; their caller calls again when one returns.      *)

WatchFrame == UNCHANGED <<driver, stackVars, lock, callVars, changes, runs>>

\* A loop that has seen a change starts over, one that has not subscribes.
Checked(w, changed) ==
    /\ wpc' = [wpc EXCEPT ![w] = IF changed THEN "check" ELSE "subscribe"]
    /\ UNCHANGED wevent /\ WatchFrame

\* fetch_operational: a failed reading counts as not operational.
CheckCtl ==
    /\ driver = "up" /\ wpc["ctl"] = "check" /\ lock = NoOne
    /\ \/ operational' = Operational /\ UNCHANGED faults
       \/ operational' = FALSE /\ ReadFails
    /\ Checked("ctl", operational' # operational)
    /\ UNCHANGED netifState

\* EspMatterNetif: a role that cannot be read makes the interface look down, an
\* interface that cannot be read leaves what was known of it.
CheckNetif ==
    /\ driver = "up" /\ wpc["netif"] = "check" /\ lock = NoOne
    /\ \/ netifState' = NetifInfo /\ UNCHANGED faults
       \/ netifState' = UnreadNetifInfo /\ ReadFails
       \/ UNCHANGED netifState /\ ReadFails
    /\ Checked("netif", netifState' # netifState)
    /\ UNCHANGED operational

\* Mutant: wait for an event only.
TimerFiresNever == FALSE

\* wait_any_conf_change also ends after TIMEOUT_PERIOD_SECS.
TimerFires == TRUE

Subscribe(w) ==
    /\ driver = "up" /\ wpc[w] = "subscribe"
    /\ wpc' = [wpc EXCEPT ![w] = "wait"]
    /\ UNCHANGED <<wevent, operational, netifState, faults>> /\ WatchFrame

\* The subscription fails, which is ignored: the loop checks again at once.
SubscribeFails(w) ==
    /\ driver = "up" /\ wpc[w] = "subscribe" /\ ReadFails
    /\ wpc' = [wpc EXCEPT ![w] = "check"]
    /\ UNCHANGED <<wevent, operational, netifState>> /\ WatchFrame

WaitEnds(w) ==
    /\ driver = "up" /\ wpc[w] = "wait" /\ (wevent[w] \/ TimerFires)
    /\ wpc' = [wpc EXCEPT ![w] = "check"]
    /\ wevent' = [wevent EXCEPT ![w] = FALSE]
    /\ UNCHANGED <<operational, netifState, faults>> /\ WatchFrame

Watch(w) ==
    \/ w = "ctl" /\ CheckCtl
    \/ w = "netif" /\ CheckNetif
    \/ Subscribe(w) \/ SubscribeFails(w) \/ WaitEnds(w)

-----------------------------------------------------------------------------
Next ==
    \/ Start \/ Stop \/ Attach \/ Detach \/ AddrChange \/ ScanDone
    \/ \E c \in Callers : Call(c) \/ Begin(c) \/ Poll(c) \/ Cancel(c)
    \/ ScanBegin \/ ScanReturn
    \/ \E w \in Watchers : Watch(w)

Spec == Init /\ [][Next]_vars

\* The executor polls every future, its timers fire, and OpenThread ends a
\* scan.  Nobody is obliged to call or to cancel, nor the network to move.
Fairness ==
    /\ \A c \in Callers : WF_vars(Begin(c)) /\ WF_vars(Poll(c))
    /\ WF_vars(ScanDone) /\ WF_vars(~scanning /\ ScanReturn)
    /\ WF_vars(CheckCtl) /\ WF_vars(CheckNetif)
    /\ \A w \in Watchers : WF_vars(Subscribe(w) \/ SubscribeFails(w))
                           /\ WF_vars(WaitEnds(w))

FairSpec == Spec /\ Fairness

-----------------------------------------------------------------------------
(* Properties.                                                             *)

MaybeNetworks == Networks \cup {NoNetwork}

TypeStack ==
    /\ driver \in {"off", "up"} /\ dataset \in MaybeNetworks
    /\ {ip6, enabled, scanning} \subseteq BOOLEAN
    /\ role \in IF enabled THEN MaybeNetworks ELSE {NoNetwork}
    /\ addr \in MaybeNetworks \cup {LinkLocal}

TypeCalls ==
    /\ lock \in Callers \cup {NoOne, Scanner}
    /\ pc \in [Callers -> {"idle", "enter", "poll"}]
    /\ target \in [Callers -> MaybeNetworks] /\ late \subseteq Callers
    /\ outcome \in [Callers -> {"none", "ok", "auth", "error"}]
    /\ scanPc \in {"idle", "poll"} /\ supplied \subseteq Networks

TypeLoops ==
    /\ operational \in BOOLEAN
    /\ netifState \in [operational : BOOLEAN, addr : MaybeNetworks \cup {LinkLocal}]
    /\ wpc \in [Watchers -> {"check", "subscribe", "wait"}]
    /\ wevent \in [Watchers -> BOOLEAN]

TypeBounds ==
    /\ calls \in 0..MaxCalls /\ changes \in 0..MaxChanges
    /\ faults \in 0..MaxFaults /\ runs \in 0..MaxRuns

\* Every variable keeps its type; in particular a stopped stack is attached
\* to nothing.
TypeOK == TypeStack /\ TypeCalls /\ TypeLoops /\ TypeBounds

\* While a connect call waits for its network nobody swaps the dataset, stops
\* the stack or scans: the guard is held across the sleeps (thread.rs:261,
\* 275-287), whoever else calls connect or scan meanwhile.
PollsItsOwn ==
    \A c \in Callers : pc[c] = "poll"
        => enabled /\ dataset = target[c] /\ lock = c /\ scanPc = "idle"

\* connect says Ok only for the network it was asked for, though the
\* readings it polls do not name the network: the dataset was swapped with
\* Thread stopped (thread.rs:263-271).
OkMeansTheTarget ==
    [][\A c \in Callers : outcome[c] # "ok" /\ outcome'[c] = "ok"
           => role = target[c] /\ dataset = target[c]]_vars

Controller == INSTANCE NetController WITH
    owner  <- IF lock \in Callers THEN lock ELSE NoOne,
    asked  <- target,
    wanted <- dataset,
    joined <- role,
    answer <- [c \in Callers |-> IF outcome[c] \in {"none", "ok"} THEN outcome[c]
                                 ELSE "error"]

\* The controller implements NetController, the promise it shares with
\* Wi-Fi's: the stack is never on a network that the last call in control
\* was not asked for, and Ok is said only on that one (thread.rs:261-310).
ImplementsController == Controller!Spec

\* With IPv6 up, the radio never holds a dataset the Matter stack has not
\* supplied since the driver started (wireless/thread.rs:169-178): not the
\* one a previous run or boot left in NVS.
NoStaleCredentials ==
    ip6 => dataset \in supplied \cup {NoNetwork} /\ role \in supplied \cup {NoNetwork}

\* Once the stack settles, `connected` and the cached interface state come to
\* agree with it and stay so (thread.rs:318-347, netif.rs:74-90, 372-391):
\* changes that fall between a check and its subscription, during a connect
\* or a scan, and readings of the role or the interface that fail, included.
Converges ==
    <>[](driver = "up" => operational = Operational /\ netifState = NetifInfo)

\* "Don't leave the stack churning on a network we failed to join"
\* (thread.rs:305): when every connect has returned and failed, Thread is
\* disabled.
LeftAlone ==
    (\A c \in Callers : pc[c] = "idle" /\ outcome[c] \in {"auth", "error"})
        => ~enabled

\* Only a failed reading of the stack makes connect return with Thread still
\* enabled (thread.rs:275-310): a call that fails in any other way, or that is
\* cancelled and tried again, leaves the stack alone whatever the other
\* callers did before.
LeftAloneUnlessUnread == faults = 0 => LeftAlone
=============================================================================
