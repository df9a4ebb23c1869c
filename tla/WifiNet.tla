------------------------------- MODULE WifiNet -------------------------------
(***************************************************************************)
(* The Wi-Fi driver (src/wireless/wifi.rs, EspMatterWifi) and its network   *)
(* controller (src/wifi.rs, EspMatterWifiCtl).  The cached interface state  *)
(* beside it is the one of ThreadNet.                                       *)
(*                                                                         *)
(* A connect call holds the async mutex around AsyncWifi while it tries four*)
(* authentication methods and then waits for addresses.  A step is what a   *)
(* future does up to an await that others can tell from the next.           *)
(* External: the ESP Wi-Fi driver, whose attempts to associate outlive the  *)
(* wait for them, and the netif, whose addresses outlive an association.    *)
(***************************************************************************)
EXTENDS Naturals, Sequences

CONSTANTS
    Networks,    \* the SSIDs
    NoNetwork,   \* no configuration, no association
    Callers,     \* futures of the Matter stack that may call connect
    NoOne,       \* the mutex is free
    Scanner,     \* the future that may call scan
    MaxRuns,     \* bound: runs of the driver
    MaxCalls,    \* bound: calls of connect and scan
    MaxChanges,  \* bound: lost associations and address changes
    MaxFaults    \* bound: calls of the driver that fail

ASSUME WifiAssumption ==
    /\ NoNetwork \notin Networks
    /\ NoOne \notin Callers /\ Scanner \notin Callers \cup {NoOne}
    /\ MaxRuns \in Nat /\ MaxCalls \in Nat
    /\ MaxChanges \in Nat /\ MaxFaults \in Nat

VARIABLES
    driver,      \* "off", or "up" while EspMatterWifi::run awaits its task
    started,     \* wifi.is_started
    conf,        \* the SSID of the client configuration
    trying,      \* the driver has been told to connect and has not finished
    assoc,       \* the network the station is associated with
    addrs,       \* kinds of addresses the netif has
    lock,        \* holder of EspMatterWifiCtl.wifi
    operational, \* EspMatterWifiCtl.operational
    pc,          \* each connect call: see Stages
    target,      \* the network each call was given
    tried,       \* how many authentication methods it has tried
    outcome,     \* what each caller's last connect returned
    scanPc,      \* the scan call: "idle" or "scan"
    wpc,         \* the wait_changed loop: "check", "subscribe" or "wait"
    wevent,      \* an IpEvent has reached its subscription
    calls, changes, faults, runs   \* counters for the bounds

wifiVars  == <<started, conf, trying, assoc>>
callVars  == <<pc, target, tried, outcome, lock>>
scanVars  == <<scanPc, calls>>
watchVars == <<wpc, wevent>>
vars == <<driver, wifiVars, addrs, operational, callVars, scanVars, watchVars,
          changes, faults, runs>>

Stages   == {"idle", "enter", "attempt", "configure", "assoc", "ip"}
Holding  == {"attempt", "configure", "assoc", "ip"}

AuthMethods == <<"WPA2Personal", "WPA", "WPA2WPA3Personal", "WEP">>

\* is_connected, and fetch_is_operational on top of it: a routable IPv4 and
\* an IPv6 address.
Connected   == assoc # NoNetwork
Operational == Connected /\ addrs = {"v4", "v6"}

CallFails == faults < MaxFaults /\ faults' = faults + 1

Init ==
    /\ driver = "off" /\ started = FALSE /\ trying = FALSE /\ assoc = NoNetwork
    /\ conf \in Networks \cup {NoNetwork}   \* kept in NVS
    /\ addrs = {} /\ operational = FALSE
    /\ lock = NoOne /\ scanPc = "idle"
    /\ pc = [c \in Callers |-> "idle"] /\ tried = [c \in Callers |-> 0]
    /\ target = [c \in Callers |-> NoNetwork]
    /\ outcome = [c \in Callers |-> "none"]
    /\ wpc = "check" /\ wevent = FALSE
    /\ calls = 0 /\ changes = 0 /\ faults = 0 /\ runs = 0

-----------------------------------------------------------------------------
(* The driver: EspMatterWifi::run, on its own or beside the BLE peripheral. *)

Start == /\ driver = "off" /\ runs < MaxRuns /\ runs' = runs + 1
         /\ driver' = "up"
         /\ UNCHANGED <<wifiVars, addrs, operational, callVars, scanVars,
                        watchVars, changes, faults>>

\* The task ends or is dropped at any await, and with it every future, the
\* controller and the driver.
Stop ==
    /\ driver = "up" /\ driver' = "off"
    /\ started' = FALSE /\ trying' = FALSE /\ assoc' = NoNetwork /\ addrs' = {}
    /\ operational' = FALSE
    /\ lock' = NoOne /\ scanPc' = "idle"
    /\ pc' = [c \in Callers |-> "idle"] /\ tried' = [c \in Callers |-> 0]
    /\ target' = [c \in Callers |-> NoNetwork]
    /\ outcome' = [c \in Callers |-> "none"]
    /\ wpc' = "check" /\ wevent' = FALSE
    /\ UNCHANGED <<conf, calls, changes, faults, runs>>

-----------------------------------------------------------------------------
(* The ESP Wi-Fi driver and the netif (external).                          *)

WifiFrame == UNCHANGED <<driver, started, conf, operational, callVars, scanVars,
                         wpc, faults, runs>>

\* An attempt ends well or not, however long the caller has waited for it.
AttemptEnds ==
    /\ trying /\ trying' = FALSE /\ assoc' \in {assoc, conf}
    /\ UNCHANGED <<addrs, wevent, changes>> /\ WifiFrame

\* An IpEvent reaches the subscription if there is one.
IpEvent == wevent' = (wevent \/ wpc = "wait")

LosesAssoc ==
    /\ Connected /\ assoc' = NoNetwork
    /\ changes < MaxChanges /\ changes' = changes + 1
    /\ UNCHANGED <<trying, addrs, wevent>> /\ WifiFrame

\* Addresses come with an association and go when they like.
AddrChange ==
    /\ driver = "up" /\ changes < MaxChanges /\ changes' = changes + 1
    /\ addrs' \in SUBSET {"v4", "v6"} /\ addrs' # addrs
    /\ Connected \/ addrs' \subseteq addrs
    /\ IpEvent /\ UNCHANGED <<trying, assoc>> /\ WifiFrame

-----------------------------------------------------------------------------
(* EspMatterWifiCtl::connect.                                              *)

CallFrame == UNCHANGED <<driver, addrs, scanPc, watchVars, changes, runs>>

Goto(c, stage) == pc' = [pc EXCEPT ![c] = stage]

Call(c) ==
    /\ driver = "up" /\ pc[c] = "idle" /\ calls < MaxCalls
    /\ calls' = calls + 1 /\ Goto(c, "enter")
    /\ \E n \in Networks : target' = [target EXCEPT ![c] = n]
    /\ outcome' = [outcome EXCEPT ![c] = "none"]
    /\ UNCHANGED <<wifiVars, operational, tried, lock, faults>> /\ CallFrame

\* Mutant: the guard is dropped when the call starts to wait.
HolderNone(c) == NoOne

\* The guard lives as long as the call.
Holder(c) == c

Begin(c) ==
    /\ pc[c] = "enter" /\ lock = NoOne /\ lock' = Holder(c)
    /\ Goto(c, "attempt")
    /\ UNCHANGED <<wifiVars, operational, target, tried, outcome, calls, faults>>
    /\ CallFrame

\* The caller's result; the guard is dropped.
Return(c, result) ==
    /\ Goto(c, "idle") /\ lock' = NoOne
    /\ outcome' = [outcome EXCEPT ![c] = result]
    /\ target' = [target EXCEPT ![c] = NoNetwork]
    /\ tried' = [tried EXCEPT ![c] = 0]

\* Mutant: the station is left as it is.
DisassociatesNot == UNCHANGED <<assoc, trying>>

\* disconnect ends the association and any attempt.  It fails when there is
\* nothing to end, which is ignored.
Disassociates == assoc' = NoNetwork /\ trying' = FALSE

Disconnect(c) ==
    /\ pc[c] = "attempt" /\ Disassociates
    /\ Goto(c, "configure")
    /\ UNCHANGED <<started, conf, operational, target, tried, outcome, lock,
                   calls, faults>>
    /\ CallFrame

\* Mutant: the same method again.
NextMethodSame(c) == tried[c]

NextMethod(c) == tried[c] + 1

\* The next method is due, or the last has failed.
MethodFails(c) ==
    IF NextMethod(c) < Len(AuthMethods)
    THEN /\ Goto(c, "attempt") /\ tried' = [tried EXCEPT ![c] = NextMethod(c)]
         /\ UNCHANGED <<target, outcome, lock>>
    ELSE Return(c, "connection")

\* set_configuration, is_started and start, then the driver's connect.
Configure(c) ==
    /\ pc[c] = "configure"
    /\ \/ /\ CallFails /\ conf' \in {conf, target[c]}
          /\ Return(c, "error") /\ UNCHANGED <<started, trying>>
       \/ /\ conf' = target[c] /\ started' = TRUE
          /\ \/ /\ trying' = TRUE /\ Goto(c, "assoc")
                /\ UNCHANGED <<target, tried, outcome, lock, faults>>
             \/ CallFails /\ UNCHANGED trying /\ MethodFails(c)
    /\ UNCHANGED <<assoc, operational, calls>> /\ CallFrame

\* Associated: a link-local address is created.
Associated(c) ==
    /\ pc[c] = "assoc" /\ Connected
    /\ \/ /\ Goto(c, "ip") /\ UNCHANGED <<target, tried, outcome, lock, faults>>
       \/ CallFails /\ Return(c, "error")
    /\ UNCHANGED <<wifiVars, operational, calls>> /\ CallFrame

\* The wait is over after 15 s, or the moment the station has associated.
AssocTimeout(c) ==
    /\ pc[c] = "assoc" /\ MethodFails(c)
    /\ UNCHANGED <<wifiVars, operational, calls, faults>> /\ CallFrame

Addressed(c) ==
    /\ pc[c] = "ip" /\ Operational /\ operational' = TRUE /\ Return(c, "ok")
    /\ UNCHANGED <<wifiVars, calls, faults>> /\ CallFrame

\* The wait is over after 20 s, or by a reading that fails.
AddressTimeout(c) ==
    /\ pc[c] = "ip" /\ Disassociates
    /\ Return(c, "bind")
    /\ UNCHANGED <<started, conf, operational, calls, faults>> /\ CallFrame

Connect(c) == \/ Disconnect(c) \/ Configure(c)
              \/ Associated(c) \/ AssocTimeout(c)
              \/ Addressed(c) \/ AddressTimeout(c)

\* The caller drops the future at an await.
Cancel(c) ==
    /\ pc[c] # "idle" /\ Goto(c, "idle")
    /\ lock' = IF lock = c THEN NoOne ELSE lock
    /\ target' = [target EXCEPT ![c] = NoNetwork]
    /\ tried' = [tried EXCEPT ![c] = 0]
    /\ UNCHANGED <<wifiVars, operational, outcome, calls, faults>> /\ CallFrame

-----------------------------------------------------------------------------
(* EspMatterWifiCtl::scan, its results left out.                           *)

ScanFrame == UNCHANGED <<driver, conf, trying, assoc, addrs, operational, pc,
                         target, tried, outcome, watchVars, changes, faults, runs>>

\* Starts the station if it has to.
ScanBegin ==
    /\ driver = "up" /\ scanPc = "idle" /\ lock = NoOne
    /\ calls < MaxCalls /\ calls' = calls + 1
    /\ scanPc' = "scan" /\ lock' = Scanner /\ started' = TRUE
    /\ ScanFrame

\* It is over, it fails, or the caller drops it.
ScanReturn ==
    /\ scanPc = "scan" /\ scanPc' = "idle" /\ lock' = NoOne
    /\ UNCHANGED <<started, calls>> /\ ScanFrame

-----------------------------------------------------------------------------
(* EspMatterWifiCtl::wait_changed; its caller calls again when it returns.  *)

WatchFrame == UNCHANGED <<driver, wifiVars, addrs, callVars, scanVars, changes,
                          runs>>

\* A failed reading counts as not operational.  The loop that has seen a
\* change starts over, one that has not subscribes.
Check ==
    /\ driver = "up" /\ wpc = "check" /\ lock = NoOne
    /\ \/ operational' = Operational /\ UNCHANGED faults
       \/ operational' = FALSE /\ CallFails
    /\ wpc' = IF operational' # operational THEN "check" ELSE "subscribe"
    /\ UNCHANGED wevent /\ WatchFrame

\* Mutant: wait for an event only.
TimerFiresNever == FALSE

\* wait_any_conf_change also ends after TIMEOUT_PERIOD_SECS.
TimerFires == TRUE

\* A subscription that fails is ignored: the loop checks again at once.
Subscribe ==
    /\ driver = "up" /\ wpc = "subscribe"
    /\ \/ wpc' = "wait" /\ UNCHANGED faults
       \/ wpc' = "check" /\ CallFails
    /\ UNCHANGED <<wevent, operational>> /\ WatchFrame

WaitEnds ==
    /\ driver = "up" /\ wpc = "wait" /\ (wevent \/ TimerFires)
    /\ wpc' = "check" /\ wevent' = FALSE
    /\ UNCHANGED <<operational, faults>> /\ WatchFrame

-----------------------------------------------------------------------------
Next ==
    \/ Start \/ Stop \/ AttemptEnds \/ LosesAssoc \/ AddrChange
    \/ \E c \in Callers : Call(c) \/ Begin(c) \/ Connect(c) \/ Cancel(c)
    \/ ScanBegin \/ ScanReturn \/ Check \/ Subscribe \/ WaitEnds

Spec == Init /\ [][Next]_vars

\* The executor polls every future and its timers fire; a scan ends.
Fairness ==
    /\ \A c \in Callers : WF_vars(Begin(c)) /\ WF_vars(Connect(c))
    /\ WF_vars(ScanReturn) /\ WF_vars(AttemptEnds)
    /\ WF_vars(Check) /\ WF_vars(Subscribe) /\ WF_vars(WaitEnds)

FairSpec == Spec /\ Fairness

-----------------------------------------------------------------------------
(* Properties.                                                             *)

\* Every variable keeps its type; a call past its lock holds the mutex, only
\* a started station associates.
TypeOK ==
    /\ driver \in {"off", "up"} /\ {started, trying} \subseteq BOOLEAN
    /\ conf \in Networks \cup {NoNetwork}
    /\ assoc \in IF started THEN Networks \cup {NoNetwork} ELSE {NoNetwork}
    /\ trying => started
    /\ addrs \subseteq {"v4", "v6"}
    /\ lock \in Callers \cup {NoOne, Scanner}
    /\ pc \in [Callers -> Stages]
    /\ \A c \in Callers : pc[c] \in Holding <=> lock = c
    /\ scanPc = "scan" <=> lock = Scanner
    /\ target \in [Callers -> Networks \cup {NoNetwork}]
    /\ tried \in [Callers -> 0..(Len(AuthMethods) - 1)]
    /\ outcome \in [Callers -> {"none", "ok", "connection", "bind", "error"}]
    /\ operational \in BOOLEAN
    /\ wpc \in {"check", "subscribe", "wait"} /\ wevent \in BOOLEAN

Controller == INSTANCE NetController WITH
    owner  <- IF lock \in Callers THEN lock ELSE NoOne,
    asked  <- target,
    wanted <- conf,
    joined <- assoc,
    answer <- [c \in Callers |-> IF outcome[c] \in {"none", "ok"} THEN outcome[c]
                                 ELSE "error"]

\* The controller implements NetController: an attempt that an earlier call
\* has given up, or a station it has left associated, never counts as the
\* network of the next call, whichever of the four methods, the waits and
\* the driver's calls fails (wifi.rs:159-209).
ImplementsController == Controller!Spec

\* Once the station settles, `connected` agrees with it and stays so
\* (wifi.rs:231-270): an association that is lost raises no IpEvent, and
\* connect may have set `operational` just before.
Converges == <>[](driver = "up" => operational = Operational)

\* How many steps a connect call still takes at most: three for each method that
\* is left, one for the addresses.
StepsLeft(c) ==
    CASE pc[c] = "idle"  -> 0
      [] pc[c] = "enter" -> 2 + 3 * Len(AuthMethods)
      [] pc[c] = "ip"    -> 1
      [] OTHER -> 1 + 3 * (Len(AuthMethods) - 1 - tried[c])
                    + (CASE pc[c] = "attempt"   -> 3
                         [] pc[c] = "configure" -> 2
                         [] OTHER               -> 1)

\* Nothing sets a connect call back: whatever the driver, the other futures and
\* the netif do, a step leaves a call where it is or brings it nearer to its end,
\* so that the lock is held for four methods and two waits at most
\* (wifi.rs:159-209).
NeverSetBack ==
    [][\A c \in Callers : pc[c] # "idle" =>
         \/ pc'[c] = pc[c] /\ tried'[c] = tried[c]
         \/ StepsLeft(c)' < StepsLeft(c)]_vars

\* A connect call comes to an end, and with it the lock on the driver that
\* every other operation needs: four methods and two waits, each bounded.
ConnectEnds == \A c \in Callers : pc[c] = "enter" ~> pc[c] = "idle"
=============================================================================
