-------------------------- MODULE NimblePeripheral --------------------------
(***************************************************************************)
(* The Matter BTP GATT peripheral on the NimBLE host                       *)
(* (src/ble/nimble.rs, EspBtpGattPeripheral).                              *)
(*                                                                         *)
(* Three threads of control share one EspBtpGattContext:                   *)
(*  - the NimBLE host task runs the event hooks one at a time; a hook is a *)
(*    critical section on `state`, then stores and signals made after the  *)
(*    lock is released (variable `todo`), so the pumps can run in between; *)
(*  - process_incoming feeds C1 writes to the BTP engine;                  *)
(*  - process_outgoing (re)starts advertising and indicates BTP frames on  *)
(*    C2.                                                                  *)
(* A fourth, the owner, creates the peripheral, runs it and may drop it at *)
(* any await point.                                                        *)
(*                                                                         *)
(* External parts, modelled from how the code uses them: the NimBLE host   *)
(* (host, link, link_mtu, adv, hostEv, inflight) and the rs-matter BTP     *)
(* engine (session, frames, btpWake).  Link identities 1, 2, ... are       *)
(* ghosts: the code only sees connection handles, which the host reuses.   *)
(***************************************************************************)
EXTENDS Integers, FiniteSets

CONSTANTS
    MaxLinks,      \* bound: BLE links made during a behaviour
    MaxRuns,       \* bound: times the peripheral is created and run
    MaxResets,     \* bound: times the host stack resets itself
    MaxFrames,     \* bound: frames the BTP engine holds ready at once
    HandleSpace,   \* connection handles the host hands out, round robin
    Generations    \* number of values of conn_gen (2^32 for usize)

ASSUME ConstantsAssumption ==
    /\ MaxLinks \in Nat /\ MaxRuns \in Nat /\ MaxResets \in Nat
    /\ MaxFrames \in Nat
    /\ HandleSpace \in Nat \ {0}
    /\ Generations \in Nat

(***************************************************************************)
(* conn_gen is compared for equality only, so it must not come round to    *)
(* the generation of a session that is still alive: a device makes far     *)
(* fewer than 2^32 connections.                                            *)
(***************************************************************************)
ASSUME GenerationsAssumption == MaxLinks < Generations

VARIABLES
    life,            \* the peripheral object: see Lives
    err,             \* ghost: why run() returned Err
    connection,      \* State.connection: NoConn or one Connection record
    conn_gen,        \* State.conn_gen
    btp_gen,         \* State.btp_gen; NoGen is None
    in_data,         \* State.in_data: NoData or one packet
    need_advertise,  \* State.need_advertise
    adv_data,        \* State.adv_data holds the advertising payload
    out_nack,        \* EspBtpGattContext.out_nack
    notify_in,       \* notify_process_incoming holds a signal
    notify_out,      \* notify_process_outgoing holds a signal
    c2,              \* C2_VAL_HANDLE is not 0
    todo,            \* what the running hook still does after its lock
    inPc,            \* process_incoming: "loop", "park" or "wait"
    outPc,           \* process_outgoing: "loop", "adv", "send", "park", "wait"
    host,            \* the host stack: see HostStates
    hostEv,          \* event the host is about to deliver to a hook
    link,            \* identity of the BLE link, NoLink when none
    link_mtu,        \* ATT MTU of the link
    links,           \* links made so far
    adv,             \* what the controller advertises
    advRefused,      \* ghost: the controller refused the last attempt
    inflight,        \* indications of the link awaiting the peer's answer
    wire,            \* ghost: links whose BTP data the link has been sent
    session,         \* ghost: links whose packets the BTP session has eaten
    frames,          \* BTP frames ready to be sent
    btpWake,         \* Btp::wait_outgoing would complete
    runs, resets     \* counters for the bounds

codeVars == <<connection, conn_gen, btp_gen, in_data, need_advertise, adv_data,
              out_nack, notify_in, notify_out, c2>>
hostVars == <<host, hostEv, link, link_mtu, links, adv, advRefused, inflight,
              wire, resets>>
btpVars  == <<session, frames, btpWake>>
vars == <<life, err, codeVars, todo, inPc, outPc, hostVars, btpVars, runs>>

NoLink == 0
NoGen  == -1
NoMtu  == 0      \* Connection.mtu = None
MinMtu == 1      \* the ATT MTU every link starts with
BigMtu == 2      \* the MTU after the exchange

NoConn == [link |-> NoLink, conn_handle |-> 0, subscribed |-> FALSE,
           mtu |-> NoMtu]
NoData == [link |-> NoLink, accepted |-> FALSE]

\* "off": no object; "created": new() done; "running": inside run();
\* "failed": run() has returned Err, the hooks are still live;
\* "dropping": CONTEXT unpublished, the driver not stopped yet.
Lives == {"off", "created", "running", "failed", "dropping"}
HostStates == {"stopped", "registering", "started", "synced"}
HostEvents == {"none", "sync", "connect", "connfail", "abort", "disconnect"}

Handle(l) == l % HandleSpace

\* The hooks find the context through the global pointer.
Published == life \in {"running", "failed"}

\* The host task can produce its next event: no hook is running.
HostFree == Published /\ hostEv = "none" /\ todo = {}

Connected == connection.link # NoLink

\* !in_data.is_empty()
Occupied == in_data.link # NoLink

Init ==
    /\ life = "off" /\ err = "none"
    /\ connection = NoConn /\ conn_gen = 0 /\ btp_gen = NoGen
    /\ in_data = NoData /\ need_advertise = FALSE /\ adv_data = FALSE
    /\ out_nack = FALSE /\ notify_in = FALSE /\ notify_out = FALSE
    /\ c2 = FALSE /\ todo = {} /\ inPc = "loop" /\ outPc = "loop"
    /\ host = "stopped" /\ hostEv = "none" /\ link = NoLink
    /\ link_mtu = MinMtu /\ links = 0 /\ adv = "off" /\ advRefused = FALSE
    /\ inflight = 0 /\ wire = {} /\ session = {} /\ frames = 0
    /\ btpWake = FALSE /\ runs = 0 /\ resets = 0

-----------------------------------------------------------------------------
(* The owner: create, run, drop.                                           *)

\* EspBtpGattContext::reset: everything but conn_gen and need_advertise.
reset ==
    /\ connection' = NoConn /\ btp_gen' = NoGen /\ in_data' = NoData
    /\ adv_data' = FALSE /\ out_nack' = FALSE
    /\ notify_in' = FALSE /\ notify_out' = FALSE
    /\ UNCHANGED <<conn_gen, need_advertise, c2>>

New ==
    /\ life = "off" /\ runs < MaxRuns
    /\ life' = "created" /\ err' = "none" /\ runs' = runs + 1
    /\ reset
    /\ UNCHANGED <<todo, inPc, outPc, hostVars, btpVars>>

\* run up to the pumps: load the payload, publish the context, subscribe the
\* hooks, start the host; set_device_name or start may fail.
Run ==
    /\ life = "created"
    /\ adv_data' = TRUE
    /\ \/ life' = "running" /\ host' = "registering" /\ UNCHANGED err
       \/ life' = "failed" /\ err' = "start" /\ UNCHANGED host
    /\ inPc' = "loop" /\ outPc' = "loop"
    /\ UNCHANGED <<connection, conn_gen, btp_gen, in_data, need_advertise,
                   out_nack, notify_in, notify_out, c2, todo, hostEv, link,
                   link_mtu, links, adv, advRefused, inflight, wire, resets,
                   btpVars, runs>>

\* Drop unpublishes the context; a hook already past its lock goes on.
Drop ==
    /\ life \in {"created", "running", "failed"}
    /\ life' = "dropping"
    /\ UNCHANGED <<err, codeVars, todo, inPc, outPc, hostVars, btpVars, runs>>

\* The driver field is dropped next: the host task ends (its hook, if any,
\* returned) and with it the link and the advertising.
DropDriver ==
    /\ life = "dropping" /\ todo = {}
    /\ life' = "off" /\ host' = "stopped" /\ hostEv' = "none"
    /\ link' = NoLink /\ link_mtu' = MinMtu /\ adv' = "off"
    /\ advRefused' = FALSE /\ inflight' = 0 /\ wire' = {}
    /\ UNCHANGED <<err, codeVars, todo, inPc, outPc, links, resets, btpVars,
                   runs>>

-----------------------------------------------------------------------------
(* The NimBLE host (external).                                             *)

HostStep == HostFree /\ UNCHANGED <<life, err, codeVars, todo, inPc, outPc,
                                    btpVars, runs>>

HostSync ==
    /\ HostStep /\ host = "started"
    /\ host' = "synced" /\ hostEv' = "sync"
    /\ UNCHANGED <<link, link_mtu, links, adv, advRefused, inflight, wire,
                   resets>>

\* A central connects to the advertiser, or the attempt fails; either ends
\* the advertising.
HostConnect ==
    /\ HostStep /\ host = "synced" /\ adv # "off" /\ links < MaxLinks
    /\ adv' = "off"
    /\ \/ /\ link' = links + 1 /\ links' = links + 1 /\ hostEv' = "connect"
          /\ link_mtu' = MinMtu
       \/ hostEv' = "connfail" /\ UNCHANGED <<link, links, link_mtu>>
    /\ UNCHANGED <<host, advRefused, inflight, wire, resets>>

\* The link is gone before any hook hears of it.  A pending indication is
\* reported as failed first.
BreakLink ==
    /\ link' = NoLink /\ link_mtu' = MinMtu /\ inflight' = 0 /\ wire' = {}
    /\ hostEv' = IF inflight > 0 THEN "abort" ELSE "disconnect"

HostLinkLost ==
    /\ HostStep /\ link # NoLink
    /\ BreakLink
    /\ UNCHANGED <<host, links, adv, advRefused, resets>>

\* The host lost its controller: advertising and link are gone, a Sync will
\* follow.
HostReset ==
    /\ HostStep /\ host = "synced" /\ resets < MaxResets
    /\ host' = "started" /\ adv' = "off" /\ resets' = resets + 1
    /\ IF link # NoLink
       THEN BreakLink
       ELSE UNCHANGED <<link, link_mtu, inflight, wire, hostEv>>
    /\ UNCHANGED <<links, advRefused>>

-----------------------------------------------------------------------------
(* The event hooks: the critical section, leaving the rest in todo.        *)

HookFrame == UNCHANGED <<life, err, inPc, outPc, btpVars, runs, adv_data,
                         links, adv, resets, btp_gen, notify_in, notify_out,
                         out_nack>>

\* Sync and a failed Connect ask for advertising.
AdvertiseHook(event, need) ==
    /\ Published /\ hostEv = event /\ todo = {}
    /\ hostEv' = "none" /\ need_advertise' = need /\ todo' = {"out"}
    /\ HookFrame
    /\ UNCHANGED <<connection, conn_gen, in_data, c2, host, link, link_mtu,
                   inflight, wire, advRefused>>

OnSync == AdvertiseHook("sync", TRUE)

\* Mutant: a failed Connect is only logged.
OnConnectFailedLogs == AdvertiseHook("connfail", need_advertise)

OnConnectFailed == AdvertiseHook("connfail", TRUE)

\* Mutant: the MTU a link may get, not the one it has.
PreferredMtu == {BigMtu}

\* att_mtu(conn_handle).ok(): it may have no answer yet.
AttMtu == {NoMtu, link_mtu}

OnConnect ==
    /\ Published /\ hostEv = "connect" /\ todo = {}
    /\ hostEv' = "none"
    /\ conn_gen' = (conn_gen + 1) % Generations
    /\ in_data' = NoData
    /\ \E mtu \in AttMtu :
          connection' = [link |-> link, conn_handle |-> Handle(link),
                         subscribed |-> FALSE, mtu |-> mtu]
    /\ todo' = {"nack", "in"}
    /\ HookFrame
    /\ UNCHANGED <<need_advertise, c2, host, link, link_mtu, inflight, wire,
                   advRefused>>

OnDisconnect ==
    /\ Published /\ hostEv = "disconnect" /\ todo = {}
    /\ hostEv' = "none"
    /\ connection' = NoConn /\ in_data' = NoData /\ need_advertise' = TRUE
    /\ todo' = {"nack", "in", "out"}
    /\ HookFrame
    /\ UNCHANGED <<conn_gen, c2, host, link, link_mtu, inflight, wire,
                   advRefused>>

OnMtu ==
    /\ HostFree /\ link # NoLink /\ link_mtu = MinMtu
    /\ link_mtu' = BigMtu
    /\ connection' = IF Connected /\ connection.conn_handle = Handle(link)
                     THEN [connection EXCEPT !.mtu = BigMtu]
                     ELSE connection
    /\ HookFrame
    /\ UNCHANGED <<conn_gen, in_data, need_advertise, c2, todo, host, hostEv,
                   link, inflight, wire, advRefused>>

\* The service table is registered while the host starts.
OnRegister ==
    /\ HostFree /\ host = "registering"
    /\ host' = "started" /\ c2' = TRUE
    /\ HookFrame
    /\ UNCHANGED <<connection, conn_gen, in_data, need_advertise, todo,
                   hostEv, link, link_mtu, inflight, wire, advRefused>>

\* A C1 write is refused while in_data is occupied.  An accepted one fills
\* it, unless it is empty.  in_data is grown before the payload is read into
\* it: when data.read fails the write is refused too, but in_data keeps the
\* blank bytes and nobody is signalled.
OnWrite ==
    /\ HostFree /\ link # NoLink
    /\ ~Occupied
    /\ \/ in_data' = [link |-> link, accepted |-> TRUE] /\ todo' = {"in"}
       \/ in_data' = NoData /\ todo' = {"in"}
       \/ in_data' = [link |-> link, accepted |-> FALSE] /\ todo' = {}
    /\ HookFrame
    /\ UNCHANGED <<connection, conn_gen, need_advertise, c2, host, hostEv,
                   link, link_mtu, inflight, wire, advRefused>>

OnSubscriptionChanged ==
    /\ HostFree /\ link # NoLink /\ c2
    /\ \E cur_indicate \in BOOLEAN :
          connection' = IF Connected /\ connection.conn_handle = Handle(link)
                        THEN [connection EXCEPT !.subscribed = cur_indicate]
                        ELSE connection
    /\ todo' = {"out"}
    /\ HookFrame
    /\ UNCHANGED <<conn_gen, in_data, need_advertise, c2, host, hostEv, link,
                   link_mtu, inflight, wire, advRefused>>

\* The peer confirmed the indication or it failed; out_nack and the signal
\* need no lock.
OnNotifyComplete ==
    /\ Published /\ todo = {}
    /\ \/ hostEv = "none" /\ inflight > 0
          /\ inflight' = inflight - 1 /\ UNCHANGED hostEv
       \/ hostEv = "abort" /\ hostEv' = "disconnect" /\ UNCHANGED inflight
    /\ todo' = {"nack", "out"}
    /\ HookFrame
    /\ UNCHANGED <<connection, conn_gen, in_data, need_advertise, c2, host,
                   link, link_mtu, wire, advRefused>>

\* What every hook does after its critical section, in this order.
TailFrame == UNCHANGED <<life, err, connection, conn_gen, btp_gen, in_data,
                         need_advertise, adv_data, c2, inPc, outPc, hostVars,
                         btpVars, runs>>

TailNack ==
    /\ "nack" \in todo
    /\ out_nack' = FALSE /\ todo' = todo \ {"nack"}
    /\ TailFrame /\ UNCHANGED <<notify_in, notify_out>>

\* Mutant: a signal that is lost when nobody waits for it.
TailNotifyInUnlatched ==
    /\ "in" \in todo /\ "nack" \notin todo
    /\ notify_in' = (inPc = "wait") /\ todo' = todo \ {"in"}
    /\ TailFrame /\ UNCHANGED <<out_nack, notify_out>>

TailNotifyIn ==
    /\ "in" \in todo /\ "nack" \notin todo
    /\ notify_in' = TRUE /\ todo' = todo \ {"in"}
    /\ TailFrame /\ UNCHANGED <<out_nack, notify_out>>

\* Mutant: likewise.
TailNotifyOutUnlatched ==
    /\ "out" \in todo /\ todo \cap {"nack", "in"} = {}
    /\ notify_out' = (outPc = "wait") /\ todo' = todo \ {"out"}
    /\ TailFrame /\ UNCHANGED <<out_nack, notify_in>>

TailNotifyOut ==
    /\ "out" \in todo /\ todo \cap {"nack", "in"} = {}
    /\ notify_out' = TRUE /\ todo' = todo \ {"out"}
    /\ TailFrame /\ UNCHANGED <<out_nack, notify_in>>

HookTail == TailNack \/ TailNotifyIn \/ TailNotifyOut

-----------------------------------------------------------------------------
(* The BTP engine (external): while it has a session it gets frames to     *)
(* send, stand-alone acknowledgements included, whoever is connected.      *)

BtpProduce ==
    /\ session # {} /\ frames < MaxFrames
    /\ frames' = frames + 1 /\ btpWake' = TRUE
    /\ UNCHANGED <<life, err, codeVars, todo, inPc, outPc, hostVars, session,
                   runs>>

-----------------------------------------------------------------------------
(* The pumps.                                                              *)

\* Mutant: reset the session once per run, not once per connection.
StaleOncePerRun == btp_gen = NoGen

\* Mutant: every pump turn starts from a fresh session.
StaleAlways == TRUE

\* State::sync_btp: whether it resets, and the session and frames after it.
Stale == btp_gen # conn_gen
SyncedSession == IF Stale THEN {} ELSE session
SyncedFrames  == IF Stale THEN 0 ELSE frames

\* run() returns Err: select drops both pumps.
Fail(why) == life' = "failed" /\ err' = why

InFrame == UNCHANGED <<connection, conn_gen, need_advertise, adv_data,
                       out_nack, notify_out, c2, todo, outPc, hostVars,
                       btpWake, runs>>

\* One turn of process_incoming that finds a packet.
Feed ==
    /\ life = "running" /\ inPc = "loop" /\ Connected /\ Occupied
    /\ btp_gen' = conn_gen /\ frames' = SyncedFrames
    /\ session' = SyncedSession \cup {in_data.link}
    /\ \/ in_data' = NoData /\ UNCHANGED <<life, err>>
       \/ Fail("btp") /\ UNCHANGED in_data
    /\ UNCHANGED <<inPc, notify_in>> /\ InFrame

\* One that finds none: it releases the lock and goes on to wait.
NothingIncoming ==
    /\ life = "running" /\ inPc = "loop"
    /\ ~(Connected /\ Occupied)
    /\ IF Connected
       THEN /\ btp_gen' = conn_gen
            /\ session' = SyncedSession /\ frames' = SyncedFrames
       ELSE UNCHANGED <<btp_gen, session, frames>>
    /\ inPc' = "park"
    /\ UNCHANGED <<life, err, in_data, notify_in>> /\ InFrame

IncomingParks ==
    /\ life = "running" /\ inPc = "park" /\ inPc' = "wait"
    /\ UNCHANGED <<life, err, btp_gen, in_data, notify_in, session, frames>>
    /\ InFrame

IncomingWakes ==
    /\ life = "running" /\ inPc = "wait" /\ notify_in
    /\ notify_in' = FALSE /\ inPc' = "loop"
    /\ UNCHANGED <<life, err, btp_gen, in_data, session, frames>> /\ InFrame

process_incoming == Feed \/ NothingIncoming \/ IncomingParks \/ IncomingWakes

\* process_outgoing takes the request to advertise under the lock ...
TakeAdvertise ==
    /\ life = "running" /\ outPc = "loop"
    /\ outPc' = IF need_advertise THEN "adv" ELSE "send"
    /\ need_advertise' = FALSE
    /\ UNCHANGED <<life, err, connection, conn_gen, btp_gen, in_data,
                   adv_data, out_nack, notify_in, notify_out, c2, todo, inPc,
                   hostVars, btpVars, runs>>

\* ... and advertises outside it; a failure is only logged.  The controller
\* has one connection slot, so it does not advertise while there is a link.
advertise ==
    /\ life = "running" /\ outPc = "adv"
    /\ outPc' = "send"
    /\ LET possible == host = "synced" /\ link = NoLink /\ adv = "off"
       IN  \/ /\ possible
              /\ adv' = IF adv_data THEN "payload" ELSE "blank"
              /\ advRefused' = FALSE
           \/ advRefused' = possible /\ UNCHANGED adv
    /\ UNCHANGED <<life, err, codeVars, todo, inPc, host, hostEv, link,
                   link_mtu, links, inflight, wire, resets, btpVars, runs>>

OutFrame == UNCHANGED <<connection, conn_gen, in_data, need_advertise,
                        adv_data, notify_in, c2, todo, inPc, host, hostEv,
                        link, link_mtu, links, adv, advRefused, resets, runs>>

\* Mutant: the previous indication is not waited for.
MaySendAnyTime == /\ Connected /\ connection.subscribed
                  /\ c2 /\ SyncedFrames > 0

\* The guards of the sending critical section.
MaySend == /\ Connected /\ connection.subscribed
           /\ ~out_nack /\ c2 /\ SyncedFrames > 0

\* Mutant: out_nack is set after indicate returns, over the completion.
IndicatedNackLast ==
    /\ out_nack' = TRUE
    /\ \/ inflight' = inflight + 1 /\ UNCHANGED notify_out
       \/ notify_out' = TRUE /\ UNCHANGED inflight

\* indicate took the frame.  out_nack was set before the call, so that the
\* completion, if the host delivers it from within the call, clears it.
Indicated ==
    \/ out_nack' = TRUE /\ inflight' = inflight + 1 /\ UNCHANGED notify_out
    \/ out_nack' = FALSE /\ notify_out' = TRUE /\ UNCHANGED inflight

\* One turn of process_outgoing that has a frame: BTP may fail to build it,
\* and the host to take it, as it always does when the link is gone.
Indicate ==
    /\ life = "running" /\ outPc = "send" /\ MaySend
    /\ btp_gen' = conn_gen /\ session' = SyncedSession
    /\ \/ /\ link # NoLink /\ Handle(link) = connection.conn_handle
          /\ Indicated
          /\ wire' = wire \cup SyncedSession
          /\ frames' = SyncedFrames - 1 /\ outPc' = "loop"
          /\ UNCHANGED <<life, err>>
       \/ /\ Fail(IF link = NoLink THEN "notconn" ELSE "indicate")
          /\ frames' = SyncedFrames - 1 /\ out_nack' = FALSE
          /\ UNCHANGED <<wire, outPc, inflight, notify_out>>
       \/ /\ Fail("btp")
          /\ frames' = SyncedFrames
          /\ UNCHANGED <<wire, outPc, inflight, notify_out, out_nack>>
    /\ UNCHANGED btpWake /\ OutFrame

\* One that has nothing to send: it releases the lock and goes on to wait; it
\* has synced the session when a subscribed peer is connected.
NothingOutgoing ==
    /\ life = "running" /\ outPc = "send" /\ ~MaySend
    /\ IF Connected /\ connection.subscribed
       THEN /\ btp_gen' = conn_gen
            /\ session' = SyncedSession /\ frames' = SyncedFrames
       ELSE UNCHANGED <<btp_gen, session, frames>>
    /\ outPc' = "park"
    /\ UNCHANGED <<life, err, out_nack, notify_out, inflight, wire, btpWake>>
    /\ OutFrame

OutgoingParks ==
    /\ life = "running" /\ outPc = "park" /\ outPc' = "wait"
    /\ UNCHANGED <<life, err, btp_gen, session, frames, out_nack, notify_out,
                   inflight, wire, btpWake>>
    /\ OutFrame

\* select(btp.wait_outgoing, notify_process_outgoing): whichever completes
\* is consumed.
OutgoingWakes ==
    /\ life = "running" /\ outPc = "wait"
    /\ \/ btpWake /\ btpWake' = FALSE /\ UNCHANGED notify_out
       \/ notify_out /\ notify_out' = FALSE /\ UNCHANGED btpWake
    /\ outPc' = "loop"
    /\ UNCHANGED <<life, err, btp_gen, session, frames, out_nack, inflight,
                   wire>>
    /\ OutFrame

process_outgoing ==
    \/ TakeAdvertise \/ advertise
    \/ Indicate \/ NothingOutgoing \/ OutgoingParks \/ OutgoingWakes

-----------------------------------------------------------------------------
Owner == New \/ Run \/ Drop \/ DropDriver
Host  == HostSync \/ HostConnect \/ HostLinkLost \/ HostReset
Hook  == OnSync \/ OnConnectFailed \/ OnConnect \/ OnDisconnect \/ OnMtu
         \/ OnRegister \/ OnWrite \/ OnSubscriptionChanged \/ OnNotifyComplete

Next == Owner \/ Host \/ Hook \/ HookTail \/ BtpProduce
        \/ process_incoming \/ process_outgoing

Spec == Init /\ [][Next]_vars

\* The executor keeps polling both pumps; the host task finishes a hook it
\* is in and delivers an event it has.
Deliver == OnSync \/ OnConnectFailed \/ OnConnect \/ OnDisconnect
           \/ (hostEv = "abort" /\ OnNotifyComplete)

Fairness == /\ WF_vars(process_incoming) /\ WF_vars(process_outgoing)
            /\ WF_vars(HookTail) /\ WF_vars(Deliver)

FairSpec == Spec /\ Fairness

-----------------------------------------------------------------------------
(* Properties.                                                             *)

TypeCode ==
    /\ connection \in [link : 0..links, conn_handle : 0..(HandleSpace - 1),
                       subscribed : BOOLEAN, mtu : {NoMtu, MinMtu, BigMtu}]
    /\ conn_gen \in 0..links /\ btp_gen \in {NoGen} \cup 0..conn_gen
    /\ in_data \in [link : 0..links, accepted : BOOLEAN]
    /\ need_advertise \in BOOLEAN /\ adv_data \in BOOLEAN
    /\ out_nack \in BOOLEAN /\ notify_in \in BOOLEAN
    /\ notify_out \in BOOLEAN /\ c2 \in BOOLEAN

TypeThreads ==
    /\ life \in Lives /\ err \in {"none", "start", "btp", "indicate", "notconn"}
    /\ todo \subseteq {"nack", "in", "out"}
    /\ inPc \in {"loop", "park", "wait"}
    /\ outPc \in {"loop", "adv", "send", "park", "wait"}
    /\ runs \in 0..MaxRuns

TypeHost ==
    /\ host \in HostStates /\ hostEv \in HostEvents
    /\ links \in 0..MaxLinks /\ link \in {NoLink, links}
    /\ link_mtu \in {MinMtu, BigMtu}
    /\ adv \in {"off", "blank", "payload"} /\ advRefused \in BOOLEAN
    /\ inflight \in 0..1 /\ resets \in 0..MaxResets

TypeBtp ==
    /\ wire \subseteq 1..links /\ session \subseteq 1..links
    /\ frames \in 0..MaxFrames /\ btpWake \in BOOLEAN

\* Every variable keeps its type; in particular at most one indication is
\* ever in flight (process_outgoing, nimble.rs:543-546) and conn_gen counts
\* the Connect events without wrapping.
TypeOK == TypeCode /\ TypeThreads /\ TypeHost /\ TypeBtp

\* The life of the peripheral object against the host it owns.
Lifecycle ==
    /\ life \in {"off", "created"}
          => /\ host = "stopped" /\ hostEv = "none" /\ todo = {}
             /\ link = NoLink /\ inflight = 0
    /\ life = "created" => ~Connected /\ ~out_nack
    /\ life = "running" => adv_data

\* The host: no link without synchronisation, none while advertising, and
\* none behind an event that reports its absence.
HostSane ==
    /\ host # "synced" => link = NoLink /\ adv = "off"
    /\ adv # "off" => link = NoLink
    /\ hostEv \in {"sync", "connfail", "abort", "disconnect"} => link = NoLink
    /\ hostEv = "connect" => link # NoLink /\ conn_gen < links
    /\ hostEv \notin {"none", "disconnect"} => todo = {}

\* `connection` lags the link by at most the event about to be delivered.
LinkTracked ==
    /\ hostEv = "connect" => ~Connected
    /\ Published /\ link = NoLink /\ hostEv \notin {"abort", "disconnect"}
          => ~Connected
    /\ Published /\ link # NoLink /\ hostEv # "connect" => Connected
    /\ Connected /\ link # NoLink => connection.link = link

\* in_data belongs to the connected peer.
DataOwned ==
    /\ Occupied => in_data.link = connection.link
    /\ in_data.accepted => Occupied

\* A hook that will still clear out_nack finds no indication it could hide.
NackTracked ==
    /\ inflight > 0 => Connected /\ link # NoLink /\ out_nack
    /\ hostEv = "abort" => out_nack
    /\ "nack" \in todo
          => /\ inflight = 0
             /\ \/ ~Connected \/ ~connection.subscribed
                \/ out_nack /\ "out" \in todo

\* A request to advertise that arrives while process_outgoing is past its
\* check will wake it up.
RequestKept ==
    life = "running" /\ need_advertise /\ outPc # "loop"
        => notify_out \/ "out" \in todo

\* A connection starts without a session, and frames come from one.
SessionTracked ==
    /\ hostEv = "connect" => link \notin session
    /\ Connected /\ Stale => connection.link \notin session
    /\ frames > 0 => session # {}

\* What the code believes against what the host does, between any two steps
\* of the hooks and the pumps (nimble.rs:294-474, 484-592): the part of the
\* inductive invariant the properties below rest on.
Coherent == /\ Lifecycle /\ HostSane /\ LinkTracked
            /\ DataOwned /\ NackTracked /\ RequestKept /\ SessionTracked

\* sync_btp (nimble.rs:126-131): no pump operates on the session of a
\* connection that is gone.  What was indicated on a link came from that
\* link's session, and a session that is in sync has eaten only packets of
\* the connected peer, across reconnects and restarts of the peripheral.
SessionIsolation ==
    /\ wire \subseteq {link}
    /\ Connected /\ ~Stale => session \subseteq {connection.link}

\* An accepted C1 write never sits in in_data with process_incoming asleep
\* and nobody about to wake it (nimble.rs:426, 507-509), whenever the hook's
\* signal falls between the pump's check and its wait.
IncomingNotLost ==
    life = "running" /\ inPc \in {"park", "wait"} /\ in_data.accepted
        => notify_in \/ "in" \in todo

\* The same for process_outgoing (nimble.rs:583-590): it never sleeps over a
\* request to advertise or over a frame it could send.
OutgoingNotLost ==
    life = "running" /\ outPc \in {"park", "wait"} /\ (need_advertise \/ MaySend)
        => notify_out \/ btpWake \/ "out" \in todo

\* Neither pump sleeps over what a hook has brought, between the hook's lock and
\* its signal included (nimble.rs:426, 458, 507-509, 583-590).
PumpsNotLost == IncomingNotLost /\ OutgoingNotLost

\* out_nack (nimble.rs:144-150, 561-566): set while an indication is in
\* flight, and when it is set either one is in flight or the event that will
\* clear it is on its way, the re-entrant completion included.
NackHonest ==
    /\ inflight > 0 => out_nack
    /\ life = "running" /\ out_nack
          => inflight > 0 \/ "nack" \in todo \/ hostEv \in {"abort", "disconnect"}

\* A peripheral without a link and without advertising has a request to
\* advertise pending (nimble.rs:299, 320, 357, 517-526), unless the
\* controller refused the last attempt; and it never advertises a blank
\* payload.
Discoverable ==
    /\ life = "running" /\ host = "synced" /\ hostEv = "none"
          /\ link = NoLink /\ adv = "off" /\ ~advRefused
          => need_advertise \/ outPc = "adv"
    /\ adv # "blank"

\* The MTU handed to BTP never exceeds that of the link it is used on
\* (nimble.rs:327, 367-379): a frame is never cut for an earlier, larger MTU.
MtuFits == Connected /\ connection.link = link => connection.mtu <= link_mtu

\* Both pumps asleep, no hook running and no event due: nothing moves until
\* the peer, BTP or the owner does.
AtRest == /\ life = "running" /\ todo = {} /\ hostEv = "none"
          /\ inPc = "wait" /\ ~notify_in
          /\ outPc = "wait" /\ ~notify_out /\ ~btpWake

\* The hooks and the pumps never wait for each other (nimble.rs:484-592): at
\* rest no write or request to advertise is pending, the code and the host
\* agree on the link, or it advertises, and a frame is held back only by an
\* indication the peer has yet to answer.
RestIsServed ==
    AtRest =>
        /\ ~in_data.accepted /\ ~need_advertise
        /\ Connected /\ connection.subscribed /\ c2 /\ SyncedFrames > 0
              => inflight > 0
        /\ connection.link = link
        /\ host = "synced" /\ link = NoLink => adv = "payload" \/ advRefused

\* A write the peer was told is accepted reaches the BTP engine, unless the
\* link or run() ends first (process_incoming, nimble.rs:484-512).
WriteServed ==
    life = "running" /\ in_data.accepted ~> life # "running" \/ ~Occupied

\* process_outgoing never leaves a frame it could send unsent for good
\* (nimble.rs:515-592).
FramesServed == []<>(life # "running" \/ ~MaySend)

\* Both pumps: what is accepted is fed, what can be sent is sent.
PumpsServe == WriteServed /\ FramesServed

\* After a disconnect the peripheral advertises again (nimble.rs:356), or is
\* connected again, unless the controller refuses, resets, or run() ends.
Readvertises ==
    life = "running" /\ host = "synced" /\ hostEv = "disconnect"
        ~> \/ adv # "off" \/ link # NoLink \/ advRefused
           \/ host # "synced" \/ life # "running"

\* "Nobody is connected anymore, so become discoverable again"
\* (nimble.rs:356): losing the link leads to advertising, whatever the pump
\* was doing, unless the owner drops the healthy peripheral or BTP fails.
LinkLossReadvertises ==
    life = "running" /\ host = "synced" /\ hostEv = "disconnect"
        ~> \/ adv # "off" \/ link # NoLink \/ advRefused
           \/ host # "synced" \/ err = "btp"
           \/ err = "none" /\ life # "running"

\* The peripheral implements the transport BTP is promised (BtpTransport).
\* Beyond SessionIsolation: the two pumps sync the same session, and neither
\* throws away what the other has started on this connection
\* (nimble.rs:132-137).
Transport == INSTANCE BtpTransport
    WITH peer <- connection.link, sent <- wire, None <- NoLink,
         Peers <- 1..MaxLinks
ImplementsTransport == Transport!Spec
=============================================================================
