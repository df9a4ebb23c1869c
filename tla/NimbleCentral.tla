---------------------------- MODULE NimbleCentral ----------------------------
(***************************************************************************)
(* The BTP transport of a Matter commissioner: EspBtpGattClient, a GATT    *)
(* client on the NimBLE host (src/ble/nimble.rs, mod central).             *)
(*                                                                         *)
(* run() goes through the setup steps in order, waiting in wait_state for  *)
(* the result each of them leaves in the shared state, then drives the two *)
(* pumps.  The host task runs the event hooks one at a time; `todo` holds  *)
(* the signals a hook still has to raise after its critical section.       *)
(* External, modelled from how the code uses them: the host and the peer   *)
(* (host, link, proc, peerHas) and the BTP engine (frames,     *)
(* btpWake).                                                               *)
(***************************************************************************)
EXTENDS Integers, FiniteSets

CONSTANTS
    MaxRuns,     \* bound: times a client is created and run
    MaxFrames    \* bound: frames the BTP engine holds ready at once

ASSUME CentralAssumption == MaxRuns \in Nat /\ MaxFrames \in Nat

VARIABLES
    step,           \* where run() is: see Steps
    waitPc,         \* wait_state: "loop", "park" or "wait"
    synced, conn_handle, failed, matter_range, services_done, c1_val, c2_val,
    chars_done, subscribed, in_data, out_inflight, mtu,     \* State
    notify_progress, notify_in, notify_out,                 \* latched signals
    todo,           \* signals the running hook still has to raise
    inPc, outPc,    \* the pumps: "loop", "park" or "wait"
    host,           \* "stopped", "started" or "synced"
    link,           \* "none", "up", or "lost" until Disconnect is delivered
    proc,           \* the procedure the client asked of the host, or "none"
    peerHas,        \* what discovery will find on the peer
    frames, btpWake,\* the BTP engine
    runs            \* counter for the bound

stateVars  == <<synced, conn_handle, failed, matter_range, services_done,
                c1_val, c2_val, chars_done, subscribed, in_data, out_inflight,
                mtu>>
signalVars == <<notify_progress, notify_in, notify_out>>
hostVars   == <<host, link, proc, peerHas>>
vars == <<step, waitPc, stateVars, signalVars, todo, inPc, outPc, hostVars,
          frames, btpWake, runs>>

Waits == {"sync", "connect", "services", "chars", "cccd"}
Steps == Waits \cup {"off", "pumps", "ended"}

\* The hooks reach the context from run() until the client is dropped.
Published == step # "off"
HostFree  == Published /\ host # "stopped" /\ todo = {} /\ link # "lost"

Init ==
    /\ step = "off" /\ waitPc = "loop"
    /\ synced = FALSE /\ conn_handle = FALSE /\ failed = FALSE
    /\ matter_range = FALSE /\ services_done = FALSE /\ c1_val = FALSE
    /\ c2_val = FALSE /\ chars_done = FALSE /\ subscribed = FALSE
    /\ in_data = FALSE /\ out_inflight = FALSE /\ mtu = FALSE
    /\ notify_progress = FALSE /\ notify_in = FALSE /\ notify_out = FALSE
    /\ todo = {} /\ inPc = "loop" /\ outPc = "loop"
    /\ host = "stopped" /\ link = "none" /\ proc = "none" /\ peerHas = {}
    /\ frames = 0 /\ btpWake = FALSE /\ runs = 0

-----------------------------------------------------------------------------
(* The owner.                                                              *)

\* EspBtpGattClientContext::reset installs a new State and clears the signals.
reset ==
    /\ synced' = FALSE /\ conn_handle' = FALSE /\ failed' = FALSE
    /\ matter_range' = FALSE /\ services_done' = FALSE /\ c1_val' = FALSE
    /\ c2_val' = FALSE /\ chars_done' = FALSE /\ subscribed' = FALSE
    /\ in_data' = FALSE /\ out_inflight' = FALSE /\ mtu' = FALSE
    /\ notify_progress' = FALSE /\ notify_in' = FALSE /\ notify_out' = FALSE

\* new() resets the context; run() publishes it, subscribes the hooks and
\* starts the host, which may fail.
Start ==
    /\ step = "off" /\ runs < MaxRuns /\ todo = {}
    /\ runs' = runs + 1
    /\ reset
    /\ \/ step' = "sync" /\ host' = "started"
       \/ step' = "ended" /\ UNCHANGED host
    /\ waitPc' = "loop" /\ inPc' = "loop" /\ outPc' = "loop"
    /\ UNCHANGED <<todo, link, proc, peerHas, frames, btpWake>>

\* Drop unpublishes the context and stops the host; a hook past its critical
\* section still raises its signals.
Drop ==
    /\ step # "off"
    /\ step' = "off" /\ host' = "stopped"
    /\ link' = "none" /\ proc' = "none" /\ peerHas' = {}
    /\ UNCHANGED <<waitPc, stateVars, signalVars, todo, inPc, outPc, frames,
                   btpWake, runs>>

-----------------------------------------------------------------------------
(* The host and its hooks.                                                 *)

HookFrame == UNCHANGED <<step, waitPc, signalVars, inPc, outPc, frames,
                         btpWake, runs>>

OnSync ==
    /\ HostFree /\ host = "started"
    /\ host' = "synced" /\ synced' = TRUE /\ todo' = {"progress"}
    /\ HookFrame
    /\ UNCHANGED <<conn_handle, failed, matter_range, services_done, c1_val,
                   c2_val, chars_done, subscribed, in_data, out_inflight, mtu,
                   link, proc, peerHas>>

\* The connection is made, to a peer that has some of the Matter service, or
\* the attempt fails.
OnConnect ==
    /\ HostFree /\ proc = "connect"
    /\ proc' = "none"
    /\ \/ /\ conn_handle' = TRUE /\ link' = "up" /\ UNCHANGED failed
          /\ peerHas' \in SUBSET {"svc", "c1", "c2"}
       \/ failed' = TRUE /\ UNCHANGED <<conn_handle, link, peerHas>>
    /\ todo' = {"progress"}
    /\ HookFrame
    /\ UNCHANGED <<synced, matter_range, services_done, c1_val, c2_val,
                   chars_done, subscribed, in_data, out_inflight, mtu, host>>

\* The link is gone, with whatever was in progress on it; the hook has not
\* run yet.
HostLinkLost ==
    /\ HostFree /\ link = "up"
    /\ link' = "lost" /\ proc' = "none"
    /\ HookFrame
    /\ UNCHANGED <<stateVars, todo, host, peerHas>>

OnDisconnect ==
    /\ Published /\ todo = {} /\ link = "lost"
    /\ link' = "none" /\ failed' = TRUE
    /\ todo' = {"progress", "in", "out"}
    /\ HookFrame
    /\ UNCHANGED <<synced, conn_handle, matter_range, services_done, c1_val,
                   c2_val, chars_done, subscribed, in_data, out_inflight, mtu,
                   host, proc, peerHas>>

OnMtu ==
    /\ HostFree /\ link = "up" /\ ~mtu
    /\ mtu' = conn_handle
    /\ HookFrame
    /\ UNCHANGED <<synced, conn_handle, failed, matter_range, services_done,
                   c1_val, c2_val, chars_done, subscribed, in_data,
                   out_inflight, todo, hostVars>>

\* Service discovery reports the Matter service if the peer has it ...
OnService ==
    /\ HostFree /\ proc = "services" /\ "svc" \in peerHas /\ ~matter_range
    /\ matter_range' = TRUE
    /\ HookFrame
    /\ UNCHANGED <<synced, conn_handle, failed, services_done, c1_val, c2_val,
                   chars_done, subscribed, in_data, out_inflight, mtu, todo,
                   hostVars>>

\* ... and then its end.
OnServicesDone ==
    /\ HostFree /\ proc = "services" /\ ("svc" \in peerHas => matter_range)
    /\ proc' = "none" /\ services_done' = TRUE /\ todo' = {"progress"}
    /\ HookFrame
    /\ UNCHANGED <<synced, conn_handle, failed, matter_range, c1_val, c2_val,
                   chars_done, subscribed, in_data, out_inflight, mtu, host,
                   link, peerHas>>

\* Characteristic discovery, likewise.
OnCharacteristic ==
    /\ HostFree /\ proc = "chars"
    /\ \/ "c1" \in peerHas /\ ~c1_val /\ c1_val' = TRUE /\ UNCHANGED c2_val
       \/ "c2" \in peerHas /\ ~c2_val /\ c2_val' = TRUE /\ UNCHANGED c1_val
    /\ HookFrame
    /\ UNCHANGED <<synced, conn_handle, failed, matter_range, services_done,
                   chars_done, subscribed, in_data, out_inflight, mtu, todo,
                   hostVars>>

OnCharsDone ==
    /\ HostFree /\ proc = "chars"
    /\ "c1" \in peerHas => c1_val
    /\ "c2" \in peerHas => c2_val
    /\ proc' = "none" /\ chars_done' = TRUE /\ todo' = {"progress"}
    /\ HookFrame
    /\ UNCHANGED <<synced, conn_handle, failed, matter_range, services_done,
                   c1_val, c2_val, subscribed, in_data, out_inflight, mtu,
                   host, link, peerHas>>

\* The CCCD write completed; the peer may have refused it.
OnSubscribed(ok) ==
    /\ HostFree /\ proc = "cccd"
    /\ proc' = "none" /\ subscribed' = ok /\ todo' = {"progress"}
    /\ HookFrame
    /\ UNCHANGED <<synced, conn_handle, failed, matter_range, services_done,
                   c1_val, c2_val, chars_done, in_data, out_inflight, mtu,
                   host, link, peerHas>>

\* Mutant: the response to a C1 write is taken for another attribute's.
OnWrittenIgnored ==
    /\ HostFree /\ proc = "write"
    /\ proc' = "none" /\ todo' = {}
    /\ HookFrame
    /\ UNCHANGED <<stateVars, host, link, peerHas>>

\* A C1 write completed, whatever its status.
OnWritten ==
    /\ HostFree /\ proc = "write"
    /\ proc' = "none" /\ out_inflight' = FALSE /\ todo' = {"out"}
    /\ HookFrame
    /\ UNCHANGED <<synced, conn_handle, failed, matter_range, services_done,
                   c1_val, c2_val, chars_done, subscribed, in_data, mtu, host,
                   link, peerHas>>

\* An indication, which the host confirms: stashed when in_data is free, else
\* dropped, as one is that is empty or cannot be read.
OnNotify ==
    /\ HostFree /\ link = "up" /\ subscribed
    /\ \/ in_data' = TRUE
       \/ ~in_data /\ UNCHANGED in_data
    /\ todo' = {"in"}
    /\ HookFrame
    /\ UNCHANGED <<synced, conn_handle, failed, matter_range, services_done,
                   c1_val, c2_val, chars_done, subscribed, out_inflight, mtu,
                   hostVars>>

\* The signals after the critical section, in this order.
TailFrame == UNCHANGED <<step, waitPc, stateVars, inPc, outPc, hostVars,
                         frames, btpWake, runs>>

\* Mutant: a signal that is lost when nobody waits for it.
TailProgressUnlatched ==
    /\ "progress" \in todo
    /\ notify_progress' = (waitPc = "wait") /\ todo' = todo \ {"progress"}
    /\ TailFrame /\ UNCHANGED <<notify_in, notify_out>>

TailProgress ==
    /\ "progress" \in todo
    /\ notify_progress' = TRUE /\ todo' = todo \ {"progress"}
    /\ TailFrame /\ UNCHANGED <<notify_in, notify_out>>

\* Mutant: likewise.
TailInUnlatched ==
    /\ "in" \in todo /\ "progress" \notin todo
    /\ notify_in' = (inPc = "wait") /\ todo' = todo \ {"in"}
    /\ TailFrame /\ UNCHANGED <<notify_progress, notify_out>>

TailIn ==
    /\ "in" \in todo /\ "progress" \notin todo
    /\ notify_in' = TRUE /\ todo' = todo \ {"in"}
    /\ TailFrame /\ UNCHANGED <<notify_progress, notify_out>>

TailOut ==
    /\ todo = {"out"}
    /\ notify_out' = TRUE /\ todo' = {}
    /\ TailFrame /\ UNCHANGED <<notify_progress, notify_in>>

HookTail == TailProgress \/ TailIn \/ TailOut

-----------------------------------------------------------------------------
(* run(): the setup.                                                       *)

RunFrame == UNCHANGED <<stateVars, notify_in, notify_out, todo, inPc, outPc,
                        host, link, peerHas, frames, btpWake, runs>>

\* The predicate run() waits for in each step.
Reached == CASE step = "sync"     -> synced
             [] step = "connect"  -> conn_handle \/ failed
             [] step = "services" -> services_done \/ failed
             [] step = "chars"    -> chars_done \/ failed
             [] step = "cccd"     -> subscribed \/ failed
             [] OTHER             -> FALSE

\* Mutant: the last wait is taken for a success.
CheckedButTheLast ==
           CASE step = "connect"  -> conn_handle
             [] step = "services" -> matter_range
             [] step = "chars"    -> c1_val /\ c2_val
             [] OTHER             -> TRUE

\* What it then checks before it goes on; without it run() returns Err.
Checked == CASE step = "connect"  -> conn_handle
             [] step = "services" -> matter_range
             [] step = "chars"    -> c1_val /\ c2_val
             [] step = "cccd"     -> ~failed
             [] OTHER             -> TRUE

After == [sync |-> "connect", connect |-> "services", services |-> "chars",
          chars |-> "cccd", cccd |-> "pumps"]

\* The driver takes the next procedure, or fails: always without a link.
Accepted == step \in {"sync", "cccd"} \/ link = "up"

\* wait_state sees its predicate: run() checks the result and starts the next
\* procedure, or the pumps, or returns Err.
Proceed ==
    /\ step \in Waits /\ waitPc = "loop" /\ Reached
    /\ \/ /\ Checked /\ Accepted
          /\ step' = After[step]
          /\ proc' = IF step = "cccd" THEN proc ELSE After[step]
       \/ /\ ~(step = "cccd" /\ Checked)
          /\ step' = "ended" /\ UNCHANGED proc
    /\ UNCHANGED <<waitPc, notify_progress>> /\ RunFrame

\* wait_state does not: it releases the lock and awaits the signal.
Park ==
    /\ step \in Waits
    /\ \/ waitPc = "loop" /\ ~Reached /\ waitPc' = "park"
       \/ waitPc = "park" /\ waitPc' = "wait"
    /\ UNCHANGED <<step, proc, notify_progress>> /\ RunFrame

Wake ==
    /\ step \in Waits /\ waitPc = "wait" /\ notify_progress
    /\ waitPc' = "loop" /\ notify_progress' = FALSE
    /\ UNCHANGED <<step, proc>> /\ RunFrame

wait_state == Proceed \/ Park \/ Wake

-----------------------------------------------------------------------------
(* run(): the pumps.                                                       *)

InFrame == UNCHANGED <<waitPc, synced, conn_handle, failed, matter_range,
                       services_done, c1_val, c2_val, chars_done, subscribed,
                       out_inflight, mtu, notify_progress, notify_out, todo,
                       outPc, hostVars, frames, btpWake, runs>>

\* A turn of process_incoming: it ends run() after a Disconnect, feeds BTP
\* (which may fail), or finds nothing.
IncomingTurn ==
    /\ step = "pumps" /\ inPc = "loop"
    /\ \/ failed /\ step' = "ended" /\ UNCHANGED <<in_data, inPc>>
       \/ ~failed /\ in_data /\ in_data' = FALSE /\ UNCHANGED <<step, inPc>>
       \/ ~failed /\ in_data /\ step' = "ended" /\ UNCHANGED <<in_data, inPc>>
       \/ ~failed /\ ~in_data /\ inPc' = "park" /\ UNCHANGED <<step, in_data>>
    /\ UNCHANGED notify_in /\ InFrame

IncomingWaits ==
    /\ step = "pumps"
    /\ \/ inPc = "park" /\ inPc' = "wait" /\ UNCHANGED notify_in
       \/ inPc = "wait" /\ notify_in /\ notify_in' = FALSE /\ inPc' = "loop"
    /\ UNCHANGED <<step, in_data>> /\ InFrame

process_incoming == IncomingTurn \/ IncomingWaits

OutFrame == UNCHANGED <<waitPc, synced, conn_handle, failed, matter_range,
                        services_done, c1_val, c2_val, chars_done, subscribed,
                        in_data, mtu, notify_progress, notify_in, todo, inPc,
                        host, link, peerHas, runs>>

\* Mutant: the previous Write Response is not waited for.
MayWriteAnyTime == ~failed /\ frames > 0

MayWrite == ~failed /\ ~out_inflight /\ frames > 0

\* A turn of process_outgoing: it ends run() after a Disconnect, writes the
\* next frame to C1 (BTP or the driver may fail, the driver always does
\* without a link), or has nothing to do.
OutgoingTurn ==
    /\ step = "pumps" /\ outPc = "loop"
    /\ \/ /\ MayWrite /\ link = "up"
          /\ frames' = frames - 1
          /\ proc' = IF proc = "write" THEN "overlap" ELSE "write"
          /\ out_inflight' = TRUE /\ UNCHANGED <<step, outPc>>
       \/ /\ failed \/ MayWrite
          /\ step' = "ended"
          /\ UNCHANGED <<frames, proc, out_inflight, outPc>>
       \/ /\ ~failed /\ ~MayWrite
          /\ outPc' = "park" /\ UNCHANGED <<step, frames, proc, out_inflight>>
    /\ UNCHANGED <<notify_out, btpWake>> /\ OutFrame

OutgoingWaits ==
    /\ step = "pumps"
    /\ \/ outPc = "park" /\ outPc' = "wait" /\ UNCHANGED <<notify_out, btpWake>>
       \/ /\ outPc = "wait" /\ notify_out /\ notify_out' = FALSE
          /\ outPc' = "loop" /\ UNCHANGED btpWake
       \/ /\ outPc = "wait" /\ btpWake /\ btpWake' = FALSE
          /\ outPc' = "loop" /\ UNCHANGED notify_out
    /\ UNCHANGED <<step, frames, proc, out_inflight>> /\ OutFrame

process_outgoing == OutgoingTurn \/ OutgoingWaits

\* The BTP engine (external) has frames queued before run() and during it.
BtpProduce ==
    /\ frames < MaxFrames
    /\ frames' = frames + 1 /\ btpWake' = TRUE
    /\ UNCHANGED <<step, waitPc, stateVars, signalVars, todo, inPc, outPc,
                   hostVars, runs>>

-----------------------------------------------------------------------------
\* The procedure the client asked for completes, or the connection breaks.
HostAnswers == \/ OnSync \/ OnConnect \/ OnService \/ OnServicesDone
               \/ OnCharacteristic \/ OnCharsDone \/ OnWritten
               \/ (\E ok \in BOOLEAN : OnSubscribed(ok))

Next == \/ Start \/ Drop
        \/ HostAnswers \/ HostLinkLost \/ OnDisconnect \/ OnMtu \/ OnNotify
        \/ HookTail \/ wait_state \/ process_incoming \/ process_outgoing
        \/ BtpProduce

Spec == Init /\ [][Next]_vars

\* The executor polls run(), and the host task completes every procedure, runs
\* its hooks to the end and reports a lost link.
Fairness == /\ WF_vars(wait_state) /\ WF_vars(process_incoming)
            /\ WF_vars(process_outgoing) /\ WF_vars(HookTail)
            /\ WF_vars(HostAnswers) /\ WF_vars(OnDisconnect)

FairSpec == Spec /\ Fairness

-----------------------------------------------------------------------------
(* Properties.                                                             *)

\* Every variable keeps its type; the host has at most one procedure of the
\* client at a time, so a C1 write is never sent over another (nimble.rs:
\* 1128-1131).
TypeOK ==
    /\ step \in Steps
    /\ waitPc \in {"loop", "park", "wait"}
    /\ \A b \in {synced, conn_handle, failed, matter_range,
                 services_done, c1_val, c2_val, chars_done, subscribed,
                 in_data, out_inflight, mtu, notify_progress, notify_in,
                 notify_out, btpWake} : b \in BOOLEAN
    /\ todo \subseteq {"progress", "in", "out"}
    /\ inPc \in {"loop", "park", "wait"} /\ outPc \in {"loop", "park", "wait"}
    /\ host \in {"stopped", "started", "synced"}
    /\ link \in {"none", "up", "lost"}
    /\ proc \in {"none", "write"} \cup Waits
    /\ peerHas \subseteq {"svc", "c1", "c2"}
    /\ frames \in 0..MaxFrames /\ runs \in 0..MaxRuns

\* The setup never sleeps through its result (wait_state, nimble.rs:
\* 1077-1084): a hook that makes the predicate true between the check and the
\* wait also wakes run() up.
ProgressNotLost ==
    step \in Waits /\ waitPc # "loop" /\ Reached
        => notify_progress \/ "progress" \in todo

\* Nor do the pumps: an indication, a free C1 or a lost link always reaches
\* them (nimble.rs:1087-1159).
PumpsNotLost ==
    step = "pumps" =>
      /\ inPc # "loop" /\ (in_data \/ failed) => notify_in \/ "in" \in todo
      /\ outPc # "loop" /\ (MayWrite \/ failed)
            => notify_out \/ btpWake \/ "out" \in todo

\* No future of run() sleeps over what a hook has told it, though every hook
\* signals only after its lock (nimble.rs:1043-1064, 1076-1159).
NothingLost == ProgressNotLost /\ PumpsNotLost

\* out_inflight is set while a C1 write is outstanding, and never stays set
\* once its response was delivered (nimble.rs:1042-1045, 1138-1144): BTP flow
\* control neither breaks nor stalls.
InflightHonest ==
    step = "pumps" =>
      /\ proc = "write" => out_inflight
      /\ out_inflight => proc = "write" \/ link = "lost" \/ failed

\* The pumps run only against a peer that has accepted the subscription and
\* whose handles are known, although Disconnect can come at any point of the
\* setup (nimble.rs:870-928).
PumpsReady == step = "pumps" => conn_handle /\ c1_val /\ c2_val /\ subscribed

\* run() waits for ever in its setup only for a CCCD write that the peer has
\* refused: in any other wait that no hook is about to end, the host still has
\* the procedure or the loss of the link to report (nimble.rs:865-921, 1076-1084).
WaitsOnlyForAnswers ==
    /\ step \in Waits /\ waitPc = "wait" /\ ~notify_progress /\ todo = {}
    /\ proc = "none" /\ link # "lost" /\ (step = "sync" => host # "started")
    => step = "cccd" /\ link = "up" /\ ~subscribed

\* run() returns once the link is lost, in every step of the setup and in the
\* pumps (nimble.rs:971-976, 1091-1093, 1122-1124).
LossEndsRun == (link = "lost" /\ step \in Waits \cup {"pumps"})
                   ~> step \in {"ended", "off"}

\* "Set once the C2 CCCD write (indication subscribe) completes"
\* (nimble.rs:726): once the CCCD write is answered, run() goes on.
SubscribeAnswered ==
    (step = "cccd" /\ proc = "none") ~> step # "cccd"
=============================================================================
