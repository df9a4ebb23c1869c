-------------------------- MODULE NimbleCentralProofs --------------------------
(***************************************************************************)
(* What holds of the GATT client (NimbleCentral) for any number of runs and *)
(* of frames: its types, that no wake-up is lost, that out_inflight is      *)
(* honest, and that the pumps run against a peer that is ready.             *)
(***************************************************************************)
EXTENDS NimbleCentral, TLAPS

-----------------------------------------------------------------------------
(* The inductive invariant.                                                *)

Bools ==
    /\ synced \in BOOLEAN /\ conn_handle \in BOOLEAN /\ failed \in BOOLEAN
    /\ matter_range \in BOOLEAN /\ services_done \in BOOLEAN
    /\ c1_val \in BOOLEAN /\ c2_val \in BOOLEAN /\ chars_done \in BOOLEAN
    /\ subscribed \in BOOLEAN /\ in_data \in BOOLEAN /\ out_inflight \in BOOLEAN
    /\ mtu \in BOOLEAN /\ notify_progress \in BOOLEAN /\ notify_in \in BOOLEAN
    /\ notify_out \in BOOLEAN /\ btpWake \in BOOLEAN

Types ==
    /\ step \in Steps /\ waitPc \in {"loop", "park", "wait"}
    /\ inPc \in {"loop", "park", "wait"} /\ outPc \in {"loop", "park", "wait"}
    /\ todo \subseteq {"progress", "in", "out"}
    /\ host \in {"stopped", "started", "synced"} /\ link \in {"none", "up", "lost"}
    /\ proc \in {"none", "write"} \cup Waits /\ peerHas \subseteq {"svc", "c1", "c2"}
    /\ frames \in Nat /\ frames <= MaxFrames /\ runs \in Nat /\ runs <= MaxRuns

\* The host works on what run() waits for, or on nothing; a run that has ended
\* may leave it anything.
ProcOfStep ==
    step # "ended" => proc \in {"none", step} \/ (proc = "write" /\ step = "pumps")

\* The pumps start from their loops, with no write outstanding.
PumpsFresh ==
    step \in Waits => inPc = "loop" /\ outPc = "loop" /\ ~out_inflight

\* The subscription is the last thing the peer answers.
SubscribedLast ==
    subscribed => /\ step \notin {"sync", "connect", "services", "chars"}
                  /\ step = "cccd" => proc = "none"

\* What each step of the setup adds to what is known of the peer.
PeerKnown ==
    /\ step \in {"services", "chars", "cccd", "pumps"} => conn_handle
    /\ step \in {"cccd", "pumps"} => c1_val /\ c2_val
    /\ step = "pumps" => subscribed

Setup == ProcOfStep /\ PumpsFresh /\ SubscribedLast /\ PeerKnown

IInv == Bools /\ Types /\ Setup /\ NothingLost /\ InflightHonest

LEMMA InitIInv == Init => IInv
<1> SUFFICES ASSUME Init PROVE IInv OBVIOUS
<1> USE CentralAssumption DEF Init
<1>1. Bools BY Zenon DEF Bools
<1>2. Types BY DEF Types, Steps
<1>3. Setup
  BY DEF Setup, ProcOfStep, PumpsFresh, SubscribedLast, PeerKnown
<1>4. NothingLost /\ InflightHonest
  BY DEF NothingLost, ProgressNotLost, PumpsNotLost, InflightHonest
<1>5. QED BY <1>1, <1>2, <1>3, <1>4 DEF IInv

-----------------------------------------------------------------------------
(* Every action preserves it.                                              *)

LEMMA StartStep ==
    ASSUME IInv, Start PROVE IInv'
<1> USE CentralAssumption DEF IInv, Start, reset
<1>1. Bools'
  <2>1. /\ synced' \in BOOLEAN /\ conn_handle' \in BOOLEAN /\ failed' \in BOOLEAN
        /\ matter_range' \in BOOLEAN /\ services_done' \in BOOLEAN
        /\ c1_val' \in BOOLEAN /\ c2_val' \in BOOLEAN /\ chars_done' \in BOOLEAN
        /\ subscribed' \in BOOLEAN /\ in_data' \in BOOLEAN
        /\ out_inflight' \in BOOLEAN /\ mtu' \in BOOLEAN
        /\ notify_progress' \in BOOLEAN /\ notify_in' \in BOOLEAN
        /\ notify_out' \in BOOLEAN
    BY Zenon
  <2>2. UNCHANGED btpWake
    BY SMT
  <2> HIDE DEF Start, reset
  <2>3. QED BY <2>1, <2>2, SMT DEF Bools
<1>2. Types' BY DEF Types, Steps, Waits
<1>3. Setup'
  BY DEF Setup, ProcOfStep, PumpsFresh, SubscribedLast, PeerKnown, Waits, Types
<1>4. NothingLost'
  BY DEF NothingLost, ProgressNotLost, PumpsNotLost
<1>5. InflightHonest'
  BY DEF InflightHonest
<1>6. QED BY <1>1, <1>2, <1>3, <1>4, <1>5

LEMMA DropStep ==
    ASSUME IInv, Drop PROVE IInv'
<1> USE CentralAssumption DEF IInv, Drop
<1>1. Bools' /\ Types'
  BY SMT DEF Bools, Types, Steps, stateVars, signalVars
<1>2. Setup'
  BY DEF Setup, ProcOfStep, PumpsFresh, SubscribedLast, PeerKnown, Waits
<1>3. NothingLost'
  BY DEF NothingLost, ProgressNotLost, PumpsNotLost, Waits
<1>4. InflightHonest'
  BY DEF InflightHonest
<1>5. QED BY <1>1, <1>2, <1>3, <1>4

LEMMA OnSyncStep ==
    ASSUME IInv, OnSync PROVE IInv'
<1> USE CentralAssumption DEF IInv, OnSync, HostFree, HookFrame
<1>1. Bools' /\ Types'
  BY SMT DEF Bools, Types, signalVars
<1>2. Setup'
  BY DEF Setup, ProcOfStep, PumpsFresh, SubscribedLast, PeerKnown
<1>3. NothingLost'
  BY DEF NothingLost, ProgressNotLost, PumpsNotLost, MayWrite, signalVars
<1>4. InflightHonest'
  BY DEF InflightHonest
<1>5. QED BY <1>1, <1>2, <1>3, <1>4

LEMMA OnConnectStep ==
    ASSUME IInv, OnConnect PROVE IInv'
<1> USE CentralAssumption DEF IInv, OnConnect, HostFree, HookFrame
<1>1. Bools'
  <2>1. conn_handle' \in BOOLEAN /\ failed' \in BOOLEAN
    BY Zenon DEF Bools
  <2>2. UNCHANGED <<synced, matter_range, services_done, c1_val, c2_val, chars_done,
                    subscribed, in_data, out_inflight, mtu, notify_progress,
                    notify_in, notify_out, btpWake>>
    BY SMT DEF signalVars
  <2> HIDE DEF OnConnect, HostFree, HookFrame
  <2>3. QED BY <2>1, <2>2, SMT DEF Bools
<1>2. Types' BY DEF Types
<1>3. Setup'
  BY DEF Setup, ProcOfStep, PumpsFresh, SubscribedLast, PeerKnown
<1>4. NothingLost'
  BY DEF NothingLost, ProgressNotLost, PumpsNotLost, Setup, ProcOfStep
<1>5. InflightHonest'
  BY DEF InflightHonest
<1>6. QED BY <1>1, <1>2, <1>3, <1>4, <1>5

LEMMA HostLinkLostStep ==
    ASSUME IInv, HostLinkLost PROVE IInv'
<1> USE CentralAssumption DEF IInv, HostLinkLost, HostFree, HookFrame
<1>1. Bools' /\ Types'
  BY SMT DEF Bools, Types, stateVars, signalVars
<1>2. Setup'
  BY DEF Setup, ProcOfStep, PumpsFresh, SubscribedLast, PeerKnown, stateVars
<1>3. NothingLost'
  BY DEF NothingLost, ProgressNotLost, PumpsNotLost, Reached, MayWrite, stateVars,
         signalVars
<1>4. InflightHonest'
  BY DEF InflightHonest
<1>5. QED BY <1>1, <1>2, <1>3, <1>4

LEMMA OnDisconnectStep ==
    ASSUME IInv, OnDisconnect PROVE IInv'
<1> USE CentralAssumption DEF IInv, OnDisconnect, HookFrame
<1>1. Bools' /\ Types'
  BY SMT DEF Bools, Types, signalVars
<1>2. Setup'
  BY DEF Setup, ProcOfStep, PumpsFresh, SubscribedLast, PeerKnown
<1>3. NothingLost'
  BY DEF NothingLost, ProgressNotLost, PumpsNotLost
<1>4. InflightHonest'
  BY DEF InflightHonest
<1>5. QED BY <1>1, <1>2, <1>3, <1>4

LEMMA OnMtuStep ==
    ASSUME IInv, OnMtu PROVE IInv'
<1> USE CentralAssumption DEF IInv, OnMtu, HostFree, HookFrame
<1>1. Bools' /\ Types'
  BY SMT DEF Bools, Types, hostVars, signalVars
<1>2. Setup'
  BY DEF Setup, ProcOfStep, PumpsFresh, SubscribedLast, PeerKnown, hostVars
<1>3. NothingLost'
  BY DEF NothingLost, ProgressNotLost, PumpsNotLost, Reached, MayWrite, signalVars
<1>4. InflightHonest'
  BY DEF InflightHonest, hostVars
<1>5. QED BY <1>1, <1>2, <1>3, <1>4

LEMMA OnServiceStep ==
    ASSUME IInv, OnService PROVE IInv'
<1> USE CentralAssumption DEF IInv, OnService, HostFree, HookFrame
<1>1. Bools' /\ Types'
  BY SMT DEF Bools, Types, hostVars, signalVars
<1>2. Setup'
  BY DEF Setup, ProcOfStep, PumpsFresh, SubscribedLast, PeerKnown, hostVars
<1>3. NothingLost'
  BY DEF NothingLost, ProgressNotLost, PumpsNotLost, Reached, Setup, ProcOfStep,
         signalVars
<1>4. InflightHonest'
  BY DEF InflightHonest, hostVars
<1>5. QED BY <1>1, <1>2, <1>3, <1>4

LEMMA OnServicesDoneStep ==
    ASSUME IInv, OnServicesDone PROVE IInv'
<1> USE CentralAssumption DEF IInv, OnServicesDone, HostFree, HookFrame
<1>1. Bools' /\ Types'
  BY SMT DEF Bools, Types, signalVars
<1>2. Setup'
  BY DEF Setup, ProcOfStep, PumpsFresh, SubscribedLast, PeerKnown
<1>3. NothingLost'
  BY DEF NothingLost, ProgressNotLost, PumpsNotLost, Setup, ProcOfStep
<1>4. InflightHonest'
  BY DEF InflightHonest
<1>5. QED BY <1>1, <1>2, <1>3, <1>4

LEMMA OnCharacteristicStep ==
    ASSUME IInv, OnCharacteristic PROVE IInv'
<1> USE CentralAssumption DEF IInv, OnCharacteristic, HostFree, HookFrame
<1>1. Bools'
  <2>1. c1_val' \in BOOLEAN /\ c2_val' \in BOOLEAN
    BY Zenon DEF Bools
  <2>2. UNCHANGED <<synced, conn_handle, failed, matter_range, services_done,
                    chars_done, subscribed, in_data, out_inflight, mtu,
                    notify_progress, notify_in, notify_out, btpWake>>
    BY SMT DEF signalVars
  <2> HIDE DEF OnCharacteristic, HostFree, HookFrame
  <2>3. QED BY <2>1, <2>2, SMT DEF Bools
<1>2. Types' BY DEF Types, hostVars
<1>3. Setup'
  BY DEF Setup, ProcOfStep, PumpsFresh, SubscribedLast, PeerKnown, hostVars
<1>4. NothingLost'
  BY DEF NothingLost, ProgressNotLost, PumpsNotLost, Reached, Setup, ProcOfStep,
         signalVars
<1>5. InflightHonest'
  BY DEF InflightHonest, hostVars
<1>6. QED BY <1>1, <1>2, <1>3, <1>4, <1>5

LEMMA OnCharsDoneStep ==
    ASSUME IInv, OnCharsDone PROVE IInv'
<1> USE CentralAssumption DEF IInv, OnCharsDone, HostFree, HookFrame
<1>1. Bools' /\ Types'
  BY SMT DEF Bools, Types, signalVars
<1>2. Setup'
  BY DEF Setup, ProcOfStep, PumpsFresh, SubscribedLast, PeerKnown
<1>3. NothingLost'
  BY DEF NothingLost, ProgressNotLost, PumpsNotLost, Setup, ProcOfStep
<1>4. InflightHonest'
  BY DEF InflightHonest
<1>5. QED BY <1>1, <1>2, <1>3, <1>4

LEMMA OnSubscribedStep ==
    ASSUME IInv, NEW ok \in BOOLEAN, OnSubscribed(ok) PROVE IInv'
<1> USE CentralAssumption DEF IInv, OnSubscribed, HostFree, HookFrame
<1>1. Bools' /\ Types'
  BY SMT DEF Bools, Types, signalVars
<1>2. Setup'
  BY DEF Setup, ProcOfStep, PumpsFresh, SubscribedLast, PeerKnown
<1>3. NothingLost'
  BY DEF NothingLost, ProgressNotLost, PumpsNotLost, Setup, ProcOfStep
<1>4. InflightHonest'
  BY DEF InflightHonest
<1>5. QED BY <1>1, <1>2, <1>3, <1>4

LEMMA OnWrittenStep ==
    ASSUME IInv, OnWritten PROVE IInv'
<1> USE CentralAssumption DEF IInv, OnWritten, HostFree, HookFrame
<1>1. Bools'
  <2>1. out_inflight' \in BOOLEAN
    BY Zenon
  <2>2. UNCHANGED <<synced, conn_handle, failed, matter_range, services_done, c1_val,
                    c2_val, chars_done, subscribed, in_data, mtu, notify_progress,
                    notify_in, notify_out, btpWake>>
    BY SMT DEF signalVars
  <2> HIDE DEF OnWritten, HostFree, HookFrame
  <2>3. QED BY <2>1, <2>2, SMT DEF Bools
<1>2. Types' BY DEF Types
<1>3. Setup'
  BY DEF Setup, ProcOfStep, PumpsFresh, SubscribedLast, PeerKnown
<1>4. NothingLost'
  BY DEF NothingLost, ProgressNotLost, PumpsNotLost, Setup, ProcOfStep, Waits,
         signalVars
<1>5. InflightHonest'
  BY DEF InflightHonest
<1>6. QED BY <1>1, <1>2, <1>3, <1>4, <1>5

LEMMA OnNotifyStep ==
    ASSUME IInv, OnNotify PROVE IInv'
<1> USE CentralAssumption DEF IInv, OnNotify, HostFree, HookFrame
<1>1. Bools'
  <2>1. in_data' \in BOOLEAN
    BY Zenon DEF Bools
  <2>2. UNCHANGED <<synced, conn_handle, failed, matter_range, services_done, c1_val,
                    c2_val, chars_done, subscribed, out_inflight, mtu,
                    notify_progress, notify_in, notify_out, btpWake>>
    BY SMT DEF signalVars
  <2> HIDE DEF OnNotify, HostFree, HookFrame
  <2>3. QED BY <2>1, <2>2, SMT DEF Bools
<1>2. Types' BY DEF Types, hostVars
<1>3. Setup'
  BY DEF Setup, ProcOfStep, PumpsFresh, SubscribedLast, PeerKnown, hostVars
<1>4. NothingLost'
  BY DEF NothingLost, ProgressNotLost, PumpsNotLost, Reached, MayWrite, signalVars
<1>5. InflightHonest'
  BY DEF InflightHonest, hostVars
<1>6. QED BY <1>1, <1>2, <1>3, <1>4, <1>5

LEMMA TailProgressStep ==
    ASSUME IInv, TailProgress PROVE IInv'
<1> USE CentralAssumption DEF IInv, TailProgress, TailFrame
<1>1. Bools' /\ Types'
  BY SMT DEF Bools, Types, hostVars, stateVars
<1>2. Setup'
  BY DEF Setup, ProcOfStep, PumpsFresh, SubscribedLast, PeerKnown, hostVars, stateVars
<1>3. NothingLost'
  BY DEF NothingLost, ProgressNotLost, PumpsNotLost, MayWrite, stateVars
<1>4. InflightHonest'
  BY DEF InflightHonest, stateVars, hostVars
<1>5. QED BY <1>1, <1>2, <1>3, <1>4

LEMMA TailInStep ==
    ASSUME IInv, TailIn PROVE IInv'
<1> USE CentralAssumption DEF IInv, TailIn, TailFrame
<1>1. Bools' /\ Types'
  BY SMT DEF Bools, Types, hostVars, stateVars
<1>2. Setup'
  BY DEF Setup, ProcOfStep, PumpsFresh, SubscribedLast, PeerKnown, hostVars, stateVars
<1>3. NothingLost'
  BY DEF NothingLost, ProgressNotLost, PumpsNotLost, Reached, MayWrite, stateVars
<1>4. InflightHonest'
  BY DEF InflightHonest, stateVars, hostVars
<1>5. QED BY <1>1, <1>2, <1>3, <1>4

LEMMA TailOutStep ==
    ASSUME IInv, TailOut PROVE IInv'
<1> USE CentralAssumption DEF IInv, TailOut, TailFrame
<1>1. Bools' /\ Types'
  BY SMT DEF Bools, Types, hostVars, stateVars
<1>2. Setup'
  BY DEF Setup, ProcOfStep, PumpsFresh, SubscribedLast, PeerKnown, hostVars, stateVars
<1>3. NothingLost'
  BY DEF NothingLost, ProgressNotLost, PumpsNotLost, Reached, stateVars
<1>4. InflightHonest'
  BY DEF InflightHonest, stateVars, hostVars
<1>5. QED BY <1>1, <1>2, <1>3, <1>4

LEMMA ProceedStep ==
    ASSUME IInv, Proceed PROVE IInv'
<1> USE CentralAssumption DEF IInv, Proceed, Checked, Accepted, After, RunFrame
<1>1. Bools' /\ Types'
  BY SMT DEF Bools, Types, Steps, Waits, stateVars
<1>2. Setup'
  <2>1. UNCHANGED <<conn_handle, failed, c1_val, c2_val, subscribed, inPc, outPc,
                    out_inflight>>
    BY DEF stateVars
  <2> USE <2>1 DEF Setup, ProcOfStep, PumpsFresh, SubscribedLast, PeerKnown, Waits
  <2>2. CASE step' = "ended" BY <2>2
  <2>3. CASE step' # "ended" /\ step = "sync"
    <3>1. step' = "connect" /\ proc' = "connect" BY <2>3
    <3>2. QED BY <2>3, <3>1
  <2>4. CASE step' # "ended" /\ step = "connect"
    <3>1. step' = "services" /\ proc' = "services" /\ conn_handle BY <2>4
    <3>2. QED BY <2>4, <3>1
  <2>5. CASE step' # "ended" /\ step = "services"
    <3>1. step' = "chars" /\ proc' = "chars" BY <2>5
    <3>2. QED BY <2>5, <3>1
  <2>6. CASE step' # "ended" /\ step = "chars"
    <3>1. step' = "cccd" /\ proc' = "cccd" /\ c1_val /\ c2_val BY <2>6
    <3>2. QED BY <2>6, <3>1
  <2>7. CASE step' # "ended" /\ step = "cccd"
    <3>1. step' = "pumps" /\ proc' = proc /\ subscribed BY <2>7 DEF Reached
    <3>2. QED BY <2>7, <3>1
  <2>8. QED BY <2>2, <2>3, <2>4, <2>5, <2>6, <2>7
<1>3. NothingLost'
  BY DEF NothingLost, ProgressNotLost, PumpsNotLost, Setup, PumpsFresh
<1>4. InflightHonest'
  BY DEF InflightHonest, Setup, PumpsFresh, SubscribedLast, Reached, stateVars
<1>5. QED BY <1>1, <1>2, <1>3, <1>4

LEMMA ParkStep ==
    ASSUME IInv, Park PROVE IInv'
<1> USE CentralAssumption DEF IInv, Park, RunFrame
<1>1. Bools' /\ Types'
  BY SMT DEF Bools, Types, stateVars
<1>2. Setup'
  BY DEF Setup, ProcOfStep, PumpsFresh, SubscribedLast, PeerKnown, stateVars
<1>3. NothingLost'
  BY DEF NothingLost, ProgressNotLost, PumpsNotLost, Reached, Waits, stateVars
<1>4. InflightHonest'
  BY DEF InflightHonest, stateVars
<1>5. QED BY <1>1, <1>2, <1>3, <1>4

LEMMA WakeStep ==
    ASSUME IInv, Wake PROVE IInv'
<1> USE CentralAssumption DEF IInv, Wake, RunFrame
<1>1. Bools'
  <2>1. notify_progress' \in BOOLEAN
    BY Zenon
  <2>2. UNCHANGED <<synced, conn_handle, failed, matter_range, services_done, c1_val,
                    c2_val, chars_done, subscribed, in_data, out_inflight, mtu,
                    notify_in, notify_out, btpWake>>
    BY SMT DEF stateVars
  <2> HIDE DEF Wake, RunFrame
  <2>3. QED BY <2>1, <2>2, SMT DEF Bools
<1>2. Types' BY DEF Types
<1>3. Setup'
  BY DEF Setup, ProcOfStep, PumpsFresh, SubscribedLast, PeerKnown, stateVars
<1>4. NothingLost'
  BY DEF NothingLost, ProgressNotLost, PumpsNotLost, Waits
<1>5. InflightHonest'
  BY DEF InflightHonest, stateVars
<1>6. QED BY <1>1, <1>2, <1>3, <1>4, <1>5

LEMMA IncomingTurnStep ==
    ASSUME IInv, IncomingTurn PROVE IInv'
<1> USE CentralAssumption DEF IInv, IncomingTurn, InFrame
<1>1. Bools'
  <2>1. in_data' \in BOOLEAN
    BY Zenon DEF Bools
  <2>2. UNCHANGED <<synced, conn_handle, failed, matter_range, services_done, c1_val,
                    c2_val, chars_done, subscribed, out_inflight, mtu,
                    notify_progress, notify_in, notify_out, btpWake>>
    BY SMT
  <2> HIDE DEF IncomingTurn, InFrame
  <2>3. QED BY <2>1, <2>2, SMT DEF Bools
<1>2. Types' BY DEF Types, Steps, hostVars
<1>3. Setup'
  BY DEF Setup, ProcOfStep, PumpsFresh, SubscribedLast, PeerKnown, Waits, hostVars
<1>4. NothingLost'
  BY DEF NothingLost, ProgressNotLost, PumpsNotLost, MayWrite, Waits
<1>5. InflightHonest'
  BY DEF InflightHonest, hostVars
<1>6. QED BY <1>1, <1>2, <1>3, <1>4, <1>5

LEMMA IncomingWaitsStep ==
    ASSUME IInv, IncomingWaits PROVE IInv'
<1> USE CentralAssumption DEF IInv, IncomingWaits, InFrame
<1>1. Bools'
  <2>1. notify_in' \in BOOLEAN
    BY Zenon DEF Bools
  <2>2. UNCHANGED <<synced, conn_handle, failed, matter_range, services_done, c1_val,
                    c2_val, chars_done, subscribed, in_data, out_inflight, mtu,
                    notify_progress, notify_out, btpWake>>
    BY SMT
  <2> HIDE DEF IncomingWaits, InFrame
  <2>3. QED BY <2>1, <2>2, SMT DEF Bools
<1>2. Types' BY DEF Types, hostVars
<1>3. Setup'
  BY DEF Setup, ProcOfStep, PumpsFresh, SubscribedLast, PeerKnown, hostVars
<1>4. NothingLost'
  BY DEF NothingLost, ProgressNotLost, PumpsNotLost, MayWrite, Waits
<1>5. InflightHonest'
  BY DEF InflightHonest, hostVars
<1>6. QED BY <1>1, <1>2, <1>3, <1>4, <1>5

LEMMA OutgoingTurnStep ==
    ASSUME IInv, OutgoingTurn PROVE IInv'
<1> USE CentralAssumption DEF IInv, OutgoingTurn, MayWrite, OutFrame
<1>1. Bools'
  <2>1. out_inflight' \in BOOLEAN
    BY Zenon DEF Bools
  <2>2. UNCHANGED <<synced, conn_handle, failed, matter_range, services_done, c1_val,
                    c2_val, chars_done, subscribed, in_data, mtu, notify_progress,
                    notify_in, notify_out, btpWake>>
    BY SMT
  <2> HIDE DEF OutgoingTurn, MayWrite, OutFrame
  <2>3. QED BY <2>1, <2>2, SMT DEF Bools
<1>2. Types'
  <2>1. proc' \in {proc, "write"}
    BY DEF InflightHonest
  <2>2. frames' \in Nat /\ frames' <= MaxFrames BY DEF Types
  <2>3. step' \in Steps /\ outPc' \in {"loop", "park", "wait"} BY DEF Steps
  <2>4. UNCHANGED <<waitPc, inPc, todo, host, link, peerHas, runs>> OBVIOUS
  <2> HIDE DEF OutgoingTurn, MayWrite, OutFrame
  <2>5. QED BY <2>1, <2>2, <2>3, <2>4 DEF Types
<1>3. Setup'
  <2>1. proc' \in {proc, "write"}
    BY DEF InflightHonest
  <2>2. step = "pumps" /\ step' \in {"pumps", "ended"}
        /\ UNCHANGED <<conn_handle, c1_val, c2_val, subscribed>>
    OBVIOUS
  <2> HIDE DEF OutgoingTurn, MayWrite, OutFrame
  <2>3. QED
    BY <2>1, <2>2 DEF Setup, ProcOfStep, PumpsFresh, SubscribedLast, PeerKnown, Waits
<1>4. NothingLost'
  BY DEF NothingLost, ProgressNotLost, PumpsNotLost, Waits
<1>5. InflightHonest'
  BY DEF InflightHonest
<1>6. QED BY <1>1, <1>2, <1>3, <1>4, <1>5

LEMMA OutgoingWaitsStep ==
    ASSUME IInv, OutgoingWaits PROVE IInv'
<1> USE CentralAssumption DEF IInv, OutgoingWaits, OutFrame
<1>1. Bools'
  <2>1. notify_out' \in BOOLEAN /\ btpWake' \in BOOLEAN
    BY Zenon DEF Bools
  <2>2. UNCHANGED <<synced, conn_handle, failed, matter_range, services_done, c1_val,
                    c2_val, chars_done, subscribed, in_data, out_inflight, mtu,
                    notify_progress, notify_in>>
    BY SMT
  <2> HIDE DEF OutgoingWaits, OutFrame
  <2>3. QED BY <2>1, <2>2, SMT DEF Bools
<1>2. Types' BY DEF Types
<1>3. Setup'
  BY DEF Setup, ProcOfStep, PumpsFresh, SubscribedLast, PeerKnown
<1>4. NothingLost'
  BY DEF NothingLost, ProgressNotLost, PumpsNotLost, MayWrite, Waits
<1>5. InflightHonest'
  BY DEF InflightHonest
<1>6. QED BY <1>1, <1>2, <1>3, <1>4, <1>5

LEMMA BtpProduceStep ==
    ASSUME IInv, BtpProduce PROVE IInv'
<1> USE CentralAssumption DEF IInv, BtpProduce
<1>1. Bools' /\ Types'
  BY SMT DEF Bools, Types, hostVars, stateVars, signalVars
<1>2. Setup'
  BY DEF Setup, ProcOfStep, PumpsFresh, SubscribedLast, PeerKnown, hostVars, stateVars
<1>3. NothingLost'
  BY DEF NothingLost, ProgressNotLost, PumpsNotLost, Reached, stateVars, signalVars
<1>4. InflightHonest'
  BY DEF InflightHonest, stateVars, hostVars
<1>5. QED BY <1>1, <1>2, <1>3, <1>4

LEMMA NextStep == IInv /\ [Next]_vars => IInv'
<1> SUFFICES ASSUME IInv, [Next]_vars PROVE IInv' OBVIOUS
<1>1. CASE UNCHANGED vars
  <2> USE <1>1 DEF vars, stateVars, signalVars, hostVars, IInv
  <2>1. Bools' /\ Types' BY SMT DEF Bools, Types
  <2>2. Setup' BY DEF Setup, ProcOfStep, PumpsFresh, SubscribedLast, PeerKnown
  <2>3. NothingLost' /\ InflightHonest'
    BY DEF NothingLost, ProgressNotLost, PumpsNotLost, Reached, MayWrite,
           InflightHonest
  <2>4. QED BY <2>1, <2>2, <2>3
<1>2. CASE HostAnswers
  BY <1>2, OnSyncStep, OnConnectStep, OnServiceStep, OnServicesDoneStep,
         OnCharacteristicStep, OnCharsDoneStep, OnWrittenStep, OnSubscribedStep DEF
         HostAnswers
<1>3. CASE HookTail BY <1>3, TailProgressStep, TailInStep, TailOutStep DEF HookTail
<1>4. CASE wait_state BY <1>4, ProceedStep, ParkStep, WakeStep DEF wait_state
<1>5. CASE process_incoming \/ process_outgoing
  BY <1>5, IncomingTurnStep, IncomingWaitsStep, OutgoingTurnStep, OutgoingWaitsStep
         DEF process_incoming, process_outgoing
<1>6. CASE Start \/ Drop \/ HostLinkLost \/ OnDisconnect \/ OnMtu \/ OnNotify \/ BtpProduce
  BY <1>6, StartStep, DropStep, HostLinkLostStep, OnDisconnectStep, OnMtuStep,
         OnNotifyStep, BtpProduceStep
<1>7. QED BY <1>1, <1>2, <1>3, <1>4, <1>5, <1>6 DEF Next

-----------------------------------------------------------------------------
(* The theorems.                                                           *)

\* What is inductive holds always.
THEOREM CentralInvariance == Spec => []IInv
BY InitIInv, NextStep, PTL DEF Spec

LEMMA TypesFollow == IInv => TypeOK
<1> SUFFICES ASSUME IInv PROVE TypeOK OBVIOUS
<1>1. frames \in 0..MaxFrames /\ runs \in 0..MaxRuns
  BY CentralAssumption DEF IInv, Types
<1>2. Bools BY DEF IInv
<1>3. \A b \in {synced, conn_handle, failed, matter_range,
                services_done, c1_val, c2_val, chars_done, subscribed,
                in_data, out_inflight, mtu, notify_progress, notify_in,
                notify_out, btpWake} : b \in BOOLEAN
  BY <1>2, Zenon DEF Bools
<1>4. QED BY <1>1, <1>3, Zenon DEF IInv, Types, TypeOK

\* Every variable of the client keeps its type; in particular the host never
\* has a C1 write over another procedure (nimble.rs:1128-1131), for any number
\* of runs and of frames.
THEOREM CentralTypes == Spec => []TypeOK
BY CentralInvariance, TypesFollow, PTL

\* No wait of the setup and no pump sleeps over what a hook has told it
\* (nimble.rs:1043-1064, 1076-1159).
THEOREM WakeTheorem == Spec => []NothingLost
<1>1. IInv => NothingLost BY DEF IInv
<1>2. QED BY <1>1, CentralInvariance, PTL

\* out_inflight is set exactly while a C1 write may still be answered, or the
\* connection is gone (nimble.rs:1042-1045, 1138-1144).
THEOREM InflightTheorem == Spec => []InflightHonest
<1>1. IInv => InflightHonest BY DEF IInv
<1>2. QED BY <1>1, CentralInvariance, PTL

\* The pumps run only against a peer that has accepted the subscription and
\* whose handles are known (nimble.rs:870-928).
THEOREM ReadyTheorem == Spec => []PumpsReady
<1>1. IInv => PumpsReady BY DEF IInv, Setup, PeerKnown, PumpsReady
<1>2. QED BY <1>1, CentralInvariance, PTL

-----------------------------------------------------------------------------
(* What a waiting setup waits for.                                         *)

\* A setup whose predicate does not hold is owed an answer by the host, unless
\* that is the CCCD write, which the peer may have refused.
Owed ==
    /\ step = "sync" => synced \/ host = "started"
    /\ step = "connect" => conn_handle \/ failed \/ proc = "connect"
    /\ step = "services" => services_done \/ failed \/ proc = "services" \/ link = "lost"
    /\ step = "chars" => chars_done \/ failed \/ proc = "chars" \/ link = "lost"
    /\ step \in {"services", "chars", "cccd"} /\ link = "none" => failed
    /\ step \in {"off", "sync"} => link = "none"
    /\ step = "connect" => link = "none" \/ conn_handle

LEMMA OwedStep == IInv /\ Owed /\ [Next]_vars => Owed'
<1> SUFFICES ASSUME IInv, Owed, [Next]_vars PROVE Owed' OBVIOUS
<1>1. Setup /\ Types BY DEF IInv
<1> USE DEF Owed
<1>2. CASE Start \/ Drop
  BY <1>2, SMT DEF Start, Drop, reset
<1>3. CASE OnSync \/ OnConnect
  BY <1>1, <1>3, SMT DEF OnSync, OnConnect, HookFrame, Setup, ProcOfStep, Waits
<1>4. CASE OnService \/ OnServicesDone \/ OnCharacteristic \/ OnCharsDone
  BY <1>1, <1>4, SMT
  DEF OnService, OnServicesDone, OnCharacteristic, OnCharsDone, HookFrame, hostVars,
      Setup, ProcOfStep
<1>5. CASE OnWritten \/ \E ok \in BOOLEAN : OnSubscribed(ok)
  BY <1>1, <1>5, SMT DEF OnWritten, OnSubscribed, HookFrame, Setup, ProcOfStep
<1>6. CASE HostLinkLost \/ OnDisconnect
  BY <1>1, <1>6, SMT DEF HostLinkLost, OnDisconnect, HookFrame, stateVars, Setup, ProcOfStep
<1>7. CASE OnMtu \/ OnNotify
  BY <1>7, SMT DEF OnMtu, OnNotify, HookFrame, hostVars
<1>8. CASE HookTail
  BY <1>8, SMT DEF HookTail, TailProgress, TailIn, TailOut, TailFrame, stateVars, hostVars
<1>9. CASE Proceed
  BY <1>9, SMT DEF Proceed, RunFrame, Accepted, After, stateVars, Waits
<1>10. CASE Park \/ Wake
  BY <1>10, SMT DEF Park, Wake, RunFrame, stateVars
<1>11. CASE process_incoming
  BY <1>11, SMT DEF process_incoming, IncomingTurn, IncomingWaits, InFrame, hostVars
<1>12. CASE process_outgoing
  BY <1>12, SMT DEF process_outgoing, OutgoingTurn, OutgoingWaits, OutFrame
<1>13. CASE BtpProduce \/ UNCHANGED vars
  BY <1>13, SMT DEF BtpProduce, vars, stateVars, hostVars
<1>14. QED
  BY <1>2, <1>3, <1>4, <1>5, <1>6, <1>7, <1>8, <1>9, <1>10, <1>11, <1>12, <1>13
  DEF Next, HostAnswers, wait_state

\* run() hangs in its setup only over a refused CCCD write: every other wait is
\* ended by what the host still has to report, for any number of runs, drops and
\* lost links (nimble.rs:865-921, 1076-1084).
THEOREM WaitTheorem == Spec => []WaitsOnlyForAnswers
<1>1. Init => Owed BY DEF Init, Owed
<1>2. Spec => []Owed BY <1>1, OwedStep, CentralInvariance, PTL DEF Spec
<1>3. IInv /\ Owed => WaitsOnlyForAnswers
  <2> SUFFICES ASSUME IInv, Owed, step \in Waits, waitPc = "wait", ~notify_progress,
                      todo = {}, proc = "none", link # "lost",
                      step = "sync" => host # "started"
               PROVE  step = "cccd" /\ link = "up" /\ ~subscribed
    BY DEF WaitsOnlyForAnswers
  <2>1. ~Reached BY DEF IInv, NothingLost, ProgressNotLost
  <2>2. step = "cccd" BY <2>1 DEF Reached, Owed, Waits
  <2>3. ~subscribed /\ ~failed BY <2>1, <2>2 DEF Reached
  <2>4. QED BY <2>2, <2>3 DEF Owed, IInv, Types
<1>4. QED BY <1>2, <1>3, CentralInvariance, PTL
==============================================================================
