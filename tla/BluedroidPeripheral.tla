------------------------- MODULE BluedroidPeripheral -------------------------
(***************************************************************************)
(* The Matter BTP GATT peripheral on the Bluedroid host                    *)
(* (src/ble/bluedroid.rs, EspBtpGattPeripheral).                           *)
(*                                                                         *)
(* Unlike on NimBLE, the event handlers signal the pumps inside their      *)
(* critical section, so each event is one step; a C1 write is answered by  *)
(* process_incoming once BTP has taken it; the controller may keep         *)
(* advertising over a connection, so a second central can connect and is   *)
(* ignored.  External: the Bluedroid host (up, events, c1Req, cccdReq,     *)
(* inflight, adv) and the BTP engine (session, frames, btpWake).  Links    *)
(* have identities 1, 2, ...; the code sees their connection ids and       *)
(* addresses, which come round.  An MTU is named by the link that agreed   *)
(* on it.                                                                  *)
(***************************************************************************)
EXTENDS Integers, Sequences, FiniteSets

CONSTANTS
    MaxLinks,    \* bound: BLE links made during a behaviour
    MaxRuns,     \* bound: times the peripheral is created and run
    MaxFrames,   \* bound: frames the BTP engine holds ready at once
    HandleSpace  \* connection ids and addresses in use, round robin

ASSUME BluedroidAssumption ==
    /\ MaxLinks \in Nat /\ MaxRuns \in Nat /\ MaxFrames \in Nat
    /\ HandleSpace \in Nat \ {0}

VARIABLES
    life,        \* "off", "created", "running", or "failed": run() is Err
    setup,       \* how far the service is registered: see SetupStages
    advConf,     \* the advertising payload is on its way to the controller
    connection,  \* State.connection: NoConn or one Connection record
    conn_gen, btp_gen, in_data, in_trans, out_nack,       \* State
    notify_in, notify_out,                                \* latched signals
    inPc, outPc, \* the pumps: "loop", "park" or "wait"
    up,          \* links that are up
    links,       \* links made so far
    events,      \* connect and disconnect events not yet handled
    c1Req,       \* links whose C1 write request awaits its response
    cccdReq,     \* links whose CCCD write request awaits its response
    inflight,    \* indications the connection's peer has to confirm
    adv,         \* the controller advertises
    advRefused,  \* ghost: the last start or its configuration failed
    wire,        \* ghost: links whose BTP data the connection was sent
    session, frames, btpWake,                             \* the BTP engine
    runs         \* counter for the bound

codeVars == <<connection, conn_gen, btp_gen, in_data, in_trans, out_nack,
              notify_in, notify_out>>
hostVars == <<up, links, events, c1Req, cccdReq, inflight, adv, advRefused,
              wire>>
btpVars  == <<session, frames, btpWake>>
vars == <<life, setup, advConf, codeVars, inPc, outPc, hostVars, btpVars, runs>>

NoLink == 0
NoGen  == -1
NoConn == [link |-> NoLink, subscribed |-> FALSE, mtu |-> NoLink]

\* gatt_if, service_handle, c1_handle, c2_handle and c2_cccd_handle become
\* known in this order, each by the event that follows the previous call.
SetupStages == 0..5
GattIf        == 1
ServiceHandle == 2
C1            == 3
C2            == 4
Cccd          == 5

Handle(l) == l % HandleSpace
Connected == connection.link # NoLink
Occupied  == in_data # NoLink
Live      == life \in {"running", "failed"}

\* The event handlers run one at a time, in the order of the events.
Idle == Live /\ events = <<>>

Init ==
    /\ life = "off" /\ setup = 0 /\ advConf = FALSE /\ connection = NoConn /\ conn_gen = 0
    /\ btp_gen = NoGen /\ in_data = NoLink /\ in_trans = NoLink
    /\ out_nack = FALSE /\ notify_in = FALSE /\ notify_out = FALSE
    /\ inPc = "loop" /\ outPc = "loop"
    /\ up = {} /\ links = 0 /\ events = <<>> /\ c1Req = {} /\ cccdReq = {}
    /\ inflight = 0 /\ adv = FALSE /\ advRefused = FALSE /\ wire = {}
    /\ session = {} /\ frames = 0 /\ btpWake = FALSE /\ runs = 0

-----------------------------------------------------------------------------
(* The owner.                                                              *)

\* EspBtpGattContext::reset keeps conn_gen and btp_gen.
reset ==
    /\ setup' = 0 /\ connection' = NoConn /\ in_data' = NoLink
    /\ in_trans' = NoLink /\ out_nack' = FALSE
    /\ notify_in' = FALSE /\ notify_out' = FALSE
    /\ UNCHANGED <<conn_gen, btp_gen>>

New ==
    /\ life = "off" /\ runs < MaxRuns
    /\ life' = "created" /\ runs' = runs + 1
    /\ reset
    /\ UNCHANGED <<advConf, inPc, outPc, hostVars, btpVars>>

\* run subscribes the handlers and registers the app, which may fail.
Run ==
    /\ life = "created"
    /\ life' \in {"running", "failed"}
    /\ inPc' = "loop" /\ outPc' = "loop"
    /\ UNCHANGED <<setup, advConf, codeVars, hostVars, btpVars, runs>>

\* Dropping run() unsubscribes the handlers, dropping the peripheral its
\* driver: the links are gone.
Drop ==
    /\ life \in {"created", "running", "failed"}
    /\ life' = "off" /\ up' = {} /\ events' = <<>> /\ c1Req' = {}
    /\ cccdReq' = {} /\ inflight' = 0 /\ adv' = FALSE /\ advConf' = FALSE
    /\ advRefused' = FALSE /\ wire' = {}
    /\ UNCHANGED <<setup, codeVars, inPc, outPc, links, btpVars, runs>>

-----------------------------------------------------------------------------
(* The host (external).                                                    *)

HostFrame == UNCHANGED <<life, setup, advConf, codeVars, inPc, outPc,
                         advRefused, btpVars, runs>>

\* Links whose connection id or address the code may still hold.
InUse == up \cup {events[i].link : i \in DOMAIN events}

\* A central connects; the controller may or may not go on advertising.
HostConnect ==
    /\ Live /\ adv /\ links < MaxLinks
    /\ LET l == links + 1
       IN  /\ \A k \in InUse : Handle(k) # Handle(l)
           /\ links' = l /\ up' = up \cup {l}
           /\ events' = Append(events, [type |-> "connect", link |-> l])
    /\ adv' \in {adv, FALSE}
    /\ HostFrame /\ UNCHANGED <<c1Req, cccdReq, inflight, wire>>

HostDisconnect ==
    /\ Live
    /\ \E l \in up :
          /\ up' = up \ {l}
          /\ c1Req' = c1Req \ {l} /\ cccdReq' = cccdReq \ {l}
          /\ inflight' = IF l = connection.link THEN 0 ELSE inflight
          /\ wire' = wire \ {l}
          /\ events' = Append(events, [type |-> "disconnect", link |-> l])
    /\ HostFrame /\ UNCHANGED <<links, adv>>

-----------------------------------------------------------------------------
(* The event handlers.                                                     *)

EventFrame == UNCHANGED <<life, inPc, outPc, btp_gen, up, links, btpVars, runs>>

Delivered(type) == Live /\ events # <<>> /\ Head(events).type = type
                   /\ events' = Tail(events)

\* Mutant: advertising resumes only once every central is gone.
StartAdvertisingWhenAlone ==
    \E ok \in BOOLEAN : adv' = (adv \/ (ok /\ up = {})) /\ advRefused' = ~ok

\* start_advertising, which may fail; the handler only logs it.
StartAdvertising == \E ok \in BOOLEAN : adv' = (adv \/ ok) /\ advRefused' = ~ok

\* The service comes up step by step: ServiceRegistered, ServiceCreated, two
\* CharacteristicAdded, DescriptorAdded; a bad status or a failing call ends
\* the sequence.
OnSetup ==
    /\ Idle /\ setup < Cccd
    /\ setup' = setup + 1
    /\ advConf' = (advConf \/ setup' = GattIf)
    /\ EventFrame
    /\ UNCHANGED <<connection, conn_gen, in_data, in_trans, out_nack,
                   notify_in, notify_out, events, c1Req, cccdReq, inflight,
                   adv, advRefused, wire>>

\* The payload set while the service was created has reached the controller.
OnAdvertisingConfigured ==
    /\ Idle /\ advConf /\ advConf' = FALSE
    /\ StartAdvertising
    /\ EventFrame
    /\ UNCHANGED <<setup, connection, conn_gen, in_data, in_trans, out_nack,
                   notify_in, notify_out, events, c1Req, cccdReq, inflight,
                   wire>>

\* create_conn takes the first central and ignores others; the advertising
\* stops unless set_conn_params_conf or stop_advertising fails.
OnPeerConnected ==
    /\ Delivered("connect")
    /\ IF Connected
       THEN UNCHANGED <<connection, conn_gen, in_data, out_nack, notify_in, adv>>
       ELSE /\ connection' = [link |-> Head(events).link, subscribed |-> FALSE,
                             mtu |-> NoLink]
            /\ in_data' = NoLink /\ out_nack' = FALSE
            /\ conn_gen' = conn_gen + 1 /\ notify_in' = TRUE
            /\ adv' \in {adv, FALSE}
    /\ EventFrame
    /\ UNCHANGED <<setup, advConf, in_trans, notify_out, c1Req, cccdReq, inflight,
                   advRefused, wire>>

\* delete_conn starts a new generation as well.
NextGen == conn_gen + 1

\* Mutant: any peer's disconnect is the connection's.
IsPeerAny(l) == Connected

\* delete_conn finds the connection by the peer's address.
IsPeer(l) == Connected /\ Handle(connection.link) = Handle(l)

OnPeerDisconnected ==
    /\ Delivered("disconnect")
    /\ IF IsPeer(Head(events).link)
       THEN /\ connection' = NoConn /\ conn_gen' = NextGen
            /\ notify_in' = TRUE /\ wire' = {}
            /\ StartAdvertising
       ELSE UNCHANGED <<connection, conn_gen, notify_in, adv, advRefused, wire>>
    /\ EventFrame
    /\ UNCHANGED <<setup, advConf, in_data, in_trans, out_nack, notify_out, c1Req,
                   cccdReq, inflight>>

\* Mutant: any central's MTU is the connection's.
MtuForAny(l) == Connected

\* register_conn_mtu finds the connection by its id.
MtuFor(l) == Connected /\ Handle(connection.link) = Handle(l)

\* A central has exchanged the MTU; another's changes nothing.
OnMtu(l) ==
    /\ Idle /\ MtuFor(l)
    /\ connection' = [connection EXCEPT !.mtu = l]
    /\ EventFrame
    /\ UNCHANGED <<setup, advConf, conn_gen, in_data, in_trans, out_nack, notify_in,
                   notify_out, events, c1Req, cccdReq, inflight, adv, advRefused,
                   wire>>

\* A write request of a central; ATT lets it make one at a time.
Requests(l) == Idle /\ l \in up \ (c1Req \cup cccdReq)

\* Mutant: a new subscription wakes only the incoming pump.
SubscribeSignalsIn(on) == notify_out

\* A new subscription wakes process_outgoing.
SubscribeSignals(on) == notify_out \/ on

\* A C2 CCCD write is answered only if it changes the subscription, and heeded
\* only from the connected peer, once the descriptor's handle is known.
OnCccdWrite(l, on) ==
    /\ Requests(l) /\ setup >= C2
    /\ IF setup = Cccd /\ Connected /\ Handle(connection.link) = Handle(l)
          /\ connection.subscribed # on
       THEN /\ connection' = [connection EXCEPT !.subscribed = on]
            /\ notify_in' = TRUE /\ notify_out' = SubscribeSignals(on)
            /\ UNCHANGED cccdReq
       ELSE /\ cccdReq' = cccdReq \cup {l}
            /\ UNCHANGED <<connection, notify_in, notify_out>>
    /\ EventFrame
    /\ UNCHANGED <<setup, advConf, conn_gen, in_data, in_trans, out_nack, events, c1Req,
                   inflight, adv, advRefused, wire>>

\* Mutant: a C1 write is answered before process_incoming takes it.
C1RequestAnswered(l) == c1Req

\* A C1 write is answered by process_incoming.
C1Request(l) == c1Req \cup {l}

\* Mutant: the write wakes nobody.
WriteSignalsNobody == notify_in

\* A write wakes process_incoming.
WriteSignals == TRUE

\* A C1 write of the connected peer replaces in_data, with nothing if it is
\* empty; another central's is dropped without a response.
OnC1Write(l, empty) ==
    /\ Requests(l) /\ setup >= ServiceHandle
    /\ c1Req' = C1Request(l)
    /\ IF setup >= C1 /\ Connected /\ Handle(connection.link) = Handle(l)
       THEN /\ in_trans' = l /\ in_data' = IF empty THEN NoLink ELSE l
            /\ notify_in' = WriteSignals
       ELSE UNCHANGED <<in_trans, in_data, notify_in>>
    /\ EventFrame
    /\ UNCHANGED <<setup, advConf, connection, conn_gen, out_nack, notify_out, events,
                   cccdReq, inflight, adv, advRefused, wire>>

\* The peer confirms; an error status is only logged.
OnConfirm ==
    /\ Idle
    /\ inflight > 0 /\ inflight' = inflight - 1
    /\ \/ out_nack' = FALSE /\ notify_out' = TRUE
       \/ UNCHANGED <<out_nack, notify_out>>
    /\ EventFrame
    /\ UNCHANGED <<setup, advConf, connection, conn_gen, in_data, in_trans, notify_in,
                   events, c1Req, cccdReq, adv, advRefused, wire>>

-----------------------------------------------------------------------------
(* The BTP engine (external).                                              *)

BtpProduce ==
    /\ session # {} /\ frames < MaxFrames
    /\ frames' = frames + 1 /\ btpWake' = TRUE
    /\ UNCHANGED <<life, setup, advConf, codeVars, inPc, outPc, hostVars,
                   session, runs>>

-----------------------------------------------------------------------------
(* The pumps.                                                              *)

\* Mutant: reset the session once, not once per connection.
StaleOnce == btp_gen = NoGen

\* State::sync_btp: whether it resets, and the session and frames after it.
Stale == btp_gen # conn_gen
SyncedSession == IF Stale THEN {} ELSE session
SyncedFrames  == IF Stale THEN 0 ELSE frames

SyncWhen(guard) ==
    IF guard
    THEN /\ btp_gen' = conn_gen
         /\ session' = SyncedSession /\ frames' = SyncedFrames
    ELSE UNCHANGED <<btp_gen, session, frames>>

InFrame == UNCHANGED <<setup, advConf, connection, conn_gen, in_trans, out_nack,
                       notify_out, outPc, up, links, events, cccdReq, inflight,
                       adv, advRefused, wire, btpWake, runs>>

\* A packet goes to BTP, then its write is answered; each of the two may fail.
Feed ==
    /\ life = "running" /\ inPc = "loop" /\ Connected /\ Occupied
    /\ btp_gen' = conn_gen /\ frames' = SyncedFrames
    /\ session' = SyncedSession \cup {in_data}
    /\ \/ /\ in_data' = NoLink /\ c1Req' = c1Req \ {in_trans}
          /\ UNCHANGED life
       \/ life' = "failed" /\ UNCHANGED <<in_data, c1Req>>
    /\ UNCHANGED <<inPc, notify_in>> /\ InFrame

NothingIncoming ==
    /\ life = "running" /\ inPc = "loop" /\ ~(Connected /\ Occupied)
    /\ SyncWhen(Connected)
    /\ inPc' = "park"
    /\ UNCHANGED <<life, in_data, c1Req, notify_in>> /\ InFrame

IncomingWaits ==
    /\ life = "running"
    /\ \/ inPc = "park" /\ inPc' = "wait" /\ UNCHANGED notify_in
       \/ inPc = "wait" /\ notify_in /\ notify_in' = FALSE /\ inPc' = "loop"
    /\ UNCHANGED <<life, in_data, c1Req, btp_gen, session, frames>> /\ InFrame

process_incoming == Feed \/ NothingIncoming \/ IncomingWaits

OutFrame == UNCHANGED <<setup, advConf, connection, conn_gen, in_data, in_trans,
                        notify_in, inPc, up, links, events, c1Req, cccdReq,
                        adv, advRefused, runs>>

Subscribed == setup >= C2 /\ Connected /\ connection.subscribed

\* Mutant: the previous indication is not waited for.
MaySendAnyTime == Subscribed /\ SyncedFrames > 0

MaySend == Subscribed /\ ~out_nack /\ SyncedFrames > 0

\* A frame is indicated; the host drops it silently when the link is gone.
Indicate ==
    /\ life = "running" /\ outPc = "loop" /\ MaySend
    /\ btp_gen' = conn_gen /\ session' = SyncedSession
    /\ \/ /\ out_nack' = TRUE /\ frames' = SyncedFrames - 1
          /\ \/ /\ connection.link \in up
                /\ inflight' = inflight + 1
                /\ wire' = wire \cup SyncedSession
             \/ connection.link \notin up /\ UNCHANGED <<inflight, wire>>
          /\ UNCHANGED life
       \/ /\ life' = "failed" /\ frames' \in {SyncedFrames, SyncedFrames - 1}
          /\ UNCHANGED <<out_nack, inflight, wire>>
    /\ UNCHANGED <<notify_out, outPc, btpWake>> /\ OutFrame

NothingOutgoing ==
    /\ life = "running" /\ outPc = "loop" /\ ~MaySend
    /\ SyncWhen(Subscribed)
    /\ outPc' = "park"
    /\ UNCHANGED <<life, out_nack, inflight, wire, notify_out, btpWake>>
    /\ OutFrame

OutgoingWaits ==
    /\ life = "running"
    /\ \/ outPc = "park" /\ outPc' = "wait" /\ UNCHANGED <<notify_out, btpWake>>
       \/ /\ outPc = "wait" /\ notify_out /\ notify_out' = FALSE
          /\ outPc' = "loop" /\ UNCHANGED btpWake
       \/ /\ outPc = "wait" /\ btpWake /\ btpWake' = FALSE
          /\ outPc' = "loop" /\ UNCHANGED notify_out
    /\ UNCHANGED <<life, btp_gen, session, frames, out_nack, inflight, wire>>
    /\ OutFrame

process_outgoing == Indicate \/ NothingOutgoing \/ OutgoingWaits

-----------------------------------------------------------------------------
Event == \/ OnSetup \/ OnAdvertisingConfigured
         \/ OnPeerConnected \/ OnPeerDisconnected \/ OnConfirm
         \/ \E l \in up : \/ OnMtu(l)
                          \/ \E on \in BOOLEAN : OnCccdWrite(l, on)
                          \/ \E empty \in BOOLEAN : OnC1Write(l, empty)

Next == \/ New \/ Run \/ Drop \/ HostConnect \/ HostDisconnect \/ Event
        \/ BtpProduce \/ process_incoming \/ process_outgoing

Spec == Init /\ [][Next]_vars

-----------------------------------------------------------------------------
(* Properties.                                                             *)

Links == 1..MaxLinks
MaybeLinks == {NoLink} \cup Links

\* Every variable keeps its type; in particular at most one indication
\* awaits its confirmation, as ATT requires (process_outgoing,
\* bluedroid.rs:365-369).
TypeOK ==
    /\ life \in {"off", "created", "running", "failed"}
    /\ setup \in SetupStages /\ advConf \in BOOLEAN
    /\ connection \in [link : MaybeLinks, subscribed : BOOLEAN, mtu : MaybeLinks]
    /\ conn_gen \in Nat /\ btp_gen \in Nat \cup {NoGen}
    /\ in_data \in MaybeLinks /\ in_trans \in MaybeLinks
    /\ {out_nack, notify_in, notify_out, adv, advRefused, btpWake}
          \subseteq BOOLEAN
    /\ {inPc, outPc} \subseteq {"loop", "park", "wait"}
    /\ up \subseteq Links /\ links \in 0..MaxLinks
    /\ \A i \in DOMAIN events :
          events[i] \in [type : {"connect", "disconnect"}, link : Links]
    /\ c1Req \subseteq up /\ cccdReq \subseteq up /\ inflight \in 0..1
    /\ wire \subseteq Links /\ session \subseteq Links
    /\ frames \in 0..MaxFrames /\ runs \in 0..MaxRuns

\* A C1 packet waiting for BTP still has its write request open, under the
\* transaction the code remembers (write, bluedroid.rs:831-846, and
\* process_incoming, bluedroid.rs:296-316): the response BTP's acceptance
\* triggers is always the one of the packet that was accepted.
AnswersWhatItFed ==
    Connected /\ Occupied /\ connection.link \in up
        => in_data = connection.link /\ in_trans = in_data /\ in_data \in c1Req

\* BTP sizes what it takes and makes by the MTU of the very link it is carried
\* on, or by the default (register_conn_mtu, bluedroid.rs:721-734; create_conn,
\* 744): not by another central's, nor by that of an earlier link with the id.
MtuIsOwn == Connected => connection.mtu \in {NoLink, connection.link}

\* No C1 packet is left with process_incoming asleep (bluedroid.rs:323-325,
\* 842).
IncomingNotLost ==
    life = "running" /\ inPc # "loop" /\ Connected /\ Occupied => notify_in

\* process_outgoing does not sleep over a frame it could send
\* (bluedroid.rs:393-400, 544, 822): a subscription, a confirmation or BTP
\* itself has woken it.
OutgoingNotLost ==
    life = "running" /\ outPc # "loop" /\ MaySend => notify_out \/ btpWake

\* Neither pump sleeps over work: a packet, a subscription or a confirmation
\* that comes between its look and its wait wakes it (bluedroid.rs:284-402).
PumpsNotLost == IncomingNotLost /\ OutgoingNotLost

\* With every event handled, the connection is one of the links, and without
\* a connection the peripheral advertises (on_gap_event, create_conn,
\* delete_conn: bluedroid.rs:449-456, 516-523), also when a second central
\* came or stayed meanwhile, unless the controller refused.
Discoverable ==
    Idle => IF Connected THEN connection.link \in up
            ELSE setup >= GattIf /\ ~advConf => adv \/ advRefused

\* The connection ends only with its own link: the coming and going of a
\* second central does not touch it (create_conn, delete_conn:
\* bluedroid.rs:736-787).
KeepsItsPeer ==
    [][Live /\ Connected /\ connection.link \in up
          => connection'.link = connection.link \/ life' = "off"]_vars

\* The peripheral implements the transport BTP is promised (BtpTransport),
\* with a second central around: sync_btp (bluedroid.rs:113-118).
Transport == INSTANCE BtpTransport
    WITH peer <- connection.link, sent <- wire, None <- NoLink,
         Peers <- 1..MaxLinks
ImplementsTransport == Transport!Spec

=============================================================================
