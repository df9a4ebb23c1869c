---------------------- MODULE BluedroidPeripheralProofs ----------------------
(***************************************************************************)
(* What holds of the peripheral on Bluedroid (BluedroidPeripheral) for any  *)
(* number of links, runs and frames and for any connection ids: its types   *)
(* and safety properties, that a second central never takes the connection  *)
(* over, and that it implements BtpTransport.                               *)
(***************************************************************************)
EXTENDS BluedroidPeripheral, TLAPS

-----------------------------------------------------------------------------
(* The inductive invariant.                                                *)

TypeFlags ==
    /\ advConf \in BOOLEAN /\ out_nack \in BOOLEAN /\ notify_in \in BOOLEAN
    /\ notify_out \in BOOLEAN /\ adv \in BOOLEAN /\ advRefused \in BOOLEAN
    /\ btpWake \in BOOLEAN

TypeCode ==
    /\ life \in {"off", "created", "running", "failed"}
    /\ setup \in Nat /\ setup <= Cccd
    /\ connection \in [link : Nat, subscribed : BOOLEAN, mtu : Nat]
    /\ conn_gen \in Nat /\ btp_gen \in Nat \cup {NoGen} /\ btp_gen <= conn_gen
    /\ in_data \in Nat /\ in_trans \in Nat
    /\ inPc \in {"loop", "park", "wait"} /\ outPc \in {"loop", "park", "wait"}
    /\ frames \in Nat /\ frames <= MaxFrames /\ runs \in Nat /\ runs <= MaxRuns

TypeEvents == events \in Seq([type : {"connect", "disconnect"}, link : Nat])

\* The links made so far.
Made == {l \in Nat : 1 <= l /\ l <= links}

TypeLinks ==
    /\ links \in Nat /\ links <= MaxLinks
    /\ connection.link \in Made \cup {NoLink} /\ in_data \in Made \cup {NoLink}
    /\ in_trans \in Made \cup {NoLink}
    /\ up \subseteq Made /\ session \subseteq Made
    /\ c1Req \subseteq up /\ cccdReq \subseteq up
    /\ inflight \in Nat /\ inflight <= 1

\* Without a live peripheral the host has no links, and a new one no connection.
HostSane ==
    /\ ~Live => up = {} /\ events = <<>> /\ wire = {} /\ inflight = 0
    /\ life = "created" => connection = NoConn /\ setup = 0

\* Every connect event is the first its link has, and followed by a disconnect
\* event unless the link is up; a disconnect event is of a link that is gone.
EventsTrackUp ==
    /\ \A i \in DOMAIN events : events[i].link \in Made
    /\ \A i, j \in DOMAIN events :
          events[i].type = "connect" /\ events[j].type = "connect" /\ i # j
              => events[i].link # events[j].link
    /\ \A i \in DOMAIN events :
          IF events[i].type = "disconnect" THEN events[i].link \notin up
          ELSE events[i].link \in up
               \/ \E j \in DOMAIN events : /\ i < j /\ events[j].type = "disconnect"
                                        /\ events[j].link = events[i].link

\* The connection is a link that is up, or whose end is about to be handled.
ConnTracked ==
    Live /\ Connected => connection.link \in up
                         \/ \E j \in DOMAIN events : /\ events[j].type = "disconnect"
                                                      /\ events[j].link = connection.link

\* The ids in use tell the links apart.
HandlesDiffer == \A k, l \in InUse : Handle(k) = Handle(l) => k = l

\* Nobody has heard of a link whose connect event is still to come.
ConnectFresh ==
    \A i \in DOMAIN events : events[i].type = "connect"
        => events[i].link \notin session /\ events[i].link # connection.link

\* The packet waiting for BTP and the MTU are the connection's, the session too
\* once synced, and only the connection's link carries indications.
SessionTracked ==
    /\ Connected /\ Occupied => in_data = connection.link
    /\ Connected => IF Stale THEN connection.link \notin session
                             ELSE session \subseteq {connection.link}
    /\ wire \subseteq {connection.link} \ {NoLink}
    /\ connection.mtu \in {NoLink, connection.link}
    /\ frames > 0 => session # {}
    /\ connection.subscribed => setup = Cccd
    /\ inflight > 0 => Connected /\ connection.link \in up /\ out_nack

\* While nobody is connected the peripheral advertises, or will, or has just
\* been connected to.
AdvTracked ==
    Live /\ ~Connected /\ setup >= GattIf /\ ~advConf
        => adv \/ advRefused \/ \E i \in DOMAIN events : events[i].type = "connect"

Types == TypeFlags /\ TypeCode /\ TypeEvents /\ TypeLinks
LinksTracked == HostSane /\ EventsTrackUp /\ ConnTracked /\ HandlesDiffer /\ ConnectFresh
IInv == /\ Types /\ LinksTracked /\ SessionTracked /\ AdvTracked
        /\ AnswersWhatItFed /\ PumpsNotLost

LEMMA InitIInv == Init => IInv
<1> SUFFICES ASSUME Init PROVE IInv OBVIOUS
<1> USE BluedroidAssumption DEF Init
<1>1. TypeFlags BY Zenon DEF TypeFlags
<1>2. TypeCode BY SMT DEF TypeCode, NoConn, NoLink, NoGen, Cccd
<1>3. TypeEvents /\ TypeLinks BY DEF TypeEvents, TypeLinks, NoConn, NoLink
<1>4. LinksTracked
  BY DEF LinksTracked, HostSane, EventsTrackUp, ConnTracked, HandlesDiffer, ConnectFresh,
         InUse, Live
<1>5. SessionTracked /\ AdvTracked
  BY DEF SessionTracked, AdvTracked, NoConn, NoLink, Connected, Live
<1>6. AnswersWhatItFed /\ PumpsNotLost
  BY DEF AnswersWhatItFed, PumpsNotLost, IncomingNotLost, OutgoingNotLost
<1>7. QED BY <1>1, <1>2, <1>3, <1>4, <1>5, <1>6 DEF IInv, Types

-----------------------------------------------------------------------------
(* The event queue.                                                        *)

GapEvent == [type : {"connect", "disconnect"}, link : Nat]

LEMMA Appended ==
    ASSUME TypeEvents, NEW e \in GapEvent, events' = Append(events, e)
    PROVE  /\ TypeEvents'
           /\ Len(events) \in Nat /\ DOMAIN events = 1..Len(events)
           /\ DOMAIN events' = 1..(Len(events) + 1)
           /\ \A i \in 1..Len(events) : events'[i] = events[i]
           /\ events'[Len(events) + 1] = e
BY DEF TypeEvents, GapEvent

LEMMA Handled ==
    ASSUME TypeEvents, events # <<>>, events' = Tail(events)
    PROVE  /\ TypeEvents'
           /\ Len(events) \in Nat /\ Len(events) > 0 /\ DOMAIN events = 1..Len(events)
           /\ DOMAIN events' = 1..(Len(events) - 1)
           /\ \A i \in DOMAIN events' : events'[i] = events[i + 1]
           /\ Head(events) = events[1] /\ events[1] \in GapEvent
<1>1. events \in Seq(GapEvent) BY DEF TypeEvents, GapEvent
<1>2. Len(events) \in Nat /\ DOMAIN events = 1..Len(events) BY <1>1
<1>3. Len(events) > 0 BY <1>1, <1>2
<1>4. Head(events) = events[1] /\ events[1] \in GapEvent BY <1>1, <1>2, <1>3
<1>5. events' \in Seq(GapEvent) BY <1>1
<1>6. Len(events') = Len(events) - 1 BY <1>1
<1>7. DOMAIN events' = 1..(Len(events) - 1) BY <1>5, <1>6
<1>8. \A i \in 1..(Len(events) - 1) : events'[i] = events[i + 1] BY <1>1, <1>3
<1>9. QED BY <1>2, <1>3, <1>4, <1>5, <1>7, <1>8 DEF TypeEvents, GapEvent

-----------------------------------------------------------------------------
(* The steps that leave the links alone.                                   *)

\* Nothing happens to the links and the events; the session may hear the
\* connection.
LEMMA SameLinks ==
    ASSUME IInv, UNCHANGED <<events, up, links>>, connection'.link = connection.link,
           session' \subseteq session \cup {connection.link},
           Connected \/ session' \subseteq session,
           Live, life' \in {"running", "failed"}
    PROVE  LinksTracked'
<1> USE DEF IInv, LinksTracked, Types
<1>1. HostSane' BY DEF HostSane, Live
<1>2. EventsTrackUp' BY DEF EventsTrackUp, Made
<1>3. ConnTracked' BY DEF ConnTracked, Connected
<1>4. HandlesDiffer' BY DEF HandlesDiffer, InUse, Handle
<1>5. ConnectFresh' BY DEF ConnectFresh
<1>6. QED BY <1>1, <1>2, <1>3, <1>4, <1>5

\* With every event handled, a central that shares the connection's id is the
\* connection's.
LEMMA PeerIsConnection ==
    ASSUME IInv, Idle, Connected
    PROVE  /\ connection.link \in up
           /\ \A l \in up : Handle(connection.link) = Handle(l) => connection.link = l
<1>1. connection.link \in up
  BY DEF IInv, LinksTracked, ConnTracked, Idle
<1>2. QED BY <1>1 DEF IInv, LinksTracked, HandlesDiffer, InUse

LEMMA OnSetupStep == ASSUME IInv, OnSetup PROVE IInv'
<1> USE BluedroidAssumption
<1>1. /\ Idle /\ setup < Cccd /\ setup' = setup + 1
      /\ UNCHANGED <<life, inPc, outPc, btp_gen, up, links, session, frames, btpWake, runs,
                     connection, conn_gen, in_data, in_trans, out_nack, notify_in,
                     notify_out, events, c1Req, cccdReq, inflight, adv, advRefused, wire>>
  BY DEF OnSetup, EventFrame, btpVars
<1>0. advConf' = (advConf \/ setup' = GattIf) BY DEF OnSetup
<1>2. advConf' \in BOOLEAN BY <1>0, Zenon
<1>3. TypeFlags' BY <1>1, <1>2 DEF IInv, Types, TypeFlags
<1>4. TypeCode' /\ TypeEvents' /\ TypeLinks'
  BY <1>1 DEF IInv, Types, TypeCode, TypeEvents, TypeLinks, Made, Cccd
<1>5. LinksTracked' BY <1>1, SameLinks DEF Idle, Live
<1>6. SessionTracked'
  BY <1>1 DEF IInv, SessionTracked, Connected, Occupied, Stale, Types, TypeCode, Cccd
<1>7. AdvTracked'
  <2>1. ~advConf' => ~advConf /\ setup' # GattIf BY <1>0
  <2>2. setup' >= GattIf /\ setup' # GattIf => setup >= GattIf
    BY <1>1 DEF IInv, Types, TypeCode, GattIf
  <2>3. QED BY <1>1, <2>1, <2>2 DEF IInv, AdvTracked, Connected, Live
<1>8. AnswersWhatItFed' BY <1>1 DEF IInv, AnswersWhatItFed, Connected, Occupied
<1>9. PumpsNotLost'
  BY <1>1 DEF IInv, SessionTracked, PumpsNotLost, IncomingNotLost, OutgoingNotLost,
              Connected, Occupied, MaySend, Subscribed, SyncedFrames, Stale, Types, TypeCode
<1>10. QED BY <1>3, <1>4, <1>5, <1>6, <1>7, <1>8, <1>9 DEF IInv, Types

LEMMA OnAdvertisingConfiguredStep == ASSUME IInv, OnAdvertisingConfigured PROVE IInv'
<1> USE BluedroidAssumption
<1>1. /\ Idle
      /\ UNCHANGED <<life, inPc, outPc, btp_gen, up, links, session, frames, btpWake, runs,
                     setup, connection, conn_gen, in_data, in_trans, out_nack, notify_in,
                     notify_out, events, c1Req, cccdReq, inflight, wire>>
  BY DEF OnAdvertisingConfigured, EventFrame, btpVars
<1>2. PICK ok \in BOOLEAN : adv' = (adv \/ ok) /\ advRefused' = ~ok
  BY DEF OnAdvertisingConfigured, StartAdvertising
<1>3. advConf' = FALSE BY DEF OnAdvertisingConfigured
<1>4. adv' \in BOOLEAN /\ advRefused' \in BOOLEAN /\ advConf' \in BOOLEAN
  BY <1>2, <1>3, Zenon
<1>5. TypeFlags' BY <1>1, <1>4 DEF IInv, Types, TypeFlags
<1>6. TypeCode' /\ TypeEvents' /\ TypeLinks'
  BY <1>1 DEF IInv, Types, TypeCode, TypeEvents, TypeLinks, Made
<1>7. LinksTracked' BY <1>1, SameLinks DEF Idle, Live
<1>8. SessionTracked' BY <1>1 DEF IInv, SessionTracked, Connected, Occupied, Stale
<1>9. adv' \/ advRefused' BY <1>2
<1>10. AdvTracked' BY <1>9 DEF AdvTracked
<1>11. AnswersWhatItFed' BY <1>1 DEF IInv, AnswersWhatItFed, Connected, Occupied
<1>12. PumpsNotLost'
  BY <1>1 DEF IInv, PumpsNotLost, IncomingNotLost, OutgoingNotLost, Connected, Occupied,
              MaySend, Subscribed, SyncedFrames, Stale
<1>13. QED BY <1>5, <1>6, <1>7, <1>8, <1>10, <1>11, <1>12 DEF IInv, Types

LEMMA OnMtuStep == ASSUME IInv, NEW l \in up, OnMtu(l) PROVE IInv'
<1> USE BluedroidAssumption
<1>1. /\ Idle /\ Connected
      /\ UNCHANGED <<life, inPc, outPc, btp_gen, up, links, session, frames, btpWake, runs,
                     setup, advConf, conn_gen, in_data, in_trans, out_nack, notify_in,
                     notify_out, events, c1Req, cccdReq, inflight, adv, advRefused, wire>>
  BY DEF OnMtu, MtuFor, EventFrame, btpVars
<1>2. l = connection.link /\ l \in Nat
  BY <1>1, PeerIsConnection DEF OnMtu, MtuFor, IInv, Types, TypeCode
<1>3. connection' = [connection EXCEPT !.mtu = l] BY DEF OnMtu
<1>4. /\ connection' \in [link : Nat, subscribed : BOOLEAN, mtu : Nat]
      /\ connection'.link = connection.link
      /\ connection'.subscribed = connection.subscribed
      /\ connection'.mtu = connection.link
  BY <1>2, <1>3 DEF IInv, Types, TypeCode
<1>5. TypeFlags' BY <1>1 DEF IInv, Types, TypeFlags
<1>6. TypeCode' BY <1>1, <1>4 DEF IInv, Types, TypeCode
<1>7. TypeEvents' /\ TypeLinks'
  BY <1>1, <1>4 DEF IInv, Types, TypeEvents, TypeLinks, Made
<1>8. LinksTracked' BY <1>1, <1>4, SameLinks DEF Idle, Live
<1>9. SessionTracked' BY <1>1, <1>4 DEF IInv, SessionTracked, Connected, Occupied, Stale
<1>10. AdvTracked' BY <1>1, <1>4 DEF IInv, AdvTracked, Connected, Live
<1>11. AnswersWhatItFed' BY <1>1, <1>4 DEF IInv, AnswersWhatItFed, Connected, Occupied
<1>12. PumpsNotLost'
  BY <1>1, <1>4 DEF IInv, PumpsNotLost, IncomingNotLost, OutgoingNotLost, Connected,
                    Occupied, MaySend, Subscribed, SyncedFrames, Stale
<1>13. QED BY <1>5, <1>6, <1>7, <1>8, <1>9, <1>10, <1>11, <1>12 DEF IInv, Types

LEMMA OnCccdWriteStep ==
    ASSUME IInv, NEW l \in up, NEW on \in BOOLEAN, OnCccdWrite(l, on) PROVE IInv'
<1> USE BluedroidAssumption
<1>1. /\ Idle /\ l \in up
      /\ UNCHANGED <<life, inPc, outPc, btp_gen, up, links, session, frames, btpWake, runs,
                     setup, advConf, conn_gen, in_data, in_trans, out_nack, events, c1Req,
                     inflight, adv, advRefused, wire>>
  BY DEF OnCccdWrite, Requests, EventFrame, btpVars
<1>2. cccdReq' \subseteq cccdReq \cup {l} BY DEF OnCccdWrite
<1>3. \/ UNCHANGED <<connection, notify_in, notify_out>>
      \/ /\ setup = Cccd /\ connection' = [connection EXCEPT !.subscribed = on]
         /\ notify_in' = TRUE /\ notify_out' = (notify_out \/ on)
  BY DEF OnCccdWrite, SubscribeSignals
<1>4. /\ connection' \in [link : Nat, subscribed : BOOLEAN, mtu : Nat]
      /\ connection'.link = connection.link /\ connection'.mtu = connection.mtu
  BY <1>3 DEF IInv, Types, TypeCode
<1>5. TypeFlags'
  <2>1. notify_in' \in BOOLEAN /\ notify_out' \in BOOLEAN
    <3>1. notify_in' = notify_in \/ notify_in' = TRUE BY <1>3
    <3>2. notify_out' = notify_out \/ notify_out' = (notify_out \/ on) BY <1>3
    <3>3. QED BY <3>1, <3>2, Zenon DEF IInv, Types, TypeFlags
  <2>2. QED BY <1>1, <2>1 DEF IInv, Types, TypeFlags
<1>6. TypeCode' /\ TypeEvents' /\ TypeLinks'
  BY <1>1, <1>2, <1>4 DEF IInv, Types, TypeCode, TypeEvents, TypeLinks, Made
<1>7. LinksTracked' BY <1>1, <1>4, SameLinks DEF Idle, Live
<1>8. SessionTracked'
  <2>1. connection'.subscribed => setup = Cccd BY <1>3 DEF IInv, SessionTracked
  <2>2. QED BY <1>1, <1>4, <2>1 DEF IInv, SessionTracked, Connected, Occupied, Stale
<1>9. AdvTracked' BY <1>1, <1>4 DEF IInv, AdvTracked, Connected, Live
<1>10. AnswersWhatItFed' BY <1>1, <1>4 DEF IInv, AnswersWhatItFed, Connected, Occupied
<1>11. PumpsNotLost'
  <2>1. CASE UNCHANGED <<connection, notify_in, notify_out>>
    BY <1>1, <2>1
    DEF IInv, PumpsNotLost, IncomingNotLost, OutgoingNotLost, Connected, Occupied,
        MaySend, Subscribed, SyncedFrames, Stale
  <2>2. CASE /\ connection' = [connection EXCEPT !.subscribed = on]
             /\ notify_in' = TRUE /\ notify_out' = (notify_out \/ on)
    <3>1. connection'.subscribed = on BY <2>2 DEF IInv, Types, TypeCode
    <3>2. IncomingNotLost' BY <2>2 DEF IncomingNotLost
    <3>3. OutgoingNotLost'
      BY <2>2, <3>1 DEF OutgoingNotLost, MaySend, Subscribed
    <3>4. QED BY <3>2, <3>3 DEF PumpsNotLost
  <2>3. QED BY <1>3, <2>1, <2>2
<1>12. QED BY <1>5, <1>6, <1>7, <1>8, <1>9, <1>10, <1>11 DEF IInv, Types

LEMMA OnC1WriteStep ==
    ASSUME IInv, NEW l \in up, NEW empty \in BOOLEAN, OnC1Write(l, empty) PROVE IInv'
<1> USE BluedroidAssumption
<1>1. /\ Idle /\ l \in up /\ c1Req' = c1Req \cup {l}
      /\ UNCHANGED <<life, inPc, outPc, btp_gen, up, links, session, frames, btpWake, runs,
                     setup, advConf, connection, conn_gen, out_nack, notify_out, events,
                     cccdReq, inflight, adv, advRefused, wire>>
  BY DEF OnC1Write, Requests, EventFrame, btpVars, C1Request
<1>2. l \in Made BY DEF IInv, Types, TypeLinks
<1>3. \/ UNCHANGED <<in_trans, in_data, notify_in>>
      \/ /\ Connected /\ l = connection.link
         /\ in_trans' = l /\ in_data' \in {NoLink, l} /\ notify_in' = TRUE
  BY <1>1, PeerIsConnection DEF OnC1Write, WriteSignals
<1>4. TypeFlags'
  <2>1. notify_in' = notify_in \/ notify_in' = TRUE BY <1>3
  <2>2. notify_in' \in BOOLEAN BY <2>1, Zenon DEF IInv, Types, TypeFlags
  <2>3. QED BY <1>1, <2>2 DEF IInv, Types, TypeFlags
<1>5. in_data' \in {in_data, NoLink, l} /\ in_trans' \in {in_trans, l} BY <1>3
<1>6. TypeCode' BY <1>1, <1>2, <1>5 DEF IInv, Types, TypeCode, NoLink, Made
<1>7. TypeEvents' /\ TypeLinks'
  BY <1>1, <1>2, <1>5 DEF IInv, Types, TypeEvents, TypeLinks, Made
<1>8. LinksTracked' BY <1>1, SameLinks DEF Idle, Live
<1>9. SessionTracked'
  BY <1>1, <1>3 DEF IInv, SessionTracked, Connected, Occupied, Stale
<1>10. AdvTracked' BY <1>1 DEF IInv, AdvTracked, Connected, Live
<1>11. AnswersWhatItFed'
  BY <1>1, <1>3 DEF IInv, AnswersWhatItFed, Connected, Occupied
<1>12. PumpsNotLost'
  BY <1>1, <1>3
  DEF IInv, PumpsNotLost, IncomingNotLost, OutgoingNotLost, Connected, Occupied,
      MaySend, Subscribed, SyncedFrames, Stale
<1>13. QED BY <1>4, <1>6, <1>7, <1>8, <1>9, <1>10, <1>11, <1>12 DEF IInv, Types

LEMMA OnConfirmStep == ASSUME IInv, OnConfirm PROVE IInv'
<1> USE BluedroidAssumption
<1>1. /\ Idle /\ inflight > 0 /\ inflight' = inflight - 1
      /\ UNCHANGED <<life, inPc, outPc, btp_gen, up, links, session, frames, btpWake, runs,
                     setup, advConf, connection, conn_gen, in_data, in_trans, notify_in,
                     events, c1Req, cccdReq, adv, advRefused, wire>>
  BY DEF OnConfirm, EventFrame, btpVars
<1>2. \/ out_nack' = FALSE /\ notify_out' = TRUE
      \/ UNCHANGED <<out_nack, notify_out>>
  BY DEF OnConfirm
<1>3. TypeFlags'
  <2>1. out_nack' = out_nack \/ out_nack' = FALSE BY <1>2
  <2>2. notify_out' = notify_out \/ notify_out' = TRUE BY <1>2
  <2>3. out_nack' \in BOOLEAN /\ notify_out' \in BOOLEAN
    BY <2>1, <2>2, Zenon DEF IInv, Types, TypeFlags
  <2>4. QED BY <1>1, <2>3 DEF IInv, Types, TypeFlags
<1>4. inflight' = 0 BY <1>1 DEF IInv, Types, TypeLinks
<1>5. TypeCode' /\ TypeEvents' /\ TypeLinks'
  BY <1>1, <1>4 DEF IInv, Types, TypeCode, TypeEvents, TypeLinks, Made
<1>6. LinksTracked' BY <1>1, SameLinks DEF Idle, Live
<1>7. SessionTracked'
  BY <1>1, <1>4 DEF IInv, SessionTracked, Connected, Occupied, Stale
<1>8. AdvTracked' BY <1>1 DEF IInv, AdvTracked, Connected, Live
<1>9. AnswersWhatItFed' BY <1>1 DEF IInv, AnswersWhatItFed, Connected, Occupied
<1>10. PumpsNotLost'
  BY <1>1, <1>2
  DEF IInv, PumpsNotLost, IncomingNotLost, OutgoingNotLost, Connected, Occupied,
      MaySend, Subscribed, SyncedFrames, Stale
<1>11. QED BY <1>3, <1>5, <1>6, <1>7, <1>8, <1>9, <1>10 DEF IInv, Types

LEMMA BtpProduceStep == ASSUME IInv, BtpProduce PROVE IInv'
<1> USE BluedroidAssumption
<1>1. /\ session # {} /\ frames < MaxFrames /\ frames' = frames + 1 /\ btpWake' = TRUE
      /\ UNCHANGED <<life, setup, advConf, connection, conn_gen, btp_gen, in_data, in_trans,
                     out_nack, notify_in, notify_out, inPc, outPc, up, links, events,
                     c1Req, cccdReq, inflight, adv, advRefused, wire, session, runs>>
  BY DEF BtpProduce, codeVars, hostVars
<1>2. btpWake' \in BOOLEAN BY <1>1, Zenon
<1>3. TypeFlags' BY <1>1, <1>2 DEF IInv, Types, TypeFlags
<1>4. TypeCode' /\ TypeEvents' /\ TypeLinks'
  BY <1>1 DEF IInv, Types, TypeCode, TypeEvents, TypeLinks, Made
<1>5. LinksTracked'
  BY <1>1 DEF IInv, LinksTracked, HostSane, EventsTrackUp, ConnTracked, HandlesDiffer,
              ConnectFresh, InUse, Handle, Made, Connected, Live
<1>6. SessionTracked' BY <1>1 DEF IInv, SessionTracked, Connected, Occupied, Stale
<1>7. AdvTracked' BY <1>1 DEF IInv, AdvTracked, Connected, Live
<1>8. AnswersWhatItFed' BY <1>1 DEF IInv, AnswersWhatItFed, Connected, Occupied
<1>9. PumpsNotLost'
  BY <1>1 DEF IInv, PumpsNotLost, IncomingNotLost, OutgoingNotLost, Connected, Occupied
<1>10. QED BY <1>3, <1>4, <1>5, <1>6, <1>7, <1>8, <1>9 DEF IInv, Types

-----------------------------------------------------------------------------
(* The pumps.                                                              *)

\* What a sync makes of generation, session and frames.
Synced == /\ btp_gen' = conn_gen
          /\ session' = SyncedSession /\ frames' = SyncedFrames

LEMMA SyncKeeps ==
    ASSUME IInv, Synced, UNCHANGED conn_gen
    PROVE  /\ session' \subseteq session /\ frames' \in Nat /\ frames' <= MaxFrames
           /\ btp_gen' \in Nat /\ ~Stale' /\ SyncedFrames' = SyncedFrames
           /\ frames' > 0 => session' # {}
           /\ Connected => session' \subseteq {connection.link}
BY BluedroidAssumption
DEF Synced, SyncedSession, SyncedFrames, Stale, IInv, Types, TypeCode, SessionTracked

\* A pump turn without a packet or a frame syncs, or leaves all as it is.
LEMMA MaybeSynced ==
    ASSUME IInv, Synced \/ UNCHANGED <<btp_gen, session, frames>>, UNCHANGED conn_gen
    PROVE  /\ session' \subseteq session /\ frames' \in Nat /\ frames' <= MaxFrames
           /\ btp_gen' \in Nat \cup {NoGen} /\ btp_gen' <= conn_gen
           /\ SyncedFrames' = SyncedFrames
           /\ frames' > 0 => session' # {}
           /\ Connected => IF Stale' THEN connection.link \notin session'
                                    ELSE session' \subseteq {connection.link}
<1>1. CASE Synced
  <2>1. btp_gen' = conn_gen /\ conn_gen \in Nat BY <1>1 DEF Synced, IInv, Types, TypeCode
  <2>2. QED BY <1>1, <2>1, SyncKeeps
<1>2. CASE UNCHANGED <<btp_gen, session, frames>>
  BY <1>2 DEF IInv, Types, TypeCode, SessionTracked, SyncedFrames, Stale
<1>3. QED BY <1>1, <1>2

LEMMA FeedStep == ASSUME IInv, Feed PROVE IInv'
<1> USE BluedroidAssumption
<1>1. /\ life = "running" /\ inPc = "loop" /\ Connected /\ Occupied
      /\ btp_gen' = conn_gen /\ frames' = SyncedFrames
      /\ session' = SyncedSession \cup {in_data}
      /\ UNCHANGED <<inPc, notify_in, setup, advConf, connection, conn_gen, in_trans,
                     out_nack, notify_out, outPc, up, links, events, cccdReq, inflight,
                     adv, advRefused, wire, btpWake, runs>>
  BY DEF Feed, InFrame
<1>2. \/ in_data' = NoLink /\ c1Req' \subseteq c1Req /\ life' = life
      \/ life' = "failed" /\ UNCHANGED <<in_data, c1Req>>
  BY DEF Feed
<1>3. in_data = connection.link BY <1>1 DEF IInv, SessionTracked
<1>4. /\ SyncedSession \subseteq {connection.link} /\ SyncedSession \subseteq session
      /\ frames' \in Nat /\ frames' <= MaxFrames /\ SyncedFrames' = SyncedFrames
      /\ btp_gen' \in Nat /\ ~Stale'
  BY <1>1 DEF SyncedSession, SyncedFrames, Stale, IInv, Types, TypeCode, SessionTracked
<1>5. session' = {connection.link} BY <1>1, <1>3, <1>4
<1>6. TypeFlags' BY <1>1 DEF IInv, Types, TypeFlags
<1>7. TypeCode' BY <1>1, <1>2, <1>4 DEF IInv, Types, TypeCode, NoLink
<1>8. TypeEvents' /\ TypeLinks'
  BY <1>1, <1>2, <1>5 DEF IInv, Types, TypeEvents, TypeLinks, Made, Connected
<1>9. life' \in {"running", "failed"} /\ Live BY <1>1, <1>2 DEF Live
<1>10. LinksTracked' BY <1>1, <1>4, <1>3, <1>9, SameLinks
<1>11. SessionTracked'
  BY <1>1, <1>2, <1>4, <1>5 DEF IInv, SessionTracked, Connected, Occupied
<1>12. AdvTracked' BY <1>1, <1>9 DEF IInv, AdvTracked, Connected, Live
<1>13. AnswersWhatItFed' BY <1>1, <1>2 DEF IInv, AnswersWhatItFed, Connected, Occupied
<1>14. PumpsNotLost'
  <2>1. IncomingNotLost' BY <1>1 DEF IncomingNotLost
  <2>2. OutgoingNotLost'
    BY <1>1, <1>2, <1>4 DEF IInv, PumpsNotLost, OutgoingNotLost, MaySend, Subscribed,
                            Connected
  <2>3. QED BY <2>1, <2>2 DEF PumpsNotLost
<1>15. QED BY <1>6, <1>7, <1>8, <1>10, <1>11, <1>12, <1>13, <1>14 DEF IInv, Types

LEMMA NothingIncomingStep == ASSUME IInv, NothingIncoming PROVE IInv'
<1> USE BluedroidAssumption
<1>1. /\ life = "running" /\ inPc = "loop" /\ ~(Connected /\ Occupied) /\ inPc' = "park"
      /\ UNCHANGED <<life, in_data, c1Req, notify_in, setup, advConf, connection, conn_gen,
                     in_trans, out_nack, notify_out, outPc, up, links, events, cccdReq,
                     inflight, adv, advRefused, wire, btpWake, runs>>
  BY DEF NothingIncoming, InFrame
<1>2. Synced \/ UNCHANGED <<btp_gen, session, frames>>
  BY DEF NothingIncoming, SyncWhen, Synced
<1>3. /\ session' \subseteq session /\ frames' \in Nat /\ frames' <= MaxFrames
      /\ btp_gen' \in Nat \cup {NoGen} /\ btp_gen' <= conn_gen
      /\ SyncedFrames' = SyncedFrames
      /\ frames' > 0 => session' # {}
      /\ Connected => IF Stale' THEN connection.link \notin session'
                               ELSE session' \subseteq {connection.link}
  BY <1>1, <1>2, MaybeSynced
<1>5. TypeFlags' BY <1>1 DEF IInv, Types, TypeFlags
<1>6. TypeCode' BY <1>1, <1>3 DEF IInv, Types, TypeCode
<1>7. TypeEvents' /\ TypeLinks'
  BY <1>1, <1>3 DEF IInv, Types, TypeEvents, TypeLinks, Made
<1>8. LinksTracked' BY <1>1, <1>3, SameLinks DEF Live
<1>9. SessionTracked' BY <1>1, <1>3 DEF IInv, SessionTracked, Connected, Occupied
<1>10. AdvTracked' BY <1>1 DEF IInv, AdvTracked, Connected, Live
<1>11. AnswersWhatItFed' BY <1>1 DEF IInv, AnswersWhatItFed, Connected, Occupied
<1>12. PumpsNotLost'
  BY <1>1, <1>3 DEF IInv, PumpsNotLost, IncomingNotLost, OutgoingNotLost, MaySend,
                    Subscribed, Connected, Occupied
<1>13. QED BY <1>5, <1>6, <1>7, <1>8, <1>9, <1>10, <1>11, <1>12 DEF IInv, Types

LEMMA IncomingWaitsStep == ASSUME IInv, IncomingWaits PROVE IInv'
<1> USE BluedroidAssumption
<1>1. /\ life = "running"
      /\ \/ inPc = "park" /\ inPc' = "wait" /\ notify_in' = notify_in
         \/ inPc' = "loop" /\ notify_in' = FALSE
      /\ UNCHANGED <<life, in_data, c1Req, btp_gen, session, frames, setup, advConf,
                     connection, conn_gen, in_trans, out_nack, notify_out, outPc, up,
                     links, events, cccdReq, inflight, adv, advRefused, wire, btpWake,
                     runs>>
  BY DEF IncomingWaits, InFrame
<1>2. notify_in' = notify_in \/ notify_in' = FALSE BY <1>1
<1>3. notify_in' \in BOOLEAN BY <1>2, Zenon DEF IInv, Types, TypeFlags
<1>4. TypeFlags' BY <1>1, <1>3 DEF IInv, Types, TypeFlags
<1>5. TypeCode' /\ TypeEvents' /\ TypeLinks'
  BY <1>1 DEF IInv, Types, TypeCode, TypeEvents, TypeLinks, Made
<1>6. LinksTracked' BY <1>1, SameLinks DEF Live
<1>7. SessionTracked' BY <1>1 DEF IInv, SessionTracked, Connected, Occupied, Stale
<1>8. AdvTracked' BY <1>1 DEF IInv, AdvTracked, Connected, Live
<1>9. AnswersWhatItFed' BY <1>1 DEF IInv, AnswersWhatItFed, Connected, Occupied
<1>10. PumpsNotLost'
  BY <1>1 DEF IInv, PumpsNotLost, IncomingNotLost, OutgoingNotLost, MaySend, Subscribed,
              SyncedFrames, Stale, Connected, Occupied
<1>11. QED BY <1>4, <1>5, <1>6, <1>7, <1>8, <1>9, <1>10 DEF IInv, Types

\* A frame goes out only in a session that has been synced to the connection.
LEMMA SendsItsOwn ==
    ASSUME IInv, MaySend
    PROVE  /\ Connected /\ ~Stale /\ session = {connection.link}
           /\ SyncedSession = session /\ SyncedFrames = frames /\ frames > 0
<1>1. Connected /\ ~Stale /\ frames > 0
  BY DEF MaySend, Subscribed, SyncedFrames
<1>2. session # {} /\ session \subseteq {connection.link}
  BY <1>1 DEF IInv, SessionTracked
<1>3. QED BY <1>1, <1>2 DEF SyncedSession, SyncedFrames

LEMMA IndicateStep == ASSUME IInv, Indicate PROVE IInv'
<1> USE BluedroidAssumption
<1>1. /\ life = "running" /\ outPc = "loop" /\ MaySend
      /\ btp_gen' = conn_gen /\ session' = SyncedSession
      /\ UNCHANGED <<notify_out, outPc, btpWake, setup, advConf, connection, conn_gen,
                     in_data, in_trans, notify_in, inPc, up, links, events, c1Req, cccdReq,
                     adv, advRefused, runs>>
  BY DEF Indicate, OutFrame
<1>2. /\ Connected /\ ~Stale /\ session = {connection.link} /\ session' = session
      /\ SyncedSession = session /\ SyncedFrames = frames /\ frames > 0
      /\ ~out_nack /\ btp_gen' = btp_gen
  BY <1>1, SendsItsOwn DEF MaySend, Stale
<1>3. \/ /\ out_nack' = TRUE /\ connection.link \in up
         /\ inflight' = inflight + 1 /\ wire' = wire \cup session /\ life' = life
      \/ /\ out_nack' = TRUE \/ out_nack' = out_nack
         /\ inflight' = inflight /\ wire' = wire
         /\ life' \in {"running", "failed"}
  BY <1>1, <1>2 DEF Indicate
<1>4. frames' \in {frames, frames - 1} BY <1>2 DEF Indicate
<1>5. inflight = 0 BY <1>2 DEF IInv, Types, TypeLinks, SessionTracked
<1>6. TypeFlags'
  <2>1. out_nack' = TRUE \/ out_nack' = out_nack BY <1>3
  <2>2. out_nack' \in BOOLEAN BY <2>1, Zenon DEF IInv, Types, TypeFlags
  <2>3. QED BY <1>1, <2>2 DEF IInv, Types, TypeFlags
<1>7. TypeCode'
  <2>1. frames' \in Nat /\ frames' <= MaxFrames
    BY <1>2, <1>4 DEF IInv, Types, TypeCode
  <2>2. life' \in {"running", "failed"} BY <1>1, <1>3
  <2>3. QED BY <1>1, <1>2, <2>1, <2>2 DEF IInv, Types, TypeCode
<1>8. TypeEvents' /\ TypeLinks'
  <2>1. inflight' \in Nat /\ inflight' <= 1 BY <1>3, <1>5
  <2>2. QED BY <1>1, <1>2, <2>1 DEF IInv, Types, TypeEvents, TypeLinks, Made
<1>9. LinksTracked' BY <1>1, <1>2, <1>3, SameLinks DEF Live
<1>10. SessionTracked'
  BY <1>1, <1>2, <1>3, <1>5 DEF IInv, SessionTracked, Connected, Occupied, Stale
<1>11. AdvTracked' BY <1>1, <1>2 DEF AdvTracked, Connected
<1>12. AnswersWhatItFed' BY <1>1 DEF IInv, AnswersWhatItFed, Connected, Occupied
<1>13. PumpsNotLost'
  BY <1>1, <1>3 DEF IInv, PumpsNotLost, IncomingNotLost, OutgoingNotLost, Connected,
                    Occupied
<1>14. QED BY <1>6, <1>7, <1>8, <1>9, <1>10, <1>11, <1>12, <1>13 DEF IInv, Types

LEMMA NothingOutgoingStep == ASSUME IInv, NothingOutgoing PROVE IInv'
<1> USE BluedroidAssumption
<1>1. /\ life = "running" /\ outPc = "loop" /\ ~MaySend /\ outPc' = "park"
      /\ UNCHANGED <<life, out_nack, inflight, wire, notify_out, btpWake, setup, advConf,
                     connection, conn_gen, in_data, in_trans, notify_in, inPc, up, links,
                     events, c1Req, cccdReq, adv, advRefused, runs>>
  BY DEF NothingOutgoing, OutFrame
<1>2. Synced \/ UNCHANGED <<btp_gen, session, frames>>
  BY DEF NothingOutgoing, SyncWhen, Synced
<1>3. /\ session' \subseteq session /\ frames' \in Nat /\ frames' <= MaxFrames
      /\ btp_gen' \in Nat \cup {NoGen} /\ btp_gen' <= conn_gen
      /\ SyncedFrames' = SyncedFrames
      /\ frames' > 0 => session' # {}
      /\ Connected => IF Stale' THEN connection.link \notin session'
                               ELSE session' \subseteq {connection.link}
  BY <1>1, <1>2, MaybeSynced
<1>5. TypeFlags' BY <1>1 DEF IInv, Types, TypeFlags
<1>6. TypeCode' BY <1>1, <1>3 DEF IInv, Types, TypeCode
<1>7. TypeEvents' /\ TypeLinks'
  BY <1>1, <1>3 DEF IInv, Types, TypeEvents, TypeLinks, Made
<1>8. LinksTracked' BY <1>1, <1>3, SameLinks DEF Live
<1>9. SessionTracked' BY <1>1, <1>3 DEF IInv, SessionTracked, Connected, Occupied
<1>10. AdvTracked' BY <1>1 DEF IInv, AdvTracked, Connected, Live
<1>11. AnswersWhatItFed' BY <1>1 DEF IInv, AnswersWhatItFed, Connected, Occupied
<1>12. PumpsNotLost'
  BY <1>1, <1>3 DEF IInv, PumpsNotLost, IncomingNotLost, OutgoingNotLost, MaySend,
                    Subscribed, Connected, Occupied
<1>13. QED BY <1>5, <1>6, <1>7, <1>8, <1>9, <1>10, <1>11, <1>12 DEF IInv, Types

LEMMA OutgoingWaitsStep == ASSUME IInv, OutgoingWaits PROVE IInv'
<1> USE BluedroidAssumption
<1>1. /\ life = "running"
      /\ \/ outPc = "park" /\ outPc' = "wait" /\ UNCHANGED <<notify_out, btpWake>>
         \/ outPc' = "loop"
      /\ UNCHANGED <<life, in_data, c1Req, btp_gen, session, frames, setup, advConf,
                     connection, conn_gen, in_trans, out_nack, notify_in, inPc, up,
                     links, events, cccdReq, inflight, adv, advRefused, wire, runs>>
  BY DEF OutgoingWaits, OutFrame
<1>2. /\ notify_out' = notify_out \/ notify_out' = FALSE
      /\ btpWake' = btpWake \/ btpWake' = FALSE
  BY DEF OutgoingWaits
<1>3. notify_out' \in BOOLEAN /\ btpWake' \in BOOLEAN
  BY <1>2, Zenon DEF IInv, Types, TypeFlags
<1>4. TypeFlags' BY <1>1, <1>3 DEF IInv, Types, TypeFlags
<1>5. TypeCode' /\ TypeEvents' /\ TypeLinks'
  BY <1>1 DEF IInv, Types, TypeCode, TypeEvents, TypeLinks, Made
<1>6. LinksTracked' BY <1>1, SameLinks DEF Live
<1>7. SessionTracked' BY <1>1 DEF IInv, SessionTracked, Connected, Occupied, Stale
<1>8. AdvTracked' BY <1>1 DEF IInv, AdvTracked, Connected, Live
<1>9. AnswersWhatItFed' BY <1>1 DEF IInv, AnswersWhatItFed, Connected, Occupied
<1>10. PumpsNotLost'
  BY <1>1 DEF IInv, PumpsNotLost, IncomingNotLost, OutgoingNotLost, MaySend, Subscribed,
              SyncedFrames, Stale, Connected, Occupied
<1>11. QED BY <1>4, <1>5, <1>6, <1>7, <1>8, <1>9, <1>10 DEF IInv, Types

-----------------------------------------------------------------------------
(* The owner.                                                              *)

LEMMA NewStep == ASSUME IInv, New PROVE IInv'
<1> USE BluedroidAssumption
<1>1. /\ life = "off" /\ life' = "created" /\ runs < MaxRuns /\ runs' = runs + 1
      /\ setup' = 0 /\ connection' = NoConn /\ in_data' = NoLink /\ in_trans' = NoLink
      /\ out_nack' = FALSE /\ notify_in' = FALSE /\ notify_out' = FALSE
      /\ UNCHANGED <<conn_gen, btp_gen, advConf, inPc, outPc, up, links, events, c1Req,
                     cccdReq, inflight, adv, advRefused, wire, session, frames, btpWake>>
  BY DEF New, reset, hostVars, btpVars
<1>2. up = {} /\ events = <<>> /\ wire = {} /\ inflight = 0
  BY <1>1 DEF IInv, LinksTracked, HostSane, Live
<1>3. out_nack' \in BOOLEAN /\ notify_in' \in BOOLEAN /\ notify_out' \in BOOLEAN
  BY <1>1, Zenon
<1>4. TypeFlags' BY <1>1, <1>3 DEF IInv, Types, TypeFlags
<1>5. NoConn \in [link : Nat, subscribed : BOOLEAN, mtu : Nat] /\ NoConn.link = NoLink
      /\ NoConn.subscribed = FALSE /\ NoConn.mtu = NoLink
  BY DEF NoConn, NoLink
<1>6. TypeCode' BY <1>1, <1>5 DEF IInv, Types, TypeCode, NoLink, Cccd
<1>7. TypeEvents' /\ TypeLinks'
  BY <1>1, <1>5 DEF IInv, Types, TypeEvents, TypeLinks, Made
<1>8. ~Live' BY <1>1 DEF Live
<1>9. LinksTracked'
  BY <1>1, <1>2, <1>8 DEF LinksTracked, HostSane, EventsTrackUp, ConnTracked, HandlesDiffer,
                          ConnectFresh, InUse
<1>10. SessionTracked'
  BY <1>1, <1>2, <1>5 DEF IInv, SessionTracked, Connected
<1>11. AdvTracked' BY <1>8 DEF AdvTracked
<1>12. AnswersWhatItFed' BY <1>1, <1>5 DEF AnswersWhatItFed, Connected
<1>13. PumpsNotLost' BY <1>1 DEF PumpsNotLost, IncomingNotLost, OutgoingNotLost
<1>14. QED BY <1>4, <1>6, <1>7, <1>9, <1>10, <1>11, <1>12, <1>13 DEF IInv, Types

LEMMA RunStep == ASSUME IInv, Run PROVE IInv'
<1> USE BluedroidAssumption
<1>1. /\ life = "created" /\ life' \in {"running", "failed"}
      /\ inPc' = "loop" /\ outPc' = "loop"
      /\ UNCHANGED <<setup, advConf, connection, conn_gen, btp_gen, in_data, in_trans,
                     out_nack, notify_in, notify_out, up, links, events, c1Req, cccdReq,
                     inflight, adv, advRefused, wire, session, frames, btpWake, runs>>
  BY DEF Run, codeVars, hostVars, btpVars
<1>2. up = {} /\ events = <<>> /\ ~Connected /\ setup = 0
  BY <1>1 DEF IInv, LinksTracked, HostSane, Live, Connected, NoConn
<1>3. TypeFlags' BY <1>1 DEF IInv, Types, TypeFlags
<1>4. TypeCode' /\ TypeEvents' /\ TypeLinks'
  BY <1>1 DEF IInv, Types, TypeCode, TypeEvents, TypeLinks, Made
<1>5. LinksTracked'
  BY <1>1, <1>2 DEF LinksTracked, HostSane, EventsTrackUp, ConnTracked, HandlesDiffer,
                    ConnectFresh, InUse, Live, Connected
<1>6. SessionTracked' BY <1>1 DEF IInv, SessionTracked, Connected, Occupied, Stale
<1>7. AdvTracked' BY <1>1, <1>2 DEF AdvTracked, GattIf
<1>8. AnswersWhatItFed' BY <1>1, <1>2 DEF AnswersWhatItFed, Connected
<1>9. PumpsNotLost' BY <1>1 DEF PumpsNotLost, IncomingNotLost, OutgoingNotLost
<1>10. QED BY <1>3, <1>4, <1>5, <1>6, <1>7, <1>8, <1>9 DEF IInv, Types

LEMMA DropStep == ASSUME IInv, Drop PROVE IInv'
<1> USE BluedroidAssumption
<1>1. /\ life' = "off" /\ up' = {} /\ events' = <<>> /\ c1Req' = {} /\ cccdReq' = {}
      /\ inflight' = 0 /\ adv' = FALSE /\ advConf' = FALSE /\ advRefused' = FALSE
      /\ wire' = {}
      /\ UNCHANGED <<setup, connection, conn_gen, btp_gen, in_data, in_trans, out_nack,
                     notify_in, notify_out, inPc, outPc, links, session, frames, btpWake,
                     runs>>
  BY DEF Drop, codeVars, btpVars
<1>2. adv' \in BOOLEAN /\ advConf' \in BOOLEAN /\ advRefused' \in BOOLEAN BY <1>1, Zenon
<1>3. TypeFlags' BY <1>1, <1>2 DEF IInv, Types, TypeFlags
<1>4. TypeCode' BY <1>1 DEF IInv, Types, TypeCode
<1>5. TypeEvents' /\ TypeLinks' BY <1>1 DEF IInv, Types, TypeEvents, TypeLinks, Made
<1>6. ~Live' BY <1>1 DEF Live
<1>7. LinksTracked'
  BY <1>1, <1>6 DEF LinksTracked, HostSane, EventsTrackUp, ConnTracked, HandlesDiffer,
                    ConnectFresh, InUse
<1>8. SessionTracked' BY <1>1 DEF IInv, SessionTracked, Connected, Occupied, Stale
<1>9. AdvTracked' BY <1>6 DEF AdvTracked
<1>10. AnswersWhatItFed' BY <1>1 DEF AnswersWhatItFed
<1>11. PumpsNotLost' BY <1>1 DEF PumpsNotLost, IncomingNotLost, OutgoingNotLost
<1>12. QED BY <1>3, <1>4, <1>5, <1>7, <1>8, <1>9, <1>10, <1>11 DEF IInv, Types

-----------------------------------------------------------------------------
(* Links come and go.                                                      *)

LEMMA HostConnectStep == ASSUME IInv, HostConnect PROVE IInv'
<1> USE BluedroidAssumption
<1> DEFINE l == links + 1
           e == [type |-> "connect", link |-> l]
<1>1. /\ Live /\ links < MaxLinks /\ links' = l /\ up' = up \cup {l}
      /\ events' = Append(events, e)
      /\ \A k \in InUse : Handle(k) # Handle(l)
      /\ UNCHANGED <<life, setup, advConf, connection, conn_gen, btp_gen, in_data, in_trans,
                     out_nack, notify_in, notify_out, inPc, outPc, advRefused, session,
                     frames, btpWake, runs, c1Req, cccdReq, inflight, wire>>
  BY DEF HostConnect, HostFrame, codeVars, btpVars
<1>2. adv' = adv \/ adv' = FALSE BY DEF HostConnect
<1>3. adv' \in BOOLEAN BY <1>2, Zenon DEF IInv, Types, TypeFlags
<1>4. links \in Nat /\ l \in Nat /\ l \notin Made /\ e \in GapEvent
      /\ Made \subseteq Made' /\ l \in Made'
  BY <1>1 DEF IInv, Types, TypeLinks, Made, GapEvent
<1>5. /\ TypeEvents' /\ Len(events) \in Nat /\ DOMAIN events = 1..Len(events)
      /\ DOMAIN events' = 1..(Len(events) + 1)
      /\ \A i \in DOMAIN events : events'[i] = events[i]
      /\ events'[Len(events) + 1] = e
  BY <1>1, <1>4, Appended DEF IInv, Types
<1>6. TypeFlags' BY <1>1, <1>3 DEF IInv, Types, TypeFlags
<1>7. TypeCode' BY <1>1 DEF IInv, Types, TypeCode
<1>8. TypeLinks'
  BY <1>1, <1>4 DEF IInv, Types, TypeLinks
<1>9. EventsTrackUp'
  <2>1. \A i \in DOMAIN events' : events'[i].link \in Made'
    BY <1>4, <1>5 DEF IInv, LinksTracked, EventsTrackUp
  <2>2. \A i \in DOMAIN events : events[i].link # l
    BY <1>4 DEF IInv, LinksTracked, EventsTrackUp
  <2>3. \A i, j \in DOMAIN events' :
          events'[i].type = "connect" /\ events'[j].type = "connect" /\ i # j
              => events'[i].link # events'[j].link
    BY <1>5, <2>2 DEF IInv, LinksTracked, EventsTrackUp
  <2>4. \A i \in DOMAIN events' :
          IF events'[i].type = "disconnect" THEN events'[i].link \notin up'
          ELSE events'[i].link \in up'
               \/ \E j \in DOMAIN events' : /\ i < j /\ events'[j].type = "disconnect"
                                             /\ events'[j].link = events'[i].link
    BY <1>1, <1>5, <2>2 DEF IInv, LinksTracked, EventsTrackUp
  <2>5. QED BY <2>1, <2>3, <2>4 DEF EventsTrackUp
<1>10. ConnTracked' BY <1>1, <1>5 DEF IInv, LinksTracked, ConnTracked, Connected, Live
<1>11. HandlesDiffer'
  <2>1. InUse' = InUse \cup {l} BY <1>1, <1>5 DEF InUse
  <2>2. QED BY <1>1, <2>1 DEF IInv, LinksTracked, HandlesDiffer, Handle
<1>12. ConnectFresh'
  BY <1>1, <1>4, <1>5 DEF IInv, LinksTracked, ConnectFresh, Types, TypeLinks, NoLink
<1>13. HostSane' BY <1>1 DEF HostSane, Live
<1>14. SessionTracked' BY <1>1 DEF IInv, SessionTracked, Connected, Occupied, Stale
<1>15. AdvTracked' BY <1>5 DEF AdvTracked
<1>16. AnswersWhatItFed'
  BY <1>1, <1>4 DEF IInv, AnswersWhatItFed, Connected, Occupied, Types, TypeLinks
<1>17. PumpsNotLost'
  BY <1>1 DEF IInv, PumpsNotLost, IncomingNotLost, OutgoingNotLost, MaySend, Subscribed,
              SyncedFrames, Stale, Connected, Occupied
<1>18. QED
  BY <1>5, <1>6, <1>7, <1>8, <1>9, <1>10, <1>11, <1>12, <1>13, <1>14, <1>15, <1>16, <1>17
  DEF IInv, Types, LinksTracked

LEMMA HostDisconnectStep == ASSUME IInv, HostDisconnect PROVE IInv'
<1> USE BluedroidAssumption
<1>1. PICK l \in up :
        /\ up' = up \ {l} /\ c1Req' = c1Req \ {l} /\ cccdReq' = cccdReq \ {l}
        /\ inflight' = IF l = connection.link THEN 0 ELSE inflight
        /\ wire' = wire \ {l}
        /\ events' = Append(events, [type |-> "disconnect", link |-> l])
  BY DEF HostDisconnect
<1> DEFINE e == [type |-> "disconnect", link |-> l]
<1>2. /\ Live
      /\ UNCHANGED <<life, setup, advConf, connection, conn_gen, btp_gen, in_data, in_trans,
                     out_nack, notify_in, notify_out, inPc, outPc, advRefused, session,
                     frames, btpWake, runs, links, adv>>
  BY DEF HostDisconnect, HostFrame, codeVars, btpVars
<1>3. l \in Made /\ e \in GapEvent /\ Made' = Made
  BY <1>2 DEF IInv, Types, TypeLinks, Made, GapEvent
<1>4. /\ TypeEvents' /\ Len(events) \in Nat /\ DOMAIN events = 1..Len(events)
      /\ DOMAIN events' = 1..(Len(events) + 1)
      /\ \A i \in DOMAIN events : events'[i] = events[i]
      /\ events'[Len(events) + 1] = e
  BY <1>1, <1>3, Appended DEF IInv, Types
<1>5. TypeFlags' BY <1>2 DEF IInv, Types, TypeFlags
<1>6. TypeCode' BY <1>2 DEF IInv, Types, TypeCode
<1>7. TypeLinks'
  BY <1>1, <1>2, <1>3 DEF IInv, Types, TypeLinks
<1>8. EventsTrackUp'
  <2>1. \A i \in DOMAIN events' : events'[i].link \in Made'
    BY <1>3, <1>4 DEF IInv, LinksTracked, EventsTrackUp
  <2>2. \A i, j \in DOMAIN events' :
          events'[i].type = "connect" /\ events'[j].type = "connect" /\ i # j
              => events'[i].link # events'[j].link
    BY <1>4 DEF IInv, LinksTracked, EventsTrackUp
  <2>3. ASSUME NEW i \in DOMAIN events'
        PROVE  IF events'[i].type = "disconnect" THEN events'[i].link \notin up'
               ELSE events'[i].link \in up'
                    \/ \E j \in DOMAIN events' :
                         /\ i < j /\ events'[j].type = "disconnect"
                         /\ events'[j].link = events'[i].link
    <3>1. CASE i = Len(events) + 1 BY <1>1, <1>4, <3>1
    <3>2. CASE i \in DOMAIN events /\ events[i].type = "disconnect"
      BY <1>1, <1>4, <3>2 DEF IInv, LinksTracked, EventsTrackUp
    <3>3. CASE i \in DOMAIN events /\ events[i].type # "disconnect"
      <4>1. CASE events[i].link \in up /\ events[i].link # l
        BY <1>1, <1>4, <3>3, <4>1
      <4>2. CASE events[i].link = l
        <5>1. /\ Len(events) + 1 \in DOMAIN events' /\ i < Len(events) + 1
              /\ events'[Len(events) + 1].type = "disconnect"
              /\ events'[Len(events) + 1].link = events'[i].link
          BY <1>4, <3>3, <4>2
        <5>2. QED BY <1>4, <3>3, <5>1
      <4>3. CASE events[i].link \notin up
        <5>1. PICK j \in DOMAIN events : /\ i < j /\ events[j].type = "disconnect"
                                          /\ events[j].link = events[i].link
          BY <3>3, <4>3 DEF IInv, LinksTracked, EventsTrackUp
        <5>2. /\ j \in DOMAIN events' /\ events'[j].type = "disconnect"
              /\ events'[j].link = events'[i].link
          BY <1>4, <3>3, <5>1
        <5>3. QED BY <1>4, <3>3, <5>1, <5>2
      <4>4. QED BY <4>1, <4>2, <4>3
    <3>4. QED BY <1>4, <3>1, <3>2, <3>3
  <2>4. QED BY <2>1, <2>2, <2>3 DEF EventsTrackUp
<1>9. ConnTracked'
  BY <1>1, <1>2, <1>4 DEF IInv, LinksTracked, ConnTracked, Connected, Live
<1>10. HandlesDiffer'
  <2>1. InUse' = InUse BY <1>1, <1>4 DEF InUse
  <2>2. QED BY <2>1 DEF IInv, LinksTracked, HandlesDiffer, Handle
<1>11. ConnectFresh' BY <1>2, <1>4 DEF IInv, LinksTracked, ConnectFresh
<1>12. HostSane' BY <1>2 DEF HostSane, Live
<1>13. SessionTracked'
  BY <1>1, <1>2 DEF IInv, SessionTracked, Connected, Occupied, Stale, Types, TypeLinks
<1>14. AdvTracked' BY <1>2, <1>4 DEF IInv, AdvTracked, Connected, Live
<1>15. AnswersWhatItFed'
  BY <1>1, <1>2 DEF IInv, AnswersWhatItFed, Connected, Occupied
<1>16. PumpsNotLost'
  BY <1>2 DEF IInv, PumpsNotLost, IncomingNotLost, OutgoingNotLost, MaySend, Subscribed,
              SyncedFrames, Stale, Connected, Occupied
<1>17. QED
  BY <1>4, <1>5, <1>6, <1>7, <1>8, <1>9, <1>10, <1>11, <1>12, <1>13, <1>14, <1>15, <1>16
  DEF IInv, Types, LinksTracked

-----------------------------------------------------------------------------
(* The handlers of these events.                                           *)

\* What is left of the queue still tracks the links.
LEMMA HandledKeeps ==
    ASSUME IInv, events # <<>>, events' = Tail(events), UNCHANGED <<up, links>>
    PROVE  EventsTrackUp' /\ HandlesDiffer'
<1>1. /\ Len(events) \in Nat /\ Len(events) > 0 /\ DOMAIN events = 1..Len(events)
      /\ DOMAIN events' = 1..(Len(events) - 1)
      /\ \A i \in DOMAIN events' : events'[i] = events[i + 1]
  BY Handled DEF IInv, Types
<1>2. \A i \in DOMAIN events' : i + 1 \in DOMAIN events BY <1>1
<1>3. \A i \in DOMAIN events' : events'[i].link \in Made'
  BY <1>1, <1>2 DEF IInv, LinksTracked, EventsTrackUp, Made
<1>4. \A i, j \in DOMAIN events' :
        events'[i].type = "connect" /\ events'[j].type = "connect" /\ i # j
            => events'[i].link # events'[j].link
  BY <1>1, <1>2 DEF IInv, LinksTracked, EventsTrackUp
<1>5. ASSUME NEW i \in DOMAIN events'
      PROVE  IF events'[i].type = "disconnect" THEN events'[i].link \notin up'
             ELSE events'[i].link \in up'
                  \/ \E j \in DOMAIN events' : /\ i < j /\ events'[j].type = "disconnect"
                                               /\ events'[j].link = events'[i].link
  <2>1. i + 1 \in DOMAIN events /\ events'[i] = events[i + 1] BY <1>1, <1>2
  <2>2. CASE events[i + 1].type = "disconnect" \/ events[i + 1].link \in up
    BY <2>1, <2>2 DEF IInv, LinksTracked, EventsTrackUp
  <2>3. CASE ~(events[i + 1].type = "disconnect" \/ events[i + 1].link \in up)
    <3>1. PICK j \in DOMAIN events : /\ i + 1 < j /\ events[j].type = "disconnect"
                                     /\ events[j].link = events[i + 1].link
      BY <2>1, <2>3 DEF IInv, LinksTracked, EventsTrackUp
    <3>2. j - 1 \in DOMAIN events' /\ i < j - 1 /\ events'[j - 1] = events[j]
      BY <1>1, <3>1
    <3>3. events'[j - 1].type = "disconnect" /\ events'[j - 1].link = events'[i].link
      BY <2>1, <3>1, <3>2
    <3>4. QED BY <2>1, <2>3, <3>2, <3>3
  <2>4. QED BY <2>2, <2>3
<1>6. EventsTrackUp' BY <1>3, <1>4, <1>5 DEF EventsTrackUp
<1>7. InUse' \subseteq InUse BY <1>1, <1>2 DEF InUse
<1>8. HandlesDiffer' BY <1>7 DEF IInv, LinksTracked, HandlesDiffer, Handle
<1>9. QED BY <1>6, <1>8

LEMMA OnPeerConnectedStep == ASSUME IInv, OnPeerConnected PROVE IInv'
<1> USE BluedroidAssumption
<1> DEFINE l == events[1].link
<1>1. /\ Live /\ events # <<>> /\ events' = Tail(events) /\ Head(events).type = "connect"
      /\ UNCHANGED <<life, inPc, outPc, btp_gen, up, links, session, frames, btpWake, runs,
                     setup, advConf, in_trans, notify_out, c1Req, cccdReq, inflight,
                     advRefused, wire>>
  BY DEF OnPeerConnected, Delivered, EventFrame, btpVars
<1>2. /\ TypeEvents' /\ Len(events) \in Nat /\ Len(events) > 0
      /\ DOMAIN events = 1..Len(events) /\ DOMAIN events' = 1..(Len(events) - 1)
      /\ \A i \in DOMAIN events' : events'[i] = events[i + 1]
      /\ Head(events) = events[1] /\ events[1].type = "connect"
  BY <1>1, Handled DEF IInv, Types
<1>3. /\ EventsTrackUp' /\ HandlesDiffer'
  BY <1>1, HandledKeeps
<1>4. \/ Connected /\ UNCHANGED <<connection, conn_gen, in_data, out_nack, notify_in, adv>>
      \/ /\ ~Connected /\ connection' = [link |-> l, subscribed |-> FALSE, mtu |-> NoLink]
         /\ in_data' = NoLink /\ out_nack' = FALSE /\ conn_gen' = conn_gen + 1
         /\ notify_in' = TRUE /\ (adv' = adv \/ adv' = FALSE)
  BY <1>2 DEF OnPeerConnected
<1>5. /\ l \in Made /\ l # NoLink /\ l \notin session
      /\ \A i \in DOMAIN events' : events'[i].type = "connect" => events'[i].link # l
      /\ l \in up \/ \E j \in DOMAIN events : /\ 1 < j /\ events[j].type = "disconnect"
                                              /\ events[j].link = l
  <2>1. 1 \in DOMAIN events BY <1>2
  <2>2. l \in Made /\ l # NoLink
    BY <2>1 DEF IInv, LinksTracked, EventsTrackUp, Made, NoLink
  <2>3. l \notin session BY <1>2, <2>1 DEF IInv, LinksTracked, ConnectFresh
  <2>4. ASSUME NEW i \in DOMAIN events', events'[i].type = "connect"
        PROVE  events'[i].link # l
    <3>1. i + 1 \in DOMAIN events /\ i + 1 # 1 /\ events'[i] = events[i + 1] BY <1>2
    <3>2. QED BY <1>2, <2>1, <2>4, <3>1 DEF IInv, LinksTracked, EventsTrackUp
  <2>5. l \in up \/ \E j \in DOMAIN events : /\ 1 < j /\ events[j].type = "disconnect"
                                             /\ events[j].link = l
    BY <1>2, <2>1 DEF IInv, LinksTracked, EventsTrackUp
  <2>6. QED BY <2>2, <2>3, <2>4, <2>5
<1>6. \/ connection' = connection
      \/ connection'.link = l /\ ~connection'.subscribed /\ in_data' = NoLink
  BY <1>4, SMT DEF NoLink
<1>7. l \in Nat BY <1>5 DEF Made
<1>8. TypeFlags'
  <2>1. /\ out_nack' = out_nack \/ out_nack' = FALSE
        /\ notify_in' = notify_in \/ notify_in' = TRUE
        /\ adv' = adv \/ adv' = FALSE
    BY <1>4
  <2>2. out_nack' \in BOOLEAN /\ notify_in' \in BOOLEAN /\ adv' \in BOOLEAN
    BY <2>1, Zenon DEF IInv, Types, TypeFlags
  <2>3. QED BY <1>1, <2>2 DEF IInv, Types, TypeFlags
<1>9. TypeCode'
  <2>1. connection' \in [link : Nat, subscribed : BOOLEAN, mtu : Nat]
    <3>1. connection \in [link : Nat, subscribed : BOOLEAN, mtu : Nat]
      BY DEF IInv, Types, TypeCode
    <3>2. \/ connection' = connection
          \/ connection' = [link |-> l, subscribed |-> FALSE, mtu |-> NoLink]
      BY <1>4
    <3>3. [link |-> l, subscribed |-> FALSE, mtu |-> NoLink]
            \in [link : Nat, subscribed : BOOLEAN, mtu : Nat]
      BY <1>7 DEF NoLink
    <3>4. QED BY <3>1, <3>2, <3>3, Zenon
  <2>2. /\ conn_gen' \in Nat /\ conn_gen <= conn_gen' /\ in_data' \in Nat
    BY <1>4 DEF IInv, Types, TypeCode, NoLink
  <2>3. QED BY <1>1, <2>1, <2>2 DEF IInv, Types, TypeCode, NoGen
<1>10. TypeLinks'
  <2>1. connection'.link \in Made \cup {NoLink} /\ in_data' \in Made \cup {NoLink}
    BY <1>4, <1>5 DEF IInv, Types, TypeLinks
  <2>2. QED BY <1>1, <2>1 DEF IInv, Types, TypeLinks, Made
<1>11. HostSane' BY <1>1 DEF HostSane, Live
<1>12. ConnTracked'
  <2>1. ASSUME NEW j \in DOMAIN events, events[j].type = "disconnect"
        PROVE  j - 1 \in DOMAIN events' /\ events'[j - 1] = events[j]
    BY <1>2, <2>1
  <2>2. connection'.link \in up
        \/ \E j \in DOMAIN events : /\ events[j].type = "disconnect"
                                    /\ events[j].link = connection'.link
    BY <1>1, <1>4, <1>5, <1>6 DEF IInv, LinksTracked, ConnTracked
  <2>3. QED BY <1>1, <2>1, <2>2 DEF ConnTracked
<1>13. ConnectFresh'
  <2>1. \A i \in DOMAIN events' : i + 1 \in DOMAIN events BY <1>2
  <2>2. QED
    BY <1>1, <1>2, <1>5, <1>6, <2>1 DEF IInv, LinksTracked, ConnectFresh
<1>14. SessionTracked'
  <2>1. CASE Connected /\ UNCHANGED <<connection, conn_gen, in_data, out_nack>>
    BY <1>1, <2>1 DEF IInv, SessionTracked, Connected, Occupied, Stale
  <2>2. CASE /\ ~Connected /\ connection' = [link |-> l, subscribed |-> FALSE, mtu |-> NoLink]
             /\ in_data' = NoLink /\ conn_gen' = conn_gen + 1
    <3>1. wire = {} /\ inflight = 0
      BY <2>2 DEF IInv, SessionTracked, Connected, Types, TypeLinks
    <3>2. Stale' BY <1>1, <2>2 DEF IInv, Types, TypeCode, Stale, NoGen
    <3>3. QED BY <1>1, <1>5, <2>2, <3>1, <3>2
              DEF IInv, SessionTracked, Connected, Occupied
  <2>3. QED BY <1>4, <2>1, <2>2
<1>15. AdvTracked'
  <2>1. Connected' BY <1>4, <1>5, <1>6 DEF Connected
  <2>2. QED BY <2>1 DEF AdvTracked
<1>16. AnswersWhatItFed' BY <1>1, <1>4 DEF IInv, AnswersWhatItFed, Connected, Occupied
<1>17. PumpsNotLost'
  <2>1. CASE UNCHANGED <<connection, conn_gen, in_data, out_nack, notify_in>>
    BY <1>1, <2>1 DEF IInv, PumpsNotLost, IncomingNotLost, OutgoingNotLost, MaySend,
                      Subscribed, SyncedFrames, Stale, Connected, Occupied
  <2>2. CASE ~connection'.subscribed /\ in_data' = NoLink
    BY <2>2 DEF PumpsNotLost, IncomingNotLost, OutgoingNotLost, MaySend, Subscribed,
                Occupied
  <2>3. QED BY <1>4, <1>6, <2>1, <2>2
<1>18. QED
  BY <1>2, <1>3, <1>8, <1>9, <1>10, <1>11, <1>12, <1>13, <1>14, <1>15, <1>16, <1>17
  DEF IInv, Types, LinksTracked

\* A disconnect event ends the connection exactly if it is the connection's.
LEMMA DisconnectOwn ==
    ASSUME IInv, events # <<>>, Live, Head(events).type = "disconnect"
    PROVE  /\ Head(events).link \notin up
           /\ IsPeer(Head(events).link) <=> Connected /\ connection.link = Head(events).link
<1>1. /\ 1 \in DOMAIN events /\ Head(events) = events[1]
  BY DEF IInv, Types, TypeEvents
<1>2. Head(events).link \notin up
  BY <1>1 DEF IInv, LinksTracked, EventsTrackUp
<1>3. Head(events).link \in InUse BY <1>1 DEF InUse
<1>4. Connected => connection.link \in InUse
  BY DEF IInv, LinksTracked, ConnTracked, InUse
<1>5. QED BY <1>2, <1>3, <1>4 DEF IsPeer, IInv, LinksTracked, HandlesDiffer

LEMMA OnPeerDisconnectedStep == ASSUME IInv, OnPeerDisconnected PROVE IInv'
<1> USE BluedroidAssumption
<1> DEFINE l == events[1].link
<1>1. /\ Live /\ events # <<>> /\ events' = Tail(events)
      /\ Head(events).type = "disconnect"
      /\ UNCHANGED <<life, inPc, outPc, btp_gen, up, links, session, frames, btpWake, runs,
                     setup, advConf, in_data, in_trans, out_nack, notify_out, c1Req,
                     cccdReq, inflight>>
  BY DEF OnPeerDisconnected, Delivered, EventFrame, btpVars
<1>2. /\ TypeEvents' /\ Len(events) \in Nat /\ Len(events) > 0
      /\ DOMAIN events = 1..Len(events) /\ DOMAIN events' = 1..(Len(events) - 1)
      /\ \A i \in DOMAIN events' : events'[i] = events[i + 1]
      /\ Head(events) = events[1] /\ events[1].type = "disconnect"
  BY <1>1, Handled DEF IInv, Types
<1>3. /\ EventsTrackUp' /\ HandlesDiffer'
  BY <1>1, HandledKeeps
<1>4. l \notin up /\ (IsPeer(l) <=> Connected /\ connection.link = l)
  BY <1>1, <1>2, DisconnectOwn
<1>5. \/ /\ Connected /\ connection.link = l
         /\ connection' = NoConn /\ conn_gen' = conn_gen + 1
         /\ notify_in' = TRUE /\ wire' = {}
         /\ \E ok \in BOOLEAN : adv' = (adv \/ ok) /\ advRefused' = ~ok
      \/ /\ ~(Connected /\ connection.link = l)
         /\ UNCHANGED <<connection, conn_gen, notify_in, adv, advRefused, wire>>
  BY <1>2, <1>4 DEF OnPeerDisconnected, NextGen, StartAdvertising
<1>6. NoConn \in [link : Nat, subscribed : BOOLEAN, mtu : Nat] /\ NoConn.link = NoLink
      /\ NoConn.subscribed = FALSE /\ NoConn.mtu = NoLink
  BY DEF NoConn, NoLink
<1>7. TypeFlags'
  <2>1. CASE UNCHANGED <<notify_in, adv, advRefused>>
    BY <1>1, <2>1 DEF IInv, Types, TypeFlags
  <2>2. CASE /\ notify_in' = TRUE
             /\ \E ok \in BOOLEAN : adv' = (adv \/ ok) /\ advRefused' = ~ok
    <3>1. notify_in' \in BOOLEAN /\ adv' \in BOOLEAN /\ advRefused' \in BOOLEAN
      BY <2>2, Zenon
    <3>2. QED BY <1>1, <3>1 DEF IInv, Types, TypeFlags
  <2>3. QED BY <1>5, <2>1, <2>2
<1>8. TypeCode' BY <1>1, <1>5, <1>6 DEF IInv, Types, TypeCode
<1>9. TypeLinks' BY <1>1, <1>5, <1>6 DEF IInv, Types, TypeLinks, Made
<1>10. HostSane' BY <1>1 DEF HostSane, Live
<1>11. ConnTracked'
  <2>1. CASE connection' = NoConn BY <2>1, <1>6 DEF ConnTracked, Connected
  <2>2. CASE ~(Connected /\ connection.link = l) /\ connection' = connection
    <3>1. ASSUME NEW j \in DOMAIN events, events[j].link = connection.link, Connected
          PROVE  j - 1 \in DOMAIN events' /\ events'[j - 1] = events[j]
      BY <1>2, <2>2, <3>1
    <3>2. QED BY <1>1, <2>2, <3>1 DEF IInv, LinksTracked, ConnTracked, Connected
  <2>3. QED BY <1>5, <2>1, <2>2
<1>12. ConnectFresh'
  <2>1. \A i \in DOMAIN events' : i + 1 \in DOMAIN events BY <1>2
  <2>2. \A i \in DOMAIN events : events[i].link # NoLink
    BY DEF IInv, LinksTracked, EventsTrackUp, Made, NoLink
  <2>3. connection'.link \in {connection.link, NoLink} BY <1>5, <1>6
  <2>4. QED BY <1>1, <1>2, <2>1, <2>2, <2>3 DEF IInv, LinksTracked, ConnectFresh
<1>13. SessionTracked'
  <2>1. CASE UNCHANGED <<connection, conn_gen, wire>>
    BY <1>1, <2>1 DEF IInv, SessionTracked, Connected, Occupied, Stale
  <2>2. CASE connection' = NoConn /\ wire' = {} /\ connection.link = l
    <3>1. inflight = 0 BY <1>4, <2>2 DEF IInv, SessionTracked, Types, TypeLinks
    <3>2. QED BY <1>1, <1>6, <2>2, <3>1 DEF IInv, SessionTracked, Connected
  <2>3. QED BY <1>5, <2>1, <2>2
<1>14. AdvTracked'
  <2>1. CASE UNCHANGED <<connection, adv, advRefused>>
    <3>1. ASSUME NEW i \in DOMAIN events, events[i].type = "connect"
          PROVE  i - 1 \in DOMAIN events' /\ events'[i - 1] = events[i]
      BY <1>2, <3>1
    <3>2. QED BY <1>1, <2>1, <3>1 DEF IInv, AdvTracked, Connected, Live
  <2>2. CASE \E ok \in BOOLEAN : adv' = (adv \/ ok) /\ advRefused' = ~ok
    BY <2>2 DEF AdvTracked
  <2>3. QED BY <1>5, <2>1, <2>2
<1>15. AnswersWhatItFed'
  BY <1>1, <1>5, <1>6 DEF IInv, AnswersWhatItFed, Connected, Occupied
<1>16. PumpsNotLost'
  <2>1. CASE UNCHANGED <<connection, conn_gen, notify_in>>
    BY <1>1, <2>1 DEF IInv, PumpsNotLost, IncomingNotLost, OutgoingNotLost, MaySend,
                      Subscribed, SyncedFrames, Stale, Connected, Occupied
  <2>2. CASE connection' = NoConn
    BY <2>2, <1>6 DEF PumpsNotLost, IncomingNotLost, OutgoingNotLost, MaySend, Subscribed,
                      Connected
  <2>3. QED BY <1>5, <2>1, <2>2
<1>17. QED
  BY <1>2, <1>3, <1>7, <1>8, <1>9, <1>10, <1>11, <1>12, <1>13, <1>14, <1>15, <1>16
  DEF IInv, Types, LinksTracked

-----------------------------------------------------------------------------
(* The invariant and what follows from it.                                 *)

LEMMA StutterStep == ASSUME IInv, UNCHANGED vars PROVE IInv'
BY DEF vars, codeVars, hostVars, btpVars, IInv, Types, TypeFlags, TypeCode, TypeEvents,
       TypeLinks, Made, LinksTracked, HostSane, EventsTrackUp, ConnTracked, HandlesDiffer,
       ConnectFresh, InUse, Handle, SessionTracked, AdvTracked, AnswersWhatItFed,
       PumpsNotLost, IncomingNotLost, OutgoingNotLost, MaySend, Subscribed, SyncedFrames,
       Stale, Connected, Occupied, Live

LEMMA NextStep == ASSUME IInv, [Next]_vars PROVE IInv'
<1>1. CASE Event
  <2>1. CASE \E l \in up : \E on \in BOOLEAN : OnCccdWrite(l, on) BY <2>1, OnCccdWriteStep
  <2>2. CASE \E l \in up : \E empty \in BOOLEAN : OnC1Write(l, empty)
    BY <2>2, OnC1WriteStep
  <2>3. CASE \/ OnSetup \/ OnAdvertisingConfigured
             \/ OnPeerConnected \/ OnPeerDisconnected \/ OnConfirm
    BY <2>3, OnSetupStep, OnAdvertisingConfiguredStep, OnPeerConnectedStep,
       OnPeerDisconnectedStep, OnConfirmStep
  <2>4. CASE \E l \in up : OnMtu(l) BY <2>4, OnMtuStep
  <2>5. QED BY <1>1, <2>1, <2>2, <2>3, <2>4 DEF Event
<1>2. CASE process_incoming
  BY <1>2, FeedStep, NothingIncomingStep, IncomingWaitsStep DEF process_incoming
<1>3. CASE process_outgoing
  BY <1>3, IndicateStep, NothingOutgoingStep, OutgoingWaitsStep DEF process_outgoing
<1>4. CASE New \/ Run \/ Drop \/ HostConnect \/ HostDisconnect \/ BtpProduce
  BY <1>4, NewStep, RunStep, DropStep, HostConnectStep, HostDisconnectStep, BtpProduceStep
<1>5. QED BY <1>1, <1>2, <1>3, <1>4, StutterStep DEF Next

LEMMA TypesFollow == IInv => TypeOK
<1> SUFFICES ASSUME IInv PROVE TypeOK OBVIOUS
<1> USE BluedroidAssumption
<1>1. {out_nack, notify_in, notify_out, adv, advRefused, btpWake} \subseteq BOOLEAN
      /\ advConf \in BOOLEAN
  BY Zenon DEF IInv, Types, TypeFlags
<1>2. Made \subseteq Links BY DEF IInv, Types, TypeLinks, Made, Links
<1>3. setup \in SetupStages BY DEF IInv, Types, TypeCode, SetupStages, Cccd
<1>4. \A i \in DOMAIN events : events[i] \in [type : {"connect", "disconnect"}, link : Links]
  <2>1. events \in Seq(GapEvent) BY DEF IInv, Types, TypeEvents, GapEvent
  <2>2. \A i \in DOMAIN events : events[i] \in GapEvent BY <2>1
  <2>3. \A i \in DOMAIN events : events[i].link \in Links
    BY <1>2 DEF IInv, LinksTracked, EventsTrackUp
  <2>4. QED BY <2>2, <2>3 DEF GapEvent
<1>5. wire \subseteq Links
  BY <1>2 DEF IInv, SessionTracked, Types, TypeLinks
<1>6. connection \in [link : MaybeLinks, subscribed : BOOLEAN, mtu : MaybeLinks]
  <2>1. connection.link \in MaybeLinks
    BY <1>2 DEF IInv, Types, TypeLinks, MaybeLinks
  <2>2. connection.mtu \in MaybeLinks
    BY <2>1 DEF IInv, SessionTracked, MaybeLinks
  <2>3. QED BY <2>1, <2>2 DEF IInv, Types, TypeCode
<1>7. QED
  BY <1>1, <1>2, <1>3, <1>4, <1>5, <1>6
  DEF TypeOK, IInv, Types, TypeCode, TypeLinks, MaybeLinks

\* With every event handled, the connection is a link, or advertising is on or
\* was refused.
LEMMA DiscoverableFollows == IInv => Discoverable
<1> SUFFICES ASSUME IInv, Idle
             PROVE  IF Connected THEN connection.link \in up
                    ELSE setup >= GattIf /\ ~advConf => adv \/ advRefused
  BY DEF Discoverable
<1>1. CASE Connected BY <1>1, PeerIsConnection
<1>2. CASE ~Connected BY <1>2 DEF IInv, AdvTracked, Idle
<1>3. QED BY <1>1, <1>2

\* The invariant holds in every reachable state.
THEOREM BluedroidInvariance == Spec => []IInv
<1>1. Init => IInv BY InitIInv
<1>2. IInv /\ [Next]_vars => IInv' BY NextStep
<1>3. QED BY <1>1, <1>2, PTL DEF Spec

\* Every variable keeps its type; at most one indication awaits its
\* confirmation (process_outgoing, bluedroid.rs:365-369).
THEOREM BluedroidTypes == Spec => []TypeOK
BY BluedroidInvariance, TypesFollow, PTL

\* The write request answered after BTP took a packet is that packet's (write
\* and process_incoming, bluedroid.rs:831-846 and 296-316).
THEOREM AnswerTheorem == Spec => []AnswersWhatItFed
<1>1. IInv => AnswersWhatItFed BY DEF IInv
<1>2. QED BY <1>1, BluedroidInvariance, PTL

\* The MTU that BTP is told is its own link's or the default
\* (register_conn_mtu, bluedroid.rs:721-734).
THEOREM MtuTheorem == Spec => []MtuIsOwn
<1>1. IInv => MtuIsOwn BY DEF IInv, SessionTracked, MtuIsOwn
<1>2. QED BY <1>1, BluedroidInvariance, PTL

\* Neither pump sleeps over work it could do (bluedroid.rs:284-402).
THEOREM PumpsTheorem == Spec => []PumpsNotLost
<1>1. IInv => PumpsNotLost BY DEF IInv
<1>2. QED BY <1>1, BluedroidInvariance, PTL

\* With every event handled the peripheral is connected, or it advertises
\* unless the controller refused (create_conn and delete_conn,
\* bluedroid.rs:449-456 and 516-523).
THEOREM DiscoverableTheorem == Spec => []Discoverable
BY BluedroidInvariance, DiscoverableFollows, PTL

-----------------------------------------------------------------------------
(* The connection ends only with its own link.                             *)

LEMMA KeepsStep ==
    ASSUME IInv, [Next]_vars, Live, Connected, connection.link \in up
    PROVE  connection'.link = connection.link \/ life' = "off"
<1>1. CASE Event
  <2>1. CASE OnPeerDisconnected
    <3>1. ~IsPeer(Head(events).link)
      BY <2>1, DisconnectOwn DEF OnPeerDisconnected, Delivered
    <3>2. QED BY <2>1, <3>1 DEF OnPeerDisconnected
  <2>2. CASE \E l \in up, on \in BOOLEAN : OnCccdWrite(l, on)
    BY <2>2 DEF OnCccdWrite, IInv, Types, TypeCode
  <2>3. CASE \E l \in up, empty \in BOOLEAN : OnC1Write(l, empty)
    BY <2>3 DEF OnC1Write
  <2>4. CASE OnSetup \/ OnAdvertisingConfigured \/ OnPeerConnected \/ OnConfirm
    BY <2>4 DEF OnSetup, OnAdvertisingConfigured, OnPeerConnected, OnConfirm
  <2>5. CASE \E l \in up : OnMtu(l) BY <2>5 DEF OnMtu, IInv, Types, TypeCode
  <2>6. QED BY <1>1, <2>1, <2>2, <2>3, <2>4, <2>5 DEF Event
<1>2. CASE process_incoming
  BY <1>2 DEF process_incoming, Feed, NothingIncoming, IncomingWaits, InFrame
<1>3. CASE process_outgoing
  BY <1>3 DEF process_outgoing, Indicate, NothingOutgoing, OutgoingWaits, OutFrame
<1>4. CASE New \/ Run \/ Drop BY <1>4 DEF New, Run, Drop, Live, codeVars
<1>5. CASE HostConnect \/ HostDisconnect \/ BtpProduce \/ UNCHANGED vars
  BY <1>5 DEF HostConnect, HostDisconnect, BtpProduce, HostFrame, vars, codeVars
<1>6. QED BY <1>1, <1>2, <1>3, <1>4, <1>5 DEF Next

\* A second central's coming and going does not touch the connection
\* (create_conn and delete_conn, bluedroid.rs:736-787).
THEOREM KeepsTheorem == Spec => KeepsItsPeer
<1>1. IInv /\ [Next]_vars
        => [Live /\ Connected /\ connection.link \in up
              => connection'.link = connection.link \/ life' = "off"]_vars
  BY KeepsStep
<1>2. QED BY <1>1, BluedroidInvariance, PTL DEF Spec, KeepsItsPeer

-----------------------------------------------------------------------------
(* It implements the transport BTP is promised.                            *)

LEMMA TransportStep ==
    ASSUME IInv, [Next]_vars
    PROVE  [Transport!Next]_(Transport!vars)
<1> USE DEF Transport!Next, Transport!vars
<1> DEFINE Same == UNCHANGED <<connection, session, wire>>
<1>1. CASE \/ Run \/ HostConnect \/ BtpProduce \/ UNCHANGED vars \/ OnSetup
           \/ OnAdvertisingConfigured \/ OnConfirm
           \/ \E l \in up : \E empty \in BOOLEAN : OnC1Write(l, empty)
           \/ IncomingWaits \/ OutgoingWaits
  <2>1. Same
    BY <1>1 DEF Run, HostConnect, BtpProduce, vars, OnSetup, OnAdvertisingConfigured,
                OnConfirm, OnC1Write, IncomingWaits, OutgoingWaits, InFrame, OutFrame,
                HostFrame, EventFrame, codeVars, hostVars, btpVars
  <2>2. QED BY <2>1
<1>2. CASE New
  <2>1. connection'.link = NoLink /\ wire' = wire /\ session' = session /\ wire = {}
    BY <1>2 DEF New, reset, NoConn, hostVars, btpVars, IInv, LinksTracked, HostSane, Live
  <2>2. connection.link = NoLink \/ Transport!Detach BY <2>1 DEF Transport!Detach
  <2>3. QED BY <2>1, <2>2
<1>3. CASE Drop
  <2>1. Transport!Lose BY <1>3 DEF Drop, codeVars, btpVars, Transport!Lose
  <2>2. QED BY <2>1
<1>4. CASE HostDisconnect
  <2>1. UNCHANGED <<connection, session>> /\ (wire' = wire \/ wire' = {})
    BY <1>4 DEF HostDisconnect, HostFrame, codeVars, btpVars, IInv, SessionTracked
  <2>2. QED BY <2>1 DEF Transport!Lose
<1>5. CASE OnPeerConnected
  <2>1. UNCHANGED <<session, wire>>
    BY <1>5 DEF OnPeerConnected, EventFrame, btpVars
  <2>2. CASE Connected BY <1>5, <2>1, <2>2 DEF OnPeerConnected
  <2>3. CASE ~Connected
    <3>1. /\ connection'.link = Head(events).link /\ Head(events) = events[1]
          /\ 1 \in DOMAIN events /\ events[1].type = "connect"
      BY <1>5, <2>3 DEF OnPeerConnected, Delivered, IInv, Types, TypeEvents
    <3>2. events[1].link \in Made /\ events[1].link \notin session
      BY <3>1 DEF IInv, LinksTracked, EventsTrackUp, ConnectFresh
    <3>3. events[1].link \in 1..MaxLinks /\ events[1].link # NoLink
      BY <3>2, BluedroidAssumption DEF IInv, Types, TypeLinks, Made, NoLink
    <3>4. Transport!Attach(events[1].link)
      BY <2>1, <2>3, <3>1, <3>2, <3>3 DEF Transport!Attach, Connected
    <3>5. QED BY <3>3, <3>4
  <2>4. QED BY <2>2, <2>3
<1>6. CASE OnPeerDisconnected
  <2>1. session' = session BY <1>6 DEF OnPeerDisconnected, EventFrame, btpVars
  <2>2. \/ UNCHANGED <<connection, wire>>
        \/ Connected /\ connection'.link = NoLink /\ wire' = {}
    BY <1>6 DEF OnPeerDisconnected, IsPeer, NoConn
  <2>3. QED BY <2>1, <2>2 DEF Transport!Detach, Connected
<1>7. CASE \E l \in up : OnMtu(l) \/ \E on \in BOOLEAN : OnCccdWrite(l, on)
  <2>1. connection'.link = connection.link /\ UNCHANGED <<session, wire>>
    BY <1>7 DEF OnMtu, OnCccdWrite, EventFrame, btpVars, IInv, Types, TypeCode
  <2>2. QED BY <2>1
<1>8. CASE Feed
  <2>1. UNCHANGED <<connection, wire>> /\ Connected BY <1>8 DEF Feed, InFrame
  <2>2. session' = {connection.link}
    <3>1. in_data = connection.link /\ session' = SyncedSession \cup {in_data}
      BY <1>8 DEF Feed, IInv, SessionTracked
    <3>2. SyncedSession \subseteq {connection.link}
      BY <2>1 DEF SyncedSession, IInv, SessionTracked
    <3>3. QED BY <3>1, <3>2
  <2>3. QED BY <2>1, <2>2 DEF Transport!Receive, Connected
<1>9. CASE NothingIncoming \/ NothingOutgoing
  <2>1. UNCHANGED <<connection, wire>>
    BY <1>9 DEF NothingIncoming, NothingOutgoing, InFrame, OutFrame
  <2>2. session' = session \/ (Connected /\ session' = SyncedSession)
    BY <1>9 DEF NothingIncoming, NothingOutgoing, SyncWhen, Subscribed
  <2>3. Connected /\ Stale => connection.link \notin session
    BY DEF IInv, SessionTracked
  <2>4. QED BY <2>1, <2>2, <2>3 DEF Transport!Discard, SyncedSession, Connected
<1>10. CASE Indicate
  <2>1. /\ connection' = connection /\ session' = SyncedSession
        /\ Connected /\ SyncedFrames > 0
        /\ wire' = wire \/ wire' = wire \cup SyncedSession
    BY <1>10 DEF Indicate, OutFrame, MaySend, Subscribed
  <2>2. SyncedSession = {connection.link} /\ ~Stale
    BY <1>10, SendsItsOwn DEF Indicate
  <2>3. session = {connection.link} /\ session' = session
    BY <2>1, <2>2 DEF SyncedSession
  <2>4. wire \subseteq {connection.link} BY DEF IInv, SessionTracked
  <2>5. QED BY <2>1, <2>2, <2>3, <2>4 DEF Transport!Send, Connected
<1>11. QED
  BY <1>1, <1>2, <1>3, <1>4, <1>5, <1>6, <1>7, <1>8, <1>9, <1>10
  DEF Next, Event, process_incoming, process_outgoing

\* The peripheral implements BtpTransport with a second central around: one
\* session per connection, never mixed, never thrown away under the connected
\* peer (sync_btp, bluedroid.rs:113-118).
THEOREM TransportTheorem == Spec => ImplementsTransport
<1>1. Init => Transport!Init BY DEF Init, Transport!Init, NoConn, NoLink
<1>2. QED
  BY <1>1, BluedroidInvariance, TransportStep, PTL
  DEF Spec, ImplementsTransport, Transport!Spec
==============================================================================
