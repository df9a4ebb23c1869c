----------------------- MODULE NimblePeripheralProofs -----------------------
(***************************************************************************)
(* Proofs about NimblePeripheral, for every value of its constants.        *)
(*                                                                         *)
(* None of the properties is inductive by itself: what makes a step safe   *)
(* is that the code's `connection` and out_nack are in step with the host  *)
(* (Coherent).  The inductive invariant IInv is their conjunction; each    *)
(* lemma XStep shows that every action preserves the part X of it, from    *)
(* the parts it names.                                                     *)
(***************************************************************************)
EXTENDS NimblePeripheral, TLAPS

IInv == /\ TypeOK /\ Coherent
        /\ SessionIsolation /\ IncomingNotLost /\ OutgoingNotLost
        /\ NackHonest /\ Discoverable /\ MtuFits

-----------------------------------------------------------------------------
(* The types of the values the code stores.                                *)

\* Clearing in_data leaves it well typed.
LEMMA NoDataType ==
    ASSUME NEW n \in Nat
    PROVE  NoData \in [link : 0..n, accepted : BOOLEAN]
BY DEF NoData, NoLink

\* A packet of a known link is well typed.
LEMMA PacketType ==
    ASSUME NEW n \in Nat, NEW l \in 0..n, NEW b \in BOOLEAN
    PROVE  [link |-> l, accepted |-> b] \in [link : 0..n, accepted : BOOLEAN]
OBVIOUS

\* Clearing connection leaves it well typed.
LEMMA NoConnType ==
    ASSUME NEW n \in Nat
    PROVE  NoConn \in [link : 0..n, conn_handle : 0..(HandleSpace - 1),
                      subscribed : BOOLEAN, mtu : {NoMtu, MinMtu, BigMtu}]
BY ConstantsAssumption DEF NoConn, NoLink, NoMtu

\* sync_btp leaves the session and the frames well typed.
LEMMA SyncType ==
    ASSUME TypeBtp
    PROVE  SyncedSession \subseteq 1..links /\ SyncedFrames \in 0..MaxFrames
<1>1. SyncedSession \subseteq 1..links
      BY DEF TypeBtp, SyncedSession
<1>2. SyncedFrames \in 0..MaxFrames
      BY ConstantsAssumption DEF TypeBtp, SyncedFrames
<1>3. QED BY <1>1, <1>2

-----------------------------------------------------------------------------
(* Every action preserves each part of the type invariant.                 *)

\* The code's own state: conn_gen never wraps and never overtakes the number
\* of links.
LEMMA TypeCodeStep ==
    ASSUME TypeOK, HostSane, [Next]_vars
    PROVE  TypeCode'
<1> USE ConstantsAssumption, GenerationsAssumption DEF TypeCode, TypeOK,
        TypeHost, HostSane, Connected, NoLink, NoGen, NoMtu, MinMtu, BigMtu,
        NoConn, NoData, codeVars, hostVars, btpVars
<1>1. CASE New
  <2>1. links \in Nat /\ links' = links
        BY <1>1 DEF New
  <2>2. in_data' \in [link : 0..links, accepted : BOOLEAN]
        BY <1>1, <2>1, NoDataType DEF New, reset
  <2>3. connection' \in [link : 0..links, conn_handle : 0..(HandleSpace - 1),
                         subscribed : BOOLEAN, mtu : {NoMtu, MinMtu, BigMtu}]
        BY <1>1, <2>1, NoConnType DEF New, reset
  <2>4. QED BY <1>1, <2>1, <2>2, <2>3 DEF New, reset
<1>2. CASE Run BY <1>2 DEF Run
<1>3. CASE Drop BY <1>3 DEF Drop
<1>4. CASE DropDriver BY <1>4 DEF DropDriver
<1>5. CASE HostSync BY <1>5 DEF HostSync, HostStep
<1>6. CASE HostConnect BY <1>6 DEF HostConnect, HostStep, HostFree, Published
<1>7. CASE HostLinkLost BY <1>7 DEF HostLinkLost, HostStep, BreakLink
<1>8. CASE HostReset BY <1>8 DEF HostReset, HostStep, BreakLink
<1>9. CASE OnSync BY <1>9 DEF OnSync, AdvertiseHook, HookFrame
<1>10. CASE OnConnectFailed BY <1>10 DEF OnConnectFailed, AdvertiseHook,
      HookFrame
<1>11. CASE OnConnect BY <1>11 DEF OnConnect, AttMtu, Handle, HookFrame
<1>12. CASE OnDisconnect BY <1>12 DEF OnDisconnect, HookFrame
<1>13. CASE OnMtu BY <1>13 DEF OnMtu, HookFrame
<1>14. CASE OnRegister BY <1>14 DEF OnRegister, HookFrame
<1>15. CASE OnWrite
  <2>1. links \in Nat /\ link \in 0..links
        OBVIOUS
  <2>2. in_data' \in [link : 0..links, accepted : BOOLEAN]
    <3>1. NoData \in [link : 0..links, accepted : BOOLEAN]
          BY <2>1, NoDataType
    <3>2. \A b \in BOOLEAN : [link |-> link, accepted |-> b]
                               \in [link : 0..links, accepted : BOOLEAN]
          BY <2>1, PacketType
    <3>3. \/ in_data' = [link |-> link, accepted |-> TRUE]
          \/ in_data' = NoData
          \/ in_data' = [link |-> link, accepted |-> FALSE]
          BY <1>15 DEF OnWrite
    <3>4. QED BY <3>1, <3>2, <3>3
  <2>3. QED BY <1>15, <2>2 DEF OnWrite, HookFrame
<1>16. CASE OnSubscriptionChanged BY <1>16 DEF OnSubscriptionChanged,
      HookFrame
<1>17. CASE OnNotifyComplete BY <1>17 DEF OnNotifyComplete, HookFrame
<1>18. CASE TailNack BY <1>18 DEF TailNack, TailFrame
<1>19. CASE TailNotifyIn BY <1>19 DEF TailNotifyIn, TailFrame
<1>20. CASE TailNotifyOut BY <1>20 DEF TailNotifyOut, TailFrame
<1>21. CASE BtpProduce BY <1>21 DEF BtpProduce
<1>22. CASE Feed
  <2>1. NoData \in [link : 0..links, accepted : BOOLEAN]
        BY NoDataType
  <2>2. in_data' \in [link : 0..links, accepted : BOOLEAN]
        BY <1>22, <2>1 DEF Feed
  <2>3. QED BY <1>22, <2>2 DEF Feed, InFrame
<1>23. CASE NothingIncoming BY <1>23 DEF NothingIncoming, InFrame
<1>24. CASE IncomingParks BY <1>24 DEF IncomingParks, InFrame
<1>25. CASE IncomingWakes BY <1>25 DEF IncomingWakes, InFrame
<1>26. CASE TakeAdvertise BY <1>26 DEF TakeAdvertise
<1>27. CASE advertise BY <1>27 DEF advertise
<1>28. CASE Indicate
  <2>1. out_nack' \in BOOLEAN /\ notify_out' \in BOOLEAN
        BY <1>28 DEF Indicate, Indicated, Fail
  <2>2. QED BY <1>28, <2>1 DEF Indicate, OutFrame
<1>29. CASE NothingOutgoing BY <1>29 DEF NothingOutgoing, OutFrame
<1>30. CASE OutgoingParks BY <1>30 DEF OutgoingParks, OutFrame
<1>31. CASE OutgoingWakes BY <1>31 DEF OutgoingWakes, OutFrame
<1>32. CASE UNCHANGED vars BY <1>32 DEF vars
<1>33. QED
      BY <1>1, <1>2, <1>3, <1>4, <1>5, <1>6, <1>7, <1>8, <1>9,
         <1>10, <1>11, <1>12, <1>13, <1>14, <1>15, <1>16, <1>17, <1>18, <1>19,
         <1>20, <1>21, <1>22, <1>23, <1>24, <1>25, <1>26, <1>27, <1>28, <1>29,
         <1>30, <1>31, <1>32
      DEF Next, Owner, Host, Hook, HookTail, process_incoming,
         process_outgoing

\* The owner, the running hook and the pumps.
LEMMA TypeThreadsStep ==
    ASSUME TypeOK, [Next]_vars
    PROVE  TypeThreads'
<1> USE ConstantsAssumption DEF TypeThreads, TypeOK, Lives, NoLink, NoGen,
        NoMtu, MinMtu, BigMtu, NoConn, NoData, codeVars, hostVars, btpVars
<1>1. CASE New BY <1>1 DEF New, reset
<1>2. CASE Run BY <1>2 DEF Run
<1>3. CASE Drop BY <1>3 DEF Drop
<1>4. CASE DropDriver BY <1>4 DEF DropDriver
<1>5. CASE HostSync BY <1>5 DEF HostSync, HostStep
<1>6. CASE HostConnect BY <1>6 DEF HostConnect, HostStep, HostFree, Published
<1>7. CASE HostLinkLost BY <1>7 DEF HostLinkLost, HostStep, BreakLink
<1>8. CASE HostReset BY <1>8 DEF HostReset, HostStep, BreakLink
<1>9. CASE OnSync BY <1>9 DEF OnSync, AdvertiseHook, HookFrame
<1>10. CASE OnConnectFailed BY <1>10 DEF OnConnectFailed, AdvertiseHook,
      HookFrame
<1>11. CASE OnConnect BY <1>11 DEF OnConnect, AttMtu, Handle, HookFrame
<1>12. CASE OnDisconnect BY <1>12 DEF OnDisconnect, HookFrame
<1>13. CASE OnMtu BY <1>13 DEF OnMtu, HookFrame
<1>14. CASE OnRegister BY <1>14 DEF OnRegister, HookFrame
<1>15. CASE OnWrite BY <1>15 DEF OnWrite, HookFrame
<1>16. CASE OnSubscriptionChanged BY <1>16 DEF OnSubscriptionChanged,
      HookFrame
<1>17. CASE OnNotifyComplete BY <1>17 DEF OnNotifyComplete, HookFrame
<1>18. CASE TailNack BY <1>18 DEF TailNack, TailFrame
<1>19. CASE TailNotifyIn BY <1>19 DEF TailNotifyIn, TailFrame
<1>20. CASE TailNotifyOut BY <1>20 DEF TailNotifyOut, TailFrame
<1>21. CASE BtpProduce BY <1>21 DEF BtpProduce
<1>22. CASE Feed BY <1>22 DEF Feed, Fail, InFrame
<1>23. CASE NothingIncoming BY <1>23 DEF NothingIncoming, InFrame
<1>24. CASE IncomingParks BY <1>24 DEF IncomingParks, InFrame
<1>25. CASE IncomingWakes BY <1>25 DEF IncomingWakes, InFrame
<1>26. CASE TakeAdvertise BY <1>26 DEF TakeAdvertise
<1>27. CASE advertise BY <1>27 DEF advertise
<1>28. CASE Indicate BY <1>28 DEF Indicate, Indicated, Fail, OutFrame
<1>29. CASE NothingOutgoing BY <1>29 DEF NothingOutgoing, OutFrame
<1>30. CASE OutgoingParks BY <1>30 DEF OutgoingParks, OutFrame
<1>31. CASE OutgoingWakes BY <1>31 DEF OutgoingWakes, OutFrame
<1>32. CASE UNCHANGED vars BY <1>32 DEF vars
<1>33. QED
      BY <1>1, <1>2, <1>3, <1>4, <1>5, <1>6, <1>7, <1>8, <1>9,
         <1>10, <1>11, <1>12, <1>13, <1>14, <1>15, <1>16, <1>17, <1>18, <1>19,
         <1>20, <1>21, <1>22, <1>23, <1>24, <1>25, <1>26, <1>27, <1>28, <1>29,
         <1>30, <1>31, <1>32
      DEF Next, Owner, Host, Hook, HookTail, process_incoming,
         process_outgoing

\* The host: one indication in flight at most, because an indication in
\* flight keeps out_nack set.
LEMMA TypeHostStep ==
    ASSUME TypeOK, NackTracked, [Next]_vars
    PROVE  TypeHost'
<1> USE ConstantsAssumption DEF TypeHost, TypeOK, HostStates, HostEvents,
        MaySend, NackTracked, NoLink, NoGen, NoMtu, MinMtu, BigMtu, NoConn,
        NoData, codeVars, hostVars, btpVars
<1>1. CASE New BY <1>1 DEF New, reset
<1>2. CASE Run BY <1>2 DEF Run
<1>3. CASE Drop BY <1>3 DEF Drop
<1>4. CASE DropDriver
  <2>1. links' = links /\ resets' = resets /\ link' = NoLink
        BY <1>4 DEF DropDriver
  <2>2. host' \in HostStates /\ hostEv' \in HostEvents
        BY <1>4 DEF DropDriver
  <2>3. advRefused' \in BOOLEAN /\ adv' \in {"off", "blank", "payload"}
        BY <1>4 DEF DropDriver
  <2>4. link_mtu' \in {MinMtu, BigMtu} /\ inflight' \in 0..1
        BY <1>4 DEF DropDriver
  <2>5. QED BY <2>1, <2>2, <2>3, <2>4
<1>5. CASE HostSync BY <1>5 DEF HostSync, HostStep
<1>6. CASE HostConnect BY <1>6 DEF HostConnect, HostStep, HostFree, Published
<1>7. CASE HostLinkLost BY <1>7 DEF HostLinkLost, HostStep, BreakLink
<1>8. CASE HostReset BY <1>8 DEF HostReset, HostStep, BreakLink
<1>9. CASE OnSync BY <1>9 DEF OnSync, AdvertiseHook, HookFrame
<1>10. CASE OnConnectFailed BY <1>10 DEF OnConnectFailed, AdvertiseHook,
      HookFrame
<1>11. CASE OnConnect BY <1>11 DEF OnConnect, AttMtu, Handle, HookFrame
<1>12. CASE OnDisconnect BY <1>12 DEF OnDisconnect, HookFrame
<1>13. CASE OnMtu BY <1>13 DEF OnMtu, HookFrame
<1>14. CASE OnRegister BY <1>14 DEF OnRegister, HookFrame
<1>15. CASE OnWrite BY <1>15 DEF OnWrite, HookFrame
<1>16. CASE OnSubscriptionChanged BY <1>16 DEF OnSubscriptionChanged,
      HookFrame
<1>17. CASE OnNotifyComplete BY <1>17 DEF OnNotifyComplete, HookFrame
<1>18. CASE TailNack BY <1>18 DEF TailNack, TailFrame
<1>19. CASE TailNotifyIn BY <1>19 DEF TailNotifyIn, TailFrame
<1>20. CASE TailNotifyOut BY <1>20 DEF TailNotifyOut, TailFrame
<1>21. CASE BtpProduce BY <1>21 DEF BtpProduce
<1>22. CASE Feed BY <1>22 DEF Feed, Fail, InFrame
<1>23. CASE NothingIncoming BY <1>23 DEF NothingIncoming, InFrame
<1>24. CASE IncomingParks BY <1>24 DEF IncomingParks, InFrame
<1>25. CASE IncomingWakes BY <1>25 DEF IncomingWakes, InFrame
<1>26. CASE TakeAdvertise BY <1>26 DEF TakeAdvertise
<1>27. CASE advertise BY <1>27 DEF advertise
<1>28. CASE Indicate BY <1>28 DEF Indicate, Indicated, Fail, OutFrame
<1>29. CASE NothingOutgoing BY <1>29 DEF NothingOutgoing, OutFrame
<1>30. CASE OutgoingParks BY <1>30 DEF OutgoingParks, OutFrame
<1>31. CASE OutgoingWakes BY <1>31 DEF OutgoingWakes, OutFrame
<1>32. CASE UNCHANGED vars BY <1>32 DEF vars
<1>33. QED
      BY <1>1, <1>2, <1>3, <1>4, <1>5, <1>6, <1>7, <1>8, <1>9,
         <1>10, <1>11, <1>12, <1>13, <1>14, <1>15, <1>16, <1>17, <1>18, <1>19,
         <1>20, <1>21, <1>22, <1>23, <1>24, <1>25, <1>26, <1>27, <1>28, <1>29,
         <1>30, <1>31, <1>32
      DEF Next, Owner, Host, Hook, HookTail, process_incoming,
         process_outgoing

\* The BTP engine has heard of existing links only.
LEMMA TypeBtpStep ==
    ASSUME TypeOK, [Next]_vars
    PROVE  TypeBtp'
<1> USE ConstantsAssumption, SyncType DEF TypeBtp, TypeOK, TypeHost, TypeCode,
        MaySend, Occupied, NoLink, NoGen, NoMtu, MinMtu, BigMtu, NoConn,
        NoData, codeVars, hostVars, btpVars
<1>1. CASE New BY <1>1 DEF New, reset
<1>2. CASE Run BY <1>2 DEF Run
<1>3. CASE Drop BY <1>3 DEF Drop
<1>4. CASE DropDriver BY <1>4 DEF DropDriver
<1>5. CASE HostSync BY <1>5 DEF HostSync, HostStep
<1>6. CASE HostConnect BY <1>6 DEF HostConnect, HostStep, HostFree, Published
<1>7. CASE HostLinkLost BY <1>7 DEF HostLinkLost, HostStep, BreakLink
<1>8. CASE HostReset BY <1>8 DEF HostReset, HostStep, BreakLink
<1>9. CASE OnSync BY <1>9 DEF OnSync, AdvertiseHook, HookFrame
<1>10. CASE OnConnectFailed BY <1>10 DEF OnConnectFailed, AdvertiseHook,
      HookFrame
<1>11. CASE OnConnect BY <1>11 DEF OnConnect, AttMtu, Handle, HookFrame
<1>12. CASE OnDisconnect BY <1>12 DEF OnDisconnect, HookFrame
<1>13. CASE OnMtu BY <1>13 DEF OnMtu, HookFrame
<1>14. CASE OnRegister BY <1>14 DEF OnRegister, HookFrame
<1>15. CASE OnWrite BY <1>15 DEF OnWrite, HookFrame
<1>16. CASE OnSubscriptionChanged BY <1>16 DEF OnSubscriptionChanged,
      HookFrame
<1>17. CASE OnNotifyComplete BY <1>17 DEF OnNotifyComplete, HookFrame
<1>18. CASE TailNack BY <1>18 DEF TailNack, TailFrame
<1>19. CASE TailNotifyIn BY <1>19 DEF TailNotifyIn, TailFrame
<1>20. CASE TailNotifyOut BY <1>20 DEF TailNotifyOut, TailFrame
<1>21. CASE BtpProduce BY <1>21 DEF BtpProduce
<1>22. CASE Feed BY <1>22 DEF Feed, Fail, InFrame
<1>23. CASE NothingIncoming BY <1>23 DEF NothingIncoming, InFrame
<1>24. CASE IncomingParks BY <1>24 DEF IncomingParks, InFrame
<1>25. CASE IncomingWakes BY <1>25 DEF IncomingWakes, InFrame
<1>26. CASE TakeAdvertise BY <1>26 DEF TakeAdvertise
<1>27. CASE advertise BY <1>27 DEF advertise
<1>28. CASE Indicate
  <2>1. SyncedFrames > 0 BY <1>28 DEF Indicate
  <2>2. frames' \in 0..MaxFrames BY <1>28, <2>1 DEF Indicate
  <2>3. /\ links' = links /\ session' \subseteq 1..links
        /\ wire' \subseteq 1..links
        BY <1>28 DEF Indicate, OutFrame
  <2>4. QED BY <1>28, <2>2, <2>3 DEF Indicate
<1>29. CASE NothingOutgoing BY <1>29 DEF NothingOutgoing, OutFrame
<1>30. CASE OutgoingParks BY <1>30 DEF OutgoingParks, OutFrame
<1>31. CASE OutgoingWakes BY <1>31 DEF OutgoingWakes, OutFrame
<1>32. CASE UNCHANGED vars BY <1>32 DEF vars
<1>33. QED
      BY <1>1, <1>2, <1>3, <1>4, <1>5, <1>6, <1>7, <1>8, <1>9,
         <1>10, <1>11, <1>12, <1>13, <1>14, <1>15, <1>16, <1>17, <1>18, <1>19,
         <1>20, <1>21, <1>22, <1>23, <1>24, <1>25, <1>26, <1>27, <1>28, <1>29,
         <1>30, <1>31, <1>32
      DEF Next, Owner, Host, Hook, HookTail, process_incoming,
         process_outgoing

-----------------------------------------------------------------------------
(* Every action preserves each part of Coherent.                           *)

\* The object and the host it owns come and go together.
LEMMA LifecycleStep ==
    ASSUME TypeOK, Lifecycle, NackTracked, [Next]_vars
    PROVE  Lifecycle'
<1> USE DEF Lifecycle, NackTracked, HostFree, Published, Connected, NoLink,
        NoGen, NoMtu, MinMtu, BigMtu, NoConn, NoData, codeVars, hostVars,
        btpVars
<1>1. CASE New BY <1>1 DEF New, reset
<1>2. CASE Run BY <1>2 DEF Run
<1>3. CASE Drop BY <1>3 DEF Drop
<1>4. CASE DropDriver BY <1>4 DEF DropDriver
<1>5. CASE HostSync BY <1>5 DEF HostSync, HostStep
<1>6. CASE HostConnect BY <1>6 DEF HostConnect, HostStep, HostFree, Published
<1>7. CASE HostLinkLost BY <1>7 DEF HostLinkLost, HostStep, BreakLink
<1>8. CASE HostReset BY <1>8 DEF HostReset, HostStep, BreakLink
<1>9. CASE OnSync BY <1>9 DEF OnSync, AdvertiseHook, HookFrame
<1>10. CASE OnConnectFailed BY <1>10 DEF OnConnectFailed, AdvertiseHook,
      HookFrame
<1>11. CASE OnConnect BY <1>11 DEF OnConnect, AttMtu, Handle, HookFrame
<1>12. CASE OnDisconnect BY <1>12 DEF OnDisconnect, HookFrame
<1>13. CASE OnMtu BY <1>13 DEF OnMtu, HookFrame
<1>14. CASE OnRegister BY <1>14 DEF OnRegister, HookFrame
<1>15. CASE OnWrite BY <1>15 DEF OnWrite, HookFrame
<1>16. CASE OnSubscriptionChanged BY <1>16 DEF OnSubscriptionChanged,
      HookFrame
<1>17. CASE OnNotifyComplete BY <1>17 DEF OnNotifyComplete, HookFrame
<1>18. CASE TailNack BY <1>18 DEF TailNack, TailFrame
<1>19. CASE TailNotifyIn BY <1>19 DEF TailNotifyIn, TailFrame
<1>20. CASE TailNotifyOut BY <1>20 DEF TailNotifyOut, TailFrame
<1>21. CASE BtpProduce BY <1>21 DEF BtpProduce
<1>22. CASE Feed BY <1>22 DEF Feed, Fail, InFrame
<1>23. CASE NothingIncoming BY <1>23 DEF NothingIncoming, InFrame
<1>24. CASE IncomingParks BY <1>24 DEF IncomingParks, InFrame
<1>25. CASE IncomingWakes BY <1>25 DEF IncomingWakes, InFrame
<1>26. CASE TakeAdvertise BY <1>26 DEF TakeAdvertise
<1>27. CASE advertise BY <1>27 DEF advertise
<1>28. CASE Indicate BY <1>28 DEF Indicate, Indicated, Fail, OutFrame
<1>29. CASE NothingOutgoing BY <1>29 DEF NothingOutgoing, OutFrame
<1>30. CASE OutgoingParks BY <1>30 DEF OutgoingParks, OutFrame
<1>31. CASE OutgoingWakes BY <1>31 DEF OutgoingWakes, OutFrame
<1>32. CASE UNCHANGED vars BY <1>32 DEF vars
<1>33. QED
      BY <1>1, <1>2, <1>3, <1>4, <1>5, <1>6, <1>7, <1>8, <1>9,
         <1>10, <1>11, <1>12, <1>13, <1>14, <1>15, <1>16, <1>17, <1>18, <1>19,
         <1>20, <1>21, <1>22, <1>23, <1>24, <1>25, <1>26, <1>27, <1>28, <1>29,
         <1>30, <1>31, <1>32
      DEF Next, Owner, Host, Hook, HookTail, process_incoming,
         process_outgoing

\* The host's link, advertising and pending event agree.
LEMMA HostSaneStep ==
    ASSUME TypeOK, HostSane, Lifecycle, [Next]_vars
    PROVE  HostSane'
<1> USE ConstantsAssumption DEF HostSane, TypeOK, TypeHost, TypeCode,
        Lifecycle, NoLink, NoGen, NoMtu, MinMtu, BigMtu, NoConn, NoData,
        codeVars, hostVars, btpVars, Connected, Occupied, Published, HostFree
<1>1. CASE New BY <1>1 DEF New, reset
<1>2. CASE Run BY <1>2 DEF Run
<1>3. CASE Drop BY <1>3 DEF Drop
<1>4. CASE DropDriver BY <1>4 DEF DropDriver
<1>5. CASE HostSync BY <1>5 DEF HostSync, HostStep
<1>6. CASE HostConnect BY <1>6 DEF HostConnect, HostStep, HostFree, Published
<1>7. CASE HostLinkLost BY <1>7 DEF HostLinkLost, HostStep, BreakLink
<1>8. CASE HostReset BY <1>8 DEF HostReset, HostStep, BreakLink
<1>9. CASE OnSync BY <1>9 DEF OnSync, AdvertiseHook, HookFrame
<1>10. CASE OnConnectFailed BY <1>10 DEF OnConnectFailed, AdvertiseHook,
      HookFrame
<1>11. CASE OnConnect BY <1>11 DEF OnConnect, AttMtu, Handle, HookFrame
<1>12. CASE OnDisconnect BY <1>12 DEF OnDisconnect, HookFrame
<1>13. CASE OnMtu BY <1>13 DEF OnMtu, HookFrame
<1>14. CASE OnRegister BY <1>14 DEF OnRegister, HookFrame
<1>15. CASE OnWrite BY <1>15 DEF OnWrite, HookFrame
<1>16. CASE OnSubscriptionChanged BY <1>16 DEF OnSubscriptionChanged,
      HookFrame
<1>17. CASE OnNotifyComplete BY <1>17 DEF OnNotifyComplete, HookFrame
<1>18. CASE TailNack BY <1>18 DEF TailNack, TailFrame
<1>19. CASE TailNotifyIn BY <1>19 DEF TailNotifyIn, TailFrame
<1>20. CASE TailNotifyOut BY <1>20 DEF TailNotifyOut, TailFrame
<1>21. CASE BtpProduce BY <1>21 DEF BtpProduce
<1>22. CASE Feed BY <1>22 DEF Feed, Fail, InFrame
<1>23. CASE NothingIncoming BY <1>23 DEF NothingIncoming, InFrame
<1>24. CASE IncomingParks BY <1>24 DEF IncomingParks, InFrame
<1>25. CASE IncomingWakes BY <1>25 DEF IncomingWakes, InFrame
<1>26. CASE TakeAdvertise BY <1>26 DEF TakeAdvertise
<1>27. CASE advertise BY <1>27 DEF advertise
<1>28. CASE Indicate BY <1>28 DEF Indicate, Indicated, Fail, OutFrame
<1>29. CASE NothingOutgoing BY <1>29 DEF NothingOutgoing, OutFrame
<1>30. CASE OutgoingParks BY <1>30 DEF OutgoingParks, OutFrame
<1>31. CASE OutgoingWakes BY <1>31 DEF OutgoingWakes, OutFrame
<1>32. CASE UNCHANGED vars BY <1>32 DEF vars
<1>33. QED
      BY <1>1, <1>2, <1>3, <1>4, <1>5, <1>6, <1>7, <1>8, <1>9,
         <1>10, <1>11, <1>12, <1>13, <1>14, <1>15, <1>16, <1>17, <1>18, <1>19,
         <1>20, <1>21, <1>22, <1>23, <1>24, <1>25, <1>26, <1>27, <1>28, <1>29,
         <1>30, <1>31, <1>32
      DEF Next, Owner, Host, Hook, HookTail, process_incoming,
         process_outgoing

\* The Connect and Disconnect hooks keep connection in step with the link.
LEMMA LinkTrackedStep ==
    ASSUME TypeOK, HostSane, Lifecycle, LinkTracked,
           [Next]_vars
    PROVE  LinkTracked'
<1> USE ConstantsAssumption DEF LinkTracked, TypeOK, TypeHost, TypeCode,
        HostSane, Lifecycle, Fail, NoLink, NoGen, NoMtu, MinMtu, BigMtu,
        NoConn, NoData, codeVars, hostVars, btpVars, Connected, Occupied,
        Published, HostFree
<1>1. CASE New BY <1>1 DEF New, reset
<1>2. CASE Run BY <1>2 DEF Run
<1>3. CASE Drop BY <1>3 DEF Drop
<1>4. CASE DropDriver BY <1>4 DEF DropDriver
<1>5. CASE HostSync BY <1>5 DEF HostSync, HostStep
<1>6. CASE HostConnect BY <1>6 DEF HostConnect, HostStep, HostFree, Published
<1>7. CASE HostLinkLost BY <1>7 DEF HostLinkLost, HostStep, BreakLink
<1>8. CASE HostReset BY <1>8 DEF HostReset, HostStep, BreakLink
<1>9. CASE OnSync BY <1>9 DEF OnSync, AdvertiseHook, HookFrame
<1>10. CASE OnConnectFailed BY <1>10 DEF OnConnectFailed, AdvertiseHook,
      HookFrame
<1>11. CASE OnConnect BY <1>11 DEF OnConnect, AttMtu, Handle, HookFrame
<1>12. CASE OnDisconnect BY <1>12 DEF OnDisconnect, HookFrame
<1>13. CASE OnMtu BY <1>13 DEF OnMtu, HookFrame
<1>14. CASE OnRegister BY <1>14 DEF OnRegister, HookFrame
<1>15. CASE OnWrite BY <1>15 DEF OnWrite, HookFrame
<1>16. CASE OnSubscriptionChanged BY <1>16 DEF OnSubscriptionChanged,
      HookFrame
<1>17. CASE OnNotifyComplete BY <1>17 DEF OnNotifyComplete, HookFrame
<1>18. CASE TailNack BY <1>18 DEF TailNack, TailFrame
<1>19. CASE TailNotifyIn BY <1>19 DEF TailNotifyIn, TailFrame
<1>20. CASE TailNotifyOut BY <1>20 DEF TailNotifyOut, TailFrame
<1>21. CASE BtpProduce BY <1>21 DEF BtpProduce
<1>22. CASE Feed BY <1>22 DEF Feed, Fail, InFrame
<1>23. CASE NothingIncoming BY <1>23 DEF NothingIncoming, InFrame
<1>24. CASE IncomingParks BY <1>24 DEF IncomingParks, InFrame
<1>25. CASE IncomingWakes BY <1>25 DEF IncomingWakes, InFrame
<1>26. CASE TakeAdvertise BY <1>26 DEF TakeAdvertise
<1>27. CASE advertise BY <1>27 DEF advertise
<1>28. CASE Indicate BY <1>28 DEF Indicate, Indicated, Fail, OutFrame
<1>29. CASE NothingOutgoing BY <1>29 DEF NothingOutgoing, OutFrame
<1>30. CASE OutgoingParks BY <1>30 DEF OutgoingParks, OutFrame
<1>31. CASE OutgoingWakes BY <1>31 DEF OutgoingWakes, OutFrame
<1>32. CASE UNCHANGED vars BY <1>32 DEF vars
<1>33. QED
      BY <1>1, <1>2, <1>3, <1>4, <1>5, <1>6, <1>7, <1>8, <1>9,
         <1>10, <1>11, <1>12, <1>13, <1>14, <1>15, <1>16, <1>17, <1>18, <1>19,
         <1>20, <1>21, <1>22, <1>23, <1>24, <1>25, <1>26, <1>27, <1>28, <1>29,
         <1>30, <1>31, <1>32
      DEF Next, Owner, Host, Hook, HookTail, process_incoming,
         process_outgoing

\* in_data never outlives the connection it was written on.
LEMMA DataOwnedStep ==
    ASSUME TypeOK, HostSane, Lifecycle, LinkTracked,
           DataOwned, [Next]_vars
    PROVE  DataOwned'
<1> USE ConstantsAssumption DEF DataOwned, TypeOK, TypeCode, HostSane,
        Lifecycle, LinkTracked, NoLink, NoGen, NoMtu, MinMtu, BigMtu, NoConn,
        NoData, codeVars, hostVars, btpVars, Connected, Occupied, Published,
        HostFree
<1>1. CASE New BY <1>1 DEF New, reset
<1>2. CASE Run BY <1>2 DEF Run
<1>3. CASE Drop BY <1>3 DEF Drop
<1>4. CASE DropDriver BY <1>4 DEF DropDriver
<1>5. CASE HostSync BY <1>5 DEF HostSync, HostStep
<1>6. CASE HostConnect BY <1>6 DEF HostConnect, HostStep, HostFree, Published
<1>7. CASE HostLinkLost BY <1>7 DEF HostLinkLost, HostStep, BreakLink
<1>8. CASE HostReset BY <1>8 DEF HostReset, HostStep, BreakLink
<1>9. CASE OnSync BY <1>9 DEF OnSync, AdvertiseHook, HookFrame
<1>10. CASE OnConnectFailed BY <1>10 DEF OnConnectFailed, AdvertiseHook,
      HookFrame
<1>11. CASE OnConnect BY <1>11 DEF OnConnect, AttMtu, Handle, HookFrame
<1>12. CASE OnDisconnect BY <1>12 DEF OnDisconnect, HookFrame
<1>13. CASE OnMtu BY <1>13 DEF OnMtu, HookFrame
<1>14. CASE OnRegister BY <1>14 DEF OnRegister, HookFrame
<1>15. CASE OnWrite BY <1>15 DEF OnWrite, HookFrame
<1>16. CASE OnSubscriptionChanged BY <1>16 DEF OnSubscriptionChanged,
      HookFrame
<1>17. CASE OnNotifyComplete BY <1>17 DEF OnNotifyComplete, HookFrame
<1>18. CASE TailNack BY <1>18 DEF TailNack, TailFrame
<1>19. CASE TailNotifyIn BY <1>19 DEF TailNotifyIn, TailFrame
<1>20. CASE TailNotifyOut BY <1>20 DEF TailNotifyOut, TailFrame
<1>21. CASE BtpProduce BY <1>21 DEF BtpProduce
<1>22. CASE Feed BY <1>22 DEF Feed, Fail, InFrame
<1>23. CASE NothingIncoming BY <1>23 DEF NothingIncoming, InFrame
<1>24. CASE IncomingParks BY <1>24 DEF IncomingParks, InFrame
<1>25. CASE IncomingWakes BY <1>25 DEF IncomingWakes, InFrame
<1>26. CASE TakeAdvertise BY <1>26 DEF TakeAdvertise
<1>27. CASE advertise BY <1>27 DEF advertise
<1>28. CASE Indicate BY <1>28 DEF Indicate, Indicated, Fail, OutFrame
<1>29. CASE NothingOutgoing BY <1>29 DEF NothingOutgoing, OutFrame
<1>30. CASE OutgoingParks BY <1>30 DEF OutgoingParks, OutFrame
<1>31. CASE OutgoingWakes BY <1>31 DEF OutgoingWakes, OutFrame
<1>32. CASE UNCHANGED vars BY <1>32 DEF vars
<1>33. QED
      BY <1>1, <1>2, <1>3, <1>4, <1>5, <1>6, <1>7, <1>8, <1>9,
         <1>10, <1>11, <1>12, <1>13, <1>14, <1>15, <1>16, <1>17, <1>18, <1>19,
         <1>20, <1>21, <1>22, <1>23, <1>24, <1>25, <1>26, <1>27, <1>28, <1>29,
         <1>30, <1>31, <1>32
      DEF Next, Owner, Host, Hook, HookTail, process_incoming,
         process_outgoing

\* No hook clears out_nack over an indication in flight.
LEMMA NackTrackedStep ==
    ASSUME TypeOK, HostSane, Lifecycle, LinkTracked,
           NackTracked, [Next]_vars
    PROVE  NackTracked'
<1> USE ConstantsAssumption DEF NackTracked, TypeOK, TypeHost, TypeCode,
        HostSane, Lifecycle, LinkTracked, MaySend, NoLink, NoGen, NoMtu,
        MinMtu, BigMtu, NoConn, NoData, codeVars, hostVars, btpVars,
        Connected, Occupied, Published, HostFree
<1>1. CASE New BY <1>1 DEF New, reset
<1>2. CASE Run BY <1>2 DEF Run
<1>3. CASE Drop BY <1>3 DEF Drop
<1>4. CASE DropDriver BY <1>4 DEF DropDriver
<1>5. CASE HostSync BY <1>5 DEF HostSync, HostStep
<1>6. CASE HostConnect BY <1>6 DEF HostConnect, HostStep, HostFree, Published
<1>7. CASE HostLinkLost BY <1>7 DEF HostLinkLost, HostStep, BreakLink
<1>8. CASE HostReset BY <1>8 DEF HostReset, HostStep, BreakLink
<1>9. CASE OnSync BY <1>9 DEF OnSync, AdvertiseHook, HookFrame
<1>10. CASE OnConnectFailed BY <1>10 DEF OnConnectFailed, AdvertiseHook,
      HookFrame
<1>11. CASE OnConnect BY <1>11 DEF OnConnect, AttMtu, Handle, HookFrame
<1>12. CASE OnDisconnect BY <1>12 DEF OnDisconnect, HookFrame
<1>13. CASE OnMtu BY <1>13 DEF OnMtu, HookFrame
<1>14. CASE OnRegister BY <1>14 DEF OnRegister, HookFrame
<1>15. CASE OnWrite BY <1>15 DEF OnWrite, HookFrame
<1>16. CASE OnSubscriptionChanged BY <1>16 DEF OnSubscriptionChanged,
      HookFrame
<1>17. CASE OnNotifyComplete BY <1>17 DEF OnNotifyComplete, HookFrame
<1>18. CASE TailNack BY <1>18 DEF TailNack, TailFrame
<1>19. CASE TailNotifyIn BY <1>19 DEF TailNotifyIn, TailFrame
<1>20. CASE TailNotifyOut BY <1>20 DEF TailNotifyOut, TailFrame
<1>21. CASE BtpProduce BY <1>21 DEF BtpProduce
<1>22. CASE Feed BY <1>22 DEF Feed, Fail, InFrame
<1>23. CASE NothingIncoming BY <1>23 DEF NothingIncoming, InFrame
<1>24. CASE IncomingParks BY <1>24 DEF IncomingParks, InFrame
<1>25. CASE IncomingWakes BY <1>25 DEF IncomingWakes, InFrame
<1>26. CASE TakeAdvertise BY <1>26 DEF TakeAdvertise
<1>27. CASE advertise BY <1>27 DEF advertise
<1>28. CASE Indicate BY <1>28 DEF Indicate, Indicated, Fail, OutFrame
<1>29. CASE NothingOutgoing BY <1>29 DEF NothingOutgoing, OutFrame
<1>30. CASE OutgoingParks BY <1>30 DEF OutgoingParks, OutFrame
<1>31. CASE OutgoingWakes BY <1>31 DEF OutgoingWakes, OutFrame
<1>32. CASE UNCHANGED vars BY <1>32 DEF vars
<1>33. QED
      BY <1>1, <1>2, <1>3, <1>4, <1>5, <1>6, <1>7, <1>8, <1>9,
         <1>10, <1>11, <1>12, <1>13, <1>14, <1>15, <1>16, <1>17, <1>18, <1>19,
         <1>20, <1>21, <1>22, <1>23, <1>24, <1>25, <1>26, <1>27, <1>28, <1>29,
         <1>30, <1>31, <1>32
      DEF Next, Owner, Host, Hook, HookTail, process_incoming,
         process_outgoing

\* A request to advertise is never left behind by process_outgoing.
LEMMA RequestKeptStep ==
    ASSUME TypeOK, Lifecycle, RequestKept,
           [Next]_vars
    PROVE  RequestKept'
<1> USE DEF RequestKept, TypeOK, TypeThreads, Lifecycle, NoLink, NoGen, NoMtu,
        MinMtu, BigMtu, NoConn, NoData, codeVars, hostVars, btpVars,
        Connected, Occupied, Published, HostFree
<1>1. CASE New BY <1>1 DEF New, reset
<1>2. CASE Run BY <1>2 DEF Run
<1>3. CASE Drop BY <1>3 DEF Drop
<1>4. CASE DropDriver BY <1>4 DEF DropDriver
<1>5. CASE HostSync BY <1>5 DEF HostSync, HostStep
<1>6. CASE HostConnect BY <1>6 DEF HostConnect, HostStep, HostFree, Published
<1>7. CASE HostLinkLost BY <1>7 DEF HostLinkLost, HostStep, BreakLink
<1>8. CASE HostReset BY <1>8 DEF HostReset, HostStep, BreakLink
<1>9. CASE OnSync BY <1>9 DEF OnSync, AdvertiseHook, HookFrame
<1>10. CASE OnConnectFailed BY <1>10 DEF OnConnectFailed, AdvertiseHook,
      HookFrame
<1>11. CASE OnConnect BY <1>11 DEF OnConnect, AttMtu, Handle, HookFrame
<1>12. CASE OnDisconnect BY <1>12 DEF OnDisconnect, HookFrame
<1>13. CASE OnMtu BY <1>13 DEF OnMtu, HookFrame
<1>14. CASE OnRegister BY <1>14 DEF OnRegister, HookFrame
<1>15. CASE OnWrite BY <1>15 DEF OnWrite, HookFrame
<1>16. CASE OnSubscriptionChanged BY <1>16 DEF OnSubscriptionChanged,
      HookFrame
<1>17. CASE OnNotifyComplete BY <1>17 DEF OnNotifyComplete, HookFrame
<1>18. CASE TailNack BY <1>18 DEF TailNack, TailFrame
<1>19. CASE TailNotifyIn BY <1>19 DEF TailNotifyIn, TailFrame
<1>20. CASE TailNotifyOut BY <1>20 DEF TailNotifyOut, TailFrame
<1>21. CASE BtpProduce BY <1>21 DEF BtpProduce
<1>22. CASE Feed BY <1>22 DEF Feed, Fail, InFrame
<1>23. CASE NothingIncoming BY <1>23 DEF NothingIncoming, InFrame
<1>24. CASE IncomingParks BY <1>24 DEF IncomingParks, InFrame
<1>25. CASE IncomingWakes BY <1>25 DEF IncomingWakes, InFrame
<1>26. CASE TakeAdvertise BY <1>26 DEF TakeAdvertise
<1>27. CASE advertise BY <1>27 DEF advertise
<1>28. CASE Indicate BY <1>28 DEF Indicate, Indicated, Fail, OutFrame
<1>29. CASE NothingOutgoing BY <1>29 DEF NothingOutgoing, OutFrame
<1>30. CASE OutgoingParks BY <1>30 DEF OutgoingParks, OutFrame
<1>31. CASE OutgoingWakes BY <1>31 DEF OutgoingWakes, OutFrame
<1>32. CASE UNCHANGED vars BY <1>32 DEF vars
<1>33. QED
      BY <1>1, <1>2, <1>3, <1>4, <1>5, <1>6, <1>7, <1>8, <1>9,
         <1>10, <1>11, <1>12, <1>13, <1>14, <1>15, <1>16, <1>17, <1>18, <1>19,
         <1>20, <1>21, <1>22, <1>23, <1>24, <1>25, <1>26, <1>27, <1>28, <1>29,
         <1>30, <1>31, <1>32
      DEF Next, Owner, Host, Hook, HookTail, process_incoming,
         process_outgoing

\* A stale session has heard nothing of the new connection.
LEMMA SessionTrackedStep ==
    ASSUME TypeOK, HostSane, Lifecycle,
           LinkTracked, DataOwned, SessionTracked, [Next]_vars
    PROVE  SessionTracked'
<1> USE ConstantsAssumption, GenerationsAssumption DEF SessionTracked, TypeOK,
        TypeHost, TypeBtp, TypeCode, HostSane, LinkTracked, DataOwned,
        Lifecycle, NoLink, NoGen, NoMtu, MinMtu, BigMtu, NoConn, NoData,
        codeVars, hostVars, btpVars, Connected, Occupied, Published, HostFree,
        Stale, SyncedFrames, SyncedSession, MaySend
<1>1. CASE New BY <1>1 DEF New, reset
<1>2. CASE Run BY <1>2 DEF Run
<1>3. CASE Drop BY <1>3 DEF Drop
<1>4. CASE DropDriver BY <1>4 DEF DropDriver
<1>5. CASE HostSync BY <1>5 DEF HostSync, HostStep
<1>6. CASE HostConnect BY <1>6 DEF HostConnect, HostStep, HostFree, Published
<1>7. CASE HostLinkLost BY <1>7 DEF HostLinkLost, HostStep, BreakLink
<1>8. CASE HostReset BY <1>8 DEF HostReset, HostStep, BreakLink
<1>9. CASE OnSync BY <1>9 DEF OnSync, AdvertiseHook, HookFrame
<1>10. CASE OnConnectFailed BY <1>10 DEF OnConnectFailed, AdvertiseHook,
      HookFrame
<1>11. CASE OnConnect BY <1>11 DEF OnConnect, AttMtu, Handle, HookFrame
<1>12. CASE OnDisconnect BY <1>12 DEF OnDisconnect, HookFrame
<1>13. CASE OnMtu BY <1>13 DEF OnMtu, HookFrame
<1>14. CASE OnRegister BY <1>14 DEF OnRegister, HookFrame
<1>15. CASE OnWrite BY <1>15 DEF OnWrite, HookFrame
<1>16. CASE OnSubscriptionChanged BY <1>16 DEF OnSubscriptionChanged,
      HookFrame
<1>17. CASE OnNotifyComplete BY <1>17 DEF OnNotifyComplete, HookFrame
<1>18. CASE TailNack BY <1>18 DEF TailNack, TailFrame
<1>19. CASE TailNotifyIn BY <1>19 DEF TailNotifyIn, TailFrame
<1>20. CASE TailNotifyOut BY <1>20 DEF TailNotifyOut, TailFrame
<1>21. CASE BtpProduce BY <1>21 DEF BtpProduce
<1>22. CASE Feed BY <1>22 DEF Feed, Fail, InFrame
<1>23. CASE NothingIncoming BY <1>23 DEF NothingIncoming, InFrame
<1>24. CASE IncomingParks BY <1>24 DEF IncomingParks, InFrame
<1>25. CASE IncomingWakes BY <1>25 DEF IncomingWakes, InFrame
<1>26. CASE TakeAdvertise BY <1>26 DEF TakeAdvertise
<1>27. CASE advertise BY <1>27 DEF advertise
<1>28. CASE Indicate BY <1>28 DEF Indicate, Indicated, Fail, OutFrame
<1>29. CASE NothingOutgoing BY <1>29 DEF NothingOutgoing, OutFrame
<1>30. CASE OutgoingParks BY <1>30 DEF OutgoingParks, OutFrame
<1>31. CASE OutgoingWakes BY <1>31 DEF OutgoingWakes, OutFrame
<1>32. CASE UNCHANGED vars BY <1>32 DEF vars
<1>33. QED
      BY <1>1, <1>2, <1>3, <1>4, <1>5, <1>6, <1>7, <1>8, <1>9,
         <1>10, <1>11, <1>12, <1>13, <1>14, <1>15, <1>16, <1>17, <1>18, <1>19,
         <1>20, <1>21, <1>22, <1>23, <1>24, <1>25, <1>26, <1>27, <1>28, <1>29,
         <1>30, <1>31, <1>32
      DEF Next, Owner, Host, Hook, HookTail, process_incoming,
         process_outgoing

-----------------------------------------------------------------------------
(* Every action preserves each property.                                   *)

\* Connect makes the old session stale, and no pump uses a stale session.
LEMMA SessionIsolationStep ==
    ASSUME TypeOK, Coherent, SessionIsolation,
           [Next]_vars
    PROVE  SessionIsolation'
<1> USE ConstantsAssumption, GenerationsAssumption DEF SessionIsolation,
        TypeOK, TypeHost, TypeBtp, TypeCode, Coherent, HostSane, LinkTracked,
        DataOwned, Lifecycle, NoLink, NoGen, NoMtu, MinMtu, BigMtu, NoConn,
        NoData, codeVars, hostVars, btpVars, Connected, Occupied, Published,
        HostFree, Stale, SyncedFrames, SyncedSession, MaySend
<1>1. CASE New BY <1>1 DEF New, reset
<1>2. CASE Run BY <1>2 DEF Run
<1>3. CASE Drop BY <1>3 DEF Drop
<1>4. CASE DropDriver BY <1>4 DEF DropDriver
<1>5. CASE HostSync BY <1>5 DEF HostSync, HostStep
<1>6. CASE HostConnect BY <1>6 DEF HostConnect, HostStep, HostFree, Published
<1>7. CASE HostLinkLost BY <1>7 DEF HostLinkLost, HostStep, BreakLink
<1>8. CASE HostReset BY <1>8 DEF HostReset, HostStep, BreakLink
<1>9. CASE OnSync BY <1>9 DEF OnSync, AdvertiseHook, HookFrame
<1>10. CASE OnConnectFailed BY <1>10 DEF OnConnectFailed, AdvertiseHook,
      HookFrame
<1>11. CASE OnConnect BY <1>11 DEF OnConnect, AttMtu, Handle, HookFrame
<1>12. CASE OnDisconnect BY <1>12 DEF OnDisconnect, HookFrame
<1>13. CASE OnMtu BY <1>13 DEF OnMtu, HookFrame
<1>14. CASE OnRegister BY <1>14 DEF OnRegister, HookFrame
<1>15. CASE OnWrite BY <1>15 DEF OnWrite, HookFrame
<1>16. CASE OnSubscriptionChanged BY <1>16 DEF OnSubscriptionChanged,
      HookFrame
<1>17. CASE OnNotifyComplete BY <1>17 DEF OnNotifyComplete, HookFrame
<1>18. CASE TailNack BY <1>18 DEF TailNack, TailFrame
<1>19. CASE TailNotifyIn BY <1>19 DEF TailNotifyIn, TailFrame
<1>20. CASE TailNotifyOut BY <1>20 DEF TailNotifyOut, TailFrame
<1>21. CASE BtpProduce BY <1>21 DEF BtpProduce
<1>22. CASE Feed BY <1>22 DEF Feed, Fail, InFrame
<1>23. CASE NothingIncoming BY <1>23 DEF NothingIncoming, InFrame
<1>24. CASE IncomingParks BY <1>24 DEF IncomingParks, InFrame
<1>25. CASE IncomingWakes BY <1>25 DEF IncomingWakes, InFrame
<1>26. CASE TakeAdvertise BY <1>26 DEF TakeAdvertise
<1>27. CASE advertise BY <1>27 DEF advertise
<1>28. CASE Indicate BY <1>28 DEF Indicate, Indicated, Fail, OutFrame
<1>29. CASE NothingOutgoing BY <1>29 DEF NothingOutgoing, OutFrame
<1>30. CASE OutgoingParks BY <1>30 DEF OutgoingParks, OutFrame
<1>31. CASE OutgoingWakes BY <1>31 DEF OutgoingWakes, OutFrame
<1>32. CASE UNCHANGED vars BY <1>32 DEF vars
<1>33. QED
      BY <1>1, <1>2, <1>3, <1>4, <1>5, <1>6, <1>7, <1>8, <1>9,
         <1>10, <1>11, <1>12, <1>13, <1>14, <1>15, <1>16, <1>17, <1>18, <1>19,
         <1>20, <1>21, <1>22, <1>23, <1>24, <1>25, <1>26, <1>27, <1>28, <1>29,
         <1>30, <1>31, <1>32
      DEF Next, Owner, Host, Hook, HookTail, process_incoming,
         process_outgoing

\* A write is signalled after it is stored, and the signal is latched.
LEMMA IncomingStep ==
    ASSUME TypeOK, Coherent, IncomingNotLost,
           [Next]_vars
    PROVE  IncomingNotLost'
<1> USE DEF IncomingNotLost, TypeOK, TypeCode, Coherent, DataOwned, Lifecycle,
        NoLink, NoGen, NoMtu, MinMtu, BigMtu, NoConn, NoData, codeVars,
        hostVars, btpVars, Connected, Occupied, Published, HostFree
<1>1. CASE New BY <1>1 DEF New, reset
<1>2. CASE Run BY <1>2 DEF Run
<1>3. CASE Drop BY <1>3 DEF Drop
<1>4. CASE DropDriver BY <1>4 DEF DropDriver
<1>5. CASE HostSync BY <1>5 DEF HostSync, HostStep
<1>6. CASE HostConnect BY <1>6 DEF HostConnect, HostStep, HostFree, Published
<1>7. CASE HostLinkLost BY <1>7 DEF HostLinkLost, HostStep, BreakLink
<1>8. CASE HostReset BY <1>8 DEF HostReset, HostStep, BreakLink
<1>9. CASE OnSync BY <1>9 DEF OnSync, AdvertiseHook, HookFrame
<1>10. CASE OnConnectFailed BY <1>10 DEF OnConnectFailed, AdvertiseHook,
      HookFrame
<1>11. CASE OnConnect BY <1>11 DEF OnConnect, AttMtu, Handle, HookFrame
<1>12. CASE OnDisconnect BY <1>12 DEF OnDisconnect, HookFrame
<1>13. CASE OnMtu BY <1>13 DEF OnMtu, HookFrame
<1>14. CASE OnRegister BY <1>14 DEF OnRegister, HookFrame
<1>15. CASE OnWrite BY <1>15 DEF OnWrite, HookFrame
<1>16. CASE OnSubscriptionChanged BY <1>16 DEF OnSubscriptionChanged,
      HookFrame
<1>17. CASE OnNotifyComplete BY <1>17 DEF OnNotifyComplete, HookFrame
<1>18. CASE TailNack BY <1>18 DEF TailNack, TailFrame
<1>19. CASE TailNotifyIn BY <1>19 DEF TailNotifyIn, TailFrame
<1>20. CASE TailNotifyOut BY <1>20 DEF TailNotifyOut, TailFrame
<1>21. CASE BtpProduce BY <1>21 DEF BtpProduce
<1>22. CASE Feed BY <1>22 DEF Feed, Fail, InFrame
<1>23. CASE NothingIncoming BY <1>23 DEF NothingIncoming, InFrame
<1>24. CASE IncomingParks BY <1>24 DEF IncomingParks, InFrame
<1>25. CASE IncomingWakes BY <1>25 DEF IncomingWakes, InFrame
<1>26. CASE TakeAdvertise BY <1>26 DEF TakeAdvertise
<1>27. CASE advertise BY <1>27 DEF advertise
<1>28. CASE Indicate BY <1>28 DEF Indicate, Indicated, Fail, OutFrame
<1>29. CASE NothingOutgoing BY <1>29 DEF NothingOutgoing, OutFrame
<1>30. CASE OutgoingParks BY <1>30 DEF OutgoingParks, OutFrame
<1>31. CASE OutgoingWakes BY <1>31 DEF OutgoingWakes, OutFrame
<1>32. CASE UNCHANGED vars BY <1>32 DEF vars
<1>33. QED
      BY <1>1, <1>2, <1>3, <1>4, <1>5, <1>6, <1>7, <1>8, <1>9,
         <1>10, <1>11, <1>12, <1>13, <1>14, <1>15, <1>16, <1>17, <1>18, <1>19,
         <1>20, <1>21, <1>22, <1>23, <1>24, <1>25, <1>26, <1>27, <1>28, <1>29,
         <1>30, <1>31, <1>32
      DEF Next, Owner, Host, Hook, HookTail, process_incoming,
         process_outgoing

\* Whatever enables process_outgoing also signals it afterwards.
LEMMA OutgoingStep ==
    ASSUME TypeOK, Coherent, OutgoingNotLost,
           [Next]_vars
    PROVE  OutgoingNotLost'
<1> USE ConstantsAssumption, GenerationsAssumption DEF OutgoingNotLost,
        TypeOK, TypeCode, TypeThreads, TypeBtp, Coherent, HostSane,
        LinkTracked, NackTracked, RequestKept, Lifecycle, NoLink, NoGen,
        NoMtu, MinMtu, BigMtu, NoConn, NoData, codeVars, hostVars, btpVars,
        Connected, Occupied, Published, HostFree, Stale, SyncedFrames,
        SyncedSession, MaySend
<1>1. CASE New BY <1>1 DEF New, reset
<1>2. CASE Run BY <1>2 DEF Run
<1>3. CASE Drop BY <1>3 DEF Drop
<1>4. CASE DropDriver BY <1>4 DEF DropDriver
<1>5. CASE HostSync BY <1>5 DEF HostSync, HostStep
<1>6. CASE HostConnect BY <1>6 DEF HostConnect, HostStep, HostFree, Published
<1>7. CASE HostLinkLost BY <1>7 DEF HostLinkLost, HostStep, BreakLink
<1>8. CASE HostReset BY <1>8 DEF HostReset, HostStep, BreakLink
<1>9. CASE OnSync BY <1>9 DEF OnSync, AdvertiseHook, HookFrame
<1>10. CASE OnConnectFailed BY <1>10 DEF OnConnectFailed, AdvertiseHook,
      HookFrame
<1>11. CASE OnConnect BY <1>11 DEF OnConnect, AttMtu, Handle, HookFrame
<1>12. CASE OnDisconnect BY <1>12 DEF OnDisconnect, HookFrame
<1>13. CASE OnMtu BY <1>13 DEF OnMtu, HookFrame
<1>14. CASE OnRegister BY <1>14 DEF OnRegister, HookFrame
<1>15. CASE OnWrite BY <1>15 DEF OnWrite, HookFrame
<1>16. CASE OnSubscriptionChanged BY <1>16 DEF OnSubscriptionChanged,
      HookFrame
<1>17. CASE OnNotifyComplete BY <1>17 DEF OnNotifyComplete, HookFrame
<1>18. CASE TailNack BY <1>18 DEF TailNack, TailFrame
<1>19. CASE TailNotifyIn BY <1>19 DEF TailNotifyIn, TailFrame
<1>20. CASE TailNotifyOut BY <1>20 DEF TailNotifyOut, TailFrame
<1>21. CASE BtpProduce BY <1>21 DEF BtpProduce
<1>22. CASE Feed BY <1>22 DEF Feed, Fail, InFrame
<1>23. CASE NothingIncoming BY <1>23 DEF NothingIncoming, InFrame
<1>24. CASE IncomingParks BY <1>24 DEF IncomingParks, InFrame
<1>25. CASE IncomingWakes BY <1>25 DEF IncomingWakes, InFrame
<1>26. CASE TakeAdvertise BY <1>26 DEF TakeAdvertise
<1>27. CASE advertise BY <1>27 DEF advertise
<1>28. CASE Indicate BY <1>28 DEF Indicate, Indicated, Fail, OutFrame
<1>29. CASE NothingOutgoing BY <1>29 DEF NothingOutgoing, OutFrame
<1>30. CASE OutgoingParks BY <1>30 DEF OutgoingParks, OutFrame
<1>31. CASE OutgoingWakes BY <1>31 DEF OutgoingWakes, OutFrame
<1>32. CASE UNCHANGED vars BY <1>32 DEF vars
<1>33. QED
      BY <1>1, <1>2, <1>3, <1>4, <1>5, <1>6, <1>7, <1>8, <1>9,
         <1>10, <1>11, <1>12, <1>13, <1>14, <1>15, <1>16, <1>17, <1>18, <1>19,
         <1>20, <1>21, <1>22, <1>23, <1>24, <1>25, <1>26, <1>27, <1>28, <1>29,
         <1>30, <1>31, <1>32
      DEF Next, Owner, Host, Hook, HookTail, process_incoming,
         process_outgoing

\* out_nack is set before the indication and cleared after its completion.
LEMMA NackStep ==
    ASSUME TypeOK, Coherent, NackHonest, [Next]_vars
    PROVE  NackHonest'
<1> USE ConstantsAssumption DEF NackHonest, TypeOK, TypeHost, TypeCode,
        Coherent, NackTracked, Lifecycle, NoLink, NoGen, NoMtu, MinMtu,
        BigMtu, NoConn, NoData, codeVars, hostVars, btpVars, Connected,
        Occupied, Published, HostFree, Fail
<1>1. CASE New BY <1>1 DEF New, reset
<1>2. CASE Run BY <1>2 DEF Run
<1>3. CASE Drop BY <1>3 DEF Drop
<1>4. CASE DropDriver BY <1>4 DEF DropDriver
<1>5. CASE HostSync BY <1>5 DEF HostSync, HostStep
<1>6. CASE HostConnect BY <1>6 DEF HostConnect, HostStep, HostFree, Published
<1>7. CASE HostLinkLost BY <1>7 DEF HostLinkLost, HostStep, BreakLink
<1>8. CASE HostReset BY <1>8 DEF HostReset, HostStep, BreakLink
<1>9. CASE OnSync BY <1>9 DEF OnSync, AdvertiseHook, HookFrame
<1>10. CASE OnConnectFailed BY <1>10 DEF OnConnectFailed, AdvertiseHook,
      HookFrame
<1>11. CASE OnConnect BY <1>11 DEF OnConnect, AttMtu, Handle, HookFrame
<1>12. CASE OnDisconnect BY <1>12 DEF OnDisconnect, HookFrame
<1>13. CASE OnMtu BY <1>13 DEF OnMtu, HookFrame
<1>14. CASE OnRegister BY <1>14 DEF OnRegister, HookFrame
<1>15. CASE OnWrite BY <1>15 DEF OnWrite, HookFrame
<1>16. CASE OnSubscriptionChanged BY <1>16 DEF OnSubscriptionChanged,
      HookFrame
<1>17. CASE OnNotifyComplete BY <1>17 DEF OnNotifyComplete, HookFrame
<1>18. CASE TailNack BY <1>18 DEF TailNack, TailFrame
<1>19. CASE TailNotifyIn BY <1>19 DEF TailNotifyIn, TailFrame
<1>20. CASE TailNotifyOut BY <1>20 DEF TailNotifyOut, TailFrame
<1>21. CASE BtpProduce BY <1>21 DEF BtpProduce
<1>22. CASE Feed BY <1>22 DEF Feed, Fail, InFrame
<1>23. CASE NothingIncoming BY <1>23 DEF NothingIncoming, InFrame
<1>24. CASE IncomingParks BY <1>24 DEF IncomingParks, InFrame
<1>25. CASE IncomingWakes BY <1>25 DEF IncomingWakes, InFrame
<1>26. CASE TakeAdvertise BY <1>26 DEF TakeAdvertise
<1>27. CASE advertise BY <1>27 DEF advertise
<1>28. CASE Indicate
  <2>1. inflight = 0
        BY <1>28 DEF Indicate, MaySend
  <2>2. CASE Indicated
        BY <1>28, <2>1, <2>2 DEF Indicated, Indicate, OutFrame
  <2>3. CASE life' = "failed"
        BY <1>28, <2>1, <2>3 DEF Indicate, OutFrame
  <2>4. QED BY <1>28, <2>2, <2>3 DEF Indicate
<1>29. CASE NothingOutgoing BY <1>29 DEF NothingOutgoing, OutFrame
<1>30. CASE OutgoingParks BY <1>30 DEF OutgoingParks, OutFrame
<1>31. CASE OutgoingWakes BY <1>31 DEF OutgoingWakes, OutFrame
<1>32. CASE UNCHANGED vars BY <1>32 DEF vars
<1>33. QED
      BY <1>1, <1>2, <1>3, <1>4, <1>5, <1>6, <1>7, <1>8, <1>9,
         <1>10, <1>11, <1>12, <1>13, <1>14, <1>15, <1>16, <1>17, <1>18, <1>19,
         <1>20, <1>21, <1>22, <1>23, <1>24, <1>25, <1>26, <1>27, <1>28, <1>29,
         <1>30, <1>31, <1>32
      DEF Next, Owner, Host, Hook, HookTail, process_incoming,
         process_outgoing

\* Whatever ends link and advertising requests advertising.
LEMMA DiscoverableStep ==
    ASSUME TypeOK, Coherent, Discoverable,
           [Next]_vars
    PROVE  Discoverable'
<1> USE DEF Discoverable, TypeOK, TypeHost, Coherent, HostSane, Lifecycle,
        NoLink, NoGen, NoMtu, MinMtu, BigMtu, NoConn, NoData, codeVars,
        hostVars, btpVars, Fail
<1>1. CASE New BY <1>1 DEF New, reset
<1>2. CASE Run BY <1>2 DEF Run
<1>3. CASE Drop BY <1>3 DEF Drop
<1>4. CASE DropDriver BY <1>4 DEF DropDriver
<1>5. CASE HostSync BY <1>5 DEF HostSync, HostStep
<1>6. CASE HostConnect BY <1>6 DEF HostConnect, HostStep, HostFree, Published
<1>7. CASE HostLinkLost BY <1>7 DEF HostLinkLost, HostStep, BreakLink
<1>8. CASE HostReset BY <1>8 DEF HostReset, HostStep, BreakLink
<1>9. CASE OnSync BY <1>9 DEF OnSync, AdvertiseHook, HookFrame
<1>10. CASE OnConnectFailed BY <1>10 DEF OnConnectFailed, AdvertiseHook,
      HookFrame
<1>11. CASE OnConnect BY <1>11 DEF OnConnect, AttMtu, Handle, HookFrame
<1>12. CASE OnDisconnect BY <1>12 DEF OnDisconnect, HookFrame
<1>13. CASE OnMtu BY <1>13 DEF OnMtu, HookFrame
<1>14. CASE OnRegister BY <1>14 DEF OnRegister, HookFrame
<1>15. CASE OnWrite BY <1>15 DEF OnWrite, HookFrame
<1>16. CASE OnSubscriptionChanged BY <1>16 DEF OnSubscriptionChanged,
      HookFrame
<1>17. CASE OnNotifyComplete BY <1>17 DEF OnNotifyComplete, HookFrame
<1>18. CASE TailNack BY <1>18 DEF TailNack, TailFrame
<1>19. CASE TailNotifyIn BY <1>19 DEF TailNotifyIn, TailFrame
<1>20. CASE TailNotifyOut BY <1>20 DEF TailNotifyOut, TailFrame
<1>21. CASE BtpProduce BY <1>21 DEF BtpProduce
<1>22. CASE Feed BY <1>22 DEF Feed, Fail, InFrame
<1>23. CASE NothingIncoming BY <1>23 DEF NothingIncoming, InFrame
<1>24. CASE IncomingParks BY <1>24 DEF IncomingParks, InFrame
<1>25. CASE IncomingWakes BY <1>25 DEF IncomingWakes, InFrame
<1>26. CASE TakeAdvertise BY <1>26 DEF TakeAdvertise
<1>27. CASE advertise BY <1>27 DEF advertise
<1>28. CASE Indicate BY <1>28 DEF Indicate, Indicated, Fail, OutFrame
<1>29. CASE NothingOutgoing BY <1>29 DEF NothingOutgoing, OutFrame
<1>30. CASE OutgoingParks BY <1>30 DEF OutgoingParks, OutFrame
<1>31. CASE OutgoingWakes BY <1>31 DEF OutgoingWakes, OutFrame
<1>32. CASE UNCHANGED vars BY <1>32 DEF vars
<1>33. QED
      BY <1>1, <1>2, <1>3, <1>4, <1>5, <1>6, <1>7, <1>8, <1>9,
         <1>10, <1>11, <1>12, <1>13, <1>14, <1>15, <1>16, <1>17, <1>18, <1>19,
         <1>20, <1>21, <1>22, <1>23, <1>24, <1>25, <1>26, <1>27, <1>28, <1>29,
         <1>30, <1>31, <1>32
      DEF Next, Owner, Host, Hook, HookTail, process_incoming,
         process_outgoing

\* The connection record is replaced with the link.
LEMMA MtuStep ==
    ASSUME TypeOK, Coherent, MtuFits, [Next]_vars
    PROVE  MtuFits'
<1> USE ConstantsAssumption DEF MtuFits, TypeOK, TypeHost, TypeCode, Coherent,
        HostSane, LinkTracked, Lifecycle, NoLink, NoGen, NoMtu, MinMtu,
        BigMtu, NoConn, NoData, codeVars, hostVars, btpVars, Connected,
        Occupied, Published, HostFree
<1>1. CASE New BY <1>1 DEF New, reset
<1>2. CASE Run BY <1>2 DEF Run
<1>3. CASE Drop BY <1>3 DEF Drop
<1>4. CASE DropDriver BY <1>4 DEF DropDriver
<1>5. CASE HostSync BY <1>5 DEF HostSync, HostStep
<1>6. CASE HostConnect BY <1>6 DEF HostConnect, HostStep, HostFree, Published
<1>7. CASE HostLinkLost BY <1>7 DEF HostLinkLost, HostStep, BreakLink
<1>8. CASE HostReset BY <1>8 DEF HostReset, HostStep, BreakLink
<1>9. CASE OnSync BY <1>9 DEF OnSync, AdvertiseHook, HookFrame
<1>10. CASE OnConnectFailed BY <1>10 DEF OnConnectFailed, AdvertiseHook,
      HookFrame
<1>11. CASE OnConnect BY <1>11 DEF OnConnect, AttMtu, Handle, HookFrame
<1>12. CASE OnDisconnect BY <1>12 DEF OnDisconnect, HookFrame
<1>13. CASE OnMtu BY <1>13 DEF OnMtu, HookFrame
<1>14. CASE OnRegister BY <1>14 DEF OnRegister, HookFrame
<1>15. CASE OnWrite BY <1>15 DEF OnWrite, HookFrame
<1>16. CASE OnSubscriptionChanged BY <1>16 DEF OnSubscriptionChanged,
      HookFrame
<1>17. CASE OnNotifyComplete BY <1>17 DEF OnNotifyComplete, HookFrame
<1>18. CASE TailNack BY <1>18 DEF TailNack, TailFrame
<1>19. CASE TailNotifyIn BY <1>19 DEF TailNotifyIn, TailFrame
<1>20. CASE TailNotifyOut BY <1>20 DEF TailNotifyOut, TailFrame
<1>21. CASE BtpProduce BY <1>21 DEF BtpProduce
<1>22. CASE Feed BY <1>22 DEF Feed, Fail, InFrame
<1>23. CASE NothingIncoming BY <1>23 DEF NothingIncoming, InFrame
<1>24. CASE IncomingParks BY <1>24 DEF IncomingParks, InFrame
<1>25. CASE IncomingWakes BY <1>25 DEF IncomingWakes, InFrame
<1>26. CASE TakeAdvertise BY <1>26 DEF TakeAdvertise
<1>27. CASE advertise BY <1>27 DEF advertise
<1>28. CASE Indicate BY <1>28 DEF Indicate, Indicated, Fail, OutFrame
<1>29. CASE NothingOutgoing BY <1>29 DEF NothingOutgoing, OutFrame
<1>30. CASE OutgoingParks BY <1>30 DEF OutgoingParks, OutFrame
<1>31. CASE OutgoingWakes BY <1>31 DEF OutgoingWakes, OutFrame
<1>32. CASE UNCHANGED vars BY <1>32 DEF vars
<1>33. QED
      BY <1>1, <1>2, <1>3, <1>4, <1>5, <1>6, <1>7, <1>8, <1>9,
         <1>10, <1>11, <1>12, <1>13, <1>14, <1>15, <1>16, <1>17, <1>18, <1>19,
         <1>20, <1>21, <1>22, <1>23, <1>24, <1>25, <1>26, <1>27, <1>28, <1>29,
         <1>30, <1>31, <1>32
      DEF Next, Owner, Host, Hook, HookTail, process_incoming,
         process_outgoing

-----------------------------------------------------------------------------
(* The theorems.                                                           *)

\* A device that has just started satisfies the invariant.
LEMMA InitIInv == Init => IInv
<1> USE ConstantsAssumption
    DEF Init, NoLink, NoGen, NoMtu, MinMtu, BigMtu, NoConn, NoData, Connected,
        Occupied, Published
<1> SUFFICES ASSUME Init PROVE IInv OBVIOUS
<1>1. TypeCode BY NoDataType, NoConnType DEF TypeCode
<1>2. TypeThreads BY DEF TypeThreads, Lives
<1>3. TypeHost
  <2>1. host \in HostStates /\ hostEv \in HostEvents
        BY DEF HostStates, HostEvents
  <2>2. advRefused \in BOOLEAN OBVIOUS
  <2>3. QED BY <2>1, <2>2 DEF TypeHost
<1>4. TypeBtp
  <2>1. btpWake \in BOOLEAN OBVIOUS
  <2>2. frames \in 0..MaxFrames OBVIOUS
  <2>3. QED BY <2>1, <2>2 DEF TypeBtp
<1>5. Coherent
      BY DEF Coherent, Lifecycle, HostSane, LinkTracked, DataOwned,
             NackTracked, RequestKept, SessionTracked
<1>6. SessionIsolation BY DEF SessionIsolation
<1>7. /\ IncomingNotLost /\ OutgoingNotLost /\ NackHonest
      /\ Discoverable /\ MtuFits
      BY DEF IncomingNotLost, OutgoingNotLost, NackHonest, Discoverable, MtuFits
<1>8. QED BY <1>1, <1>2, <1>3, <1>4, <1>5, <1>6, <1>7 DEF IInv, TypeOK

\* Every step of the owner, the host, a hook or a pump preserves it.
LEMMA IInvStep == IInv /\ [Next]_vars => IInv'
<1> SUFFICES ASSUME IInv, [Next]_vars PROVE IInv' OBVIOUS
<1> USE DEF IInv
<1>1. /\ Lifecycle /\ HostSane /\ LinkTracked /\ DataOwned
      /\ NackTracked /\ RequestKept /\ SessionTracked
      BY DEF Coherent
<1>2. TypeOK'
      BY <1>1, TypeCodeStep, TypeThreadsStep, TypeHostStep, TypeBtpStep
      DEF TypeOK
<1>3. Coherent'
      BY <1>1, LifecycleStep, HostSaneStep, LinkTrackedStep, DataOwnedStep,
         NackTrackedStep, RequestKeptStep, SessionTrackedStep DEF Coherent
<1>4. SessionIsolation' BY SessionIsolationStep
<1>5. IncomingNotLost' BY IncomingStep
<1>6. OutgoingNotLost' BY OutgoingStep
<1>7. NackHonest' BY NackStep
<1>8. Discoverable' BY DiscoverableStep
<1>9. MtuFits' BY MtuStep
<1>10. QED BY <1>2, <1>3, <1>4, <1>5, <1>6, <1>7, <1>8, <1>9

\* IInv is an inductive invariant of the peripheral.
THEOREM Invariance == Spec => []IInv
BY InitIInv, IInvStep, PTL DEF Spec

\* Type correctness: at most one indication is in flight, and conn_gen does
\* not come round within MaxLinks connections (nimble.rs:330, 543-546).
THEOREM TypeCorrect == Spec => []TypeOK
<1>1. IInv => TypeOK BY DEF IInv
<1>2. QED BY <1>1, Invariance, PTL

\* The code's view stays coherent with the host's.
THEOREM CoherentTheorem == Spec => []Coherent
<1>1. IInv => Coherent BY DEF IInv
<1>2. QED BY <1>1, Invariance, PTL

\* No frame and no packet crosses from one connection's session to another's
\* (State::sync_btp, nimble.rs:124-137), for any number of reconnects.
THEOREM IsolationTheorem == Spec => []SessionIsolation
<1>1. IInv => SessionIsolation BY DEF IInv
<1>2. QED BY <1>1, Invariance, PTL

\* No wakeup of either pump is lost, whenever a hook's signal falls between the
\* pump's look and its wait (nimble.rs:426, 458, 507-509, 583-590).
THEOREM PumpsTheorem == Spec => []PumpsNotLost
<1>1. IInv => PumpsNotLost BY DEF IInv, PumpsNotLost
<1>2. QED BY <1>1, Invariance, PTL

\* out_nack is never stuck and never clear over an indication in flight,
\* with the completion inside indicate or after it (nimble.rs:561-580).
THEOREM NackTheorem == Spec => []NackHonest
<1>1. IInv => NackHonest BY DEF IInv
<1>2. QED BY <1>1, Invariance, PTL

\* A peripheral that is neither connected nor advertising is about to
\* advertise (nimble.rs:517-526).
THEOREM DiscoverableTheorem == Spec => []Discoverable
<1>1. IInv => Discoverable BY DEF IInv
<1>2. QED BY <1>1, Invariance, PTL

\* BTP is never given an MTU larger than the link's (nimble.rs:327, 367-379).
THEOREM MtuTheorem == Spec => []MtuFits
<1>1. IInv => MtuFits BY DEF IInv
<1>2. QED BY <1>1, Invariance, PTL

\* When nothing moves any more, nothing is left to do but what the peer owes:
\* hooks and pumps never wait for each other (nimble.rs:484-592).
THEOREM RestTheorem == Spec => []RestIsServed
<1>1. ASSUME IInv, AtRest
      PROVE  /\ ~in_data.accepted /\ ~need_advertise /\ ~MaySend
             /\ out_nack => inflight > 0
  BY <1>1 DEF IInv, AtRest, IncomingNotLost, OutgoingNotLost, NackHonest
<1>2. ASSUME IInv, AtRest PROVE connection.link = link
  <2>1. CASE link = NoLink
    BY <1>2, <2>1 DEF IInv, AtRest, Coherent, LinkTracked, Published, Connected
  <2>2. CASE link # NoLink
    BY <1>2, <2>2 DEF IInv, AtRest, Coherent, LinkTracked, Published, Connected
  <2>3. QED BY <2>1, <2>2
<1>3. ASSUME IInv, AtRest, host = "synced", link = NoLink
      PROVE  adv = "payload" \/ advRefused
  BY <1>1, <1>3 DEF IInv, AtRest, Discoverable, TypeOK, TypeHost
<1>4. IInv => RestIsServed
  BY <1>1, <1>2, <1>3 DEF RestIsServed, MaySend
<1>5. QED BY <1>4, Invariance, PTL

-----------------------------------------------------------------------------
(* The refinement of BtpTransport.                                         *)

\* A nonempty part of a singleton is all of it.
LEMMA Singleton ==
    ASSUME NEW x, NEW S, S # {}, S \subseteq {x}
    PROVE  S = {x}
OBVIOUS

\* Every step of the peripheral is a step of the transport or changes nothing
\* the transport shows: Connect attaches, Disconnect detaches, a lost link
\* loses what it carried, Feed receives, the pumps' first sync discards and
\* Indicate sends.
LEMMA TransportStep ==
    ASSUME IInv, [Next]_vars
    PROVE  [Transport!Next]_(Transport!vars)
<1> USE ConstantsAssumption, GenerationsAssumption DEF IInv, TypeOK, TypeCode,
        TypeHost, TypeBtp, Coherent, Lifecycle, HostSane, LinkTracked,
        DataOwned, SessionTracked, SessionIsolation, NoLink, NoGen, NoMtu,
        MinMtu, BigMtu, NoConn, NoData, codeVars, hostVars, btpVars,
        Connected, Occupied, Published, HostFree, Stale, SyncedFrames,
        SyncedSession, MaySend, Transport!Next, Transport!vars,
        Transport!Attach, Transport!Detach, Transport!Lose, Transport!Receive,
        Transport!Discard, Transport!Send
<1>1. CASE New BY <1>1 DEF New, reset
<1>2. CASE Run BY <1>2 DEF Run
<1>3. CASE Drop BY <1>3 DEF Drop
<1>4. CASE DropDriver BY <1>4 DEF DropDriver
<1>5. CASE HostSync BY <1>5 DEF HostSync, HostStep
<1>6. CASE HostConnect BY <1>6 DEF HostConnect, HostStep, HostFree, Published
<1>7. CASE HostLinkLost BY <1>7 DEF HostLinkLost, HostStep, BreakLink
<1>8. CASE HostReset BY <1>8 DEF HostReset, HostStep, BreakLink
<1>9. CASE OnSync BY <1>9 DEF OnSync, AdvertiseHook, HookFrame
<1>10. CASE OnConnectFailed BY <1>10 DEF OnConnectFailed, AdvertiseHook,
      HookFrame
<1>11. CASE OnConnect BY <1>11 DEF OnConnect, AttMtu, Handle, HookFrame
<1>12. CASE OnDisconnect BY <1>12 DEF OnDisconnect, HookFrame
<1>13. CASE OnMtu BY <1>13 DEF OnMtu, HookFrame
<1>14. CASE OnRegister BY <1>14 DEF OnRegister, HookFrame
<1>15. CASE OnWrite BY <1>15 DEF OnWrite, HookFrame
<1>16. CASE OnSubscriptionChanged BY <1>16 DEF OnSubscriptionChanged,
      HookFrame
<1>17. CASE OnNotifyComplete BY <1>17 DEF OnNotifyComplete, HookFrame
<1>18. CASE TailNack BY <1>18 DEF TailNack, TailFrame
<1>19. CASE TailNotifyIn BY <1>19 DEF TailNotifyIn, TailFrame
<1>20. CASE TailNotifyOut BY <1>20 DEF TailNotifyOut, TailFrame
<1>21. CASE BtpProduce BY <1>21 DEF BtpProduce
<1>22. CASE Feed BY <1>22 DEF Feed, Fail, InFrame
<1>23. CASE NothingIncoming BY <1>23 DEF NothingIncoming, InFrame
<1>24. CASE IncomingParks BY <1>24 DEF IncomingParks, InFrame
<1>25. CASE IncomingWakes BY <1>25 DEF IncomingWakes, InFrame
<1>26. CASE TakeAdvertise BY <1>26 DEF TakeAdvertise
<1>27. CASE advertise BY <1>27 DEF advertise
<1>28. CASE Indicate
  <2>1. /\ connection.link # NoLink /\ ~Stale /\ session # {}
        /\ session \subseteq {connection.link}
        BY <1>28 DEF Indicate
  <2>2. session = {connection.link}
        BY <2>1, Singleton
  <2>3. session' = session /\ connection' = connection
        BY <1>28, <2>1 DEF Indicate, OutFrame
  <2>4. CASE wire' = wire
        BY <2>2, <2>3, <2>4
  <2>5. CASE link # NoLink /\ wire' = wire \cup SyncedSession
    <3>1. wire' = {connection.link}
          BY <2>1, <2>2, <2>5
    <3>2. QED BY <2>1, <2>2, <2>3, <3>1
  <2>6. QED BY <1>28, <2>4, <2>5 DEF Indicate
<1>29. CASE NothingOutgoing BY <1>29 DEF NothingOutgoing, OutFrame
<1>30. CASE OutgoingParks BY <1>30 DEF OutgoingParks, OutFrame
<1>31. CASE OutgoingWakes BY <1>31 DEF OutgoingWakes, OutFrame
<1>32. CASE UNCHANGED vars BY <1>32 DEF vars
<1>33. QED
      BY <1>1, <1>2, <1>3, <1>4, <1>5, <1>6, <1>7, <1>8, <1>9,
         <1>10, <1>11, <1>12, <1>13, <1>14, <1>15, <1>16, <1>17, <1>18, <1>19,
         <1>20, <1>21, <1>22, <1>23, <1>24, <1>25, <1>26, <1>27, <1>28, <1>29,
         <1>30, <1>31, <1>32
      DEF Next, Owner, Host, Hook, HookTail, process_incoming,
         process_outgoing

\* The peripheral implements BtpTransport: one session per connection, never
\* mixed, never thrown away under the connected peer (nimble.rs:124-137).
THEOREM TransportTheorem == Spec => ImplementsTransport
<1>1. Init => Transport!Init
      BY DEF Init, Transport!Init, NoConn, NoLink
<1>2. QED
      BY <1>1, Invariance, TransportStep, PTL
      DEF Spec, ImplementsTransport, Transport!Spec
=============================================================================
