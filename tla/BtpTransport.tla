---------------------------- MODULE BtpTransport ----------------------------
(***************************************************************************)
(* What a GATT peripheral promises the BTP engine: one session per BLE     *)
(* connection.  A session takes in packets of the connected peer only, is  *)
(* thrown away only when it belongs to somebody else, and only its frames  *)
(* are sent to that peer.  The engine itself (rs_matter's Btp) is external *)
(* and appears as the set of peers its session has heard.                  *)
(***************************************************************************)
CONSTANTS
    Peers,   \* the connections there may be
    None     \* no connection

VARIABLES
    peer,       \* the connection being served, or None
    session,    \* the peers whose packets the session has taken in
    sent        \* the peers whose session's frames the link has carried

vars == <<peer, session, sent>>

Init == peer = None /\ session = {} /\ sent = {}

\* A connection nobody has heard of yet.
Attach(p) ==
    /\ peer = None /\ p # None /\ p \notin session
    /\ peer' = p
    /\ UNCHANGED <<session, sent>>

Detach ==
    /\ peer # None
    /\ peer' = None /\ sent' = {}
    /\ UNCHANGED session

\* The link is gone, the transport has not been told yet.
Lose == sent' = {} /\ UNCHANGED <<peer, session>>

\* A packet of the peer starts its session or joins it.
Receive ==
    /\ peer # None
    /\ session' = {peer}
    /\ UNCHANGED <<peer, sent>>

\* The session left over by another connection is dropped.
Discard ==
    /\ peer # None /\ peer \notin session
    /\ session' = {}
    /\ UNCHANGED <<peer, sent>>

Send ==
    /\ peer # None /\ session = {peer}
    /\ sent' = {peer}
    /\ UNCHANGED <<peer, session>>

Next == \/ \E p \in Peers : Attach(p)
        \/ Detach \/ Lose \/ Receive \/ Discard \/ Send

Spec == Init /\ [][Next]_vars
=============================================================================
