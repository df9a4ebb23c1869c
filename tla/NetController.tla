----------------------------- MODULE NetController -----------------------------
(***************************************************************************)
(* What a wireless network controller (NetCtl::connect of                   *)
(* src/thread.rs and src/wifi.rs) promises the Matter stack.                *)
(*                                                                         *)
(* One call is in control at a time.  It turns the stack to the network it  *)
(* was asked for, which leaves the one joined before; from then on the      *)
(* stack is on that network or on none, also after the call, until another  *)
(* call is in control.  Ok is said only on the network asked for.           *)
(***************************************************************************)
CONSTANTS Networks, NoNetwork, Callers, NoOne

VARIABLES
    owner,    \* the call in control
    asked,    \* what each pending call was asked for
    wanted,   \* the network the stack was last turned to
    joined,   \* the network the stack is on
    answer    \* what each caller was last told

vars == <<owner, asked, wanted, joined, answer>>

Init ==
    /\ owner = NoOne /\ asked = [c \in Callers |-> NoNetwork]
    /\ wanted \in Networks \cup {NoNetwork} /\ joined = NoNetwork
    /\ answer = [c \in Callers |-> "none"]

Free == owner = NoOne

Ask(c, n) ==
    /\ asked[c] = NoNetwork /\ n # NoNetwork
    /\ asked' = [asked EXCEPT ![c] = n]
    /\ answer' = [answer EXCEPT ![c] = "none"]
    /\ UNCHANGED <<owner, wanted, joined>>

\* The stack is turned to the network of call c, or left as it is; whatever
\* was joined may be gone, and is if the network changes.
Turn(c) ==
    /\ wanted' \in {wanted, asked[c]} /\ joined' \in {joined, NoNetwork}
    /\ wanted' # wanted => joined' = NoNetwork

\* Call c is in control: from now on, or still.
Control(c) ==
    /\ asked[c] # NoNetwork /\ owner \in {NoOne, c} /\ owner' = c
    /\ Turn(c) /\ UNCHANGED <<asked, answer>>

Done(c) == /\ asked' = [asked EXCEPT ![c] = NoNetwork]
           /\ owner' = IF owner = c THEN NoOne ELSE owner

SayOk(c) ==
    /\ owner = c /\ joined = asked[c] /\ wanted = asked[c]
    /\ answer' = [answer EXCEPT ![c] = "ok"]
    /\ Done(c) /\ UNCHANGED <<wanted, joined>>

\* A call that fails may still turn the stack, if nobody else is in control.
SayError(c) ==
    /\ asked[c] # NoNetwork /\ owner \in {NoOne, c}
    /\ answer' = [answer EXCEPT ![c] = "error"]
    /\ Done(c) /\ Turn(c)

Cancel(c) ==
    /\ asked[c] # NoNetwork /\ Done(c) /\ UNCHANGED <<wanted, joined, answer>>

Join == /\ joined = NoNetwork /\ wanted # NoNetwork /\ joined' = wanted
        /\ UNCHANGED <<owner, asked, wanted, answer>>

Leave == joined' = NoNetwork /\ UNCHANGED <<owner, asked, wanted, answer>>

\* The driver goes or comes: every call with it, and possibly the setting.
Restart ==
    /\ owner' = NoOne /\ asked' = [c \in Callers |-> NoNetwork]
    /\ answer' = [c \in Callers |-> "none"]
    /\ joined' = NoNetwork /\ wanted' \in {wanted, NoNetwork}

Next ==
    \/ \E c \in Callers : \/ \E n \in Networks : Ask(c, n)
                          \/ Control(c) \/ SayOk(c) \/ SayError(c) \/ Cancel(c)
    \/ Join \/ Leave \/ Restart

Spec == Init /\ [][Next]_vars
=============================================================================
