---------------------------- MODULE WifiNetProofs ----------------------------
(***************************************************************************)
(* What holds of the Wi-Fi controller (WifiNet) for any number of networks, *)
(* callers, runs and failures: its types and its mutex, and that it         *)
(* implements NetController.                                                *)
(***************************************************************************)
EXTENDS WifiNet, TLAPS

-----------------------------------------------------------------------------
(* The inductive invariant: TypeOK in three parts, and what the stages of a *)
(* call know of the station.                                                *)

TypeStation ==
    /\ driver \in {"off", "up"} /\ started \in BOOLEAN /\ trying \in BOOLEAN
    /\ conf \in Networks \cup {NoNetwork}
    /\ assoc \in Networks \cup {NoNetwork}
    /\ started \/ (assoc = NoNetwork /\ ~trying)

TypeCalls ==
    /\ pc \in [Callers -> Stages]
    /\ target \in [Callers -> Networks \cup {NoNetwork}]
    /\ tried \in [Callers -> 0..3]
    /\ outcome \in [Callers -> {"none", "ok", "connection", "bind", "error"}]

TypeRest ==
    /\ addrs \subseteq {"v4", "v6"} /\ operational \in BOOLEAN
    /\ scanPc \in {"idle", "scan"}
    /\ wpc \in {"check", "subscribe", "wait"} /\ wevent \in BOOLEAN

\* One future is past its lock.
MutexHeld ==
    /\ lock \in Callers \cup {NoOne, Scanner}
    /\ \A c \in Callers : pc[c] \in Holding <=> lock = c
    /\ scanPc = "scan" <=> lock = Scanner

\* A future exists for as long as it has a network to connect to.
CallsAsk == \A c \in Callers : pc[c] = "idle" <=> target[c] = NoNetwork

\* What was there before is gone when a call configures its network, and the
\* configuration is its network while it waits.
StationTurned ==
    /\ \A c \in Callers : pc[c] = "configure" => assoc = NoNetwork /\ ~trying
    /\ \A c \in Callers : pc[c] \in {"assoc", "ip"} => conf = target[c]
    /\ assoc \in {NoNetwork, conf}

IInv == /\ TypeStation /\ TypeCalls /\ TypeRest
        /\ MutexHeld /\ CallsAsk /\ StationTurned

LEMMA FourMethods == Len(AuthMethods) = 4
BY DEF AuthMethods

LEMMA TypesFollow == IInv => TypeOK
<1>1. 0..(Len(AuthMethods) - 1) = 0..3 BY FourMethods
<1>2. ASSUME IInv PROVE {started, trying} \subseteq BOOLEAN
  BY <1>2, Zenon DEF IInv, TypeStation
<1>3. ASSUME IInv
      PROVE  /\ assoc \in IF started THEN Networks \cup {NoNetwork} ELSE {NoNetwork}
             /\ trying => started
  BY <1>3 DEF IInv, TypeStation
<1>4. ASSUME IInv PROVE tried \in [Callers -> 0..(Len(AuthMethods) - 1)]
  BY <1>1, <1>4, Zenon DEF IInv, TypeCalls
<1>5. QED
  BY <1>2, <1>3, <1>4, Zenon
  DEF IInv, TypeOK, TypeStation, TypeCalls, TypeRest, MutexHeld

LEMMA InitIInv == Init => IInv
<1> SUFFICES ASSUME Init PROVE IInv OBVIOUS
<1> USE WifiAssumption DEF Init
<1>1. TypeStation /\ TypeRest BY DEF TypeStation, TypeRest
<1>2. TypeCalls BY DEF TypeCalls, Stages
<1>3. MutexHeld /\ CallsAsk /\ StationTurned
  BY DEF MutexHeld, CallsAsk, StationTurned, Holding
<1>4. QED BY <1>1, <1>2, <1>3 DEF IInv

-----------------------------------------------------------------------------
(* Every step preserves it.                                                *)

LEMMA DriverStep ==
    ASSUME IInv, Start \/ Stop PROVE IInv'
<1> USE WifiAssumption
<1>1. CASE Start
  BY <1>1 DEF Start, IInv, TypeStation, TypeCalls, TypeRest, MutexHeld, CallsAsk,
              StationTurned, Stages, Holding, wifiVars, callVars, scanVars, watchVars
<1>2. CASE Stop
  <2>1. TypeStation' /\ TypeRest' BY <1>2 DEF Stop, IInv, TypeStation, TypeRest
  <2>2. TypeCalls' BY <1>2 DEF Stop, TypeCalls, Stages
  <2>3. MutexHeld' /\ CallsAsk' /\ StationTurned'
    BY <1>2 DEF Stop, MutexHeld, CallsAsk, StationTurned, Holding
  <2>4. QED BY <2>1, <2>2, <2>3 DEF IInv
<1>3. QED BY <1>1, <1>2

LEMMA StationStep ==
    ASSUME IInv, AttemptEnds \/ LosesAssoc \/ AddrChange PROVE IInv'
<1> USE WifiAssumption DEF IInv, TypeStation, TypeCalls, TypeRest, MutexHeld, CallsAsk,
        StationTurned, Stages, Holding, WifiFrame, callVars, scanVars
<1>1. CASE AttemptEnds BY <1>1 DEF AttemptEnds
<1>2. CASE LosesAssoc BY <1>2 DEF LosesAssoc
<1>3. CASE AddrChange
  <2>1. wevent' \in BOOLEAN BY <1>3 DEF AddrChange, IpEvent
  <2>2. addrs' \subseteq {"v4", "v6"} BY <1>3 DEF AddrChange
  <2>3. QED BY <1>3, <2>1, <2>2 DEF AddrChange
<1>4. QED BY <1>1, <1>2, <1>3

LEMMA ScanStep ==
    ASSUME IInv, ScanBegin \/ ScanReturn PROVE IInv'
<1> USE WifiAssumption DEF IInv, TypeStation, TypeCalls, TypeRest, MutexHeld, CallsAsk,
        StationTurned, Stages, Holding, ScanFrame, watchVars
<1>1. CASE ScanBegin BY <1>1 DEF ScanBegin
<1>2. CASE ScanReturn BY <1>2 DEF ScanReturn
<1>3. QED BY <1>1, <1>2

LEMMA WatchStep ==
    ASSUME IInv, Check \/ Subscribe \/ WaitEnds PROVE IInv'
<1> USE WifiAssumption DEF IInv, TypeStation, TypeCalls, TypeRest, MutexHeld, CallsAsk,
        StationTurned, Stages, Holding, WatchFrame, wifiVars, callVars, scanVars
<1>1. CASE Check
  <2>1. operational' \in BOOLEAN BY <1>1 DEF Check, Operational, Connected
  <2>2. QED BY <1>1, <2>1 DEF Check
<1>2. CASE Subscribe BY <1>2 DEF Subscribe
<1>3. CASE WaitEnds BY <1>3 DEF WaitEnds
<1>4. QED BY <1>1, <1>2, <1>3

\* What a call that returns leaves of its own state: no call holds the mutex.
LEMMA ReturnKeeps ==
    ASSUME IInv, NEW c \in Callers, pc[c] \in Holding, UNCHANGED scanPc,
           NEW r \in {"ok", "connection", "bind", "error"}, Return(c, r)
    PROVE  /\ TypeCalls' /\ MutexHeld' /\ CallsAsk'
           /\ \A d \in Callers : pc'[d] \notin Holding
<1> USE WifiAssumption DEF IInv, Return, Goto
<1>1. TypeCalls' BY DEF TypeCalls, Stages
<1>2. MutexHeld' /\ \A d \in Callers : pc'[d] \notin Holding
  BY DEF MutexHeld, TypeCalls, Holding
<1>3. CallsAsk' BY DEF CallsAsk, TypeCalls
<1>4. QED BY <1>1, <1>2, <1>3

\* A call in the middle of its methods goes on with another one, or ends.
LEMMA MethodKeeps ==
    ASSUME IInv, NEW c \in Callers, pc[c] \in Holding, UNCHANGED scanPc,
           MethodFails(c)
    PROVE  /\ TypeCalls' /\ MutexHeld' /\ CallsAsk'
           /\ \A d \in Callers : pc'[d] \notin Holding \/ pc'[d] = "attempt"
<1> USE WifiAssumption
<1>1. CASE Return(c, "connection") BY <1>1, ReturnKeeps
<1>2. CASE /\ NextMethod(c) < Len(AuthMethods) /\ Goto(c, "attempt")
           /\ tried' = [tried EXCEPT ![c] = NextMethod(c)]
           /\ UNCHANGED <<target, outcome, lock>>
  <2> USE <1>2 DEF IInv, Goto
  <2>1. NextMethod(c) \in 0..3
    BY FourMethods DEF NextMethod, TypeCalls
  <2>2. TypeCalls' BY <2>1 DEF TypeCalls, Stages
  <2>3. MutexHeld' /\ \A d \in Callers : pc'[d] \notin Holding \/ pc'[d] = "attempt"
    BY DEF MutexHeld, TypeCalls, Holding
  <2>4. CallsAsk' BY DEF CallsAsk, TypeCalls, Holding
  <2>5. QED BY <2>2, <2>3, <2>4
<1>3. QED BY <1>1, <1>2 DEF MethodFails

\* A call that keeps the mutex from one stage to the next.
LEMMA StageKeeps ==
    ASSUME IInv, NEW c \in Callers, pc[c] \in Holding, UNCHANGED scanPc,
           NEW stage \in Holding, Goto(c, stage),
           UNCHANGED <<target, tried, outcome, lock>>
    PROVE  /\ TypeCalls' /\ MutexHeld' /\ CallsAsk'
           /\ \A d \in Callers : d # c => pc'[d] \notin Holding
<1> USE WifiAssumption DEF IInv, Goto
<1>1. TypeCalls' BY DEF TypeCalls, Stages, Holding
<1>2. MutexHeld' /\ \A d \in Callers : d # c => pc'[d] \notin Holding
  BY DEF MutexHeld, TypeCalls, Holding
<1>3. CallsAsk' BY DEF CallsAsk, TypeCalls, Holding
<1>4. QED BY <1>1, <1>2, <1>3

LEMMA CallStep ==
    ASSUME IInv, NEW c \in Callers, Call(c) PROVE IInv'
<1> USE WifiAssumption DEF IInv, Call, Goto, CallFrame
<1>1. TypeStation' /\ TypeRest' BY DEF TypeStation, TypeRest, wifiVars, watchVars
<1>2. TypeCalls' BY DEF TypeCalls, Stages
<1>3. MutexHeld' BY DEF MutexHeld, TypeCalls, Holding
<1>4. CallsAsk' BY DEF CallsAsk, TypeCalls
<1>5. StationTurned' BY DEF StationTurned, TypeCalls, wifiVars
<1>6. QED BY <1>1, <1>2, <1>3, <1>4, <1>5

LEMMA BeginStep ==
    ASSUME IInv, NEW c \in Callers, Begin(c) PROVE IInv'
<1> USE WifiAssumption DEF IInv, Begin, Goto, CallFrame, Holder
<1>1. TypeStation' /\ TypeRest' BY DEF TypeStation, TypeRest, wifiVars, watchVars
<1>2. TypeCalls' BY DEF TypeCalls, Stages
<1>3. MutexHeld' BY DEF MutexHeld, TypeCalls, Holding
<1>4. CallsAsk' BY DEF CallsAsk, TypeCalls
<1>5. StationTurned' BY DEF StationTurned, TypeCalls, wifiVars
<1>6. QED BY <1>1, <1>2, <1>3, <1>4, <1>5

LEMMA CancelStep ==
    ASSUME IInv, NEW c \in Callers, Cancel(c) PROVE IInv'
<1> USE WifiAssumption DEF IInv, Cancel, Goto, CallFrame
<1>1. TypeStation' /\ TypeRest' BY DEF TypeStation, TypeRest, wifiVars, watchVars
<1>2. TypeCalls' BY DEF TypeCalls, Stages
<1>3. MutexHeld' BY DEF MutexHeld, TypeCalls, Holding
<1>4. CallsAsk' BY DEF CallsAsk, TypeCalls
<1>5. StationTurned' BY DEF StationTurned, TypeCalls, wifiVars
<1>6. QED BY <1>1, <1>2, <1>3, <1>4, <1>5

LEMMA DisconnectStep ==
    ASSUME IInv, NEW c \in Callers, Disconnect(c) PROVE IInv'
<1> USE WifiAssumption DEF IInv, Disconnect, CallFrame, Disassociates
<1>1. TypeStation' /\ TypeRest' BY DEF TypeStation, TypeRest, watchVars
<1>2. pc[c] \in Holding /\ "configure" \in Holding BY DEF Holding
<1>3. /\ TypeCalls' /\ MutexHeld' /\ CallsAsk'
      /\ \A d \in Callers : d # c => pc'[d] \notin Holding
  BY <1>2, StageKeeps
<1>4. StationTurned' BY <1>3 DEF StationTurned, TypeCalls, Goto, Holding
<1>5. QED BY <1>1, <1>3, <1>4

LEMMA ConfigureStep ==
    ASSUME IInv, NEW c \in Callers, Configure(c) PROVE IInv'
<1> USE WifiAssumption
<1>1. /\ pc[c] = "configure" /\ pc[c] \in Holding /\ assoc = NoNetwork /\ assoc' = assoc
      /\ UNCHANGED <<driver, addrs, operational, scanPc, wpc, wevent>>
  BY DEF Configure, CallFrame, IInv, StationTurned, Holding, watchVars
<1>2. TypeRest' BY <1>1 DEF IInv, TypeRest
<1>3. CASE /\ CallFails /\ conf' \in {conf, target[c]}
           /\ Return(c, "error") /\ UNCHANGED <<started, trying>>
  <2>1. TypeStation' BY <1>1, <1>3 DEF IInv, TypeStation, TypeCalls
  <2>2. /\ TypeCalls' /\ MutexHeld' /\ CallsAsk'
        /\ \A d \in Callers : pc'[d] \notin Holding
    BY <1>1, <1>3, ReturnKeeps
  <2>3. StationTurned' BY <1>1, <2>2 DEF StationTurned, Holding
  <2>4. QED BY <1>2, <2>1, <2>2, <2>3 DEF IInv
<1>4. CASE /\ conf' = target[c] /\ started' = TRUE /\ trying' = TRUE
           /\ Goto(c, "assoc") /\ UNCHANGED <<target, tried, outcome, lock, faults>>
  <2>1. TypeStation' BY <1>1, <1>4 DEF IInv, TypeStation, TypeCalls
  <2>2. /\ TypeCalls' /\ MutexHeld' /\ CallsAsk'
        /\ \A d \in Callers : d # c => pc'[d] \notin Holding
    <3>1. "assoc" \in Holding BY DEF Holding
    <3>2. QED BY <1>1, <1>4, <3>1, StageKeeps
  <2>3. StationTurned'
    BY <1>1, <1>4, <2>2 DEF StationTurned, Holding, Goto, IInv, TypeCalls
  <2>4. QED BY <1>2, <2>1, <2>2, <2>3 DEF IInv
<1>5. CASE /\ conf' = target[c] /\ started' = TRUE
           /\ CallFails /\ UNCHANGED trying /\ MethodFails(c)
  <2>1. TypeStation' BY <1>1, <1>5 DEF IInv, TypeStation, TypeCalls
  <2>2. /\ TypeCalls' /\ MutexHeld' /\ CallsAsk'
        /\ \A d \in Callers : pc'[d] \notin Holding \/ pc'[d] = "attempt"
    BY <1>1, <1>5, MethodKeeps
  <2>3. StationTurned' BY <1>1, <2>2 DEF StationTurned, Holding
  <2>4. QED BY <1>2, <2>1, <2>2, <2>3 DEF IInv
<1>6. QED BY <1>3, <1>4, <1>5 DEF Configure

\* The waits of a call, whichever way they end.
LEMMA WaitStep ==
    ASSUME IInv, NEW c \in Callers,
           Associated(c) \/ AssocTimeout(c) \/ Addressed(c) \/ AddressTimeout(c)
    PROVE  IInv'
<1> USE WifiAssumption
<1>1. /\ pc[c] \in {"assoc", "ip"} /\ pc[c] \in Holding /\ conf = target[c]
      /\ UNCHANGED <<driver, started, conf, addrs, scanPc, wpc, wevent>>
      /\ UNCHANGED <<assoc, trying>> \/ (assoc' = NoNetwork /\ trying' = FALSE)
  BY DEF Associated, AssocTimeout, Addressed, AddressTimeout, CallFrame, wifiVars,
         watchVars, IInv, StationTurned, Holding, Disassociates
<1>2. TypeStation'
  <2>1. CASE UNCHANGED <<assoc, trying>> BY <1>1, <2>1 DEF IInv, TypeStation
  <2>2. CASE assoc' = NoNetwork /\ trying' = FALSE
    <3>1. trying' \in BOOLEAN /\ ~trying' BY <2>2, Zenon
    <3>2. assoc' \in Networks \cup {NoNetwork} BY <2>2, Zenon
    <3>3. QED BY <1>1, <2>2, <3>1, <3>2, Zenon DEF IInv, TypeStation
  <2>3. QED BY <1>1, <2>1, <2>2
<1>3. operational' \in BOOLEAN
  BY DEF Associated, AssocTimeout, Addressed, AddressTimeout, IInv, TypeRest
<1>4. TypeRest' BY <1>1, <1>3 DEF IInv, TypeRest
<1>5. CASE Goto(c, "ip") /\ UNCHANGED <<target, tried, outcome, lock>>
  <2>1. "ip" \in Holding BY DEF Holding
  <2>2. /\ TypeCalls' /\ MutexHeld' /\ CallsAsk'
        /\ \A d \in Callers : d # c => pc'[d] \notin Holding
    BY <1>1, <1>5, <2>1, StageKeeps
  <2>3. StationTurned'
    BY <1>1, <1>5, <2>2 DEF StationTurned, Holding, Goto, IInv, TypeCalls
  <2>4. QED BY <1>2, <1>4, <2>2, <2>3 DEF IInv
<1>6. ASSUME NEW r \in {"ok", "connection", "bind", "error"}, Return(c, r) PROVE IInv'
  <2>1. /\ TypeCalls' /\ MutexHeld' /\ CallsAsk'
        /\ \A d \in Callers : pc'[d] \notin Holding
    BY <1>1, <1>6, ReturnKeeps
  <2>2. StationTurned' BY <1>1, <2>1 DEF StationTurned, Holding, IInv
  <2>3. QED BY <1>2, <1>4, <2>1, <2>2 DEF IInv
<1>7. CASE MethodFails(c)
  <2>1. /\ TypeCalls' /\ MutexHeld' /\ CallsAsk'
        /\ \A d \in Callers : pc'[d] \notin Holding \/ pc'[d] = "attempt"
    BY <1>1, <1>7, MethodKeeps
  <2>2. StationTurned' BY <1>1, <2>1 DEF StationTurned, Holding, IInv
  <2>3. QED BY <1>2, <1>4, <2>1, <2>2 DEF IInv
<1>8. QED
  BY <1>5, <1>6, <1>7 DEF Associated, AssocTimeout, Addressed, AddressTimeout

LEMMA NextStep == IInv /\ [Next]_vars => IInv'
<1> SUFFICES ASSUME IInv, [Next]_vars PROVE IInv' OBVIOUS
<1>1. CASE Start \/ Stop BY <1>1, DriverStep
<1>2. CASE AttemptEnds \/ LosesAssoc \/ AddrChange BY <1>2, StationStep
<1>3. ASSUME NEW c \in Callers, Call(c) \/ Begin(c) \/ Connect(c) \/ Cancel(c)
      PROVE  IInv'
  BY <1>3, CallStep, BeginStep, DisconnectStep, ConfigureStep, WaitStep, CancelStep
  DEF Connect
<1>4. CASE ScanBegin \/ ScanReturn BY <1>4, ScanStep
<1>5. CASE Check \/ Subscribe \/ WaitEnds BY <1>5, WatchStep
<1>6. CASE UNCHANGED vars
  BY <1>6 DEF vars, wifiVars, callVars, scanVars, watchVars, IInv, TypeStation, TypeCalls,
              TypeRest, MutexHeld, CallsAsk, StationTurned
<1>7. QED BY <1>1, <1>2, <1>3, <1>4, <1>5, <1>6 DEF Next

\* What is inductive holds always.
THEOREM WifiInvariance == Spec => []IInv
BY InitIInv, NextStep, PTL DEF Spec

\* Every variable of the Wi-Fi controller keeps its type, one future is past
\* the mutex, and only a started station associates.
THEOREM WifiTypes == Spec => []TypeOK
BY WifiInvariance, TypesFollow, PTL

-----------------------------------------------------------------------------
(* The refinement of NetController.                                        *)

Owner  == IF lock \in Callers THEN lock ELSE NoOne
Answer == [c \in Callers |-> IF outcome[c] \in {"none", "ok"} THEN outcome[c]
                             ELSE "error"]

\* What a step of a call does to the others' answers: nothing.
LEMMA AnswerOf ==
    ASSUME IInv, NEW c \in Callers,
           NEW r \in {"none", "ok", "connection", "bind", "error"},
           outcome' = [outcome EXCEPT ![c] = r]
    PROVE  Answer' = [Answer EXCEPT ![c] = IF r \in {"none", "ok"} THEN r ELSE "error"]
BY DEF IInv, TypeCalls, Answer

\* The association is made, or lost, or what came before it is undone.
LEMMA StationImplements ==
    ASSUME IInv, AttemptEnds \/ LosesAssoc \/ AddrChange
    PROVE  Controller!Join \/ Controller!Leave \/ UNCHANGED Controller!vars
<1>1. assoc' = NoNetwork \/ assoc' = assoc
      \/ (assoc = NoNetwork /\ conf # NoNetwork /\ assoc' = conf)
  BY DEF AttemptEnds, LosesAssoc, AddrChange, IInv, StationTurned
<1>2. UNCHANGED <<conf, lock, target, outcome>>
  BY DEF AttemptEnds, LosesAssoc, AddrChange, WifiFrame, callVars
<1>3. Owner' = Owner /\ Answer' = Answer BY <1>2 DEF Owner, Answer
<1>4. QED BY <1>1, <1>2, <1>3
          DEF Controller!Join, Controller!Leave, Controller!vars, Owner, Answer

LEMMA StopImplements == ASSUME Stop PROVE Controller!Restart
BY WifiAssumption DEF Stop, Controller!Restart

LEMMA CallImplements ==
    ASSUME IInv, NEW c \in Callers, Call(c)
    PROVE  \E n \in Networks : Controller!Ask(c, n)
<1>1. PICK n \in Networks : target' = [target EXCEPT ![c] = n] BY DEF Call
<1>2. Answer' = [Answer EXCEPT ![c] = "none"] BY AnswerOf DEF Call
<1>3. Owner' = Owner BY DEF Call, Owner
<1>4. target[c] = NoNetwork BY DEF Call, IInv, CallsAsk
<1>5. Controller!Ask(c, n)
  BY <1>1, <1>2, <1>3, <1>4, WifiAssumption
  DEF Call, wifiVars, Controller!Ask, Owner, Answer
<1>6. QED BY <1>5

\* A call that goes on is in control and may turn the station.
LEMMA GoesOn ==
    ASSUME IInv, NEW c \in Callers, pc[c] # "idle", Owner \in {NoOne, c}, lock' = c,
           UNCHANGED <<target, outcome>>,
           conf' \in {conf, target[c]}, assoc' \in {assoc, NoNetwork},
           conf' # conf => assoc' = NoNetwork
    PROVE  Controller!Control(c)
<1>1. target[c] # NoNetwork BY DEF IInv, CallsAsk
<1>2. Owner' = c /\ Answer' = Answer BY DEF Owner, Answer
<1>3. QED BY <1>1, <1>2 DEF Controller!Control, Controller!Turn, Owner, Answer

\* So is one that ends in an error.
LEMMA GivesUp ==
    ASSUME IInv, NEW c \in Callers, pc[c] # "idle", lock = c,
           NEW r \in {"connection", "bind", "error"}, Return(c, r),
           conf' \in {conf, target[c]}, assoc' \in {assoc, NoNetwork},
           conf' # conf => assoc' = NoNetwork
    PROVE  Controller!SayError(c)
<1> USE WifiAssumption
<1>1. target[c] # NoNetwork BY DEF IInv, CallsAsk
<1>2. Answer' = [Answer EXCEPT ![c] = "error"] BY AnswerOf DEF Return
<1>3. Owner = c /\ Owner' = NoOne /\ target' = [target EXCEPT ![c] = NoNetwork]
  BY DEF Owner, Return
<1>4. QED BY <1>1, <1>2, <1>3
          DEF Controller!SayError, Controller!Done, Controller!Turn, Owner, Answer

LEMMA MethodImplements ==
    ASSUME IInv, NEW c \in Callers, pc[c] # "idle", lock = c, MethodFails(c),
           conf' \in {conf, target[c]}, assoc' = assoc,
           conf' # conf => assoc' = NoNetwork
    PROVE  Controller!Control(c) \/ Controller!SayError(c)
<1>1. Owner = c BY DEF Owner
<1>2. QED BY <1>1, GoesOn, GivesUp DEF MethodFails

\* Begin takes control, and the stages that follow keep it until the call ends.
LEMMA ConnectImplements ==
    ASSUME IInv, NEW c \in Callers, Begin(c) \/ Connect(c)
    PROVE  Controller!Control(c) \/ Controller!SayOk(c) \/ Controller!SayError(c)
<1> USE WifiAssumption
<1>1. CASE Begin(c)
  BY <1>1, GoesOn DEF Begin, Holder, wifiVars, Owner
<1>2. ASSUME pc[c] \in Holding
      PROVE  pc[c] # "idle" /\ lock = c /\ Owner = c
  BY <1>2 DEF IInv, MutexHeld, Holding, Owner
<1>3. CASE Disconnect(c)
  <2>1. pc[c] \in Holding BY <1>3 DEF Disconnect, Holding
  <2>2. QED BY <1>2, <1>3, <2>1, GoesOn DEF Disconnect, Disassociates
<1>4. CASE Configure(c)
  <2>1. pc[c] \in Holding /\ assoc = NoNetwork /\ assoc' = assoc
    BY <1>4 DEF Configure, Holding, IInv, StationTurned
  <2>2. QED BY <1>2, <1>4, <2>1, GoesOn, GivesUp, MethodImplements DEF Configure
<1>5. CASE Associated(c)
  <2>1. pc[c] \in Holding BY <1>5 DEF Associated, Holding
  <2>2. QED BY <1>2, <1>5, <2>1, GoesOn, GivesUp DEF Associated, wifiVars
<1>6. CASE AssocTimeout(c)
  <2>1. pc[c] \in Holding BY <1>6 DEF AssocTimeout, Holding
  <2>2. QED BY <1>2, <1>6, <2>1, MethodImplements DEF AssocTimeout, wifiVars
<1>7. CASE Addressed(c)
  <2>1. pc[c] \in Holding /\ conf = target[c] /\ assoc = conf
    BY <1>7 DEF Addressed, Operational, Connected, Holding, IInv, StationTurned
  <2>2. UNCHANGED <<conf, assoc>> /\ Return(c, "ok") BY <1>7 DEF Addressed, wifiVars
  <2>3. Answer' = [Answer EXCEPT ![c] = "ok"] BY <2>2, AnswerOf DEF Return
  <2>4. Owner' = NoOne BY <2>2 DEF Return, Owner
  <2>5. QED BY <1>2, <2>1, <2>2, <2>3, <2>4
            DEF Controller!SayOk, Controller!Done, Return, Owner, Answer
<1>8. CASE AddressTimeout(c)
  <2>1. pc[c] \in Holding BY <1>8 DEF AddressTimeout, Holding
  <2>2. QED BY <1>2, <1>8, <2>1, GivesUp DEF AddressTimeout, Disassociates
<1>9. QED BY <1>1, <1>3, <1>4, <1>5, <1>6, <1>7, <1>8 DEF Connect

LEMMA CancelImplements ==
    ASSUME IInv, NEW c \in Callers, Cancel(c) PROVE Controller!Cancel(c)
<1> USE WifiAssumption
<1>1. target[c] # NoNetwork BY DEF Cancel, IInv, CallsAsk
<1>2. Owner' = IF Owner = c THEN NoOne ELSE Owner BY DEF Cancel, Owner
<1>3. Answer' = Answer BY DEF Cancel, Answer
<1>4. QED BY <1>1, <1>2, <1>3
          DEF Cancel, wifiVars, Controller!Cancel, Controller!Done, Owner, Answer

\* The scan, the watcher and the start of the driver are no business of the
\* controller's callers.
LEMMA OthersImplement ==
    ASSUME IInv, Start \/ ScanBegin \/ ScanReturn \/ Check \/ Subscribe \/ WaitEnds
                 \/ UNCHANGED vars
    PROVE  UNCHANGED Controller!vars
<1> USE WifiAssumption
<1>1. Owner' = Owner
  BY DEF Start, ScanBegin, ScanReturn, Check, Subscribe, WaitEnds, WatchFrame, vars,
         callVars, Owner, IInv, MutexHeld
<1>2. UNCHANGED <<target, outcome, conf, assoc>>
  BY DEF Start, ScanBegin, ScanReturn, ScanFrame, Check, Subscribe, WaitEnds,
         WatchFrame, vars, callVars, wifiVars
<1>3. Answer' = Answer BY <1>2 DEF Answer
<1>4. QED BY <1>1, <1>2, <1>3 DEF Controller!vars, Owner, Answer

LEMMA ControllerStep ==
    ASSUME IInv, [Next]_vars PROVE [Controller!Next]_(Controller!vars)
<1>1. CASE Stop BY <1>1, StopImplements DEF Controller!Next
<1>2. CASE AttemptEnds \/ LosesAssoc \/ AddrChange
  BY <1>2, StationImplements DEF Controller!Next
<1>3. ASSUME NEW c \in Callers, Call(c) \/ Begin(c) \/ Connect(c) \/ Cancel(c)
      PROVE  [Controller!Next]_(Controller!vars)
  BY <1>3, CallImplements, ConnectImplements, CancelImplements DEF Controller!Next
<1>4. CASE Start \/ ScanBegin \/ ScanReturn \/ Check \/ Subscribe \/ WaitEnds
           \/ UNCHANGED vars
  BY <1>4, OthersImplement
<1>5. QED BY <1>1, <1>2, <1>3, <1>4 DEF Next

\* The Wi-Fi controller implements NetController (wifi.rs:159-209): an attempt
\* given up, or a station left associated by an earlier call, never counts as
\* the network of the next one, for any number of networks, callers, runs and
\* failures.
THEOREM ControllerTheorem == Spec => ImplementsController
<1>1. Init => Controller!Init BY WifiAssumption DEF Init, Controller!Init
<1>2. IInv /\ [Next]_vars => [Controller!Next]_(Controller!vars) BY ControllerStep
<1>3. QED BY <1>1, <1>2, WifiInvariance, PTL
          DEF Spec, ImplementsController, Controller!Spec

-----------------------------------------------------------------------------
(* No call is set back.                                                    *)

\* The step of another future, or of the station.
LEMMA Untouched ==
    ASSUME UNCHANGED <<pc, tried>>, NEW c \in Callers
    PROVE  pc'[c] = pc[c] /\ tried'[c] = tried[c]
OBVIOUS

\* What is left, in numbers, of a call in each stage.
LEMMA StepsOf ==
    ASSUME IInv, NEW c \in Callers
    PROVE  /\ tried[c] \in 0..3
           /\ StepsLeft(c) = CASE pc[c] = "idle"      -> 0
                               [] pc[c] = "enter"     -> 14
                               [] pc[c] = "ip"        -> 1
                               [] pc[c] = "attempt"   -> 13 - 3 * tried[c]
                               [] pc[c] = "configure" -> 12 - 3 * tried[c]
                               [] pc[c] = "assoc"     -> 11 - 3 * tried[c]
BY FourMethods DEF StepsLeft, IInv, TypeCalls, Stages

\* A stage forward, another method or the return take the call nearer to its end.
LEMMA GetsNearer ==
    ASSUME IInv, NEW c \in Callers, pc[c] # "idle",
           pc' \in [Callers -> Stages], tried' \in [Callers -> 0..3],
           \/ pc'[c] = "idle"
           \/ pc[c] = "enter" /\ pc'[c] = "attempt"
           \/ pc[c] = "attempt" /\ pc'[c] = "configure" /\ tried'[c] = tried[c]
           \/ pc[c] = "configure" /\ pc'[c] = "assoc" /\ tried'[c] = tried[c]
           \/ pc[c] = "assoc" /\ pc'[c] = "ip"
           \/ /\ pc[c] \in {"configure", "assoc"} /\ pc'[c] = "attempt"
              /\ tried'[c] = tried[c] + 1
    PROVE  StepsLeft(c)' < StepsLeft(c)
<1>1. tried[c] \in 0..3 /\ tried'[c] \in 0..3 /\ pc[c] \in Stages /\ pc'[c] \in Stages
  BY DEF IInv, TypeCalls
<1>2. StepsLeft(c)' = CASE pc'[c] = "idle"      -> 0
                        [] pc'[c] = "enter"     -> 14
                        [] pc'[c] = "ip"        -> 1
                        [] pc'[c] = "attempt"   -> 13 - 3 * tried'[c]
                        [] pc'[c] = "configure" -> 12 - 3 * tried'[c]
                        [] pc'[c] = "assoc"     -> 11 - 3 * tried'[c]
  BY <1>1, FourMethods DEF StepsLeft, Stages
<1>3. PICK t, u \in Nat : t = tried[c] /\ u = tried'[c] /\ t <= 3 /\ u <= 3
  <2>1. /\ tried[c] \in Nat /\ tried[c] <= 3
        /\ tried'[c] \in Nat /\ tried'[c] <= 3
    BY <1>1
  <2>2. QED BY <2>1, Zenon
<1>4. PICK left, next : left = StepsLeft(c) /\ next = StepsLeft(c)'
  OBVIOUS
<1>5. left = CASE pc[c] = "idle"      -> 0
               [] pc[c] = "enter"     -> 14
               [] pc[c] = "ip"        -> 1
               [] pc[c] = "attempt"   -> 13 - 3 * t
               [] pc[c] = "configure" -> 12 - 3 * t
               [] pc[c] = "assoc"     -> 11 - 3 * t
  BY <1>3, <1>4, StepsOf
<1>6. next = CASE pc'[c] = "idle"      -> 0
               [] pc'[c] = "enter"     -> 14
               [] pc'[c] = "ip"        -> 1
               [] pc'[c] = "attempt"   -> 13 - 3 * u
               [] pc'[c] = "configure" -> 12 - 3 * u
               [] pc'[c] = "assoc"     -> 11 - 3 * u
  BY <1>2, <1>3, <1>4
<1>7. left \in Nat /\ left >= 1
  BY <1>1, <1>3, <1>5 DEF Stages
<1>8. next < left
  <2>1. CASE pc'[c] = "idle" BY <1>6, <1>7, <2>1
  <2>2. CASE pc[c] = "enter" /\ pc'[c] = "attempt" BY <1>3, <1>5, <1>6, <2>2
  <2>3. CASE pc[c] = "attempt" /\ pc'[c] = "configure" /\ u = t
    BY <1>3, <1>5, <1>6, <2>3
  <2>4. CASE pc[c] = "configure" /\ pc'[c] = "assoc" /\ u = t BY <1>3, <1>5, <1>6, <2>4
  <2>5. CASE pc[c] = "assoc" /\ pc'[c] = "ip" BY <1>3, <1>5, <1>6, <2>5
  <2>6. CASE pc[c] \in {"configure", "assoc"} /\ pc'[c] = "attempt" /\ u = t + 1
    BY <1>3, <1>5, <1>6, <2>6
  <2>7. QED BY <1>3, <2>1, <2>2, <2>3, <2>4, <2>5, <2>6
<1>9. QED BY <1>4, <1>8

\* The stages of the call that moves, the others' stay.
LEMMA ConnectMoves ==
    ASSUME IInv, NEW c \in Callers, Begin(c) \/ Connect(c) \/ Cancel(c)
    PROVE  /\ pc[c] # "idle"
           /\ \/ pc'[c] = "idle"
              \/ pc[c] = "enter" /\ pc'[c] = "attempt"
              \/ pc[c] = "attempt" /\ pc'[c] = "configure" /\ tried'[c] = tried[c]
              \/ pc[c] = "configure" /\ pc'[c] = "assoc" /\ tried'[c] = tried[c]
              \/ pc[c] = "assoc" /\ pc'[c] = "ip"
              \/ /\ pc[c] \in {"configure", "assoc"} /\ pc'[c] = "attempt"
                 /\ tried'[c] = tried[c] + 1
           /\ \A d \in Callers \ {c} : pc'[d] = pc[d] /\ tried'[d] = tried[d]
<1>1. TypeCalls BY DEF IInv
<1> USE <1>1 DEF TypeCalls, Goto
<1>2. ASSUME NEW r, Return(c, r)
      PROVE  /\ pc'[c] = "idle"
             /\ \A d \in Callers \ {c} : pc'[d] = pc[d] /\ tried'[d] = tried[d]
  BY <1>2 DEF Return
<1>3. ASSUME MethodFails(c)
      PROVE  /\ pc'[c] = "idle" \/ (pc'[c] = "attempt" /\ tried'[c] = tried[c] + 1)
             /\ \A d \in Callers \ {c} : pc'[d] = pc[d] /\ tried'[d] = tried[d]
  BY <1>2, <1>3 DEF MethodFails, NextMethod
<1>4. CASE Begin(c) \/ Disconnect(c) \/ Cancel(c)
  BY <1>4 DEF Begin, Disconnect, Cancel
<1>5. CASE Configure(c) BY <1>2, <1>3, <1>5 DEF Configure
<1>6. CASE Associated(c) \/ Addressed(c) \/ AddressTimeout(c)
  BY <1>2, <1>6 DEF Associated, Addressed, AddressTimeout
<1>7. CASE AssocTimeout(c) BY <1>3, <1>7 DEF AssocTimeout
<1>8. QED BY <1>4, <1>5, <1>6, <1>7 DEF Connect

\* A connect call takes at most fourteen steps of its own, and no step of another
\* future, of the station or of the netif sets it back (wifi.rs:159-209): the
\* lock is never held without an end in sight.
THEOREM SetBackTheorem == Spec => NeverSetBack
<1>1. IInv /\ IInv' /\ [Next]_vars =>
        \A c \in Callers : pc[c] # "idle" =>
          \/ pc'[c] = pc[c] /\ tried'[c] = tried[c]
          \/ StepsLeft(c)' < StepsLeft(c)
  <2> SUFFICES ASSUME IInv, IInv', [Next]_vars, NEW c \in Callers, pc[c] # "idle"
               PROVE  \/ pc'[c] = pc[c] /\ tried'[c] = tried[c]
                      \/ StepsLeft(c)' < StepsLeft(c)
    OBVIOUS
  <2>1. pc' \in [Callers -> Stages] /\ tried' \in [Callers -> 0..3]
    BY DEF IInv, TypeCalls
  <2>2. CASE AttemptEnds \/ LosesAssoc \/ AddrChange
    BY <2>2, Untouched DEF AttemptEnds, LosesAssoc, AddrChange, WifiFrame, callVars
  <2>3. CASE ScanBegin \/ ScanReturn
    BY <2>3, Untouched DEF ScanBegin, ScanReturn, ScanFrame
  <2>4. CASE Start \/ Check \/ Subscribe \/ WaitEnds \/ UNCHANGED vars
    BY <2>4, Untouched
    DEF Start, Check, Subscribe, WaitEnds, WatchFrame, vars, callVars
  <2>5. CASE Stop
    <3>1. pc'[c] = "idle" BY <2>5 DEF Stop
    <3>2. QED BY <2>1, <3>1, GetsNearer
  <2>6. ASSUME NEW d \in Callers, Call(d)
        PROVE  pc'[c] = pc[c] /\ tried'[c] = tried[c]
    BY <2>6 DEF Call, Goto, IInv, TypeCalls
  <2>7. ASSUME NEW d \in Callers, Begin(d) \/ Connect(d) \/ Cancel(d)
        PROVE  \/ pc'[c] = pc[c] /\ tried'[c] = tried[c]
               \/ StepsLeft(c)' < StepsLeft(c)
    <3>1. CASE d = c BY <2>1, <2>7, <3>1, ConnectMoves, GetsNearer
    <3>2. CASE d # c BY <2>7, <3>2, ConnectMoves
    <3>3. QED BY <3>1, <3>2
  <2>8. QED BY <2>2, <2>3, <2>4, <2>5, <2>6, <2>7 DEF Next
<1>2. QED BY <1>1, WifiInvariance, PTL DEF Spec, NeverSetBack
=============================================================================
