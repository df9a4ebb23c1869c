--------------------------- MODULE ThreadSrpProofs ---------------------------
(***************************************************************************)
(* What holds of the service registrar (ThreadSrp) for any set of services  *)
(* and any number of changes, moves, faults and queries: its types, that    *)
(* `services` is what the SRP client holds, that what the client calls      *)
(* registered is published, and that it rests only with the wanted services *)
(* published.                                                               *)
(***************************************************************************)
EXTENDS ThreadSrp, TLAPS

-----------------------------------------------------------------------------
(* The inductive invariant.                                                *)

States == {"none", "add", "adding", "reg", "remove", "removing"}

TypeCode ==
    /\ wanted \subseteq Services /\ services \subseteq Services
    /\ run \in {"off", "register", "wait", "failed"}
    /\ serve \in {"absent", "serving"} /\ server \in Servers \cup {"none"}
    /\ query \in [Kinds -> {"none", "asked", "running"}]

TypeFlags == signal \in BOOLEAN /\ look \in BOOLEAN /\ moved \in BOOLEAN

TypeClient ==
    /\ published \subseteq Services
    /\ client \in [Services -> States]
    /\ msg \in [adds: SUBSET Services, removes: SUBSET Services, handled: BOOLEAN]
    /\ msg.removes \cap msg.adds = {}

TypeCounters ==
    /\ changes \in Nat /\ changes <= MaxChanges /\ moves \in Nat /\ moves <= MaxMoves
    /\ faults \in Nat /\ faults <= MaxFaults /\ queries \in Nat /\ queries <= MaxQueries

\* A request in progress is served by a run that has seen a server.
Served == \A k \in Kinds : query[k] = "running" => serve = "serving" /\ Running

\* The client counts as sent only what is in the update on its way, and what
\* the server has taken from it is published.
Underway ==
    \A s \in Services :
      /\ client[s] = "adding" => s \in msg.adds /\ (msg.handled => s \in published)
      /\ client[s] = "removing" => s \in msg.removes

\* An update of a live run is complete: beside what it adds nothing else is to
\* stay, and once something is registered nothing is pending.
Complete ==
    Running => \A s, t \in Services :
      /\ client[s] = "adding" => client[t] \in {"none", "adding", "removing"}
      /\ client[s] = "reg" => client[t] \in {"none", "reg"} /\ msg = NoMsg

IInv == /\ TypeCode /\ TypeFlags /\ TypeClient /\ TypeCounters /\ Served
        /\ Underway /\ Complete /\ BeliefsAgree /\ RegisteredMeansPublished

\* The part about requests, which no update disturbs, and the part about the
\* client, which no request does.
Asking     == TypeCode /\ TypeFlags /\ TypeCounters /\ Served
Registered == TypeClient /\ Underway /\ Complete /\ BeliefsAgree /\ RegisteredMeansPublished

LEMMA InitIInv == Init => IInv
<1> SUFFICES ASSUME Init PROVE IInv OBVIOUS
<1> USE SrpAssumption DEF Init
<1>1. TypeCode BY DEF TypeCode, Servers
<1>2. TypeFlags BY Zenon DEF TypeFlags
<1>3. TypeCounters BY DEF TypeCounters
<1>4. TypeClient BY DEF TypeClient, NoClient, NoMsg, States
<1>5. Served /\ Complete /\ BeliefsAgree BY DEF Served, Complete, BeliefsAgree, Running
<1>6. Underway /\ RegisteredMeansPublished
  BY DEF Underway, RegisteredMeansPublished, NoClient, Running
<1>7. QED BY <1>1, <1>2, <1>3, <1>4, <1>5, <1>6 DEF IInv

-----------------------------------------------------------------------------
(* The client's states under each of the ways they change.                 *)

\* An empty client is right for a run that has just begun.
LEMMA EmptyClient ==
    ASSUME IInv, client' = NoClient, services' = {}, UNCHANGED <<msg, published>>
    PROVE  Registered'
<1> USE DEF NoClient
<1>1. TypeClient' BY DEF IInv, TypeClient, States
<1>2. Underway' /\ Complete' /\ RegisteredMeansPublished'
  BY DEF Underway, Complete, RegisteredMeansPublished
<1>3. BeliefsAgree' BY DEF BeliefsAgree, Held
<1>4. QED BY <1>1, <1>2, <1>3 DEF Registered

\* Nothing changes.
LEMMA SameClient ==
    ASSUME IInv, UNCHANGED <<client, services, msg, published, run>>
    PROVE  Registered'
BY DEF IInv, Registered, TypeClient, Underway, Complete, BeliefsAgree, Held,
       RegisteredMeansPublished, Running

\* A run that has failed has nothing to hold, only what is underway.
LEMMA FailedClient ==
    ASSUME IInv, run' \notin {"register", "wait"}, client' \in [Services -> States],
           UNCHANGED <<msg, published>>,
           \A s \in Services : client'[s] \in {"adding", "removing"} => client'[s] = client[s]
    PROVE  Registered'
<1>1. TypeClient' BY DEF IInv, TypeClient
<1>2. Underway' BY DEF IInv, Underway
<1>3. Complete' /\ BeliefsAgree' /\ RegisteredMeansPublished'
  BY DEF Complete, BeliefsAgree, RegisteredMeansPublished, Running
<1>4. QED BY <1>1, <1>2, <1>3 DEF Registered

\* Everything the server has not confirmed, or no longer has, is pending again.
LEMMA RequeuedClient ==
    ASSUME IInv, client' = Requeued, msg' = NoMsg, published' \subseteq Services,
           UNCHANGED <<run, services>>
    PROVE  Registered'
<1> USE DEF Requeued
<1>1. TypeClient' BY DEF IInv, TypeClient, States, NoMsg
<1>2. Underway' /\ Complete' /\ RegisteredMeansPublished'
  BY DEF IInv, TypeClient, States, Underway, Complete, RegisteredMeansPublished
<1>3. BeliefsAgree'
  <2>1. Held' = Held BY DEF Held, IInv, TypeClient, States
  <2>2. QED BY <2>1 DEF BeliefsAgree, IInv, Running
<1>4. QED BY <1>1, <1>2, <1>3 DEF Registered

LEMMA Join == ASSUME Asking', Registered' PROVE IInv'
BY DEF Asking, Registered, IInv

-----------------------------------------------------------------------------
(* Every action preserves it.                                              *)

LEMMA NoQueries ==
    ASSUME IInv
    PROVE  /\ QueriesDropped \in [Kinds -> {"none", "asked", "running"}]
           /\ \A k \in Kinds : QueriesDropped[k] # "running"
BY DEF IInv, TypeCode, QueriesDropped

LEMMA StartStep == ASSUME IInv, Start PROVE IInv'
<1> USE SrpAssumption
<1>1. /\ run' \in {"register", "failed"} /\ services' \in {services, {}}
      /\ UNCHANGED <<wanted, server, signal, msg, published, changes, queries, moves>>
      /\ serve' = "absent" /\ query' = QueriesDropped
  BY SMT DEF Start, ServeDropped, ClearedServices
<1>2. Asking'
  <2>1. TypeCode' BY <1>1, NoQueries DEF IInv, TypeCode
  <2>2. moved' \in BOOLEAN /\ look' \in BOOLEAN BY Zenon DEF Start
  <2>3. TypeFlags' BY <1>1, <2>2 DEF IInv, TypeFlags
  <2>4. faults' = faults \/ Fault BY DEF Start
  <2>5. TypeCounters' BY <1>1, <2>4 DEF IInv, TypeCounters, Fault
  <2>6. Served' BY <1>1, NoQueries DEF Served
  <2>7. QED BY <2>1, <2>3, <2>5, <2>6 DEF Asking
<1>3. Registered'
  <2>1. CASE client' = NoClient /\ services' = {} BY <1>1, <2>1, EmptyClient
  <2>2. CASE run' = "failed" /\ client' = client
    BY <1>1, <2>2, FailedClient DEF IInv, TypeClient
  <2>3. QED BY <2>1, <2>2 DEF Start, ClearedServices
<1>4. QED BY <1>2, <1>3, Join

LEMMA RegisterStep == ASSUME IInv, Register PROVE IInv'
<1> USE SrpAssumption
<1>1. /\ run = "register" /\ run' = "wait"
      /\ UNCHANGED <<serve, query, faults, msg, look, server, published, moved, moves,
                     wanted, signal, changes, queries>>
  BY DEF Register, RegisterFrame, worldVars
<1>2. Asking'
  <2>1. services' \subseteq Services BY DEF Register, IInv, TypeCode
  <2>2. TypeCode' /\ TypeCounters' BY <1>1, <2>1 DEF IInv, TypeCode, TypeCounters
  <2>3. TypeFlags' BY <1>1 DEF IInv, TypeFlags
  <2>4. Served' BY <1>1 DEF IInv, Served, Running
  <2>5. QED BY <2>2, <2>3, <2>4 DEF Asking
<1>3. Registered'
  <2>1. CASE UNCHANGED <<client, services>>
    BY <1>1, <2>1 DEF IInv, Registered, TypeClient, Underway, Complete, BeliefsAgree,
                      Held, RegisteredMeansPublished, Running
  <2>2. CASE client' = [s \in Services |-> Updated(s)] /\ services' = wanted
    <3>1. \A s \in Services :
            client'[s] = CASE s \in wanted -> "add"
                           [] s \in services \ wanted -> "remove"
                           [] OTHER -> client[s]
      BY <2>2 DEF Updated
    <3>2. \A s \in Services : s \in services <=> client[s] \in {"add", "adding", "reg"}
      BY <1>1 DEF IInv, BeliefsAgree, Held, Running
    <3>3. TypeClient' BY <1>1, <2>2, <3>1 DEF IInv, TypeClient, States
    <3>4. \A s \in Services : client'[s] \notin {"adding", "reg"}
      BY <3>1, <3>2
    <3>5. Complete' /\ RegisteredMeansPublished'
      BY <3>4 DEF Complete, RegisteredMeansPublished
    <3>6. Underway'
      BY <1>1, <3>1, <3>4 DEF IInv, Underway
    <3>7. BeliefsAgree'
      BY <2>2, <3>1, <3>2 DEF BeliefsAgree, Held, IInv, TypeCode
    <3>8. QED BY <3>3, <3>5, <3>6, <3>7 DEF Registered
  <2>3. QED BY <2>1, <2>2 DEF Register
<1>4. QED BY <1>2, <1>3, Join

\* A run that fails over its registrations.
LEMMA FailedRun ==
    ASSUME IInv, Fails, RegisterFrame, services' \subseteq Services,
           faults' = faults \/ Fault, client' \in [Services -> States],
           \A s \in Services : client'[s] \in {"adding", "removing"} => client'[s] = client[s]
    PROVE  IInv'
<1> USE SrpAssumption
<1>1. /\ run' = "failed" /\ serve' = "absent" /\ query' = QueriesDropped
      /\ UNCHANGED <<msg, look, server, published, moved, moves, wanted, signal,
                     changes, queries>>
  BY DEF Fails, ServeDropped, RegisterFrame, worldVars
<1>2. Registered' BY <1>1, FailedClient
<1>3. TypeCode' BY <1>1, NoQueries DEF IInv, TypeCode
<1>4. TypeFlags' BY <1>1 DEF IInv, TypeFlags
<1>5. TypeCounters' BY <1>1 DEF IInv, TypeCounters, Fault
<1>6. Served' BY <1>1, NoQueries DEF Served
<1>7. QED BY <1>2, <1>3, <1>4, <1>5, <1>6, Join DEF Asking

LEMMA ReleaseType ==
    ASSUME IInv, NEW done
    PROVE  /\ Released(done) \in [Services -> States]
           /\ \A s \in Services : Released(done)[s] \in {"none", "remove", client[s]}
BY DEF IInv, TypeClient, States, Released

LEMMA ReleaseFailsStep == ASSUME IInv, ReleaseFails PROVE IInv'
<1>1. PICK done \in SUBSET services : client' = Released(done) BY DEF ReleaseFails
<1>2. services' \subseteq Services /\ Fault /\ Fails /\ RegisterFrame BY DEF ReleaseFails
<1>3. QED BY <1>1, <1>2, ReleaseType, FailedRun

LEMMA AddFailsStep == ASSUME IInv, AddFails PROVE IInv'
<1>1. PICK added \in SUBSET wanted :
        /\ client' = [s \in Services |-> IF s \in added THEN "add"
                                         ELSE Released(services)[s]]
        /\ services' = added
        /\ faults' = faults \/ Fault
  BY DEF AddFails
<1>2. services' \subseteq Services /\ Fails /\ RegisterFrame
  BY <1>1 DEF AddFails, IInv, TypeCode
<1>3. /\ client' \in [Services -> States]
      /\ \A s \in Services : client'[s] \in {"none", "remove", "add", client[s]}
  BY <1>1, ReleaseType DEF States
<1>4. QED BY <1>1, <1>2, <1>3, FailedRun

LEMMA WaitMdnsStep == ASSUME IInv, WaitMdns PROVE IInv'
<1>1. /\ run = "wait" /\ run' = "register"
      /\ UNCHANGED <<services, serve, query, faults, client, msg, look, server,
                     published, moved, moves, wanted, changes, queries>>
  BY DEF WaitMdns, otVars, worldVars
<1>2. signal' \in BOOLEAN BY Zenon DEF WaitMdns
<1>3. TypeCode' /\ TypeCounters' BY <1>1 DEF IInv, TypeCode, TypeCounters
<1>4. TypeFlags' BY <1>1, <1>2 DEF IInv, TypeFlags
<1>5. Served' BY <1>1 DEF IInv, Served, Running
<1>6. Registered'
  BY <1>1 DEF IInv, Registered, TypeClient, Underway, Complete, BeliefsAgree, Held,
              RegisteredMeansPublished, Running
<1>7. QED BY <1>3, <1>4, <1>5, <1>6, Join DEF Asking

\* The steps of run_serve and of those who ask it leave the client alone.
LEMMA ServingStep ==
    ASSUME IInv, NEW k \in Kinds,
           WaitSrpServer \/ WaitSrpServerFails \/ TakeRequest(k) \/ QueryEnds(k)
    PROVE  IInv'
<1> USE SrpAssumption
<1>1. UNCHANGED <<services, wanted, signal, changes, client, msg, server, published,
                  moved, moves>>
  BY DEF WaitSrpServer, WaitSrpServerFails, TakeRequest, QueryEnds, ServeFrame, worldVars
<1>2. TypeCode' /\ Served'
  <2>1. CASE WaitSrpServer
    BY <1>1, <2>1, NoQueries
    DEF WaitSrpServer, ServeEnds, ServeDropped, IInv, TypeCode, Served, Running
  <2>2. CASE WaitSrpServerFails
    BY <1>1, <2>2, NoQueries
    DEF WaitSrpServerFails, Fails, ServeDropped, IInv, TypeCode, Served, Running
  <2>3. CASE TakeRequest(k)
    BY <1>1, <2>3 DEF TakeRequest, IInv, TypeCode, Served, Running
  <2>4. CASE QueryEnds(k)
    BY <1>1, <2>4 DEF QueryEnds, IInv, TypeCode, Served, Running
  <2>5. QED BY <2>1, <2>2, <2>3, <2>4
<1>3. look' \in BOOLEAN
  <2>1. look' = look \/ look' = FALSE
    BY SMT DEF WaitSrpServer, WaitSrpServerFails, TakeRequest, QueryEnds
  <2>2. QED BY <2>1, Zenon DEF IInv, TypeFlags
<1>4. TypeFlags' BY <1>1, <1>3 DEF IInv, TypeFlags
<1>5. TypeCounters'
  <2>1. queries' = queries /\ (faults' = faults \/ Fault)
    BY DEF WaitSrpServer, WaitSrpServerFails, TakeRequest, QueryEnds
  <2>2. QED BY <1>1, <2>1 DEF IInv, TypeCounters, Fault
<1>6. run' = run \/ run' = "failed"
  BY DEF WaitSrpServer, WaitSrpServerFails, Fails, TakeRequest, QueryEnds
<1>7. Registered'
  <2>1. CASE run' = run BY <1>1, <2>1, SameClient
  <2>2. CASE run' = "failed" BY <1>1, <2>2, FailedClient DEF IInv, TypeClient
  <2>3. QED BY <1>6, <2>1, <2>2
<1>8. QED BY <1>2, <1>4, <1>5, <1>7, Join DEF Asking

LEMMA MatterStep ==
    ASSUME IInv, NEW k \in Kinds, Want \/ Ask(k) PROVE IInv'
<1> USE SrpAssumption
<1>1. UNCHANGED <<run, services, serve, client, msg, look, server, published, moved,
                  moves, faults>>
  BY DEF Want, Ask, codeVars, otVars, worldVars
<1>2. TypeCode' /\ Served'
  BY <1>1 DEF Want, Ask, IInv, TypeCode, Served, Running
<1>3. signal' = signal \/ signal' = TRUE BY SMT DEF Want, Ask
<1>4. TypeFlags' BY <1>1, <1>3 DEF IInv, TypeFlags
<1>5. TypeCounters' BY <1>1 DEF Want, Ask, IInv, TypeCounters
<1>6. QED BY <1>1, <1>2, <1>4, <1>5, SameClient, Join DEF Asking

\* What the SRP client and the server do leaves the code's own state alone.
LEMMA SrpKeeps ==
    ASSUME IInv, SrpFrame, UNCHANGED look, faults' = faults \/ Fault
    PROVE  Asking'
<1>1. UNCHANGED <<run, services, serve, wanted, signal, query, changes, queries, server,
                  moved, moves, look>>
  BY DEF SrpFrame, codeVars, askVars
<1>2. TypeCode' /\ TypeCounters'
  BY <1>1, SrpAssumption DEF IInv, TypeCode, TypeCounters, Fault
<1>3. TypeFlags' BY <1>1 DEF IInv, TypeFlags
<1>4. Served' BY <1>1 DEF IInv, Served, Running
<1>5. QED BY <1>2, <1>3, <1>4 DEF Asking

LEMMA SrpRun ==
    ASSUME SrpFrame PROVE UNCHANGED <<run, services, moved, server>>
BY DEF SrpFrame, codeVars

LEMMA SendStep == ASSUME IInv, Send PROVE IInv'
<1>1. Asking' BY SrpKeeps DEF Send
<1>2. UNCHANGED <<run, services, published>> BY SrpRun DEF Send
<1>3. /\ msg' = [adds    |-> {s \in Services : client[s] = "add"},
                 removes |-> {s \in Services : client[s] = "remove"},
                 handled |-> FALSE]
      /\ \A s \in Services : client'[s] = CASE client[s] = "add" -> "adding"
                                            [] client[s] = "remove" -> "removing"
                                            [] OTHER -> client[s]
      /\ client' \in [Services -> States]
  BY DEF Send, IInv, TypeClient, States
<1>4. PICK p \in Services : client[p] \in {"add", "remove"} BY DEF Send
<1>5. \A s \in Services : client[s] \in {"none", "add", "reg", "remove"}
  BY DEF Send, IInv, Underway, TypeClient, States, NoMsg
<1>6. TypeClient'
  <2>1. /\ msg' \in [adds: SUBSET Services, removes: SUBSET Services, handled: BOOLEAN]
        /\ msg'.removes \cap msg'.adds = {}
    BY <1>3
  <2>2. QED BY <1>2, <1>3, <2>1 DEF IInv, TypeClient
<1>7. Underway' BY <1>3, <1>5 DEF Underway
<1>8. Running => \A s \in Services : client[s] # "reg"
  BY <1>4 DEF IInv, Complete
<1>9. Complete' /\ RegisteredMeansPublished'
  BY <1>2, <1>3, <1>5, <1>8 DEF Complete, RegisteredMeansPublished, Running
<1>10. BeliefsAgree'
  <2>1. Held' = Held BY <1>3, <1>5 DEF Held
  <2>2. QED BY <1>2, <2>1 DEF IInv, BeliefsAgree, Running
<1>11. QED BY <1>1, <1>6, <1>7, <1>9, <1>10, Join DEF Registered

LEMMA ReceiveStep == ASSUME IInv, Receive PROVE IInv'
<1>1. Asking' BY SrpKeeps DEF Receive
<1>2. UNCHANGED <<run, services, client>> BY SrpRun DEF Receive
<1>3. /\ msg # NoMsg /\ msg' = [msg EXCEPT !.handled = TRUE]
      /\ published' = IF server = "strict" THEN msg.adds
                      ELSE (published \cup msg.adds) \ msg.removes
  BY DEF Receive
<1>4. /\ msg'.adds = msg.adds /\ msg'.removes = msg.removes
      /\ msg' \in [adds: SUBSET Services, removes: SUBSET Services, handled: BOOLEAN]
  BY <1>3 DEF IInv, TypeClient
<1>5. published' \subseteq Services BY <1>3 DEF IInv, TypeClient
<1>6. TypeClient' BY <1>2, <1>4, <1>5 DEF IInv, TypeClient
<1>7. msg.adds \subseteq published' BY <1>3 DEF IInv, TypeClient
<1>8. Underway' BY <1>2, <1>4, <1>7 DEF IInv, Underway
<1>9. Running => \A s \in Services : client[s] # "reg"
  BY <1>3 DEF IInv, Complete
<1>10. Complete' /\ RegisteredMeansPublished'
  BY <1>2, <1>9 DEF IInv, Complete, RegisteredMeansPublished, Running
<1>11. BeliefsAgree' BY <1>2 DEF IInv, BeliefsAgree, Held, Running
<1>12. QED BY <1>1, <1>6, <1>8, <1>10, <1>11, Join DEF Registered

LEMMA AckStep == ASSUME IInv, Ack PROVE IInv'
<1>1. Asking' BY SrpKeeps DEF Ack
<1>2. UNCHANGED <<run, services, published>> BY SrpRun DEF Ack
<1>3. /\ msg.handled /\ msg' = NoMsg
      /\ \A s \in Services : client'[s] = CASE client[s] = "adding" -> "reg"
                                            [] client[s] = "removing" -> "none"
                                            [] OTHER -> client[s]
      /\ client' \in [Services -> States]
  BY DEF Ack, IInv, TypeClient, States
<1>4. TypeClient' BY <1>2, <1>3 DEF IInv, TypeClient, NoMsg
<1>5. Underway' BY <1>3 DEF Underway, IInv, TypeClient, States
<1>6. Complete'
  BY <1>2, <1>3 DEF IInv, Complete, Running
<1>7. RegisteredMeansPublished'
  <2> SUFFICES ASSUME NEW s \in Services, Running, client'[s] = "reg"
               PROVE  s \in published
    BY <1>2 DEF RegisteredMeansPublished, Running
  <2>1. CASE client[s] = "adding" BY <1>3, <2>1 DEF IInv, Underway
  <2>2. CASE client[s] = "reg"
    BY <2>2, SrpRun DEF IInv, RegisteredMeansPublished, Ack
  <2>3. QED BY <1>3, <2>1, <2>2
<1>8. BeliefsAgree'
  <2>1. Held' = Held BY <1>3 DEF Held
  <2>2. QED BY <1>2, <2>1 DEF IInv, BeliefsAgree, Running
<1>9. QED BY <1>1, <1>4, <1>5, <1>6, <1>7, <1>8, Join DEF Registered

LEMMA LoseStep == ASSUME IInv, Lose PROVE IInv'
<1>1. Asking' BY SrpKeeps DEF Lose
<1>2. UNCHANGED <<run, services, published, moved>> /\ msg' = NoMsg
  BY SrpRun DEF Lose
<1>3. /\ client' \in [Services -> States]
      /\ \A s \in Services : client'[s] = CASE client[s] = "adding" -> "add"
                                            [] client[s] = "removing" -> "remove"
                                            [] OTHER -> client[s]
  BY DEF Lose, Unsent, IInv, TypeClient, States
<1>4. TypeClient' BY <1>2, <1>3 DEF IInv, TypeClient, NoMsg
<1>5. Underway' BY <1>3 DEF Underway
<1>6. Complete' /\ RegisteredMeansPublished'
  BY <1>2, <1>3 DEF IInv, Complete, RegisteredMeansPublished, Running
<1>7. BeliefsAgree'
  <2>1. Held' = Held BY <1>3 DEF Held
  <2>2. QED BY <1>2, <2>1 DEF IInv, BeliefsAgree, Running
<1>8. QED BY <1>1, <1>4, <1>5, <1>6, <1>7, Join DEF Registered

LEMMA LeaseStep == ASSUME IInv, NEW s \in Services, LeaseExpires(s) PROVE IInv'
<1>1. Asking' BY SrpKeeps DEF LeaseExpires
<1>2. UNCHANGED <<run, services, client, msg, moved>>
      /\ client[s] = "none" /\ published' = published \ {s}
  BY SrpRun DEF LeaseExpires
<1>3. TypeClient' BY <1>2 DEF IInv, TypeClient
<1>4. Underway' /\ Complete' /\ RegisteredMeansPublished'
  BY <1>2 DEF IInv, Underway, Complete, RegisteredMeansPublished, Running
<1>5. BeliefsAgree' BY <1>2 DEF IInv, BeliefsAgree, Held, Running
<1>6. QED BY <1>1, <1>3, <1>4, <1>5, Join DEF Registered

LEMMA WorldStep ==
    ASSUME IInv, ServerChange \/ NetifChange PROVE IInv'
<1> USE SrpAssumption
<1>1. /\ UNCHANGED <<run, services, serve, wanted, signal, query, changes, queries, faults>>
      /\ client' = Requeued /\ msg' = NoMsg /\ moves < MaxMoves /\ moves' = moves + 1
  BY DEF ServerChange, NetifChange, WorldMoves, codeVars
<1>2. published' \subseteq Services
  BY DEF ServerChange, NetifChange, IInv, TypeClient
<1>3. server' \in Servers \cup {"none"} BY DEF ServerChange, NetifChange
<1>4. TypeCode' /\ TypeCounters' BY <1>1, <1>3 DEF IInv, TypeCode, TypeCounters
<1>5. look' = TRUE /\ (moved' = moved \/ moved' = TRUE)
  BY SMT DEF ServerChange, NetifChange, WorldMoves
<1>6. TypeFlags' BY <1>1, <1>5 DEF IInv, TypeFlags
<1>7. Served' BY <1>1 DEF IInv, Served, Running
<1>8. QED BY <1>1, <1>2, <1>4, <1>6, <1>7, RequeuedClient, Join DEF Asking

LEMMA RebootStep == ASSUME IInv, Reboot PROVE IInv'
<1> USE SrpAssumption
<1>1. /\ UNCHANGED <<wanted, signal, changes, queries, faults, server, published>>
      /\ run' = "off" /\ services' = {} /\ serve' = "absent" /\ client' = NoClient
      /\ query' = [k \in Kinds |-> "none"] /\ msg' = NoMsg
      /\ moves < MaxMoves /\ moves' = moves + 1
  BY DEF Reboot, WorldMoves
<1>2. TypeCode' /\ TypeCounters' BY <1>1 DEF IInv, TypeCode, TypeCounters
<1>3. look' = TRUE /\ moved' = FALSE BY SMT DEF Reboot, WorldMoves
<1>4. TypeFlags' BY <1>1, <1>3 DEF IInv, TypeFlags
<1>5. Served' BY <1>1 DEF Served
<1>6. TypeClient' BY <1>1 DEF IInv, TypeClient, NoClient, NoMsg, States
<1>7. Underway' /\ Complete' /\ BeliefsAgree' /\ RegisteredMeansPublished'
  BY <1>1 DEF Underway, Complete, BeliefsAgree, RegisteredMeansPublished, NoClient, Running
<1>8. QED BY <1>2, <1>4, <1>5, <1>6, <1>7, Join DEF Asking, Registered

LEMMA StutterStep == ASSUME IInv, UNCHANGED vars PROVE IInv'
<1>1. UNCHANGED <<run, services, serve, client, msg, look, server, published, moved,
                  moves, wanted, signal, query, changes, queries, faults>>
  BY DEF vars, codeVars, otVars, worldVars, askVars
<1>2. Registered' BY <1>1, SameClient
<1>3. TypeCode' /\ TypeCounters' BY <1>1 DEF IInv, TypeCode, TypeCounters
<1>4. TypeFlags' BY <1>1 DEF IInv, TypeFlags
<1>5. Served' BY <1>1 DEF IInv, Served, Running
<1>6. QED BY <1>2, <1>3, <1>4, <1>5, Join DEF Asking

LEMMA NextStep == IInv /\ [Next]_vars => IInv'
<1> SUFFICES ASSUME IInv, [Next]_vars PROVE IInv' OBVIOUS
<1>1. "resolve" \in Kinds BY DEF Kinds
<1>2. CASE Start \/ Register \/ ReleaseFails \/ AddFails \/ WaitMdns
  BY <1>2, StartStep, RegisterStep, ReleaseFailsStep, AddFailsStep, WaitMdnsStep
<1>3. CASE WaitSrpServer \/ WaitSrpServerFails BY <1>1, <1>3, ServingStep
<1>4. ASSUME NEW k \in Kinds, TakeRequest(k) \/ QueryEnds(k) \/ Ask(k) PROVE IInv'
  BY <1>4, ServingStep, MatterStep
<1>5. CASE Want BY <1>1, <1>5, MatterStep
<1>6. CASE Send \/ Receive \/ Ack \/ Lose
  BY <1>6, SendStep, ReceiveStep, AckStep, LoseStep
<1>7. CASE \E s \in Services : LeaseExpires(s) BY <1>7, LeaseStep
<1>8. CASE ServerChange \/ NetifChange \/ Reboot BY <1>8, WorldStep, RebootStep
<1>9. CASE UNCHANGED vars BY <1>9, StutterStep
<1>10. QED BY <1>2, <1>3, <1>4, <1>5, <1>6, <1>7, <1>8, <1>9 DEF Next

-----------------------------------------------------------------------------
(* The theorems.                                                           *)

\* What is inductive holds always.
THEOREM SrpInvariance == Spec => []IInv
BY InitIInv, NextStep, PTL DEF Spec

LEMMA TypesFollow == IInv => TypeOK
<1> SUFFICES ASSUME IInv PROVE TypeOK OBVIOUS
<1>1. TypeCode /\ TypeFlags /\ TypeClient /\ TypeCounters /\ Served BY DEF IInv
<1>2. /\ changes \in 0..MaxChanges /\ moves \in 0..MaxMoves
      /\ faults \in 0..MaxFaults /\ queries \in 0..MaxQueries
  BY <1>1, SrpAssumption DEF TypeCounters
<1>3. {signal, look, moved} \subseteq BOOLEAN BY <1>1, Zenon DEF TypeFlags
<1>4. msg.adds \subseteq Services /\ msg.removes \subseteq Services \ msg.adds
  BY <1>1 DEF TypeClient
<1>5. QED
  BY <1>1, <1>2, <1>3, <1>4, Zenon
  DEF TypeOK, TypeCode, TypeClient, Served, States

\* Every variable of the registrar keeps its type; requests are in progress only
\* with a server, and an update never adds what it removes.
THEOREM SrpTypes == Spec => []TypeOK
BY SrpInvariance, TypesFollow, PTL

\* What update_services compares with (thread.rs:981-988) is what the client
\* holds, whatever failed, restarted or moved before.
THEOREM BeliefsTheorem == Spec => []BeliefsAgree
<1>1. IInv => BeliefsAgree BY DEF IInv
<1>2. QED BY <1>1, SrpInvariance, PTL

\* No update of a live run leaves out what is to stay (thread.rs:990-999), so a
\* registered service can be discovered, also at a server that takes an update
\* for the complete description of the host.
THEOREM PublishedTheorem == Spec => []RegisteredMeansPublished
<1>1. IInv => RegisteredMeansPublished BY DEF IInv
<1>2. QED BY <1>1, SrpInvariance, PTL

-----------------------------------------------------------------------------
(* A registrar at rest.                                                    *)

\* What a waiting loop has last seen: it hands over the services it is told of,
\* and looks at the server again after every change of it.
Seen ==
    /\ run = "wait" /\ ~signal => services = wanted
    /\ Running /\ ~look => (serve = "serving" <=> server # "none")

LEMMA SeenStep == TypeCode /\ Seen /\ [Next]_vars => Seen'
<1> SUFFICES ASSUME TypeCode, Seen, [Next]_vars PROVE Seen' OBVIOUS
<1> USE DEF Seen, Running
<1>1. CASE Start \/ ReleaseFails \/ AddFails \/ WaitSrpServerFails
  BY <1>1 DEF Start, ReleaseFails, AddFails, WaitSrpServerFails, Fails
<1>2. CASE Register \/ WaitMdns
  BY <1>2 DEF Register, RegisterFrame, Unchanged, WaitMdns, otVars, worldVars
<1>3. CASE WaitSrpServer
  <2>1. UNCHANGED <<run, services, wanted, signal, server>> /\ Running /\ look
    BY <1>3 DEF WaitSrpServer, ServeFrame, worldVars
  <2>2. \/ UNCHANGED look
        \/ serve' = serve /\ IF serve = "absent" THEN server = "none" ELSE server # "none"
    BY <1>3 DEF WaitSrpServer, ServeEnds
  <2>3. CASE UNCHANGED look BY <2>1, <2>3, Zenon
  <2>4. serve = "absent" \/ serve = "serving" BY <1>3 DEF TypeCode
  <2>5. QED BY <2>1, <2>2, <2>3, <2>4
<1>4. ASSUME NEW k \in Kinds, TakeRequest(k) \/ QueryEnds(k) \/ Ask(k) PROVE Seen'
  BY <1>4 DEF TakeRequest, QueryEnds, Ask, ServeFrame, codeVars, otVars, worldVars
<1>5. CASE Want
  BY <1>5 DEF Want, codeVars, otVars, worldVars
<1>6. CASE Send \/ Receive \/ Ack \/ Lose \/ \E s \in Services : LeaseExpires(s)
  BY <1>6 DEF Send, Receive, Ack, Lose, LeaseExpires, SrpFrame, codeVars, askVars
<1>7. CASE ServerChange \/ NetifChange \/ Reboot
  BY <1>7 DEF ServerChange, NetifChange, Reboot, WorldMoves, codeVars
<1>8. CASE UNCHANGED vars
  BY <1>8 DEF vars, codeVars, otVars, worldVars, askVars
<1>9. QED BY <1>1, <1>2, <1>3, <1>4, <1>5, <1>6, <1>7, <1>8 DEF Next

\* With nothing left to do, what the client holds is what it has registered, and
\* that is both what is wanted and what is published.
LEMMA RestIsRight == IInv /\ Seen => SettledIsRight
<1> SUFFICES ASSUME IInv, Seen, NothingLeft PROVE published = wanted
  BY DEF SettledIsRight, Seen
<1>1. \A s \in Services : client[s] \in {"none", "reg"}
  BY DEF NothingLeft, NoMsg, IInv, Underway, TypeClient, States
<1>2. Running /\ services = wanted BY DEF NothingLeft, Seen, Running
<1>3. wanted = {s \in Services : client[s] = "reg"}
  BY <1>1, <1>2 DEF IInv, BeliefsAgree, Held
<1>4. published = {s \in Services : client[s] = "reg"}
  BY <1>1, <1>2 DEF NothingLeft, IInv, TypeClient, RegisteredMeansPublished
<1>5. QED BY <1>3, <1>4

\* Nowhere is the registrar stuck with the wrong set of services published, or
\* serving without a server, whatever failed, moved or raced before
\* (thread.rs:816-868).
THEOREM SettledTheorem == Spec => []SettledIsRight
<1>1. Init => Seen BY DEF Init, Seen, Running
<1>2. IInv => TypeCode BY DEF IInv
<1>3. Spec => []Seen BY <1>1, <1>2, SeenStep, SrpInvariance, PTL DEF Spec
<1>4. QED BY <1>3, RestIsRight, SrpInvariance, PTL
=============================================================================
